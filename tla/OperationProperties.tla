------------------------- MODULE OperationProperties -------------------------
(***************************************************************************)
(* Properties of OperationManager, and the ledger it implements.           *)
(***************************************************************************)
EXTENDS OperationManager

\* Every variable has its type (the shapes of Manager.active, of the rows of
\* environments and operations, and of the handlers and goroutines).
TypeOK ==
  /\ phase \in Phase
  /\ shutdownErr \in BOOLEAN
  /\ env \in [Env -> [live: BOOLEAN, owner: Owner, dir: Dir, installed: BOOLEAN]]
  /\ status \in [OpId -> Status]
  /\ lost \subseteq OpId
  /\ audit \in [OpId -> SUBSET {"requested", "completed"}]
  /\ remote \in [Dir -> Remote]
  /\ active \in [Env -> OpId \union {NoOp}]
  /\ nextId \in 1..(MaxOps + 1)
  /\ op \in [OpId -> [env: Env \union {None}, action: Action \union {None},
                      owner: Owner \union {None}]]
  /\ req \in [Req -> [pc: ReqPc, env: Env \union {None},
                      action: Action \union {None}, owner: Owner \union {None},
                      id: OpId \union {NoOp}, dir: Dir \union {None},
                      installed: BOOLEAN]]
  /\ run \in [OpId -> [pc: RunPc, dir: Dir \union {None}, stop: BOOLEAN,
                       err: ErrKind, end: Terminal \union {None}]]

-----------------------------------------------------------------------------
Running(o) == run[o].pc # "none"
Sole(e)    == \A f \in Env : f # e => env[f].dir # env[e].dir

\* "One environment runs only one install/start/stop/reset at a time"
\* (docs/architecture.md 9.2): no two goroutines work on one environment,
\* whatever requests, failures and restarts came before.
OneRunPerEnvironment ==
  \A o, p \in OpId : Running(o) /\ Running(p) /\ op[o].env = op[p].env => o = p

\* While the service is up an open row (queued, running) belongs to the
\* operation that holds its environment in Manager.active: the slot is not
\* given up before the end is on record, and none is left over by a restart.
OpenHoldsSlot ==
  \A o \in OpId :
    Alive /\ status[o] \in Unfinished /\ o \notin lost => active[op[o].env] = o

\* The account an open operation was authorised for still owns the
\* environment: CreateOperation and the transfer exclude each other.
OwnerStable ==
  \A o \in OpId :
    status[o] \in Unfinished /\ env[op[o].env].live => env[op[o].env].owner = op[o].owner

\* A history row that has ended is never opened again nor given another
\* result, by late stage updates, by the restart or by another operation.
EndIsFinal ==
  [][\A o \in OpId :
       /\ status[o] \in Terminal => status'[o] \in {status[o], "purged"}
       /\ status[o] = "purged" => status'[o] = "purged"]_vars

\* "succeeded" is written only when the server and the database agree that
\* the install or the reset took effect (the directory not being shared).
SuccessIsReal ==
  [][\A o \in OpId :
       status[o] # "succeeded" /\ status'[o] = "succeeded"
         /\ env[op[o].env].live /\ Sole(op[o].env) =>
       /\ op[o].action = "install" =>
            env[op[o].env].installed /\ "installed" \in remote[env[op[o].env].dir]
       /\ op[o].action = "reset" =>
            /\ ~env[op[o].env].installed
            /\ remote[env[op[o].env].dir] \intersect {"installed", "installing"}
                 = {"installing"}]_vars

Drift(e) == env[e].installed # ("installed" \in remote[env[e].dir])

Deploys(e) == {o \in OpId : status[o] # None /\ op[o].env = e
                              /\ op[o].action \in {"install", "reset"}}

\* When the database and the server disagree on whether a service is
\* installed, the newest install or reset of the environment did not end as
\* succeeded: the operator who looks at the last operation is never misled.
DriftOnRecord ==
  \A e \in Env :
    env[e].live /\ Sole(e) /\ Drift(e) =>
    \E o \in Deploys(e) :
      status[o] # "succeeded" /\ \A p \in Deploys(e) : p <= o

\* The completed event of an operation exists only next to its requested
\* event, and only once the end of the operation was written or refused.
AuditFollowsEnd ==
  \A o \in OpId :
    "completed" \in audit[o] =>
      "requested" \in audit[o] /\ (status[o] \in Terminal \union {"purged"} \/ o \in lost)

\* An orderly exit within the shutdown limit leaves no open row behind,
\* apart from those the store refused to close ("Wait blocks until all
\* accepted operations have persisted their terminal state").
CleanExit ==
  phase = "exited" /\ ~shutdownErr =>
    \A o \in OpId : status[o] \in Unfinished => o \in lost

-----------------------------------------------------------------------------
(***************************************************************************)
(* The inductive invariant behind these properties (proofs are in module   *)
(* OperationManager_proofs): who holds a slot, and what the rows, the      *)
(* handlers and the goroutines of one operation say of each other.         *)
(***************************************************************************)
Task       == [env: Env, action: Action, owner: Owner]
Pending(r) == req[r].pc \in {"create", "launch"}
Early(o)   == run[o].pc \notin {"none", "complete", "release"}

HandlerKnows ==
  \A r \in Req :
    /\ req[r].pc = "claim" \/ Pending(r) =>
         [env |-> req[r].env, action |-> req[r].action, owner |-> req[r].owner] \in Task
    /\ req[r].pc = "edit" => req[r].env \in Env /\ req[r].dir \in Dir

HandlerHolds ==
  \A r \in Req : Pending(r) =>
    /\ req[r].id \in 1..(nextId - 1)
    /\ op[req[r].id] = [env |-> req[r].env, action |-> req[r].action,
                        owner |-> req[r].owner]
    /\ active[req[r].env] = req[r].id
    /\ run[req[r].id].pc = "none"
    /\ status[req[r].id] = IF req[r].pc = "create" THEN None ELSE "queued"
    /\ req[r].id \notin lost

HandlersApart ==
  \A r, s \in Req : Pending(r) /\ Pending(s) /\ req[r].id = req[s].id => r = s

GoroutineHolds ==
  \A o \in OpId : Running(o) =>
    /\ op[o] \in Task
    /\ active[op[o].env] = o
    /\ IF Early(o) THEN status[o] \in Unfinished /\ o \notin lost
                   ELSE status[o] \in Terminal \/ o \in lost
    /\ run[o].pc = "finish" => run[o].end \in Terminal

NumbersKnown ==
  /\ \A e \in Env : active[e] < nextId
  /\ \A o \in OpId : status[o] # None => o < nextId /\ op[o] \in Task
  /\ \A o \in OpId : Running(o) => o < nextId
  /\ \A o \in lost : status[o] \in Unfinished

OpenIsServed ==
  Alive => \A o \in OpId : status[o] \in Unfinished /\ o \notin lost =>
             Early(o) \/ \E r \in Req : req[r].pc = "launch" /\ req[r].id = o

DeadIsIdle ==
  /\ ~Alive => /\ active = [e \in Env |-> NoOp]
               /\ \A r \in Req : req[r] = IdleReq
               /\ \A o \in OpId : run[o] = NoRun
  /\ phase = "waiting" /\ ~shutdownErr => \A r \in Req : req[r] = IdleReq

SlotInv ==
  /\ HandlerKnows /\ HandlerHolds /\ HandlersApart /\ GoroutineHolds
  /\ NumbersKnown /\ OpenIsServed /\ DeadIsIdle
  /\ OwnerStable /\ AuditFollowsEnd /\ CleanExit

-----------------------------------------------------------------------------
(***************************************************************************)
(* The inductive invariant behind SuccessIsReal and DriftOnRecord, as long *)
(* as no row is edited: where a goroutine works, what it left there before *)
(* it asks the database, and that the holder of a slot is the newest.      *)
(***************************************************************************)
InstallSteps == {"package", "connect", "sync", "work", "script", "marker", "mark"}
ResetSteps   == {"history", "reset", "unmark", "remark", "clear"}

WorksThere(o) ==
  /\ run[o].pc \in InstallSteps => op[o].action = "install"
  /\ run[o].pc \in ResetSteps => op[o].action = "reset"
  /\ run[o].pc = "command" => op[o].action \in {"start", "stop"}
  /\ run[o].pc \in InstallSteps \union ResetSteps \union {"command"} =>
       run[o].dir = env[op[o].env].dir

Markers(e)     == remote[env[e].dir] \intersect {"installed", "installing"}
Installed(e)   == env[e].installed /\ "installed" \in Markers(e)
Uninstalled(e) == ~env[e].installed /\ Markers(e) = {"installing"}

EffectKnown(o) ==
  LET e == op[o].env IN
  /\ run[o].pc = "mark" => "installed" \in Markers(e)
  /\ run[o].pc = "remark" => "installed" \notin Markers(e)
  /\ run[o].pc = "clear" => Markers(e) = {"installing"}
  /\ run[o].pc = "finish" /\ run[o].end = "succeeded" /\ env[e].live =>
       /\ op[o].action = "install" => Installed(e)
       /\ op[o].action = "reset" => Uninstalled(e)

HolderIsNewest ==
  \A e \in Env, o \in OpId :
    active[e] # NoOp /\ status[o] # None /\ op[o].env = e => o <= active[e]

EffectInv ==
  /\ \A r \in Req : req[r].pc # "edit"
  /\ \A o \in OpId : Running(o) => WorksThere(o) /\ (Sole(op[o].env) => EffectKnown(o))
  /\ HolderIsNewest /\ DriftOnRecord

-----------------------------------------------------------------------------
\* OperationManager implements the ledger: slots are Manager.active, the
\* ledger is the status column, the service is up until its process is gone.
Ledger == INSTANCE OperationLedger WITH up <- Alive, slot <- active, ledger <- status
LedgerSpec == Ledger!Spec

-----------------------------------------------------------------------------
\* Whoever holds an environment gives it back, and by then its operation
\* has ended on record, was never accepted, could not be recorded, or the
\* process has stopped: no environment stays locked, no row stays open.
HolderEndsAndFrees ==
  \A o \in OpId :
    (\E e \in Env : active[e] = o) ~>
      (\A e \in Env : active[e] # o) /\ (status[o] \notin Unfinished \/ o \in lost \/ ~Alive)

-----------------------------------------------------------------------------
(***************************************************************************)
(* Claims of the documentation and the comments that the code does not     *)
(* keep; each has a run of its own that TLC answers with a counterexample. *)
(***************************************************************************)

\* docs/architecture.md 9.5: a reset must stop what still runs on the server.
\* Said of the resets that leave stop.sh out because the newest success is a
\* stop.
ResetStopsService ==
  [][\A o \in OpId :
       status[o] # "succeeded" /\ status'[o] = "succeeded" /\ op[o].action = "reset"
       /\ LastSuccessfulAction(op[o].env) = "stop" =>
         "running" \notin remote[env[op[o].env].dir]]_vars

\* docs/architecture.md, DELETE /environments/{id}: refused while the
\* environment is installed or an operation is in progress.
DeleteOnlyIdle ==
  [][\A e \in Env :
       env[e].live /\ ~env'[e].live => ~env[e].installed /\ active[e] = NoOp]_vars

\* EnvironmentService.Update, "an installed service may not change its server
\* or its directory".
InstalledStaysPut ==
  [][\A e \in Env : env[e].live /\ env[e].installed => env'[e].dir = env[e].dir]_vars
=============================================================================
