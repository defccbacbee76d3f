--------------------------- MODULE OperationManager --------------------------
(***************************************************************************)
(* internal/operation: the install / start / stop / reset operations on    *)
(* environments, from the HTTP request that starts one to the release of   *)
(* the environment, together with everything they race with: other         *)
(* requests, the edit and the deletion of an environment, the transfer of  *)
(* an account's resources, the retention job, an orderly shutdown, a crash *)
(* and the restart that follows.                                           *)
(*                                                                         *)
(* One step is one database transaction (the store holds one connection,   *)
(* so transactions are serialised), one critical section of Manager.mu or  *)
(* one remote effect.  req[r] is an HTTP handler, run[o] the goroutine of  *)
(* operation o.                                                            *)
(***************************************************************************)
EXTENDS Naturals

CONSTANTS
  Env,        \* environments (rows of table environments)
  Owner,      \* accounts that own environments
  Dir,        \* places a service is installed at: server and directory
  Req,        \* HTTP handlers that can be in flight at once
  MaxOps,     \* bound: operations are numbered 1..MaxOps in order of claim
  Found,      \* what install directories may hold at first
  StoreMayFail, \* whether writes whose error the manager ignores may fail
  Silent,     \* whether a server may accept a connection and never answer
  Edited      \* whether rows of environments are edited

ASSUME MaxOpsAssumption == MaxOps \in Nat
ASSUME StoreMayFailAssumption == StoreMayFail \in BOOLEAN
ASSUME SilentAssumption == Silent \in BOOLEAN
ASSUME EditedAssumption == Edited \in BOOLEAN

VARIABLES
  phase,       \* of the process: see Phase
  shutdownErr, \* server.Shutdown ran into its ten second limit
  env,         \* table environments
  status,      \* column status of table operations, "none" without a row
  lost,        \* operations whose final UpdateOperation was refused
  audit,       \* audit events recorded for each operation
  remote,      \* what each install directory holds, and "running"
  active,      \* Manager.active
  nextId,      \* the next identifier NewID will return
  op,          \* domain.Operation: the fields fixed when it is created
  req,         \* HTTP handlers
  run          \* goroutines of Manager.run

vars == <<phase, shutdownErr, env, status, lost, audit, remote, active,
          nextId, op, req, run>>

-----------------------------------------------------------------------------
OpId       == 1..MaxOps
NoOp       == 0
None       == "none"
Action     == {"install", "start", "stop", "reset"}
Unfinished == {"queued", "running"}
Terminal   == {"succeeded", "failed", "timed_out", "interrupted"}
Status     == {"none", "purged"} \union Unfinished \union Terminal

(***************************************************************************)
(* "stopping": rootCtx is cancelled and server.Shutdown waits for handlers  *)
(* in flight; "waiting": inside operationManager.Wait; "exited": main's    *)
(* run has returned; "down": the process died.                             *)
(***************************************************************************)
Phase == {"up", "stopping", "waiting", "exited", "down"}
Alive     == phase \notin {"exited", "down"}
Cancelled == phase # "up"                        \* Manager.ctx.Err() != nil

\* Handlers run on after the signal; past the limit main no longer waits.
Serving == phase \in {"up", "stopping"} \/ (phase = "waiting" /\ shutdownErr)

\* Files of an install directory; "running" is the service itself.
File   == {"installed", "installing", "package", "foreign"}
Remote == SUBSET (File \union {"running"})

ASSUME FoundAssumption == Found \subseteq Remote

ErrKind == {"ok", "fault", "timeout", "cancelled", "gone", "exists"}

IdleReq == [pc |-> "idle", env |-> None, action |-> None, owner |-> None,
            id |-> NoOp, dir |-> None, installed |-> FALSE]
NoRun   == [pc |-> "none", dir |-> None, stop |-> FALSE, err |-> "ok",
            end |-> None]
NoTask  == [env |-> None, action |-> None, owner |-> None]

ReqPc == {"idle", "claim", "create", "launch", "busy", "delete", "edit"}
RunPc == {"none", "prepare", "load", "package", "connect", "work", "script",
          "marker", "mark", "sync", "command", "history", "reset", "unmark",
          "remark", "clear", "finish", "complete", "release"}

Init ==
  /\ phase = "up"
  /\ shutdownErr = FALSE
  /\ remote \in [Dir -> Found]
  /\ env \in [Env -> [live: {TRUE}, owner: Owner, dir: Dir, installed: BOOLEAN]]
  /\ \A e \in Env : env[e].installed = ("installed" \in remote[env[e].dir])
  /\ status = [o \in OpId |-> None]
  /\ lost = {}
  /\ audit = [o \in OpId |-> {}]
  /\ active = [e \in Env |-> NoOp]
  /\ nextId = 1
  /\ op = [o \in OpId |-> NoTask]
  /\ req = [r \in Req |-> IdleReq]
  /\ run = [o \in OpId |-> NoRun]

-----------------------------------------------------------------------------
(***************************************************************************)
(* Manager.start, and the handler startAction around it.                   *)
(***************************************************************************)

\* The environment is read and the action checked against it; the check is
\* not repeated once the slot is taken.
BeginStart(r, e, a) ==
  /\ Serving
  /\ req[r] = IdleReq
  /\ env[e].live
  /\ a = "install" => ~env[e].installed
  /\ a \in {"start", "stop"} => env[e].installed
  /\ req' = [req EXCEPT ![r] = [IdleReq EXCEPT !.pc = "claim", !.env = e,
                                   !.action = a, !.owner = env[e].owner]]
  /\ UNCHANGED <<phase, shutdownErr, env, status, lost, audit, remote, active,
                 nextId, op, run>>

\* 409 OPERATION_IN_PROGRESS, or the slot is taken under Manager.mu.
Conflict(r) ==
  /\ req[r].pc = "claim"
  /\ active[req[r].env] # NoOp
  /\ req' = [req EXCEPT ![r] = IdleReq]
  /\ UNCHANGED <<phase, shutdownErr, env, status, lost, audit, remote, active,
                 nextId, op, run>>

TakeSlot(r) ==
  /\ nextId \in OpId
  /\ active' = [active EXCEPT ![req[r].env] = nextId]
  /\ op' = [op EXCEPT ![nextId] = [env |-> req[r].env, action |-> req[r].action,
                                   owner |-> req[r].owner]]
  /\ nextId' = nextId + 1
  /\ req' = [req EXCEPT ![r].pc = "create", ![r].id = nextId]
  /\ UNCHANGED <<phase, shutdownErr, env, status, lost, audit, remote, run>>

\* Mutation: the map is not consulted.
ClaimUnchecked(r) == req[r].pc = "claim" /\ TakeSlot(r)
Claim(r) ==
  /\ req[r].pc = "claim"
  /\ active[req[r].env] = NoOp
  /\ TakeSlot(r)

release(e) == active' = [active EXCEPT ![e] = NoOp]

InsertOperation(r) ==
  /\ env[req[r].env].live
  /\ status' = [status EXCEPT ![req[r].id] = "queued"]
  /\ req' = [req EXCEPT ![r].pc = "launch"]
  /\ UNCHANGED <<phase, shutdownErr, env, lost, audit, remote, active, nextId,
                 op, run>>

\* Store.CreateOperation re-reads the owner in its transaction (the mutation
\* trusts the one read before the claim).
CreateUnchecked(r) == req[r].pc = "create" /\ InsertOperation(r)
CreateOperation(r) ==
  /\ req[r].pc = "create"
  /\ env[req[r].env].owner = req[r].owner
  /\ InsertOperation(r)

\* MkdirAll or CreateOperation failed: environment gone, owner changed,
\* store fault, client gone.  (The mutation forgets to release.)
RefuseWithoutRelease(r) ==
  /\ req[r].pc = "create"
  /\ req' = [req EXCEPT ![r] = IdleReq]
  /\ UNCHANGED <<phase, shutdownErr, env, status, lost, audit, remote, active,
                 nextId, op, run>>
RefuseStart(r) ==
  /\ req[r].pc = "create"
  /\ release(req[r].env)
  /\ req' = [req EXCEPT ![r] = IdleReq]
  /\ UNCHANGED <<phase, shutdownErr, env, status, lost, audit, remote, nextId,
                 op, run>>

\* The requested event is recorded, best effort, before the goroutine starts.
Launch(r) ==
  /\ req[r].pc = "launch"
  /\ \/ audit' = [audit EXCEPT ![req[r].id] = @ \union {"requested"}]
     \/ StoreMayFail /\ UNCHANGED audit
  /\ run' = [run EXCEPT ![req[r].id].pc = "prepare"]
  /\ req' = [req EXCEPT ![r] = IdleReq]
  /\ UNCHANGED <<phase, shutdownErr, env, status, lost, remote, active, nextId,
                 op>>

-----------------------------------------------------------------------------
(***************************************************************************)
(* Manager.run: helpers.                                                   *)
(***************************************************************************)

classifyError(err) ==
  [k \in ErrKind |-> CASE k = "ok"        -> "succeeded"
                       [] k = "timeout"   -> "timed_out"
                       [] k = "cancelled" -> "interrupted"
                       [] OTHER           -> "failed"][err]

StoreErr(e) == IF Cancelled THEN {"cancelled"}
               ELSE {"fault"} \union (IF env[e].live THEN {} ELSE {"gone"})
RemoteErr   == {"fault", "timeout"} \union (IF Cancelled THEN {"cancelled"} ELSE {})

Goto(o, pc) == run' = [run EXCEPT ![o].pc = pc]

\* Leave the body of run with a status that will be written next.
Conclude(o, end, err) ==
  run' = [run EXCEPT ![o] = [NoRun EXCEPT !.pc = "finish", !.end = end, !.err = err]]
Failed(o, err)  == Conclude(o, "failed", err)
Outcome(o, err) == Conclude(o, classifyError(err), err)

\* UpdateOperation(m.ctx, running): its error is ignored.
WriteRunning(o) ==
  \/ ~Cancelled /\ status' = [status EXCEPT ![o] = "running"]
  \/ (Cancelled \/ StoreMayFail) /\ UNCHANGED status

\* The columns MarkInstalled and MarkUninstalled write, when a row matches.
SetInstalled(o, flag) ==
  /\ ~Cancelled
  /\ env[op[o].env].live
  /\ env' = [env EXCEPT ![op[o].env].installed = flag]

RemoteNow(o)      == remote[run[o].dir]
SetRemote(o, now) == remote' = [remote EXCEPT ![run[o].dir] = now]

-----------------------------------------------------------------------------
(***************************************************************************)
(* Manager.run: the steps every action shares.                             *)
(***************************************************************************)

\* Mutation: without a log file, run returns before anything is written.
PrepareSilently(o) ==
  /\ run[o].pc = "prepare"
  /\ \/ Goto(o, "release") /\ UNCHANGED status
     \/ WriteRunning(o) /\ Goto(o, "load")
  /\ UNCHANGED <<phase, shutdownErr, env, lost, audit, remote, active, nextId,
                 op, req>>
Prepare(o) ==
  /\ run[o].pc = "prepare"
  /\ \/ Failed(o, "fault") /\ UNCHANGED status        \* LOG_CREATE_FAILED
     \/ WriteRunning(o) /\ Goto(o, "load")
  /\ UNCHANGED <<phase, shutdownErr, env, lost, audit, remote, active, nextId,
                 op, req>>

FirstStep == [install |-> "package", start |-> "command", stop |-> "command",
              reset |-> "history"]

\* GetEnvironment and Decrypt; whatever fails here is reported as failed.
Load(o) ==
  /\ run[o].pc = "load"
  /\ \/ /\ ~Cancelled
        /\ env[op[o].env].live
        /\ run' = [run EXCEPT ![o].pc = FirstStep[op[o].action],
                              ![o].dir = env[op[o].env].dir]
     \/ \E err \in StoreErr(op[o].env) : Failed(o, err)
  /\ UNCHANGED <<phase, shutdownErr, env, status, lost, audit, remote, active,
                 nextId, op, req>>

-----------------------------------------------------------------------------
(***************************************************************************)
(* install.                                                                *)
(***************************************************************************)

\* Stage "package": SnapshotForOwner and GetServiceConfig.
Package(o) ==
  /\ run[o].pc = "package"
  /\ WriteRunning(o)
  /\ \/ ~Cancelled /\ Goto(o, "connect")
     \/ \E err \in StoreErr(op[o].env) : Failed(o, err)
  /\ UNCHANGED <<phase, shutdownErr, env, lost, audit, remote, active, nextId,
                 op, req>>

\* Executor.Install up to the transaction marker.
Connect(o) ==
  /\ run[o].pc = "connect"
  /\ \/ /\ "installed" \in RemoteNow(o)                \* ExistingInstallationError
        /\ Goto(o, "sync")
        /\ UNCHANGED remote
     \/ /\ "installed" \notin RemoteNow(o)
        /\ "installing" \in RemoteNow(o) \/ RemoteNow(o) \intersect File = {}
        /\ SetRemote(o, RemoteNow(o) \union {"installing"})
        /\ Goto(o, "work") \/ Outcome(o, "fault")
     \/ /\ "installed" \notin RemoteNow(o)             \* INSTALL_DIR_NOT_EMPTY
        /\ "installing" \notin RemoteNow(o)
        /\ RemoteNow(o) \intersect File # {}
        /\ Outcome(o, "fault")
        /\ UNCHANGED remote
     \/ \E err \in RemoteErr : Outcome(o, err) /\ UNCHANGED remote
  /\ UNCHANGED <<phase, shutdownErr, env, status, lost, audit, active, nextId,
                 op, req>>

\* The marker found on the server is copied to the database, best effort;
\* the operation itself has failed with ALREADY_INSTALLED.
Sync(o) ==
  /\ run[o].pc = "sync"
  /\ \/ SetInstalled(o, TRUE)
     \/ (Cancelled \/ ~env[op[o].env].live \/ StoreMayFail) /\ UNCHANGED env
  /\ Outcome(o, "exists")
  /\ UNCHANGED <<phase, shutdownErr, status, lost, audit, remote, active,
                 nextId, op, req>>

\* Upload and extraction; an extraction cut short leaves some files.
Work(o) ==
  /\ run[o].pc = "work"
  /\ \/ SetRemote(o, RemoteNow(o) \union {"package"}) /\ Goto(o, "script")
     \/ /\ \E left \in {{}, {"package"}} : SetRemote(o, RemoteNow(o) \union left)
        /\ \E err \in RemoteErr : Outcome(o, err)
  /\ UNCHANGED <<phase, shutdownErr, env, status, lost, audit, active, nextId,
                 op, req>>

\* install.sh, or start.sh: a script that fails may have started the service.
Script(o) ==
  /\ run[o].pc = "script"
  /\ \/ SetRemote(o, RemoteNow(o) \union {"running"}) /\ Goto(o, "marker")
     \/ /\ \E left \in {{}, {"running"}} : SetRemote(o, RemoteNow(o) \union left)
        /\ \E err \in RemoteErr : Outcome(o, err)
  /\ UNCHANGED <<phase, shutdownErr, env, status, lost, audit, active, nextId,
                 op, req>>

\* The installed marker; removing the other one may fail unnoticed.  An SFTP
\* request that fails may have taken effect, here as in the reset.
Marker(o) ==
  /\ run[o].pc = "marker"
  /\ \/ /\ \E stays \in {{}, {"installing"}} :
             SetRemote(o, (RemoteNow(o) \ {"installing"})
                            \union stays \union {"installed"})
        /\ Goto(o, "mark")
     \/ /\ \E left \in {{}, {"installed"}} : SetRemote(o, RemoteNow(o) \union left)
        /\ Outcome(o, "fault")
  /\ UNCHANGED <<phase, shutdownErr, env, status, lost, audit, active, nextId,
                 op, req>>

\* UpsertServiceConfig and MarkInstalled (the mutation ignores its error).
MarkBestEffort(o) ==
  /\ run[o].pc = "mark"
  /\ SetInstalled(o, TRUE) \/ UNCHANGED env
  /\ Outcome(o, "ok")
  /\ UNCHANGED <<phase, shutdownErr, status, lost, audit, remote, active,
                 nextId, op, req>>
Mark(o) ==
  /\ run[o].pc = "mark"
  /\ \/ SetInstalled(o, TRUE) /\ Outcome(o, "ok")
     \/ \E err \in StoreErr(op[o].env) : Outcome(o, err) /\ UNCHANGED env
  /\ UNCHANGED <<phase, shutdownErr, status, lost, audit, remote, active,
                 nextId, op, req>>

-----------------------------------------------------------------------------
(***************************************************************************)
(* start and stop: RunScript.  The environment is not checked again.       *)
(***************************************************************************)

AfterScript(o) == IF op[o].action = "start" THEN RemoteNow(o) \union {"running"}
                                            ELSE RemoteNow(o) \ {"running"}

Command(o) ==
  /\ run[o].pc = "command"
  /\ WriteRunning(o)
  /\ \/ /\ "package" \in RemoteNow(o)
        /\ SetRemote(o, AfterScript(o))
        /\ Outcome(o, "ok")
     \/ /\ \/ UNCHANGED remote
           \/ "package" \in RemoteNow(o) /\ SetRemote(o, AfterScript(o))
        /\ \E err \in RemoteErr : Outcome(o, err)
  /\ UNCHANGED <<phase, shutdownErr, env, lost, audit, active, nextId, op, req>>

-----------------------------------------------------------------------------
(***************************************************************************)
(* reset.                                                                  *)
(***************************************************************************)

Succeeded(e) == {o \in OpId : status[o] = "succeeded" /\ op[o].env = e}

\* The newest successful operation; created_at follows the order of claims.
LastSuccessfulAction(e) ==
  IF Succeeded(e) = {} THEN None
  ELSE op[CHOOSE o \in Succeeded(e) : \A p \in Succeeded(e) : p <= o].action

History(o) ==
  /\ run[o].pc = "history"
  /\ \/ /\ ~Cancelled
        /\ run' = [run EXCEPT ![o].pc = "reset",
                     ![o].stop = LastSuccessfulAction(op[o].env) # "stop"]
     \/ \E err \in StoreErr(op[o].env) : Failed(o, err)
  /\ UNCHANGED <<phase, shutdownErr, env, status, lost, audit, remote, active,
                 nextId, op, req>>

\* ResetInstallation: stop.sh, when it is wanted, there, and can be looked at;
\* a Stat that fails for any reason skips it.
Reset(o) ==
  /\ run[o].pc = "reset"
  /\ WriteRunning(o)
  /\ \/ UNCHANGED remote
     \/ run[o].stop /\ "package" \in RemoteNow(o)
          /\ SetRemote(o, RemoteNow(o) \ {"running"})
  /\ Goto(o, "unmark") \/ \E err \in RemoteErr : Outcome(o, err)
  /\ UNCHANGED <<phase, shutdownErr, env, lost, audit, active, nextId, op, req>>

Unmark(o) ==
  /\ run[o].pc = "unmark"
  /\ \/ /\ SetRemote(o, RemoteNow(o) \ {"installed"})
        /\ Goto(o, "remark") \/ Outcome(o, "fault")
     \/ Outcome(o, "fault") /\ UNCHANGED remote
  /\ UNCHANGED <<phase, shutdownErr, env, status, lost, audit, active, nextId,
                 op, req>>

\* The old transaction marker is removed, a new one written.
Remark(o) ==
  /\ run[o].pc = "remark"
  /\ \/ /\ SetRemote(o, RemoteNow(o) \union {"installing"})
        /\ Goto(o, "clear") \/ Outcome(o, "fault")
     \/ SetRemote(o, RemoteNow(o) \ {"installing"}) /\ Outcome(o, "fault")
  /\ UNCHANGED <<phase, shutdownErr, env, status, lost, audit, active, nextId,
                 op, req>>

\* MarkUninstalled (the mutation ignores its error).
ClearBestEffort(o) ==
  /\ run[o].pc = "clear"
  /\ SetInstalled(o, FALSE) \/ UNCHANGED env
  /\ Outcome(o, "ok")
  /\ UNCHANGED <<phase, shutdownErr, status, lost, audit, remote, active,
                 nextId, op, req>>
Clear(o) ==
  /\ run[o].pc = "clear"
  /\ \/ SetInstalled(o, FALSE) /\ Outcome(o, "ok")
     \/ \E err \in StoreErr(op[o].env) : Outcome(o, err) /\ UNCHANGED env
  /\ UNCHANGED <<phase, shutdownErr, status, lost, audit, remote, active,
                 nextId, op, req>>

-----------------------------------------------------------------------------
(***************************************************************************)
(* The end of run: finish, CompleteOperation and the deferred release.     *)
(***************************************************************************)

\* UpdateOperation(context.Background()): a refusal is only logged.
Finish(o) ==
  /\ run[o].pc = "finish"
  /\ \/ status' = [status EXCEPT ![o] = run[o].end] /\ UNCHANGED lost
     \/ StoreMayFail /\ lost' = lost \union {o} /\ UNCHANGED status
  /\ run' = [run EXCEPT ![o] = [NoRun EXCEPT !.pc = "complete"]]
  /\ UNCHANGED <<phase, shutdownErr, env, audit, remote, active, nextId, op, req>>

\* The completed event needs the requested one; recording it is best effort.
\* (The mutation does not look for the requested event.)
CompleteAlways(o) ==
  /\ run[o].pc = "complete"
  /\ audit' = [audit EXCEPT ![o] = @ \union {"completed"}]
  /\ Goto(o, "release")
  /\ UNCHANGED <<phase, shutdownErr, env, status, lost, remote, active, nextId,
                 op, req>>
CompleteOperation(o) ==
  /\ run[o].pc = "complete"
  /\ \/ /\ "requested" \in audit[o]
        /\ audit' = [audit EXCEPT ![o] = @ \union {"completed"}]
     \/ ("requested" \notin audit[o] \/ StoreMayFail) /\ UNCHANGED audit
  /\ Goto(o, "release")
  /\ UNCHANGED <<phase, shutdownErr, env, status, lost, remote, active, nextId,
                 op, req>>

Release(o) ==
  /\ run[o].pc = "release"
  /\ release(op[o].env)
  /\ run' = [run EXCEPT ![o] = NoRun]
  /\ UNCHANGED <<phase, shutdownErr, env, status, lost, audit, remote, nextId,
                 op, req>>

-----------------------------------------------------------------------------
(***************************************************************************)
(* What operations race with: edit and deletion of the environment, the    *)
(* transfer of an account's resources, the retention of ended operations.  *)
(***************************************************************************)

\* deleteEnvironment: the row is read, then Busy is asked, then it deletes.
BeginDelete(r, e) ==
  /\ Serving
  /\ req[r] = IdleReq
  /\ env[e].live
  /\ ~env[e].installed
  /\ req' = [req EXCEPT ![r] = [IdleReq EXCEPT !.pc = "busy", !.env = e]]
  /\ UNCHANGED <<phase, shutdownErr, env, status, lost, audit, remote, active,
                 nextId, op, run>>

Busy(e) == active[e] # NoOp

CheckBusy(r) ==
  /\ req[r].pc = "busy"
  /\ req' = [req EXCEPT ![r] = IF Busy(req[r].env) THEN IdleReq
                               ELSE [req[r] EXCEPT !.pc = "delete"]]
  /\ UNCHANGED <<phase, shutdownErr, env, status, lost, audit, remote, active,
                 nextId, op, run>>

DeleteEnvironment(r) ==
  /\ req[r].pc = "delete"
  /\ env' = [env EXCEPT ![req[r].env].live = FALSE]
  /\ req' = [req EXCEPT ![r] = IdleReq]
  /\ UNCHANGED <<phase, shutdownErr, status, lost, audit, remote, active, nextId,
                 op, run>>

\* EnvironmentService.Update: the row is read; whether the service may be
\* moved is decided on what was read.
BeginEdit(r, e, d) ==
  /\ Edited /\ Serving
  /\ req[r] = IdleReq
  /\ env[e].live
  /\ env[e].installed => d = env[e].dir
  /\ req' = [req EXCEPT ![r] = [IdleReq EXCEPT !.pc = "edit", !.env = e, !.dir = d,
                                   !.installed = env[e].installed]]
  /\ UNCHANGED <<phase, shutdownErr, env, status, lost, audit, remote, active,
                 nextId, op, run>>

\* The statement writes the whole row back, the install flag included, or
\* is refused (unique key, row gone).
UpdateEnvironment(r) ==
  /\ req[r].pc = "edit"
  /\ \/ /\ env[req[r].env].live
        /\ env' = [env EXCEPT ![req[r].env].dir = req[r].dir,
                              ![req[r].env].installed = req[r].installed]
     \/ UNCHANGED env
  /\ req' = [req EXCEPT ![r] = IdleReq]
  /\ UNCHANGED <<phase, shutdownErr, status, lost, audit, remote, active, nextId,
                 op, run>>

\* validateTransfer and TransferResources, one transaction.
TransferResources(source, target) ==
  /\ Serving
  /\ source # target
  /\ \A o \in OpId : status[o] \in Unfinished => op[o].owner # source
  /\ env' = [e \in Env |->
               IF env[e].live /\ env[e].owner = source
               THEN [env[e] EXCEPT !.owner = target] ELSE env[e]]
  /\ UNCHANGED <<phase, shutdownErr, status, lost, audit, remote, active, nextId,
                 op, req, run>>

\* The retention job; the goroutine of so old an operation has long returned.
DeleteTerminalOperationsBefore(o) ==
  /\ ~Cancelled
  /\ status[o] \in Terminal
  /\ run[o].pc = "none"
  /\ status' = [status EXCEPT ![o] = "purged"]
  /\ UNCHANGED <<phase, shutdownErr, env, lost, audit, remote, active, nextId,
                 op, req, run>>

-----------------------------------------------------------------------------
(***************************************************************************)
(* The process: cmd/dp/main.go and store.Open.                             *)
(***************************************************************************)

\* A signal, or a failed listener, cancels rootCtx; server.Shutdown closes
\* the listener.
Signal ==
  /\ phase = "up"
  /\ phase' = "stopping"
  /\ UNCHANGED <<shutdownErr, env, status, lost, audit, remote, active, nextId,
                 op, req, run>>

\* server.Shutdown returns: no handler is left, or ten seconds are over.
Drained ==
  /\ phase = "stopping"
  /\ phase' = "waiting"
  /\ \/ (\A r \in Req : req[r] = IdleReq) /\ shutdownErr' = FALSE
     \/ (\E r \in Req : req[r] # IdleReq) /\ shutdownErr' = TRUE
  /\ UNCHANGED <<env, status, lost, audit, remote, active, nextId, op, req, run>>

\* Whatever is in memory is gone.
Vanish ==
  /\ active' = [e \in Env |-> NoOp]
  /\ req' = [r \in Req |-> IdleReq]
  /\ run' = [o \in OpId |-> NoRun]
  /\ UNCHANGED <<env, status, lost, audit, remote, nextId, op>>

\* Manager.Wait returns when no goroutine is left (mutation: at once).
WaitForNothing == phase = "waiting"
Wait           == phase = "waiting" /\ \A o \in OpId : run[o].pc = "none"

Exit ==
  /\ Wait
  /\ phase' = "exited"
  /\ Vanish
  /\ UNCHANGED shutdownErr

Crash ==
  /\ Alive
  /\ phase' = "down"
  /\ Vanish
  /\ UNCHANGED shutdownErr

Interrupt(open) ==
  status' = [o \in OpId |-> IF status[o] \in open THEN "interrupted" ELSE status[o]]
InterruptRunning          == Interrupt({"running"})          \* mutation
InterruptEverything       == Interrupt(Status \ {"none"})    \* mutation
InterruptActiveOperations == Interrupt(Unfinished)

\* store.Open closes what was left open.
Restart ==
  /\ ~Alive
  /\ phase' = "up"
  /\ shutdownErr' = FALSE
  /\ InterruptActiveOperations
  /\ lost' = {}
  /\ UNCHANGED <<env, audit, remote, active, nextId, op, req, run>>

-----------------------------------------------------------------------------
Handler(r) ==
  \/ \E e \in Env, a \in Action : BeginStart(r, e, a)
  \/ Conflict(r) \/ Claim(r) \/ CreateOperation(r) \/ RefuseStart(r) \/ Launch(r)
  \/ \E e \in Env : BeginDelete(r, e)
  \/ CheckBusy(r) \/ DeleteEnvironment(r)
  \/ \E e \in Env, d \in Dir : BeginEdit(r, e, d)
  \/ UpdateEnvironment(r)

Goroutine(o) ==
  \/ Prepare(o) \/ Load(o)
  \/ Package(o) \/ Connect(o) \/ Sync(o) \/ Work(o) \/ Script(o) \/ Marker(o) \/ Mark(o)
  \/ Command(o)
  \/ History(o) \/ Reset(o) \/ Unmark(o) \/ Remark(o) \/ Clear(o)
  \/ Finish(o) \/ CompleteOperation(o) \/ Release(o)

Background ==
  \/ \E source, target \in Owner : TransferResources(source, target)
  \/ \E o \in OpId : DeleteTerminalOperationsBefore(o)

Process == Signal \/ Drained \/ Exit \/ Crash \/ Restart

Next ==
  \/ \E r \in Req : Handler(r)
  \/ \E o \in OpId : Goroutine(o)
  \/ Background
  \/ Process

Spec == Init /\ [][Next]_vars

(***************************************************************************)
(* A goroutine is scheduled, and its waits are bounded by the connection,  *)
(* upload, extraction and script timeouts; so is a handler that has taken  *)
(* a slot.  One wait is not: connect limits the TCP dial, the SSH handshake *)
(* after it takes as long as the server likes (Silent).  Nobody is obliged *)
(* to send requests or to restart the service.                             *)
(***************************************************************************)
Connecting(o) == run[o].pc \in {"connect", "command", "reset"}

Fairness ==
  /\ \A r \in Req : WF_vars(CreateOperation(r) \/ RefuseStart(r) \/ Launch(r))
  /\ \A o \in OpId : WF_vars(~(Silent /\ Connecting(o)) /\ Goroutine(o))

FairSpec == Spec /\ Fairness
=============================================================================
