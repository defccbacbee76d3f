----------------------- MODULE OperationManager_proofs -----------------------
(***************************************************************************)
(* Safety of OperationManager for every set of environments, accounts,     *)
(* directories and handlers and every number of operations.                *)
(*                                                                         *)
(* The invariant SlotInv ties together what the map of slots, the rows,    *)
(* the handlers and the goroutines say of one operation.  Fifteen of the   *)
(* steps of a goroutine do the same to it (Progress), as do seven of the   *)
(* steps of a handler (Considers); the others have a lemma each.  The      *)
(* last part maps every step to one of OperationLedger.                    *)
(***************************************************************************)
EXTENDS OperationProperties, TLAPS

USE MaxOpsAssumption DEF OpId, NoOp, None, Unfinished, Terminal, Status

RunRecord == [pc: RunPc, dir: Dir \union {None}, stop: BOOLEAN,
              err: ErrKind, end: Terminal \union {None}]

\* The initial state has its types.
LEMMA InitType == Init => TypeOK
<1> SUFFICES ASSUME Init PROVE TypeOK
  OBVIOUS
<1> USE DEF Init
<1>1. remote \in [Dir -> Remote]
  BY FoundAssumption
<1>2. phase \in Phase /\ shutdownErr \in BOOLEAN
  BY DEF Phase
<1>3a. env \in [Env -> [live: BOOLEAN, owner: Owner, dir: Dir, installed: BOOLEAN]]
  <2>1. ASSUME NEW e \in Env
        PROVE  env[e] \in [live: BOOLEAN, owner: Owner, dir: Dir, installed: BOOLEAN]
    OBVIOUS
  <2> QED
    BY <2>1
<1>3b. status \in [OpId -> Status] /\ lost \subseteq OpId
  OBVIOUS
<1>3c. audit \in [OpId -> SUBSET {"requested", "completed"}]
  OBVIOUS
<1>3d. active \in [Env -> OpId \union {NoOp}] /\ nextId \in 1..(MaxOps + 1)
  OBVIOUS
<1>4. op \in [OpId -> [env: Env \union {None}, action: Action \union {None},
                      owner: Owner \union {None}]]
  BY DEF NoTask
<1>5. req \in [Req -> [pc: ReqPc, env: Env \union {None},
                      action: Action \union {None}, owner: Owner \union {None},
                      id: OpId \union {NoOp}, dir: Dir \union {None},
                      installed: BOOLEAN]]
  BY DEF IdleReq, ReqPc
<1>6. run \in [OpId -> [pc: RunPc, dir: Dir \union {None}, stop: BOOLEAN,
                       err: ErrKind, end: Terminal \union {None}]]
  BY DEF NoRun, RunPc, ErrKind
<1> QED
  BY <1>1, <1>2, <1>3a, <1>3b, <1>3c, <1>3d, <1>4, <1>5, <1>6 DEF TypeOK

\* At the start every slot is free and nobody knows a number.
LEMMA InitSlots == Init => SlotInv
<1> SUFFICES ASSUME Init PROVE SlotInv
  OBVIOUS
<1> USE DEF Init
<1>1. HandlerKnows /\ HandlerHolds /\ HandlersApart
  BY DEF HandlerKnows, HandlerHolds, HandlersApart, IdleReq, Pending
<1>2. GoroutineHolds /\ NumbersKnown
  BY DEF GoroutineHolds, NumbersKnown, Running, NoRun
<1>3. OpenIsServed /\ DeadIsIdle
  BY DEF OpenIsServed, DeadIsIdle, Alive
<1>4. OwnerStable /\ AuditFollowsEnd /\ CleanExit
  BY DEF OwnerStable, AuditFollowsEnd, CleanExit
<1> QED
  BY <1>1, <1>2, <1>3, <1>4 DEF SlotInv

-----------------------------------------------------------------------------
\* What a handler with a slot knows of it.
LEMMA PendingFacts ==
  ASSUME TypeOK, SlotInv, NEW r \in Req, Pending(r)
  PROVE  /\ req[r].id \in OpId /\ req[r].id < nextId /\ req[r].id \notin lost
         /\ req[r].env \in Env /\ active[req[r].env] = req[r].id
         /\ op[req[r].id] \in Task
         /\ op[req[r].id].env = req[r].env /\ op[req[r].id].owner = req[r].owner
         /\ run[req[r].id].pc = "none"
         /\ status[req[r].id] = IF req[r].pc = "create" THEN None ELSE "queued"
<1> DEFINE task == [env |-> req[r].env, action |-> req[r].action, owner |-> req[r].owner]
<1>1. task \in Task /\ task.env = req[r].env /\ task.owner = req[r].owner
  BY DEF SlotInv, HandlerKnows
<1>2. req[r].env \in Env
  BY <1>1 DEF Task
<1>3. /\ req[r].id \in 1..(nextId - 1) /\ op[req[r].id] = task
      /\ active[req[r].env] = req[r].id /\ run[req[r].id].pc = "none"
      /\ status[req[r].id] = IF req[r].pc = "create" THEN None ELSE "queued"
      /\ req[r].id \notin lost
  BY DEF SlotInv, HandlerHolds
<1>4. req[r].id \in OpId /\ req[r].id < nextId
  BY <1>3 DEF TypeOK
<1> HIDE DEF task
<1> QED
  BY <1>1, <1>2, <1>3, <1>4

\* What a goroutine knows of its slot.
LEMMA RunningFacts ==
  ASSUME TypeOK, SlotInv, NEW o \in OpId, Running(o)
  PROVE  /\ op[o] \in Task /\ op[o].env \in Env
         /\ active[op[o].env] = o /\ o < nextId
  BY DEF SlotInv, GoroutineHolds, NumbersKnown, Task

-----------------------------------------------------------------------------
\* MarkInstalled and MarkUninstalled keep a row and its owner.
Rows == [live: BOOLEAN, owner: Owner, dir: Dir, installed: BOOLEAN]

EnvKept ==
  /\ env' \in [Env -> Rows]
  /\ \A e \in Env : env'[e].live = env[e].live /\ env'[e].owner = env[e].owner

\* Goroutine o moves on, its end still to be written.
MovesOn(o) ==
  \E now \in RunRecord :
    /\ now.pc \notin {"none", "complete", "release"}
    /\ now.pc = "finish" => now.end \in Terminal
    /\ run' = [run EXCEPT ![o] = now]

\* All a step of goroutine o may do before its end is written.
Progress(o) ==
  /\ Early(o)
  /\ MovesOn(o)
  /\ status' = status \/ status' = [status EXCEPT ![o] = "running"]
  /\ EnvKept
  /\ remote' \in [Dir -> Remote]
  /\ UNCHANGED <<phase, shutdownErr, lost, audit, active, nextId, op, req>>

\* A step of a run that only progresses leaves slots and types intact.
LEMMA ProgressSlots ==
  ASSUME TypeOK, SlotInv, NEW o \in OpId, Progress(o)
  PROVE  TypeOK' /\ SlotInv'
<1> USE DEF Progress, MovesOn, EnvKept, Rows
<1>1. TypeOK'
  BY DEF TypeOK, RunRecord
<1>2. Running(o) /\ status[o] \in Unfinished /\ o \notin lost
  BY DEF SlotInv, GoroutineHolds, Running, Early
<1>3. \A p \in OpId : /\ p # o => run'[p] = run[p] /\ status'[p] = status[p]
                      /\ Running(p)' = Running(p)
                      /\ Early(p)' = Early(p)
  BY DEF TypeOK, Running, Early
<1>4. status'[o] \in Unfinished
  BY <1>2 DEF TypeOK
<1>5. \A p \in OpId : status'[p] \in Unfinished <=> status[p] \in Unfinished
  BY <1>2, <1>3, <1>4
<1>6. \A r \in Req : Pending(r) => req[r].id # o
  BY <1>2, PendingFacts DEF Running
<1>7. HandlerKnows' /\ HandlersApart'
  BY DEF SlotInv, HandlerKnows, HandlersApart, Pending
<1>8. HandlerHolds'
  BY <1>3, <1>6 DEF TypeOK, SlotInv, HandlerHolds, Pending
<1>9. GoroutineHolds'
  BY <1>2, <1>3, <1>4 DEF TypeOK, SlotInv, GoroutineHolds, Running, Early, RunRecord
<1>10. NumbersKnown'
  BY <1>2, <1>3, <1>4 DEF TypeOK, SlotInv, NumbersKnown
<1>11. OpenIsServed'
  BY <1>3, <1>5 DEF SlotInv, OpenIsServed, Alive
<1>12. DeadIsIdle'
  BY <1>2 DEF SlotInv, DeadIsIdle, Alive, Running, NoRun
<1>13. OwnerStable'
  BY <1>5 DEF SlotInv, OwnerStable, NumbersKnown, Task
<1>14. AuditFollowsEnd' 
  BY <1>2, <1>3 DEF SlotInv, AuditFollowsEnd
<1>15. CleanExit'
  BY <1>5 DEF SlotInv, CleanExit
<1> QED
  BY <1>1, <1>7, <1>8, <1>9, <1>10, <1>11, <1>12, <1>13, <1>14, <1>15 DEF SlotInv

-----------------------------------------------------------------------------
\* Every step of Manager.run up to Finish is such a progress.

\* Going on to a later step moves the run on.
LEMMA GotoMoves ==
  ASSUME TypeOK, NEW o \in OpId, NEW pc \in RunPc,
         pc \notin {"none", "complete", "release", "finish"}, Goto(o, pc)
  PROVE  MovesOn(o)
<1> DEFINE now == [run[o] EXCEPT !.pc = pc]
<1>1. run[o] \in RunRecord
  BY DEF TypeOK, RunRecord
<1>2. now \in RunRecord /\ now.pc = pc
  BY <1>1 DEF RunRecord
<1>3. run' = [run EXCEPT ![o] = now]
  BY DEF Goto
<1> QED
  BY <1>2, <1>3 DEF MovesOn

\* Concluding moves the run on to finish.
LEMMA ConcludeMoves ==
  ASSUME TypeOK, NEW o \in OpId, NEW end \in Terminal, NEW err \in ErrKind,
         Conclude(o, end, err)
  PROVE  MovesOn(o)
  BY DEF Conclude, MovesOn, RunRecord, NoRun, RunPc

\* So does failing,
LEMMA FailedMoves ==
  ASSUME TypeOK, NEW o \in OpId, NEW err \in ErrKind, Failed(o, err)
  PROVE  MovesOn(o)
  BY ConcludeMoves DEF Failed

\* and ending with the status an error is classified as.
LEMMA OutcomeMoves ==
  ASSUME TypeOK, NEW o \in OpId, NEW err \in ErrKind, Outcome(o, err)
  PROVE  MovesOn(o)
<1>1. classifyError(err) \in Terminal
  BY DEF classifyError, ErrKind
<1> QED
  BY <1>1, ConcludeMoves DEF Outcome

\* What store and server answer are kinds of errors.
LEMMA ErrKinds ==
  /\ \A e : StoreErr(e) \subseteq ErrKind
  /\ RemoteErr \subseteq ErrKind
  /\ {"ok", "fault", "exists"} \subseteq ErrKind
  BY DEF StoreErr, RemoteErr, ErrKind

\* Marking an environment changes neither its owner nor its existence.
LEMMA SetInstalledKeeps ==
  ASSUME TypeOK, NEW o \in OpId, NEW flag \in BOOLEAN, SetInstalled(o, flag)
  PROVE  EnvKept
<1> DEFINE row == [env[op[o].env] EXCEPT !.installed = flag]
<1>1. env \in [Env -> Rows]
  BY DEF TypeOK, Rows
<1>2. env' = [env EXCEPT ![op[o].env] = row]
  BY DEF SetInstalled
<1>3. CASE op[o].env \in Env
  <2>1. env[op[o].env] \in Rows
    BY <1>1, <1>3
  <2>2. /\ row \in Rows
        /\ row.live = env[op[o].env].live /\ row.owner = env[op[o].env].owner
    BY <2>1 DEF Rows
  <2> HIDE DEF row
  <2> QED
    BY <1>1, <1>2, <2>2 DEF EnvKept
<1>4. CASE op[o].env \notin Env
  BY <1>1, <1>2, <1>4 DEF EnvKept
<1> QED
  BY <1>3, <1>4

\* An unchanged table is kept.
LEMMA EnvSame ==
  ASSUME TypeOK, UNCHANGED env
  PROVE  EnvKept
  BY DEF TypeOK, EnvKept, Rows

\* A change on the server leaves a directory what a directory can be.
LEMMA SetRemoteKeeps ==
  ASSUME TypeOK, NEW o \in OpId, NEW now, SetRemote(o, now),
         now \subseteq RemoteNow(o) \union File \union {"running"}
  PROVE  remote' \in [Dir -> Remote]
<1>1. CASE run[o].dir \in Dir
  <2>1. now \in Remote
    BY <1>1 DEF TypeOK, RemoteNow, Remote
  <2> QED
    BY <2>1 DEF TypeOK, SetRemote
<1>2. CASE run[o].dir \notin Dir
  BY <1>2 DEF TypeOK, SetRemote
<1> QED
  BY <1>1, <1>2

\* WriteRunning moves the run on and touches no environment.
LEMMA PrepareProgress ==
  ASSUME TypeOK, NEW o \in OpId, Prepare(o)
  PROVE  Progress(o)
<1>1. Early(o)
  BY DEF Prepare, Early
<1>2. MovesOn(o)
  BY GotoMoves, FailedMoves, ErrKinds DEF Prepare, RunPc
<1>3. EnvKept
  BY EnvSame DEF Prepare
<1>4. remote' \in [Dir -> Remote]
  BY DEF Prepare, TypeOK
<1> QED
  BY <1>1, <1>2, <1>3, <1>4 DEF Prepare, Progress, WriteRunning

\* GetEnvironment and Decrypt move the run on, to the kind of work or to a
\* failure.
LEMMA LoadProgress ==
  ASSUME TypeOK, SlotInv, NEW o \in OpId, Load(o)
  PROVE  Progress(o)
<1>1. Early(o)
  BY DEF Load, Early
<1>2. MovesOn(o)
  <2>1. CASE \E err \in StoreErr(op[o].env) : Failed(o, err)
    BY <2>1, FailedMoves, ErrKinds
  <2>2. CASE ~ \E err \in StoreErr(op[o].env) : Failed(o, err)
    <3> DEFINE now == [run[o] EXCEPT !.pc = FirstStep[op[o].action],
                                     !.dir = env[op[o].env].dir]
    <3>1. env[op[o].env].dir \in Dir
      BY <2>2 DEF Load, TypeOK, SlotInv, GoroutineHolds, Running, Task
    <3>2. FirstStep[op[o].action] \in {"package", "command", "history"}
      BY DEF Load, SlotInv, GoroutineHolds, Running, Task, FirstStep, Action
    <3>3. run[o] \in RunRecord
      BY DEF TypeOK, RunRecord
    <3>4. /\ now \in RunRecord
          /\ now.pc \in {"package", "command", "history"}
      BY <3>1, <3>2, <3>3 DEF RunRecord, RunPc
    <3>5. run' = [run EXCEPT ![o] = now]
      BY <2>2 DEF Load
    <3> QED
      BY <3>4, <3>5 DEF MovesOn
  <2> QED
    BY <2>1, <2>2
<1>3. EnvKept
  BY EnvSame DEF Load
<1>4. remote' \in [Dir -> Remote]
  BY DEF Load, TypeOK
<1> QED
  BY <1>1, <1>2, <1>3, <1>4 DEF Load, Progress

\* Taking the package and the configuration touches no environment.
LEMMA PackageProgress ==
  ASSUME TypeOK, NEW o \in OpId, Package(o)
  PROVE  Progress(o)
<1>1. Early(o)
  BY DEF Package, Early
<1>2. MovesOn(o)
  BY GotoMoves, FailedMoves, ErrKinds DEF Package, RunPc
<1>3. EnvKept
  BY EnvSame DEF Package
<1>4. remote' \in [Dir -> Remote]
  BY DEF Package, TypeOK
<1> QED
  BY <1>1, <1>2, <1>3, <1>4 DEF Package, Progress, WriteRunning

\* Connecting changes at most the files of the directory.
LEMMA ConnectProgress ==
  ASSUME TypeOK, NEW o \in OpId, Connect(o)
  PROVE  Progress(o)
<1>1. Early(o)
  BY DEF Connect, Early
<1>2. MovesOn(o)
  BY GotoMoves, OutcomeMoves, ErrKinds DEF Connect, RunPc
<1>3. EnvKept
  BY EnvSame DEF Connect
<1>4. remote' \in [Dir -> Remote]
  BY SetRemoteKeeps DEF Connect, TypeOK, File
<1> QED
  BY <1>1, <1>2, <1>3, <1>4 DEF Connect, Progress

\* An installed marker that is found sets the flag of the row.
LEMMA SyncProgress ==
  ASSUME TypeOK, NEW o \in OpId, Sync(o)
  PROVE  Progress(o)
<1>1. Early(o)
  BY DEF Sync, Early
<1>2. MovesOn(o)
  BY OutcomeMoves, ErrKinds DEF Sync
<1>3. EnvKept
  BY SetInstalledKeeps, EnvSame DEF Sync
<1>4. remote' \in [Dir -> Remote]
  BY DEF Sync, TypeOK
<1> QED
  BY <1>1, <1>2, <1>3, <1>4 DEF Sync, Progress

\* Upload and extraction leave the directory what a directory can be.
LEMMA WorkProgress ==
  ASSUME TypeOK, NEW o \in OpId, Work(o)
  PROVE  Progress(o)
<1>1. Early(o)
  BY DEF Work, Early
<1>2. MovesOn(o)
  BY GotoMoves, OutcomeMoves, ErrKinds DEF Work, RunPc
<1>3. EnvKept
  BY EnvSame DEF Work
<1>4. remote' \in [Dir -> Remote]
  BY SetRemoteKeeps DEF Work, TypeOK, File
<1> QED
  BY <1>1, <1>2, <1>3, <1>4 DEF Work, Progress

\* So do scripts,
LEMMA ScriptProgress ==
  ASSUME TypeOK, NEW o \in OpId, Script(o)
  PROVE  Progress(o)
<1>1. Early(o)
  BY DEF Script, Early
<1>2. MovesOn(o)
  BY GotoMoves, OutcomeMoves, ErrKinds DEF Script, RunPc
<1>3. EnvKept
  BY EnvSame DEF Script
<1>4. remote' \in [Dir -> Remote]
  BY SetRemoteKeeps DEF Script, TypeOK, File
<1> QED
  BY <1>1, <1>2, <1>3, <1>4 DEF Script, Progress

\* and the marker.
LEMMA MarkerProgress ==
  ASSUME TypeOK, NEW o \in OpId, Marker(o)
  PROVE  Progress(o)
<1>1. Early(o)
  BY DEF Marker, Early
<1>2. MovesOn(o)
  BY GotoMoves, OutcomeMoves, ErrKinds DEF Marker, RunPc
<1>3. EnvKept
  BY EnvSame DEF Marker
<1>4. remote' \in [Dir -> Remote]
  BY SetRemoteKeeps DEF Marker, TypeOK, File
<1> QED
  BY <1>1, <1>2, <1>3, <1>4 DEF Marker, Progress

\* MarkInstalled sets the flag of the row.
LEMMA MarkProgress ==
  ASSUME TypeOK, NEW o \in OpId, Mark(o)
  PROVE  Progress(o)
<1>1. Early(o)
  BY DEF Mark, Early
<1>2. MovesOn(o)
  BY OutcomeMoves, ErrKinds DEF Mark
<1>3. EnvKept
  BY SetInstalledKeeps, EnvSame DEF Mark
<1>4. remote' \in [Dir -> Remote]
  BY DEF Mark, TypeOK
<1> QED
  BY <1>1, <1>2, <1>3, <1>4 DEF Mark, Progress

\* start.sh and stop.sh change nothing but what runs.
LEMMA CommandProgress ==
  ASSUME TypeOK, NEW o \in OpId, Command(o)
  PROVE  Progress(o)
<1>1. Early(o)
  BY DEF Command, Early
<1>2. MovesOn(o)
  BY OutcomeMoves, ErrKinds DEF Command
<1>3. EnvKept
  BY EnvSame DEF Command
<1>4. remote' \in [Dir -> Remote]
  BY SetRemoteKeeps DEF Command, TypeOK, File, AfterScript
<1> QED
  BY <1>1, <1>2, <1>3, <1>4 DEF Command, Progress, WriteRunning

\* The last successful action decides whether a reset stops the service.
LEMMA HistoryProgress ==
  ASSUME TypeOK, NEW o \in OpId, History(o)
  PROVE  Progress(o)
<1>1. Early(o)
  BY DEF History, Early
<1>2. MovesOn(o)
  <2>1. CASE \E err \in StoreErr(op[o].env) : Failed(o, err)
    BY <2>1, FailedMoves, ErrKinds
  <2>2. CASE ~ \E err \in StoreErr(op[o].env) : Failed(o, err)
    <3> DEFINE now == [run[o] EXCEPT !.pc = "reset",
                         !.stop = LastSuccessfulAction(op[o].env) # "stop"]
    <3>1. run[o] \in RunRecord
      BY DEF TypeOK, RunRecord
    <3>2. now \in RunRecord /\ now.pc = "reset"
      BY <3>1 DEF RunRecord, RunPc
    <3>3. run' = [run EXCEPT ![o] = now]
      BY <2>2 DEF History
    <3> QED
      BY <3>2, <3>3 DEF MovesOn
  <2> QED
    BY <2>1, <2>2
<1>3. EnvKept
  BY EnvSame DEF History
<1>4. remote' \in [Dir -> Remote]
  BY DEF History, TypeOK
<1> QED
  BY <1>1, <1>2, <1>3, <1>4 DEF History, Progress

\* ResetInstallation leaves the directory what a directory can be,
LEMMA ResetProgress ==
  ASSUME TypeOK, NEW o \in OpId, Reset(o)
  PROVE  Progress(o)
<1>1. Early(o)
  BY DEF Reset, Early
<1>2. MovesOn(o)
  BY GotoMoves, OutcomeMoves, ErrKinds DEF Reset, RunPc
<1>3. EnvKept
  BY EnvSame DEF Reset
<1>4. remote' \in [Dir -> Remote]
  BY SetRemoteKeeps DEF Reset, TypeOK, File
<1> QED
  BY <1>1, <1>2, <1>3, <1>4 DEF Reset, Progress, WriteRunning

\* so does taking the marker away,
LEMMA UnmarkProgress ==
  ASSUME TypeOK, NEW o \in OpId, Unmark(o)
  PROVE  Progress(o)
<1>1. Early(o)
  BY DEF Unmark, Early
<1>2. MovesOn(o)
  BY GotoMoves, OutcomeMoves, ErrKinds DEF Unmark, RunPc
<1>3. EnvKept
  BY EnvSame DEF Unmark
<1>4. remote' \in [Dir -> Remote]
  BY SetRemoteKeeps DEF Unmark, TypeOK, File
<1> QED
  BY <1>1, <1>2, <1>3, <1>4 DEF Unmark, Progress

\* or writing it anew.
LEMMA RemarkProgress ==
  ASSUME TypeOK, NEW o \in OpId, Remark(o)
  PROVE  Progress(o)
<1>1. Early(o)
  BY DEF Remark, Early
<1>2. MovesOn(o)
  BY GotoMoves, OutcomeMoves, ErrKinds DEF Remark, RunPc
<1>3. EnvKept
  BY EnvSame DEF Remark
<1>4. remote' \in [Dir -> Remote]
  BY SetRemoteKeeps DEF Remark, TypeOK, File
<1> QED
  BY <1>1, <1>2, <1>3, <1>4 DEF Remark, Progress

\* MarkUninstalled takes the flag of the row.
LEMMA ClearProgress ==
  ASSUME TypeOK, NEW o \in OpId, Clear(o)
  PROVE  Progress(o)
<1>1. Early(o)
  BY DEF Clear, Early
<1>2. MovesOn(o)
  BY OutcomeMoves, ErrKinds DEF Clear
<1>3. EnvKept
  BY SetInstalledKeeps, EnvSame DEF Clear
<1>4. remote' \in [Dir -> Remote]
  BY DEF Clear, TypeOK
<1> QED
  BY <1>1, <1>2, <1>3, <1>4 DEF Clear, Progress

-----------------------------------------------------------------------------
\* A handler that holds no slot: it reads, is refused, or deletes a row.

ReqRecord == [pc: ReqPc, env: Env \union {None}, action: Action \union {None},
              owner: Owner \union {None}, id: OpId \union {NoOp},
              dir: Dir \union {None}, installed: BOOLEAN]

Considers(r) ==
  /\ ~Pending(r)
  /\ Serving \/ req[r] # IdleReq
  /\ \E now \in ReqRecord :
       /\ now.pc \notin {"create", "launch"}
       /\ now.pc = "claim" =>
            [env |-> now.env, action |-> now.action, owner |-> now.owner] \in Task
       /\ now.pc = "edit" => now.env \in Env /\ now.dir \in Dir
       /\ req' = [req EXCEPT ![r] = now]
  /\ env' \in [Env -> Rows]
  /\ \A e \in Env :
       env'[e].live => env[e].live /\ env'[e].owner = env[e].owner
  /\ UNCHANGED <<phase, shutdownErr, status, lost, audit, remote, active,
                 nextId, op, run>>

\* A step of a handler that holds no slot takes none.
LEMMA ConsidersSlots ==
  ASSUME TypeOK, SlotInv, NEW r \in Req, Considers(r)
  PROVE  TypeOK' /\ SlotInv'
<1> USE DEF Considers
<1>1. TypeOK'
  BY DEF TypeOK, ReqRecord, Rows
<1>2. \A s \in Req : s # r => req'[s] = req[s]
  BY DEF TypeOK
<1>3. ~Pending(r)'
  BY DEF TypeOK, Pending
<1>4. HandlerKnows'
  BY <1>2, <1>3 DEF TypeOK, SlotInv, HandlerKnows, Pending
<1>5. HandlerHolds'
  BY <1>2, <1>3 DEF SlotInv, HandlerHolds, Pending
<1>6. HandlersApart'
  BY <1>2, <1>3 DEF SlotInv, HandlersApart, Pending
<1>7. GoroutineHolds' /\ NumbersKnown' /\ AuditFollowsEnd' /\ CleanExit'
  BY DEF SlotInv, GoroutineHolds, NumbersKnown, AuditFollowsEnd, CleanExit,
         Running, Early
<1>8. OpenIsServed'
  BY <1>2 DEF SlotInv, OpenIsServed, Early, Pending, Alive
<1>9. DeadIsIdle'
  BY DEF SlotInv, DeadIsIdle, Alive, Serving
<1>10. OwnerStable'
  BY DEF SlotInv, OwnerStable, NumbersKnown, Task
<1> QED
  BY <1>1, <1>4, <1>5, <1>6, <1>7, <1>8, <1>9, <1>10 DEF SlotInv

\* An idle handler is a record of the right type.
LEMMA IdleIsRecord == IdleReq \in ReqRecord /\ IdleReq.pc = "idle"
  BY DEF IdleReq, ReqRecord, ReqPc

\* A start is decoded before the slot is claimed.
LEMMA BeginStartConsiders ==
  ASSUME TypeOK, NEW r \in Req, NEW e \in Env, NEW a \in Action, BeginStart(r, e, a)
  PROVE  Considers(r)
<1> DEFINE now == [IdleReq EXCEPT !.pc = "claim", !.env = e, !.action = a,
                                  !.owner = env[e].owner]
<1>1. now \in ReqRecord
  BY DEF TypeOK, IdleReq, ReqRecord, ReqPc
<1>2. [env |-> now.env, action |-> now.action, owner |-> now.owner] \in Task
  BY DEF TypeOK, Task, IdleReq
<1>3. ~Pending(r)
  BY DEF BeginStart, Pending, IdleReq
<1>4. now.pc \notin {"create", "launch", "edit"}
  BY DEF IdleReq
<1>5. /\ Serving
      /\ req' = [req EXCEPT ![r] = now]
      /\ UNCHANGED <<phase, shutdownErr, env, status, lost, audit, remote, active,
                     nextId, op, run>>
  BY DEF BeginStart
<1> HIDE DEF now
<1> QED
  BY <1>1, <1>2, <1>3, <1>4, <1>5 DEF Considers, TypeOK, Rows

\* A conflict ends the request.
LEMMA ConflictConsiders ==
  ASSUME TypeOK, NEW r \in Req, Conflict(r)
  PROVE  Considers(r)
<1>1. ~Pending(r) /\ req[r] # IdleReq
  BY IdleIsRecord DEF Conflict, Pending
<1> QED
  BY <1>1, IdleIsRecord DEF Conflict, Considers, TypeOK, Rows

\* A deletion begins with the question whether the environment is busy.
LEMMA BeginDeleteConsiders ==
  ASSUME TypeOK, NEW r \in Req, NEW e \in Env, BeginDelete(r, e)
  PROVE  Considers(r)
<1> DEFINE now == [IdleReq EXCEPT !.pc = "busy", !.env = e]
<1>1. now \in ReqRecord /\ now.pc = "busy"
  BY DEF IdleReq, ReqRecord, ReqPc
<1>2. ~Pending(r)
  BY DEF BeginDelete, Pending, IdleReq
<1> QED
  BY <1>1, <1>2 DEF BeginDelete, Considers, TypeOK, Rows

\* The answer is read once.
LEMMA CheckBusyConsiders ==
  ASSUME TypeOK, NEW r \in Req, CheckBusy(r)
  PROVE  Considers(r)
<1> DEFINE now == [req[r] EXCEPT !.pc = "delete"]
<1>1. ~Pending(r) /\ req[r] # IdleReq
  BY IdleIsRecord DEF CheckBusy, Pending
<1>2. req[r] \in ReqRecord
  BY DEF TypeOK, ReqRecord
<1>3. now \in ReqRecord /\ now.pc = "delete"
  BY <1>2 DEF ReqRecord, ReqPc
<1> QED
  BY <1>1, <1>3, IdleIsRecord DEF CheckBusy, Considers, TypeOK, Rows

\* The row goes, the slot is not asked again.
LEMMA DeleteEnvironmentConsiders ==
  ASSUME TypeOK, NEW r \in Req, DeleteEnvironment(r)
  PROVE  Considers(r)
<1>1. ~Pending(r) /\ req[r] # IdleReq
  BY IdleIsRecord DEF DeleteEnvironment, Pending
<1>2. /\ env' \in [Env -> Rows]
      /\ \A e \in Env :
           env'[e].live => env[e].live /\ env'[e].owner = env[e].owner
  <2>1. env \in [Env -> Rows]
    BY DEF TypeOK, Rows
  <2> DEFINE row == [env[req[r].env] EXCEPT !.live = FALSE]
  <2>2. env' = [env EXCEPT ![req[r].env] = row]
    BY DEF DeleteEnvironment
  <2>3. req[r].env \in Env => row \in Rows /\ ~row.live
    BY <2>1 DEF Rows
  <2> HIDE DEF row
  <2> QED
    BY <2>1, <2>2, <2>3
<1> QED
  BY <1>1, <1>2, IdleIsRecord DEF DeleteEnvironment, Considers

\* An edit reads the row it will write back.
LEMMA BeginEditConsiders ==
  ASSUME TypeOK, NEW r \in Req, NEW e \in Env, NEW d \in Dir, BeginEdit(r, e, d)
  PROVE  Considers(r)
<1> DEFINE now == [IdleReq EXCEPT !.pc = "edit", !.env = e, !.dir = d,
                                  !.installed = env[e].installed]
<1>1. now \in ReqRecord /\ now.pc = "edit" /\ now.env \in Env /\ now.dir \in Dir
  BY DEF TypeOK, IdleReq, ReqRecord, ReqPc
<1>2. ~Pending(r)
  BY DEF BeginEdit, Pending, IdleReq
<1> QED
  BY <1>1, <1>2 DEF BeginEdit, Considers, TypeOK, Rows

\* An edit writes its row and takes no slot.
LEMMA UpdateEnvironmentConsiders ==
  ASSUME TypeOK, SlotInv, NEW r \in Req, UpdateEnvironment(r)
  PROVE  Considers(r)
<1>1. ~Pending(r) /\ req[r] # IdleReq
  BY IdleIsRecord DEF UpdateEnvironment, Pending
<1>2. /\ env' \in [Env -> Rows]
      /\ \A e \in Env :
           env'[e].live => env[e].live /\ env'[e].owner = env[e].owner
  <2>1. env \in [Env -> Rows]
    BY DEF TypeOK, Rows
  <2>2. CASE UNCHANGED env
    BY <2>1, <2>2
  <2> DEFINE row == [env[req[r].env] EXCEPT !.dir = req[r].dir,
                                            !.installed = req[r].installed]
  <2>3. CASE env' = [env EXCEPT ![req[r].env] = row]
    <3>1. req[r].env \in Env /\ req[r].dir \in Dir /\ req[r].installed \in BOOLEAN
      BY DEF UpdateEnvironment, TypeOK, SlotInv, HandlerKnows
    <3>2. env[req[r].env] \in Rows
      BY <2>1, <3>1
    <3>3. /\ row \in Rows /\ row.live = env[req[r].env].live
          /\ row.owner = env[req[r].env].owner
      BY <3>1, <3>2 DEF Rows
    <3> HIDE DEF row
    <3> QED
      BY <2>1, <2>3, <3>1, <3>3
  <2> QED
    BY <2>2, <2>3 DEF UpdateEnvironment
<1> QED
  BY <1>1, <1>2, IdleIsRecord DEF UpdateEnvironment, Considers

-----------------------------------------------------------------------------
\* The life of a slot: Claim, CreateOperation, RefuseStart, Launch.

\* A claim takes a free slot for a new number.
LEMMA ClaimSlots ==
  ASSUME TypeOK, SlotInv, NEW r \in Req, Claim(r)
  PROVE  TypeOK' /\ SlotInv'
<1> DEFINE task == [env |-> req[r].env, action |-> req[r].action, owner |-> req[r].owner]
           now  == [req[r] EXCEPT !.pc = "create", !.id = nextId]
<1>1. task \in Task /\ req[r].env \in Env
  BY DEF Claim, SlotInv, HandlerKnows, Task
<1>2. /\ req[r].pc = "claim"
      /\ active[req[r].env] = NoOp
      /\ nextId \in OpId
      /\ active' = [active EXCEPT ![req[r].env] = nextId]
      /\ op' = [op EXCEPT ![nextId] = task]
      /\ nextId' = nextId + 1
      /\ req' = [req EXCEPT ![r] = now]
      /\ UNCHANGED <<phase, shutdownErr, env, status, lost, audit, remote, run>>
  BY DEF Claim, TakeSlot
<1>3. /\ now.pc = "create" /\ now.id = nextId /\ now.env = req[r].env
      /\ now.action = req[r].action /\ now.owner = req[r].owner
      /\ now \in ReqRecord
  <2>1. req[r] \in ReqRecord
    BY DEF TypeOK, ReqRecord
  <2> QED
    BY <1>2, <2>1 DEF ReqRecord, ReqPc
<1> HIDE DEF now
<1>4. TypeOK'
  BY <1>1, <1>2, <1>3 DEF TypeOK, ReqRecord, Task
<1>5. req'[r] = now /\ \A s \in Req : s # r => req'[s] = req[s]
  BY <1>2 DEF TypeOK
<1>6. op'[nextId] = task /\ \A o \in OpId : o # nextId => op'[o] = op[o]
  BY <1>2 DEF TypeOK
<1>7. /\ active'[req[r].env] = nextId
      /\ \A e \in Env : e # req[r].env => active'[e] = active[e]
  BY <1>1, <1>2 DEF TypeOK
<1>8. /\ status[nextId] = None /\ run[nextId].pc = "none" /\ nextId \notin lost
  BY <1>2 DEF SlotInv, NumbersKnown, Running
<1> HIDE DEF task
<1>9. HandlerKnows'
  BY <1>1, <1>3, <1>5 DEF task, SlotInv, HandlerKnows, Pending
<1>10. \A s \in Req : s # r /\ Pending(s) => req[s].env \in Env /\ req[s].env # req[r].env
                                              /\ req[s].id \in OpId /\ req[s].id < nextId
  BY <1>2, PendingFacts
<1>11. HandlerHolds'
  <2> SUFFICES ASSUME NEW s \in Req, Pending(s)'
               PROVE  /\ req'[s].id \in 1..(nextId' - 1)
                      /\ op'[req'[s].id] = [env |-> req'[s].env, action |-> req'[s].action,
                                            owner |-> req'[s].owner]
                      /\ active'[req'[s].env] = req'[s].id
                      /\ run'[req'[s].id].pc = "none"
                      /\ status'[req'[s].id] = IF req'[s].pc = "create" THEN None ELSE "queued"
                      /\ req'[s].id \notin lost'
    BY DEF HandlerHolds
  <2>1. CASE s = r
    BY <2>1, <1>2, <1>3, <1>5, <1>6, <1>7, <1>8 DEF task
  <2>2. CASE s # r
    BY <2>2, <1>2, <1>5, <1>6, <1>7, <1>10 DEF SlotInv, HandlerHolds, Pending
  <2> QED
    BY <2>1, <2>2
<1>12. HandlersApart'
  BY <1>3, <1>5, <1>10 DEF SlotInv, HandlersApart, Pending
<1>13. GoroutineHolds'
  <2>1. \A o \in OpId : Running(o) =>
          o # nextId /\ op'[o] = op[o] /\ op[o].env \in Env /\ op[o].env # req[r].env
    BY <1>2, <1>6, <1>8 DEF SlotInv, GoroutineHolds, Running, Task
  <2> QED
    BY <2>1, <1>2, <1>7 DEF SlotInv, GoroutineHolds, Running, Early
<1>14. NumbersKnown'
  <2>1. nextId' \in Nat /\ nextId < nextId'
    BY <1>2
  <2>2. \A e \in Env : active'[e] < nextId'
    BY <1>7, <2>1, <1>2 DEF TypeOK, SlotInv, NumbersKnown
  <2>3. \A o \in OpId : status'[o] # None => o < nextId' /\ op'[o] \in Task
    BY <1>2, <1>6, <1>8, <2>1 DEF SlotInv, NumbersKnown
  <2>4. \A o \in OpId : Running(o)' => o < nextId'
    BY <1>2, <2>1 DEF SlotInv, NumbersKnown, Running
  <2>5. \A o \in lost' : status'[o] \in Unfinished
    BY <1>2 DEF SlotInv, NumbersKnown
  <2> QED
    BY <2>2, <2>3, <2>4, <2>5 DEF NumbersKnown
<1>15. OpenIsServed'
  BY <1>2, <1>5 DEF SlotInv, OpenIsServed, Early, Alive
<1>16. DeadIsIdle'
  BY <1>2, IdleIsRecord DEF SlotInv, DeadIsIdle, Alive
<1>17. OwnerStable' /\ AuditFollowsEnd' /\ CleanExit'
  BY <1>2, <1>6, <1>8 DEF SlotInv, OwnerStable, AuditFollowsEnd, CleanExit
<1> QED
  BY <1>4, <1>9, <1>11, <1>12, <1>13, <1>14, <1>15, <1>16, <1>17 DEF SlotInv

\* The row appears under the number of the claim.
LEMMA CreateOperationSlots ==
  ASSUME TypeOK, SlotInv, NEW r \in Req, CreateOperation(r)
  PROVE  TypeOK' /\ SlotInv'
<1> DEFINE id  == req[r].id
           now == [req[r] EXCEPT !.pc = "launch"]
<1>1. /\ req[r].pc = "create"
      /\ env[req[r].env].owner = req[r].owner
      /\ status' = [status EXCEPT ![id] = "queued"]
      /\ req' = [req EXCEPT ![r] = now]
      /\ UNCHANGED <<phase, shutdownErr, env, lost, audit, remote, active, nextId,
                     op, run>>
  BY DEF CreateOperation, InsertOperation
<1>2. /\ id \in OpId /\ id < nextId /\ id \notin lost
      /\ op[id] \in Task /\ op[id].env = req[r].env /\ op[id].owner = req[r].owner
      /\ run[id].pc = "none" /\ status[id] = None
  BY <1>1, PendingFacts DEF Pending
<1>3. /\ now.pc = "launch" /\ now.id = id /\ now.env = req[r].env
      /\ now.action = req[r].action /\ now.owner = req[r].owner
      /\ now \in ReqRecord
  <2>1. req[r] \in ReqRecord
    BY DEF TypeOK, ReqRecord
  <2> QED
    BY <2>1 DEF ReqRecord, ReqPc
<1> HIDE DEF now
<1>4. TypeOK'
  BY <1>1, <1>2, <1>3 DEF TypeOK, ReqRecord
<1>5. req'[r] = now /\ \A s \in Req : s # r => req'[s] = req[s]
  BY <1>1 DEF TypeOK
<1>6. status'[id] = "queued" /\ \A o \in OpId : o # id => status'[o] = status[o]
  BY <1>1, <1>2 DEF TypeOK
<1>7. \A s \in Req : s # r /\ Pending(s) => req[s].id # id
  BY <1>1 DEF SlotInv, HandlersApart, Pending
<1>8. HandlerKnows' /\ HandlersApart'
  BY <1>1, <1>3, <1>5, <1>7 DEF SlotInv, HandlerKnows, HandlersApart, Pending
<1>9. HandlerHolds'
  <2> SUFFICES ASSUME NEW s \in Req, Pending(s)'
               PROVE  /\ req'[s].id \in 1..(nextId' - 1)
                      /\ op'[req'[s].id] = [env |-> req'[s].env, action |-> req'[s].action,
                                            owner |-> req'[s].owner]
                      /\ active'[req'[s].env] = req'[s].id
                      /\ run'[req'[s].id].pc = "none"
                      /\ status'[req'[s].id] = IF req'[s].pc = "create" THEN None ELSE "queued"
                      /\ req'[s].id \notin lost'
    BY DEF HandlerHolds
  <2>1. CASE s = r
    BY <2>1, <1>1, <1>3, <1>5, <1>6 DEF SlotInv, HandlerHolds, Pending
  <2>2. CASE s # r
    BY <2>2, <1>1, <1>5, <1>6, <1>7 DEF TypeOK, SlotInv, HandlerHolds, Pending
  <2> QED
    BY <2>1, <2>2
<1>10. GoroutineHolds'
  BY <1>1, <1>2, <1>6 DEF SlotInv, GoroutineHolds, Running, Early
<1>11. NumbersKnown'
  BY <1>1, <1>2, <1>6 DEF TypeOK, SlotInv, NumbersKnown, Running
<1>12. OpenIsServed'
  BY <1>1, <1>3, <1>5, <1>6 DEF SlotInv, OpenIsServed, Early, Alive
<1>13. DeadIsIdle'
  BY <1>1, IdleIsRecord DEF SlotInv, DeadIsIdle, Alive
<1>14. OwnerStable' /\ AuditFollowsEnd'
  BY <1>1, <1>2, <1>6 DEF SlotInv, OwnerStable, AuditFollowsEnd
<1>15. CleanExit'
  BY <1>1, IdleIsRecord DEF SlotInv, DeadIsIdle, Alive, CleanExit
<1> QED
  BY <1>4, <1>8, <1>9, <1>10, <1>11, <1>12, <1>13, <1>14, <1>15 DEF SlotInv

\* A row that cannot be written gives the slot back.
LEMMA RefuseStartSlots ==
  ASSUME TypeOK, SlotInv, NEW r \in Req, RefuseStart(r)
  PROVE  TypeOK' /\ SlotInv'
<1>1. /\ req[r].pc = "create"
      /\ active' = [active EXCEPT ![req[r].env] = NoOp]
      /\ req' = [req EXCEPT ![r] = IdleReq]
      /\ UNCHANGED <<phase, shutdownErr, env, status, lost, audit, remote, nextId,
                     op, run>>
  BY DEF RefuseStart, release
<1>2. TypeOK'
  BY <1>1, IdleIsRecord DEF TypeOK, ReqRecord
<1>3. req'[r] = IdleReq /\ \A s \in Req : s # r => req'[s] = req[s]
  BY <1>1 DEF TypeOK
<1>4. \A s \in Req : s # r /\ Pending(s) => req[s].env # req[r].env
  <2>1. Pending(r)
    BY <1>1 DEF Pending
  <2>2. \A s \in Req : s # r /\ Pending(s) => req[s].id # req[r].id
    BY <2>1 DEF SlotInv, HandlersApart
  <2> QED
    BY <2>1, <2>2, PendingFacts
<1>5. \A o \in OpId : Running(o) => op[o].env # req[r].env
  BY <1>1, PendingFacts, RunningFacts DEF Pending, Running
<1>6. HandlerKnows' /\ HandlersApart'
  BY <1>3, IdleIsRecord DEF SlotInv, HandlerKnows, HandlersApart, Pending
<1>7. HandlerHolds'
  BY <1>1, <1>3, <1>4, IdleIsRecord DEF TypeOK, SlotInv, HandlerHolds, HandlerKnows, Pending, Task
<1>8. GoroutineHolds'
  BY <1>1, <1>5 DEF TypeOK, SlotInv, GoroutineHolds, Running, Early, Task
<1>9. NumbersKnown'
  BY <1>1 DEF TypeOK, SlotInv, NumbersKnown, Running
<1>10. OpenIsServed'
  BY <1>1, <1>3 DEF SlotInv, OpenIsServed, Early, Alive
<1>11. DeadIsIdle'
  BY <1>1, IdleIsRecord DEF SlotInv, DeadIsIdle, Alive
<1>12. OwnerStable' /\ AuditFollowsEnd' /\ CleanExit'
  BY <1>1 DEF SlotInv, OwnerStable, AuditFollowsEnd, CleanExit
<1> QED
  BY <1>2, <1>6, <1>7, <1>8, <1>9, <1>10, <1>11, <1>12 DEF SlotInv

\* The goroutine takes the slot over from the handler.
LEMMA LaunchSlots ==
  ASSUME TypeOK, SlotInv, NEW r \in Req, Launch(r)
  PROVE  TypeOK' /\ SlotInv'
<1> DEFINE id  == req[r].id
           now == [run[id] EXCEPT !.pc = "prepare"]
<1>1. /\ req[r].pc = "launch"
      /\ audit' = [audit EXCEPT ![id] = @ \union {"requested"}] \/ audit' = audit
      /\ run' = [run EXCEPT ![id] = now]
      /\ req' = [req EXCEPT ![r] = IdleReq]
      /\ UNCHANGED <<phase, shutdownErr, env, status, lost, remote, active, nextId,
                     op>>
  BY DEF Launch
<1>2. /\ id \in OpId /\ id < nextId /\ id \notin lost
      /\ op[id] \in Task /\ active[op[id].env] = id
      /\ run[id].pc = "none" /\ status[id] = "queued"
  BY <1>1, PendingFacts DEF Pending
<1>3. now \in RunRecord /\ now.pc = "prepare"
  <2>1. run[id] \in RunRecord
    BY <1>2 DEF TypeOK, RunRecord
  <2> QED
    BY <2>1 DEF RunRecord, RunPc
<1> HIDE DEF now
<1>4. TypeOK'
  <2>1. audit' \in [OpId -> SUBSET {"requested", "completed"}]
    <3> DEFINE more == audit[id] \union {"requested"}
    <3>1. more \in SUBSET {"requested", "completed"}
      BY <1>2 DEF TypeOK
    <3>2. audit' = audit \/ audit' = [audit EXCEPT ![id] = more]
      BY <1>1
    <3> HIDE DEF more
    <3> QED
      BY <3>1, <3>2 DEF TypeOK
  <2> QED
    BY <2>1, <1>1, <1>2, <1>3, IdleIsRecord DEF TypeOK, ReqRecord, RunRecord
<1>5. req'[r] = IdleReq /\ \A s \in Req : s # r => req'[s] = req[s]
  BY <1>1 DEF TypeOK
<1>6. run'[id] = now /\ \A o \in OpId : o # id => run'[o] = run[o]
  BY <1>1, <1>2 DEF TypeOK
<1>7. \A s \in Req : s # r /\ Pending(s) => req[s].id # id
  BY <1>1 DEF SlotInv, HandlersApart, Pending
<1>8. HandlerKnows' /\ HandlersApart'
  BY <1>5, IdleIsRecord DEF SlotInv, HandlerKnows, HandlersApart, Pending
<1>9. HandlerHolds'
  BY <1>1, <1>5, <1>6, <1>7, IdleIsRecord DEF TypeOK, SlotInv, HandlerHolds, Pending
<1>10. GoroutineHolds'
  BY <1>1, <1>2, <1>3, <1>6 DEF SlotInv, GoroutineHolds, Running, Early
<1>11. NumbersKnown'
  BY <1>1, <1>2, <1>6 DEF SlotInv, NumbersKnown, Running
<1>12. OpenIsServed'
  BY <1>1, <1>2, <1>3, <1>5, <1>6 DEF SlotInv, OpenIsServed, Early, Alive
<1>13. DeadIsIdle'
  BY <1>1, IdleIsRecord DEF SlotInv, DeadIsIdle, Alive
<1>14. AuditFollowsEnd'
  <2>1. \A o \in OpId : /\ "completed" \in audit'[o] <=> "completed" \in audit[o]
                        /\ "requested" \in audit[o] => "requested" \in audit'[o]
    <3>1. CASE audit' = audit
      BY <3>1
    <3>2. CASE audit' = [audit EXCEPT ![id] = @ \union {"requested"}]
      BY <3>2, <1>2 DEF TypeOK
    <3> QED
      BY <1>1, <3>1, <3>2
  <2> QED
    BY <2>1, <1>1 DEF SlotInv, AuditFollowsEnd
<1>15. OwnerStable' /\ CleanExit'
  BY <1>1 DEF SlotInv, OwnerStable, CleanExit
<1> QED
  BY <1>4, <1>8, <1>9, <1>10, <1>11, <1>12, <1>13, <1>14, <1>15 DEF SlotInv

-----------------------------------------------------------------------------
\* The end of an operation: Finish, CompleteOperation, Release.

\* The end is written, or lost, while the slot is held.
LEMMA FinishSlots ==
  ASSUME TypeOK, SlotInv, NEW o \in OpId, Finish(o)
  PROVE  TypeOK' /\ SlotInv'
<1> DEFINE now == [NoRun EXCEPT !.pc = "complete"]
<1>1. /\ run[o].pc = "finish"
      /\ \/ status' = [status EXCEPT ![o] = run[o].end] /\ lost' = lost
         \/ lost' = lost \union {o} /\ status' = status
      /\ run' = [run EXCEPT ![o] = now]
      /\ UNCHANGED <<phase, shutdownErr, env, audit, remote, active, nextId, op, req>>
  BY DEF Finish
<1>2. now \in RunRecord /\ now.pc = "complete"
  BY DEF NoRun, RunRecord, RunPc, ErrKind
<1> HIDE DEF now
<1>3. /\ Running(o) /\ Early(o) /\ status[o] \in Unfinished /\ o \notin lost
      /\ run[o].end \in Terminal
  BY <1>1 DEF SlotInv, GoroutineHolds, Running, Early
<1>4. TypeOK'
  BY <1>1, <1>2, <1>3 DEF TypeOK, RunRecord
<1>5. \A p \in OpId : p # o => /\ run'[p] = run[p] /\ status'[p] = status[p]
                               /\ p \in lost' <=> p \in lost
  BY <1>1 DEF TypeOK
<1>6. run'[o] = now /\ (status'[o] \in Terminal \/ o \in lost')
  BY <1>1, <1>3 DEF TypeOK
<1>7. \A r \in Req : Pending(r) => req[r].id \in OpId /\ req[r].id # o
  BY <1>3, PendingFacts DEF Running
<1>8. HandlerKnows' /\ HandlersApart'
  BY <1>1 DEF SlotInv, HandlerKnows, HandlersApart, Pending
<1>9. HandlerHolds'
  BY <1>1, <1>5, <1>7 DEF SlotInv, HandlerHolds, Pending
<1>10. GoroutineHolds'
  BY <1>1, <1>2, <1>3, <1>5, <1>6 DEF SlotInv, GoroutineHolds, Running, Early
<1>11. NumbersKnown'
  <2>1. \A p \in lost' : status'[p] \in Unfinished
    <3>1. \A p \in lost : p \in OpId /\ status[p] \in Unfinished
      BY DEF TypeOK, SlotInv, NumbersKnown
    <3>2. CASE lost' = lost
      BY <3>1, <3>2, <1>3, <1>5
    <3>3. CASE lost' = lost \union {o} /\ status' = status
      BY <3>1, <3>3, <1>3
    <3> QED
      BY <3>2, <3>3, <1>1
  <2> QED
    BY <2>1, <1>1, <1>2, <1>3, <1>5 DEF SlotInv, NumbersKnown, Running
<1>12. OpenIsServed'
  BY <1>1, <1>5, <1>6 DEF SlotInv, OpenIsServed, Early, Alive
<1>13. DeadIsIdle'
  BY <1>1, <1>3 DEF SlotInv, DeadIsIdle, Alive, Running, NoRun
<1>14. OwnerStable'
  BY <1>1, <1>3, <1>5 DEF SlotInv, OwnerStable
<1>15. AuditFollowsEnd'
  BY <1>1, <1>5, <1>6, <1>3 DEF SlotInv, AuditFollowsEnd
<1>16. CleanExit'
  BY <1>1, <1>3 DEF SlotInv, CleanExit, DeadIsIdle, Alive, Running, NoRun
<1> QED
  BY <1>4, <1>8, <1>9, <1>10, <1>11, <1>12, <1>13, <1>14, <1>15, <1>16 DEF SlotInv

\* The completed event is written while the slot is held.
LEMMA CompleteOperationSlots ==
  ASSUME TypeOK, SlotInv, NEW o \in OpId, CompleteOperation(o)
  PROVE  TypeOK' /\ SlotInv'
<1> DEFINE now == [run[o] EXCEPT !.pc = "release"]
<1>1. /\ run[o].pc = "complete"
      /\ \/ "requested" \in audit[o] /\ audit' = [audit EXCEPT ![o] = @ \union {"completed"}]
         \/ audit' = audit
      /\ run' = [run EXCEPT ![o] = now]
      /\ UNCHANGED <<phase, shutdownErr, env, status, lost, remote, active, nextId,
                     op, req>>
  BY DEF CompleteOperation, Goto
<1>2. now \in RunRecord /\ now.pc = "release"
  <2>1. run[o] \in RunRecord
    BY DEF TypeOK, RunRecord
  <2> QED
    BY <2>1 DEF RunRecord, RunPc
<1> HIDE DEF now
<1>3. /\ Running(o) /\ ~Early(o)
      /\ status[o] \in Terminal \/ o \in lost
  BY <1>1 DEF SlotInv, GoroutineHolds, Running, Early
<1>4. TypeOK'
  <2>1. audit' \in [OpId -> SUBSET {"requested", "completed"}]
    <3> DEFINE more == audit[o] \union {"completed"}
    <3>1. more \in SUBSET {"requested", "completed"}
      BY DEF TypeOK
    <3>2. audit' = audit \/ audit' = [audit EXCEPT ![o] = more]
      BY <1>1
    <3> HIDE DEF more
    <3> QED
      BY <3>1, <3>2 DEF TypeOK
  <2> QED
    BY <2>1, <1>1, <1>2 DEF TypeOK, RunRecord
<1>5. run'[o] = now /\ \A p \in OpId : p # o => run'[p] = run[p]
  BY <1>1 DEF TypeOK
<1>6. HandlerKnows' /\ HandlersApart'
  BY <1>1 DEF SlotInv, HandlerKnows, HandlersApart, Pending
<1>7. HandlerHolds'
  <2>1. \A r \in Req : Pending(r) => req[r].id \in OpId /\ req[r].id # o
    BY <1>3, PendingFacts DEF Running
  <2> QED
    BY <2>1, <1>1, <1>5 DEF SlotInv, HandlerHolds, Pending
<1>8. GoroutineHolds'
  BY <1>1, <1>2, <1>3, <1>5 DEF SlotInv, GoroutineHolds, Running, Early
<1>9. NumbersKnown'
  BY <1>1, <1>2, <1>3, <1>5 DEF SlotInv, NumbersKnown, Running
<1>10. OpenIsServed'
  BY <1>1, <1>3, <1>5 DEF SlotInv, OpenIsServed, Early, Alive
<1>11. DeadIsIdle'
  BY <1>1, <1>3 DEF SlotInv, DeadIsIdle, Alive, Running, NoRun
<1>12. AuditFollowsEnd'
  BY <1>1, <1>3 DEF TypeOK, SlotInv, AuditFollowsEnd
<1>13. OwnerStable' /\ CleanExit'
  BY <1>1 DEF SlotInv, OwnerStable, CleanExit
<1> QED
  BY <1>4, <1>6, <1>7, <1>8, <1>9, <1>10, <1>11, <1>12, <1>13 DEF SlotInv

\* No run is a record of the right type.
LEMMA NoRunIsRecord == NoRun \in RunRecord /\ NoRun.pc = "none"
  BY DEF NoRun, RunRecord, RunPc, ErrKind

\* The slot is given back last.
LEMMA ReleaseSlots ==
  ASSUME TypeOK, SlotInv, NEW o \in OpId, Release(o)
  PROVE  TypeOK' /\ SlotInv'
<1>1. /\ run[o].pc = "release"
      /\ active' = [active EXCEPT ![op[o].env] = NoOp]
      /\ run' = [run EXCEPT ![o] = NoRun]
      /\ UNCHANGED <<phase, shutdownErr, env, status, lost, audit, remote, nextId,
                     op, req>>
  BY DEF Release, release
<1>2. /\ Running(o) /\ ~Early(o)
      /\ status[o] \in Terminal \/ o \in lost
      /\ op[o].env \in Env /\ active[op[o].env] = o
  BY <1>1, RunningFacts DEF SlotInv, GoroutineHolds, Running, Early
<1>3. TypeOK'
  BY <1>1, NoRunIsRecord DEF TypeOK, RunRecord
<1>4. run'[o] = NoRun /\ \A p \in OpId : p # o => run'[p] = run[p]
  BY <1>1 DEF TypeOK
<1>5. /\ active'[op[o].env] = NoOp
      /\ \A e \in Env : e # op[o].env => active'[e] = active[e]
  BY <1>1, <1>2 DEF TypeOK
<1>6. \A r \in Req : Pending(r) => /\ req[r].id \in OpId /\ req[r].id # o
                                   /\ req[r].env \in Env /\ req[r].env # op[o].env
  BY <1>2, PendingFacts DEF Running
<1>7. \A p \in OpId : Running(p) /\ p # o => op[p].env \in Env /\ op[p].env # op[o].env
  BY <1>2, RunningFacts
<1>8. HandlerKnows' /\ HandlersApart'
  BY <1>1 DEF SlotInv, HandlerKnows, HandlersApart, Pending
<1>9. HandlerHolds'
  BY <1>1, <1>4, <1>5, <1>6 DEF SlotInv, HandlerHolds, Pending
<1>10. GoroutineHolds'
  BY <1>1, <1>4, <1>5, <1>7, NoRunIsRecord DEF SlotInv, GoroutineHolds, Running, Early
<1>11. NumbersKnown'
  BY <1>1, <1>4, NoRunIsRecord DEF TypeOK, SlotInv, NumbersKnown, Running
<1>12. OpenIsServed'
  BY <1>1, <1>2, <1>4 DEF SlotInv, OpenIsServed, Early, Alive
<1>13. DeadIsIdle'
  BY <1>1, <1>2, NoRunIsRecord DEF SlotInv, DeadIsIdle, Alive, Running
<1>14. OwnerStable' /\ AuditFollowsEnd' /\ CleanExit'
  BY <1>1 DEF SlotInv, OwnerStable, AuditFollowsEnd, CleanExit
<1> QED
  BY <1>3, <1>8, <1>9, <1>10, <1>11, <1>12, <1>13, <1>14 DEF SlotInv

-----------------------------------------------------------------------------
\* Transfer, retention and the life of the process.

\* A transfer passes over owners with an open operation.
LEMMA TransferSlots ==
  ASSUME TypeOK, SlotInv, NEW source \in Owner, NEW target \in Owner,
         TransferResources(source, target)
  PROVE  TypeOK' /\ SlotInv'
<1>1. /\ Serving
      /\ \A o \in OpId : status[o] \in Unfinished => op[o].owner # source
      /\ UNCHANGED <<phase, shutdownErr, status, lost, audit, remote, active, nextId,
                     op, req, run>>
  BY DEF TransferResources
<1> DEFINE row(e) == IF env[e].live /\ env[e].owner = source
                     THEN [env[e] EXCEPT !.owner = target] ELSE env[e]
<1>2. env' \in [Env -> Rows] /\ \A e \in Env : env'[e] = row(e)
  <2>1. env \in [Env -> Rows]
    BY DEF TypeOK, Rows
  <2>2. \A e \in Env : row(e) \in Rows
    BY <2>1 DEF Rows
  <2>3. env' = [e \in Env |-> row(e)]
    BY DEF TransferResources
  <2> HIDE DEF row
  <2> QED
    BY <2>2, <2>3
<1>3. TypeOK'
  BY <1>1, <1>2 DEF TypeOK, Rows
<1>4. HandlerKnows' /\ HandlerHolds' /\ HandlersApart'
  BY <1>1 DEF SlotInv, HandlerKnows, HandlerHolds, HandlersApart, Pending
<1>5. GoroutineHolds' /\ NumbersKnown' /\ OpenIsServed'
  BY <1>1 DEF SlotInv, GoroutineHolds, NumbersKnown, OpenIsServed, Running, Early, Alive
<1>6. DeadIsIdle' /\ AuditFollowsEnd' /\ CleanExit'
  BY <1>1 DEF SlotInv, DeadIsIdle, AuditFollowsEnd, CleanExit, Alive
<1>7. OwnerStable'
  <2> SUFFICES ASSUME NEW o \in OpId, status[o] \in Unfinished,
                      env'[op[o].env].live
               PROVE  env'[op[o].env].owner = op[o].owner
    BY <1>1 DEF OwnerStable
  <2>1. op[o].env \in Env
    BY DEF SlotInv, NumbersKnown, Task
  <2>2. /\ env[op[o].env] \in Rows
        /\ env'[op[o].env] = row(op[o].env)
    BY <2>1, <1>2 DEF TypeOK, Rows
  <2>3. op[o].owner # source
    BY <1>1
  <2>4. CASE env[op[o].env].live
    <3>1. env[op[o].env].owner = op[o].owner
      BY <2>4 DEF SlotInv, OwnerStable
    <3> QED
      BY <3>1, <2>2, <2>3
  <2>5. CASE ~env[op[o].env].live
    BY <2>2, <2>5
  <2> QED
    BY <2>4, <2>5
<1> QED
  BY <1>3, <1>4, <1>5, <1>6, <1>7 DEF SlotInv

\* Retention deletes ended operations only.
LEMMA DeleteTerminalSlots ==
  ASSUME TypeOK, SlotInv, NEW o \in OpId, DeleteTerminalOperationsBefore(o)
  PROVE  TypeOK' /\ SlotInv'
<1>1. /\ phase = "up" /\ status[o] \in Terminal /\ run[o].pc = "none"
      /\ status' = [status EXCEPT ![o] = "purged"]
      /\ UNCHANGED <<phase, shutdownErr, env, lost, audit, remote, active, nextId,
                     op, req, run>>
  BY DEF DeleteTerminalOperationsBefore, Cancelled
<1>2. TypeOK'
  BY <1>1 DEF TypeOK
<1>3. status'[o] = "purged" /\ \A p \in OpId : p # o => status'[p] = status[p]
  BY <1>1 DEF TypeOK
<1>4. o \notin lost
  BY <1>1 DEF SlotInv, NumbersKnown
<1>5. HandlerKnows' /\ HandlersApart' /\ DeadIsIdle'
  BY <1>1 DEF SlotInv, HandlerKnows, HandlersApart, DeadIsIdle, Pending, Alive
<1>6. HandlerHolds'
  <2>1. \A r \in Req : Pending(r) => req[r].id \in OpId /\ req[r].id # o
    BY <1>1, PendingFacts
  <2> QED
    BY <2>1, <1>1, <1>3 DEF SlotInv, HandlerHolds, Pending
<1>7. GoroutineHolds'
  BY <1>1, <1>3 DEF SlotInv, GoroutineHolds, Running, Early
<1>8. NumbersKnown'
  BY <1>1, <1>3, <1>4 DEF TypeOK, SlotInv, NumbersKnown, Running
<1>9. OpenIsServed'
  BY <1>1, <1>3 DEF SlotInv, OpenIsServed, Early, Alive
<1>10. OwnerStable' /\ AuditFollowsEnd' /\ CleanExit'
  BY <1>1, <1>3 DEF SlotInv, OwnerStable, AuditFollowsEnd, CleanExit
<1> QED
  BY <1>2, <1>5, <1>6, <1>7, <1>8, <1>9, <1>10 DEF SlotInv

\* A shutdown cancels; it frees no slot.
LEMMA StopSlots ==
  ASSUME TypeOK, SlotInv, Signal \/ Drained
  PROVE  TypeOK' /\ SlotInv'
<1>1. /\ phase \in {"up", "stopping"} /\ phase' \in {"stopping", "waiting"}
      /\ phase' = "waiting" =>
           shutdownErr' \in BOOLEAN /\ (~shutdownErr' => \A r \in Req : req[r] = IdleReq)
      /\ phase' = "stopping" => shutdownErr' = shutdownErr
      /\ UNCHANGED <<env, status, lost, audit, remote, active, nextId, op, req, run>>
  BY DEF Signal, Drained
<1>2. TypeOK'
  BY <1>1 DEF TypeOK, Phase
<1>3. HandlerKnows' /\ HandlerHolds' /\ HandlersApart'
  BY <1>1 DEF SlotInv, HandlerKnows, HandlerHolds, HandlersApart, Pending
<1>4. GoroutineHolds' /\ NumbersKnown' /\ OpenIsServed'
  BY <1>1 DEF SlotInv, GoroutineHolds, NumbersKnown, OpenIsServed, Running, Early, Alive
<1>5. DeadIsIdle'
  BY <1>1 DEF DeadIsIdle, Alive
<1>6. OwnerStable' /\ AuditFollowsEnd' /\ CleanExit'
  BY <1>1 DEF SlotInv, OwnerStable, AuditFollowsEnd, CleanExit
<1> QED
  BY <1>2, <1>3, <1>4, <1>5, <1>6 DEF SlotInv

\* A process that ends takes slots, handlers and goroutines with it.
LEMMA VanishSlots ==
  ASSUME TypeOK, SlotInv, Exit \/ Crash
  PROVE  TypeOK' /\ SlotInv'
<1>1. /\ phase' \in {"exited", "down"}
      /\ active' = [e \in Env |-> NoOp]
      /\ req' = [r \in Req |-> IdleReq]
      /\ run' = [o \in OpId |-> NoRun]
      /\ UNCHANGED <<shutdownErr, env, status, lost, audit, remote, nextId, op>>
  BY DEF Exit, Crash, Vanish
<1>2. TypeOK'
  BY <1>1, IdleIsRecord, NoRunIsRecord DEF TypeOK, Phase, ReqRecord, RunRecord
<1>3. HandlerKnows' /\ HandlerHolds' /\ HandlersApart'
  BY <1>1, IdleIsRecord DEF HandlerKnows, HandlerHolds, HandlersApart, Pending
<1>4. GoroutineHolds' /\ OpenIsServed' /\ DeadIsIdle'
  BY <1>1, NoRunIsRecord DEF GoroutineHolds, OpenIsServed, DeadIsIdle, Running, Alive
<1>5. NumbersKnown'
  BY <1>1, NoRunIsRecord DEF TypeOK, SlotInv, NumbersKnown, Running
<1>6. OwnerStable' /\ AuditFollowsEnd'
  BY <1>1 DEF SlotInv, OwnerStable, AuditFollowsEnd
<1>7. CleanExit'
  <2> SUFFICES ASSUME phase' = "exited", ~shutdownErr, NEW o \in OpId,
                      status[o] \in Unfinished
               PROVE  o \in lost
    BY <1>1 DEF CleanExit
  <2>1. phase = "waiting" /\ run[o].pc = "none"
    BY DEF Exit, Crash, Wait
  <2>2. \A r \in Req : req[r] = IdleReq
    BY <2>1 DEF SlotInv, DeadIsIdle
  <2> QED
    BY <2>1, <2>2, IdleIsRecord DEF SlotInv, OpenIsServed, Early, Alive
<1> QED
  BY <1>2, <1>3, <1>4, <1>5, <1>6, <1>7 DEF SlotInv

\* A restart interrupts what was left open.
LEMMA RestartSlots ==
  ASSUME TypeOK, SlotInv, Restart
  PROVE  TypeOK' /\ SlotInv'
<1>1. /\ ~Alive /\ phase' = "up" /\ shutdownErr' = FALSE /\ lost' = {}
      /\ status' = [o \in OpId |-> IF status[o] \in Unfinished THEN "interrupted"
                                   ELSE status[o]]
      /\ UNCHANGED <<env, audit, remote, active, nextId, op, req, run>>
  BY DEF Restart, InterruptActiveOperations, Interrupt
<1>2. /\ \A r \in Req : req[r] = IdleReq
      /\ \A o \in OpId : run[o] = NoRun
  BY <1>1 DEF SlotInv, DeadIsIdle
<1>3. TypeOK'
  BY <1>1 DEF TypeOK, Phase
<1>4. HandlerKnows' /\ HandlerHolds' /\ HandlersApart'
  BY <1>1, <1>2, IdleIsRecord DEF HandlerKnows, HandlerHolds, HandlersApart, Pending
<1>5. GoroutineHolds' /\ OpenIsServed' /\ DeadIsIdle'
  BY <1>1, <1>2, NoRunIsRecord DEF GoroutineHolds, OpenIsServed, DeadIsIdle, Running, Alive
<1>6. NumbersKnown'
  BY <1>1, <1>2, NoRunIsRecord DEF SlotInv, NumbersKnown, Running
<1>7. OwnerStable' /\ CleanExit'
  BY <1>1 DEF OwnerStable, CleanExit
<1>8. AuditFollowsEnd'
  BY <1>1 DEF SlotInv, AuditFollowsEnd, NumbersKnown
<1> QED
  BY <1>3, <1>4, <1>5, <1>6, <1>7, <1>8 DEF SlotInv

-----------------------------------------------------------------------------
\* Every step preserves the invariant.

Inv == TypeOK /\ SlotInv

\* Every step of a run preserves the invariant.
LEMMA GoroutineSlots ==
  ASSUME TypeOK, SlotInv, NEW o \in OpId, Goroutine(o)
  PROVE  TypeOK' /\ SlotInv'
<1>1. CASE Finish(o) \/ CompleteOperation(o) \/ Release(o)
  BY <1>1, FinishSlots, CompleteOperationSlots, ReleaseSlots
<1>2. CASE ~(Finish(o) \/ CompleteOperation(o) \/ Release(o))
  <2>1. Progress(o)
    BY <1>2, PrepareProgress, LoadProgress, PackageProgress, ConnectProgress,
       SyncProgress, WorkProgress, ScriptProgress, MarkerProgress, MarkProgress,
       CommandProgress, HistoryProgress, ResetProgress, UnmarkProgress,
       RemarkProgress, ClearProgress DEF Goroutine
  <2> QED
    BY <2>1, ProgressSlots
<1> QED
  BY <1>1, <1>2

\* Every step of a handler preserves the invariant.
LEMMA HandlerSlots ==
  ASSUME TypeOK, SlotInv, NEW r \in Req, Handler(r)
  PROVE  TypeOK' /\ SlotInv'
<1>1. CASE Claim(r) \/ CreateOperation(r) \/ RefuseStart(r) \/ Launch(r)
  BY <1>1, ClaimSlots, CreateOperationSlots, RefuseStartSlots, LaunchSlots
<1>2. CASE ~(Claim(r) \/ CreateOperation(r) \/ RefuseStart(r) \/ Launch(r))
  <2>1. Considers(r)
    BY <1>2, BeginStartConsiders, ConflictConsiders, BeginDeleteConsiders,
       CheckBusyConsiders, DeleteEnvironmentConsiders, BeginEditConsiders,
       UpdateEnvironmentConsiders DEF Handler
  <2> QED
    BY <2>1, ConsidersSlots
<1> QED
  BY <1>1, <1>2

\* Nothing happens, nothing changes.
LEMMA StutterSlots ==
  ASSUME TypeOK, SlotInv, UNCHANGED vars
  PROVE  TypeOK' /\ SlotInv'
<1> USE DEF vars
<1>1. TypeOK'
  BY DEF TypeOK
<1>2. HandlerKnows' /\ HandlerHolds' /\ HandlersApart'
  BY DEF SlotInv, HandlerKnows, HandlerHolds, HandlersApart, Pending
<1>3. GoroutineHolds' /\ NumbersKnown' /\ OpenIsServed' /\ DeadIsIdle'
  BY DEF SlotInv, GoroutineHolds, NumbersKnown, OpenIsServed, DeadIsIdle,
         Running, Early, Alive
<1>4. OwnerStable' /\ AuditFollowsEnd' /\ CleanExit'
  BY DEF SlotInv, OwnerStable, AuditFollowsEnd, CleanExit
<1> QED
  BY <1>1, <1>2, <1>3, <1>4 DEF SlotInv

\* Every step preserves the invariant.
LEMMA StepInv == Inv /\ [Next]_vars => Inv'
<1> SUFFICES ASSUME TypeOK, SlotInv, [Next]_vars PROVE TypeOK' /\ SlotInv'
  BY DEF Inv
<1>1. CASE \E r \in Req : Handler(r)
  BY <1>1, HandlerSlots
<1>2. CASE \E o \in OpId : Goroutine(o)
  BY <1>2, GoroutineSlots
<1>3. CASE Background
  BY <1>3, TransferSlots, DeleteTerminalSlots DEF Background
<1>4. CASE Process
  BY <1>4, StopSlots, VanishSlots, RestartSlots DEF Process
<1>5. CASE UNCHANGED vars
  BY <1>5, StutterSlots
<1> QED
  BY <1>1, <1>2, <1>3, <1>4, <1>5 DEF Next

\* The inductive invariant: slots, rows, handlers and goroutines agree in
\* every reachable state of the manager.
THEOREM InvHolds == Spec => []Inv
<1>1. Init => Inv
  BY InitType, InitSlots DEF Inv
<1> QED
  BY <1>1, StepInv, PTL DEF Spec

-----------------------------------------------------------------------------
\* Every reachable state of the manager, its rows and goroutines has its type.
THEOREM TypeCorrect == Spec => []TypeOK
<1>1. Inv => TypeOK
  BY DEF Inv
<1> QED
  BY <1>1, InvHolds, PTL

\* Manager.active keeps two goroutines off one environment.
THEOREM NoTwoRuns == Spec => []OneRunPerEnvironment
<1>1. Inv => OneRunPerEnvironment
  BY RunningFacts DEF Inv, OneRunPerEnvironment
<1> QED
  BY <1>1, InvHolds, PTL

\* An open row of a running service belongs to the operation that holds its
\* environment: finish comes before release, and a restart closes the rest.
THEOREM OpenRowsHoldSlots == Spec => []OpenHoldsSlot
<1>1. Inv => OpenHoldsSlot
  <2> SUFFICES ASSUME TypeOK, SlotInv, Alive, NEW o \in OpId,
                      status[o] \in Unfinished, o \notin lost
               PROVE  active[op[o].env] = o
    BY DEF Inv, OpenHoldsSlot
  <2>1. CASE Early(o)
    BY <2>1, RunningFacts DEF Early, Running
  <2>2. CASE \E r \in Req : req[r].pc = "launch" /\ req[r].id = o
    BY <2>2, PendingFacts DEF Pending
  <2> QED
    BY <2>1, <2>2 DEF SlotInv, OpenIsServed
<1> QED
  BY <1>1, InvHolds, PTL

\* CreateOperation and TransferResources exclude each other: an open
\* operation's account still owns the environment.
THEOREM OwnersAreStable == Spec => []OwnerStable
<1>1. Inv => OwnerStable
  BY DEF Inv, SlotInv
<1> QED
  BY <1>1, InvHolds, PTL

\* CompleteOperation records the completed event after the requested one and
\* after the end of the operation was written or refused.
THEOREM AuditIsOrdered == Spec => []AuditFollowsEnd
<1>1. Inv => AuditFollowsEnd
  BY DEF Inv, SlotInv
<1> QED
  BY <1>1, InvHolds, PTL

\* Manager.Wait: an exit without shutdown error leaves no open row, but for
\* those the store refused to close.
THEOREM ExitIsClean == Spec => []CleanExit
<1>1. Inv => CleanExit
  BY DEF Inv, SlotInv
<1> QED
  BY <1>1, InvHolds, PTL

-----------------------------------------------------------------------------
\* The manager implements the ledger, step by step.

\* The initial states are initial states of the ledger.
LEMMA LedgerInit == Init => Ledger!Init
  BY DEF Init, Alive, Ledger!Init, Ledger!NoOp, Ledger!OpId

\* Handlers and goroutines exist only while the service is up.
LEMMA BusyIsAlive ==
  ASSUME SlotInv
  PROVE  /\ \A r \in Req : req[r] # IdleReq => Alive
         /\ \A o \in OpId : Running(o) => Alive
<1>1. NoRun.pc = "none"
  BY DEF NoRun
<1> QED
  BY <1>1 DEF SlotInv, DeadIsIdle, Running

\* A handler creates an operation or does nothing the ledger sees.
LEMMA HandlerLedger ==
  ASSUME TypeOK, SlotInv, NEW r \in Req, Handler(r)
  PROVE  Ledger!Next \/ UNCHANGED Ledger!vars
<1>a. IdleReq.pc = "idle"
  BY DEF IdleReq
<1>b. req[r].pc # "idle" => Alive
  BY <1>a, BusyIsAlive
<1>1. CASE Claim(r)
  <2>1. /\ req[r].env \in Env /\ nextId \in OpId /\ active[req[r].env] = NoOp
        /\ status[nextId] = None /\ \A f \in Env : active[f] # nextId
        /\ active' = [active EXCEPT ![req[r].env] = nextId]
        /\ Alive /\ UNCHANGED <<phase, status, lost>>
    BY <1>1, <1>b DEF Claim, TakeSlot, TypeOK, SlotInv, HandlerKnows, NumbersKnown, Task
  <2>2. Ledger!Take(req[r].env, nextId)
    BY <2>1 DEF Ledger!Take, Ledger!NoOp, Alive
  <2> QED
    BY <2>1, <2>2 DEF Ledger!Next, Ledger!OpId
<1>2. CASE CreateOperation(r)
  <2>1. /\ req[r].env \in Env /\ active[req[r].env] = req[r].id
        /\ req[r].id \in OpId /\ status[req[r].id] = None
        /\ status' = [status EXCEPT ![req[r].id] = "queued"]
        /\ Alive /\ UNCHANGED <<phase, active, lost>>
    BY <1>2, <1>b, PendingFacts DEF CreateOperation, InsertOperation, Pending
  <2>2. Ledger!Accept(req[r].env)
    BY <2>1 DEF Ledger!Accept, Ledger!Move, Ledger!OpId, Alive
  <2> QED
    BY <2>1, <2>2 DEF Ledger!Next
<1>3. CASE RefuseStart(r)
  <2>1. /\ req[r].env \in Env /\ active[req[r].env] = req[r].id
        /\ req[r].id \in OpId /\ status[req[r].id] = None
        /\ active' = [active EXCEPT ![req[r].env] = NoOp]
        /\ Alive /\ UNCHANGED <<phase, status, lost>>
    BY <1>3, <1>b, PendingFacts DEF RefuseStart, release, Pending
  <2>2. Ledger!Free(req[r].env)
    BY <2>1 DEF Ledger!Free, Ledger!OpId, Ledger!NoOp, Ledger!Unfinished, Alive
  <2> QED
    BY <2>1, <2>2 DEF Ledger!Next
<1>4. CASE ~(Claim(r) \/ CreateOperation(r) \/ RefuseStart(r))
  BY <1>4 DEF Handler, BeginStart, Conflict, Launch, BeginDelete, CheckBusy,
     DeleteEnvironment, BeginEdit, UpdateEnvironment, Ledger!vars, Alive
<1> QED
  BY <1>1, <1>2, <1>3, <1>4

\* A run moves its operation forward once, or does nothing the ledger sees.
LEMMA GoroutineLedger ==
  ASSUME TypeOK, SlotInv, NEW o \in OpId, Goroutine(o)
  PROVE  Ledger!Next \/ UNCHANGED Ledger!vars
<1>1. ASSUME Running(o)
      PROVE  op[o].env \in Env /\ active[op[o].env] = o /\ Alive
  BY <1>1, RunningFacts, BusyIsAlive
<1>2. CASE Finish(o)
  <2>1. /\ Running(o) /\ status[o] \in Unfinished /\ run[o].end \in Terminal
        /\ UNCHANGED <<phase, active>>
        /\ \/ status' = [status EXCEPT ![o] = run[o].end] /\ lost' = lost
           \/ lost' = lost \union {o} /\ status' = status
    BY <1>2 DEF Finish, SlotInv, GoroutineHolds, Running, Early
  <2>2. Ledger!End(op[o].env, run[o].end) \/ Ledger!Lose(op[o].env)
    BY <1>1, <2>1 DEF Ledger!End, Ledger!Move, Ledger!Lose, Ledger!OpId,
       Ledger!Unfinished, Alive
  <2> QED
    BY <1>1, <2>1, <2>2 DEF Ledger!Next, Ledger!Terminal
<1>3. CASE CompleteOperation(o)
  BY <1>3 DEF CompleteOperation, Ledger!vars, Alive
<1>4. CASE Release(o)
  <2>1. /\ Running(o)
        /\ status[o] \in Terminal \/ o \in lost
        /\ active' = [active EXCEPT ![op[o].env] = NoOp]
        /\ UNCHANGED <<phase, status, lost>>
    BY <1>4 DEF Release, release, SlotInv, GoroutineHolds, Running, Early
  <2>2. Ledger!Free(op[o].env)
    BY <1>1, <2>1 DEF Ledger!Free, Ledger!OpId, Ledger!NoOp, Ledger!Unfinished, Alive
  <2> QED
    BY <1>1, <2>1, <2>2 DEF Ledger!Next
<1>5. CASE ~(Finish(o) \/ CompleteOperation(o) \/ Release(o))
  <2>1. Progress(o)
    BY <1>5, PrepareProgress, LoadProgress, PackageProgress, ConnectProgress,
       SyncProgress, WorkProgress, ScriptProgress, MarkerProgress, MarkProgress,
       CommandProgress, HistoryProgress, ResetProgress, UnmarkProgress,
       RemarkProgress, ClearProgress DEF Goroutine
  <2>2. /\ Running(o) /\ status[o] \in Unfinished
        /\ status' = status \/ status' = [status EXCEPT ![o] = "running"]
        /\ UNCHANGED <<phase, active, lost>>
    BY <2>1 DEF Progress, SlotInv, GoroutineHolds, Running, Early
  <2>3. Ledger!Begin(op[o].env) \/ UNCHANGED Ledger!vars
    BY <1>1, <2>2 DEF Ledger!Begin, Ledger!Move, Ledger!OpId, Ledger!Unfinished,
       Ledger!vars, Alive
  <2> QED
    BY <1>1, <2>2, <2>3 DEF Ledger!Next
<1> QED
  BY <1>2, <1>3, <1>4, <1>5

\* To the ledger, process and administration interrupt, delete, or do
\* nothing.
LEMMA ProcessLedger ==
  ASSUME TypeOK, SlotInv, Background \/ Process
  PROVE  Ledger!Next \/ UNCHANGED Ledger!vars
<1>1. CASE \E source, target \in Owner : TransferResources(source, target)
  BY <1>1 DEF TransferResources, Ledger!vars, Alive
<1>2. ASSUME NEW o \in OpId, DeleteTerminalOperationsBefore(o)
      PROVE  Ledger!Next
  <2>1. Ledger!Forget(o)
    BY <1>2 DEF DeleteTerminalOperationsBefore, Cancelled, Ledger!Forget,
       Ledger!Terminal, Alive
  <2> QED
    BY <2>1 DEF Ledger!Next, Ledger!OpId
<1>3. CASE Signal \/ Drained
  BY <1>3 DEF Signal, Drained, Ledger!vars, Alive
<1>4. CASE Exit \/ Crash
  <2>1. Ledger!Die
    BY <1>4 DEF Exit, Wait, Crash, Vanish, Ledger!Die, Ledger!NoOp, Alive
  <2> QED
    BY <2>1 DEF Ledger!Next
<1>5. CASE Restart
  <2>1. active = [e \in Env |-> NoOp]
    BY <1>5 DEF Restart, SlotInv, DeadIsIdle
  <2>2. Ledger!Recover
    BY <1>5, <2>1 DEF Restart, InterruptActiveOperations, Interrupt, Ledger!Recover,
       Ledger!NoOp, Ledger!OpId, Ledger!Unfinished, Alive
  <2> QED
    BY <2>2 DEF Ledger!Next
<1> QED
  BY <1>1, <1>2, <1>3, <1>4, <1>5 DEF Background, Process

\* Every step is a step of the ledger or a stutter.
LEMMA LedgerStep == Inv /\ [Next]_vars => [Ledger!Next]_(Ledger!vars)
<1> SUFFICES ASSUME TypeOK, SlotInv, [Next]_vars
             PROVE  Ledger!Next \/ UNCHANGED Ledger!vars
  BY DEF Inv
<1>1. CASE UNCHANGED vars
  BY <1>1 DEF vars, Ledger!vars, Alive
<1> QED
  BY <1>1, HandlerLedger, GoroutineLedger, ProcessLedger DEF Next

\* OperationManager implements OperationLedger: whatever the requests, the
\* failures and the restarts, slots and history follow the ledger's rules.
THEOREM ImplementsLedger == Spec => LedgerSpec
<1>1. Spec => Ledger!Init
  BY LedgerInit DEF Spec
<1> QED
  BY <1>1, LedgerStep, InvHolds, PTL DEF Spec, LedgerSpec, Ledger!Spec

\* What EndIsFinal says of one step.
LEMMA LedgerIsFinal ==
  ASSUME TypeOK, [Ledger!Next]_(Ledger!vars), NEW o \in OpId
  PROVE  /\ status[o] \in Terminal => status'[o] \in {status[o], "purged"}
         /\ status[o] = "purged" => status'[o] = "purged"
<1> USE DEF Ledger!OpId, Ledger!Unfinished, Ledger!Terminal
<1>1. ASSUME NEW e \in Env, NEW from, NEW to, Ledger!Move(e, from, to),
             from \subseteq {"none"} \union Unfinished
      PROVE  status[o] \in Terminal \union {"purged"} => status'[o] = status[o]
  BY <1>1 DEF Ledger!Move, TypeOK
<1>2. CASE \E e \in Env : Ledger!Accept(e) \/ Ledger!Begin(e)
                          \/ \E result \in Terminal : Ledger!End(e, result)
  BY <1>1, <1>2 DEF Ledger!Accept, Ledger!Begin, Ledger!End
<1>3. CASE UNCHANGED status
  BY <1>3
<1>4. CASE Ledger!Recover
  BY <1>4 DEF Ledger!Recover
<1>5. ASSUME NEW p \in OpId, Ledger!Forget(p)
      PROVE  /\ status[o] \in Terminal => status'[o] \in {status[o], "purged"}
             /\ status[o] = "purged" => status'[o] = "purged"
  BY <1>5 DEF Ledger!Forget, TypeOK
<1>6. \/ UNCHANGED status \/ Ledger!Recover \/ \E p \in OpId : Ledger!Forget(p)
      \/ \E e \in Env : Ledger!Accept(e) \/ Ledger!Begin(e)
                        \/ \E result \in Terminal : Ledger!End(e, result)
  BY DEF Ledger!Next, Ledger!vars, Ledger!Take, Ledger!Lose, Ledger!Free, Ledger!Die
<1> QED
  BY <1>2, <1>3, <1>4, <1>5, <1>6

\* No row of the history that has ended is opened again or given another end.
THEOREM EndsAreFinal == Spec => EndIsFinal
<1> DEFINE A == \A o \in OpId :
                  /\ status[o] \in Terminal => status'[o] \in {status[o], "purged"}
                  /\ status[o] = "purged" => status'[o] = "purged"
<1>1. Inv /\ [Next]_vars => [A]_vars
  BY LedgerStep, LedgerIsFinal DEF Inv
<1> HIDE DEF A
<1>2. Spec => [][A]_vars
  BY <1>1, InvHolds, PTL DEF Spec
<1> QED
  BY <1>2 DEF EndIsFinal, A

-----------------------------------------------------------------------------
(***************************************************************************)
(* What the last operation says of the server, as long as no row of an     *)
(* environment is edited.  A step of a goroutine that changes the install  *)
(* flag or a marker is a step of the newest operation of the environment,  *)
(* which has not succeeded yet (Deed); the others change neither (Aside).  *)
(***************************************************************************)
\* A step for operation o, which holds its environment: it changes no other
\* operation, no other environment, and no directory but this one's.
Deed(o) ==
  /\ op[o] \in Task /\ active[op[o].env] = o
  /\ UNCHANGED <<active, op>>
  /\ \A r \in Req : req'[r].pc # "edit"
  /\ \A e \in Env : /\ env'[e].dir = env[e].dir /\ env'[e].live = env[e].live
                    /\ e # op[o].env => env'[e].installed = env[e].installed
  /\ \A d \in Dir : d # env[op[o].env].dir => remote'[d] = remote[d]
  /\ \A p \in OpId \ {o} : run'[p] = run[p] /\ status'[p] = status[p]

\* To whom holds another environment nothing happens.
LEMMA DeedOthers ==
  ASSUME Inv, EffectInv, NEW o \in OpId, Deed(o), NEW p \in OpId \ {o}, Running(p)'
  PROVE  WorksThere(p)' /\ (Sole(op[p].env)' => EffectKnown(p)')
<1>1. Running(p) /\ run'[p] = run[p] /\ op' = op
  BY DEF Deed, Running
<1>2. op[p].env \in Env /\ active[op[p].env] = p
  BY <1>1, RunningFacts DEF Inv
<1> PICK e \in Env : e = op[p].env
  BY <1>2
<1> PICK f \in Env : f = op[o].env
  BY DEF Deed, Task
<1>3. e # f
  BY <1>2 DEF Deed
<1>4. env'[e].dir = env[e].dir /\ env'[e].live = env[e].live /\ env'[e].installed = env[e].installed
  BY <1>3 DEF Deed
<1>5. WorksThere(p) /\ (Sole(e) => EffectKnown(p))
  BY <1>1 DEF EffectInv
<1>6. WorksThere(p)'
  BY <1>1, <1>4, <1>5 DEF WorksThere
<1>7. ASSUME Sole(e)' PROVE EffectKnown(p)'
  <2>1. Sole(e) /\ env[f].dir # env[e].dir
    BY <1>3, <1>7 DEF Sole, Deed
  <2>2. remote'[env[e].dir] = remote[env[e].dir]
    BY <2>1 DEF Deed, Inv, TypeOK
  <2>3. Markers(e)' = Markers(e)
    BY <1>4, <2>2 DEF Markers
  <2>4. (Installed(e)' <=> Installed(e)) /\ (Uninstalled(e)' <=> Uninstalled(e))
    BY <1>4, <2>3 DEF Installed, Uninstalled
  <2> QED
    BY <1>1, <1>4, <1>5, <2>1, <2>3, <2>4 DEF EffectKnown
<1> QED
  BY <1>1, <1>6, <1>7

\* A deed is on record: the operation is the newest of its environment and has
\* not succeeded, or there is no drift that was not there before, or none.
LEMMA DeedOnRecord ==
  ASSUME Inv, EffectInv, NEW o \in OpId, Deed(o), status'[o] # None,
         \/ op[o].action \in {"install", "reset"} /\ status'[o] # "succeeded"
         \/ op[o].action \notin {"install", "reset"} /\ (Drift(op[o].env)' => Drift(op[o].env))
         \/ env[op[o].env].live /\ Sole(op[o].env) => ~Drift(op[o].env)'
  PROVE  HolderIsNewest' /\ DriftOnRecord'
<1> PICK f \in Env : f = op[o].env
  BY DEF Deed, Task
<1>1. op' = op /\ active' = active /\ active[f] = o
  BY DEF Deed
<1>2. \A p \in OpId \ {o} : status'[p] = status[p]
  BY DEF Deed
<1>3. HolderIsNewest'
  BY <1>1, <1>2 DEF HolderIsNewest, EffectInv
<1>4. ASSUME NEW e \in Env, (env[e].live /\ Sole(e) /\ Drift(e))'
      PROVE  (\E q \in Deploys(e) : status[q] # "succeeded" /\ \A p \in Deploys(e) : p <= q)'
  <2>1. env[e].live /\ Sole(e)
    BY <1>4 DEF Deed, Sole
  <2>2. ASSUME Drift(e), op[o].env # e \/ op[o].action \notin {"install", "reset"}
        PROVE  (\E q \in Deploys(e) : status[q] # "succeeded" /\ \A p \in Deploys(e) : p <= q)'
    <3>1. PICK q \in Deploys(e) : status[q] # "succeeded" /\ \A p \in Deploys(e) : p <= q
      BY <2>1, <2>2 DEF EffectInv, DriftOnRecord
    <3>2. Deploys(e)' = Deploys(e) /\ o \notin Deploys(e)
      BY <1>1, <1>2, <2>2 DEF Deploys
    <3>3. q \in Deploys(e)' /\ status'[q] # "succeeded" /\ \A p \in Deploys(e)' : p <= q
      BY <1>2, <3>1, <3>2 DEF Deploys
    <3> QED
      BY <3>3
  <2>3. CASE e # f
    <3>1. env[f].dir # env[e].dir
      BY <2>1, <2>3 DEF Sole
    <3>2. env[e].dir \in Dir /\ env'[e].dir = env[e].dir /\ env'[e].installed = env[e].installed
      BY <2>3 DEF Deed, Inv, TypeOK
    <3>3. remote'[env[e].dir] = remote[env[e].dir]
      BY <3>1, <3>2 DEF Deed
    <3>4. Drift(e)
      BY <1>4, <3>2, <3>3 DEF Drift
    <3> QED
      BY <2>2, <2>3, <3>4
  <2>4. CASE e = f /\ op[o].action \in {"install", "reset"} /\ status'[o] # "succeeded"
    <3>1. o \in Deploys(e)'
      BY <1>1, <2>4 DEF Deploys
    <3>2. \A p \in Deploys(e)' : p <= o
      BY <1>1, <1>3, <2>4 DEF Deploys, HolderIsNewest
    <3> QED
      BY <2>4, <3>1, <3>2
  <2>5. CASE e = f /\ op[o].action \notin {"install", "reset"} /\ (Drift(f)' => Drift(f))
    BY <1>4, <2>2, <2>5
  <2>6. CASE e = f /\ (env[f].live /\ Sole(f) => ~Drift(f)')
    BY <1>4, <2>1, <2>6
  <2>7. Drift(f)' <=> Drift(op[o].env)'
    BY <1>1 DEF Drift
  <2> QED
    BY <2>3, <2>4, <2>5, <2>6, <2>7
<1> QED
  BY <1>3, <1>4 DEF DriftOnRecord

\* A deed that is on record, by an operation that knows what it did.
LEMMA DeedEffect ==
  ASSUME Inv, EffectInv, NEW o \in OpId, Deed(o), status'[o] # None,
         \/ op[o].action \in {"install", "reset"} /\ status'[o] # "succeeded"
         \/ op[o].action \notin {"install", "reset"} /\ (Drift(op[o].env)' => Drift(op[o].env))
         \/ env[op[o].env].live /\ Sole(op[o].env) => ~Drift(op[o].env)',
         Running(o)' => WorksThere(o)' /\ (Sole(op[o].env) => EffectKnown(o)')
  PROVE  EffectInv'
<1>1. Sole(op[o].env)' => Sole(op[o].env)
  BY DEF Sole, Deed, Task
<1>2. \A p \in OpId : Running(p)' => WorksThere(p)' /\ (Sole(op[p].env)' => EffectKnown(p)')
  BY <1>1, DeedOthers
<1>3. \A r \in Req : req'[r].pc # "edit"
  BY DEF Deed
<1> QED
  BY <1>2, <1>3, DeedOnRecord DEF EffectInv

\* What a goroutine at work holds.
LEMMA EarlyFacts ==
  ASSUME Inv, NEW o \in OpId, Early(o)
  PROVE  /\ Running(o) /\ op[o] \in Task /\ op[o].env \in Env /\ active[op[o].env] = o
         /\ op[o].action \in Action /\ status[o] \in Unfinished
  BY RunningFacts DEF Inv, SlotInv, GoroutineHolds, Running, Early, Task

\* What such a step may touch of the environments and of the server.
Reach(o) ==
  /\ UNCHANGED env \/ \E flag \in BOOLEAN : SetInstalled(o, flag)
  /\ \/ UNCHANGED remote
     \/ run[o].pc \in InstallSteps \union ResetSteps \union {"command"} /\ \E now : SetRemote(o, now)

\* A step that progresses is a deed of its operation.
LEMMA ProgressDeed ==
  ASSUME Inv, EffectInv, NEW o \in OpId, Progress(o), Reach(o)
  PROVE  Deed(o) /\ status'[o] \in Unfinished
<1>1. TypeOK /\ Early(o)
  BY DEF Inv, Progress
<1>2. \A p \in OpId \ {o} : run'[p] = run[p] /\ status'[p] = status[p]
  BY <1>1 DEF Progress, MovesOn, TypeOK
<1>3. status'[o] \in Unfinished
  BY <1>1, EarlyFacts DEF Progress, TypeOK
<1>4. \A e \in Env : /\ env'[e].dir = env[e].dir
                     /\ e # op[o].env => env'[e].installed = env[e].installed
  <2>1. CASE UNCHANGED env
    BY <2>1
  <2>2. ASSUME NEW flag \in BOOLEAN, SetInstalled(o, flag), NEW e \in Env
        PROVE  /\ env'[e].dir = env[e].dir
               /\ e # op[o].env => env'[e].installed = env[e].installed
    <3> DEFINE row == [env[op[o].env] EXCEPT !.installed = flag]
    <3>1. env' = [env EXCEPT ![op[o].env] = row]
      BY <2>2 DEF SetInstalled
    <3>2. env[e] \in Rows
      BY <1>1 DEF TypeOK, Rows
    <3>3. op[o].env = e => row.dir = env[e].dir
      BY <3>2 DEF Rows
    <3> HIDE DEF row
    <3> QED
      BY <1>1, <3>1, <3>3 DEF TypeOK
  <2> QED
    BY <2>1, <2>2 DEF Reach
<1>5. \A d \in Dir : d # env[op[o].env].dir => remote'[d] = remote[d]
  <2>1. CASE UNCHANGED remote
    BY <2>1
  <2>2. ASSUME NEW now, SetRemote(o, now), NEW d \in Dir, d # run[o].dir
        PROVE  remote'[d] = remote[d]
    BY <1>1, <2>2 DEF SetRemote, TypeOK
  <2>3. run[o].pc \in InstallSteps \union ResetSteps \union {"command"} =>
          run[o].dir = env[op[o].env].dir
    BY <1>1, EarlyFacts DEF EffectInv, WorksThere
  <2> QED
    BY <2>1, <2>2, <2>3 DEF Reach
<1>6. \A r \in Req : req'[r].pc # "edit"
  BY DEF EffectInv, Progress
<1> QED
  BY <1>1, <1>2, <1>3, <1>4, <1>5, <1>6, EarlyFacts DEF Deed, Progress, EnvKept

\* Such a step of an install or a reset is on record; so is one that changes
\* neither the flag nor whether the directory holds the marker.
LEMMA ProgressEffect ==
  ASSUME Inv, EffectInv, NEW o \in OpId, Progress(o), Reach(o),
         \/ run[o].pc \in InstallSteps \union ResetSteps
         \/ UNCHANGED env /\ (Drift(op[o].env)' => Drift(op[o].env)),
         WorksThere(o)', Sole(op[o].env) => EffectKnown(o)'
  PROVE  EffectInv'
<1>1. Deed(o) /\ status'[o] \in Unfinished
  BY ProgressDeed
<1>2. Early(o) /\ op[o].action \in Action
  BY EarlyFacts DEF Progress
<1>3. run[o].pc \in InstallSteps \union ResetSteps => op[o].action \in {"install", "reset"}
  BY <1>2, EarlyFacts DEF EffectInv, WorksThere
<1>4. status'[o] # None /\ status'[o] # "succeeded"
  BY <1>1
<1> QED
  BY <1>1, <1>3, <1>4, DeedEffect

\* An operation that ends otherwise than as succeeded claims nothing.
Falls(o) == run'[o].pc = "finish" /\ run'[o].end # "succeeded"

LEMMA FallsKnows ==
  ASSUME NEW o \in OpId, Falls(o)
  PROVE  WorksThere(o)' /\ EffectKnown(o)'
  BY DEF Falls, WorksThere, EffectKnown, InstallSteps, ResetSteps

\* What Outcome and Failed write when there was an error.
LEMMA ErrorFalls ==
  ASSUME TypeOK, NEW o \in OpId, NEW err \in ErrKind \ {"ok"}, Outcome(o, err) \/ Failed(o, err)
  PROVE  Falls(o)
<1> DEFINE end == IF Outcome(o, err) THEN classifyError(err) ELSE "failed"
           now == [NoRun EXCEPT !.pc = "finish", !.end = end, !.err = err]
<1>1. end # "succeeded"
  BY DEF classifyError, ErrKind
<1>2. run' = [run EXCEPT ![o] = now]
  BY DEF Outcome, Failed, Conclude
<1>3. now.pc = "finish" /\ now.end = end
  BY DEF NoRun
<1> HIDE DEF end, now
<1>4. run'[o] = now
  BY <1>2 DEF TypeOK
<1> QED
  BY <1>1, <1>3, <1>4 DEF Falls

\* Neither the store nor the server answers with what is no error.
LEMMA Errors ==
  /\ \A e : StoreErr(e) \subseteq ErrKind \ {"ok"}
  /\ RemoteErr \subseteq ErrKind \ {"ok"}
  /\ {"fault", "exists"} \subseteq ErrKind \ {"ok"}
  BY DEF StoreErr, RemoteErr, ErrKind

\* Where a run goes when it goes on, and where it keeps working.
LEMMA GotoThere ==
  ASSUME Inv, EffectInv, NEW o \in OpId, Progress(o), Reach(o), NEW pc \in RunPc, Goto(o, pc),
         \/ run[o].pc \in InstallSteps /\ pc \in InstallSteps
         \/ run[o].pc \in ResetSteps /\ pc \in ResetSteps
  PROVE  run'[o].pc = pc /\ WorksThere(o)'
<1>1. run'[o].pc = pc /\ run'[o].dir = run[o].dir
  BY DEF Goto, Inv, TypeOK
<1>2. WorksThere(o) /\ op' = op
  BY EarlyFacts DEF EffectInv, Progress
<1>3. env'[op[o].env].dir = env[op[o].env].dir
  BY ProgressDeed, EarlyFacts DEF Deed, Progress
<1> QED
  BY <1>1, <1>2, <1>3 DEF WorksThere, InstallSteps, ResetSteps

\* Every step but the last ones reaches no further than its own environment
\* and directory.
LEMMA StepsReach ==
  ASSUME NEW o \in OpId,
         \/ Prepare(o) \/ Load(o) \/ Package(o) \/ Connect(o) \/ Sync(o) \/ Work(o)
         \/ Script(o) \/ Marker(o) \/ Mark(o) \/ Command(o) \/ History(o) \/ Reset(o)
         \/ Unmark(o) \/ Remark(o) \/ Clear(o)
  PROVE  Reach(o)
<1> USE DEF Reach, InstallSteps, ResetSteps
<1>1. CASE Prepare(o) \/ Load(o) \/ Package(o) \/ History(o)
  BY <1>1 DEF Prepare, Load, Package, History
<1>2. CASE Connect(o) \/ Work(o) \/ Script(o)
  BY <1>2 DEF Connect, Work, Script
<1>3. CASE Marker(o) \/ Unmark(o) \/ Remark(o)
  BY <1>3 DEF Marker, Unmark, Remark
<1>4. CASE Command(o) \/ Reset(o)
  BY <1>4 DEF Command, Reset
<1>5. CASE Sync(o) \/ Mark(o) \/ Clear(o)
  BY <1>5 DEF Sync, Mark, Clear
<1> QED
  BY <1>1, <1>2, <1>3, <1>4, <1>5

\* A step of an install or a reset that goes on to where nothing is known yet,
\* or falls.
LEMMA PlainEffect ==
  ASSUME Inv, EffectInv, NEW o \in OpId, Progress(o), Reach(o),
         run[o].pc \in InstallSteps \union ResetSteps,
         \/ \E pc \in RunPc \ {"mark", "remark", "clear"} :
              /\ Goto(o, pc)
              /\ \/ run[o].pc \in InstallSteps /\ pc \in InstallSteps
                 \/ run[o].pc \in ResetSteps /\ pc \in ResetSteps
         \/ Falls(o)
  PROVE  EffectInv'
<1>1. CASE Falls(o)
  BY <1>1, FallsKnows, ProgressEffect
<1>2. ASSUME NEW pc \in RunPc \ {"mark", "remark", "clear"}, Goto(o, pc),
             \/ run[o].pc \in InstallSteps /\ pc \in InstallSteps
             \/ run[o].pc \in ResetSteps /\ pc \in ResetSteps
      PROVE  EffectInv'
  <2>1. run'[o].pc = pc /\ WorksThere(o)'
    BY <1>2, GotoThere
  <2>2. pc # "finish"
    BY <1>2 DEF InstallSteps, ResetSteps
  <2>3. EffectKnown(o)'
    BY <1>2, <2>1, <2>2 DEF EffectKnown
  <2> QED
    BY <2>1, <2>3, ProgressEffect
<1> QED
  BY <1>1, <1>2

\* The steps of an install and of a reset before the markers.
LEMMA EarlySteps ==
  ASSUME Inv, EffectInv, NEW o \in OpId,
         Package(o) \/ Connect(o) \/ Sync(o) \/ Work(o) \/ Script(o) \/ History(o) \/ Reset(o)
  PROVE  EffectInv'
<1>1. TypeOK /\ Progress(o) /\ Reach(o)
  BY PackageProgress, ConnectProgress, SyncProgress, WorkProgress, ScriptProgress,
     HistoryProgress, ResetProgress, StepsReach DEF Inv
<1> DEFINE On(pc) == Goto(o, pc) /\ \/ run[o].pc \in InstallSteps /\ pc \in InstallSteps
                                    \/ run[o].pc \in ResetSteps /\ pc \in ResetSteps
           Out == \E err \in ErrKind \ {"ok"} : Outcome(o, err) \/ Failed(o, err)
<1>2. Out => Falls(o)
  BY <1>1, ErrorFalls
<1>3. CASE Package(o)
  <2>1. On("connect") \/ Out
    BY <1>3, Errors DEF Package, InstallSteps
  <2> QED
    BY <1>1, <1>2, <1>3, <2>1, PlainEffect DEF Package, InstallSteps, RunPc
<1>4. CASE Connect(o)
  <2>1. On("sync") \/ On("work") \/ Out
    BY <1>4, Errors DEF Connect, InstallSteps
  <2> QED
    BY <1>1, <1>2, <1>4, <2>1, PlainEffect DEF Connect, InstallSteps, RunPc
<1>5. CASE Sync(o)
  <2>1. Out
    BY <1>5, Errors DEF Sync
  <2> QED
    BY <1>1, <1>2, <1>5, <2>1, PlainEffect DEF Sync, InstallSteps
<1>6. CASE Work(o)
  <2>1. On("script") \/ Out
    BY <1>6, Errors DEF Work, InstallSteps
  <2> QED
    BY <1>1, <1>2, <1>6, <2>1, PlainEffect DEF Work, InstallSteps, RunPc
<1>7. CASE Script(o)
  <2>1. On("marker") \/ Out
    BY <1>7, Errors DEF Script, InstallSteps
  <2> QED
    BY <1>1, <1>2, <1>7, <2>1, PlainEffect DEF Script, InstallSteps, RunPc
<1>8. CASE History(o)
  <2>1. CASE \E err \in StoreErr(op[o].env) : Failed(o, err)
    <3>1. Out
      BY <2>1, Errors
    <3> QED
      BY <1>1, <1>2, <1>8, <3>1, PlainEffect DEF History, ResetSteps
  <2>2. CASE ~ \E err \in StoreErr(op[o].env) : Failed(o, err)
    <3> DEFINE now == [run[o] EXCEPT !.pc = "reset",
                                     !.stop = LastSuccessfulAction(op[o].env) # "stop"]
    <3>1. run' = [run EXCEPT ![o] = now] /\ run[o].pc = "history"
      BY <1>8, <2>2 DEF History
    <3>2. now.pc = "reset" /\ now.dir = run[o].dir
      BY <1>1 DEF TypeOK
    <3> HIDE DEF now
    <3>3. run'[o].pc = "reset" /\ run'[o].dir = run[o].dir
      BY <1>1, <3>1, <3>2 DEF TypeOK
    <3>4. WorksThere(o) /\ UNCHANGED <<op, env>>
      BY <1>1, <1>8, EarlyFacts DEF EffectInv, Progress, History
    <3>5. WorksThere(o)'
      BY <3>1, <3>3, <3>4 DEF WorksThere, InstallSteps, ResetSteps
    <3>6. EffectKnown(o)'
      BY <3>3 DEF EffectKnown
    <3> QED
      BY <1>1, <3>1, <3>5, <3>6, ProgressEffect DEF ResetSteps
  <2> QED
    BY <2>1, <2>2
<1>9. CASE Reset(o)
  <2>1. On("unmark") \/ Out
    BY <1>9, Errors DEF Reset, ResetSteps
  <2> QED
    BY <1>1, <1>2, <1>9, <2>1, PlainEffect DEF Reset, ResetSteps, RunPc
<1> QED
  BY <1>3, <1>4, <1>5, <1>6, <1>7, <1>8, <1>9

\* What is left in the directory of an operation at work.
LEMMA MarkersNow ==
  ASSUME Inv, EffectInv, NEW o \in OpId, Progress(o), Reach(o),
         run[o].pc \in InstallSteps \union ResetSteps \union {"command"}, NEW now, SetRemote(o, now)
  PROVE  /\ Markers(op[o].env)' = now \intersect {"installed", "installing"}
         /\ Markers(op[o].env) = RemoteNow(o) \intersect {"installed", "installing"}
<1> PICK e \in Env : e = op[o].env
  BY EarlyFacts DEF Progress
<1>1. run[o].dir = env[e].dir /\ op' = op /\ env[e].dir \in Dir
  BY EarlyFacts DEF EffectInv, WorksThere, Progress, Inv, TypeOK
<1>2. env'[e].dir = env[e].dir
  BY ProgressDeed DEF Deed
<1>3. remote'[env[e].dir] = now
  BY <1>1 DEF SetRemote, Inv, TypeOK
<1> QED
  BY <1>1, <1>2, <1>3 DEF Markers, RemoteNow

\* Marker, Unmark and Remark: the markers are as the next step finds them.
LEMMA MarkerSteps ==
  ASSUME Inv, EffectInv, NEW o \in OpId, Marker(o) \/ Unmark(o) \/ Remark(o)
  PROVE  EffectInv'
<1>1. TypeOK /\ Progress(o) /\ Reach(o)
  BY MarkerProgress, UnmarkProgress, RemarkProgress, StepsReach DEF Inv
<1>2. "fault" \in ErrKind \ {"ok"}
  BY Errors
<1>3. op' = op /\ Early(o)
  BY <1>1 DEF Progress
<1>4. CASE Outcome(o, "fault")
  <2>1. run[o].pc \in InstallSteps \union ResetSteps
    BY DEF Marker, Unmark, Remark, InstallSteps, ResetSteps
  <2> QED
    BY <1>1, <1>2, <1>4, <2>1, ErrorFalls, PlainEffect
<1>5. CASE Marker(o) /\ ~Outcome(o, "fault")
  <2>1. PICK stays \in {{}, {"installing"}} :
          SetRemote(o, (RemoteNow(o) \ {"installing"}) \union stays \union {"installed"})
    BY <1>5 DEF Marker
  <2>2. run[o].pc = "marker" /\ Goto(o, "mark")
    BY <1>5 DEF Marker
  <2>3. run'[o].pc = "mark" /\ WorksThere(o)'
    BY <1>1, <2>2, GotoThere DEF InstallSteps, RunPc
  <2>4. "installed" \in Markers(op[o].env)'
    BY <1>1, <2>1, <2>2, MarkersNow DEF InstallSteps
  <2>5. EffectKnown(o)'
    BY <1>3, <2>3, <2>4 DEF EffectKnown, Markers
  <2> QED
    BY <1>1, <2>2, <2>3, <2>5, ProgressEffect DEF InstallSteps
<1>6. CASE Unmark(o) /\ ~Outcome(o, "fault")
  <2>1. SetRemote(o, RemoteNow(o) \ {"installed"})
    BY <1>6 DEF Unmark
  <2>2. run[o].pc = "unmark" /\ Goto(o, "remark")
    BY <1>6 DEF Unmark
  <2>3. run'[o].pc = "remark" /\ WorksThere(o)'
    BY <1>1, <2>2, GotoThere DEF ResetSteps, RunPc
  <2>4. "installed" \notin Markers(op[o].env)'
    BY <1>1, <2>1, <2>2, MarkersNow DEF ResetSteps
  <2>5. EffectKnown(o)'
    BY <1>3, <2>3, <2>4 DEF EffectKnown, Markers
  <2> QED
    BY <1>1, <2>2, <2>3, <2>5, ProgressEffect DEF ResetSteps
<1>7. CASE Remark(o) /\ ~Outcome(o, "fault")
  <2>1. SetRemote(o, RemoteNow(o) \union {"installing"})
    BY <1>7 DEF Remark
  <2>2. run[o].pc = "remark" /\ Goto(o, "clear")
    BY <1>7 DEF Remark
  <2>3. run'[o].pc = "clear" /\ WorksThere(o)'
    BY <1>1, <2>2, GotoThere DEF ResetSteps, RunPc
  <2>4. Sole(op[o].env) => Markers(op[o].env)' = {"installing"}
    <3>1. /\ Markers(op[o].env)' =
               (RemoteNow(o) \union {"installing"}) \intersect {"installed", "installing"}
          /\ Markers(op[o].env) = RemoteNow(o) \intersect {"installed", "installing"}
      BY <1>1, <2>1, <2>2, MarkersNow DEF ResetSteps
    <3>2. Sole(op[o].env) => "installed" \notin Markers(op[o].env)
      BY <1>3, <2>2, EarlyFacts DEF EffectInv, EffectKnown
    <3> QED
      BY <3>1, <3>2
  <2>5. Sole(op[o].env) => EffectKnown(o)'
    BY <1>3, <2>3, <2>4 DEF EffectKnown, Markers
  <2> QED
    BY <1>1, <2>2, <2>3, <2>5, ProgressEffect DEF ResetSteps
<1> QED
  BY <1>4, <1>5, <1>6, <1>7

\* What Outcome writes when there was no error.
LEMMA SuccessEnds ==
  ASSUME TypeOK, NEW o \in OpId, Outcome(o, "ok")
  PROVE  /\ run'[o].pc = "finish" /\ run'[o].end = "succeeded"
         /\ WorksThere(o)'
<1> DEFINE now == [NoRun EXCEPT !.pc = "finish", !.end = "succeeded", !.err = "ok"]
<1>1. classifyError("ok") = "succeeded"
  BY DEF classifyError, ErrKind
<1>2. run' = [run EXCEPT ![o] = now]
  BY <1>1 DEF Outcome, Conclude
<1>3. now.pc = "finish" /\ now.end = "succeeded"
  BY DEF NoRun
<1> HIDE DEF now
<1>4. run'[o] = now
  BY <1>2 DEF TypeOK
<1> QED
  BY <1>3, <1>4 DEF WorksThere, InstallSteps, ResetSteps

\* What MarkInstalled and MarkUninstalled write.
LEMMA FlagWritten ==
  ASSUME Inv, EffectInv, NEW o \in OpId, Early(o), NEW flag \in BOOLEAN, SetInstalled(o, flag)
  PROVE  env'[op[o].env].installed = flag
<1> DEFINE row == [env[op[o].env] EXCEPT !.installed = flag]
<1>1. env' = [env EXCEPT ![op[o].env] = row]
  BY DEF SetInstalled
<1>2. op[o].env \in Env /\ env[op[o].env] \in Rows
  BY EarlyFacts DEF Inv, TypeOK, Rows
<1>3. row.installed = flag
  BY <1>2 DEF Rows
<1> HIDE DEF row
<1> QED
  BY <1>1, <1>2, <1>3 DEF Inv, TypeOK

\* Mark and Clear: the flag follows the markers, or the operation falls.
LEMMA FlagSteps ==
  ASSUME Inv, EffectInv, NEW o \in OpId, Mark(o) \/ Clear(o)
  PROVE  EffectInv'
<1>1. TypeOK /\ Progress(o) /\ Reach(o) /\ run[o].pc \in InstallSteps \union ResetSteps
  BY MarkProgress, ClearProgress, StepsReach DEF Inv, Mark, Clear, InstallSteps, ResetSteps
<1>2. op' = op /\ Early(o)
  BY <1>1 DEF Progress
<1> PICK e \in Env : e = op[o].env
  BY <1>2, EarlyFacts
<1>3. CASE \E err \in StoreErr(e) : Outcome(o, err)
  <2>1. \E err \in ErrKind \ {"ok"} : Outcome(o, err)
    BY <1>3, Errors
  <2> QED
    BY <1>1, <2>1, ErrorFalls, PlainEffect
<1>4. CASE ~ \E err \in StoreErr(e) : Outcome(o, err)
  <2>1. Outcome(o, "ok") /\ UNCHANGED remote
    BY <1>4 DEF Mark, Clear
  <2>2. run'[o].pc = "finish" /\ run'[o].end = "succeeded" /\ WorksThere(o)'
    BY <1>1, <2>1, SuccessEnds
  <2>3. Markers(e)' = Markers(e)
    <3>1. env'[e].dir = env[e].dir
      BY <1>1, ProgressDeed DEF Deed
    <3> QED
      BY <2>1, <3>1 DEF Markers
  <2>4. WorksThere(o) /\ (Sole(e) => EffectKnown(o))
    BY <1>2, EarlyFacts DEF EffectInv
  <2>5. CASE Mark(o)
    <3>1. run[o].pc = "mark" /\ SetInstalled(o, TRUE)
      BY <1>4, <2>5 DEF Mark
    <3>2. op[o].action = "install" /\ (Sole(e) => "installed" \in Markers(e))
      BY <2>4, <3>1 DEF WorksThere, InstallSteps, EffectKnown
    <3>3. Sole(e) => Installed(e)'
      BY <1>2, <2>3, <3>1, <3>2, FlagWritten DEF Installed
    <3>4. Sole(e) => EffectKnown(o)'
      BY <1>2, <2>2, <3>2, <3>3 DEF EffectKnown
    <3> QED
      BY <1>1, <2>2, <3>4, ProgressEffect
  <2>6. CASE Clear(o)
    <3>1. run[o].pc = "clear" /\ SetInstalled(o, FALSE)
      BY <1>4, <2>6 DEF Clear
    <3>2. op[o].action = "reset" /\ (Sole(e) => Markers(e) = {"installing"})
      BY <2>4, <3>1 DEF WorksThere, ResetSteps, EffectKnown
    <3>3. Sole(e) => Uninstalled(e)'
      BY <1>2, <2>3, <3>1, <3>2, FlagWritten DEF Uninstalled
    <3>4. Sole(e) => EffectKnown(o)'
      BY <1>2, <2>2, <3>2, <3>3 DEF EffectKnown
    <3> QED
      BY <1>1, <2>2, <3>4, ProgressEffect
  <2> QED
    BY <2>5, <2>6
<1> QED
  BY <1>3, <1>4

\* Prepare, Load and Command: neither the flag nor a marker changes.
LEMMA OpeningSteps ==
  ASSUME Inv, EffectInv, NEW o \in OpId, Prepare(o) \/ Load(o)
  PROVE  EffectInv'
<1>1. TypeOK /\ SlotInv /\ Progress(o) /\ Reach(o) /\ UNCHANGED <<env, remote>>
  BY PrepareProgress, LoadProgress, StepsReach DEF Inv, Prepare, Load
<1>2. op' = op /\ Early(o)
  BY <1>1 DEF Progress
<1>3. Drift(op[o].env)' => Drift(op[o].env)
  BY <1>1, <1>2 DEF Drift
<1>4. "fault" \in ErrKind \ {"ok"} /\ \A err \in StoreErr(op[o].env) : err \in ErrKind \ {"ok"}
  BY Errors
<1>5. CASE \E err \in ErrKind \ {"ok"} : Failed(o, err)
  BY <1>1, <1>3, <1>5, ErrorFalls, FallsKnows, ProgressEffect
<1>6. CASE ~ \E err \in ErrKind \ {"ok"} : Failed(o, err)
  <2>1. CASE Prepare(o)
    <3>1. Goto(o, "load")
      BY <1>4, <1>6, <2>1 DEF Prepare
    <3>2. run'[o].pc = "load"
      BY <1>1, <3>1 DEF Goto, TypeOK
    <3>3. WorksThere(o)' /\ EffectKnown(o)'
      BY <3>2 DEF WorksThere, EffectKnown, InstallSteps, ResetSteps
    <3> QED
      BY <1>1, <1>3, <3>3, ProgressEffect
  <2>2. CASE Load(o)
    <3> DEFINE now == [run[o] EXCEPT !.pc = FirstStep[op[o].action], !.dir = env[op[o].env].dir]
    <3>1. run' = [run EXCEPT ![o] = now]
      BY <1>4, <1>6, <2>2 DEF Load
    <3>2. now.pc = FirstStep[op[o].action] /\ now.dir = env[op[o].env].dir
      BY <1>1 DEF TypeOK
    <3> HIDE DEF now
    <3>3. run'[o].pc = FirstStep[op[o].action] /\ run'[o].dir = env[op[o].env].dir
      BY <1>1, <3>1, <3>2 DEF TypeOK
    <3>4. op[o].action \in Action
      BY <1>2, EarlyFacts
    <3>5. WorksThere(o)'
      BY <1>1, <1>2, <3>3, <3>4 DEF WorksThere, InstallSteps, ResetSteps, FirstStep, Action
    <3>6. EffectKnown(o)'
      BY <3>3, <3>4 DEF EffectKnown, FirstStep, Action
    <3> QED
      BY <1>1, <1>3, <3>5, <3>6, ProgressEffect
  <2> QED
    BY <2>1, <2>2
<1> QED
  BY <1>5, <1>6

\* start.sh and stop.sh.
LEMMA CommandEffect ==
  ASSUME Inv, EffectInv, NEW o \in OpId, Command(o)
  PROVE  EffectInv'
<1>1. TypeOK /\ Progress(o) /\ Reach(o) /\ UNCHANGED env /\ run[o].pc = "command"
  BY CommandProgress, StepsReach DEF Inv, Command
<1>2. op' = op /\ Early(o)
  BY <1>1 DEF Progress
<1>3. op[o].action \in {"start", "stop"}
  BY <1>1, <1>2, EarlyFacts DEF EffectInv, WorksThere
<1>4. Markers(op[o].env)' = Markers(op[o].env)
  <2>1. CASE UNCHANGED remote
    BY <1>1, <1>2, <2>1 DEF Markers
  <2>2. CASE SetRemote(o, AfterScript(o))
    <3>1. AfterScript(o) \intersect {"installed", "installing"}
            = RemoteNow(o) \intersect {"installed", "installing"}
      BY DEF AfterScript
    <3> QED
      BY <1>1, <2>2, <3>1, MarkersNow
  <2> QED
    BY <2>1, <2>2 DEF Command
<1>5. Drift(op[o].env)' => Drift(op[o].env)
  BY <1>1, <1>2, <1>4 DEF Drift, Markers
<1>6. CASE Outcome(o, "ok")
  <2>1. run'[o].pc = "finish" /\ WorksThere(o)'
    BY <1>1, <1>6, SuccessEnds
  <2>2. EffectKnown(o)'
    BY <1>2, <1>3, <2>1 DEF EffectKnown
  <2> QED
    BY <1>1, <1>5, <2>1, <2>2, ProgressEffect
<1>7. CASE ~Outcome(o, "ok")
  <2>1. \E err \in ErrKind \ {"ok"} : Outcome(o, err)
    BY <1>7, Errors DEF Command
  <2>2. Falls(o)
    BY <1>1, <2>1, ErrorFalls
  <2> QED
    BY <1>1, <1>5, <2>2, FallsKnows, ProgressEffect
<1> QED
  BY <1>6, <1>7

\* Finish: what is written as succeeded has happened.
LEMMA FinishEffect ==
  ASSUME Inv, EffectInv, NEW o \in OpId, Finish(o)
  PROVE  EffectInv'
<1>1. TypeOK /\ run[o].pc = "finish" /\ run[o].end \in Terminal /\ Early(o)
  BY DEF Inv, SlotInv, GoroutineHolds, Finish, Running, Early
<1>2. op[o] \in Task /\ op[o].action \in Action /\ active[op[o].env] = o
      /\ status[o] \in Unfinished
  BY <1>1, EarlyFacts
<1> PICK e \in Env : e = op[o].env
  BY <1>1, EarlyFacts
<1>3. UNCHANGED <<env, remote, op, active, req>>
  BY DEF Finish
<1>4. run'[o].pc = "complete" /\ \A p \in OpId \ {o} : run'[p] = run[p]
  BY <1>1 DEF Finish, NoRun, TypeOK
<1>5. status'[o] \in {status[o], run[o].end} /\ \A p \in OpId \ {o} : status'[p] = status[p]
  BY <1>1 DEF Finish, TypeOK
<1>6. Deed(o)
  BY <1>2, <1>3, <1>4, <1>5 DEF Deed, EffectInv
<1>7. WorksThere(o)' /\ EffectKnown(o)'
  BY <1>4 DEF WorksThere, EffectKnown, InstallSteps, ResetSteps
<1>8. status'[o] # None /\ (status'[o] = "succeeded" => run[o].end = "succeeded")
  BY <1>1, <1>2, <1>5
<1>9. Drift(e)' <=> Drift(e)
  BY <1>3 DEF Drift
<1>10. op[o].action \in {"install", "reset"} /\ run[o].end = "succeeded"
         /\ env[e].live /\ Sole(e) => ~Drift(e)
  <2>1. Sole(e) => EffectKnown(o)
    BY <1>1, EarlyFacts DEF EffectInv
  <2>2. (Installed(e) => ~Drift(e)) /\ (Uninstalled(e) => ~Drift(e))
    <3>1. env[e].installed \in BOOLEAN
      BY <1>1 DEF TypeOK
    <3> QED
      BY <3>1 DEF Installed, Uninstalled, Markers, Drift
  <2> QED
    BY <1>1, <2>1, <2>2 DEF EffectKnown
<1>11. op[o].action \in {"install", "reset"} /\ status'[o] = "succeeded" =>
         (env[op[o].env].live /\ Sole(op[o].env) => ~Drift(op[o].env)')
  BY <1>3, <1>8, <1>9, <1>10 DEF Drift
<1>12. Drift(op[o].env)' <=> Drift(op[o].env)
  BY <1>3 DEF Drift
<1> QED
  BY <1>6, <1>7, <1>8, <1>11, <1>12, DeedEffect

-----------------------------------------------------------------------------
\* A step aside of the work: no flag, no directory and no marker changes, no
\* operation appears or succeeds, and nobody starts to work.
Aside ==
  /\ UNCHANGED <<remote, op>>
  /\ \A r \in Req : req'[r].pc # "edit"
  /\ \A e \in Env : /\ env'[e].dir = env[e].dir /\ env'[e].installed = env[e].installed
                    /\ env'[e].live => env[e].live
                    /\ active'[e] \in {active[e], NoOp}
  /\ \A o \in OpId : /\ status'[o] = None <=> status[o] = None
                     /\ status'[o] = "succeeded" => status[o] = "succeeded"
                     /\ \/ run'[o] = run[o]
                        \/ run'[o].pc \in {"none", "prepare", "complete", "release"}

LEMMA AsideEffect ==
  ASSUME Inv, EffectInv, Aside
  PROVE  EffectInv'
<1>1. ASSUME NEW e \in Env
      PROVE  /\ Sole(e)' <=> Sole(e)
             /\ Drift(e)' <=> Drift(e)
             /\ Markers(e)' = Markers(e)
             /\ Installed(e)' <=> Installed(e)
             /\ Uninstalled(e)' <=> Uninstalled(e)
             /\ Deploys(e)' = Deploys(e)
  BY DEF Aside, Sole, Drift, Markers, Installed, Uninstalled, Deploys
<1>2. HolderIsNewest'
  BY DEF Aside, EffectInv, HolderIsNewest
<1>3. DriftOnRecord'
  <2> SUFFICES ASSUME NEW e \in Env, (env[e].live /\ Sole(e) /\ Drift(e))'
               PROVE  (\E o \in Deploys(e) : status[o] # "succeeded" /\ \A p \in Deploys(e) : p <= o)'
    BY DEF DriftOnRecord
  <2>1. env[e].live /\ Sole(e) /\ Drift(e)
    BY <1>1 DEF Aside
  <2>2. PICK o \in Deploys(e) : status[o] # "succeeded" /\ \A p \in Deploys(e) : p <= o
    BY <2>1 DEF EffectInv, DriftOnRecord
  <2>3. status'[o] # "succeeded"
    BY <2>2 DEF Aside, Deploys
  <2> QED
    BY <1>1, <2>2, <2>3
<1>4. ASSUME NEW o \in OpId, Running(o)'
      PROVE  WorksThere(o)' /\ (Sole(op[o].env)' => EffectKnown(o)')
  <2>1. CASE run'[o] = run[o]
    <3>1. Running(o) /\ op' = op
      BY <1>4, <2>1 DEF Aside, Running
    <3> PICK e \in Env : e = op[o].env
      BY <3>1, RunningFacts DEF Inv
    <3>2. WorksThere(o) /\ (Sole(e) => EffectKnown(o))
      BY <3>1 DEF EffectInv
    <3>3. WorksThere(o)'
      BY <2>1, <3>1, <3>2 DEF WorksThere, Aside
    <3>4. Sole(e) => EffectKnown(o)'
      BY <1>1, <2>1, <3>1, <3>2 DEF EffectKnown, Aside
    <3> QED
      BY <1>1, <3>1, <3>3, <3>4
  <2>2. CASE run'[o].pc \in {"none", "prepare", "complete", "release"}
    BY <2>2 DEF WorksThere, EffectKnown, InstallSteps, ResetSteps
  <2> QED
    BY <2>1, <2>2 DEF Aside
<1>5. \A r \in Req : req'[r].pc # "edit"
  BY DEF Aside
<1> QED
  BY <1>2, <1>3, <1>4, <1>5 DEF EffectInv

\* CompleteOperation and Release.
LEMMA ClosingAside ==
  ASSUME Inv, EffectInv, NEW o \in OpId, CompleteOperation(o) \/ Release(o)
  PROVE  Aside
<1>1. /\ \A e \in Env : active'[e] \in {active[e], NoOp}
      /\ UNCHANGED <<remote, op, req, env, status>>
  BY DEF CompleteOperation, Release, release, Inv, TypeOK
<1>2. \A p \in OpId : run'[p] = run[p] \/ run'[p].pc \in {"none", "prepare", "complete", "release"}
  BY DEF CompleteOperation, Release, Goto, NoRun, Inv, TypeOK
<1> QED
  BY <1>1, <1>2 DEF Aside, EffectInv

\* What handlers do but taking a slot and creating a row.
LEMMA HandlerAside ==
  ASSUME Inv, EffectInv, ~Edited, NEW r \in Req, Handler(r), ~Claim(r), ~CreateOperation(r)
  PROVE  Aside
<1>1. \A q \in Req : req'[q].pc # "edit"
  <2>1. req \in [Req -> ReqRecord]
    BY DEF Inv, TypeOK, ReqRecord
  <2>2. ASSUME NEW x, x.pc # "edit", req' = [req EXCEPT ![r] = x]
        PROVE  \A q \in Req : req'[q].pc # "edit"
    BY <2>1, <2>2 DEF EffectInv
  <2>3. CASE Conflict(r) \/ RefuseStart(r) \/ Launch(r) \/ DeleteEnvironment(r)
    BY <2>2, <2>3, IdleIsRecord DEF Conflict, RefuseStart, Launch, DeleteEnvironment
  <2>4. CASE \E e \in Env, a \in Action : BeginStart(r, e, a)
    <3> PICK e \in Env, a \in Action : BeginStart(r, e, a)
      BY <2>4
    <3> DEFINE x == [IdleReq EXCEPT !.pc = "claim", !.env = e, !.action = a, !.owner = env[e].owner]
    <3>1. req' = [req EXCEPT ![r] = x] /\ x.pc = "claim"
      BY DEF BeginStart, IdleReq
    <3> HIDE DEF x
    <3> QED
      BY <2>2, <3>1
  <2>5. CASE \E e \in Env : BeginDelete(r, e)
    <3> PICK e \in Env : BeginDelete(r, e)
      BY <2>5
    <3> DEFINE x == [IdleReq EXCEPT !.pc = "busy", !.env = e]
    <3>1. req' = [req EXCEPT ![r] = x] /\ x.pc = "busy"
      BY DEF BeginDelete, IdleReq
    <3> HIDE DEF x
    <3> QED
      BY <2>2, <3>1
  <2>6. CASE CheckBusy(r)
    <3> DEFINE x == IF Busy(req[r].env) THEN IdleReq ELSE [req[r] EXCEPT !.pc = "delete"]
    <3>1. req' = [req EXCEPT ![r] = x]
      BY <2>6 DEF CheckBusy
    <3>2. x.pc # "edit"
      BY <2>1, IdleIsRecord DEF ReqRecord
    <3> HIDE DEF x
    <3> QED
      BY <2>2, <3>1, <3>2
  <2> QED
    BY <2>3, <2>4, <2>5, <2>6 DEF Handler, BeginEdit, UpdateEnvironment, EffectInv
<1>2. UNCHANGED <<remote, op, status>>
  BY DEF Handler, BeginStart, Conflict, RefuseStart, Launch, BeginDelete, CheckBusy,
         DeleteEnvironment, BeginEdit, UpdateEnvironment
<1>3. \A e \in Env : active'[e] \in {active[e], NoOp}
  BY DEF Handler, BeginStart, Conflict, RefuseStart, Launch, BeginDelete, CheckBusy,
         DeleteEnvironment, BeginEdit, UpdateEnvironment, release, Inv, TypeOK
<1>4. \A e \in Env : /\ env'[e].dir = env[e].dir /\ env'[e].installed = env[e].installed
                     /\ env'[e].live => env[e].live
  <2>1. CASE UNCHANGED env
    BY <2>1
  <2>2. CASE DeleteEnvironment(r)
    <3> DEFINE row == [env[req[r].env] EXCEPT !.live = FALSE]
    <3>1. env' = [env EXCEPT ![req[r].env] = row]
      BY <2>2 DEF DeleteEnvironment
    <3> SUFFICES ASSUME NEW e \in Env
                 PROVE  /\ env'[e].dir = env[e].dir /\ env'[e].installed = env[e].installed
                        /\ env'[e].live => env[e].live
      OBVIOUS
    <3>2. env \in [Env -> Rows] /\ env[e] \in Rows
      BY DEF Inv, TypeOK, Rows
    <3>3. CASE req[r].env = e
      <4>1. row.dir = env[e].dir /\ row.installed = env[e].installed /\ row.live = FALSE
        BY <3>2, <3>3 DEF Rows
      <4> HIDE DEF row
      <4> QED
        BY <3>1, <3>2, <3>3, <4>1
    <3>4. CASE req[r].env # e
      BY <3>1, <3>2, <3>4
    <3> QED
      BY <3>3, <3>4
  <2> QED
    BY <2>1, <2>2 DEF Handler, BeginStart, Conflict, RefuseStart, Launch, BeginDelete, CheckBusy,
                      BeginEdit, UpdateEnvironment, EffectInv
<1>5. \A o \in OpId : run'[o] = run[o] \/ run'[o].pc \in {"none", "prepare", "complete", "release"}
  <2>1. CASE UNCHANGED run
    BY <2>1
  <2>2. CASE Launch(r)
    BY <2>2 DEF Launch, Inv, TypeOK
  <2> QED
    BY <2>1, <2>2 DEF Handler, BeginStart, Conflict, RefuseStart, BeginDelete, CheckBusy,
                      DeleteEnvironment, BeginEdit, UpdateEnvironment
<1> QED
  BY <1>1, <1>2, <1>3, <1>4, <1>5 DEF Aside

\* The transfer, the retention job, and what happens to the process.
LEMMA OthersAside ==
  ASSUME Inv, EffectInv, Background \/ Process \/ UNCHANGED vars
  PROVE  Aside
<1>1. CASE \E source, target \in Owner : TransferResources(source, target)
  <2> PICK source, target \in Owner : TransferResources(source, target)
    BY <1>1
  <2>1. UNCHANGED <<remote, op, status, active, req, run>>
    BY DEF TransferResources
  <2>2. ASSUME NEW e \in Env
        PROVE  /\ env'[e].dir = env[e].dir /\ env'[e].installed = env[e].installed
               /\ env'[e].live = env[e].live
    <3>1. env[e] \in Rows
      BY DEF Inv, TypeOK, Rows
    <3>2. env'[e] = env[e] \/ env'[e] = [env[e] EXCEPT !.owner = target]
      BY DEF TransferResources
    <3> QED
      BY <3>1, <3>2 DEF Rows
  <2> QED
    BY <2>1, <2>2 DEF Aside, EffectInv
<1>2. CASE \E o \in OpId : DeleteTerminalOperationsBefore(o)
  BY <1>2 DEF DeleteTerminalOperationsBefore, Aside, EffectInv, Inv, TypeOK
<1>3. CASE Signal \/ Drained \/ UNCHANGED vars
  BY <1>3 DEF Signal, Drained, Aside, EffectInv, vars
<1>4. CASE Exit \/ Crash
  BY <1>4 DEF Exit, Crash, Vanish, Aside, IdleReq, NoRun
<1>5. CASE Restart
  BY <1>5 DEF Restart, InterruptActiveOperations, Interrupt, Aside, EffectInv
<1> QED
  BY <1>1, <1>2, <1>3, <1>4, <1>5 DEF Background, Process

-----------------------------------------------------------------------------
\* The slot is taken by an operation newer than all that have a row.
LEMMA ClaimEffect ==
  ASSUME Inv, EffectInv, NEW r \in Req, Claim(r)
  PROVE  EffectInv'
<1>1. /\ nextId \in OpId /\ UNCHANGED <<env, status, remote, run>>
      /\ \A p \in OpId \ {nextId} : op'[p] = op[p]
  BY DEF Claim, TakeSlot, Inv, TypeOK
<1>2. status[nextId] = None /\ ~Running(nextId)
  BY <1>1 DEF Inv, SlotInv, NumbersKnown
<1>3. ASSUME NEW e \in Env
      PROVE  Deploys(e)' = Deploys(e) /\ (Sole(e)' <=> Sole(e)) /\ (Drift(e)' <=> Drift(e))
             /\ Markers(e)' = Markers(e)
             /\ (Installed(e)' <=> Installed(e)) /\ (Uninstalled(e)' <=> Uninstalled(e))
  BY <1>1, <1>2 DEF Deploys, Sole, Drift, Markers, Installed, Uninstalled
<1>4. DriftOnRecord'
  <2> SUFFICES ASSUME NEW e \in Env, (env[e].live /\ Sole(e) /\ Drift(e))'
               PROVE  (\E o \in Deploys(e) : status[o] # "succeeded" /\ \A p \in Deploys(e) : p <= o)'
    BY DEF DriftOnRecord
  <2>1. PICK o \in Deploys(e) : status[o] # "succeeded" /\ \A p \in Deploys(e) : p <= o
    BY <1>1, <1>3 DEF EffectInv, DriftOnRecord
  <2> QED
    BY <1>1, <1>3, <2>1
<1>5. HolderIsNewest'
  <2>1. ASSUME NEW e \in Env PROVE active'[e] \in {active[e], nextId}
    BY DEF Claim, TakeSlot, Inv, TypeOK
  <2>2. \A o \in OpId : status[o] # None => o < nextId
    BY DEF Inv, SlotInv, NumbersKnown
  <2> SUFFICES ASSUME NEW e \in Env, NEW o \in OpId,
                      active'[e] # NoOp, status'[o] # None, op'[o].env = e
               PROVE  o <= active'[e]
    BY DEF HolderIsNewest
  <2>3. status[o] # None /\ op[o].env = e /\ o < nextId
    BY <1>1, <1>2, <2>2
  <2> QED
    BY <1>1, <2>1, <2>3 DEF EffectInv, HolderIsNewest
<1>6. ASSUME NEW o \in OpId, Running(o)'
      PROVE  WorksThere(o)' /\ (Sole(op[o].env)' => EffectKnown(o)')
  <2>1. Running(o) /\ op'[o] = op[o] /\ run'[o] = run[o]
    BY <1>1, <1>2, <1>6 DEF Running
  <2> PICK e \in Env : e = op[o].env
    BY <2>1, RunningFacts DEF Inv
  <2>2. WorksThere(o) /\ (Sole(e) => EffectKnown(o))
    BY <2>1 DEF EffectInv
  <2>3. WorksThere(o)'
    BY <1>1, <2>1, <2>2 DEF WorksThere
  <2>4. Sole(e) => EffectKnown(o)'
    BY <1>1, <1>3, <2>1, <2>2 DEF EffectKnown
  <2> QED
    BY <1>3, <2>1, <2>3, <2>4
<1>7. \A q \in Req : req'[q].pc # "edit"
  <2> DEFINE x == [req[r] EXCEPT !.pc = "create", !.id = nextId]
  <2>1. req' = [req EXCEPT ![r] = x] /\ req[r] \in ReqRecord
    BY DEF Claim, TakeSlot, Inv, TypeOK, ReqRecord
  <2>2. x.pc = "create"
    BY <2>1 DEF ReqRecord
  <2> HIDE DEF x
  <2> QED
    BY <2>1, <2>2 DEF EffectInv, Inv, TypeOK
<1> QED
  BY <1>4, <1>5, <1>6, <1>7 DEF EffectInv

\* Its row is created: from now on it is the newest on record.
LEMMA CreateEffect ==
  ASSUME Inv, EffectInv, NEW r \in Req, CreateOperation(r)
  PROVE  EffectInv'
<1>0. Pending(r)
  BY DEF CreateOperation, Pending
<1> PICK o \in OpId : o = req[r].id
  BY <1>0, PendingFacts DEF Inv
<1>1. /\ UNCHANGED <<env, remote, active, op, run>>
      /\ status' = [status EXCEPT ![o] = "queued"]
  BY DEF CreateOperation, InsertOperation
<1>2. /\ op[o] \in Task /\ active[op[o].env] = o /\ run[o].pc = "none"
      /\ op[o].env \in Env /\ op[o].action \in Action
  BY <1>0, <1>1, PendingFacts DEF Inv, Task
<1>3. \A q \in Req : req'[q].pc # "edit"
  <2> DEFINE x == [req[r] EXCEPT !.pc = "launch"]
  <2>1. req' = [req EXCEPT ![r] = x] /\ req[r] \in ReqRecord
    BY DEF CreateOperation, InsertOperation, Inv, TypeOK, ReqRecord
  <2>2. x.pc = "launch"
    BY <2>1 DEF ReqRecord
  <2> HIDE DEF x
  <2> QED
    BY <2>1, <2>2 DEF EffectInv, Inv, TypeOK
<1>4. status'[o] = "queued" /\ \A p \in OpId \ {o} : status'[p] = status[p]
  BY <1>1, <1>2 DEF Inv, TypeOK
<1>5. Deed(o)
  BY <1>1, <1>2, <1>3, <1>4 DEF Deed
<1>6. ~Running(o)'
  BY <1>1, <1>2 DEF Running
<1>7. Drift(op[o].env)' <=> Drift(op[o].env)
  BY <1>1 DEF Drift
<1> QED
  BY <1>2, <1>4, <1>5, <1>6, <1>7, DeedEffect

\* Every step keeps what the goroutines know of their work.
LEMMA StepEffect == ~Edited /\ Inv /\ EffectInv /\ [Next]_vars => EffectInv'
<1> SUFFICES ASSUME ~Edited, Inv, EffectInv, [Next]_vars PROVE EffectInv'
  OBVIOUS
<1>1. ASSUME NEW o \in OpId, Goroutine(o) PROVE EffectInv'
  BY <1>1, OpeningSteps, EarlySteps, MarkerSteps, FlagSteps, CommandEffect, FinishEffect,
     ClosingAside, AsideEffect DEF Goroutine
<1>2. ASSUME NEW r \in Req, Handler(r) PROVE EffectInv'
  BY <1>2, ClaimEffect, CreateEffect, HandlerAside, AsideEffect
<1>3. CASE Background \/ Process \/ UNCHANGED vars
  BY <1>3, OthersAside, AsideEffect
<1> QED
  BY <1>1, <1>2, <1>3 DEF Next

\* At the start the flags are what the directories hold.
LEMMA InitEffect == Init => EffectInv
<1> SUFFICES ASSUME Init PROVE EffectInv
  OBVIOUS
<1>1. \A r \in Req : req[r].pc # "edit"
  BY DEF Init, IdleReq
<1>2. \A o \in OpId : ~Running(o)
  BY DEF Init, Running, NoRun
<1>3. HolderIsNewest
  BY DEF Init, HolderIsNewest
<1>4. \A e \in Env : ~Drift(e)
  BY DEF Init, Drift
<1> QED
  BY <1>1, <1>2, <1>3, <1>4 DEF EffectInv, DriftOnRecord

\* Inductive: where the goroutines work, what they left there, and that the
\* holder of a slot is the newest.
THEOREM EffectHolds == ASSUME ~Edited PROVE Spec => [](Inv /\ EffectInv)
<1>1. Init => EffectInv
  BY InitEffect
<1>2. Inv /\ EffectInv /\ [Next]_vars => EffectInv'
  BY StepEffect
<1> QED
  BY <1>1, <1>2, InvHolds, PTL DEF Spec

\* MarkInstalled and MarkUninstalled come last and their errors end the
\* operation: unless rows are edited meanwhile, a drift between the database
\* and the server is on record in the newest install or reset.
THEOREM DriftIsOnRecord == ASSUME ~Edited PROVE Spec => []DriftOnRecord
<1>1. Inv /\ EffectInv => DriftOnRecord
  BY DEF EffectInv
<1> QED
  BY <1>1, EffectHolds, PTL

\* Only Finish writes succeeded, and only as the outcome of the operation.
LEMMA SuccessIsFinish ==
  ASSUME Inv, [Next]_vars, NEW o \in OpId, status[o] # "succeeded", status'[o] = "succeeded"
  PROVE  Finish(o) /\ run[o].end = "succeeded"
<1>1. CASE \E p \in OpId : Goroutine(p)
  <2> PICK p \in OpId : Goroutine(p)
    BY <1>1
  <2>1. CASE Finish(p)
    BY <2>1 DEF Finish, Inv, TypeOK
  <2>2. CASE CompleteOperation(p) \/ Release(p)
    BY <2>2 DEF CompleteOperation, Release
  <2>3. CASE Progress(p)
    BY <2>3 DEF Progress, Inv, TypeOK
  <2> QED
    BY <2>1, <2>2, <2>3, PrepareProgress, LoadProgress, PackageProgress, ConnectProgress,
       SyncProgress, WorkProgress, ScriptProgress, MarkerProgress, MarkProgress,
       CommandProgress, HistoryProgress, ResetProgress, UnmarkProgress,
       RemarkProgress, ClearProgress DEF Goroutine, Inv
<1>2. CASE \E r \in Req : Handler(r)
  <2> PICK r \in Req : Handler(r)
    BY <1>2
  <2>1. UNCHANGED status \/ status' = [status EXCEPT ![req[r].id] = "queued"]
    BY DEF Handler, BeginStart, Conflict, Claim, TakeSlot, CreateOperation, InsertOperation,
           RefuseStart, Launch, BeginDelete, CheckBusy, DeleteEnvironment, BeginEdit,
           UpdateEnvironment
  <2> QED
    BY <2>1 DEF Inv, TypeOK
<1>3. CASE Background
  BY <1>3 DEF Background, TransferResources, DeleteTerminalOperationsBefore, Inv, TypeOK
<1>4. CASE Process
  BY <1>4 DEF Process, Signal, Drained, Exit, Crash, Vanish, Restart,
              InterruptActiveOperations, Interrupt
<1>5. CASE UNCHANGED vars
  BY <1>5 DEF vars
<1> QED
  BY <1>1, <1>2, <1>3, <1>4, <1>5 DEF Next

\* An install or a reset that is written as succeeded did take effect, on the
\* server and in the database, unless rows are edited meanwhile.
THEOREM SuccessesAreReal == ASSUME ~Edited PROVE Spec => SuccessIsReal
<1> DEFINE A == \A o \in OpId :
       status[o] # "succeeded" /\ status'[o] = "succeeded"
         /\ env[op[o].env].live /\ Sole(op[o].env) =>
       /\ op[o].action = "install" =>
            env[op[o].env].installed /\ "installed" \in remote[env[op[o].env].dir]
       /\ op[o].action = "reset" =>
            /\ ~env[op[o].env].installed
            /\ remote[env[op[o].env].dir] \intersect {"installed", "installing"}
                 = {"installing"}
<1>1. Inv /\ EffectInv /\ [Next]_vars => [A]_vars
  <2> SUFFICES ASSUME Inv, EffectInv, [Next]_vars, NEW o \in OpId,
                      status[o] # "succeeded", status'[o] = "succeeded",
                      env[op[o].env].live, Sole(op[o].env)
               PROVE  /\ op[o].action = "install" =>
                           env[op[o].env].installed /\ "installed" \in remote[env[op[o].env].dir]
                      /\ op[o].action = "reset" =>
                           /\ ~env[op[o].env].installed
                           /\ remote[env[op[o].env].dir] \intersect {"installed", "installing"}
                                = {"installing"}
    OBVIOUS
  <2>1. run[o].pc = "finish" /\ run[o].end = "succeeded"
    BY SuccessIsFinish DEF Finish
  <2>2. EffectKnown(o)
    BY <2>1 DEF EffectInv, Running
  <2> QED
    BY <2>1, <2>2 DEF EffectKnown, Installed, Uninstalled, Markers
<1> HIDE DEF A
<1>2. Spec => [][A]_vars
  BY <1>1, EffectHolds, PTL DEF Spec
<1> QED
  BY <1>2 DEF SuccessIsReal, A
=============================================================================
