------------------------ MODULE ServiceConfig_proofs ------------------------
(***************************************************************************)
(* Proofs about ServiceConfig: row, revisions, file and port of a service. *)
(***************************************************************************)
EXTENDS ServiceConfig, TLAPS

\* The part of the invariant that does not ask whether e was disturbed.
Sound == TypeOK /\ RequestsTyped /\ RowShowsRevision /\ NumbersKnown

\* What concerns environment e stays as it is, its requests and tasks aside.
Same(e) ==
  /\ row'[e] = row[e] /\ file'[e] = file[e] /\ port'[e] = port[e]
  /\ e \in installed' <=> e \in installed
  /\ disturbed \subseteq disturbed'

Rows == [content: Content, revision: Id \union {NoId}]

-----------------------------------------------------------------------------
(* Requests, tasks and rows *)

\* A request that is over is a record of the right type.
LEMMA NoSaveTyped == NoSave \in Save /\ NoSave.pc = "idle" /\ ~NoSave.installed /\ NoSave.env = None
  BY DEF NoSave, Save, NoId

\* An operation that is over is a record of the right type.
LEMMA NoTaskTyped == NoTask \in Task /\ NoTask.pc = "idle"
  BY DEF NoTask, Task

\* What a row shows, and what a request reads, are contents.
LEMMA RowKnown ==
  ASSUME TypeOK, NEW e \in Env
  PROVE  /\ row[e] \in Rows \union {NoRow}
         /\ row[e] # NoRow => row[e].content \in Content
         /\ Current(e) \in Content
         /\ row[e] # NoRow => Current(e) = row[e].content
  BY DEF TypeOK, Rows, Current

\* A row with a configuration is not the missing one.
LEMMA RowNew ==
  ASSUME NEW c \in Content, NEW i \in Id \union {NoId}
  PROVE  /\ [content |-> c, revision |-> i] \in Rows
         /\ [content |-> c, revision |-> i] # NoRow
<1>1. [content |-> c, revision |-> i].content # NoRow.content
  BY NoneAssumption DEF NoRow, None
<1> QED
  BY <1>1 DEF Rows

\* A step of a save replaces the record of that save alone.
LEMMA SaveSets ==
  ASSUME TypeOK, NEW r \in Req, NEW N \in Save, save' = [save EXCEPT ![r] = N]
  PROVE  /\ save' \in [Req -> Save] /\ save'[r] = N
         /\ \A s \in Req : s # r => save'[s] = save[s]
  BY DEF TypeOK

\* A step of an operation replaces the record of that operation alone.
LEMMA TaskSets ==
  ASSUME TypeOK, NEW e \in Env, NEW T \in Task, task' = [task EXCEPT ![e] = T]
  PROVE  /\ task' \in [Env -> Task] /\ task'[e] = T
         /\ \A f \in Env : f # e => task'[f] = task[f]
  BY DEF TypeOK

\* A request that leaves has no environment any more.
LEMMA LeaveSets ==
  ASSUME TypeOK, NEW r \in Req, Leave(r)
  PROVE  /\ save' \in [Req -> Save] /\ save'[r] = NoSave
         /\ \A s \in Req : s # r => save'[s] = save[s]
         /\ \A e \in Env : save'[r].env # e
  BY SaveSets, NoSaveTyped, NoneAssumption DEF Leave, None

\* An operation that ends clears its record alone.
LEMMA StopSets ==
  ASSUME TypeOK, NEW e \in Env, StopTask(e)
  PROVE  /\ task' \in [Env -> Task] /\ task'[e] = NoTask
         /\ \A f \in Env : f # e => task'[f] = task[f]
  BY TaskSets, NoTaskTyped DEF StopTask

\* A write reaches the file of its environment, or one nobody looks at.
LEMMA PutSets ==
  ASSUME TypeOK, NEW e \in Env, NEW away, NEW c \in Content \union {None}, Put(e, away, c)
  PROVE  /\ file' \in [Env -> Content \union {None}]
         /\ \A f \in Env : f # e => file'[f] = file[f]
         /\ ~away => file'[e] = c
  BY DEF TypeOK, Put

\* Whoever is at work on an environment is seen to be.
LEMMA Busy ==
  ASSUME ConfigInv, NEW e \in Env
  PROVE  /\ ~Saving(e) => \A r \in Req : save[r].env # e
         /\ task[e].pc # "idle" => task[e] # NoTask
  BY NoTaskTyped DEF Saving

\* An environment undisturbed after a step was undisturbed before it.
LEMMA StillUndisturbed ==
  ASSUME NEW e \in Env, disturbed \subseteq disturbed', e \notin disturbed'
  PROVE  e \notin disturbed
  OBVIOUS

\* What a request or a task that begins finds, unless it disturbs another.
LEMMA EnteredAlone ==
  ASSUME NEW e \in Env, e \notin disturbed'
  PROVE  /\ Enter(e) => ~InFlight(e)
         /\ ~Disturb(e)
  BY DEF Enter, Disturb, DisturbIf

\* What was disturbed stays so.
LEMMA Grows ==
  ASSUME NEW e \in Env, Enter(e) \/ Disturb(e), disturbed \subseteq Env
  PROVE  disturbed \subseteq disturbed' /\ disturbed' \subseteq Env
  BY DEF Enter, Disturb, DisturbIf

-----------------------------------------------------------------------------
(* An environment nobody works on, or that a request or a task just left. *)

\* An environment whose row, file, port and marker a step leaves alone
\* keeps what it had together.
LEMMA Settled ==
  ASSUME ConfigInv, NEW e \in Env, e \in live, Same(e),
         \/ task'[e] = task[e]
         \/ task'[e] = NoTask /\ task[e].pc \notin {"upsert", "mark"},
         \A r \in Req : \/ save'[r] = save[r]
                        \/ save'[r].env # e /\ (save[r].env = e => ~Written(r))
  PROVE  KeptTogether(e)'
<1> SUFFICES ASSUME e \notin disturbed'
             PROVE  Alone(e)' /\ SaveKnows(e)' /\ TaskKnows(e)' /\ AtRest(e)'
  BY DEF KeptTogether
<1>1. Alone(e) /\ SaveKnows(e) /\ TaskKnows(e) /\ AtRest(e)
  BY StillUndisturbed DEF Same, ConfigInv, KeptTogether
<1>2. \A r \in Req : save'[r].env = e => save'[r] = save[r] /\ save[r].env = e
  OBVIOUS
<1>3. Saving(e)' => Saving(e)
  BY <1>2 DEF Saving
<1>4. Alone(e)'
  BY <1>1, <1>2, <1>3 DEF Alone
<1>5. SaveKnows(e)'
  BY <1>1, <1>2 DEF SaveKnows, Same, Reached, Written
<1>6. TaskKnows(e)'
  BY <1>1 DEF TaskKnows, Same
<1>8. AtRest(e)'
  <2>1. \A r \in Req : save[r].env = e /\ Written(r) => save'[r] = save[r]
    OBVIOUS
  <2>2. \A r \in Req : save[r].env = e /\ Written(r) => save'[r].env = e /\ Written(r)'
    BY <2>1 DEF Written
  <2> QED
    BY <1>1, <2>2 DEF AtRest, Agree, Same
<1> QED
  BY <1>4, <1>5, <1>6, <1>8

-----------------------------------------------------------------------------
(* The requests: what holds of all records alike *)

\* The conjuncts of RequestsTyped about one request.
Formed(N) ==
  /\ N.pc = "idle" => N = NoSave
  /\ N.pc # "idle" => N.env \in Env
  /\ N.installed => N.pc \in {"write", "commit", "restore"}
  /\ N.pc \in {"write", "restore"} => N.installed
  /\ N.pc \in {"environment", "write", "commit", "restore"} => N.content \in Content

\* Every save in flight is well formed.
LEMMA AllFormed ==
  ASSUME RequestsTyped, NEW r \in Req
  PROVE  Formed(save[r])
  BY DEF RequestsTyped, Formed, Reached

\* So is one that is over.
LEMMA LeaverFormed == Formed(NoSave)
  BY NoSaveTyped DEF Formed

\* A request moves on, and at most the file changes with it.
LEMMA MoveSound ==
  ASSUME Sound, NEW r \in Req, NEW N \in Save, Formed(N), save' = [save EXCEPT ![r] = N],
         file' \in [Env -> Content \union {None}],
         disturbed' \subseteq Env,
         UNCHANGED <<environments, row, history, template, marker, edit, task>>
  PROVE  Sound'
<1>1. save' \in [Req -> Save] /\ \A s \in Req : Formed(save'[s])
  BY SaveSets, AllFormed DEF Sound
<1>2. TypeOK'
  BY <1>1 DEF Sound, TypeOK, environments, history
<1>3. RequestsTyped'
  <2>1. \A s \in Req : Formed(save[s])'
    BY <1>1 DEF Formed
  <2> QED
    BY <2>1 DEF Sound, RequestsTyped, Formed, Reached
<1>4. RowShowsRevision' /\ NumbersKnown'
  BY DEF Sound, RowShowsRevision, NumbersKnown, environments, history
<1> QED
  BY <1>2, <1>3, <1>4 DEF Sound

\* A request that ends touches no row and no number.
LEMMA LeaveSound ==
  ASSUME Sound, NEW r \in Req, Leave(r),
         file' \in [Env -> Content \union {None}],
         disturbed' \subseteq Env,
         UNCHANGED <<environments, row, history, template, marker, edit, task>>
  PROVE  Sound'
  BY MoveSound, NoSaveTyped, LeaverFormed DEF Leave

\* Other environments than the one of the request are settled.
LEMMA OthersSettled ==
  ASSUME ConfigInv, NEW r \in Req, NEW e \in Env, NEW f \in Env, e # f, f \in live, Same(f),
         task'[f] = task[f],
         save[r].env \in {e, None}, save'[r].env \in {e, None},
         \A s \in Req : s # r => save'[s] = save[s]
  PROVE  KeptTogether(f)'
<1>1. save[r].env # f /\ save'[r].env # f
  BY NoneAssumption DEF None
<1> QED
  BY <1>1, Settled

-----------------------------------------------------------------------------
(* The requests, one by one *)

\* A request that begins, as Update and Rollback do.
LEMMA BeginConfig ==
  ASSUME ConfigInv, NEW r \in Req, NEW e \in live, NEW N \in Save, Formed(N),
         N.pc \in {"environment", "target"}, N.env = e, N.current = Current(e),
         save[r] = NoSave, save' = [save EXCEPT ![r] = N], Enter(e),
         UNCHANGED <<environments, row, history, template, server, edit, task>>
  PROVE  ConfigInv'
<1>1. Sound /\ TypeOK /\ e \in Env
  BY DEF ConfigInv, Sound, TypeOK
<1>2. disturbed \subseteq disturbed' /\ disturbed' \subseteq Env
  BY <1>1, Grows DEF TypeOK
<1>3. Sound'
  BY <1>1, <1>2, MoveSound DEF TypeOK, server
<1>4. save'[r] = N /\ \A s \in Req : s # r => save'[s] = save[s]
  BY <1>1, SaveSets
<1>5. \A f \in Env : Same(f)
  BY <1>2 DEF Same, environments, server
<1>6. ASSUME NEW f \in live, f # e PROVE KeptTogether(f)'
  BY <1>1, <1>4, <1>5, <1>6, OthersSettled, NoSaveTyped DEF TypeOK
<1>7. KeptTogether(e)'
  <2> SUFFICES ASSUME e \notin disturbed'
               PROVE  Alone(e)' /\ SaveKnows(e)' /\ TaskKnows(e)' /\ AtRest(e)'
    BY DEF KeptTogether
  <2>1. task[e] = NoTask /\ ~Saving(e)
    BY <1>1, EnteredAlone DEF InFlight
  <2>2. AtRest(e)
    BY <1>1, <1>2, StillUndisturbed DEF ConfigInv, KeptTogether
  <2>3. \A s \in Req : save'[s].env = e => s = r
    BY <1>4, <2>1 DEF Saving
  <2>4. Alone(e)'
    BY <2>1, <2>3 DEF Alone
  <2>5. SaveKnows(e)'
    <3>1. row[e] # NoRow => N.current = row[e].content
      BY <1>1, RowKnown
    <3> QED
      BY <1>4, <2>3, <3>1 DEF SaveKnows, Reached, Written, Formed
  <2>6. TaskKnows(e)'
    BY <2>1 DEF TaskKnows
  <2>8. AtRest(e)'
    BY <2>1, <2>2 DEF AtRest, Agree, Saving, environments, server
  <2> QED
    BY <2>4, <2>5, <2>6, <2>8
<1> QED
  BY <1>3, <1>6, <1>7 DEF ConfigInv, Sound, environments

\* An update keeps the content it found.
LEMMA UpdateConfig ==
  ASSUME ConfigInv, NEW r \in Req, NEW e \in Env, NEW c \in Content, Update(r, e, c)
  PROVE  ConfigInv'
<1> DEFINE N == [NoSave EXCEPT !.pc = "environment", !.env = e, !.content = c,
                               !.current = Current(e)]
<1>1. Current(e) \in Content
  BY RowKnown DEF ConfigInv
<1>2. /\ N \in Save /\ N.pc = "environment" /\ N.env = e /\ N.current = Current(e)
      /\ N.content = c /\ N.installed = FALSE
  BY <1>1 DEF NoSave, Save
<1>3. save[r] = NoSave /\ e \in live /\ save' = [save EXCEPT ![r] = N] /\ Enter(e)
  BY DEF Update
<1> HIDE DEF N
<1>4. Formed(N)
  BY <1>2 DEF Formed
<1> QED
  BY <1>2, <1>3, <1>4, BeginConfig DEF Update

\* A rollback keeps the content it found, and the number to go back to.
LEMMA RollbackConfig ==
  ASSUME ConfigInv, NEW r \in Req, NEW e \in Env, NEW i \in Id, Rollback(r, e, i)
  PROVE  ConfigInv'
<1> DEFINE N == [NoSave EXCEPT !.pc = "target", !.env = e, !.from = i, !.current = Current(e)]
<1>1. Current(e) \in Content
  BY RowKnown DEF ConfigInv
<1>2. /\ N \in Save /\ N.pc = "target" /\ N.env = e /\ N.current = Current(e)
      /\ N.installed = FALSE
  BY <1>1 DEF NoSave, Save
<1>3. save[r] = NoSave /\ e \in live /\ save' = [save EXCEPT ![r] = N] /\ Enter(e)
  BY DEF Rollback
<1> HIDE DEF N
<1>4. Formed(N)
  BY <1>2 DEF Formed
<1> QED
  BY <1>2, <1>3, <1>4, BeginConfig DEF Rollback

\* A request that gives up before it has written leaves all as it is.
LEMMA LeaveConfig ==
  ASSUME ConfigInv, NEW r \in Req, Leave(r), ~Written(r),
         UNCHANGED <<environments, row, history, template, server, edit, task, disturbed>>
  PROVE  ConfigInv'
<1>1. Sound /\ TypeOK
  BY DEF ConfigInv, Sound
<1>2. Sound'
  BY <1>1, LeaveSound DEF TypeOK, server
<1>3. ASSUME NEW f \in live PROVE KeptTogether(f)'
  BY <1>1, LeaveSets, Settled DEF Same, environments, server, TypeOK
<1> QED
  BY <1>2, <1>3 DEF ConfigInv, Sound, environments

\* A request that goes on, having written nothing before or after.
LEMMA GoOnConfig ==
  ASSUME ConfigInv, NEW r \in Req, NEW e \in Env, save[r].env = e, ~Written(r),
         NEW N \in Save, Formed(N), N.env = e, N.current = save[r].current,
         e \in live => (N.pc = "environment" \/ N.pc = "write" \/ (N.pc = "commit" /\ ~N.installed)),
         N.pc \in {"write", "commit"} => (N.installed <=> e \in installed),
         N.installed => ~N.away,
         save' = [save EXCEPT ![r] = N],
         UNCHANGED <<environments, row, history, template, server, edit, task, disturbed>>
  PROVE  ConfigInv'
<1>1. Sound /\ TypeOK
  BY DEF ConfigInv, Sound
<1>2. Sound'
  BY <1>1, MoveSound DEF TypeOK, server
<1>3. save'[r] = N /\ \A s \in Req : s # r => save'[s] = save[s]
  BY <1>1, SaveSets
<1>4. \A f \in Env : Same(f)
  BY DEF Same, environments, server
<1>5. ASSUME NEW f \in live, f # e PROVE KeptTogether(f)'
  BY <1>1, <1>3, <1>4, <1>5, OthersSettled DEF TypeOK
<1>6. ASSUME e \in live PROVE KeptTogether(e)'
  <2> SUFFICES ASSUME e \notin disturbed'
               PROVE  Alone(e)' /\ SaveKnows(e)' /\ TaskKnows(e)' /\ AtRest(e)'
    BY DEF KeptTogether
  <2>1. Alone(e) /\ SaveKnows(e) /\ TaskKnows(e) /\ AtRest(e)
    BY <1>6, StillUndisturbed DEF ConfigInv, KeptTogether
  <2>2. task[e] = NoTask /\ \A s \in Req : save[s].env = e => s = r
    BY <2>1 DEF Alone, Saving
  <2>3. \A s \in Req : save'[s].env = e => s = r
    BY <1>3, <2>2
  <2>4. Alone(e)'
    BY <2>2, <2>3 DEF Alone
  <2>5. ~Written(r)'
    BY <1>3, <1>6 DEF Written
  <2>6. SaveKnows(e)'
    <3>1. row[e] # NoRow => N.current = row[e].content
      BY <2>1 DEF SaveKnows
    <3>2. Reached(r)' => (N.installed <=> e \in installed)
      BY <1>3, <1>6 DEF Reached
    <3>3. N.installed \in BOOLEAN
      BY DEF Save
    <3>4. Reached(r)' => save'[r].installed = (e \in installed')
      BY <1>3, <3>2, <3>3 DEF environments
    <3> QED
      BY <1>3, <2>3, <2>5, <3>1, <3>4 DEF SaveKnows
  <2>7. TaskKnows(e)'
    BY <2>2 DEF TaskKnows
  <2>9. AtRest(e)'
    BY <2>1, <2>2 DEF AtRest, Agree, environments, server
  <2> QED
    BY <2>4, <2>6, <2>7, <2>9
<1> QED
  BY <1>2, <1>5, <1>6 DEF ConfigInv, Sound, environments

\* The target is a revision with its content, or the request ends.
LEMMA TargetConfig ==
  ASSUME ConfigInv, NEW r \in Req, Target(r)
  PROVE  ConfigInv'
<1>1. save[r] \in Save /\ Formed(save[r])
  BY AllFormed DEF ConfigInv, TypeOK
<1> PICK e \in Env : save[r].env = e
  BY <1>1 DEF Target, ReadTarget, Formed
<1>2. save[r].pc = "target" /\ ~Written(r)
  BY DEF Target, ReadTarget, Written
<1>3. CASE Leave(r)
  BY <1>2, <1>3, LeaveConfig DEF Target, ReadTarget
<1>4. CASE ~Leave(r)
  <2>1. PICK v \in revisions :
          save' = [save EXCEPT ![r].pc = "environment", ![r].content = v.content,
                               ![r].from = NoId]
    BY <1>4 DEF Target, ReadTarget
  <2>2. v.content \in Content
    BY DEF ConfigInv, TypeOK
  <2> DEFINE N == [save[r] EXCEPT !.pc = "environment", !.content = v.content, !.from = NoId]
  <2>3. /\ N \in Save /\ N.pc = "environment" /\ N.env = e /\ N.current = save[r].current
        /\ N.content \in Content /\ N.installed = save[r].installed
    BY <1>1, <2>2 DEF Save
  <2>4. save' = [save EXCEPT ![r] = N]
    BY <2>1 DEF ConfigInv, TypeOK
  <2> HIDE DEF N
  <2>5. ~N.installed
    BY <1>1, <1>2, <2>3 DEF Formed
  <2>6. Formed(N)
    BY <1>2, <2>3, <2>5 DEF Formed
  <2> QED
    BY <1>2, <2>3, <2>4, <2>5, <2>6, GoOnConfig DEF Target, ReadTarget
<1> QED
  BY <1>3, <1>4

\* The request learns whether the environment is installed.
LEMMA ReadEnvironmentConfig ==
  ASSUME ConfigInv, NEW r \in Req, ReadEnvironment(r)
  PROVE  ConfigInv'
<1>1. save[r] \in Save /\ Formed(save[r])
  BY AllFormed DEF ConfigInv, TypeOK
<1> PICK e \in Env : save[r].env = e
  BY <1>1 DEF ReadEnvironment, Formed
<1>2. save[r].pc = "environment" /\ ~Written(r) /\ save[r].content \in Content
  BY <1>1 DEF ReadEnvironment, Formed, Written
<1>3. CASE Leave(r)
  BY <1>2, <1>3, LeaveConfig DEF ReadEnvironment
<1>4. CASE ~Leave(r)
  <2> DEFINE N == [save[r] EXCEPT !.installed = (e \in installed), !.away = FALSE,
                                  !.pc = IF e \in installed THEN "write" ELSE "commit"]
  <2>1. save' = [save EXCEPT ![r].installed = (e \in installed), ![r].away = FALSE,
                             ![r].pc = IF e \in installed THEN "write" ELSE "commit"]
    BY <1>4 DEF ReadEnvironment
  <2>2. N \in Save
    <3>1. (e \in installed) \in BOOLEAN
      OBVIOUS
    <3>2. (IF e \in installed THEN "write" ELSE "commit") \in {"write", "commit"}
      OBVIOUS
    <3> QED
      BY <1>1, <3>1, <3>2 DEF Save
  <2>3. N.env = e /\ N.current = save[r].current /\ N.content = save[r].content
    BY <1>1 DEF Save
  <2>4. N.pc = IF e \in installed THEN "write" ELSE "commit"
    BY <1>1 DEF Save
  <2>5. (N.installed <=> e \in installed) /\ ~N.away
    BY <1>1 DEF Save
  <2>6. save' = [save EXCEPT ![r] = N]
    BY <2>1 DEF ConfigInv, TypeOK
  <2> HIDE DEF N
  <2>7. Formed(N)
    BY <1>2, <2>2, <2>3, <2>4, <2>5 DEF Formed
  <2> QED
    BY <1>2, <2>2, <2>3, <2>4, <2>5, <2>6, <2>7, GoOnConfig DEF ReadEnvironment
<1> QED
  BY <1>3, <1>4

\* The file is written: until the commit only the request knows of it.
LEMMA WriteConfigConfig ==
  ASSUME ConfigInv, NEW r \in Req, WriteConfig(r)
  PROVE  ConfigInv'
<1>1. Sound /\ TypeOK /\ save[r] \in Save /\ Formed(save[r])
  BY AllFormed DEF ConfigInv, Sound, TypeOK
<1> PICK e \in Env : save[r].env = e
  BY <1>1 DEF WriteConfig, Formed
<1>2. /\ save[r].pc = "write" /\ ~Written(r) /\ save[r].content \in Content
      /\ save[r].installed
  BY <1>1 DEF WriteConfig, Formed, Written
<1>3. UNCHANGED <<environments, row, history, template, marker, edit, task>>
  BY DEF WriteConfig
<1>4. CASE Leave(r) /\ UNCHANGED <<file, disturbed>>
  BY <1>2, <1>3, <1>4, LeaveConfig DEF server
<1>5. ASSUME Put(e, save[r].away, save[r].content), Leave(r), Disturb(e)
      PROVE  ConfigInv'
  <2>1. /\ disturbed \subseteq disturbed' /\ disturbed' \subseteq Env
        /\ e \in disturbed'
    BY <1>1, <1>2, <1>5, Grows, EnteredAlone DEF TypeOK
  <2>2. file' \in [Env -> Content \union {None}] /\ \A f \in Env : f # e => file'[f] = file[f]
    BY <1>1, <1>2, <1>5, PutSets
  <2>3. Sound'
    BY <1>1, <1>3, <1>5, <2>1, <2>2, LeaveSound
  <2>4. ASSUME NEW f \in live, f # e PROVE KeptTogether(f)'
    <3>1. f \in Env /\ Same(f)
      BY <1>1, <1>3, <2>1, <2>2, <2>4 DEF Same, environments, TypeOK
    <3> QED
      BY <1>1, <1>2, <1>3, <1>5, <2>4, <3>1, LeaveSets, Settled
  <2>5. KeptTogether(e)'
    BY <2>1 DEF KeptTogether
  <2> QED
    BY <1>3, <2>3, <2>4, <2>5 DEF ConfigInv, Sound, environments
<1>6. ASSUME Put(e, save[r].away, save[r].content), UNCHANGED disturbed,
             save' = [save EXCEPT ![r].pc = "commit", ![r].before = file[e]]
      PROVE  ConfigInv'
  <2> DEFINE N == [save[r] EXCEPT !.pc = "commit", !.before = file[e]]
  <2>1. file[e] \in Content \union {None}
    BY <1>1, <1>2 DEF TypeOK
  <2>2. /\ N \in Save /\ N.pc = "commit" /\ N.env = e /\ N.current = save[r].current
        /\ N.content = save[r].content /\ N.before = file[e] /\ N.away = save[r].away
    BY <1>1, <2>1 DEF Save
  <2>3. N.installed = save[r].installed
    BY <1>1 DEF Save
  <2>4. save' = [save EXCEPT ![r] = N]
    BY <1>1, <1>6 DEF TypeOK
  <2> HIDE DEF N
  <2>5. Formed(N)
    BY <1>2, <2>2, <2>3 DEF Formed
  <2>6. /\ file' \in [Env -> Content \union {None}]
        /\ ~save[r].away => file'[e] = save[r].content
        /\ \A f \in Env : f # e => file'[f] = file[f]
    BY <1>1, <1>2, <1>6, PutSets
  <2>7. Sound'
    BY <1>1, <1>3, <1>6, <2>2, <2>4, <2>5, <2>6, MoveSound DEF TypeOK
  <2>8. save'[r] = N /\ \A s \in Req : s # r => save'[s] = save[s]
    BY <1>1, <2>2, <2>4, SaveSets
  <2>9. ASSUME NEW f \in live, f # e PROVE KeptTogether(f)'
    <3>1. f \in Env /\ Same(f)
      BY <1>1, <1>3, <1>6, <2>6, <2>9 DEF Same, environments, TypeOK
    <3> QED
      BY <1>2, <1>3, <2>2, <2>8, <2>9, <3>1, OthersSettled
  <2>10. ASSUME e \in live PROVE KeptTogether(e)'
    <3> SUFFICES ASSUME e \notin disturbed'
                 PROVE  Alone(e)' /\ SaveKnows(e)' /\ TaskKnows(e)' /\ AtRest(e)'
      BY DEF KeptTogether
    <3>1. Alone(e) /\ SaveKnows(e) /\ AtRest(e)
      BY <1>6, <2>10 DEF ConfigInv, KeptTogether
    <3>2. task[e] = NoTask /\ \A s \in Req : save[s].env = e => s = r
      BY <3>1 DEF Alone, Saving
    <3>3. e \in installed
      BY <1>2, <3>1 DEF SaveKnows, Reached
    <3>4. row[e] # NoRow => file[e] = row[e].content /\ port[e] = row[e].content
      BY <1>2, <3>1, <3>2, <3>3 DEF AtRest, Agree
    <3>5. \A s \in Req : save'[s].env = e => s = r
      BY <2>8, <3>2
    <3>6. Alone(e)'
      BY <1>3, <3>2, <3>5 DEF Alone
    <3>7. Written(r)' /\ save'[r].env = e
      BY <1>2, <2>2, <2>3, <2>8 DEF Written
    <3>8. SaveKnows(e)'
      <4>1. save'[r].installed = (e \in installed')
        BY <1>2, <1>3, <2>3, <2>8, <3>1 DEF SaveKnows, Reached, environments
      <4>2. row[e] # NoRow => save'[r].current = row[e].content /\ save'[r].before = row[e].content
        BY <2>2, <2>8, <3>1, <3>4 DEF SaveKnows
      <4>3. ~save'[r].away /\ file'[e] = save'[r].content
        BY <1>2, <2>2, <2>6, <2>8, <3>1 DEF SaveKnows
      <4> QED
        BY <1>3, <3>4, <3>5, <4>1, <4>2, <4>3 DEF SaveKnows, environments
    <3>9. TaskKnows(e)'
      BY <1>3, <3>2 DEF TaskKnows
    <3>11. AtRest(e)'
      BY <3>7 DEF AtRest
    <3> QED
      BY <3>6, <3>8, <3>9, <3>11
  <2> QED
    BY <1>3, <2>7, <2>9, <2>10 DEF ConfigInv, Sound, environments
<1> QED
  BY <1>4, <1>5, <1>6 DEF WriteConfig

\* Revision, row and port: all three, or none of them.
LEMMA CommitConfig ==
  ASSUME ConfigInv, NEW r \in Req, Commit(r)
  PROVE  ConfigInv'
<1>1. TypeOK /\ save[r] \in Save /\ Formed(save[r])
  BY AllFormed DEF ConfigInv, TypeOK
<1> PICK e \in Env : save[r].env = e
  BY <1>1 DEF Commit, Formed
<1> DEFINE c == save[r].content
           v == [id |-> nextId, env |-> e, content |-> c]
           w == [content |-> c, revision |-> nextId]
<1>2. save[r].pc = "commit" /\ e \in live /\ c \in Content
  BY <1>1 DEF Commit, Formed, Save
<1>3. /\ nextId \in Id /\ nextId' = nextId + 1 /\ nextId' \in 1..(MaxRevisions + 1)
      /\ nextId # NoId
  BY MaxRevisionsAssumption DEF Commit, Id, NoId
<1>4. /\ revisions' = revisions \union {v} /\ row' = [row EXCEPT ![e] = w]
      /\ port' = IF save[r].installed THEN [port EXCEPT ![e] = c] ELSE port
      /\ Leave(r) /\ UNCHANGED <<live, installed, type, template, server, edit, task, disturbed>>
  BY DEF Commit
<1>5. w \in Rows /\ w # NoRow
  BY <1>2, <1>3, RowNew
<1>6. w.content = c /\ w.revision = nextId /\ v.id = nextId /\ v.env = e /\ v.content = c
  OBVIOUS
<1>7. v \in [id: Id, env: Env, content: Content]
  BY <1>2, <1>3
<1> HIDE DEF v, w
<1>8. /\ row' \in [Env -> Rows \union {NoRow}] /\ row'[e] = w
      /\ \A f \in Env : f # e => row'[f] = row[f]
  BY <1>1, <1>4, <1>5 DEF TypeOK, Rows
<1>9. /\ save' \in [Req -> Save] /\ save'[r] = NoSave
      /\ \A s \in Req : s # r => save'[s] = save[s]
  BY <1>1, <1>4, LeaveSets
<1>10. /\ port' \in [Env -> Content \union {None}]
       /\ save[r].installed => port'[e] = c
       /\ \A f \in Env : f # e => port'[f] = port[f]
  BY <1>1, <1>2, <1>4 DEF TypeOK
<1>11. TypeOK'
  BY <1>1, <1>3, <1>4, <1>7, <1>8, <1>9, <1>10 DEF TypeOK, Rows, server
<1>12. RequestsTyped'
  <2>1. \A s \in Req : Formed(save'[s])
    BY <1>9, AllFormed, LeaverFormed DEF ConfigInv
  <2>2. \A s \in Req : Formed(save[s])'
    BY <2>1 DEF Formed
  <2> QED
    BY <1>4, <2>2 DEF ConfigInv, RequestsTyped, Formed, Reached
<1>13. RowShowsRevision'
  <2>1. ASSUME NEW f \in Env, f # e
        PROVE  /\ row'[f].revision # NoId =>
                    \E x \in revisions' :
                      x.id = row'[f].revision /\ x.env = f /\ x.content = row'[f].content
               /\ f \notin live' => row'[f] = NoRow /\ \A x \in revisions' : x.env # f
    BY <1>4, <1>6, <1>8, <2>1 DEF ConfigInv, RowShowsRevision
  <2>2. /\ row'[e].revision # NoId =>
             \E x \in revisions' :
               x.id = row'[e].revision /\ x.env = e /\ x.content = row'[e].content
        /\ e \in live'
    BY <1>2, <1>4, <1>6, <1>8
  <2> QED
    BY <2>1, <2>2 DEF RowShowsRevision
<1>14. NumbersKnown'
  <2>1. \A x \in revisions : x.id < nextId /\ x.id \in Nat
    BY <1>1 DEF ConfigInv, NumbersKnown, TypeOK, Id
  <2>2. nextId \in Nat
    BY <1>3 DEF Id
  <2>3. \A x \in revisions' : x.id \in Nat /\ x.id < nextId + 1
    BY <1>4, <1>6, <2>1, <2>2
  <2> QED
    BY <1>3, <2>3 DEF NumbersKnown
<1>15. ASSUME NEW f \in live, f # e PROVE KeptTogether(f)'
  <2>1. f \in Env /\ Same(f)
    BY <1>1, <1>4, <1>8, <1>10, <1>15 DEF Same, server, TypeOK
  <2> QED
    BY <1>4, <1>9, <1>15, <2>1, OthersSettled, NoSaveTyped
<1>16. KeptTogether(e)'
  <2> SUFFICES ASSUME e \notin disturbed'
               PROVE  Alone(e)' /\ SaveKnows(e)' /\ TaskKnows(e)' /\ AtRest(e)'
    BY DEF KeptTogether
  <2>1. Alone(e) /\ SaveKnows(e)
    BY <1>2, <1>4 DEF ConfigInv, KeptTogether
  <2>2. task[e] = NoTask /\ \A s \in Req : save[s].env = e => s = r
    BY <2>1 DEF Alone, Saving
  <2>3. \A s \in Req : save'[s].env # e
    BY <1>1, <1>4, <1>9, <2>2, LeaveSets
  <2>4. Alone(e)' /\ SaveKnows(e)' /\ TaskKnows(e)'
    BY <1>4, <2>2, <2>3 DEF Alone, Saving, SaveKnows, TaskKnows
  <2>6. AtRest(e)'
    <3>1. ASSUME e \in installed PROVE Agree(e)'
      <4>1. save[r].installed
        BY <1>2, <2>1, <3>1 DEF SaveKnows, Reached
      <4>2. file[e] = c
        BY <1>2, <2>1, <4>1 DEF SaveKnows, Written
      <4> QED
        BY <1>4, <1>6, <1>8, <1>10, <4>1, <4>2 DEF Agree, server
    <3> QED
      BY <1>4, <3>1 DEF AtRest
  <2> QED
    BY <2>4, <2>6
<1> QED
  BY <1>4, <1>11, <1>12, <1>13, <1>14, <1>15, <1>16 DEF ConfigInv

\* The transaction fails: on an installed server the old content is still
\* to be written back.
LEMMA CommitFailsConfig ==
  ASSUME ConfigInv, NEW r \in Req, CommitFails(r)
  PROVE  ConfigInv'
<1>1. Sound /\ TypeOK /\ save[r] \in Save /\ Formed(save[r])
  BY AllFormed DEF ConfigInv, Sound, TypeOK
<1> PICK e \in Env : save[r].env = e
  BY <1>1 DEF CommitFails, Formed
<1>2. /\ save[r].pc = "commit" /\ save[r].content \in Content
      /\ UNCHANGED <<environments, row, history, template, server, edit, task, disturbed>>
  BY <1>1 DEF CommitFails, Formed
<1>3. CASE ~save[r].installed
  <2>1. Leave(r) /\ ~Written(r)
    BY <1>3 DEF CommitFails, Written
  <2> QED
    BY <1>2, <2>1, LeaveConfig
<1>4. CASE save[r].installed
  <2> DEFINE N == [save[r] EXCEPT !.pc = "restore"]
  <2>1. /\ N \in Save /\ N.pc = "restore" /\ N.env = e /\ N.current = save[r].current
        /\ N.content = save[r].content /\ N.before = save[r].before /\ N.away = save[r].away
    BY <1>1 DEF Save
  <2>2. N.installed = save[r].installed
    BY <1>1 DEF Save
  <2>3. save' = [save EXCEPT ![r] = N]
    BY <1>1, <1>4 DEF CommitFails, TypeOK
  <2> HIDE DEF N
  <2>4. Formed(N)
    BY <1>2, <1>4, <2>1, <2>2 DEF Formed
  <2>5. Sound'
    BY <1>1, <1>2, <2>1, <2>3, <2>4, MoveSound DEF TypeOK, server
  <2>6. save'[r] = N /\ \A s \in Req : s # r => save'[s] = save[s]
    BY <1>1, <2>1, <2>3, SaveSets
  <2>7. \A f \in Env : Same(f)
    BY <1>2 DEF Same, environments, server
  <2>8. ASSUME NEW f \in live, f # e PROVE KeptTogether(f)'
    <3>1. f \in Env
      BY <1>1 DEF TypeOK
    <3> QED
      BY <1>2, <2>1, <2>6, <2>7, <2>8, <3>1, OthersSettled
  <2>9. ASSUME e \in live PROVE KeptTogether(e)'
    <3> SUFFICES ASSUME e \notin disturbed'
                 PROVE  Alone(e)' /\ SaveKnows(e)' /\ TaskKnows(e)' /\ AtRest(e)'
      BY DEF KeptTogether
    <3>1. Alone(e) /\ SaveKnows(e) /\ TaskKnows(e)
      BY <1>2, <2>9 DEF ConfigInv, KeptTogether
    <3>2. task[e] = NoTask /\ \A s \in Req : save[s].env = e => s = r
      BY <3>1 DEF Alone, Saving
    <3>3. \A s \in Req : save'[s].env = e => s = r
      BY <2>6, <3>2
    <3>4. Alone(e)' /\ TaskKnows(e)'
      BY <1>2, <3>2, <3>3 DEF Alone, TaskKnows
    <3>5. Written(r) /\ Reached(r) /\ Written(r)' /\ save'[r].env = e
      BY <1>2, <1>4, <2>1, <2>2, <2>6 DEF Written, Reached
    <3>6. SaveKnows(e)'
      <4>1. save'[r].installed = (e \in installed')
        BY <1>2, <2>2, <2>6, <3>1, <3>5 DEF SaveKnows, environments
      <4>2. /\ row[e] # NoRow => save'[r].current = row[e].content
            /\ ~save'[r].away /\ file[e] = save'[r].content
            /\ row[e] # NoRow => save'[r].before = row[e].content /\ port[e] = row[e].content
        BY <1>4, <2>1, <2>6, <3>1, <3>5 DEF SaveKnows
      <4> QED
        BY <1>2, <3>3, <4>1, <4>2 DEF SaveKnows, environments, server
    <3>7. AtRest(e)'
      BY <1>2, <3>1, <3>5 DEF AtRest, environments, server
    <3> QED
      BY <3>4, <3>6, <3>7
  <2> QED
    BY <1>2, <2>5, <2>8, <2>9 DEF ConfigInv, Sound, environments
<1> QED
  BY <1>3, <1>4

\* The compensation brings back what the row shows.
LEMMA RestoreConfig ==
  ASSUME ConfigInv, NEW r \in Req, Restore(r)
  PROVE  ConfigInv'
<1>1. Sound /\ TypeOK /\ save[r] \in Save /\ Formed(save[r])
  BY AllFormed DEF ConfigInv, Sound, TypeOK
<1> PICK e \in Env : save[r].env = e
  BY <1>1 DEF Restore, Formed
<1>2. /\ save[r].pc = "restore" /\ save[r].installed /\ Leave(r) /\ Written(r) /\ Reached(r)
      /\ save[r].current \in Content \union {None}
      /\ UNCHANGED <<environments, row, history, template, marker, edit, task>>
  BY <1>1 DEF Restore, Formed, Written, Reached, Save
<1>3. \/ Put(e, save[r].away, save[r].current) /\ UNCHANGED disturbed
      \/ UNCHANGED file /\ Disturb(e)
  BY DEF Restore
<1>4. /\ file' \in [Env -> Content \union {None}]
      /\ \A f \in Env : f # e => file'[f] = file[f]
      /\ disturbed \subseteq disturbed' /\ disturbed' \subseteq Env
      /\ e \notin disturbed' /\ ~save[r].away => file'[e] = save[r].current
  BY <1>1, <1>2, <1>3, PutSets, Grows, EnteredAlone DEF TypeOK
<1>5. Sound'
  BY <1>1, <1>2, <1>4, LeaveSound
<1>6. save'[r] = NoSave /\ \A s \in Req : s # r => save'[s] = save[s]
  BY <1>1, <1>2, LeaveSets
<1>7. ASSUME NEW f \in live, f # e PROVE KeptTogether(f)'
  <2>1. f \in Env /\ Same(f)
    BY <1>1, <1>2, <1>4, <1>7 DEF Same, environments, TypeOK
  <2> QED
    BY <1>2, <1>6, <1>7, <2>1, OthersSettled, NoSaveTyped
<1>8. ASSUME e \in live PROVE KeptTogether(e)'
  <2> SUFFICES ASSUME e \notin disturbed'
               PROVE  Alone(e)' /\ SaveKnows(e)' /\ TaskKnows(e)' /\ AtRest(e)'
    BY DEF KeptTogether
  <2>1. Alone(e) /\ SaveKnows(e)
    BY <1>4, <1>8, StillUndisturbed DEF ConfigInv, KeptTogether
  <2>2. task[e] = NoTask /\ \A s \in Req : save[s].env = e => s = r
    BY <2>1 DEF Alone, Saving
  <2>3. \A s \in Req : save'[s].env # e
    BY <1>1, <1>2, <1>6, <2>2, LeaveSets
  <2>4. Alone(e)' /\ SaveKnows(e)' /\ TaskKnows(e)'
    BY <1>2, <2>2, <2>3 DEF Alone, Saving, SaveKnows, TaskKnows
  <2>6. /\ ~save[r].away
        /\ row[e] # NoRow => save[r].current = row[e].content /\ port[e] = row[e].content
    BY <1>2, <2>1 DEF SaveKnows
  <2>7. AtRest(e)'
    BY <1>2, <1>4, <2>6 DEF AtRest, Agree, environments
  <2> QED
    BY <2>4, <2>7
<1> QED
  BY <1>2, <1>5, <1>7, <1>8 DEF ConfigInv, Sound, environments

-----------------------------------------------------------------------------
(* The installs: what holds of all tasks alike *)

TaskFormed(T) ==
  /\ T.pc = "idle" => T = NoTask
  /\ T.pc \in {"install", "upsert", "mark"} => T.content \in Content

\* Every operation in flight is well formed.
LEMMA AllTasksFormed ==
  ASSUME RequestsTyped, NEW e \in Env
  PROVE  TaskFormed(task[e])
  BY DEF RequestsTyped, TaskFormed

\* So is one that is over.
LEMMA StopFormed == TaskFormed(NoTask)
  BY NoTaskTyped DEF TaskFormed

\* A step of an operation or of the surroundings that leaves the requests and
\* the revisions alone, and in which a row is replaced by one without a revision.
LEMMA TaskSound ==
  ASSUME Sound, task' \in [Env -> Task], \A e \in Env : TaskFormed(task'[e]),
         installed' \subseteq Env, port' \in [Env -> Content \union {None}],
         row' \in [Env -> Rows \union {NoRow}],
         \A e \in Env : row'[e] = row[e] \/ row'[e] = NoRow
                          \/ (row'[e].revision = NoId /\ e \in live),
         template' \in [Env -> Content],
         file' \in [Env -> Content \union {None}], marker' \in [Env -> Content \union {None}],
         disturbed' \subseteq Env,
         UNCHANGED <<live, history, save, edit, type>>
  PROVE  Sound'
<1>1. TypeOK'
  BY DEF Sound, TypeOK, Rows, history
<1>2. RequestsTyped'
  <2>1. \A e \in Env : TaskFormed(task[e])'
    BY DEF TaskFormed
  <2> QED
    BY <2>1 DEF Sound, RequestsTyped, TaskFormed, Reached
<1>3. RowShowsRevision'
  <2>1. NoRow.revision = NoId
    BY DEF NoRow
  <2> QED
    BY <2>1 DEF Sound, RowShowsRevision, history
<1>4. NumbersKnown'
  BY DEF Sound, NumbersKnown, history
<1> QED
  BY <1>1, <1>2, <1>3, <1>4 DEF Sound

\* The task of one environment takes a step.
LEMMA TaskConfig ==
  ASSUME ConfigInv, Sound', NEW e \in Env, live' \subseteq live, save' = save,
         \A f \in Env : f # e => Same(f) /\ task'[f] = task[f],
         e \in live /\ e \notin disturbed' =>
           Alone(e)' /\ SaveKnows(e)' /\ TaskKnows(e)' /\ AtRest(e)'
  PROVE  ConfigInv'
<1>1. \A f \in live : f \in Env
  BY DEF ConfigInv, TypeOK
<1>2. ASSUME NEW f \in live, f # e PROVE KeptTogether(f)'
  BY <1>1, <1>2, Settled
<1>3. e \in live => KeptTogether(e)'
  BY DEF KeptTogether
<1> QED
  BY <1>1, <1>2, <1>3 DEF ConfigInv, Sound

\* An install that has begun is alone, and its environment is not installed.
LEMMA TaskAlone ==
  ASSUME ConfigInv, NEW e \in Env, e \in live, task[e] # NoTask,
         disturbed \subseteq disturbed', e \notin disturbed', save' = save
  PROVE  /\ TaskKnows(e) /\ e \notin installed /\ ~Saving(e)
         /\ Alone(e)' /\ SaveKnows(e)'
<1>1. Alone(e) /\ TaskKnows(e)
  BY StillUndisturbed DEF ConfigInv, KeptTogether
<1>2. e \notin installed /\ ~Saving(e)
  BY <1>1 DEF Alone, TaskKnows
<1>3. Alone(e)' /\ SaveKnows(e)'
  BY <1>2 DEF Alone, SaveKnows, Saving
<1> QED
  BY <1>1, <1>2, <1>3

\* What only replaces the record of a task.
LEMMA TaskOnlySound ==
  ASSUME Sound, NEW e \in Env, NEW T \in Task, TaskFormed(T), task' = [task EXCEPT ![e] = T],
         disturbed' \subseteq Env,
         UNCHANGED <<environments, row, history, template, server, save, edit>>
  PROVE  Sound'
<1>1. task' \in [Env -> Task] /\ \A f \in Env : TaskFormed(task'[f])
  BY TaskSets, AllTasksFormed DEF Sound
<1> QED
  BY <1>1, TaskSound DEF Sound, TypeOK, Rows, environments, server

-----------------------------------------------------------------------------
(* The installs, one by one *)

\* An install begins in the slot of its environment.
LEMMA StartInstallConfig ==
  ASSUME ConfigInv, NEW e \in Env, StartInstall(e)
  PROVE  ConfigInv'
<1> DEFINE T == [task[e] EXCEPT !.pc = "config"]
<1>1. Sound /\ TypeOK /\ task[e] \in Task
  BY DEF ConfigInv, Sound, TypeOK
<1>2. T \in Task /\ T.pc = "config" /\ (task[e] = NoTask => ~T.away)
  BY <1>1 DEF Task, NoTask
<1>3. /\ task[e] = NoTask /\ e \in live /\ e \notin installed /\ Enter(e)
      /\ UNCHANGED <<environments, row, history, template, server, save, edit>>
  BY DEF StartInstall
<1>4. task' = [task EXCEPT ![e] = T]
  BY <1>1 DEF StartInstall, TypeOK
<1> HIDE DEF T
<1>5. disturbed \subseteq disturbed' /\ disturbed' \subseteq Env
  BY <1>1, <1>3, Grows DEF TypeOK
<1>6. Sound'
  BY <1>1, <1>2, <1>3, <1>4, <1>5, TaskOnlySound DEF TaskFormed
<1>7. task'[e] = T /\ \A f \in Env : f # e => Same(f) /\ task'[f] = task[f]
  BY <1>1, <1>2, <1>3, <1>4, <1>5, TaskSets DEF Same, environments, server
<1>8. ASSUME e \notin disturbed'
      PROVE  Alone(e)' /\ SaveKnows(e)' /\ TaskKnows(e)' /\ AtRest(e)'
  <2>1. ~Saving(e)
    BY <1>3, <1>5, <1>8, EnteredAlone, StillUndisturbed DEF InFlight, ConfigInv, KeptTogether
  <2>2. Alone(e)' /\ SaveKnows(e)'
    BY <1>3, <2>1 DEF Alone, SaveKnows, Saving
  <2>3. TaskKnows(e)'
    BY <1>2, <1>3, <1>7 DEF TaskKnows, environments
  <2>4. AtRest(e)'
    BY <1>3 DEF AtRest, environments
  <2> QED
    BY <2>2, <2>3, <2>4
<1> QED
  BY <1>3, <1>6, <1>7, <1>8, TaskConfig DEF environments

\* An install that stops before it has reached the server.
LEMMA StopConfig ==
  ASSUME ConfigInv, NEW e \in Env, task[e].pc \in {"config", "install"}, StopTask(e),
         file' \in [Env -> Content \union {None}],
         \A f \in Env : f # e => file'[f] = file[f],
         UNCHANGED <<environments, row, history, template, marker, save, edit, disturbed>>
  PROVE  ConfigInv'
<1>1. Sound /\ TypeOK
  BY DEF ConfigInv, Sound
<1>2. /\ task' \in [Env -> Task] /\ task'[e] = NoTask
      /\ \A f \in Env : f # e => task'[f] = task[f]
  BY <1>1, StopSets
<1>3. \A f \in Env : TaskFormed(task'[f])
  BY <1>1, <1>2, AllTasksFormed, StopFormed DEF Sound
<1>4. Sound'
  BY <1>1, <1>2, <1>3, TaskSound DEF TypeOK, Rows, environments
<1>5. \A f \in Env : f # e => Same(f)
  BY DEF Same, environments
<1>6. ASSUME e \in live, e \notin disturbed'
      PROVE  Alone(e)' /\ SaveKnows(e)' /\ TaskKnows(e)' /\ AtRest(e)'
  <2>1. e \notin installed /\ Alone(e)' /\ SaveKnows(e)'
    BY <1>6, TaskAlone, NoTaskTyped
  <2> QED
    BY <1>2, <2>1 DEF TaskKnows, AtRest, environments
<1> QED
  BY <1>2, <1>4, <1>5, <1>6, TaskConfig DEF environments

\* The install takes the row, or the template where there is none.
LEMMA ReadConfigConfig ==
  ASSUME ConfigInv, NEW e \in Env, ReadConfig(e)
  PROVE  ConfigInv'
<1> DEFINE T == [pc |-> "install", content |-> Current(e), inherited |-> row[e] = NoRow,
                 away |-> FALSE]
<1>1. Sound /\ TypeOK
  BY DEF ConfigInv, Sound
<1>2. /\ task[e].pc = "config"
      /\ UNCHANGED <<environments, row, history, template, server, save, edit, disturbed>>
  BY DEF ReadConfig
<1>3. CASE StopTask(e)
  BY <1>1, <1>2, <1>3, StopConfig DEF TypeOK, server
<1>4. CASE ~StopTask(e)
  <2>1. task' = [task EXCEPT ![e] = T]
    BY <1>4 DEF ReadConfig
  <2>2. Current(e) \in Content /\ (row[e] # NoRow => Current(e) = row[e].content)
    BY <1>1, RowKnown
  <2>3. T \in Task /\ T.pc = "install" /\ T.content = Current(e)
    <3>1. (row[e] = NoRow) \in BOOLEAN
      OBVIOUS
    <3> QED
      BY <2>2, <3>1 DEF Task
  <2>4. (T.inherited <=> row[e] = NoRow) /\ ~T.away
    OBVIOUS
  <2> HIDE DEF T
  <2>5. Sound'
    BY <1>1, <1>2, <2>1, <2>2, <2>3, TaskOnlySound DEF TaskFormed, TypeOK
  <2>6. task'[e] = T /\ \A f \in Env : f # e => Same(f) /\ task'[f] = task[f]
    BY <1>1, <1>2, <2>1, <2>3, TaskSets DEF Same, environments, server
  <2>7. ASSUME e \in live, e \notin disturbed'
        PROVE  Alone(e)' /\ SaveKnows(e)' /\ TaskKnows(e)' /\ AtRest(e)'
    <3>1. e \notin installed /\ Alone(e)' /\ SaveKnows(e)'
      BY <1>2, <2>7, TaskAlone, NoTaskTyped
    <3>2. TaskKnows(e)'
      BY <1>2, <2>2, <2>3, <2>4, <2>6, <3>1 DEF TaskKnows, environments
    <3>3. AtRest(e)'
      BY <1>2, <3>1 DEF AtRest, environments, server
    <3> QED
      BY <3>1, <3>2, <3>3
  <2> QED
    BY <1>2, <2>5, <2>6, <2>7, TaskConfig DEF environments
<1> QED
  BY <1>3, <1>4

\* The file, and last the marker.
LEMMA InstallConfig ==
  ASSUME ConfigInv, NEW e \in Env, Install(e)
  PROVE  ConfigInv'
<1>1. Sound /\ TypeOK /\ task[e] \in Task /\ TaskFormed(task[e])
  BY AllTasksFormed DEF ConfigInv, Sound, TypeOK
<1>2. /\ task[e].pc = "install" /\ task[e].content \in Content
      /\ Put(e, task[e].away, task[e].content)
      /\ UNCHANGED <<environments, row, history, template, save, edit, disturbed>>
  BY <1>1 DEF Install, TaskFormed
<1>3. /\ file' \in [Env -> Content \union {None}]
      /\ ~task[e].away => file'[e] = task[e].content
      /\ \A f \in Env : f # e => file'[f] = file[f]
  BY <1>1, <1>2, PutSets
<1>4. CASE UNCHANGED marker /\ StopTask(e)
  BY <1>2, <1>3, <1>4, StopConfig
<1>5. ASSUME marker' = IF task[e].away THEN marker ELSE [marker EXCEPT ![e] = task[e].content],
             task' = [task EXCEPT ![e].pc = IF task[e].inherited THEN "upsert" ELSE "mark"]
      PROVE  ConfigInv'
  <2> DEFINE T == [task[e] EXCEPT !.pc = IF task[e].inherited THEN "upsert" ELSE "mark"]
  <2>1. /\ T \in Task /\ T.content = task[e].content /\ T.inherited = task[e].inherited
        /\ T.away = task[e].away
        /\ T.pc = IF task[e].inherited THEN "upsert" ELSE "mark"
    BY <1>1 DEF Task
  <2>2. task' = [task EXCEPT ![e] = T]
    BY <1>1, <1>5 DEF TypeOK
  <2> HIDE DEF T
  <2>3. /\ task' \in [Env -> Task] /\ task'[e] = T
        /\ \A f \in Env : f # e => task'[f] = task[f]
    BY <1>1, <2>1, <2>2, TaskSets
  <2>4. marker' \in [Env -> Content \union {None}]
    BY <1>1, <1>2, <1>5 DEF TypeOK
  <2>5. T.pc \in {"upsert", "mark"}
    BY <2>1
  <2>6. \A f \in Env : TaskFormed(task'[f])
    BY <1>1, <1>2, <2>1, <2>3, <2>5, AllTasksFormed DEF Sound, TaskFormed
  <2>7. Sound'
    BY <1>1, <1>2, <1>3, <2>3, <2>4, <2>6, TaskSound DEF TypeOK, Rows, environments
  <2>8. \A f \in Env : f # e => Same(f) /\ task'[f] = task[f]
    BY <1>2, <1>3, <2>3, <2>4 DEF Same, environments
  <2>9. ASSUME e \in live, e \notin disturbed'
        PROVE  Alone(e)' /\ SaveKnows(e)' /\ TaskKnows(e)' /\ AtRest(e)'
    <3>1. TaskKnows(e) /\ e \notin installed /\ Alone(e)' /\ SaveKnows(e)' /\ task[e] # NoTask
      BY <1>2, <2>9, TaskAlone, NoTaskTyped
    <3>2. /\ ~task[e].away
          /\ ~task[e].inherited => row[e] = NoRow \/ row[e].content = task[e].content
      BY <1>2, <3>1 DEF TaskKnows
    <3>3. /\ T.pc = "upsert" => T.inherited
          /\ T.pc = "mark" => ~T.inherited
      BY <2>1
    <3>4. TaskKnows(e)'
      BY <1>2, <1>3, <2>1, <2>3, <2>5, <3>1, <3>2, <3>3 DEF TaskKnows, environments
    <3>5. AtRest(e)'
      BY <1>2, <2>3, <2>5, <3>1 DEF AtRest, environments
    <3> QED
      BY <3>1, <3>4, <3>5
  <2> QED
    BY <1>2, <2>7, <2>8, <2>9, TaskConfig DEF environments
<1> QED
  BY <1>4, <1>5 DEF Install

\* An install that fails leaves some file, of an environment that is not
\* installed.
LEMMA InstallFailsConfig ==
  ASSUME ConfigInv, NEW e \in Env, InstallFails(e)
  PROVE  ConfigInv'
<1>1. TypeOK
  BY DEF ConfigInv
<1>2. PICK c \in {file[e]} \union {d \in Content : marker[e] = None} :
        Put(e, task[e].away, c)
  BY DEF InstallFails
<1>3. file' \in [Env -> Content \union {None}] /\ \A f \in Env : f # e => file'[f] = file[f]
  BY <1>1, <1>2, PutSets DEF TypeOK
<1> QED
  BY <1>3, StopConfig DEF InstallFails

\* What another install left takes its flag and its port along, and disturbs.
LEMMA SyncInstalledConfig ==
  ASSUME ConfigInv, NEW e \in Env, SyncInstalled(e)
  PROVE  ConfigInv'
<1>1. Sound /\ TypeOK
  BY DEF ConfigInv, Sound
<1>2. /\ e \in live /\ StopTask(e) /\ Disturb(e)
      /\ UNCHANGED <<live, type, row, history, template, server, save, edit>>
  BY DEF SyncInstalled
<1>3. PICK p \in Content \union {None} : Overwrite(e, TRUE, p)
  BY <1>1 DEF SyncInstalled, TypeOK
<1>4. /\ task' \in [Env -> Task] /\ task'[e] = NoTask
      /\ \A f \in Env : f # e => task'[f] = task[f]
  BY <1>1, <1>2, StopSets
<1>5. /\ installed' = installed \union {e} /\ port' \in [Env -> Content \union {None}]
      /\ \A f \in Env : f # e => port'[f] = port[f]
  BY <1>1, <1>3 DEF Overwrite, TypeOK
<1>6. \A f \in Env : TaskFormed(task'[f])
  BY <1>1, <1>4, AllTasksFormed, StopFormed DEF Sound
<1>7. disturbed \subseteq disturbed' /\ disturbed' \subseteq Env /\ e \in disturbed'
  BY <1>1, <1>2, Grows, EnteredAlone DEF TypeOK
<1>8. Sound'
  BY <1>1, <1>2, <1>4, <1>5, <1>6, <1>7, TaskSound DEF TypeOK, Rows, server
<1>9. \A f \in Env : f # e => Same(f) /\ task'[f] = task[f]
  BY <1>2, <1>4, <1>5, <1>7 DEF Same, server
<1> QED
  BY <1>2, <1>7, <1>8, <1>9, TaskConfig

\* What was installed becomes the row of an environment that had none.
LEMMA UpsertConfig ==
  ASSUME ConfigInv, NEW e \in Env, UpsertServiceConfig(e)
  PROVE  ConfigInv'
<1> DEFINE T == [task[e] EXCEPT !.pc = "mark"]
           w == [content |-> task[e].content, revision |-> NoId]
<1>1. Sound /\ TypeOK /\ task[e] \in Task /\ TaskFormed(task[e])
  BY AllTasksFormed DEF ConfigInv, Sound, TypeOK
<1>2. /\ task[e].pc = "upsert" /\ task[e].content \in Content /\ e \in live
      /\ row' = [row EXCEPT ![e] = w]
      /\ UNCHANGED <<environments, history, template, server, save, edit, disturbed>>
  BY <1>1 DEF UpsertServiceConfig, Upsert, TaskFormed
<1>3. T \in Task /\ T.pc = "mark" /\ T.content = task[e].content /\ T.away = task[e].away
  BY <1>1 DEF Task
<1>4. task' = [task EXCEPT ![e] = T]
  BY <1>1 DEF UpsertServiceConfig, Upsert, TypeOK
<1>5. w \in Rows /\ w # NoRow /\ w.content = task[e].content /\ w.revision = NoId
  BY <1>2, RowNew
<1> HIDE DEF T, w
<1>6. /\ task' \in [Env -> Task] /\ task'[e] = T
      /\ \A f \in Env : f # e => task'[f] = task[f]
  BY <1>1, <1>3, <1>4, TaskSets
<1>7. /\ row' \in [Env -> Rows \union {NoRow}] /\ row'[e] = w
      /\ \A f \in Env : f # e => row'[f] = row[f]
  BY <1>1, <1>2, <1>5 DEF TypeOK, Rows
<1>8. \A f \in Env : TaskFormed(task'[f])
  BY <1>1, <1>2, <1>3, <1>6, AllTasksFormed DEF Sound, TaskFormed
<1>9. Sound'
  <2>1. \A f \in Env : row'[f] = row[f] \/ (row'[f].revision = NoId /\ f \in live)
    BY <1>2, <1>5, <1>7
  <2> QED
    BY <1>1, <1>2, <1>6, <1>7, <1>8, <2>1, TaskSound DEF TypeOK, environments, server
<1>10. \A f \in Env : f # e => Same(f) /\ task'[f] = task[f]
  BY <1>2, <1>6, <1>7 DEF Same, environments, server
<1>11. ASSUME e \notin disturbed'
       PROVE  Alone(e)' /\ SaveKnows(e)' /\ TaskKnows(e)' /\ AtRest(e)'
  <2>1. TaskKnows(e) /\ e \notin installed /\ Alone(e)' /\ SaveKnows(e)' /\ task[e] # NoTask
    BY <1>2, <1>11, TaskAlone, NoTaskTyped
  <2>2. file[e] = task[e].content /\ ~task[e].away
    BY <1>2, <2>1 DEF TaskKnows
  <2>3. TaskKnows(e)'
    BY <1>2, <1>3, <1>5, <1>6, <1>7, <2>1, <2>2 DEF TaskKnows, environments, server
  <2>4. AtRest(e)'
    BY <1>2, <1>3, <1>6, <2>1 DEF AtRest, environments
  <2> QED
    BY <2>1, <2>3, <2>4
<1> QED
  BY <1>2, <1>9, <1>10, <1>11, TaskConfig DEF environments

\* The flag and the port come last, and complete what the file and the row say.
LEMMA MarkInstalledConfig ==
  ASSUME ConfigInv, NEW e \in Env, MarkInstalled(e)
  PROVE  ConfigInv'
<1>1. Sound /\ TypeOK /\ TaskFormed(task[e])
  BY AllTasksFormed DEF ConfigInv, Sound
<1>2. /\ task[e].pc = "mark" /\ task[e].content \in Content /\ e \in live /\ StopTask(e)
      /\ installed' = installed \union {e} /\ port' = [port EXCEPT ![e] = task[e].content]
      /\ UNCHANGED <<live, type, row, history, template, server, save, edit, disturbed>>
  BY <1>1 DEF MarkInstalled, Overwrite, TaskFormed
<1>3. /\ task' \in [Env -> Task] /\ task'[e] = NoTask
      /\ \A f \in Env : f # e => task'[f] = task[f]
  BY <1>1, <1>2, StopSets
<1>4. /\ port' \in [Env -> Content \union {None}] /\ port'[e] = task[e].content
      /\ \A f \in Env : f # e => port'[f] = port[f]
  BY <1>1, <1>2 DEF TypeOK
<1>5. \A f \in Env : TaskFormed(task'[f])
  BY <1>1, <1>3, AllTasksFormed, StopFormed DEF Sound
<1>6. Sound'
  BY <1>1, <1>2, <1>3, <1>4, <1>5, TaskSound DEF TypeOK, Rows, server
<1>7. \A f \in Env : f # e => Same(f) /\ task'[f] = task[f]
  BY <1>2, <1>3, <1>4 DEF Same, server
<1>8. ASSUME e \notin disturbed'
      PROVE  Alone(e)' /\ SaveKnows(e)' /\ TaskKnows(e)' /\ AtRest(e)'
  <2>1. TaskKnows(e) /\ ~Saving(e) /\ task[e] # NoTask
    BY <1>2, <1>8, TaskAlone, NoTaskTyped
  <2>2. file[e] = task[e].content /\ (row[e] = NoRow \/ row[e].content = task[e].content)
    BY <1>2, <2>1 DEF TaskKnows
  <2>3. Alone(e)' /\ SaveKnows(e)' /\ TaskKnows(e)'
    BY <1>2, <1>3, <2>1 DEF Alone, SaveKnows, TaskKnows, Saving
  <2>4. AtRest(e)'
    BY <1>2, <1>4, <2>2 DEF AtRest, Agree, server
  <2> QED
    BY <2>3, <2>4
<1> QED
  BY <1>2, <1>6, <1>7, <1>8, TaskConfig

\* A failure after the server was written disturbs the environment.
LEMMA LocalStepFailsConfig ==
  ASSUME ConfigInv, NEW e \in Env, LocalStepFails(e)
  PROVE  ConfigInv'
<1>1. Sound /\ TypeOK
  BY DEF ConfigInv, Sound
<1>2. StopTask(e) /\ Disturb(e) /\ UNCHANGED <<environments, row, history, template, server, save, edit>>
  BY DEF LocalStepFails
<1>3. /\ disturbed \subseteq disturbed' /\ disturbed' \subseteq Env
      /\ e \in disturbed'
  BY <1>1, <1>2, Grows, EnteredAlone DEF TypeOK
<1>4. Sound'
  BY <1>1, <1>2, <1>3, TaskOnlySound, NoTaskTyped, StopFormed DEF StopTask
<1>5. \A f \in Env : f # e => Same(f) /\ task'[f] = task[f]
  BY <1>1, <1>2, <1>3, StopSets DEF Same, environments, server
<1> QED
  BY <1>2, <1>3, <1>4, <1>5, TaskConfig DEF environments

\* A reset takes the marker and, with the database, flag and port.
LEMMA ResetConfig ==
  ASSUME ConfigInv, NEW e \in Env, Reset(e)
  PROVE  ConfigInv'
<1>1. Sound /\ TypeOK
  BY DEF ConfigInv, Sound
<1>2. /\ task[e] = NoTask /\ e \in live /\ Enter(e) /\ marker' = [marker EXCEPT ![e] = None]
      /\ \/ /\ installed' = installed \ {e}
            /\ port' = [port EXCEPT ![e] = None]
         \/ UNCHANGED <<installed, port>>
      /\ UNCHANGED <<live, type, row, history, template, file, save, edit, task>>
  BY DEF Reset, Overwrite
<1>3. disturbed \subseteq disturbed' /\ disturbed' \subseteq Env
  BY <1>1, <1>2, Grows DEF TypeOK
<1>4. /\ marker' \in [Env -> Content \union {None}] /\ marker'[e] = None
      /\ port' \in [Env -> Content \union {None}] /\ installed' \subseteq installed
      /\ e \in installed' => port' = port
      /\ \A f \in Env : f # e => marker'[f] = marker[f] /\ port'[f] = port[f]
                                 /\ (f \in installed' <=> f \in installed)
  BY <1>1, <1>2 DEF TypeOK
<1>5. Sound'
  BY <1>1, <1>2, <1>3, <1>4, TaskSound, AllTasksFormed DEF Sound, TypeOK, Rows
<1>6. \A f \in Env : f # e => Same(f) /\ task'[f] = task[f]
  BY <1>2, <1>3, <1>4 DEF Same
<1>7. ASSUME e \notin disturbed'
      PROVE  Alone(e)' /\ SaveKnows(e)' /\ TaskKnows(e)' /\ AtRest(e)'
  <2>1. ~Saving(e) /\ AtRest(e)
    BY <1>2, <1>3, <1>7, EnteredAlone, StillUndisturbed DEF InFlight, ConfigInv, KeptTogether
  <2>2. Alone(e)' /\ SaveKnows(e)' /\ TaskKnows(e)'
    BY <1>2, <1>4, <2>1 DEF Alone, SaveKnows, TaskKnows, Saving
  <2>3. AtRest(e)'
    BY <1>2, <1>4, <2>1 DEF AtRest, Agree, Saving
  <2> QED
    BY <2>2, <2>3
<1> QED
  BY <1>2, <1>5, <1>6, <1>7, TaskConfig

-----------------------------------------------------------------------------
(* Edits, imports, packages, the process *)

EditFormed(E) ==
  /\ E.pc = "idle" => E = NoEdit
  /\ E.pc # "idle" => E.env \in Env

\* Every edit in flight is well formed, and one that is over is.
LEMMA AllEditsFormed ==
  ASSUME RequestsTyped
  PROVE  /\ \A d \in Editor : EditFormed(edit[d])
         /\ NoEdit \in Edit /\ EditFormed(NoEdit)
  BY DEF RequestsTyped, EditFormed, NoEdit, Edit

\* A step that leaves rows, file and port of every environment as they are,
\* and its requests and installs, keeps the invariant.
LEMMA AsideConfig ==
  ASSUME ConfigInv, edit' \in [Editor -> Edit], \A d \in Editor : EditFormed(edit'[d]),
         template' \in [Env -> Content],
         UNCHANGED <<environments, row, history, server, save, task, disturbed>>
  PROVE  ConfigInv'
<1>1. TypeOK'
  BY DEF ConfigInv, TypeOK, environments, history, server
<1>2. RequestsTyped'
  <2>1. \A d \in Editor : EditFormed(edit[d])'
    BY DEF EditFormed
  <2> QED
    BY <2>1 DEF ConfigInv, RequestsTyped, EditFormed, Reached
<1>3. RowShowsRevision' /\ NumbersKnown'
  BY DEF ConfigInv, RowShowsRevision, NumbersKnown, environments, history
<1>4. ASSUME NEW f \in live PROVE KeptTogether(f)'
  BY Settled DEF Same, environments, server, ConfigInv, TypeOK
<1> QED
  BY <1>1, <1>2, <1>3, <1>4 DEF ConfigInv, environments

\* Another package version changes the template alone.
LEMMA ActivateConfig ==
  ASSUME ConfigInv, NEW e \in Env, NEW c \in Content, ActivateVersion(e, c) \/ UNCHANGED vars
  PROVE  ConfigInv'
<1>1. /\ template' \in [Env -> Content]
      /\ UNCHANGED <<environments, row, history, server, save, edit, task, disturbed>>
  BY DEF ActivateVersion, vars, ConfigInv, TypeOK
<1>2. edit' \in [Editor -> Edit] /\ \A d \in Editor : EditFormed(edit'[d])
  BY <1>1, AllEditsFormed DEF ConfigInv, TypeOK
<1> QED
  BY <1>1, <1>2, AsideConfig

\* An edit that reads the row, before and after its transaction, or that fails.
LEMMA EditReadsConfig ==
  ASSUME ConfigInv, NEW d \in Editor,
         \/ \E e \in Env : BeginEdit(d, e)
         \/ Reread(d) \/ EditFails(d)
  PROVE  ConfigInv'
<1>1. /\ TypeOK /\ edit[d] \in Edit /\ EditFormed(edit[d])
      /\ NoEdit \in Edit /\ EditFormed(NoEdit)
  BY AllEditsFormed DEF ConfigInv, TypeOK
<1>2. PICK E \in Edit : EditFormed(E) /\ edit' = [edit EXCEPT ![d] = E]
  <2>1. ASSUME NEW e \in Env, BeginEdit(d, e)
        PROVE  \E E \in Edit : EditFormed(E) /\ edit' = [edit EXCEPT ![d] = E]
    <3> DEFINE E == [pc |-> "write", env |-> e, installed |-> e \in installed,
                     port |-> port[e], was |-> type[e], moved |-> FALSE]
    <3>1. port[e] \in Content \union {None} /\ type[e] \in Type /\ (e \in installed) \in BOOLEAN
      BY <1>1 DEF TypeOK
    <3>2. E \in Edit /\ EditFormed(E)
      BY <3>1 DEF Edit, EditFormed
    <3> QED
      BY <2>1, <3>2 DEF BeginEdit
  <2>2. CASE Reread(d)
    <3> DEFINE D == [NoEdit EXCEPT !.pc = "drop", !.env = edit[d].env]
    <3>1. D \in Edit /\ EditFormed(D)
      <4>1. edit[d].env \in Env
        BY <1>1, <2>2 DEF Reread, EditFormed
      <4> QED
        BY <4>1 DEF NoEdit, Edit, EditFormed
    <3>2. edit' = [edit EXCEPT ![d] = IF type[edit[d].env] # edit[d].was THEN D ELSE NoEdit]
      BY <2>2 DEF Reread
    <3> HIDE DEF D
    <3> QED
      BY <1>1, <3>1, <3>2
  <2>3. CASE EditFails(d)
    BY <1>1, <2>3 DEF EditFails
  <2> QED
    BY <2>1, <2>2, <2>3
<1>3. edit' \in [Editor -> Edit] /\ \A x \in Editor : EditFormed(edit'[x])
  BY <1>1, <1>2, AllEditsFormed DEF ConfigInv, TypeOK
<1>4. UNCHANGED <<environments, row, history, template, server, save, task, disturbed>>
  BY DEF BeginEdit, Reread, EditFails
<1> QED
  BY <1>1, <1>3, <1>4, AsideConfig DEF TypeOK

\* The configuration of another service type goes, and may go under a save or
\* an install: there is no row left to agree with.
LEMMA DropConfig ==
  ASSUME ConfigInv, NEW d \in Editor, DeleteServiceConfig(d)
  PROVE  ConfigInv'
<1>1. /\ TypeOK /\ edit[d].env \in Env
      /\ NoEdit \in Edit /\ EditFormed(NoEdit)
  BY AllEditsFormed DEF ConfigInv, DeleteServiceConfig, EditFormed
<1> PICK e \in Env : e = edit[d].env
  BY <1>1
<1>2. /\ row' = [row EXCEPT ![e] = NoRow] /\ edit' = [edit EXCEPT ![d] = NoEdit]
      /\ UNCHANGED <<environments, history, template, server, save, task, disturbed>>
  BY DEF DeleteServiceConfig
<1>3. /\ row' \in [Env -> Rows \union {NoRow}] /\ row'[e] = NoRow
      /\ \A f \in Env : f # e => row'[f] = row[f]
  BY <1>1, <1>2 DEF TypeOK, Rows
<1>4. edit' \in [Editor -> Edit] /\ \A x \in Editor : EditFormed(edit'[x])
  BY <1>1, <1>2, AllEditsFormed DEF ConfigInv, TypeOK
<1>5. TypeOK'
  BY <1>1, <1>2, <1>3, <1>4 DEF TypeOK, Rows, environments, history, server
<1>6. RequestsTyped'
  <2>1. \A x \in Editor : EditFormed(edit[x])'
    BY <1>4 DEF EditFormed
  <2> QED
    BY <1>2, <2>1 DEF ConfigInv, RequestsTyped, EditFormed, Reached
<1>7. RowShowsRevision' /\ NumbersKnown'
  <2>1. NoRow.revision = NoId
    BY DEF NoRow
  <2> QED
    BY <1>2, <1>3, <2>1 DEF ConfigInv, RowShowsRevision, NumbersKnown, environments, history
<1>8. ASSUME NEW f \in live, f # e PROVE KeptTogether(f)'
  BY <1>1, <1>2, <1>3, <1>8, Settled DEF Same, environments, server, TypeOK
<1>9. ASSUME e \in live PROVE KeptTogether(e)'
  <2> SUFFICES ASSUME e \notin disturbed'
               PROVE  Alone(e)' /\ SaveKnows(e)' /\ TaskKnows(e)' /\ AtRest(e)'
    BY DEF KeptTogether
  <2>1. Alone(e) /\ SaveKnows(e) /\ TaskKnows(e)
    BY <1>2, <1>9 DEF ConfigInv, KeptTogether
  <2>2. Alone(e)'
    BY <1>2, <2>1 DEF Alone, Saving
  <2>3. SaveKnows(e)'
    BY <1>2, <1>3, <2>1 DEF SaveKnows, Reached, Written, environments, server
  <2>4. TaskKnows(e)' /\ AtRest(e)'
    BY <1>2, <1>3, <2>1 DEF TaskKnows, AtRest, environments, server
  <2> QED
    BY <2>2, <2>3, <2>4
<1> QED
  BY <1>2, <1>5, <1>6, <1>7, <1>8, <1>9 DEF ConfigInv, environments

\* What a move does to requests and installs: it only takes their directory
\* away, and only where they write to one.
LEMMA RelocateSets ==
  ASSUME TypeOK, RequestsTyped, NEW e \in Env, NEW moves \in BOOLEAN, Relocate(e, moves)
  PROVE  /\ file' \in [Env -> Content \union {None}] /\ marker' \in [Env -> Content \union {None}]
         /\ \A f \in Env : f # e => file'[f] = file[f] /\ task'[f] = task[f]
         /\ task[e] = NoTask => task' = task
         /\ save' \in [Req -> Save] /\ \A r \in Req : Formed(save'[r])
         /\ task' \in [Env -> Task] /\ \A f \in Env : TaskFormed(task'[f])
         /\ \A r \in Req : save[r].env # e \/ ~save[r].installed => save'[r] = save[r]
         /\ \A r \in Req : save'[r].env = save[r].env
         /\ ~moves => UNCHANGED <<server, save, task>>
<1>1. /\ \A r \in Req : save[r] \in Save /\ Formed(save[r])
      /\ \A f \in Env : task[f] \in Task /\ TaskFormed(task[f])
  BY AllFormed, AllTasksFormed DEF TypeOK
<1>2. CASE ~moves
  BY <1>1, <1>2 DEF Relocate, TypeOK, server
<1>3. CASE moves
  <2>1. PICK f, m \in Content \union {None} :
          file' = [file EXCEPT ![e] = f] /\ marker' = [marker EXCEPT ![e] = m]
    BY <1>3 DEF Relocate
  <2>2. save' = [r \in Req |->
                  [save[r] EXCEPT !.away = @ \/ (save[r].env = e /\ save[r].installed)]]
    BY <1>3 DEF Relocate
  <2>3. task' = IF task[e].pc = "install" THEN [task EXCEPT ![e].away = TRUE] ELSE task
    BY <1>3 DEF Relocate
  <2>4. /\ file' \in [Env -> Content \union {None}] /\ marker' \in [Env -> Content \union {None}]
        /\ \A g \in Env : g # e => file'[g] = file[g]
    BY <2>1 DEF TypeOK
  <2>5. ASSUME NEW r \in Req
        PROVE  /\ save'[r] \in Save /\ Formed(save'[r]) /\ save'[r].env = save[r].env
               /\ save[r].env # e \/ ~save[r].installed => save'[r] = save[r]
    <3> DEFINE b == save[r].away \/ (save[r].env = e /\ save[r].installed)
               N == [save[r] EXCEPT !.away = b]
    <3>1. save'[r] = N
      BY <2>2
    <3>2. b \in BOOLEAN /\ save[r].away \in BOOLEAN /\ save[r].installed \in BOOLEAN
      BY <1>1 DEF Save
    <3>3. save[r].env # e \/ ~save[r].installed => b = save[r].away
      BY <3>2
    <3> HIDE DEF b
    <3>4. N \in Save /\ N.env = save[r].env
      BY <1>1, <3>2 DEF Save
    <3>5. b = save[r].away => N = save[r]
      BY <1>1 DEF Save
    <3>6. Formed(N)
      <4>1. /\ N.pc = save[r].pc /\ N.installed = save[r].installed
            /\ N.content = save[r].content
        BY <1>1 DEF Save
      <4>2. N.pc = "idle" => N = save[r]
        BY <1>1, <3>3, <3>5, <4>1, NoSaveTyped DEF Formed
      <4> QED
        BY <1>1, <3>4, <4>1, <4>2 DEF Formed
    <3> QED
      BY <3>1, <3>3, <3>4, <3>5, <3>6
  <2>6. save' \in [Req -> Save]
    BY <2>2, <2>5
  <2>7. /\ task' \in [Env -> Task] /\ \A g \in Env : TaskFormed(task'[g])
        /\ \A g \in Env : g # e => task'[g] = task[g]
        /\ task[e] = NoTask => task' = task
    <3>1. CASE task[e].pc = "install"
      <4> DEFINE T == [task[e] EXCEPT !.away = TRUE]
      <4>1. T \in Task /\ T.pc = task[e].pc /\ T.content = task[e].content
        BY <1>1 DEF Task
      <4>2. task' = [task EXCEPT ![e] = T]
        BY <2>3, <3>1 DEF TypeOK
      <4> HIDE DEF T
      <4>3. TaskFormed(T)
        BY <1>1, <3>1, <4>1 DEF TaskFormed
      <4> QED
        BY <1>1, <3>1, <4>1, <4>2, <4>3, TaskSets, NoTaskTyped
    <3>2. CASE task[e].pc # "install"
      BY <1>1, <2>3, <3>2 DEF TypeOK
    <3> QED
      BY <3>1, <3>2
  <2> QED
    BY <1>3, <2>4, <2>5, <2>6, <2>7
<1> QED
  BY <1>2, <1>3

\* A whole row is written back, or comes from a document.
LEMMA ReplaceConfig ==
  ASSUME ConfigInv, NEW e \in Env, e \in live, NEW flag \in BOOLEAN,
         NEW p \in Content \union {None}, NEW moves \in BOOLEAN,
         Replace(e, flag, p, moves), Relocate(e, moves),
         type' \in [Env -> Type], template' \in [Env -> Content],
         edit' \in [Editor -> Edit], \A d \in Editor : EditFormed(edit'[d]),
         UNCHANGED <<live, row, history>>
  PROVE  ConfigInv'
<1> DEFINE Changes == flag # (e \in installed) \/ p # port[e]
<1>1. TypeOK /\ RequestsTyped
  BY DEF ConfigInv
<1>2. /\ installed' = (IF flag THEN installed \union {e} ELSE installed \ {e})
      /\ port' = [port EXCEPT ![e] = p]
      /\ DisturbIf(e, (Changes /\ (row[e] # NoRow \/ InFlight(e)))
                      \/ (moves /\ (e \in installed \/ task[e] # NoTask)))
  BY DEF Replace, Overwrite
<1> HIDE DEF Changes
<1>3. /\ file' \in [Env -> Content \union {None}] /\ marker' \in [Env -> Content \union {None}]
      /\ \A f \in Env : f # e => file'[f] = file[f] /\ task'[f] = task[f]
      /\ task[e] = NoTask => task' = task
      /\ save' \in [Req -> Save] /\ \A r \in Req : Formed(save'[r])
      /\ task' \in [Env -> Task] /\ \A f \in Env : TaskFormed(task'[f])
      /\ \A r \in Req : save[r].env # e \/ ~save[r].installed => save'[r] = save[r]
      /\ \A r \in Req : save'[r].env = save[r].env
      /\ ~moves => UNCHANGED <<server, save, task>>
  BY <1>1, RelocateSets
<1>4. /\ installed' \subseteq Env /\ port' \in [Env -> Content \union {None}]
      /\ \A f \in Env : f # e => port'[f] = port[f] /\ (f \in installed' <=> f \in installed)
      /\ disturbed \subseteq disturbed' /\ disturbed' \subseteq Env
  BY <1>1, <1>2 DEF TypeOK, DisturbIf
<1>5. TypeOK'
  BY <1>1, <1>3, <1>4 DEF TypeOK, history
<1>6. RequestsTyped'
  <2>1. /\ \A d \in Editor : EditFormed(edit[d])'
        /\ \A r \in Req : Formed(save[r])'
        /\ \A f \in Env : TaskFormed(task[f])'
    BY <1>3 DEF EditFormed, Formed, TaskFormed
  <2> QED
    BY <2>1 DEF RequestsTyped, EditFormed, Formed, TaskFormed, Reached
<1>7. RowShowsRevision' /\ NumbersKnown'
  BY DEF ConfigInv, RowShowsRevision, NumbersKnown, history
<1>8. ASSUME NEW f \in live, f # e PROVE KeptTogether(f)'
  <2>1. f \in Env /\ Same(f)
    BY <1>1, <1>3, <1>4, <1>8 DEF Same, TypeOK
  <2>2. \A r \in Req : save'[r] = save[r] \/ (save'[r].env # f /\ save[r].env # f)
    BY <1>3, <1>8
  <2> QED
    BY <1>3, <1>8, <2>1, <2>2, Settled
<1>9. KeptTogether(e)'
  <2> SUFFICES ASSUME e \notin disturbed'
               PROVE  Alone(e)' /\ SaveKnows(e)' /\ TaskKnows(e)' /\ AtRest(e)'
    BY DEF KeptTogether
  <2>1. /\ Changes => row[e] = NoRow /\ ~InFlight(e)
        /\ moves => e \notin installed /\ task[e] = NoTask
    BY <1>2 DEF DisturbIf
  <2>2. Alone(e) /\ SaveKnows(e) /\ TaskKnows(e) /\ AtRest(e)
    BY <1>4 DEF ConfigInv, KeptTogether
  <2>3. CASE Changes
    <3>1. task'[e] = NoTask /\ \A r \in Req : save'[r].env # e
      BY <1>3, <2>1, <2>3 DEF InFlight, Saving
    <3> QED
      BY <2>1, <2>3, <3>1 DEF Alone, Saving, SaveKnows, TaskKnows, AtRest
  <2>4. CASE ~Changes /\ ~moves
    <3>1. Same(e)
      BY <1>1, <1>2, <1>3, <1>4, <2>4 DEF Changes, Same, server, TypeOK
    <3>2. task'[e] = task[e] /\ \A r \in Req : save'[r] = save[r]
      BY <1>3, <2>4
    <3>3. KeptTogether(e)'
      BY <3>1, <3>2, Settled
    <3> QED
      BY <3>3 DEF KeptTogether
  <2>5. CASE ~Changes /\ moves
    <3>1. e \notin installed /\ e \notin installed' /\ task[e] = NoTask /\ task'[e] = NoTask
      BY <1>2, <1>3, <2>1, <2>5 DEF Changes
    <3>2. \A r \in Req : save[r].env = e => save'[r] = save[r] /\ ~save[r].installed
      <4>1. ASSUME NEW r \in Req, save[r].env = e PROVE ~save[r].installed
        <5>1. save[r].installed => Reached(r)
          BY <1>1 DEF RequestsTyped
        <5> QED
          BY <2>2, <3>1, <4>1, <5>1 DEF SaveKnows
      <4> QED
        BY <1>3, <4>1
    <3>3. \A r \in Req : save'[r].env = e => save[r].env = e /\ save'[r] = save[r]
      BY <1>3, <3>2
    <3>4. Alone(e)'
      BY <2>2, <3>1, <3>3 DEF Alone
    <3>5. SaveKnows(e)'
      BY <2>2, <3>1, <3>2, <3>3 DEF SaveKnows, Reached, Written
    <3> QED
      BY <3>1, <3>4, <3>5 DEF TaskKnows, AtRest
  <2> QED
    BY <2>3, <2>4, <2>5
<1> QED
  BY <1>5, <1>6, <1>7, <1>8, <1>9 DEF ConfigInv

\* An edit that knows of a move stays the edit it was.
LEMMA DisplacedSets ==
  ASSUME ConfigInv, NEW e \in Env, NEW moves \in BOOLEAN
  PROVE  \E E \in [Editor -> Edit] :
           Displaced(e, moves) = E /\ \A d \in Editor : EditFormed(E[d])
<1> DEFINE E == Displaced(e, moves)
<1>1. ASSUME NEW d \in Editor
      PROVE  E[d] \in Edit /\ EditFormed(E[d])
  <2> DEFINE b == edit[d].moved \/ (moves /\ edit[d].pc = "write" /\ edit[d].env = e)
             N == [edit[d] EXCEPT !.moved = b]
  <2>1. E[d] = N
    BY DEF Displaced
  <2>2. edit[d] \in Edit /\ EditFormed(edit[d])
    BY AllEditsFormed DEF ConfigInv, TypeOK
  <2>3. b \in BOOLEAN /\ (edit[d].pc # "write" => b = edit[d].moved)
    BY <2>2 DEF Edit
  <2> HIDE DEF b
  <2>4. N \in Edit /\ N.pc = edit[d].pc /\ N.env = edit[d].env
    BY <2>2, <2>3 DEF Edit
  <2>5. N.pc = "idle" => N = edit[d]
    BY <2>2, <2>3, <2>4 DEF Edit
  <2>6. EditFormed(N)
    BY <2>2, <2>4, <2>5 DEF EditFormed
  <2> QED
    BY <2>1, <2>4, <2>6
<1>2. E \in [Editor -> Edit]
  BY <1>1 DEF Displaced
<1> QED
  BY <1>1, <1>2

\* An edit writes back what it read, whatever happened since.
LEMMA UpdateEnvironmentConfig ==
  ASSUME ConfigInv, NEW d \in Editor, NEW t \in Type, NEW moves \in BOOLEAN,
         UpdateEnvironment(d, t, moves)
  PROVE  ConfigInv'
<1>1. TypeOK /\ edit[d] \in Edit /\ EditFormed(edit[d]) /\ edit[d].pc = "write"
  BY AllEditsFormed DEF ConfigInv, TypeOK, UpdateEnvironment
<1> PICK e \in Env : edit[d].env = e
  BY <1>1 DEF EditFormed
<1> DEFINE N == [NoEdit EXCEPT !.pc = "reread", !.env = e, !.was = edit[d].was]
<1>2. /\ e \in live /\ Replace(e, edit[d].installed, edit[d].port, moves) /\ Relocate(e, moves)
      /\ type' = [type EXCEPT ![e] = t]
      /\ edit' = [Displaced(e, moves) EXCEPT ![d] = N]
      /\ UNCHANGED <<live, row, history>>
  BY DEF UpdateEnvironment
<1>3. template' \in [Env -> Content] /\ type' \in [Env -> Type]
  BY <1>1, <1>2 DEF UpdateEnvironment, TypeOK
<1>4. edit[d].installed \in BOOLEAN /\ edit[d].port \in Content \union {None}
  BY <1>1 DEF Edit
<1>5. N \in Edit /\ EditFormed(N)
  BY <1>1 DEF NoEdit, Edit, EditFormed
<1> HIDE DEF N
<1>6. edit' \in [Editor -> Edit] /\ \A x \in Editor : EditFormed(edit'[x])
  BY <1>2, <1>5, DisplacedSets
<1> QED
  BY <1>2, <1>3, <1>4, <1>6, ReplaceConfig

\* An import does so from its document.
LEMMA ImportConfig ==
  ASSUME ConfigInv, NEW e \in Env, NEW flag \in BOOLEAN, NEW moves \in BOOLEAN,
         NEW p \in Content \union {None}, UpsertImportedEnvironments(e, flag, p, moves)
  PROVE  ConfigInv'
<1>1. edit' \in [Editor -> Edit] /\ \A d \in Editor : EditFormed(edit'[d])
  BY DisplacedSets DEF UpsertImportedEnvironments
<1>2. template' \in [Env -> Content] /\ type' \in [Env -> Type]
  BY DEF UpsertImportedEnvironments, ConfigInv, TypeOK
<1> QED
  BY <1>1, <1>2, ReplaceConfig DEF UpsertImportedEnvironments

\* An edit takes a step.
LEMMA EditConfig ==
  ASSUME ConfigInv, NEW d \in Editor, EditRequest(d)
  PROVE  ConfigInv'
  BY EditReadsConfig, DropConfig, UpdateEnvironmentConfig DEF EditRequest

\* Row and revisions go with their environment; what still works on it has
\* nothing left to agree with.
LEMMA DeleteConfig ==
  ASSUME ConfigInv, NEW e \in Env, DeleteEnvironment(e)
  PROVE  ConfigInv'
<1>1. Sound /\ TypeOK
  BY DEF ConfigInv, Sound
<1>2. /\ live' = live \ {e} /\ row' = [row EXCEPT ![e] = NoRow]
      /\ revisions' = {v \in revisions : v.env # e}
      /\ UNCHANGED <<installed, port, type, nextId, template, server, save, edit, task, disturbed>>
  BY DEF DeleteEnvironment, DeleteAndKeep
<1>3. /\ row' \in [Env -> Rows \union {NoRow}] /\ row'[e] = NoRow
      /\ \A f \in Env : f # e => row'[f] = row[f]
  BY <1>1, <1>2 DEF TypeOK, Rows
<1>4. TypeOK'
  BY <1>1, <1>2, <1>3 DEF TypeOK, Rows, server
<1>5. RequestsTyped' /\ NumbersKnown'
  BY <1>1, <1>2 DEF Sound, RequestsTyped, NumbersKnown, Reached
<1>6. RowShowsRevision'
  <2>1. NoRow.revision = NoId
    BY DEF NoRow
  <2> QED
    BY <1>1, <1>2, <1>3, <2>1 DEF Sound, RowShowsRevision
<1>7. ASSUME NEW f \in live, f # e PROVE KeptTogether(f)'
  BY <1>1, <1>2, <1>3, <1>7, Settled DEF Same, server, TypeOK
<1> QED
  BY <1>2, <1>4, <1>5, <1>6, <1>7 DEF ConfigInv

\* A crash ends what is in flight and disturbs what it may leave half done.
LEMMA CrashConfig ==
  ASSUME ConfigInv, Crash
  PROVE  ConfigInv'
<1>1. Sound /\ TypeOK
  BY DEF ConfigInv, Sound
<1>2. /\ save' = [r \in Req |-> NoSave] /\ task' = [e \in Env |-> NoTask]
      /\ edit' = [d \in Editor |-> NoEdit]
      /\ disturbed' = disturbed \union {e \in Env : Exposed(e)}
      /\ UNCHANGED <<environments, row, history, template, server>>
  BY DEF Crash
<1>3. /\ \A r \in Req : save'[r] = NoSave
      /\ \A e \in Env : task'[e] = NoTask
      /\ save' \in [Req -> Save] /\ task' \in [Env -> Task]
  BY <1>2, NoSaveTyped, NoTaskTyped
<1>4. disturbed \subseteq disturbed' /\ disturbed' \subseteq Env
  BY <1>1, <1>2 DEF TypeOK
<1>5. TypeOK'
  BY <1>1, <1>2, <1>3, <1>4, AllEditsFormed DEF Sound, TypeOK, environments, history, server
<1>6. RequestsTyped'
  <2>1. \A d \in Editor : edit'[d] = NoEdit
    BY <1>2
  <2>2. NoEdit.pc = "idle"
    BY DEF NoEdit
  <2> QED
    BY <1>3, <2>1, <2>2, NoSaveTyped, NoTaskTyped DEF RequestsTyped, Reached
<1>7. RowShowsRevision' /\ NumbersKnown'
  BY <1>1, <1>2 DEF Sound, RowShowsRevision, NumbersKnown, environments, history
<1>8. ASSUME NEW e \in live PROVE KeptTogether(e)'
  <2>1. e \in Env
    BY <1>1 DEF TypeOK
  <2>2. CASE Exposed(e)
    BY <1>2, <2>1, <2>2 DEF KeptTogether
  <2>3. CASE ~Exposed(e)
    <3>1. task[e].pc \notin {"upsert", "mark"}
      BY <2>3 DEF Exposed
    <3>2. \A r \in Req : save'[r].env # e /\ (save[r].env = e => ~Written(r))
      BY <1>3, <2>1, <2>3, NoSaveTyped, NoneAssumption DEF Exposed, Written, None
    <3>3. Same(e)
      BY <1>2, <1>4 DEF Same, environments, server
    <3> QED
      BY <1>3, <2>1, <3>1, <3>2, <3>3, Settled
  <2> QED
    BY <2>2, <2>3
<1> QED
  BY <1>2, <1>5, <1>6, <1>7, <1>8 DEF ConfigInv, environments

-----------------------------------------------------------------------------
(* ConfigInv *)

\* The initial states satisfy the invariant.
LEMMA InitConfig == Init => ConfigInv
<1> SUFFICES ASSUME Init PROVE ConfigInv
  OBVIOUS
<1>1. /\ \A r \in Req : save[r] = NoSave
      /\ \A e \in Env : task[e] = NoTask /\ row[e] = NoRow
      /\ \A d \in Editor : edit[d] = NoEdit
      /\ save \in [Req -> Save] /\ task \in [Env -> Task] /\ edit \in [Editor -> Edit]
  BY NoSaveTyped, NoTaskTyped DEF Init, NoEdit, Edit
<1>2. /\ live = Env /\ installed = {} /\ disturbed = {} /\ revisions = {} /\ nextId = 1
      /\ row = [e \in Env |-> NoRow] /\ port = [e \in Env |-> None] /\ type \in [Env -> Type]
      /\ file \in [Env -> Content \union {None}] /\ marker \in [Env -> Content \union {None}]
      /\ template \in [Env -> Content]
  BY DEF Init
<1>3. nextId \in 1..(MaxRevisions + 1)
  BY <1>2, MaxRevisionsAssumption
<1>4. TypeOK
  BY <1>1, <1>2, <1>3 DEF TypeOK
<1>5. RequestsTyped
  BY <1>1, NoSaveTyped, NoTaskTyped DEF RequestsTyped, Reached, NoEdit
<1>6. RowShowsRevision /\ NumbersKnown
  BY <1>1, <1>2 DEF RowShowsRevision, NumbersKnown, NoRow
<1>7. ASSUME NEW e \in Env PROVE KeptTogether(e)
  <2>1. \A r \in Req : save[r].env # e
    BY <1>1, NoSaveTyped, NoneAssumption DEF None
  <2> QED
    BY <1>1, <1>2, <2>1 DEF KeptTogether, Alone, Saving, SaveKnows, TaskKnows, AtRest
<1> QED
  BY <1>2, <1>4, <1>5, <1>6, <1>7 DEF ConfigInv

\* Every step of a save preserves the invariant.
LEMMA RequestConfig ==
  ASSUME ConfigInv, NEW r \in Req, Request(r)
  PROVE  ConfigInv'
  BY UpdateConfig, RollbackConfig, TargetConfig, ReadEnvironmentConfig, WriteConfigConfig,
     CommitConfig, CommitFailsConfig, RestoreConfig DEF Request, Id

\* Every step of an operation preserves the invariant.
LEMMA OperationConfig ==
  ASSUME ConfigInv, NEW e \in Env, Operation(e)
  PROVE  ConfigInv'
  BY StartInstallConfig, ReadConfigConfig, InstallConfig, InstallFailsConfig,
     SyncInstalledConfig, UpsertConfig, MarkInstalledConfig, LocalStepFailsConfig, ResetConfig
     DEF Operation

\* Every step preserves the invariant.
LEMMA StepConfig == ConfigInv /\ [Next]_vars => ConfigInv'
<1> SUFFICES ASSUME ConfigInv, [Next]_vars PROVE ConfigInv'
  OBVIOUS
<1>1. CASE \E r \in Req : Request(r)
  BY <1>1, RequestConfig
<1>2. CASE \E e \in Env : Operation(e)
  BY <1>2, OperationConfig
<1>3. CASE Surroundings
  BY <1>3, ActivateConfig, ImportConfig, DeleteConfig, CrashConfig DEF Surroundings
<1>4. CASE \E d \in Editor : EditRequest(d)
  BY <1>4, EditConfig
<1>5. CASE UNCHANGED vars
  <2>1. UNCHANGED <<environments, row, history, template, server, save, edit, task, disturbed>>
    BY <1>5 DEF vars
  <2>2. UNCHANGED <<live, installed, port, type, revisions, nextId, file, marker>>
    BY <2>1 DEF environments, history, server
  <2> QED
    BY <2>1, <2>2 DEF ConfigInv, TypeOK, RequestsTyped, RowShowsRevision, NumbersKnown,
       KeptTogether, Alone, Saving, SaveKnows, TaskKnows, AtRest,
       Agree, Reached, Written
<1> QED
  BY <1>1, <1>2, <1>3, <1>4, <1>5 DEF Next

\* In every reachable state what rows, server and requests in flight show
\* of a configuration belongs together.
THEOREM ConfigInvariant == Spec => []ConfigInv
  BY InitConfig, StepConfig, PTL DEF Spec

\* Every variable keeps its type, in rows, on the server and in what is in flight.
THEOREM TypeCorrect == Spec => []TypeOK
<1>1. ConfigInv => TypeOK
  BY DEF ConfigInv
<1> QED
  BY <1>1, ConfigInvariant, PTL

\* The row shows the revision it names, and both end with their environment,
\* however many saves, rollbacks, installs and edits interleave.
THEOREM RowsShowRevisions == Spec => []RowShowsRevision
<1>1. ConfigInv => RowShowsRevision
  BY DEF ConfigInv
<1> QED
  BY <1>1, ConfigInvariant, PTL

\* File, row and port of an installed service at rest agree, through failed
\* commits and their compensation, abandoned requests and crashes.
THEOREM ConfigStaysTogether == Spec => []ConfigAgrees
<1>1. ConfigInv => ConfigAgrees
  <2> SUFFICES ASSUME ConfigInv, NEW e \in live \intersect installed, row[e] # NoRow,
                      ~InFlight(e), e \notin disturbed
               PROVE  Agree(e)
    BY DEF ConfigAgrees
  <2>1. AtRest(e) /\ \A r \in Req : save[r].env # e
    BY DEF ConfigInv, KeptTogether, InFlight, Saving
  <2> QED
    BY <2>1 DEF AtRest
<1> QED
  BY <1>1, ConfigInvariant, PTL

\* A save that fails leaves the file with what the row shows, by the
\* compensation where the file had been written.
THEOREM FailureIsCompensated == Spec => FailedSaveRestores
<1> DEFINE Failed(e, r) ==
             /\ save[r].env = e /\ save[r].installed /\ save'[r] = NoSave
             /\ revisions' = revisions
             /\ row[e] # NoRow /\ e \notin disturbed'
           Left(e, r) ==
             file'[e] = IF save[r].pc \in {"commit", "restore"} THEN save[r].before ELSE file[e]
<1>1. ASSUME ConfigInv, Next, NEW e \in Env, NEW r \in Req, Failed(e, r)
      PROVE  Left(e, r)
  <2>1. /\ save[r] # NoSave /\ e \in live /\ Formed(save[r])
        /\ save[r].pc \in {"write", "commit", "restore"}
    BY <1>1, NoSaveTyped, AllFormed DEF ConfigInv, RowShowsRevision, Formed
  <2>2. save[r] # save'[r]
    BY <1>1, <2>1
  <2>3. CASE \E s \in Req : Request(s)
    <3>1. PICK s \in Req : Request(s)
      BY <2>3
    <3>2. \A q \in Req : q # s => save'[q] = save[q]
      <4>1. save \in [Req -> Save]
        BY <1>1 DEF ConfigInv, TypeOK
      <4>2. CASE \E f \in Env : \/ \E c \in Content : Update(s, f, c)
                              \/ \E i \in 1..MaxRevisions : Rollback(s, f, i)
        BY <4>1, <4>2 DEF Update, Rollback
      <4>3. CASE Target(s) \/ ReadEnvironment(s)
        BY <4>1, <4>3 DEF Target, ReadTarget, ReadEnvironment, Leave
      <4>4. CASE WriteConfig(s) \/ Commit(s) \/ CommitFails(s) \/ Restore(s)
        BY <4>1, <4>4 DEF WriteConfig, Commit, CommitFails, Restore, Leave
      <4> QED
        BY <3>1, <4>2, <4>3, <4>4 DEF Request
    <3>3. Request(r)
      BY <2>2, <3>1, <3>2
    <3>4. WriteConfig(r) \/ Commit(r) \/ CommitFails(r) \/ Restore(r)
      BY <2>1, <3>3 DEF Request, Update, Rollback, Target, ReadTarget, ReadEnvironment
    <3>5. CASE WriteConfig(r)
      <4>1. save[r].pc = "write"
        BY <3>5 DEF WriteConfig
      <4>2. ~Disturb(e)
        BY <1>1, EnteredAlone
      <4>3. save' # [save EXCEPT ![r].pc = "commit", ![r].before = file[e]]
        <5>1. save \in [Req -> Save] /\ save'[r].pc = "idle"
          BY <1>1, NoSaveTyped DEF ConfigInv, TypeOK
        <5> QED
          BY <5>1 DEF Save
      <4> QED
        BY <1>1, <3>5, <4>1, <4>2, <4>3 DEF WriteConfig
    <3>6. CASE Commit(r)
      <4>1. \A v \in revisions : v.id # nextId
        <5>1. \A v \in revisions : v.id < nextId
          BY <1>1 DEF ConfigInv, NumbersKnown
        <5>2. nextId \in Nat
          BY <3>6, MaxRevisionsAssumption DEF Commit
        <5>3. \A v \in revisions : v.id \in Nat
          BY <1>1 DEF ConfigInv, TypeOK, Id
        <5> QED
          BY <5>1, <5>2, <5>3
      <4>2. \E v \in revisions' : v.id = nextId
        <5> DEFINE w == [id |-> nextId, env |-> save[r].env, content |-> save[r].content]
        <5>1. w \in revisions' /\ w.id = nextId
          BY <3>6 DEF Commit
        <5> HIDE DEF w
        <5> QED
          BY <5>1
      <4> QED
        BY <1>1, <4>1, <4>2
    <3>7. CASE CommitFails(r)
      <4>1. save \in [Req -> Save] /\ save'[r].pc = "idle"
        BY <1>1, NoSaveTyped DEF ConfigInv, TypeOK
      <4>2. save' = [save EXCEPT ![r].pc = "restore"]
        BY <1>1, <3>7 DEF CommitFails
      <4> QED
        BY <4>1, <4>2 DEF Save
    <3>8. CASE Restore(r)
      <4>1. save[r].pc = "restore" /\ Put(e, save[r].away, save[r].current)
            /\ UNCHANGED disturbed
        BY <1>1, <3>8, EnteredAlone DEF Restore
      <4>2. SaveKnows(e)
        BY <1>1, <2>1, <4>1 DEF ConfigInv, KeptTogether
      <4>3. /\ save[r].before = row[e].content /\ save[r].current = row[e].content
            /\ ~save[r].away
        BY <1>1, <4>1, <4>2 DEF SaveKnows, Written
      <4>4. file'[e] = save[r].before
        BY <1>1, <4>1, <4>3 DEF Put, ConfigInv, TypeOK
      <4> QED
        BY <4>1, <4>4
    <3> QED
      BY <3>4, <3>5, <3>6, <3>7, <3>8
  <2>4. CASE \E f \in Env : Operation(f)
    <3>1. save' = save
      BY <2>4 DEF Operation, StartInstall, ReadConfig, Install, InstallFails, SyncInstalled,
         UpsertServiceConfig, Upsert, MarkInstalled, LocalStepFails, Reset
    <3> QED
      BY <2>2, <3>1
  <2>5. CASE Surroundings
    <3>1. CASE Crash
      <4>1. ~Exposed(e)
        BY <1>1, <3>1 DEF Crash
      <4>2. save[r].pc = "write" /\ file' = file
        BY <1>1, <3>1, <4>1 DEF Exposed, Crash, server
      <4> QED
        BY <4>2
    <3>2. ASSUME NEW f \in Env, NEW flag \in BOOLEAN, NEW moves \in BOOLEAN,
                 NEW p \in Content \union {None}, UpsertImportedEnvironments(f, flag, p, moves)
          PROVE  FALSE
      <4>1. save'[r].env = save[r].env
        BY <1>1, <3>2, RelocateSets DEF UpsertImportedEnvironments, ConfigInv
      <4> QED
        BY <1>1, <4>1, NoSaveTyped, NoneAssumption DEF None
    <3> QED
      BY <2>2, <2>5, <3>1, <3>2
         DEF Surroundings, ActivateVersion, DeleteEnvironment, DeleteAndKeep
  <2>6. CASE \E d \in Editor : EditRequest(d)
    <3>1. PICK d \in Editor : EditRequest(d)
      BY <2>6
    <3>2. CASE \E t \in Type, moves \in BOOLEAN : UpdateEnvironment(d, t, moves)
      <4>1. PICK t \in Type, moves \in BOOLEAN : UpdateEnvironment(d, t, moves)
        BY <3>2
      <4>2. edit[d].env \in Env
        BY <1>1, <4>1, AllEditsFormed DEF UpdateEnvironment, EditFormed, ConfigInv
      <4>3. save'[r].env = save[r].env
        BY <1>1, <4>1, <4>2, RelocateSets DEF UpdateEnvironment, ConfigInv
      <4> QED
        BY <1>1, <4>3, NoSaveTyped, NoneAssumption DEF None
    <3>3. CASE \/ \E f \in Env : BeginEdit(d, f)
               \/ Reread(d) \/ DeleteServiceConfig(d) \/ EditFails(d)
      BY <2>2, <3>3 DEF BeginEdit, Reread, DeleteServiceConfig, EditFails
    <3> QED
      BY <3>1, <3>2, <3>3 DEF EditRequest
  <2> QED
    BY <1>1, <2>3, <2>4, <2>5, <2>6 DEF Next
<1>2. ConfigInv /\ [Next]_vars => [\A e \in Env, r \in Req : Failed(e, r) => Left(e, r)]_vars
  BY <1>1
<1>3. [][\A e \in Env, r \in Req : Failed(e, r) => Left(e, r)]_vars => FailedSaveRestores
  BY PTL DEF FailedSaveRestores
<1> QED
  BY <1>2, <1>3, ConfigInvariant, PTL DEF Spec

=============================================================================
