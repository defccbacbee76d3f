---------------------------- MODULE ServiceConfig ----------------------------
(***************************************************************************)
(* Configuration of service instances: internal/application/service_configs *)
(* and the transactions and remote writes it makes, with the operations    *)
(* that read and write the same rows and files (install, reset), package   *)
(* uploads, and edits, imports and the deletion of environments.           *)
(*                                                                         *)
(* A configuration is kept in three places: the row of service_configs,    *)
(* the file on the server and, as far as the port goes, the row of the     *)
(* environment.  No lock covers them: one step is one statement or         *)
(* transaction of the store, or one write of the file.  A content stands   *)
(* for the port in it.                                                     *)
(***************************************************************************)
EXTENDS Naturals

CONSTANTS
  Env,           \* environments
  Content,       \* configurations
  Type,          \* service types
  Req,           \* requests that save a configuration, in flight at once
  Editor,        \* requests that edit an environment, in flight at once
  MaxRevisions   \* bound: revisions are numbered 1..MaxRevisions

ASSUME MaxRevisionsAssumption == MaxRevisions \in Nat
ASSUME NoneAssumption == "none" \notin Env \union Content

VARIABLES
  live, installed, \* rows of table environments
  port, type,      \* columns health_port and service_type
  row,             \* table service_configs
  revisions,       \* table service_config_revisions
  nextId,
  template,        \* the configuration in the current package of e
  file, marker,    \* on the server: the file, the port in the installed marker
  save, edit,      \* requests
  task,            \* installs
  disturbed        \* history: see Disturb

environments == <<live, installed, port, type>>
history      == <<revisions, nextId>>
server       == <<file, marker>>
vars == <<environments, row, history, template, server, save, edit, task, disturbed>>

None   == "none"
NoId   == 0
NoRow  == [content |-> None, revision |-> NoId]
NoSave == [pc |-> "idle", env |-> None, content |-> None, from |-> NoId,
           current |-> None, installed |-> FALSE, before |-> None, away |-> FALSE]
NoEdit == [pc |-> "idle", env |-> None, installed |-> FALSE, port |-> None,
           was |-> None, moved |-> FALSE]
NoTask == [pc |-> "idle", content |-> None, inherited |-> FALSE, away |-> FALSE]

Init ==
  /\ live = Env /\ installed = {} /\ disturbed = {}
  /\ port = [e \in Env |-> None] /\ type \in [Env -> Type]
  /\ row = [e \in Env |-> NoRow]
  /\ revisions = {} /\ nextId = 1
  /\ template \in [Env -> Content]
  /\ marker \in [Env -> Content \union {None}] /\ file = marker
  /\ save = [r \in Req |-> NoSave] /\ edit = [d \in Editor |-> NoEdit]
  /\ task = [e \in Env |-> NoTask]

(***************************************************************************)
(* The three places are only kept together while nothing else works on the *)
(* environment and what was begun is ended.  disturbed records, for the    *)
(* properties, where that was not so: one of save, install and reset       *)
(* overlapped another, a write whose outcome is not known failed, an       *)
(* install stopped after it had written to the server or found another one *)
(* there, or an edit or an import wrote a flag or a port that had changed. *)
(* An edit that overlaps other work and writes what is there disturbs      *)
(* nothing.                                                                *)
(***************************************************************************)
Saving(e)     == \E r \in Req : save[r].env = e
InFlight(e)   == task[e] # NoTask \/ Saving(e)
Disturb(e)    == disturbed' = disturbed \union {e}
DisturbIf(e, b) == disturbed' = IF b THEN disturbed \union {e} ELSE disturbed
Enter(e)      == DisturbIf(e, InFlight(e))
Leave(r)      == save' = [save EXCEPT ![r] = NoSave]

\* Where a request or an install writes: in the directory it has read, which an
\* edit may have made the environment leave (away).
Put(e, away, c) == file' = IF away THEN file ELSE [file EXCEPT ![e] = c]

-----------------------------------------------------------------------------
(***************************************************************************)
(* ServiceConfigService: Update, Rollback and save.                        *)
(***************************************************************************)

\* Get: the row, or the template of the current package.
Current(e) == IF row[e] = NoRow THEN template[e] ELSE row[e].content

\* Saving what is already there ends here.
Update(r, e, c) ==
  /\ save[r] = NoSave
  /\ e \in live
  /\ row[e] = NoRow \/ row[e].content # c
  /\ save' = [save EXCEPT ![r] = [NoSave EXCEPT !.pc = "environment", !.env = e,
                                    !.content = c, !.current = Current(e)]]
  /\ Enter(e)
  /\ UNCHANGED <<environments, row, history, template, server, edit, task>>

Rollback(r, e, id) ==
  /\ save[r] = NoSave
  /\ e \in live
  /\ save' = [save EXCEPT ![r] = [NoSave EXCEPT !.pc = "target", !.env = e,
                                    !.from = id, !.current = Current(e)]]
  /\ Enter(e)
  /\ UNCHANGED <<environments, row, history, template, server, edit, task>>

\* GetRevision; the current revision is not rolled back to.  (Mutation:
\* scanConfigRevision leaves the content out, as it does for lists.)
ReadTarget(r, scanned) ==
  LET e == save[r].env IN
  /\ save[r].pc = "target"
  /\ \/ \E v \in scanned :
          /\ v.id = save[r].from /\ v.env = e /\ row[e].revision # v.id
          /\ save' = [save EXCEPT ![r].pc = "environment", ![r].content = v.content, ![r].from = NoId]
     \/ Leave(r)
  /\ UNCHANGED <<environments, row, history, template, server, edit, task, disturbed>>
TargetUnread(r) == ReadTarget(r, {[v EXCEPT !.content = None] : v \in revisions})
Target(r)       == ReadTarget(r, revisions)

\* save reads the environment; a content that does not parse is refused.
ReadEnvironment(r) ==
  LET e == save[r].env IN
  /\ save[r].pc = "environment"
  /\ \/ /\ e \in live
        /\ save' = [save EXCEPT ![r].installed = (e \in installed), ![r].away = FALSE,
                                ![r].pc = IF e \in installed THEN "write" ELSE "commit"]
     \/ Leave(r)
  /\ UNCHANGED <<environments, row, history, template, server, edit, task, disturbed>>

\* Executor.WriteConfig: a temporary file renamed over the old one.  When
\* it fails the rename may have happened all the same.
WriteConfig(r) ==
  LET e == save[r].env IN
  /\ save[r].pc = "write"
  /\ \/ /\ Put(e, save[r].away, save[r].content)
        /\ save' = [save EXCEPT ![r].pc = "commit", ![r].before = file[e]]
        /\ UNCHANGED disturbed
     \/ Leave(r) /\ UNCHANGED <<file, disturbed>>
     \/ /\ Put(e, save[r].away, save[r].content)
        /\ Leave(r) /\ Disturb(e)
  /\ UNCHANGED <<environments, row, history, template, marker, edit, task>>

\* SaveServiceConfigRevision: revision, row and port in one transaction.  The
\* revision also keeps who made it and what it was rolled back to, for display.
Commit(r) ==
  LET e == save[r].env IN
  /\ save[r].pc = "commit"
  /\ e \in live
  /\ nextId \in 1..MaxRevisions
  /\ nextId' = nextId + 1
  /\ revisions' = revisions \union
       {[id |-> nextId, env |-> e, content |-> save[r].content]}
  /\ row' = [row EXCEPT ![e] = [content |-> save[r].content, revision |-> nextId]]
  /\ port' = IF save[r].installed THEN [port EXCEPT ![e] = save[r].content] ELSE port
  /\ Leave(r)
  /\ UNCHANGED <<live, installed, type, template, server, edit, task, disturbed>>

\* The transaction fails: store fault, request abandoned, environment gone.
\* (Mutation: the file is left as it is.)
GiveUp(r) ==
  /\ save[r].pc = "commit"
  /\ Leave(r)
  /\ UNCHANGED <<environments, row, history, template, server, edit, task, disturbed>>
CommitFails(r) ==
  /\ save[r].pc = "commit"
  /\ IF save[r].installed THEN save' = [save EXCEPT ![r].pc = "restore"] ELSE Leave(r)
  /\ UNCHANGED <<environments, row, history, template, server, edit, task, disturbed>>

\* The compensation writes back the content read at the beginning.
Restore(r) ==
  LET e == save[r].env IN
  /\ save[r].pc = "restore"
  /\ \/ Put(e, save[r].away, save[r].current) /\ UNCHANGED disturbed
     \/ UNCHANGED file /\ Disturb(e)
  /\ Leave(r)
  /\ UNCHANGED <<environments, row, history, template, marker, edit, task>>

-----------------------------------------------------------------------------
(***************************************************************************)
(* Manager.run as far as configurations go: install and reset.  The slot   *)
(* of the environment keeps them apart from each other, not from requests. *)
(***************************************************************************)

\* The columns installed and health_port are written together.
Overwrite(e, flag, p) ==
  /\ installed' = IF flag THEN installed \union {e} ELSE installed \ {e}
  /\ port' = [port EXCEPT ![e] = p]

StopTask(e) == task' = [task EXCEPT ![e] = NoTask]

StartInstall(e) ==
  /\ task[e] = NoTask
  /\ e \in live \ installed
  /\ task' = [task EXCEPT ![e].pc = "config"]
  /\ Enter(e)
  /\ UNCHANGED <<environments, row, history, template, server, save, edit>>

\* GetEnvironment, SnapshotForOwner and GetServiceConfig.
ReadConfig(e) ==
  /\ task[e].pc = "config"
  /\ \/ task' = [task EXCEPT ![e] = [pc |-> "install", content |-> Current(e),
                                     inherited |-> row[e] = NoRow, away |-> FALSE]]
     \/ StopTask(e)
  /\ UNCHANGED <<environments, row, history, template, server, save, edit, disturbed>>

\* Executor.Install writes the file and, last, the marker.
Install(e) ==
  /\ task[e].pc = "install"
  /\ task[e].away \/ marker[e] = None
  /\ Put(e, task[e].away, task[e].content)
  /\ \/ /\ marker' = IF task[e].away THEN marker ELSE [marker EXCEPT ![e] = task[e].content]
        /\ task' = [task EXCEPT ![e].pc = IF task[e].inherited THEN "upsert" ELSE "mark"]
     \/ UNCHANGED marker /\ StopTask(e)
  /\ UNCHANGED <<environments, row, history, template, save, edit, disturbed>>

\* The server is not reached, or an earlier step fails: unpacking may have
\* put the file of some package version there.
InstallFails(e) ==
  /\ task[e].pc = "install"
  /\ \E c \in {file[e]} \union {d \in Content : marker[e] = None} : Put(e, task[e].away, c)
  /\ StopTask(e)
  /\ UNCHANGED <<environments, row, history, template, marker, save, edit, disturbed>>

\* The marker of another install is found: its flag and its port are copied,
\* its configuration is not.
SyncInstalled(e) ==
  /\ task[e].pc = "install"
  /\ e \in live
  /\ \E p \in IF task[e].away THEN Content ELSE {marker[e]} \ {None} : Overwrite(e, TRUE, p)
  /\ StopTask(e) /\ Disturb(e)
  /\ UNCHANGED <<live, type, row, history, template, server, save, edit>>

\* The template the service was installed with becomes its configuration.
\* (Mutation: it is read again, after the install.)
Upsert(e, content) ==
  /\ task[e].pc = "upsert"
  /\ e \in live
  /\ row' = [row EXCEPT ![e] = [content |-> content, revision |-> NoId]]
  /\ task' = [task EXCEPT ![e].pc = "mark"]
  /\ UNCHANGED <<environments, history, template, server, save, edit, disturbed>>
UpsertLatest(e)        == Upsert(e, template[e])
UpsertServiceConfig(e) == Upsert(e, task[e].content)

MarkInstalled(e) ==
  /\ task[e].pc = "mark"
  /\ e \in live
  /\ Overwrite(e, TRUE, task[e].content)
  /\ StopTask(e)
  /\ UNCHANGED <<live, type, row, history, template, server, save, edit, disturbed>>

\* Either statement fails: the server is installed, the database is not.
LocalStepFails(e) ==
  /\ task[e].pc \in {"upsert", "mark"}
  /\ StopTask(e) /\ Disturb(e)
  /\ UNCHANGED <<environments, row, history, template, server, save, edit>>

\* A reset, of whatever is there, that goes through on the server, where
\* the file stays, and in the database, or not there.
Reset(e) ==
  /\ task[e] = NoTask
  /\ e \in live
  /\ marker' = [marker EXCEPT ![e] = None]
  /\ Overwrite(e, FALSE, None) \/ UNCHANGED <<installed, port>>
  /\ Enter(e)
  /\ UNCHANGED <<live, type, row, history, template, file, save, edit, task>>

-----------------------------------------------------------------------------
(***************************************************************************)
(* Environments, packages, the process.                                    *)
(***************************************************************************)

\* Another package version becomes current.
ActivateVersion(e, c) ==
  /\ template[e] # c
  /\ template' = [template EXCEPT ![e] = c]
  /\ UNCHANGED <<environments, row, history, server, save, edit, task, disturbed>>

(***************************************************************************)
(* EnvironmentService.Update and Import.  An edit reads the row, and writes *)
(* it back whole later: flag and port as they were, a type and a directory *)
(* that may be others unless the service was installed.  An import writes  *)
(* them from its document, whatever is at work.                            *)
(***************************************************************************)
BeginEdit(d, e) ==
  /\ edit[d] = NoEdit
  /\ e \in live
  /\ edit' = [edit EXCEPT ![d] = [pc |-> "write", env |-> e, installed |-> e \in installed,
                                  port |-> port[e], was |-> type[e], moved |-> FALSE]]
  /\ UNCHANGED <<environments, row, history, template, server, save, task, disturbed>>

\* Flag and port change beside a configuration or a request, or the directory
\* under an install.
Replace(e, flag, p, moves) ==
  /\ Overwrite(e, flag, p)
  /\ DisturbIf(e, \/ /\ flag # (e \in installed) \/ p # port[e]
                     /\ row[e] # NoRow \/ InFlight(e)
                  \/ moves /\ (e \in installed \/ task[e] # NoTask))

\* The directory of the row is another one, which holds whatever it holds.
Relocate(e, moves) ==
  IF moves
  THEN /\ \E f, m \in Content \union {None} :
            file' = [file EXCEPT ![e] = f] /\ marker' = [marker EXCEPT ![e] = m]
       /\ save' = [r \in Req |-> [save[r] EXCEPT !.away = @ \/ (save[r].env = e /\ save[r].installed)]]
       /\ task' = IF task[e].pc = "install" THEN [task EXCEPT ![e].away = TRUE] ELSE task
  ELSE UNCHANGED <<server, save, task>>

\* An edit that read the row before it moved can only move it again.
Displaced(e, moves) ==
  [d \in Editor |-> [edit[d] EXCEPT !.moved = @ \/ (moves /\ edit[d].pc = "write" /\ edit[d].env = e)]]

UpdateEnvironment(d, t, moves) ==
  LET e == edit[d].env IN
  /\ edit[d].pc = "write"
  /\ e \in live
  /\ edit[d].installed => t = edit[d].was /\ (moves => edit[d].moved)
  /\ Replace(e, edit[d].installed, edit[d].port, moves)
  /\ Relocate(e, moves)
  /\ type' = [type EXCEPT ![e] = t]
  /\ \E c \in IF t = type[e] THEN {template[e]} ELSE Content :
       template' = [template EXCEPT ![e] = c]
  /\ edit' = [Displaced(e, moves) EXCEPT
                ![d] = [NoEdit EXCEPT !.pc = "reread", !.env = e, !.was = edit[d].was]]
  /\ UNCHANGED <<live, row, history>>

\* The row is read back after the transaction; when its type is not the one
\* that was read before, the configuration goes, in a statement of its own.
Reread(d) ==
  /\ edit[d].pc = "reread"
  /\ edit' = [edit EXCEPT ![d] = IF type[edit[d].env] # edit[d].was
                                 THEN [NoEdit EXCEPT !.pc = "drop", !.env = edit[d].env]
                                 ELSE NoEdit]
  /\ UNCHANGED <<environments, row, history, template, server, save, task, disturbed>>

DeleteServiceConfig(d) ==
  /\ edit[d].pc = "drop"
  /\ row' = [row EXCEPT ![edit[d].env] = NoRow]
  /\ edit' = [edit EXCEPT ![d] = NoEdit]
  /\ UNCHANGED <<environments, history, template, server, save, task, disturbed>>

\* It is refused, a statement fails, the environment is gone.
EditFails(d) ==
  /\ edit[d] # NoEdit
  /\ edit' = [edit EXCEPT ![d] = NoEdit]
  /\ UNCHANGED <<environments, row, history, template, server, save, task, disturbed>>

UpsertImportedEnvironments(e, flag, p, moves) ==
  /\ e \in live
  /\ flag => p # None
  /\ Replace(e, flag, p, moves)
  /\ Relocate(e, moves)
  /\ edit' = Displaced(e, moves)
  /\ UNCHANGED <<live, type, row, history, template>>

\* Row and revisions go with the environment (ON DELETE CASCADE).  (The
\* mutation keeps the row.)
DeleteAndKeep(e, rows) ==
  /\ e \in live \ installed
  /\ task[e] = NoTask
  /\ live' = live \ {e}
  /\ row' = rows
  /\ revisions' = {v \in revisions : v.env # e}
  /\ UNCHANGED <<installed, port, type, nextId, template, server, save, edit, task, disturbed>>
DeleteRowless(e)     == DeleteAndKeep(e, row)
DeleteEnvironment(e) == DeleteAndKeep(e, [row EXCEPT ![e] = NoRow])

\* The process dies and is started again.
Exposed(e) ==
  \/ task[e].pc \in {"upsert", "mark"}
  \/ \E r \in Req : save[r].env = e /\ save[r].installed /\ save[r].pc # "write"

Crash ==
  /\ \/ \E e \in Env : InFlight(e)
     \/ \E d \in Editor : edit[d] # NoEdit
  /\ save' = [r \in Req |-> NoSave] /\ edit' = [d \in Editor |-> NoEdit]
  /\ task' = [e \in Env |-> NoTask]
  /\ disturbed' = disturbed \union {e \in Env : Exposed(e)}
  /\ UNCHANGED <<environments, row, history, template, server>>

-----------------------------------------------------------------------------
Request(r) ==
  \/ \E e \in Env, c \in Content : Update(r, e, c)
  \/ \E e \in Env, id \in 1..MaxRevisions : Rollback(r, e, id)
  \/ Target(r) \/ ReadEnvironment(r) \/ WriteConfig(r)
  \/ Commit(r) \/ CommitFails(r) \/ Restore(r)

EditRequest(d) ==
  \/ \E e \in Env : BeginEdit(d, e)
  \/ \E t \in Type, moves \in BOOLEAN : UpdateEnvironment(d, t, moves)
  \/ Reread(d) \/ DeleteServiceConfig(d) \/ EditFails(d)

Operation(e) ==
  \/ StartInstall(e) \/ ReadConfig(e) \/ Install(e) \/ InstallFails(e) \/ SyncInstalled(e)
  \/ UpsertServiceConfig(e) \/ MarkInstalled(e) \/ LocalStepFails(e)
  \/ Reset(e)

Surroundings ==
  \/ \E e \in Env, c \in Content : ActivateVersion(e, c)
  \/ \E e \in Env, flag, moves \in BOOLEAN, p \in Content \union {None} :
       UpsertImportedEnvironments(e, flag, p, moves)
  \/ \E e \in Env : DeleteEnvironment(e)
  \/ Crash

Next ==
  \/ \E r \in Req : Request(r)
  \/ \E d \in Editor : EditRequest(d)
  \/ \E e \in Env : Operation(e)
  \/ Surroundings

Spec == Init /\ [][Next]_vars

-----------------------------------------------------------------------------
Id   == 1..MaxRevisions
Save == [pc: {"idle", "target", "environment", "write", "commit", "restore"},
         env: Env \union {None}, content: Content \union {None},
         from: Id \union {NoId}, current: Content \union {None},
         installed: BOOLEAN, before: Content \union {None}, away: BOOLEAN]
Edit == [pc: {"idle", "write", "reread", "drop"}, env: Env \union {None},
         installed: BOOLEAN, port: Content \union {None},
         was: Type \union {None}, moved: BOOLEAN]
Task == [pc: {"idle", "config", "install", "upsert", "mark"},
         content: Content \union {None}, inherited: BOOLEAN, away: BOOLEAN]

\* Every variable has its type (tables environments, service_configs and
\* service_config_revisions, the server, requests and installs).
TypeOK ==
  /\ live \subseteq Env /\ installed \subseteq Env
  /\ disturbed \subseteq Env
  /\ port \in [Env -> Content \union {None}] /\ type \in [Env -> Type]
  /\ row \in [Env -> [content: Content, revision: Id \union {NoId}] \union {NoRow}]
  /\ revisions \subseteq [id: Id, env: Env, content: Content]
  /\ nextId \in 1..(MaxRevisions + 1)
  /\ template \in [Env -> Content]
  /\ file \in [Env -> Content \union {None}]
  /\ marker \in [Env -> Content \union {None}]
  /\ save \in [Req -> Save] /\ edit \in [Editor -> Edit] /\ task \in [Env -> Task]

\* The row shows the revision it names, and rows and revisions end with
\* their environment, whatever saves, installs and edits interleave
\* (docs/architecture.md 6.5: revision and projection in one transaction).
RowShowsRevision ==
  \A e \in Env :
    /\ row[e].revision # NoId =>
         \E v \in revisions : v.id = row[e].revision /\ v.env = e /\ v.content = row[e].content
    /\ e \notin live => row[e] = NoRow /\ \A v \in revisions : v.env # e

Agree(e) == file[e] = row[e].content /\ port[e] = row[e].content

\* Once an installed service is at rest its file, its row and the port that
\* is monitored agree, although commits fail and are compensated, requests
\* are abandoned and packages change under an install (save, run).
ConfigAgrees ==
  \A e \in live \intersect installed :
    row[e] # NoRow /\ ~InFlight(e) /\ e \notin disturbed => Agree(e)

\* A save that fails leaves the server as it found it (save: compensation),
\* where there was a row to read the old content from.
FailedSaveRestores ==
  [][\A e \in Env, r \in Req :
       /\ save[r].env = e /\ save[r].installed /\ save'[r] = NoSave
       /\ revisions' = revisions
       /\ row[e] # NoRow /\ e \notin disturbed'
       => file'[e] = IF save[r].pc \in {"commit", "restore"} THEN save[r].before ELSE file[e]]_vars

-----------------------------------------------------------------------------
(***************************************************************************)
(* The inductive invariant (the proofs are in ServiceConfig_proofs).       *)
(***************************************************************************)

\* A request that has read the environment, and one that has written the file.
Reached(r) == save[r].pc \in {"write", "commit", "restore"}
Written(r) == save[r].pc \in {"commit", "restore"} /\ save[r].installed

RequestsTyped ==
  /\ \A d \in Editor :
       /\ edit[d].pc = "idle" => edit[d] = NoEdit
       /\ edit[d].pc # "idle" => edit[d].env \in Env
  /\ \A r \in Req :
       /\ save[r].pc = "idle" => save[r] = NoSave
       /\ save[r].pc # "idle" => save[r].env \in Env
       /\ save[r].installed => Reached(r)
       /\ save[r].pc \in {"write", "restore"} => save[r].installed
       /\ save[r].pc \in {"environment", "write", "commit", "restore"} => save[r].content \in Content
  /\ \A e \in Env :
       /\ task[e].pc = "idle" => task[e] = NoTask
       /\ task[e].pc \in {"install", "upsert", "mark"} => task[e].content \in Content

\* Nothing works on the environment beside one request or one install.
Alone(e) ==
  /\ Saving(e) => task[e] = NoTask
  /\ \A r, s \in Req : save[r].env = e /\ save[s].env = e => r = s

\* What the request in flight knows, and what it has done so far.
SaveKnows(e) ==
  \A r \in Req : save[r].env = e =>
    /\ Reached(r) => save[r].installed = (e \in installed)
    /\ save[r].installed => ~save[r].away
    /\ row[e] # NoRow => save[r].current = row[e].content
    /\ Written(r) =>
         /\ file[e] = save[r].content
         /\ row[e] # NoRow => save[r].before = row[e].content /\ port[e] = row[e].content

\* What the install in flight knows, and what it has done so far.
TaskKnows(e) ==
  task[e] # NoTask =>
    /\ e \notin installed
    /\ ~task[e].away
    /\ task[e].pc \in {"upsert", "mark"} => file[e] = task[e].content
    /\ \/ task[e].pc = "mark"
       \/ task[e].pc \in {"install", "upsert"} /\ ~task[e].inherited
       => row[e] = NoRow \/ row[e].content = task[e].content
    /\ task[e].pc = "upsert" => task[e].inherited

AtRest(e) ==
  e \in installed /\ row[e] # NoRow /\ (\A r \in Req : save[r].env = e => ~Written(r)) => Agree(e)

KeptTogether(e) ==
  e \notin disturbed => Alone(e) /\ SaveKnows(e) /\ TaskKnows(e) /\ AtRest(e)

NumbersKnown == \A v \in revisions : v.id < nextId

ConfigInv ==
  /\ TypeOK /\ RequestsTyped /\ RowShowsRevision /\ NumbersKnown
  /\ \A e \in live : KeptTogether(e)
=============================================================================
