# DeploymentPlatform: specification and verification

DeploymentPlatform (DP) is a Go service that installs, starts, stops and resets
packaged services on servers it reaches over SSH. It keeps environments,
packages, configurations, operations, accounts, notifications and an audit
trail in one SQLite database and watches the services it has installed. This
directory holds TLA+ models of it, the TLC runs that check them and proofs of
what matters most in each.

    tlc -workers 2 -config Operations.cfg MCOperationManager.tla
    tlapm OperationManager_proofs.tla
    tlapm PackageLibrary_proofs.tla
    tlapm Accounts_proofs.tla
    tlapm Communications_proofs.tla
    tlapm HealthMonitor_proofs.tla
    tlapm ServiceConfig_proofs.tla
    tlapm EventLog_proofs.tla
    tlapm ResourceTags_proofs.tla

## 1. Inventory

| Part | State it keeps | Operations | Talks to | What is hard | What makes it correct |
|---|---|---|---|---|---|
| operation manager `internal/operation` | `Manager.active`, goroutines, the JSONL event files | start, run, finishLogged, release, Wait | store, remote executor, audit, packages | many handlers and goroutines, remote effects that outlive the step that made them, a crash at any step | one run per environment; an open row has somebody who will close it; an end is final; drift between database and server can be seen in the history |
| environments and operations tables `internal/store/store.go` | rows | CreateOperation, UpdateOperation, MarkInstalled, MarkUninstalled, InterruptActiveOperations, DeleteEnvironment | everybody | what is read in one transaction is used in another | ownership and the installed flag are not undone by a writer that read earlier |
| remote executor `internal/remote` | markers, files and the service on a server | Install, RunScript, ResetInstallation, WriteConfig, Validate | SSH | half-done effects, servers that do not answer | a repeated install is safe; a reset leaves a directory that can be installed again |
| process lifecycle `cmd/dp/main.go` | root context, HTTP server | signal, ten second Shutdown, Wait, exit; restart | all | handlers that outlive the limit, a crash | accepted operations end on record before an orderly exit |
| health monitor `internal/health` and `store/notifications.go` | results, failures, alerted, healthy; rows of notifications | checkAll, CheckNow, recordResult, prune | store, services | writes made outside the lock that decided them; in-memory counters beside durable alerts | one open alert per outage, no false one, none left over |
| service configuration `internal/application/service_configs.go` | service_configs, service_config_revisions, the remote file, health_port | Update, Rollback, save, and the install that upserts | remote executor, packages | three copies, no lock, compensation | row, file and port agree; a failed save leaves no trace |
| package library `internal/archive`, `store/package_versions.go` | archive files, package_versions, packages | UploadVersion, Activate, Delete, prune, Transfer, Snapshot | store, file system, installs | files and rows in two systems; a snapshot that outlives the lock | the current version exists as a file; nothing that is needed is pruned |
| accounts `application/auth.go`, `store/auth.go`, `store/admin.go` | users, sessions, login_throttles | Login, ChangePassword, UpdateEnabled, DeleteUser, TransferResources | all | handlers that act on the account as they read it; a disable in two statements; a throttle read before and written after bcrypt | a disabled account's sessions stay dead; there is always an administrator; resources never lose their owner; guesses are bounded |
| communications and notifications `store/communications.go`, `application/communications.go` | conversations, messages, read marks | Create, Send, ChangeState, MarkRead | realtime hub | publish after commit, unread counters beside concurrent sends | unread counts what was not read; a closed conversation takes no message |
| realtime hub `internal/realtime` | subscriptions, buffers | Subscribe, Publish, Close | HTTP | slow readers, close beside publish | no send on a closed channel, publish never blocks |
| operation event log and SSE `operation/manager.go`, `httpapi/api.go`, `OperationModal.tsx` | JSONL file, poll position, what a tab shows | Write, ReadEvents, operationEvents, receive | clients, retention | the stream ends by polling two sources; lines are refused, torn or too long; connections break | a client that stays is shown the lines without a gap and learns the end |
| audit `internal/audit` | audit_events, cleanup schedule | Record, CompleteOperation, cleanup | store, notifications | best-effort events, retention beside running operations | a completed event follows a requested one; open operations are not purged |
| environment management `application/environments.go` | environments, tags | Create, Update, Import, Validate, Delete | store, manager, SSH | read, edit, write back the whole row | an edit does not undo an operation |
| resource tags `store/tags.go`, migration 010 | tags, links | create, rename, delete, replace, import, transfer | store | an edit that is validated against one owner and written under another | a tag and its environment have one owner; names are never merged and are kept by a transfer |

The store opens SQLite with one connection, so a transaction (or a statement
outside one) is atomic and they are serialised. A mutex is held for a few lines
only. The hazards of this code are therefore between a transaction, a critical
section and a remote effect, and that is the grain of every model here: **one
step is one transaction, one critical section or one remote effect**. Every
hazard is listed with its line and the properties aimed at it in
`PROJECT.json`.

## 2. Plan

The order was the order of importance: `OperationLedger` (what the manager
promises) and `OperationManager` (the core, which everything else surrounds),
`HealthMonitor`, `ServiceConfig`, `PackageLibrary`, `Accounts`, `RealtimeHub`
composed into `Communications`, `EventLog` with its abstract `EventFeed`, and
`ResourceTags`, with import and transfer, with its abstract `TagCatalogue`. All
are written, and each component with state has its proofs.

What is left, in order of what it would add:

1. `PackageLibrary` as an abstract register, one package per account that is
   readable whenever it is there, and the refinement.
2. The tag names an operation takes with it (`operation_tags`): a history that
   neither renaming nor transfer changes.

## 3. Modules

### OperationLedger
The abstract specification. Each environment has a slot; an operation is
accepted, begun and ended only while it holds one; status moves forward only; a
process that dies leaves nothing open once it is back. `lost` collects the
operations whose final write was refused, which the code only logs.

### OperationManager
`req[r]` is an HTTP handler, `run[o]` the goroutine of `Manager.run` for
operation `o`; `pc` names the next step. `env` and `status` are the tables,
`active` is `Manager.active`, `remote[d]` what an install directory holds.

| Model | Code |
|---|---|
| BeginStart, Conflict, Claim, CreateOperation, RefuseStart, Launch | handler startAction and `Manager.start`: check, `mu`, INSERT with the owner re-read, `release` on failure, requested event, `go run` |
| Prepare, Load | event log, status running, GetEnvironment, Decrypt |
| Package, Connect, Sync, Work, Script, Marker, Mark | install: snapshot, markers, upload and extraction, install.sh, installed marker, MarkInstalled |
| Command | start, stop |
| History, Reset, Unmark, Remark, Clear | reset: LastSuccessfulAction, stop.sh, the two markers, MarkUninstalled |
| Finish, CompleteOperation, Release | finishLogged, the completed event, `release` |
| BeginDelete, Busy, DeleteEnvironment | deletion in its three separate steps |
| BeginEdit, UpdateEnvironment | EnvironmentService.Update: the row as read, written back whole |
| TransferResources, DeleteTerminalOperationsBefore | account administration, retention |
| Signal, Drained, Exit, Crash, Restart | SIGTERM, Shutdown and its limit, Wait, exit, death, store.Open |

A remote step that fails leaves any of the effects it may have had. Timeouts,
faults and cancellation are kinds of error, classified as `classifyError` does.
A write whose error the manager ignores may fail when `StoreMayFail`.

### OperationProperties, MCOperationManager, OperationManager_proofs
The properties and the two inductive invariants, `SlotInv` of slots and rows and
`EffectInv` of what operations do to servers; the model values for TLC; the
proofs.

### HealthMonitor, HealthMonitor_proofs
`results`, `failures`, `alerted` and `healthy` are the maps of `Monitor`;
`open[e]` counts the unresolved notifications with the key of `e`. A job is a
worker of `checkAll` or a `CheckNow`: it probes, records under the lock, and
only then writes. `disturbed` is a history variable: environments that people
checked or resolved by hand, or one of whose notification writes failed. The
code makes no promise for these, and the properties say so by name instead of
leaving the behaviour out of the model.

### ServiceConfig, MCServiceConfig, ServiceConfig_proofs
A content stands for the port in it. `row`, `revisions`, `port` and `type` are
the tables, `file` and `marker` are in the directory the environment names,
`template` is the configuration in the current package. `save[r]` is a request
between two of its steps, `edit[d]` an edit of an environment, `task[e]` an
install. A revision is its content: its author and the revision it was restored
from are shown and never decide anything.

| Model | Code |
|---|---|
| Update, Rollback, Target, ReadEnvironment, WriteConfig, Commit, CommitFails, Restore | ServiceConfigService: Update, Rollback, save |
| StartInstall, ReadConfig, Install, InstallFails, SyncInstalled, UpsertServiceConfig, MarkInstalled, LocalStepFails, Reset | Manager.run |
| BeginEdit, UpdateEnvironment, Reread, DeleteServiceConfig, EditFails | EnvironmentService.Update: read, write the whole row back, read it again, drop the configuration when the type is another one |
| UpsertImportedEnvironments | Import, for an environment that is there |

An edit writes back flag and port as it read them, whatever was installed or
saved since, and an import writes those of its document (`Replace`). Either may
give the environment another directory (`Relocate`), which holds whatever it
holds; a request or an install that has read the old one goes on there (`away`),
and what is left behind is not followed. A port counts beside its flag only.
`disturbed` is a history variable, the environments about whose file and port
nothing is claimed any more: one of save, install and reset overlapped another,
a write failed with an outcome nobody knows, an install stopped half way or
found a marker, or an edit or an import changed flag or port beside a
configuration or a request. So a rename that read the row before a save
committed, and writes the old port back after it, is a behaviour of the model,
and `ConfigAgrees` leaves it out by name; a rename that changes nothing, and a
change of type that drops the row under a save or an install, are left in.

MCServiceConfig declares the symmetry, contents, types and requests are
interchangeable and only safety is checked, and a bound, `Followed`: once
disturbed, an environment is followed on only while saves overlap on it that was
never installed, since nothing but rows and revisions is claimed there.

### PackageLibrary, MCPackageLibrary, PackageLibrary_proofs
One service type. `current` and `versions` are the tables; a version's file is
in place (`file`) or renamed to `.deleting` (`trash`). All writers hold
`Manager.mu`, so the state of a writer is that of the lock: `lock.pc` is its
next file operation, statement or transaction, and installs and the process
interleave with it. `snapshot[e]` is the copy an install works from,
`used[e]` the digest the environment refers to. Two history variables name what
the code leaves open: `torn`, versions whose file operations a crash or a failed
removal cut short, and `raced`, environments that were installing when
something of their account was deleted: installs do not take the lock, so a
deletion cannot see them. Environments whose digest comes from a marker, or
from an edit or an import (`RewriteRow`), which write the whole row and may
name a version that was deleted meanwhile, are `raced` as well. MCPackageLibrary declares the symmetry.

### Accounts, MCAccounts, Accounts_proofs
`users`, `enabled`, `temporary`, `session` and `throttle` are the rows and
columns; `owns` are the accounts with an environment or a package. `req[r]` is
a handler: a login (`Login`, `Verify`, `RecordLoginFailure` or
`ClearLoginThrottle`, `CreateSession`), or what follows `Authenticate`, which
stands for authMiddleware, requireAdmin and the questions whose answer cannot
change (role, initial administrator, one's own account). From then on the
handler works with what it has read, and who calls is forgotten once no later
step asks. `Disable` has the two statements of
UpdateEnabled, `CountBusiness` and `Erase` are those of DeleteUser. `Abandon`
ends a handler between any two of its statements.

A password is right or wrong, nothing more; roles never change; the row of an
expired session is treated as gone, because every reader compares `expires_at`.
The throttle counts up to the limit, and how long it blocks is left to time
(`Unblock`). `outdated` and `cut` are history variables: the sessions an account
had when it was disabled, and the accounts whose disabling was cut short
between its statements; those keep their sessions, which are usable once the
account is enabled again, and the property says so by name. `guesses` counts the
failures since a key was free.

### RealtimeHub, Communications, Communications_proofs
`RealtimeHub` has the hub (`subscribed`, `events`, `closed`) and the goroutine
of each stream (`stage`), and no specification of its own: `Communications`
extends it and joins its steps with those of the rest.

| Model | Code |
|---|---|
| Connect, Subscribe, SendSync | authMiddleware, Hub.Subscribe, the event sync |
| Forward, Leave, Done, Heartbeat | the cases of the select in realtimeEvents, failed writes |
| Close, Publish | Subscription.Close with unsubscribe, Hub.Publish |
| CreateCommunication, MarkCommunicationRead, SendCommunicationMessage, ChangeCommunicationState | the transactions of the store; whoever sees the difference becomes `stale` |
| ListUsers, PublishEvent, Untold | publish, or the reading before it that fails |
| Sync, CommunicationChanged, Synchronize | the listeners of RealtimeEvents: the queries of the thread are invalidated; the 30 second poll |
| Select, GetCommunication, Show, ReadFails | a query that was not read before is opened; a reading is answered, shown, or fails |

One thread is modelled: threads share the hub and nothing else, and an event
makes a tab read whatever it shows of the thread. `unread` are the recipients
whose `read_at` is NULL. A request acts with what authMiddleware read, so who
calls is any account with the role, enabled or not. `stale[c]` says that the tab
shows less than was committed; a reading that was answered before a commit is
"old", and showing it leaves the tab stale.

What invalidating does is the library's (`@tanstack/react-query` 5.101.4). A
query that shows something (`loaded`) drops the reading that is under way and
begins another. The first reading of a query goes on instead, and its answer
counts as valid when it arrives: `Spent` is this case, and it is `Late` when the
answer was given before the commit. The event is then used up, the tab shows the
old answer and nothing is under way until the next poll.

`lost[c]` is a history variable of three losses: a commit that was published to
too few, because the row could not be read back or the accounts could not be
listed, which happens when the caller goes away, since both use the context of
the request; an event or a sync that came `Late`; a reading that failed. For
these the 30 second poll is all there is, and the property says so by name.

### EventLog, EventFeed, EventLog_proofs
One operation, its row, its file and the tabs that show it. An event is its
number. `writer` is the next step of `Manager.run` as far as row and log go,
`stage[v]` the next step of `operationEvents` for tab `v`, with its locals
`lastID`, `got` and `quiet` (terminalEmptyPolls).

| Model | Code |
|---|---|
| OpenLog, Begin, WriteBegun, SetStage, Emit, Outcome | newEventLogger, UpdateOperation, stage, emit |
| Finish, WriteFinal | finish (the row), then finishLogged (the event) |
| Write | eventLogger.Write: the number is used up even when the line is refused, torn, or longer than a reader accepts |
| Connect, ReadEvents, ReadFails, ReadRow, Tick | operationEvents with ReadEvents and Get |
| Refused | an answer other than 200, after which EventSource does not come back |
| OpenDialog, CloseDialog, Receive, Poll | OperationModal: EventSource, receive, the refetching query |
| Break | a connection is lost, with what was on its way |
| DeleteTerminalOperationsBefore, RemoveLog | retention: row, then file |
| Crash, Restart | death; InterruptActiveOperations ends the row |

`EventFeed` is the promise: a feed that grows, and viewers who see it in order,
without a gap, from the start. `FeedSpec` says that file and tabs implement it.

### ResourceTags, TagCatalogue, MCResourceTags, ResourceTags_proofs
Rows of environments (owner, place), rows of tags (owner, name, deleted or not)
and links. `req[r]` is an edit between the transaction that read its
environment and the one that writes. A name is a group and a value without
case, a place an address and a service type; identifiers are given out once
(`used`). Unique indexes, foreign keys and the trigger of migration 010 appear
as guards. `Import` and `TransferResources` choose for each name the tag the
account has, or make one (`Resolve`). `TagCatalogue` is the promise in terms of
names: an account has a set of them, an environment wears some; identifiers and
soft deletion are gone. MCResourceTags declares the symmetry.

## 4. Runs

| Run | Bounds | Shows |
|---|---|---|
| operations | one environment in an empty or an installed directory, one account, two handlers, two operations, crash and restart | one run per environment, drift on record, clean exit, ends are final, success is real, refinement of the ledger |
| operation_faults | one environment in a directory that is empty, installed or holds foreign files, two accounts, one handler, one operation, ignored writes that fail, edits, crash and restart | open rows hold slots, owner stability, the completed event follows the end, whoever holds a slot gives it back (liveness) |
| health | one environment, one worker, two overlapping manual checks, one restart, failing writes | one alert, no false alarm, the alert follows the service, deleted environments are forgotten |
| config | one environment, two contents, two types, two requests that save, one that edits, two revisions; disturbed states as far as `Followed` | the row shows its revision; file, row and port agree; a failed save restores |
| packages | two accounts, one environment, four contents of two kinds, three versions, retention two | the current version is readable, no row loses its file, at rest nothing is left over, referenced and new versions are kept, the kind of configuration stays |
| accounts | two administrators, who may both be there from the start or not, two tokens, two handlers, one address, wrong passwords for one name, a limit of one | an administrator remains, nothing is orphaned, sessions from before a disabling are useless, guesses are bounded by the limit and the requests in parallel |
| communications | one administrator, one user, one tab of either, one handler, a thread of three messages, a buffer of one, the administrator disabled and enabled | done is closed once, the thread is legal, a reply has read all before it, no connected tab is stale with nothing under way, streams end with their sessions (liveness) |
| reset_stops_service | | a reset after install, stop and a start that failed leaves the service running: the history knows only successes |
| delete_only_idle | | an operation is claimed between the checks and the DELETE |
| edit_moves_installed | | an edit writes back the row it read and undoes an install that ended meanwhile |
| event_log | one tab, three lines before the final one, two broken connections, one restart; files, rows and lines that fail, lines that are too long | a stream that returns has missed the final line at most; a tab that was told the end finds it in the row; a listed operation has its log; refinement of the feed; who stays learns the end (liveness) |
| tags | two accounts, two environments, three tags, two names, two places, one edit under way | links join what belongs to one account; refinement of the catalogue |

`reset_stops_service`, `delete_only_idle` and `edit_moves_installed` are
expected violations: each checks one sentence of the documentation or of a
comment that the code does not keep, quoted in `PROJECT.json` under `findings`.
More such sentences were met and have no run of their own:

- docs/architecture.md:877 has saves of one service type exclude each other by
  a write lock, and `save` takes none. The model lets them interleave, and
  `ConfigAgrees` leaves what two overlapping saves made of file and row out by
  name.
- docs/architecture.md:946 has a reset stop whatever still runs. Beside the
  history, an error of Stat on stop.sh, of any kind, skips the script
  (remote/executor.go:312). `Reset` has both, and `reset_stops_service` asks
  about the history only.
- docs/architecture.md:705-707 has `sync` and the events refresh what the
  browser shows. An invalidation that meets the first reading of a query is
  ignored by the library; `lost` names it in `StaleIsAnnounced`.
- docs/architecture.md:960 limits connecting by TCP and SSH to ten seconds; the
  handshake has no deadline. `Silent = TRUE` in `OperationManager` is a server
  that accepts and does not answer: the operation then holds its slot until
  somebody stops the process.
- docs/architecture.md:993 has a recovery resolve the alert. The write is made
  outside the lock, so the resolve of a manual check can overtake the create of
  the sweep and leave the alert open over a healthy service; environments
  checked by hand are `disturbed` in `HealthMonitor` and named in its
  properties.
- docs/architecture.md:1031 has a restart write an explanatory event for each
  operation it interrupts; `InterruptActiveOperations` updates rows only. In
  `EventLog` the file of such an operation ends without a final line, and a tab
  learns the end from its poll of the row.
- docs/architecture.md:1027-1029 has subscribers who are first served from the
  file and then live. There are none: `operationEvents` polls file and row.
  What the sentences are for, resuming without a gap, is `FeedSpec`.

Why the bounds are enough. Environments interact only through a shared install
directory and through the account that owns them; slots, alerts, rows and files
are per environment. One environment with two handlers gives every
interleaving of two requests, and two operations in a row give an operation
that meets what another one left. Writes that fail, edits and a transfer to a
second account need no second operation, and have a run of their own. The runs
are small because every safety property they check is a theorem for any number
of environments, accounts, directories, handlers and operations; what they have
to show beyond that is that the hazards occur, which the mutants of the model
confirm, and that nothing is stuck.
Two saves and two contents give the lost update and the compensation over a
commit; two revisions give a rollback; one edit holds an old row over a save, an
install, a reset or an import. Three versions of one kind are what a
retention of two needs to prune one, and the content of the other kind gives the
incompatible upload. Two administrators and two handlers disable and delete
each other at once; with a limit of one the second of two logins in flight
guesses past the limit, and two tokens give one account an old and a new
session. One message in a
buffer of one makes the next one overflow; three messages are a closing or a
reply between two others; one handler follows another, and a second one at the
same time adds commits the tab has yet to hear of, of which one is enough to
outdate it. Three lines and the final one let a torn line lie
between two others, and a stream stop before, within and after them; two broken
connections separate three streams of one tab. Two names, two places and two
environments give a transfer that finds one name with the receiver and not the
other, and three tags are one account with both names and another with one;
identifiers run out after that, which is why this run does not look for
deadlock. Tabs do not see one another, so one is enough, and it
is the administrator's or the user's from the start. One restart is enough for in-memory
state to be lost once while durable state stays. `MaxOps`, `MaxRevisions`,
`MaxVersions`,
`MaxMessages`, `MaxEvents`, `MaxBreaks` and `MaxRestarts` are the only bounds on counters and appear in
guards; `Guessed` bounds the names that are tried with a wrong password,
`Switched` the accounts that are disabled and enabled again.

`Edited = FALSE` in `operations`: an edit can undo an install, which
`edit_moves_installed` shows and which would make the two properties about
agreement between database and server fail for a known reason;
`operation_faults` has `Edited = TRUE`. The theorems about these two properties
have `~Edited` as a hypothesis; all others hold for both.

## 5. Fairness

Liveness is checked under weak fairness of what the Go scheduler and the code's
timeouts justify: a goroutine's next step; the steps of a handler that has
taken a slot; in the monitor the ticker, the workers and a job (a probe has
three seconds, a write two). Nothing obliges a user to send a request, an
operator to restart the service, or a server to answer: while `Silent` and
connecting, a goroutine has no fairness, because the SSH handshake has no
deadline. `operation_faults` sets Silent to FALSE.

In `communications` the goroutine of a stream goes on (`Proceed`): it subscribes,
sends its first event, looks at `done`, at each tick of its heartbeat at its
session, and returns. The server has no WriteTimeout; that a write to a client that never
reads ends at last is left to the network. Nothing obliges a browser to connect
or read, or a handler to publish.

In `event_log` the goroutine of the operation, the handler of a stream and the
browser of whoever watches go on: EventSource reconnects, events that have
arrived are handled, the query refetches each second. No fairness makes anybody
open the dialog or keep it open, the process restart, or the retention run, and
the property excepts who leaves, a row that is gone and a process that is down.
That the query is answered assumes a session that lasts and a store that reads.
A line longer than two megabytes (manager.go:353) ends every stream that reads
it; output is cut into lines of one megabyte at most, but escaped as JSON it can
be that long. `Told` says so by name, as it does of a stream that was refused,
and the poll of the row remains.

## 6. Proofs

`OperationManager_proofs` proves for every value of the constants that satisfies
the assumptions named in `OperationManager` (bounds are naturals, flags are
Booleans, `Found` is a set of directory contents), whether or not writes fail,
servers are silent and, except where it says so, rows are edited:

| Theorem | Establishes |
|---|---|
| TypeCorrect | `Spec => []TypeOK` |
| NoTwoRuns | one goroutine per environment |
| OpenRowsHoldSlots | an open row belongs to the holder of its environment |
| OwnersAreStable | an open operation's account still owns the environment |
| AuditIsOrdered | a completed event follows a requested one and the end |
| ExitIsClean | an orderly exit leaves no open row but those the store refused |
| EndsAreFinal | an ended row is not changed again |
| ImplementsLedger | OperationManager implements OperationLedger |
| EffectHolds | `EffectInv` is an invariant, if no row is edited |
| DriftIsOnRecord | if no row is edited: when database and server disagree, the newest install or reset did not succeed |
| SuccessesAreReal | if no row is edited: what is written as succeeded is there, on the server and in the database |

None of these is inductive alone. `SlotInv` (in OperationProperties) adds what
they rest on: a handler between claim and launch, or a goroutine, *holds* the
slot of its environment, two handlers never hold one identifier, identifiers in
use are below `nextId`, and every open row is served by a goroutine that has
not ended it or a handler about to launch one. From "the slot names me" it
follows that two goroutines of one environment are the same one. Most steps of
a goroutine touch neither slots nor ends; the predicate `Progress` says so, one
lemma per action shows that it is a `Progress` step, and one lemma shows that
such a step keeps the invariant. The remaining actions have a lemma each. The
refinement maps each action to a ledger step or a stutter, `Exit` and `Crash` to
`Die`.

The last three need to know what operations do to servers. `EffectInv` says
where a goroutine works (`WorksThere`: its step belongs to its action, and its
directory is that of its environment), which markers it has left in a directory
no other environment shares (`EffectKnown`: at "mark" of an install, at
"remark" and "clear" of a reset, and once it is about to finish with success),
and that the holder of a slot is the newest operation of its environment
(`HolderIsNewest`): otherwise an older install that ends late would decide what
the record says. A step of a goroutine whose environment is another one leaves
the directory alone, because nobody shares it and the goroutine works in its
own; another goroutine of the same environment is not there, by `SlotInv`. What
is left is one lemma per step of an install or a reset. Edits are left out
because an edit does move an environment under a running operation and undoes
an install, which `edit_moves_installed` shows.

`PackageLibrary_proofs` does the same for the package library (assumptions:
`Yaml` is a set of contents, the retention is positive, the bound on versions
is a natural):

| Theorem | Establishes |
|---|---|
| TypeCorrect | `Spec => []TypeOK` |
| CurrentIsReadable | a package's current version has a row of its owner and a file in place |
| NoFileIsLost | the file of a row is in place or set aside |
| ReferencesAreKept | what an environment was installed from stays, unless deleted behind an install or rewritten from elsewhere |
| RestsTidily | at rest files are those of rows, nothing is set aside, but for what was cut short |
| PruningKeepsNewest | an upload prunes none of the newest versions, as many as are retained |
| KindStays | the kind of a package's configuration never changes while it exists |

The first three follow from `LibraryInv`. It adds that numbers of rows are
unique and below `nextId` and, in `WriterKnows`, what the holder of the lock
knows of the version in its hands: the row to save has its file, a version set
aside is current for nobody, the files that are removed belong to no row. One
lemma per action keeps it. The fourth needs `ReferencesInv` next to it: an
environment that is installed, or is being installed, refers to a row of its
account, unless something of the account was deleted meanwhile or the digest was
written by another than its install, and a version or package about to be
deleted is referred to by none. Most steps are `Harmless`: they remove no row
and prepare no removal. The fifth adds
`Leftovers`: a file without a row is that of the upload at work or on the list of
a package being removed, a file set aside that of the version being deleted, and
when the writer lets go of either it is back, gone, or in `torn`. The sixth, an
action property, adds `PruningSpares`. Pruning makes its list once and deletes
one version after the other without counting again, while what it compares with
shrinks; what stays as it is are the versions *newer than all that are left to
delete* (`Spared`), and there are as many as are retained: the newest listed one
was listed because of them, and none of them is listed. That the list has a
newest one needs that rows are finitely many, which follows from their numbers
being below `nextId`. The last one, an action property, adds `KindKnown`: between the comparison of an upload with
the current version and its transaction nobody else writes, so the comparison
still holds.

`Accounts_proofs` (assumptions: the initial administrator is one, names are not
addresses, the limit is positive, the handlers are finitely many):

| Theorem | Establishes |
|---|---|
| TypeCorrect | `Spec => []TypeOK` |
| AdministratorStays | an enabled administrator is there |
| NothingIsOrphaned | sessions and resources belong to accounts that are there |
| OutdatedStaysUseless | sessions from before a disabling stay useless |
| GuessesAreBounded | of a name or an address less than the limit plus one per handler are guessed between two free periods |

The first four follow from `AccountsInv`: no request that is about to disable or delete
names the initial administrator (that is why two administrators cannot remove
each other to the last), and an outdated session's account is one that a
request has yet to cut off, or never will. The second part is stronger than the
property, which asks only about sessions of accounts that are enabled: an
account can be enabled again at any time.

The last one rests on `ThrottleCounts`. While a key is free, less
than the limit have been guessed since it was free before, and no more than the
row has counted. Once it is
blocked no login gets past the question any more, but those that were already
past it (`InFlight`) have a guess each: guesses and requests in flight together
stay below the limit plus the number of handlers. It is strictly below because the request that
blocked the key is over. Each failure moves one request out of flight and adds
one guess, so the sum never grows.

`Communications_proofs` (assumptions: the buffer holds something, the
administrators and the user of the thread are accounts, he is none of them):

| Theorem | Establishes |
|---|---|
| TypeCorrect | `Spec => []TypeOK` |
| NeverClosedTwice | a subscription's `done` is closed once |
| TimelineIsLegal | after a closing comes a reopening |
| RepliesRead | a reply has read all before it |
| StaleTabsAreTold | a connected tab that is stale is about to be told |

`CommunicationsInv` is their conjunction with one addition: a usable session
belongs to an enabled account. ListUsers runs after the commit and finds only
those who are enabled by then; an administrator who was disabled in between has
no session left, so his tab need not be told, and a new one begins with a sync.
What an invalidation does is a lemma of its own (`Asked`): afterwards the tab has
a reading that sees everything, or the one it has was answered before and the
event was `Late`.
The proof takes the invariant in three parts, hub, thread and tabs, because most
steps change one of them.

`HealthMonitor_proofs` (assumptions: workers are not manual checks, the bound on
restarts is a natural):

| Theorem | Establishes |
|---|---|
| MonitorInvariant | types, and which job belongs to which sweep |
| OneAlertPerOutage | an environment has at most one open alert |
| NoneIsFalse | a service that never stops answering and is left alone by people is never reported |

The last one rests on `OneShutdown`, kept as long as the service answers: a
sweep lists an environment once, so one job at most checks it; only the
cancellation of the root context fails its probe; no sweep begins after that, so
this happens once; and the threshold is three. It holds for any number of
workers and restarts, which forget the count.

`ServiceConfig_proofs`:

| Theorem | Establishes |
|---|---|
| ConfigInvariant | the inductive invariant `ConfigInv` |
| TypeCorrect | `Spec => []TypeOK` |
| RowsShowRevisions | the row shows the revision it names |
| ConfigStaysTogether | file, row and port of an installed service at rest agree |
| FailureIsCompensated | a save that fails leaves the file as it found it |

`ConfigInv` says of every environment what its requests are like and that the
numbers of revisions are those given out (`NumbersKnown`), and of one nothing
has disturbed: one save or one install is at work on it (`Alone`); the save
knows the flag and the old content, writes where the environment is, and what it
has written is in the file (`SaveKnows`); an install that has written has put
its content there, and the row shows that content or has been dropped
(`TaskKnows`); and when no write is pending file, row and port agree (`AtRest`).
Most actions concern one environment: the lemma `Settled` shows that what the
others have together stays together. Edits and imports meet in `ReplaceConfig`:
a row written back changes nothing, or there is no configuration and nobody at
work, or the environment is disturbed. The theorems hold for any number of
environments, contents, types, requests, edits and revisions, and need no bound
like `Followed`.

`EventLog_proofs` (assumptions: bounds are naturals, flags Booleans):

| Theorem | Establishes |
|---|---|
| LogInvariant | the inductive invariant `LogInv` |
| ReturnsInTime | a stream that returned has sent everything but the final line at most |
| DoneIsRecorded | a tab that was told the end finds it in the row, or the store refused it |
| HistoryIsReadable | a listed operation has its log |
| ImplementsFeed | EventLog implements EventFeed |

`LogInv` orders row, file and goroutine (`WriterInv`: once
the row has ended the goroutine writes nothing but the final line, and that
line follows the row's end or its refusal), divides the readable
lines into those shown, on their way and after `lastID` (`Prefix`), and says
what an empty poll means (`Quiet`): the file is read *before* the row, so one
empty poll of an ended operation proves nothing about lines written in between,
a second one that follows it does. The refinement reads a line that gets into
the file as a publication, and an event that arrives as the next one the viewer
lacks.

`ResourceTags_proofs` (assumption: none is neither an account, a name nor a
place):

| Theorem | Establishes |
|---|---|
| TagsInvariant | types, agreement, distinct names, unused identifiers |
| LinksAlwaysAgree | a link joins an environment and a live tag of one account |
| ImplementsCatalogue | ResourceTags implements TagCatalogue |

That names of live tags of one account differ is what makes renaming, import and
transfer functions of names. Import and transfer refine to one step each,
although they may make several tags: `Resolve` gives one tag per name.

Every safety property of every passing run is a theorem. Only model-checked are
the liveness properties `HolderEndsAndFrees`, `AlertFollowsService`,
`DeletedIsForgotten`, `StreamsEnd` and `EndIsTold`: liveness under fairness is
out of the prover's reach. The types of all modules but `ServiceConfig`
are proved and not run; there the run checks them too.

## 7. Not modelled

- Clocks: `created_at` orders the history, and the model numbers operations in
  the order of their creation. Staleness of health results is left out.
- Host key recording (RecordValidation), DetectArch, log text.
- The audit trail of an operation interrupted by a crash stays at "requested":
  the restart closes the row and records no event. The model has this gap;
  `AuditFollowsEnd` states the direction the code keeps.
- Environments are created and imported in `ResourceTags`, with owner, place and
  tags; in the other models they are there from the beginning. An import that
  updates an environment writes its connection, directory, flag and port without
  asking whether an operation is running (`UpsertImportedEnvironments`), as an
  edit does: `ServiceConfig` has both, and `edit_moves_installed` shows what
  becomes of an install.
- In `ServiceConfig` environments do not share a directory, which those of
  OperationManager do; the three reads at the beginning of an install are one
  step.
- HTTP routing, the user interface, configuration loading, encryption,
  migrations, exports and statistics: formatting or wiring, with no state that a
  property here would be about.
- Archive validation, package notes and service types beyond one: a type is a
  package of its own, and the lock does not tell types apart.
- Password hashes, `last_seen_at`, the clock behind throttle windows and expiry.
- A login opens its session after it has read the account: it may outlive a
  password change or a disabling that came in between. The model has this
  behaviour, the code makes no promise against it, no property is about it.
- In `Communications`: titles, contents, resource references, the cursor of the
  list; messages with equal `created_at`, which the readers order by their random
  ids; deleted accounts; a password that has to be changed first.
- In `ResourceTags`: the limit of twenty tags, the guards of a transfer that
  concern packages, open operations and disabled accounts, which only refuse;
  the filters; the copies in `operation_tags`. An edit that was validated
  against a former owner is refused by the trigger alone when it has tags; one
  with an empty list clears the tags of the new owner's environment, and the
  model has this behaviour.
- In `ServiceConfig` a crash between the remote write and the commit leaves a
  file no row shows, and an install that overlaps a save overwrites it or is
  overwritten. The model has both; `disturbed` names them in the properties.
- In `EventLog`: more than one operation (logs share nothing), the text of
  lines, the audit events beside them (OperationManager has those).
