------------------------------ MODULE EventLog ------------------------------
(***************************************************************************)
(* The event log of one operation: the goroutine of Manager.run that       *)
(* writes it beside the row (operation/manager.go), the stream that polls  *)
(* both (operationEvents in httpapi/api.go), the browser that watches      *)
(* (OperationModal.tsx) and the retention that removes row and file        *)
(* (audit/service.go).                                                     *)
(*                                                                         *)
(* An event is its number.  One step is one statement, one line of the     *)
(* file under eventLogger.mu, one reading of the file with the sending of  *)
(* what it found, or one event that arrives.  What is still on its way     *)
(* when a connection breaks is lost.                                       *)
(***************************************************************************)
EXTENDS Naturals

CONSTANTS
  Viewer,       \* browser tabs with the dialog of the operation
  MaxEvents,    \* bound: lines before the final one
  MaxBreaks,    \* bound: connections that break
  MaxRestarts,  \* bound: deaths of the process
  LogMayFail,   \* opening or appending to the file may fail
  StoreMayFail, \* UpdateOperation may fail; its error is only logged
  LinesMayBeLong \* a line may exceed the two megabytes of the reader

ASSUME BoundsAssumption ==
  MaxEvents \in Nat /\ MaxBreaks \in Nat /\ MaxRestarts \in Nat
ASSUME FlagsAssumption ==
  LogMayFail \in BOOLEAN /\ StoreMayFail \in BOOLEAN /\ LinesMayBeLong \in BOOLEAN

VARIABLES
  row,          \* operations.status
  lost,         \* the final UpdateOperation was refused
  writer,       \* what Manager.run does next
  seq,          \* eventLogger.seq
  file,         \* numbers of the lines that can be read
  torn,         \* the last line is not complete
  long,         \* a line is longer than the reader's buffer
  exists,       \* the file is there
  final,        \* number of the event with the terminal status, 0: none yet
  purge,        \* the retention has the path of the file in its hands
  up, restarts, \* the process runs; how often it died
  stage,        \* what the stream of a viewer does next
  lastID, got,  \* locals of operationEvents: lastID, len(events) > 0
  quiet,        \* and terminalEmptyPolls
  sent,         \* events on their way to the browser
  breaks,
  dialog,       \* of the tab: closed, watching; without EventSource: done, deaf
  shown,        \* events in it
  cursor,       \* Last-Event-ID the browser remembers
  learned       \* GET /operations/{id} has shown a terminal status

table   == <<row, lost>>
lines   == <<seq, file, torn, long, exists, final>>
process == <<writer, purge, up, restarts>>
streams == <<stage, lastID, got, quiet, sent, breaks>>
browser == <<dialog, shown, cursor, learned>>
vars    == <<table, lines, process, streams, browser>>

Init ==
  /\ row = "queued" /\ lost = FALSE
  /\ seq = 0 /\ file = {} /\ torn = FALSE /\ long = FALSE
  /\ exists = FALSE /\ final = 0
  /\ writer = "open" /\ purge = FALSE /\ up = TRUE /\ restarts = 0
  /\ stage = [v \in Viewer |-> "closed"]
  /\ lastID = [v \in Viewer |-> 0] /\ got = [v \in Viewer |-> FALSE]
  /\ quiet = [v \in Viewer |-> 0] /\ sent = [v \in Viewer |-> {}]
  /\ breaks = 0
  /\ dialog = [v \in Viewer |-> "closed"]
  /\ shown = [v \in Viewer |-> {}] /\ cursor = [v \in Viewer |-> 0]
  /\ learned = [v \in Viewer |-> FALSE]

Terminal == row = "ended"

(* The goroutine of the operation *)

Goes(from, to) == up /\ writer = from /\ writer' = to /\ UNCHANGED <<purge, up, restarts>>

\* UpdateOperation
Update(status) ==
  \/ row' = status /\ UNCHANGED lost
  \/ StoreMayFail /\ row' = row /\ lost' = (lost \/ status = "ended")

\* The number is used up even when the line does not get into the file, and
\* what follows a torn line is glued to it.
Write ==
  /\ seq' = seq + 1
  /\ \/ /\ file' = IF torn THEN file ELSE file \cup {seq + 1}
        /\ torn' = FALSE /\ UNCHANGED long
     \/ LogMayFail /\ torn' \in {torn, TRUE} /\ UNCHANGED <<file, long>>
     \/ LinesMayBeLong /\ long' = TRUE /\ torn' = FALSE /\ UNCHANGED file
  /\ UNCHANGED exists

\* newEventLogger; without a log the operation ends at once.
OpenLog ==
  /\ \/ Goes("open", "begin") /\ exists' = TRUE
     \/ LogMayFail /\ Goes("open", "finish unlogged") /\ UNCHANGED exists
  /\ UNCHANGED <<table, seq, file, torn, long, final, streams, browser>>

Begin ==
  /\ Goes("begin", "begun") /\ Update("running")
  /\ UNCHANGED <<lines, streams, browser>>

WriteBegun ==
  /\ Goes("begun", "work") /\ Write
  /\ UNCHANGED <<table, final, streams, browser>>

\* stage: the whole row is written again, with the status it should have.
SetStage ==
  /\ Goes("work", "work") /\ Update("running")
  /\ UNCHANGED <<lines, streams, browser>>

\* The lines of stage, and what emit passes on from the server.
Emit ==
  /\ Goes("work", "work") /\ seq < MaxEvents /\ Write
  /\ UNCHANGED <<table, final, streams, browser>>

Outcome == Goes("work", "finish") /\ UNCHANGED <<table, lines, streams, browser>>

\* (Mutation: the event before the row.)
FinishByEvent ==
  \/ Goes("finish", "finish unlogged") /\ Write /\ final' = seq + 1
     /\ UNCHANGED <<table, streams, browser>>
  \/ Goes("finish unlogged", "over") /\ Update("ended")
     /\ UNCHANGED <<lines, streams, browser>>

\* finish: the row first.
Finish ==
  /\ Goes("finish", "write final") \/ Goes("finish unlogged", "over")
  /\ Update("ended")
  /\ UNCHANGED <<lines, streams, browser>>

\* finishLogged: then the event.
WriteFinal ==
  /\ Goes("write final", "over") /\ Write /\ final' = seq + 1
  /\ UNCHANGED <<table, streams, browser>>

(* operationEvents *)

Stage(v, from, to) ==
  /\ up /\ stage[v] = from /\ stage' = [stage EXCEPT ![v] = to]
  /\ UNCHANGED <<table, lines, process>>

Disconnect(v) ==
  /\ stage' = [stage EXCEPT ![v] = "closed"] /\ sent' = [sent EXCEPT ![v] = {}]
  /\ UNCHANGED <<lastID, got, quiet>>

\* (Mutations: the stream begins with what is new; running operations only.)
ConnectAtEnd(v) ==
  /\ dialog[v] = "watching" /\ row # "gone" /\ sent[v] = {}
  /\ \E from \in {"closed", "returned", "failed"} : Stage(v, from, "read")
  /\ lastID' = [lastID EXCEPT ![v] = seq]
  /\ quiet' = [quiet EXCEPT ![v] = 0] /\ got' = [got EXCEPT ![v] = FALSE]
  /\ UNCHANGED <<sent, breaks, browser>>
ConnectToRunning(v) ==
  /\ dialog[v] = "watching" /\ row \in {"queued", "running"} /\ sent[v] = {}
  /\ \E from \in {"closed", "returned", "failed"} : Stage(v, from, "read")
  /\ lastID' = [lastID EXCEPT ![v] = cursor[v]]
  /\ quiet' = [quiet EXCEPT ![v] = 0] /\ got' = [got EXCEPT ![v] = FALSE]
  /\ UNCHANGED <<sent, breaks, browser>>

\* EventSource comes back by itself when it has consumed the last answer.
Connect(v) ==
  /\ dialog[v] = "watching" /\ row # "gone" /\ sent[v] = {}
  /\ \E from \in {"closed", "returned", "failed"} : Stage(v, from, "read")
  /\ lastID' = [lastID EXCEPT ![v] = cursor[v]]
  /\ quiet' = [quiet EXCEPT ![v] = 0] /\ got' = [got EXCEPT ![v] = FALSE]
  /\ UNCHANGED <<sent, breaks, browser>>

\* An answer other than 200 (the session is over, the row gone or not to be
\* read) ends the EventSource for good; the dialog stays.
Refused(v) ==
  /\ up /\ dialog[v] = "watching" /\ stage[v] \in {"closed", "returned", "failed"}
  /\ sent[v] = {} /\ dialog' = [dialog EXCEPT ![v] = "deaf"] /\ Disconnect(v)
  /\ UNCHANGED <<table, lines, process, breaks, shown, cursor, learned>>

Readable == IF exists THEN file ELSE {}

\* ReadEvents, and the sending of what it returns.
ReadEvents(v) ==
  LET events == {n \in Readable : n > lastID[v]} IN
  /\ ~(long /\ exists) /\ Stage(v, "read", "row")
  /\ got' = [got EXCEPT ![v] = events # {}]
  /\ sent' = [sent EXCEPT ![v] = @ \cup events]
  /\ \/ events = {} /\ UNCHANGED <<lastID, quiet>>
     \/ \E last \in events :
          /\ \A n \in events : n <= last
          /\ lastID' = [lastID EXCEPT ![v] = last]
          /\ quiet' = [quiet EXCEPT ![v] = 0]
  /\ UNCHANGED <<breaks, browser>>

\* bufio.ErrTooLong: the stream ends without sending what it has read.
ReadFails(v) ==
  /\ long /\ exists /\ Stage(v, "read", "failed")
  /\ UNCHANGED <<lastID, got, quiet, sent, breaks, browser>>

Polled(v) == IF Terminal /\ ~got[v] THEN quiet[v] + 1 ELSE quiet[v]
EnoughOnce(v) == Terminal /\ ~got[v]    \* (Mutation: one empty poll.)
Enough(v) == Terminal /\ ~got[v] /\ Polled(v) >= 2

\* Manager.Get and the question whether to go on.
ReadRow(v) ==
  /\ \/ row = "gone" /\ Stage(v, "row", "failed") /\ UNCHANGED quiet
     \/ /\ row # "gone" /\ quiet' = [quiet EXCEPT ![v] = Polled(v)]
        /\ Stage(v, "row", IF Enough(v) THEN "returned" ELSE "wait")
  /\ UNCHANGED <<lastID, got, sent, breaks, browser>>

Tick(v) ==
  /\ Stage(v, "wait", "read")
  /\ UNCHANGED <<lastID, got, quiet, sent, breaks, browser>>

Break(v) ==
  /\ breaks < MaxBreaks /\ breaks' = breaks + 1
  /\ stage[v] # "closed" /\ Disconnect(v)
  /\ UNCHANGED <<table, lines, process, browser>>

(* OperationModal *)

\* The effect of the dialog: setEvents([]) and a new EventSource.
OpenDialog(v) ==
  /\ dialog[v] = "closed" /\ dialog' = [dialog EXCEPT ![v] = "watching"]
  /\ shown' = [shown EXCEPT ![v] = {}] /\ cursor' = [cursor EXCEPT ![v] = 0]
  /\ learned' = [learned EXCEPT ![v] = FALSE]
  /\ UNCHANGED <<table, lines, process, streams>>

CloseDialog(v) ==
  /\ dialog[v] # "closed" /\ dialog' = [dialog EXCEPT ![v] = "closed"]
  /\ Disconnect(v)
  /\ UNCHANGED <<table, lines, process, breaks, shown, cursor, learned>>

\* receive: with a terminal status the EventSource is closed.
Receive(v) ==
  /\ \E n \in sent[v] :
       /\ \A m \in sent[v] : n <= m
       /\ shown' = [shown EXCEPT ![v] = @ \cup {n}]
       /\ cursor' = [cursor EXCEPT ![v] = n]
       /\ \/ /\ n # final /\ sent' = [sent EXCEPT ![v] = @ \ {n}]
             /\ UNCHANGED <<dialog, stage, lastID, got, quiet>>
          \/ /\ n = final /\ dialog' = [dialog EXCEPT ![v] = "done"]
             /\ Disconnect(v)
  /\ UNCHANGED <<table, lines, process, breaks, learned>>

\* refetchInterval: every second until a terminal status was read.
Poll(v) ==
  /\ up /\ dialog[v] # "closed" /\ ~learned[v] /\ Terminal
  /\ learned' = [learned EXCEPT ![v] = TRUE]
  /\ UNCHANGED <<table, lines, process, streams, dialog, shown, cursor>>

(* Retention, death and restart *)

\* (Mutation: the file first.)
DeleteLogFirst ==
  /\ up /\ Terminal /\ writer \in {"over", "dead"} /\ exists' = FALSE
  /\ \/ ~purge /\ purge' = TRUE /\ row' = row
     \/ purge /\ row' = "gone" /\ purge' = FALSE
  /\ UNCHANGED <<lost, seq, file, torn, long, final, writer, up, restarts,
                 streams, browser>>

\* The row first.  Retention is counted in days: Manager.run has returned.
DeleteTerminalOperationsBefore ==
  /\ up /\ Terminal /\ writer \in {"over", "dead"} /\ row' = "gone"
  /\ purge' = TRUE
  /\ UNCHANGED <<lost, lines, writer, up, restarts, streams, browser>>

\* Then the file, which stays if that fails.
RemoveLog ==
  /\ up /\ purge /\ purge' = FALSE /\ exists' \in {FALSE, exists}
  /\ UNCHANGED <<table, seq, file, torn, long, final, writer, up, restarts,
                 streams, browser>>

Crash ==
  /\ up /\ up' = FALSE /\ restarts < MaxRestarts /\ restarts' = restarts + 1
  /\ writer' = (IF writer = "over" THEN writer ELSE "dead") /\ purge' = FALSE
  /\ stage' = [v \in Viewer |-> "closed"] /\ sent' = [v \in Viewer |-> {}]
  /\ UNCHANGED <<table, lines, lastID, got, quiet, breaks, browser>>

\* InterruptActiveOperations: the row ends, the log does not.
Restart ==
  /\ ~up /\ up' = TRUE
  /\ row' = (IF row \in {"queued", "running"} THEN "ended" ELSE row)
  /\ UNCHANGED <<lost, lines, writer, purge, restarts, streams, browser>>

Stream(v) == ReadEvents(v) \/ ReadFails(v) \/ ReadRow(v) \/ Tick(v)

Work(v) ==
  Connect(v) \/ Stream(v) \/ Receive(v) \/ Poll(v)

Run == OpenLog \/ Begin \/ WriteBegun \/ Outcome \/ Finish \/ WriteFinal

Next ==
  \/ Run \/ SetStage \/ Emit
  \/ \E v \in Viewer : Work(v) \/ Refused(v) \/ Break(v) \/ OpenDialog(v) \/ CloseDialog(v)
  \/ DeleteTerminalOperationsBefore \/ RemoveLog \/ Crash \/ Restart

\* The goroutine and the handlers go on, the browser reconnects, consumes and
\* polls.  Nothing obliges a viewer to come or stay, or the process to restart.
Fairness ==
  /\ WF_vars(Run)
  /\ \A v \in Viewer :
       WF_vars(Connect(v)) /\ WF_vars(Stream(v)) /\ WF_vars(Receive(v)) /\ WF_vars(Poll(v))

Spec == Init /\ [][Next]_vars /\ Fairness

-----------------------------------------------------------------------------
(* Properties *)

\* Whoever watches is shown the readable lines in order and without a gap,
\* from the first one, across disconnections, streams that returned by
\* themselves and restarts: Last-Event-ID and the whole file are enough.
Feed == INSTANCE EventFeed WITH feed <- file
FeedSpec == Feed!Spec

\* A stream that has returned because two polls of an ended operation found
\* nothing has sent every line but at most the final one, which is written
\* after the row.  One poll would not do: the file is read before the row.
ReturnedMissesOnlyFinal ==
  \A v \in Viewer : stage[v] = "returned" =>
    \A n \in file : n > lastID[v] => n = final

\* A tab that was told the end (onComplete: the lists are read again) finds
\* the end in the row, unless the store refused to write it: finishLogged
\* updates the row before the event.
DoneIsOnRecord ==
  \A v \in Viewer : dialog[v] = "done" => row \in {"ended", "gone"} \/ lost

\* As long as an operation is listed its log can be read: the retention
\* deletes the row first.
HistoryKeepsLog == row # "gone" /\ file # {} => exists

Told(v) ==
  /\ learned[v] /\ writer \in {"over", "dead"}
  /\ final \in Readable /\ ~long /\ dialog[v] # "deaf" => final \in shown[v]

\* Who keeps watching an operation that has ended learns it and is shown the
\* final line, if it could be written and his stream was not refused, although
\* the stream may return before that line; after a restart there is none, and
\* the poll of the row tells.
EndIsTold ==
  \A v \in Viewer :
    Terminal /\ dialog[v] = "watching" ~>
      Told(v) \/ dialog[v] = "closed" \/ row = "gone" \/ ~up

-----------------------------------------------------------------------------
(* The inductive invariant *)

Writer == {"open", "begin", "begun", "work", "finish", "finish unlogged",
           "write final", "over", "dead"}

TypeOK ==
  /\ row \in {"queued", "running", "ended", "gone"} /\ lost \in BOOLEAN
  /\ seq \in Nat /\ file \subseteq 1..seq /\ final \in Nat
  /\ torn \in BOOLEAN /\ long \in BOOLEAN /\ exists \in BOOLEAN
  /\ writer \in Writer /\ purge \in BOOLEAN /\ up \in BOOLEAN
  /\ stage \in [Viewer -> {"closed", "read", "row", "wait", "returned", "failed"}]
  /\ lastID \in [Viewer -> Nat] /\ got \in [Viewer -> BOOLEAN]
  /\ quiet \in [Viewer -> Nat] /\ sent \in [Viewer -> SUBSET Nat]
  /\ dialog \in [Viewer -> {"closed", "watching", "done", "deaf"}]
  /\ shown \in [Viewer -> SUBSET Nat] /\ cursor \in [Viewer -> Nat]
  /\ learned \in [Viewer -> BOOLEAN]
  /\ restarts \in Nat /\ breaks \in Nat

\* Row, file and goroutine: which of them may be ahead of the others.
WriterInv ==
  /\ row \in {"ended", "gone"} => writer \in {"write final", "over", "dead"}
  /\ row = "gone" \/ ~up => writer \in {"over", "dead"}
  /\ purge => row = "gone"
  /\ final # 0 => writer = "over"
  /\ writer \in {"write final", "over"} => row \in {"ended", "gone"} \/ lost
  /\ writer \in {"begin", "begun", "work", "finish", "write final"} => exists

\* Every readable line is in the tab, on its way, or after lastID.
Prefix(v) ==
  /\ shown[v] = {n \in file : n <= cursor[v]} /\ cursor[v] <= seq
  /\ stage[v] = "closed" => sent[v] = {}
  /\ stage[v] # "closed" =>
       /\ dialog[v] = "watching" /\ cursor[v] <= lastID[v] /\ lastID[v] <= seq
       /\ sent[v] = {n \in file : cursor[v] < n /\ n <= lastID[v]}

Caught(v) == \A n \in file : n > lastID[v] => n = final

\* What a stream knows after an empty poll of an ended operation.
Quiet(v) ==
  /\ quiet[v] > 0 => row \in {"ended", "gone"}
  /\ stage[v] = "row" /\ ~got[v] /\ quiet[v] > 0 /\ row # "gone" => Caught(v)
  /\ stage[v] = "returned" => quiet[v] > 0 /\ Caught(v)

LogInv ==
  /\ TypeOK /\ WriterInv /\ HistoryKeepsLog /\ DoneIsOnRecord
  /\ \A v \in Viewer : Prefix(v) /\ Quiet(v)

=============================================================================
