-------------------------- MODULE EventLog_proofs --------------------------
(***************************************************************************)
(* Safety of EventLog and its refinement of EventFeed, for every number of *)
(* viewers, lines, broken connections and restarts, and whichever writes   *)
(* fail.                                                                   *)
(***************************************************************************)
EXTENDS EventLog, TLAPS

USE BoundsAssumption, FlagsAssumption

ViewersInv == \A v \in Viewer : Prefix(v) /\ Quiet(v)

\* The initial state satisfies the invariant.
LEMMA InitLog == Init => LogInv
<1> SUFFICES ASSUME Init PROVE LogInv
  OBVIOUS
<1>1. TypeOK
  <2>1. /\ row \in {"queued", "running", "ended", "gone"} /\ lost \in BOOLEAN
        /\ seq \in Nat /\ file \subseteq 1..seq /\ final \in Nat
        /\ torn \in BOOLEAN /\ long \in BOOLEAN /\ exists \in BOOLEAN
        /\ writer \in Writer /\ purge \in BOOLEAN /\ up \in BOOLEAN
        /\ restarts \in Nat /\ breaks \in Nat
    BY DEF Init, Writer
  <2>2. /\ stage \in [Viewer -> {"closed", "read", "row", "wait", "returned", "failed"}]
        /\ lastID \in [Viewer -> Nat] /\ got \in [Viewer -> BOOLEAN]
        /\ quiet \in [Viewer -> Nat] /\ sent \in [Viewer -> SUBSET Nat]
    BY DEF Init
  <2>3. /\ dialog \in [Viewer -> {"closed", "watching", "done", "deaf"}]
        /\ shown \in [Viewer -> SUBSET Nat] /\ cursor \in [Viewer -> Nat]
        /\ learned \in [Viewer -> BOOLEAN]
    BY DEF Init
  <2> QED
    BY <2>1, <2>2, <2>3 DEF TypeOK
<1>2. WriterInv /\ HistoryKeepsLog /\ DoneIsOnRecord
  BY DEF Init, WriterInv, HistoryKeepsLog, DoneIsOnRecord
<1>3. ASSUME NEW v \in Viewer PROVE Prefix(v) /\ Quiet(v)
  <2>1. /\ file = {} /\ seq = 0 /\ shown[v] = {} /\ sent[v] = {} /\ cursor[v] = 0
        /\ stage[v] = "closed" /\ quiet[v] = 0
    BY DEF Init
  <2> QED
    BY <2>1 DEF Prefix, Quiet
<1> QED
  BY <1>1, <1>2, <1>3 DEF LogInv

-----------------------------------------------------------------------------
(***************************************************************************)
(* The goroutine of the operation.                                         *)
(***************************************************************************)
\* A line, readable or not, keeps the types and the numbers of the file.
LEMMA WriteKeepsTypes ==
  ASSUME TypeOK, Write
  PROVE  /\ seq' = seq + 1 /\ seq' \in Nat /\ exists' = exists
         /\ file' = file \/ file' = file \cup {seq + 1}
         /\ file' \subseteq 1..seq'
         /\ torn' \in BOOLEAN /\ long' \in BOOLEAN /\ exists' \in BOOLEAN
<1>1. seq' = seq + 1 /\ exists' = exists /\ (file' = file \/ file' = file \cup {seq + 1})
  BY DEF Write
<1>2. file' \subseteq 1..seq'
  <2>1. seq \in Nat /\ file \subseteq 1..seq
    BY DEF TypeOK
  <2>2. 1..seq \subseteq 1..(seq + 1) /\ seq + 1 \in 1..(seq + 1)
    BY <2>1
  <2> QED
    BY <1>1, <2>1, <2>2
<1>3. torn' \in BOOLEAN
  <2>1. torn' \in {torn, TRUE} \/ torn' = FALSE
    BY Zenon DEF Write
  <2> QED
    BY <2>1, Zenon DEF TypeOK
<1>4. long' \in BOOLEAN
  <2>1. long' = long \/ long' = TRUE
    BY Zenon DEF Write
  <2> QED
    BY <2>1, Zenon DEF TypeOK
<1> QED
  BY <1>1, <1>2, <1>3, <1>4 DEF TypeOK

\* A new line is behind everything that was sent, and a stream that has seen
\* an empty poll of the ended operation can only miss the final one.
LEMMA WriteKeepsViewers ==
  ASSUME LogInv, Write, UNCHANGED <<row, streams, browser>>,
         row \notin {"ended", "gone"} \/ (final = 0 /\ final' = seq + 1)
  PROVE  ViewersInv'
<1> SUFFICES ASSUME NEW v \in Viewer PROVE Prefix(v)' /\ Quiet(v)'
  BY DEF ViewersInv
<1>1. /\ seq' = seq + 1 /\ seq \in Nat /\ file \subseteq 1..seq
      /\ file' = file \/ file' = file \cup {seq + 1}
  BY WriteKeepsTypes DEF LogInv, TypeOK
<1>2. Prefix(v) /\ Quiet(v) /\ cursor[v] \in Nat /\ lastID[v] \in Nat /\ quiet[v] \in Nat
  BY DEF LogInv, TypeOK
<1>3. /\ UNCHANGED <<shown, cursor, stage, sent, dialog, lastID, quiet, got>>
  BY DEF streams, browser
<1>4. {n \in file' : n <= cursor[v]} = {n \in file : n <= cursor[v]}
  BY <1>1, <1>2 DEF Prefix
<1>5. stage[v] # "closed" =>
        {n \in file' : cursor[v] < n /\ n <= lastID[v]} = {n \in file : cursor[v] < n /\ n <= lastID[v]}
  BY <1>1, <1>2 DEF Prefix
<1>6. Prefix(v)'
  BY <1>1, <1>2, <1>3, <1>4, <1>5 DEF Prefix
<1>7. CASE row \notin {"ended", "gone"}
  BY <1>2, <1>3, <1>6, <1>7 DEF Quiet
<1>8. CASE final = 0 /\ final' = seq + 1
  <2>1. Caught(v) => Caught(v)'
    <3>1. Caught(v) => \A n \in file : ~(n > lastID[v])
      <4>1. \A n \in file : n # 0
        BY <1>1
      <4> QED
        BY <1>8, <4>1 DEF Caught
    <3> QED
      BY <1>1, <1>3, <1>8, <3>1 DEF Caught
  <2>2. (quiet[v] > 0 => row \in {"ended", "gone"})'
    BY <1>2, <1>3 DEF Quiet
  <2>3. (stage[v] = "row" /\ ~got[v] /\ quiet[v] > 0 /\ row # "gone" => Caught(v))'
    BY <1>2, <1>3, <2>1, Zenon DEF Quiet
  <2>4. (stage[v] = "returned" => quiet[v] > 0 /\ Caught(v))'
    BY <1>2, <1>3, <2>1 DEF Quiet
  <2> QED
    BY <1>6, <2>2, <2>3, <2>4 DEF Quiet
<1> QED
  BY <1>7, <1>8

\* Nothing of what the viewers' invariant is about changes.
LEMMA ViewersStay ==
  ASSUME LogInv, UNCHANGED <<file, seq, final, streams, browser>>,
         \/ row' = row
         \/ row \notin {"ended", "gone"}
         \/ row = "ended" /\ row' = "gone"
  PROVE  ViewersInv'
<1> SUFFICES ASSUME NEW v \in Viewer PROVE Prefix(v)' /\ Quiet(v)'
  BY DEF ViewersInv
<1>1. Prefix(v) /\ Quiet(v) /\ quiet[v] \in Nat
  BY DEF LogInv, TypeOK
<1>2. /\ UNCHANGED <<shown, cursor, stage, sent, dialog, lastID, quiet, got>>
      /\ Caught(v)' = Caught(v)
  BY DEF streams, browser, Caught
<1>3. Prefix(v)'
  BY <1>1, <1>2 DEF Prefix
<1>4. Quiet(v)'
  BY <1>1, <1>2 DEF Quiet
<1> QED
  BY <1>3, <1>4

\* Opening the log, with or without success.
LEMMA OpenLogKeeps == LogInv /\ OpenLog => LogInv'
<1> SUFFICES ASSUME LogInv, OpenLog PROVE LogInv'
  OBVIOUS
<1>1. ViewersInv'
  BY ViewersStay DEF OpenLog, table
<1>2. TypeOK'
  BY DEF LogInv, TypeOK, OpenLog, Goes, table, streams, browser, Writer
<1>3. WriterInv'
  <2>1. row \notin {"ended", "gone"} /\ up /\ final = 0
    BY DEF LogInv, WriterInv, OpenLog, Goes
  <2>2. /\ (writer' = "begin" /\ exists') \/ writer' = "finish unlogged"
        /\ UNCHANGED <<row, lost, final, purge, up>>
    BY DEF OpenLog, Goes, table
  <2> QED
    BY <2>1, <2>2 DEF LogInv, WriterInv
<1>4. HistoryKeepsLog' /\ DoneIsOnRecord'
  <2>1. exists' = TRUE \/ exists' = exists
    BY Zenon DEF OpenLog
  <2> QED
    BY <2>1 DEF LogInv, HistoryKeepsLog, DoneIsOnRecord, OpenLog, table, browser
<1> QED
  BY <1>1, <1>2, <1>3, <1>4 DEF LogInv, ViewersInv

\* The row becomes running, if the store takes it.
LEMMA BeginKeeps == LogInv /\ (Begin \/ SetStage) => LogInv'
<1> SUFFICES ASSUME LogInv, Begin \/ SetStage PROVE LogInv'
  OBVIOUS
<1>1. /\ writer \in {"begin", "work"} /\ writer' \in {"begun", "work"} /\ Update("running")
      /\ UNCHANGED <<purge, up, restarts, lines, streams, browser>> /\ up
  BY DEF Begin, SetStage, Goes
<1>2. /\ row \notin {"ended", "gone"} /\ row' \in {"queued", "running"} /\ lost' = lost
      /\ exists
  BY <1>1 DEF LogInv, TypeOK, WriterInv, Update
<1>3. ViewersInv'
  BY <1>1, <1>2, ViewersStay DEF lines
<1>4. TypeOK'
  BY <1>1, <1>2 DEF LogInv, TypeOK, lines, streams, browser, Writer
<1>5. WriterInv' /\ HistoryKeepsLog' /\ DoneIsOnRecord'
  BY <1>1, <1>2 DEF LogInv, WriterInv, HistoryKeepsLog, DoneIsOnRecord, lines, browser
<1> QED
  BY <1>3, <1>4, <1>5 DEF LogInv, ViewersInv

\* A line of the running operation.
LEMMA LineKeeps == LogInv /\ (WriteBegun \/ Emit) => LogInv'
<1> SUFFICES ASSUME LogInv, WriteBegun \/ Emit PROVE LogInv'
  OBVIOUS
<1>1. /\ Write /\ writer \in {"begun", "work"} /\ writer' = "work"
      /\ UNCHANGED <<purge, up, restarts, row, lost, final, streams, browser>>
  BY DEF WriteBegun, Emit, Goes, table
<1>2. row \notin {"ended", "gone"} /\ exists
  BY <1>1 DEF LogInv, WriterInv
<1>3. ViewersInv'
  BY <1>1, <1>2, WriteKeepsViewers
<1>4. TypeOK'
  BY <1>1, WriteKeepsTypes DEF LogInv, TypeOK, streams, browser, Writer
<1>5. exists' = exists
  BY <1>1 DEF Write
<1>6. WriterInv' /\ HistoryKeepsLog' /\ DoneIsOnRecord'
  BY <1>1, <1>2, <1>5 DEF LogInv, WriterInv, HistoryKeepsLog, DoneIsOnRecord, browser
<1> QED
  BY <1>3, <1>4, <1>6 DEF LogInv, ViewersInv

\* The remote work is over.
LEMMA OutcomeKeeps == LogInv /\ Outcome => LogInv'
<1> SUFFICES ASSUME LogInv, Outcome PROVE LogInv'
  OBVIOUS
<1>1. ViewersInv'
  BY ViewersStay DEF Outcome, table, lines
<1>2. TypeOK'
  BY DEF LogInv, TypeOK, Outcome, Goes, table, lines, streams, browser, Writer
<1>3. WriterInv' /\ HistoryKeepsLog' /\ DoneIsOnRecord'
  BY DEF LogInv, TypeOK, WriterInv, HistoryKeepsLog, DoneIsOnRecord, Outcome, Goes,
         table, lines, browser
<1> QED
  BY <1>1, <1>2, <1>3 DEF LogInv, ViewersInv

\* The end is written to the row, if the store takes it.
LEMMA FinishKeeps == LogInv /\ Finish => LogInv'
<1> SUFFICES ASSUME LogInv, Finish PROVE LogInv'
  OBVIOUS
<1>1. /\ row \notin {"ended", "gone"} /\ final = 0 /\ up /\ ~purge
      /\ \/ writer = "finish" /\ writer' = "write final" /\ exists
         \/ writer = "finish unlogged" /\ writer' = "over"
  BY DEF LogInv, TypeOK, WriterInv, Finish, Goes
<1>2. /\ (row' = "ended" /\ lost' = lost) \/ (row' = row /\ lost' = TRUE)
      /\ UNCHANGED <<purge, up, restarts, lines, streams, browser>>
  BY DEF Finish, Goes, Update
<1>3. ViewersInv'
  BY <1>1, <1>2, ViewersStay DEF lines
<1>4. TypeOK'
  <2>1. /\ row' \in {"queued", "running", "ended", "gone"} /\ lost' \in BOOLEAN
        /\ writer' \in Writer
    BY <1>1, <1>2 DEF LogInv, TypeOK, Writer
  <2> QED
    BY <1>2, <2>1 DEF LogInv, TypeOK, lines, streams, browser
<1>5. WriterInv'
  BY <1>1, <1>2 DEF WriterInv, lines
<1>6. HistoryKeepsLog' /\ DoneIsOnRecord'
  BY <1>1, <1>2 DEF LogInv, HistoryKeepsLog, DoneIsOnRecord, lines, browser
<1> QED
  BY <1>3, <1>4, <1>5, <1>6 DEF LogInv, ViewersInv

\* The final line.
LEMMA WriteFinalKeeps == LogInv /\ WriteFinal => LogInv'
<1> SUFFICES ASSUME LogInv, WriteFinal PROVE LogInv'
  OBVIOUS
<1>1. /\ Write /\ writer = "write final" /\ writer' = "over" /\ final' = seq + 1
      /\ UNCHANGED <<purge, up, restarts, row, lost, streams, browser>>
  BY DEF WriteFinal, Goes, table
<1>2. final = 0 /\ exists /\ (row \in {"ended", "gone"} \/ lost) /\ row # "gone" /\ up
  BY <1>1 DEF LogInv, WriterInv, TypeOK
<1>3. ViewersInv'
  BY <1>1, <1>2, WriteKeepsViewers
<1>4. TypeOK'
  BY <1>1, WriteKeepsTypes DEF LogInv, TypeOK, streams, browser, Writer
<1>5. exists' = exists
  BY <1>1 DEF Write
<1>6. WriterInv' /\ HistoryKeepsLog' /\ DoneIsOnRecord'
  BY <1>1, <1>2, <1>5 DEF LogInv, WriterInv, HistoryKeepsLog, DoneIsOnRecord, browser
<1> QED
  BY <1>3, <1>4, <1>6 DEF LogInv, ViewersInv

-----------------------------------------------------------------------------
(***************************************************************************)
(* The streams and the tabs.                                               *)
(***************************************************************************)
\* What the steps of streams and tabs leave alone.
Outside == <<table, lines, process>>

\* Such a step keeps everything but its own types and what is said of viewers
\* and of their dialogs.
LEMMA OutsideStays ==
  ASSUME LogInv, UNCHANGED Outside, TypeOK', ViewersInv',
         \A v \in Viewer : dialog'[v] = "done" => dialog[v] = "done" \/ final # 0
  PROVE  LogInv'
<1>1. WriterInv' /\ HistoryKeepsLog'
  BY DEF LogInv, WriterInv, HistoryKeepsLog, Outside, table, lines, process
<1>2. final # 0 => row \in {"ended", "gone"} \/ lost
  BY DEF LogInv, WriterInv
<1>3. DoneIsOnRecord'
  BY <1>2 DEF LogInv, DoneIsOnRecord, Outside, table
<1> QED
  BY <1>1, <1>3 DEF LogInv, ViewersInv

\* A viewer of whom nothing changes keeps what is said of him.
LEMMA OtherViewer ==
  ASSUME LogInv, UNCHANGED Outside, NEW v \in Viewer,
         /\ stage'[v] = stage[v] /\ lastID'[v] = lastID[v] /\ got'[v] = got[v]
         /\ quiet'[v] = quiet[v] /\ sent'[v] = sent[v] /\ dialog'[v] = dialog[v]
         /\ shown'[v] = shown[v] /\ cursor'[v] = cursor[v]
  PROVE  Prefix(v)' /\ Quiet(v)'
<1>1. Prefix(v) /\ Quiet(v)
  BY DEF LogInv
<1>2. UNCHANGED <<row, file, seq, final>>
  BY DEF Outside, table, lines
<1>3. Caught(v)' = Caught(v)
  BY <1>2 DEF Caught
<1>4. Prefix(v)'
  BY <1>1, <1>2 DEF Prefix
<1>5. Quiet(v)'
  BY <1>1, <1>2, <1>3 DEF Quiet
<1> QED
  BY <1>4, <1>5

\* What is known of one viewer.
LEMMA Known ==
  ASSUME LogInv, NEW v \in Viewer
  PROVE  /\ Prefix(v) /\ Quiet(v)
         /\ seq \in Nat /\ file \subseteq 1..seq /\ final \in Nat
         /\ cursor[v] \in Nat /\ lastID[v] \in Nat /\ quiet[v] \in Nat
         /\ got[v] \in BOOLEAN /\ sent[v] \subseteq Nat
  BY DEF LogInv, TypeOK

\* A stream begins where the tab stopped.
LEMMA ConnectKeeps == ASSUME LogInv, NEW v \in Viewer, Connect(v) PROVE LogInv'
<1>1. /\ UNCHANGED Outside /\ UNCHANGED <<sent, breaks, dialog, shown, cursor, learned>>
      /\ dialog[v] = "watching" /\ sent[v] = {}
      /\ stage' = [stage EXCEPT ![v] = "read"] /\ lastID' = [lastID EXCEPT ![v] = cursor[v]]
      /\ quiet' = [quiet EXCEPT ![v] = 0] /\ got' = [got EXCEPT ![v] = FALSE]
  BY DEF Connect, Stage, Outside, browser
<1>2. /\ stage \in [Viewer -> {"closed", "read", "row", "wait", "returned", "failed"}]
      /\ lastID \in [Viewer -> Nat] /\ got \in [Viewer -> BOOLEAN]
      /\ quiet \in [Viewer -> Nat] /\ cursor \in [Viewer -> Nat]
  BY DEF LogInv, TypeOK
<1>3. TypeOK'
  <2>1. /\ stage' \in [Viewer -> {"closed", "read", "row", "wait", "returned", "failed"}]
        /\ lastID' \in [Viewer -> Nat] /\ got' \in [Viewer -> BOOLEAN]
        /\ quiet' \in [Viewer -> Nat]
    BY <1>1, <1>2
  <2> QED
    BY <1>1, <2>1 DEF LogInv, TypeOK, Outside, table, lines, process
<1>4. ASSUME NEW w \in Viewer PROVE Prefix(w)' /\ Quiet(w)'
  <2>1. CASE w # v
    BY <1>1, <1>2, <2>1, OtherViewer
  <2>2. CASE w = v
    <3>1. /\ stage'[w] = "read" /\ lastID'[w] = cursor[w] /\ quiet'[w] = 0
      BY <1>1, <1>2, <2>2
    <3>2. UNCHANGED <<row, file, seq, final>>
      BY <1>1 DEF Outside, table, lines
    <3>3. {n \in file : cursor[w] < n /\ n <= cursor[w]} = {}
      BY Known
    <3>4. Prefix(w)'
      BY <1>1, <2>2, <3>1, <3>2, <3>3, Known DEF Prefix
    <3> QED
      BY <3>1, <3>4 DEF Quiet
  <2> QED
    BY <2>1, <2>2
<1> QED
  BY <1>1, <1>3, <1>4, OutsideStays DEF ViewersInv

\* The stream reads all that is after lastID and sends it.
LEMMA ReadEventsKeeps == ASSUME LogInv, NEW v \in Viewer, ReadEvents(v) PROVE LogInv'
<1> DEFINE events == {n \in Readable : n > lastID[v]}
<1>1. /\ UNCHANGED Outside /\ UNCHANGED <<breaks, dialog, shown, cursor, learned>>
      /\ stage[v] = "read" /\ stage' = [stage EXCEPT ![v] = "row"]
      /\ got' = [got EXCEPT ![v] = events # {}]
      /\ sent' = [sent EXCEPT ![v] = @ \cup events]
  BY DEF ReadEvents, Stage, Outside, browser
<1>2. \/ events = {} /\ UNCHANGED <<lastID, quiet>>
      \/ \E last \in events :
           /\ \A n \in events : n <= last
           /\ lastID' = [lastID EXCEPT ![v] = last]
           /\ quiet' = [quiet EXCEPT ![v] = 0]
  BY DEF ReadEvents
<1>3. /\ stage \in [Viewer -> {"closed", "read", "row", "wait", "returned", "failed"}]
      /\ lastID \in [Viewer -> Nat] /\ got \in [Viewer -> BOOLEAN]
      /\ quiet \in [Viewer -> Nat] /\ sent \in [Viewer -> SUBSET Nat]
      /\ seq \in Nat /\ file \subseteq 1..seq /\ cursor \in [Viewer -> Nat]
  BY DEF LogInv, TypeOK
<1>4. \A n \in events : n \in file /\ n \in Nat /\ n <= seq /\ n > lastID[v]
  <2>1. \A n \in file : n \in Nat /\ n <= seq
    BY <1>3
  <2> QED
    BY <2>1 DEF Readable
<1>5. TypeOK'
  <2>1. stage' \in [Viewer -> {"closed", "read", "row", "wait", "returned", "failed"}]
    BY <1>1, <1>3
  <2>2. lastID' \in [Viewer -> Nat] /\ quiet' \in [Viewer -> Nat]
    <3>1. CASE UNCHANGED <<lastID, quiet>>
      BY <1>3, <3>1
    <3>2. ASSUME NEW last \in events, lastID' = [lastID EXCEPT ![v] = last],
                 quiet' = [quiet EXCEPT ![v] = 0]
          PROVE  lastID' \in [Viewer -> Nat] /\ quiet' \in [Viewer -> Nat]
      <4>1. last \in Nat
        BY <1>3, <1>4
      <4> QED
        BY <1>3, <3>2, <4>1
    <3> QED
      BY <1>2, <3>1, <3>2
  <2>3. got' \in [Viewer -> BOOLEAN]
    BY <1>1, <1>3
  <2>4. sent' \in [Viewer -> SUBSET Nat]
    <3>1. events \subseteq Nat
      BY <1>3, <1>4
    <3> QED
      BY <1>1, <1>3, <3>1
  <2> QED
    BY <1>1, <2>1, <2>2, <2>3, <2>4 DEF LogInv, TypeOK, Outside, table, lines, process
<1>6. ASSUME NEW w \in Viewer PROVE Prefix(w)' /\ Quiet(w)'
  <2>1. CASE w # v
    <3>1. /\ stage'[w] = stage[w] /\ got'[w] = got[w] /\ sent'[w] = sent[w]
          /\ lastID'[w] = lastID[w] /\ quiet'[w] = quiet[w]
      BY <1>1, <1>2, <1>3, <2>1
    <3> QED
      BY <1>1, <3>1, OtherViewer
  <2>2. CASE w = v
    <3>1. UNCHANGED <<row, file, seq, final, exists>> /\ stage'[v] = "row"
      BY <1>1, <1>3 DEF Outside, table, lines
    <3>2. got'[v] = (events # {}) /\ sent'[v] = sent[v] \cup events
      BY <1>1, <1>3
    <3>3. /\ dialog[v] = "watching" /\ cursor[v] <= lastID[v] /\ lastID[v] <= seq
          /\ sent[v] = {n \in file : cursor[v] < n /\ n <= lastID[v]}
      BY <1>1, Known DEF Prefix
    <3>4. /\ cursor[v] <= lastID'[v] /\ lastID'[v] <= seq
          /\ sent'[v] = {n \in file : cursor[v] < n /\ n <= lastID'[v]}
      <4>1. CASE events = {} /\ UNCHANGED <<lastID, quiet>>
        BY <3>2, <3>3, <4>1
      <4>2. ASSUME NEW last \in events, \A n \in events : n <= last, lastID'[v] = last
            PROVE  /\ cursor[v] <= lastID'[v] /\ lastID'[v] <= seq
                   /\ sent'[v] = {n \in file : cursor[v] < n /\ n <= lastID'[v]}
        <5>1. last \in Nat /\ last > lastID[v] /\ last <= seq
          BY <1>4, <4>2
        <5>2. events = {n \in file : n > lastID[v]}
          BY DEF Readable
        <5>3. \A n \in file : n \in Nat /\ (n > lastID[v] => n <= last)
          BY <1>3, <4>2, <5>2
        <5>4. {n \in file : cursor[v] < n /\ n <= last}
                = {n \in file : cursor[v] < n /\ n <= lastID[v]} \cup events
          <6>1. cursor[v] \in Nat /\ lastID[v] \in Nat /\ last \in Nat
            BY <1>3, <5>1
          <6>2. \A n \in file : cursor[v] < n /\ n <= last
                  <=> (cursor[v] < n /\ n <= lastID[v]) \/ n > lastID[v]
            BY <3>3, <5>1, <5>3, <6>1
          <6> HIDE DEF events
          <6> QED
            BY <5>2, <6>2
        <5> QED
          BY <1>3, <3>2, <3>3, <4>2, <5>1, <5>4
      <4> QED
        BY <1>2, <1>3, <4>1, <4>2
    <3>5. Prefix(v)'
      BY <1>1, <3>1, <3>3, <3>4, Known DEF Prefix
    <3>6. quiet'[v] > 0 => events = {} /\ quiet[v] > 0 /\ lastID'[v] = lastID[v]
      BY <1>2, <1>3
    <3>7. events = {} /\ row # "gone" => \A n \in file : ~(n > lastID[v])
      BY DEF LogInv, HistoryKeepsLog, Readable
    <3>8. quiet'[v] > 0 /\ row # "gone" => Caught(v)'
      BY <3>1, <3>6, <3>7 DEF Caught
    <3>9. Quiet(v)'
      BY <3>1, <3>6, <3>8, Known DEF Quiet
    <3> QED
      BY <2>2, <3>5, <3>9
  <2> QED
    BY <2>1, <2>2
<1> QED
  BY <1>1, <1>5, <1>6, OutsideStays DEF ViewersInv

\* The steps of a stream that move nothing but itself.
LEMMA StageKeeps ==
  ASSUME LogInv, NEW v \in Viewer, NEW to \in {"read", "wait", "failed"},
         UNCHANGED Outside, stage[v] # "closed", stage' = [stage EXCEPT ![v] = to],
         UNCHANGED <<lastID, got, sent, breaks, browser>>,
         quiet' \in [Viewer -> Nat], \A w \in Viewer \ {v} : quiet'[w] = quiet[w],
         quiet'[v] > 0 => row \in {"ended", "gone"}
  PROVE  LogInv'
<1>1. /\ stage \in [Viewer -> {"closed", "read", "row", "wait", "returned", "failed"}]
  BY DEF LogInv, TypeOK
<1>2. TypeOK'
  <2>1. stage' \in [Viewer -> {"closed", "read", "row", "wait", "returned", "failed"}]
    BY <1>1
  <2> QED
    BY <2>1 DEF LogInv, TypeOK, Outside, table, lines, process, browser
<1>3. ASSUME NEW w \in Viewer PROVE Prefix(w)' /\ Quiet(w)'
  <2>1. CASE w # v
    BY <1>1, <2>1, OtherViewer DEF browser
  <2>2. CASE w = v
    <3>1. UNCHANGED <<row, file, seq, final>> /\ stage'[v] = to
      BY <1>1 DEF Outside, table, lines
    <3>2. Prefix(v)'
      BY <3>1, Known DEF Prefix, browser
    <3>3. Quiet(v)'
      BY <3>1 DEF Quiet
    <3> QED
      BY <2>2, <3>2, <3>3
  <2> QED
    BY <2>1, <2>2
<1> QED
  BY <1>2, <1>3, OutsideStays DEF ViewersInv, browser

\* A reading that fails, and the clock.
LEMMA TickKeeps == ASSUME LogInv, NEW v \in Viewer, ReadFails(v) \/ Tick(v) PROVE LogInv'
<1>1. /\ UNCHANGED Outside /\ stage[v] \in {"read", "wait"}
      /\ UNCHANGED <<lastID, got, quiet, sent, breaks, browser>>
      /\ \E to \in {"read", "wait", "failed"} : stage' = [stage EXCEPT ![v] = to]
  BY DEF ReadFails, Tick, Stage, Outside
<1>2. quiet' \in [Viewer -> Nat] /\ \A w \in Viewer \ {v} : quiet'[w] = quiet[w]
  BY <1>1 DEF LogInv, TypeOK
<1>3. quiet'[v] > 0 => row \in {"ended", "gone"}
  BY <1>1, Known DEF Quiet
<1> QED
  BY <1>1, <1>2, <1>3, StageKeeps

\* The stream asks for the row; after the second empty poll it returns.
LEMMA ReadRowKeeps == ASSUME LogInv, NEW v \in Viewer, ReadRow(v) PROVE LogInv'
<1>1. /\ UNCHANGED Outside /\ stage[v] = "row"
      /\ UNCHANGED <<lastID, got, sent, breaks, browser>>
  BY DEF ReadRow, Stage, Outside
<1>2. quiet \in [Viewer -> Nat]
  BY DEF LogInv, TypeOK
<1>3. CASE row = "gone"
  <2>1. stage' = [stage EXCEPT ![v] = "failed"] /\ quiet' = quiet
    BY <1>3 DEF ReadRow, Stage
  <2> QED
    BY <1>1, <1>2, <1>3, <2>1, StageKeeps
<1>4. CASE row # "gone"
  <2>1. /\ quiet' = [quiet EXCEPT ![v] = Polled(v)]
        /\ stage' = [stage EXCEPT ![v] = IF Enough(v) THEN "returned" ELSE "wait"]
    BY <1>4 DEF ReadRow, Stage
  <2>2. Polled(v) \in Nat /\ (Polled(v) > 0 => row \in {"ended", "gone"})
    BY Known DEF Polled, Terminal, Quiet
  <2>3. /\ quiet' \in [Viewer -> Nat] /\ quiet'[v] = Polled(v)
        /\ \A w \in Viewer \ {v} : quiet'[w] = quiet[w]
    BY <1>2, <2>1, <2>2
  <2>4. CASE ~Enough(v)
    BY <1>1, <2>1, <2>2, <2>3, <2>4, StageKeeps
  <2>5. CASE Enough(v)
    <3>1. /\ stage' = [stage EXCEPT ![v] = "returned"]
          /\ stage \in [Viewer -> {"closed", "read", "row", "wait", "returned", "failed"}]
      BY <2>1, <2>5 DEF LogInv, TypeOK
    <3>2. ~got[v] /\ quiet[v] > 0 /\ Polled(v) > 0 /\ row = "ended"
      BY <2>5, Known DEF Enough, Polled, Terminal
    <3>3. Caught(v)
      BY <1>1, <3>2, Known DEF Quiet
    <3>4. TypeOK'
      <4>1. stage' \in [Viewer -> {"closed", "read", "row", "wait", "returned", "failed"}]
        BY <3>1
      <4> QED
        BY <1>1, <2>3, <4>1 DEF LogInv, TypeOK, Outside, table, lines, process, browser
    <3>5. ASSUME NEW w \in Viewer PROVE Prefix(w)' /\ Quiet(w)'
      <4>1. CASE w # v
        BY <1>1, <2>3, <3>1, <4>1, OtherViewer DEF browser
      <4>2. CASE w = v
        <5>1. UNCHANGED <<row, file, seq, final>> /\ stage'[v] = "returned"
          BY <1>1, <3>1 DEF Outside, table, lines
        <5>2. Prefix(v)'
          BY <1>1, <5>1, Known DEF Prefix, browser
        <5>3. Caught(v)'
          BY <1>1, <3>3, <5>1 DEF Caught
        <5>4. Quiet(v)'
          BY <2>3, <3>2, <5>1, <5>3 DEF Quiet
        <5> QED
          BY <4>2, <5>2, <5>4
      <4> QED
        BY <4>1, <4>2
    <3> QED
      BY <1>1, <3>4, <3>5, OutsideStays DEF ViewersInv, browser
  <2> QED
    BY <2>4, <2>5
<1> QED
  BY <1>3, <1>4

\* A connection ends and what was on its way is lost; the tab may have been
\* shown one more line before, or be cleared.
LEMMA DisconnectKeeps ==
  ASSUME LogInv, NEW v \in Viewer, UNCHANGED Outside, Disconnect(v),
         breaks' \in Nat, learned' \in [Viewer -> BOOLEAN],
         dialog' \in [Viewer -> {"closed", "watching", "done", "deaf"}],
         shown' \in [Viewer -> SUBSET Nat], cursor' \in [Viewer -> Nat],
         \A w \in Viewer \ {v} :
           dialog'[w] = dialog[w] /\ shown'[w] = shown[w] /\ cursor'[w] = cursor[w],
         dialog'[v] = "done" => dialog[v] = "done" \/ final # 0,
         cursor'[v] <= seq /\ shown'[v] = {n \in file : n <= cursor'[v]}
  PROVE  LogInv'
<1>1. /\ stage \in [Viewer -> {"closed", "read", "row", "wait", "returned", "failed"}]
      /\ sent \in [Viewer -> SUBSET Nat]
  BY DEF LogInv, TypeOK
<1>2. /\ stage' = [stage EXCEPT ![v] = "closed"] /\ sent' = [sent EXCEPT ![v] = {}]
      /\ UNCHANGED <<lastID, got, quiet>>
  BY DEF Disconnect
<1>3. TypeOK'
  <2>1. /\ stage' \in [Viewer -> {"closed", "read", "row", "wait", "returned", "failed"}]
        /\ sent' \in [Viewer -> SUBSET Nat]
    BY <1>1, <1>2
  <2> QED
    BY <1>2, <2>1 DEF LogInv, TypeOK, Outside, table, lines, process
<1>4. ASSUME NEW w \in Viewer PROVE Prefix(w)' /\ Quiet(w)'
  <2>1. CASE w # v
    <3>1. stage'[w] = stage[w] /\ sent'[w] = sent[w]
      BY <1>1, <1>2, <2>1
    <3> QED
      BY <1>2, <2>1, <3>1, OtherViewer
  <2>2. CASE w = v
    <3>1. UNCHANGED <<row, file, seq, final>> /\ stage'[v] = "closed" /\ sent'[v] = {}
      BY <1>1, <1>2 DEF Outside, table, lines
    <3>2. Prefix(v)'
      BY <3>1 DEF Prefix
    <3>3. Quiet(v)'
      BY <1>2, <3>1, Known DEF Quiet
    <3> QED
      BY <2>2, <3>2, <3>3
  <2> QED
    BY <2>1, <2>2
<1>5. \A w \in Viewer : dialog'[w] = "done" => dialog[w] = "done" \/ final # 0
  OBVIOUS
<1> QED
  BY <1>3, <1>4, <1>5, OutsideStays DEF ViewersInv

\* What is known of the tabs.
LEMMA Tabs ==
  ASSUME LogInv
  PROVE  /\ dialog \in [Viewer -> {"closed", "watching", "done", "deaf"}]
         /\ shown \in [Viewer -> SUBSET Nat] /\ cursor \in [Viewer -> Nat]
         /\ learned \in [Viewer -> BOOLEAN]
         /\ breaks \in Nat /\ stage \in [Viewer -> {"closed", "read", "row", "wait", "returned", "failed"}]
         /\ sent \in [Viewer -> SUBSET Nat]
  BY DEF LogInv, TypeOK

\* A connection breaks or is refused, or the dialog is closed.
LEMMA BreakKeeps ==
  ASSUME LogInv, NEW v \in Viewer, Break(v) \/ Refused(v) \/ CloseDialog(v)
  PROVE  LogInv'
<1>1. /\ UNCHANGED Outside /\ Disconnect(v) /\ UNCHANGED <<shown, cursor, learned>>
      /\ breaks' = breaks \/ breaks' = breaks + 1
      /\ \/ dialog' = dialog \/ dialog' = [dialog EXCEPT ![v] = "closed"]
         \/ dialog' = [dialog EXCEPT ![v] = "deaf"]
  BY DEF Break, Refused, CloseDialog, Outside, browser
<1>2. /\ breaks' \in Nat /\ dialog' \in [Viewer -> {"closed", "watching", "done", "deaf"}]
      /\ \A w \in Viewer \ {v} : dialog'[w] = dialog[w]
      /\ dialog'[v] = "done" => dialog[v] = "done"
  BY <1>1, Tabs
<1>3. cursor[v] <= seq /\ shown[v] = {n \in file : n <= cursor[v]}
  BY Known DEF Prefix
<1> QED
  BY <1>1, <1>2, <1>3, Tabs, DisconnectKeeps

\* The dialog is opened and begins from nothing.
LEMMA OpenDialogKeeps == ASSUME LogInv, NEW v \in Viewer, OpenDialog(v) PROVE LogInv'
<1>1. /\ UNCHANGED Outside /\ UNCHANGED streams /\ dialog[v] = "closed"
      /\ dialog' = [dialog EXCEPT ![v] = "watching"]
      /\ shown' = [shown EXCEPT ![v] = {}] /\ cursor' = [cursor EXCEPT ![v] = 0]
      /\ learned' = [learned EXCEPT ![v] = FALSE]
  BY DEF OpenDialog, Outside
<1>2. stage[v] = "closed" /\ sent[v] = {}
  BY <1>1, Known DEF Prefix
<1>3. Disconnect(v) /\ breaks' = breaks
  <2>1. [stage EXCEPT ![v] = "closed"] = stage /\ [sent EXCEPT ![v] = {}] = sent
    BY <1>2, Tabs
  <2> QED
    BY <1>1, <2>1 DEF Disconnect, streams
<1>4. /\ dialog' \in [Viewer -> {"closed", "watching", "done", "deaf"}]
      /\ shown' \in [Viewer -> SUBSET Nat] /\ cursor' \in [Viewer -> Nat]
      /\ learned' \in [Viewer -> BOOLEAN]
      /\ dialog'[v] = "watching" /\ cursor'[v] = 0 /\ shown'[v] = {}
      /\ \A w \in Viewer \ {v} :
           dialog'[w] = dialog[w] /\ shown'[w] = shown[w] /\ cursor'[w] = cursor[w]
  BY <1>1, Tabs
<1>5. 0 <= seq /\ {} = {n \in file : n <= 0}
  BY Known
<1> QED
  BY <1>1, <1>3, <1>4, <1>5, Tabs, DisconnectKeeps

\* The next line arrives: of all that can be read it is the first the tab does
\* not show.
LEMMA Arrival ==
  ASSUME LogInv, NEW v \in Viewer, NEW n \in sent[v], \A m \in sent[v] : n <= m
  PROVE  /\ stage[v] # "closed" /\ n \in file /\ n \in Nat /\ cursor[v] < n
         /\ n <= lastID[v] /\ lastID[v] <= seq
         /\ shown[v] \cup {n} = {m \in file : m <= n}
         /\ sent[v] \ {n} = {m \in file : n < m /\ m <= lastID[v]}
<1>1. /\ stage[v] # "closed" /\ shown[v] = {m \in file : m <= cursor[v]}
      /\ lastID[v] <= seq /\ cursor[v] <= lastID[v]
      /\ sent[v] = {m \in file : cursor[v] < m /\ m <= lastID[v]}
  BY Known DEF Prefix
<1>2. /\ cursor[v] \in Nat /\ lastID[v] \in Nat /\ seq \in Nat
      /\ \A m \in file : m \in Nat
  BY Known
<1>3. n \in file /\ n \in Nat /\ cursor[v] < n /\ n <= lastID[v]
  BY <1>1, <1>2
<1>4. \A m \in file : cursor[v] < m /\ m <= lastID[v] => n <= m
  BY <1>1
<1>5. \A m \in file : m <= n <=> m <= cursor[v] \/ m = n
  BY <1>2, <1>3, <1>4
<1>6. \A m \in file : (n < m /\ m <= lastID[v]) <=> (cursor[v] < m /\ m <= lastID[v] /\ m # n)
  <2>1. \A m \in file : n < m => cursor[v] < m /\ m # n
    BY <1>2, <1>3
  <2>2. \A m \in file : cursor[v] < m /\ m <= lastID[v] /\ m # n => n < m
    BY <1>2, <1>3, <1>4
  <2> QED
    BY <2>1, <2>2
<1>7. shown[v] \cup {n} = {m \in file : m <= n}
  BY <1>1, <1>3, <1>5
<1>8. sent[v] \ {n} = {m \in file : n < m /\ m <= lastID[v]}
  BY <1>1, <1>6
<1> QED
  BY <1>1, <1>3, <1>7, <1>8

\* A line arrives; the final one closes the stream.
LEMMA ReceiveKeeps == ASSUME LogInv, NEW v \in Viewer, Receive(v) PROVE LogInv'
<1>1. UNCHANGED Outside /\ UNCHANGED <<breaks, learned>>
  BY DEF Receive, Outside
<1>2. PICK n \in sent[v] :
        /\ \A m \in sent[v] : n <= m
        /\ shown' = [shown EXCEPT ![v] = @ \cup {n}]
        /\ cursor' = [cursor EXCEPT ![v] = n]
        /\ \/ /\ n # final /\ sent' = [sent EXCEPT ![v] = @ \ {n}]
              /\ UNCHANGED <<dialog, stage, lastID, got, quiet>>
           \/ /\ n = final /\ dialog' = [dialog EXCEPT ![v] = "done"]
              /\ Disconnect(v)
  BY DEF Receive
<1>3. /\ stage[v] # "closed" /\ n \in file /\ n \in Nat /\ cursor[v] < n
      /\ n <= lastID[v] /\ lastID[v] <= seq
      /\ shown[v] \cup {n} = {m \in file : m <= n}
      /\ sent[v] \ {n} = {m \in file : n < m /\ m <= lastID[v]}
  BY <1>2, Arrival
<1>4. /\ shown' \in [Viewer -> SUBSET Nat] /\ cursor' \in [Viewer -> Nat]
      /\ shown'[v] = shown[v] \cup {n} /\ cursor'[v] = n
      /\ \A w \in Viewer \ {v} : shown'[w] = shown[w] /\ cursor'[w] = cursor[w]
  BY <1>2, <1>3, Tabs
<1>5. n <= seq /\ n # 0
  BY <1>3, Known
<1>6. CASE n = final
  <2>1. dialog' = [dialog EXCEPT ![v] = "done"] /\ Disconnect(v)
    BY <1>2, <1>6
  <2>2. /\ dialog' \in [Viewer -> {"closed", "watching", "done", "deaf"}]
        /\ \A w \in Viewer \ {v} : dialog'[w] = dialog[w]
    BY <2>1, Tabs
  <2> QED
    BY <1>1, <1>3, <1>4, <1>5, <1>6, <2>1, <2>2, Tabs, DisconnectKeeps
<1>7. CASE n # final
  <2>1. /\ sent' = [sent EXCEPT ![v] = @ \ {n}]
        /\ UNCHANGED <<dialog, stage, lastID, got, quiet>>
    BY <1>2, <1>7
  <2>2. /\ sent' \in [Viewer -> SUBSET Nat] /\ sent'[v] = sent[v] \ {n}
        /\ \A w \in Viewer \ {v} : sent'[w] = sent[w]
    BY <2>1, Tabs
  <2>3. TypeOK'
    BY <1>1, <1>4, <2>1, <2>2 DEF LogInv, TypeOK, Outside, table, lines, process
  <2>4. ASSUME NEW w \in Viewer PROVE Prefix(w)' /\ Quiet(w)'
    <3>1. CASE w # v
      BY <1>1, <1>4, <2>1, <2>2, <3>1, OtherViewer
    <3>2. CASE w = v
      <4>1. UNCHANGED <<row, file, seq, final>>
        BY <1>1 DEF Outside, table, lines
      <4>2. dialog[v] = "watching"
        BY <1>3, Known DEF Prefix
      <4>3. Prefix(v)'
        BY <1>3, <1>4, <1>5, <2>1, <2>2, <4>1, <4>2 DEF Prefix
      <4>4. Caught(v)' = Caught(v)
        BY <2>1, <4>1 DEF Caught
      <4>5. Quiet(v)'
        BY <2>1, <4>1, <4>4, Known DEF Quiet
      <4> QED
        BY <3>2, <4>3, <4>5
    <3> QED
      BY <3>1, <3>2
  <2> QED
    BY <1>1, <2>1, <2>3, <2>4, OutsideStays DEF ViewersInv
<1> QED
  BY <1>6, <1>7

\* The tab reads the row.
LEMMA PollKeeps == ASSUME LogInv, NEW v \in Viewer, Poll(v) PROVE LogInv'
<1>1. /\ UNCHANGED Outside /\ UNCHANGED <<streams, dialog, shown, cursor>>
      /\ learned' = [learned EXCEPT ![v] = TRUE]
  BY DEF Poll, Outside
<1>2. TypeOK'
  <2>1. learned' \in [Viewer -> BOOLEAN]
    BY <1>1, Tabs
  <2> QED
    BY <1>1, <2>1 DEF LogInv, TypeOK, Outside, table, lines, process, streams
<1>3. ViewersInv'
  BY <1>1, OtherViewer DEF ViewersInv, streams
<1> QED
  BY <1>1, <1>2, <1>3, OutsideStays

-----------------------------------------------------------------------------
(***************************************************************************)
(* Retention, death and restart.                                           *)
(***************************************************************************)
\* The row goes; the file stays for now.
LEMMA PurgeKeeps == LogInv /\ DeleteTerminalOperationsBefore => LogInv'
<1> SUFFICES ASSUME LogInv, DeleteTerminalOperationsBefore PROVE LogInv'
  OBVIOUS
<1>1. /\ up /\ row = "ended" /\ row' = "gone" /\ purge' = TRUE /\ writer \in {"over", "dead"}
      /\ UNCHANGED <<lost, lines, writer, up, restarts, streams, browser>>
  BY DEF DeleteTerminalOperationsBefore, Terminal
<1>2. ViewersInv'
  BY <1>1, ViewersStay DEF lines
<1>3. TypeOK'
  BY <1>1 DEF LogInv, TypeOK, lines, streams, browser
<1>4. WriterInv'
  BY <1>1 DEF LogInv, WriterInv, lines
<1>5. HistoryKeepsLog' /\ DoneIsOnRecord'
  BY <1>1 DEF HistoryKeepsLog, DoneIsOnRecord
<1> QED
  BY <1>2, <1>3, <1>4, <1>5 DEF LogInv, ViewersInv

\* The file of a row that is gone goes.
LEMMA RemoveKeeps == LogInv /\ RemoveLog => LogInv'
<1> SUFFICES ASSUME LogInv, RemoveLog PROVE LogInv'
  OBVIOUS
<1>1. /\ purge /\ purge' = FALSE /\ exists' \in {FALSE, exists}
      /\ UNCHANGED <<table, seq, file, torn, long, final, writer, up, restarts,
                     streams, browser>>
  BY DEF RemoveLog
<1>2. row = "gone" /\ writer \in {"over", "dead"}
  BY <1>1 DEF LogInv, WriterInv
<1>3. ViewersInv'
  BY <1>1, ViewersStay DEF table
<1>4. TypeOK'
  BY <1>1 DEF LogInv, TypeOK, table, streams, browser
<1>5. WriterInv'
  BY <1>1, <1>2 DEF LogInv, WriterInv, table
<1>6. HistoryKeepsLog' /\ DoneIsOnRecord'
  BY <1>1, <1>2 DEF HistoryKeepsLog, DoneIsOnRecord, table
<1> QED
  BY <1>3, <1>4, <1>5, <1>6 DEF LogInv, ViewersInv

\* The process dies with its streams.
LEMMA CrashKeeps == LogInv /\ Crash => LogInv'
<1> SUFFICES ASSUME LogInv, Crash PROVE LogInv'
  OBVIOUS
<1>1. /\ up' = FALSE /\ restarts' = restarts + 1 /\ purge' = FALSE
      /\ writer' = IF writer = "over" THEN writer ELSE "dead"
      /\ stage' = [v \in Viewer |-> "closed"] /\ sent' = [v \in Viewer |-> {}]
      /\ UNCHANGED <<table, lines, lastID, got, quiet, breaks, browser>>
  BY DEF Crash
<1>2. TypeOK'
  <2>1. /\ stage' \in [Viewer -> {"closed", "read", "row", "wait", "returned", "failed"}]
        /\ sent' \in [Viewer -> SUBSET Nat]
    BY <1>1
  <2>2. restarts \in Nat /\ restarts' \in Nat
    BY <1>1 DEF LogInv, TypeOK
  <2>3. writer' = "over" \/ writer' = "dead"
    BY <1>1
  <2>4. writer' \in Writer
    BY <2>3 DEF Writer
  <2> QED
    BY <1>1, <2>1, <2>2, <2>4 DEF LogInv, TypeOK, table, lines, browser
<1>3. ASSUME NEW v \in Viewer PROVE Prefix(v)' /\ Quiet(v)'
  <2>1. stage'[v] = "closed" /\ sent'[v] = {} /\ UNCHANGED <<row, file, seq, final>>
    BY <1>1 DEF table, lines
  <2>2. Prefix(v)'
    BY <1>1, <2>1, Known DEF Prefix, browser
  <2>3. Quiet(v)'
    BY <1>1, <2>1, Known DEF Quiet
  <2> QED
    BY <2>2, <2>3
<1>4. WriterInv'
  BY <1>1 DEF LogInv, WriterInv, table, lines
<1>5. HistoryKeepsLog' /\ DoneIsOnRecord'
  BY <1>1 DEF LogInv, HistoryKeepsLog, DoneIsOnRecord, table, lines, browser
<1> QED
  BY <1>2, <1>3, <1>4, <1>5 DEF LogInv

\* The next process ends the row.
LEMMA RestartKeeps == LogInv /\ Restart => LogInv'
<1> SUFFICES ASSUME LogInv, Restart PROVE LogInv'
  OBVIOUS
<1>1. /\ ~up /\ up' = TRUE
      /\ row' = IF row \in {"queued", "running"} THEN "ended" ELSE row
      /\ UNCHANGED <<lost, lines, writer, purge, restarts, streams, browser>>
  BY DEF Restart
<1>2. writer \in {"over", "dead"}
  BY <1>1 DEF LogInv, WriterInv
<1>3. ViewersInv'
  BY <1>1, ViewersStay DEF lines
<1>4. TypeOK'
  BY <1>1 DEF LogInv, TypeOK, lines, streams, browser
<1>5. WriterInv'
  BY <1>1, <1>2 DEF LogInv, WriterInv, lines
<1>6. HistoryKeepsLog' /\ DoneIsOnRecord'
  BY <1>1 DEF LogInv, HistoryKeepsLog, DoneIsOnRecord, lines, browser
<1> QED
  BY <1>3, <1>4, <1>5, <1>6 DEF LogInv, ViewersInv

-----------------------------------------------------------------------------
(***************************************************************************)
(* The theorems.                                                           *)
(***************************************************************************)
\* Every step keeps the invariant.
LEMMA StepKeeps == LogInv /\ [Next]_vars => LogInv'
<1> SUFFICES ASSUME LogInv, [Next]_vars PROVE LogInv'
  OBVIOUS
<1>1. CASE Run \/ SetStage \/ Emit
  BY <1>1, OpenLogKeeps, BeginKeeps, LineKeeps, OutcomeKeeps, FinishKeeps, WriteFinalKeeps
     DEF Run
<1>2. ASSUME NEW v \in Viewer, Work(v) \/ Refused(v) \/ Break(v) \/ OpenDialog(v) \/ CloseDialog(v)
      PROVE  LogInv'
  BY <1>2, ConnectKeeps, ReadEventsKeeps, TickKeeps, ReadRowKeeps, ReceiveKeeps, PollKeeps,
     BreakKeeps, OpenDialogKeeps DEF Work, Stream
<1>3. CASE DeleteTerminalOperationsBefore \/ RemoveLog \/ Crash \/ Restart
  BY <1>3, PurgeKeeps, RemoveKeeps, CrashKeeps, RestartKeeps
<1>4. CASE UNCHANGED vars
  <2>1. UNCHANGED Outside /\ UNCHANGED <<streams, browser>>
    BY <1>4 DEF vars, Outside
  <2>2. TypeOK'
    BY <2>1 DEF LogInv, TypeOK, Outside, table, lines, process, streams, browser
  <2>3. ViewersInv'
    BY <2>1, OtherViewer DEF ViewersInv, streams, browser
  <2> QED
    BY <2>1, <2>2, <2>3, OutsideStays DEF browser
<1> QED
  BY <1>1, <1>2, <1>3, <1>4 DEF Next

\* Type correctness and the invariant, for every number of viewers.
THEOREM LogInvariant == Spec => []LogInv
<1> QED
  BY InitLog, StepKeeps, PTL DEF Spec

\* A stream that returned because an ended operation was quiet has sent every
\* line but at most the final one (operationEvents, terminalEmptyPolls).
THEOREM ReturnsInTime == Spec => []ReturnedMissesOnlyFinal
<1>1. LogInv => ReturnedMissesOnlyFinal
  BY DEF LogInv, Quiet, Caught, ReturnedMissesOnlyFinal
<1> QED
  BY <1>1, LogInvariant, PTL

\* Who was told the end finds it in the row (finishLogged).
THEOREM DoneIsRecorded == Spec => []DoneIsOnRecord
<1>1. LogInv => DoneIsOnRecord
  BY DEF LogInv
<1> QED
  BY <1>1, LogInvariant, PTL

\* A listed operation has its log (cleanupOperations).
THEOREM HistoryIsReadable == Spec => []HistoryKeepsLog
<1>1. LogInv => HistoryKeepsLog
  BY DEF LogInv
<1> QED
  BY <1>1, LogInvariant, PTL

\* A line of the file is a publication, if it can be read at all.
LEMMA WriteIsPublish ==
  ASSUME LogInv, Write, UNCHANGED shown
  PROVE  [Feed!Next]_<<file, shown>>
<1>1. CASE file' = file
  BY <1>1
<1>2. CASE file' = file \cup {seq + 1}
  <2>1. \A m \in file : m < seq + 1
    BY DEF LogInv, TypeOK
  <2>2. Feed!Publish
    BY <1>2, <2>1 DEF Feed!Publish
  <2> QED
    BY <2>2 DEF Feed!Next
<1> QED
  BY <1>1, <1>2, WriteKeepsTypes DEF LogInv

\* What arrives is the first line the tab does not show.
LEMMA ReceiveIsAdvance ==
  ASSUME LogInv, NEW v \in Viewer, Receive(v)
  PROVE  Feed!Next
<1>1. UNCHANGED file
  BY DEF Receive, lines
<1>2. PICK n \in sent[v] :
        /\ \A m \in sent[v] : n <= m
        /\ shown' = [shown EXCEPT ![v] = @ \cup {n}]
  BY DEF Receive
<1>3. /\ n \in file /\ n \in Nat /\ cursor[v] < n /\ n <= lastID[v]
      /\ stage[v] # "closed"
  BY <1>2, Arrival
<1>4. /\ shown[v] = {m \in file : m <= cursor[v]}
      /\ sent[v] = {m \in file : cursor[v] < m /\ m <= lastID[v]}
      /\ cursor[v] \in Nat /\ lastID[v] \in Nat /\ \A m \in file : m \in Nat
  BY <1>3, Known DEF Prefix
<1>5. n \in file \ shown[v]
  BY <1>3, <1>4
<1>6. \A m \in file \ shown[v] : n <= m
  <2>1. SUFFICES ASSUME NEW m \in file, m \notin shown[v] PROVE n <= m
    OBVIOUS
  <2>2. m \in Nat /\ cursor[v] < m
    BY <1>4, <2>1
  <2>3. CASE m <= lastID[v]
    BY <1>2, <1>4, <2>2, <2>3
  <2>4. CASE ~(m <= lastID[v])
    BY <1>3, <1>4, <2>2, <2>4
  <2> QED
    BY <2>3, <2>4
<1>7. Feed!Advance(v)
  BY <1>1, <1>2, <1>5, <1>6 DEF Feed!Advance
<1> QED
  BY <1>7 DEF Feed!Next

\* Every step is a step of the feed or leaves it alone.
LEMMA StepIsFeed == LogInv /\ [Next]_vars => [Feed!Next]_<<file, shown>>
<1> SUFFICES ASSUME LogInv, [Next]_vars PROVE [Feed!Next]_<<file, shown>>
  OBVIOUS
<1>1. CASE WriteBegun \/ Emit \/ WriteFinal
  BY <1>1, WriteIsPublish DEF WriteBegun, Emit, WriteFinal, browser
<1>2. CASE OpenLog \/ Begin \/ SetStage \/ Outcome \/ Finish
  BY <1>2 DEF OpenLog, Begin, SetStage, Outcome, Finish, lines, browser
<1>3. ASSUME NEW v \in Viewer,
             Connect(v) \/ Stream(v) \/ Poll(v) \/ Refused(v) \/ Break(v) \/ CloseDialog(v)
      PROVE  UNCHANGED <<file, shown>>
  <2>1. CASE Connect(v) \/ Poll(v) \/ Refused(v) \/ Break(v) \/ CloseDialog(v)
    BY <2>1 DEF Connect, Stage, Poll, Refused, Break, CloseDialog, lines, browser
  <2>2. CASE Stream(v)
    BY <2>2 DEF Stream, ReadEvents, ReadFails, ReadRow, Tick, Stage, lines, browser
  <2> QED
    BY <1>3, <2>1, <2>2
<1>4. ASSUME NEW v \in Viewer, Receive(v) PROVE Feed!Next
  BY <1>4, ReceiveIsAdvance
<1>5. ASSUME NEW v \in Viewer, OpenDialog(v) PROVE Feed!Next
  BY <1>5 DEF OpenDialog, lines, Feed!Next, Feed!Reopen
<1>6. CASE DeleteTerminalOperationsBefore \/ RemoveLog \/ Crash \/ Restart
  BY <1>6 DEF DeleteTerminalOperationsBefore, RemoveLog, Crash, Restart, lines, browser
<1>7. CASE UNCHANGED vars
  BY <1>7 DEF vars, lines, browser
<1> QED
  BY <1>1, <1>2, <1>3, <1>4, <1>5, <1>6, <1>7 DEF Next, Run, Work

\* The log and its streams implement the feed: whoever watches sees every
\* readable line, in order and from the first, whatever breaks.
THEOREM ImplementsFeed == Spec => FeedSpec
<1>1. Init => Feed!Init
  BY DEF Init, Feed!Init
<1> QED
  BY <1>1, LogInvariant, StepIsFeed, PTL DEF Spec, FeedSpec, Feed!Spec

=============================================================================
