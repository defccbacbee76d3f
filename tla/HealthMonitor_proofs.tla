------------------------ MODULE HealthMonitor_proofs ------------------------
(***************************************************************************)
(* Proofs about HealthMonitor: one open alert per outage, and no alert for *)
(* a service that never stopped answering.                                 *)
(***************************************************************************)
EXTENDS HealthMonitor, TLAPS

\* What a job does after its probe leaves rows and list alone, and ends the
\* job or goes on to a write.
Recorded(j) == RecordFailure(j) \/ RecordRecovery(j) \/ Resolve(j) \/ CreateNotification(j)

-----------------------------------------------------------------------------
(* Jobs *)

\* A free job is a record of the right type,
LEMMA FreeTyped == Free \in JobRecord
  BY DEF Free, JobRecord, None

\* and so is one that begins.
LEMMA ProbingTyped ==
  ASSUME NEW e \in Env, NEW S
  PROVE  /\ Probing(e, e \in S) \in JobRecord
         /\ Probing(e, e \in S).pc = "probe" /\ Probing(e, e \in S).env = e
  BY DEF Probing, JobRecord, Free

\* Then sets a job free or gives it its next step, with the rest as it was.
LEMMA ThenSets ==
  ASSUME TypeOK, NEW j \in Job, NEW pc \in {"free", "resolve", "alert"}, Then(j, pc)
  PROVE  /\ job' \in [Job -> JobRecord]
         /\ job'[j].pc = pc
         /\ job'[j] = Free \/ (job'[j].env = job[j].env /\ pc # "free")
         /\ \A i \in Job : i # j => job'[i] = job[i]
<1>1. CASE pc = "free"
  <2>1. job' = [job EXCEPT ![j] = Free]
    BY <1>1 DEF Then
  <2> QED
    BY <1>1, <2>1, FreeTyped DEF Free, TypeOK
<1>2. CASE pc # "free"
  <2>1. job' = [job EXCEPT ![j] = [job[j] EXCEPT !.pc = pc]]
    BY <1>2 DEF Then
  <2>2. /\ [job[j] EXCEPT !.pc = pc] \in JobRecord
        /\ [job[j] EXCEPT !.pc = pc].pc = pc /\ [job[j] EXCEPT !.pc = pc].env = job[j].env
    BY DEF TypeOK, JobRecord
  <2> QED
    BY <1>2, <2>1, <2>2 DEF TypeOK
<1> QED
  BY <1>1, <1>2

\* Four of the five steps of a job end it or lead to a write.
LEMMA RecordedThen ==
  ASSUME MonitorInv, NEW j \in Job, Recorded(j)
  PROVE  /\ \E pc \in {"free", "resolve", "alert"} : Then(j, pc)
         /\ job[j].pc \in {"record", "resolve", "alert"} /\ job[j].env \in Env
         /\ UNCHANGED <<rows, cancelled, restarts, list>>
         /\ disturbed \subseteq disturbed'
<1>1. CASE RecordFailure(j)
  BY <1>1 DEF RecordFailure, MonitorInv
<1>2. CASE RecordRecovery(j)
  BY <1>2 DEF RecordRecovery, RecordHealthy, MonitorInv
<1>3. CASE Resolve(j)
  BY <1>3 DEF Resolve, MonitorInv
<1>4. CASE CreateNotification(j)
  BY <1>4 DEF CreateNotification, MonitorInv
<1> QED
  BY <1>1, <1>2, <1>3, <1>4 DEF Recorded

\* A probe changes the job alone.
LEMMA ProbeSets ==
  ASSUME MonitorInv, NEW j \in Job, Probe(j)
  PROVE  /\ job' \in [Job -> JobRecord]
         /\ job[j].pc = "probe" /\ job'[j].pc = "record" /\ job'[j].env = job[j].env
         /\ job'[j].installed = job[j].installed /\ job'[j].ok \in Answers(j)
         /\ \A i \in Job : i # j => job'[i] = job[i]
         /\ UNCHANGED <<rows, open, maps, cancelled, restarts, list, disturbed>>
<1>1. PICK ok \in Answers(j) : job' = [job EXCEPT ![j].pc = "record", ![j].ok = ok]
  BY DEF Probe
<1>2. ok \in BOOLEAN
  BY DEF Answers
<1> DEFINE J == [job[j] EXCEPT !.pc = "record", !.ok = ok]
<1>3. /\ J \in JobRecord /\ J.pc = "record" /\ J.env = job[j].env
      /\ J.installed = job[j].installed /\ J.ok = ok
  BY <1>2 DEF MonitorInv, TypeOK, JobRecord
<1>4. job' = [job EXCEPT ![j] = J]
  BY <1>1 DEF MonitorInv, TypeOK
<1> QED
  BY <1>3, <1>4 DEF Probe, MonitorInv, TypeOK

-----------------------------------------------------------------------------
(* MonitorInv *)

\* The initial states satisfy the invariant.
LEMMA InitMonitor == Init => MonitorInv
<1> SUFFICES ASSUME Init PROVE MonitorInv
  OBVIOUS
<1>1. job \in [Job -> JobRecord] /\ \A j \in Job : job[j] = Free
  BY FreeTyped DEF Init
<1>2. /\ open = [e \in Env |-> 0] /\ results = [e \in Env |-> None]
      /\ failures = [e \in Env |-> 0] /\ restarts = 0
  BY DEF Init
<1>3. /\ open \in [Env -> Nat] /\ results \in [Env -> {None, "ok", "failed", "unknown"}]
      /\ failures \in [Env -> 0..Threshold] /\ restarts \in 0..MaxRestarts
      /\ OneOpenAlert
  BY <1>2, RestartsAssumption DEF Threshold, OneOpenAlert
<1>4. /\ live \subseteq Env /\ installed \subseteq live /\ serving \subseteq Env
      /\ alerted \subseteq Env /\ healthy \subseteq Env /\ disturbed \subseteq Env
      /\ cancelled \in BOOLEAN /\ sweeping \in BOOLEAN
      /\ listed \subseteq Env /\ todo \subseteq listed /\ asInstalled \subseteq listed
  BY DEF Init
<1>5. TypeOK
  BY <1>1, <1>3, <1>4 DEF TypeOK
<1>6. \A j \in Job : job[j].pc = "free"
  BY <1>1 DEF Free
<1>7. todo = {}
  BY DEF Init
<1> QED
  BY <1>1, <1>3, <1>5, <1>6, <1>7 DEF MonitorInv, Job

\* The steps of jobs.
LEMMA TakeMonitor ==
  ASSUME MonitorInv, NEW w \in Worker, NEW e \in Env, TakeJob(w, e)
  PROVE  MonitorInv'
<1>1. w \in Job /\ w \notin Client
  BY JobAssumption DEF Job
<1>2. /\ job' = [job EXCEPT ![w] = Probing(e, e \in asInstalled)]
      /\ todo' = todo \ {e} /\ e \in todo
      /\ UNCHANGED <<rows, open, maps, cancelled, restarts, sweeping, listed, asInstalled, disturbed>>
  BY DEF TakeJob
<1>3. /\ job' \in [Job -> JobRecord] /\ job'[w].env = e
      /\ \A i \in Job : i # w => job'[i] = job[i]
  <2> DEFINE P == Probing(e, e \in asInstalled)
  <2>1. P \in JobRecord /\ P.pc = "probe" /\ P.env = e
    BY ProbingTyped
  <2>2. job \in [Job -> JobRecord] /\ job' = [job EXCEPT ![w] = P]
    BY <1>2 DEF MonitorInv, TypeOK
  <2> HIDE DEF P
  <2> QED
    BY <1>1, <2>1, <2>2
<1>4. TypeOK' /\ OneOpenAlert'
  BY <1>2, <1>3 DEF MonitorInv, TypeOK, OneOpenAlert, rows, maps
<1>5. sweeping
  BY <1>2 DEF MonitorInv
<1>6. \A c \in Client : job'[c] # Free => job'[c].env \in disturbed'
  BY <1>1, <1>2, <1>3 DEF MonitorInv, Job
<1>7. \A j \in Job : job'[j].pc # "free" => job'[j].env \in Env
  BY <1>3 DEF MonitorInv
<1> QED
  BY <1>2, <1>4, <1>5, <1>6, <1>7 DEF MonitorInv

\* A manual check takes a free job for an installed environment.
LEMMA CheckNowMonitor ==
  ASSUME MonitorInv, NEW c \in Client, NEW e \in Env, CheckNow(c, e)
  PROVE  MonitorInv'
<1>1. c \in Job /\ c \notin Worker
  BY JobAssumption DEF Job
<1>2. /\ job' = [job EXCEPT ![c] = Probing(e, e \in installed)]
      /\ disturbed' = disturbed \union {e}
      /\ UNCHANGED <<rows, open, maps, cancelled, restarts, list>>
  BY DEF CheckNow
<1>3. /\ job' \in [Job -> JobRecord] /\ job'[c].env = e
      /\ \A i \in Job : i # c => job'[i] = job[i]
  <2> DEFINE P == Probing(e, e \in installed)
  <2>1. P \in JobRecord /\ P.pc = "probe" /\ P.env = e
    BY ProbingTyped
  <2>2. job \in [Job -> JobRecord] /\ job' = [job EXCEPT ![c] = P]
    BY <1>2 DEF MonitorInv, TypeOK
  <2> HIDE DEF P
  <2> QED
    BY <1>1, <2>1, <2>2
<1>4. TypeOK' /\ OneOpenAlert'
  BY <1>2, <1>3 DEF MonitorInv, TypeOK, OneOpenAlert, rows, maps, list
<1>5. ~sweeping' => todo' = {} /\ \A w \in Worker : job'[w] = Free
  BY <1>1, <1>2, <1>3 DEF MonitorInv, Job, list
<1>6. \A d \in Client : job'[d] # Free => job'[d].env \in disturbed'
  BY <1>1, <1>2, <1>3 DEF MonitorInv, Job
<1>7. \A j \in Job : job'[j].pc # "free" => job'[j].env \in Env
  BY <1>3 DEF MonitorInv
<1> QED
  BY <1>4, <1>5, <1>6, <1>7 DEF MonitorInv

\* The answer of the service is remembered in the job alone.
LEMMA ProbeMonitor ==
  ASSUME MonitorInv, NEW j \in Job, Probe(j)
  PROVE  MonitorInv'
<1>1. TypeOK' /\ OneOpenAlert'
  BY ProbeSets DEF MonitorInv, TypeOK, OneOpenAlert, rows, maps, list
<1>2. job[j] # Free
  BY ProbeSets DEF Free
<1>3. sweeping \/ j \in Client
  BY <1>2 DEF MonitorInv, Job
<1>4. ~sweeping' => todo' = {} /\ \A w \in Worker : job'[w] = Free
  BY <1>3, ProbeSets, JobAssumption DEF MonitorInv, Job, list
<1>5. \A c \in Client : job'[c] # Free => job'[c].env \in disturbed'
  BY <1>2, ProbeSets DEF MonitorInv, Job
<1>6. \A i \in Job : job'[i].pc # "free" => job'[i].env \in Env
  BY ProbeSets DEF MonitorInv
<1> QED
  BY <1>1, <1>4, <1>5, <1>6 DEF MonitorInv

\* The maps and the notifications keep their types, and one alert stays one.
LEMMA RecordedTypes ==
  ASSUME MonitorInv, NEW j \in Job, Recorded(j)
  PROVE  /\ open' \in [Env -> Nat] /\ OneOpenAlert'
         /\ results' \in [Env -> {None, "ok", "failed", "unknown"}]
         /\ failures' \in [Env -> 0..Threshold]
         /\ alerted' \subseteq Env /\ healthy' \subseteq Env /\ disturbed' \subseteq Env
<1> DEFINE e == job[j].env
<1>1. e \in Env
  BY RecordedThen
<1>2. CASE RecordFailure(j)
  <2>1. /\ results' = [results EXCEPT ![e] = "failed"]
        /\ failures' = [failures EXCEPT ![e] = CountFailure(@)]
        /\ healthy' = healthy \ {e} /\ alerted' \in {alerted, alerted \union {e}}
        /\ UNCHANGED <<open, disturbed>>
    BY <1>2 DEF RecordFailure
  <2>2. CountFailure(failures[e]) \in 0..Threshold
    BY <1>1 DEF MonitorInv, TypeOK, CountFailure, Threshold
  <2> QED
    BY <1>1, <2>1, <2>2 DEF MonitorInv, TypeOK, OneOpenAlert
<1>3. CASE RecordRecovery(j)
  <2>1. /\ results' = [results EXCEPT ![e] = IF job[j].ok THEN "ok" ELSE "unknown"]
        /\ failures' = [failures EXCEPT ![e] = 0]
        /\ alerted' = alerted \ {e} /\ healthy' = healthy \union {e}
        /\ UNCHANGED <<open, disturbed>>
    BY <1>3 DEF RecordRecovery, RecordHealthy
  <2> QED
    BY <1>1, <2>1 DEF MonitorInv, TypeOK, OneOpenAlert, Threshold
<1>4. CASE Resolve(j) \/ CreateNotification(j)
  <2>1. /\ open' \in {open, [open EXCEPT ![e] = 0], [open EXCEPT ![e] = InsertedOrExists(@)]}
        /\ disturbed' \in {disturbed, disturbed \union {e}} /\ UNCHANGED maps
    BY <1>4 DEF Resolve, CreateNotification
  <2>2. InsertedOrExists(open[e]) \in Nat /\ InsertedOrExists(open[e]) <= 1
    BY <1>1 DEF MonitorInv, TypeOK, OneOpenAlert, InsertedOrExists
  <2> QED
    BY <1>1, <2>1, <2>2 DEF MonitorInv, TypeOK, OneOpenAlert, maps
<1> QED
  BY <1>2, <1>3, <1>4 DEF Recorded

\* Recording a result keeps the row, the alert and the events consistent.
LEMMA RecordedMonitor ==
  ASSUME MonitorInv, NEW j \in Job, Recorded(j)
  PROVE  MonitorInv'
<1>1. PICK pc \in {"free", "resolve", "alert"} : Then(j, pc)
  BY RecordedThen
<1>2. /\ job' \in [Job -> JobRecord]
      /\ job'[j] = Free \/ job'[j].env = job[j].env
      /\ \A i \in Job : i # j => job'[i] = job[i]
  BY <1>1, ThenSets DEF MonitorInv
<1>3. job[j] # Free /\ UNCHANGED <<rows, cancelled, restarts, list>> /\ disturbed \subseteq disturbed'
  BY RecordedThen DEF Free
<1>4. TypeOK' /\ OneOpenAlert'
  BY <1>2, <1>3, RecordedTypes DEF MonitorInv, TypeOK, rows, list
<1>5. sweeping \/ j \in Client
  BY <1>3 DEF MonitorInv, Job
<1>6. ~sweeping' => todo' = {} /\ \A w \in Worker : job'[w] = Free
  BY <1>2, <1>3, <1>5, JobAssumption DEF MonitorInv, Job, list
<1>7. \A c \in Client : job'[c] # Free => job'[c].env \in disturbed'
  BY <1>2, <1>3 DEF MonitorInv, Job
<1>8. \A i \in Job : job'[i].pc # "free" => job'[i].env \in Env
  <2>1. job'[j].pc # "free" => job'[j].env \in Env
    BY <1>2, RecordedThen DEF Free
  <2> QED
    BY <1>2, <2>1 DEF MonitorInv
<1> QED
  BY <1>4, <1>6, <1>7, <1>8 DEF MonitorInv

\* The sweep begins, ends and prunes between two checks.
LEMMA SweepMonitor ==
  ASSUME MonitorInv, StartSweep \/ Prune
  PROVE  MonitorInv'
<1>1. CASE StartSweep
  <2>1. /\ sweeping' = TRUE /\ listed' = live /\ todo' = live /\ asInstalled' = installed
        /\ UNCHANGED <<rows, open, maps, cancelled, restarts, job, disturbed>>
    BY <1>1 DEF StartSweep
  <2> QED
    BY <2>1 DEF MonitorInv, TypeOK, OneOpenAlert, rows, maps
<1>2. CASE Prune
  <2>1. /\ todo = {} /\ todo' = {} /\ \A w \in Worker : job[w] = Free
        /\ sweeping' = FALSE /\ listed' = {} /\ asInstalled' = {}
        /\ results' = [e \in Env |-> IF e \in Dropped THEN None ELSE results[e]]
        /\ failures' = [e \in Env |-> IF e \in Dropped THEN 0 ELSE failures[e]]
        /\ alerted' = alerted \ Dropped /\ healthy' = healthy \ Dropped
        /\ UNCHANGED <<rows, open, cancelled, restarts, job, disturbed>>
    BY <1>2 DEF Prune, EndSweep
  <2>2. /\ results' \in [Env -> {None, "ok", "failed", "unknown"}]
        /\ failures' \in [Env -> 0..Threshold]
    BY <2>1 DEF MonitorInv, TypeOK, Threshold
  <2>3. TypeOK' /\ OneOpenAlert'
    BY <2>1, <2>2 DEF MonitorInv, TypeOK, OneOpenAlert, rows
  <2> QED
    BY <2>1, <2>3 DEF MonitorInv
<1> QED
  BY <1>1, <1>2

\* Services, installs, deletions and restarts of DP do not touch a job's
\* type.
LEMMA SurroundingsMonitor ==
  ASSUME MonitorInv,
         \/ \E e \in Env : ServiceToggles(e) \/ OperationEnds(e) \/ DeleteEnvironment(e)
                             \/ ResolveNotification(e)
         \/ Signal \/ Restart \/ UNCHANGED vars
  PROVE  MonitorInv'
<1>1. CASE \E e \in Env : ServiceToggles(e) \/ OperationEnds(e) \/ DeleteEnvironment(e)
  BY <1>1 DEF ServiceToggles, OperationEnds, DeleteEnvironment, MonitorInv, TypeOK,
     OneOpenAlert, maps, list
<1>2. ASSUME NEW e \in Env, ResolveNotification(e)
      PROVE  MonitorInv'
  <2>1. /\ open[e] > 0 /\ open' = [open EXCEPT ![e] = @ - 1]
        /\ disturbed' = disturbed \union {e}
        /\ UNCHANGED <<rows, maps, cancelled, restarts, list, job>>
    BY <1>2 DEF ResolveNotification
  <2>2. TypeOK' /\ OneOpenAlert'
    BY <2>1 DEF MonitorInv, TypeOK, OneOpenAlert, rows, maps, list
  <2> QED
    BY <2>1, <2>2 DEF MonitorInv, list
<1>3. CASE Signal \/ UNCHANGED vars
  BY <1>3 DEF Signal, vars, MonitorInv, TypeOK, OneOpenAlert, rows, maps, list
<1>4. CASE Restart
  <2>1. /\ restarts < MaxRestarts /\ restarts' = restarts + 1 /\ cancelled' = FALSE
        /\ results' = [e \in Env |-> None] /\ failures' = [e \in Env |-> 0]
        /\ alerted' = {} /\ healthy' = {} /\ sweeping' = FALSE /\ listed' = {}
        /\ todo' = {} /\ asInstalled' = {} /\ job' = [j \in Job |-> Free]
        /\ UNCHANGED <<rows, open, disturbed>>
    BY <1>4 DEF Restart
  <2>2. job' \in [Job -> JobRecord] /\ \A j \in Job : job'[j] = Free
    BY <2>1, FreeTyped
  <2>3. /\ results' \in [Env -> {None, "ok", "failed", "unknown"}]
        /\ failures' \in [Env -> 0..Threshold] /\ restarts' \in 0..MaxRestarts
        /\ open' \in [Env -> Nat] /\ OneOpenAlert'
    <3>1. restarts \in 0..MaxRestarts /\ open \in [Env -> Nat] /\ OneOpenAlert
      BY DEF MonitorInv, TypeOK
    <3>2. /\ restarts < MaxRestarts /\ restarts' = restarts + 1 /\ open' = open
          /\ results' = [e \in Env |-> None] /\ failures' = [e \in Env |-> 0]
      BY <2>1
    <3> QED
      BY <3>1, <3>2, RestartsAssumption DEF Threshold, OneOpenAlert
  <2>4. /\ live' \subseteq Env /\ installed' \subseteq live' /\ serving' \subseteq Env
        /\ alerted' \subseteq Env /\ healthy' \subseteq Env /\ disturbed' \subseteq Env
        /\ cancelled' \in BOOLEAN /\ sweeping' \in BOOLEAN
        /\ listed' \subseteq Env /\ todo' \subseteq listed' /\ asInstalled' \subseteq listed'
    BY <2>1 DEF MonitorInv, TypeOK, rows
  <2>5. TypeOK'
    BY <2>2, <2>3, <2>4 DEF TypeOK
  <2> QED
    BY <2>1, <2>2, <2>3, <2>5 DEF MonitorInv, Job, Free
<1> QED
  BY <1>1, <1>2, <1>3, <1>4

\* Every step preserves the invariant.
LEMMA StepMonitor == MonitorInv /\ [Next]_vars => MonitorInv'
  BY TakeMonitor, CheckNowMonitor, ProbeMonitor, RecordedMonitor, SweepMonitor,
     SurroundingsMonitor
     DEF Next, Monitor, Surroundings, Check, Recorded

\* In every reachable state rows, jobs and alerts belong to each other.
THEOREM MonitorInvariant == Spec => []MonitorInv
  BY InitMonitor, StepMonitor, PTL DEF Spec

\* An outage has one open alert, through overlapping checks, failing writes
\* and restarts that forget that it was raised.
THEOREM OneAlertPerOutage == Spec => []OneOpenAlert
<1>1. MonitorInv => OneOpenAlert
  BY DEF MonitorInv
<1> QED
  BY <1>1, MonitorInvariant, PTL

-----------------------------------------------------------------------------
(* No false alarm: OneShutdown holds of a service that answers. *)

Undisturbed(e) == e \in serving /\ e \notin disturbed

\* No shutdown has cost a probe yet.
LEMMA InitShutdown == ASSUME NEW e \in Env, Init PROVE OneShutdown(e)
<1>1. open[e] = 0 /\ failures[e] = 0 /\ todo = {}
  <2>1. open = [f \in Env |-> 0] /\ failures = [f \in Env |-> 0] /\ todo = {}
    BY DEF Init
  <2> QED
    BY <2>1
<1>2. \A j \in Job : job[j].pc = "free"
  <2>1. job = [j \in Job |-> Free]
    BY DEF Init
  <2> QED
    BY <2>1 DEF Free
<1> QED
  BY <1>1, <1>2 DEF OneShutdown, Checks

\* A job that is at work on such a service is the sweep's.
LEMMA WorkersCheck ==
  ASSUME MonitorInv, NEW e \in Env, Undisturbed(e), NEW j \in Job,
         job[j].pc # "free", job[j].env = e
  PROVE  j \in Worker /\ j \notin Client /\ sweeping
<1>1. job[j] # Free
  BY DEF Free
<1> QED
  BY <1>1 DEF MonitorInv, Undisturbed, Job

\* What happens to a job that neither was nor is at work on the service.
LEMMA Elsewhere ==
  ASSUME MonitorInv, NEW e \in Env, OneShutdown(e), NEW j \in Job,
         job[j].pc = "free" \/ job[j].env # e,
         job'[j].pc = "free" \/ job'[j].env # e,
         \A i \in Job : i # j => job'[i] = job[i],
         open'[e] = open[e], failures'[e] = failures[e], cancelled' = cancelled,
         e \in todo' => e \in todo
  PROVE  OneShutdown(e)'
<1>1. \A i \in Job : Checks(i, e)' => i # j /\ Checks(i, e)
  BY DEF Checks
<1>2. \A i \in Job : job'[i].env = e => job'[i].pc # "alert"
  BY DEF OneShutdown
<1>3. \A i \in Job : Checks(i, e)' => job'[i] = job[i]
  BY <1>1
<1> QED
  BY <1>1, <1>2, <1>3 DEF OneShutdown

\* A worker takes the service from the list, where it stood once.
LEMMA TakeShutdown ==
  ASSUME MonitorInv, NEW e \in Env, OneShutdown(e), NEW w \in Worker, NEW f \in Env,
         TakeJob(w, f)
  PROVE  OneShutdown(e)'
<1>1. w \in Job
  BY DEF Job
<1>2. /\ job[w].pc = "free" /\ f \in todo /\ todo' = todo \ {f}
      /\ UNCHANGED <<open, failures, cancelled>>
  BY DEF TakeJob, maps, Free
<1>3. /\ job'[w].pc = "probe" /\ job'[w].env = f
      /\ \A i \in Job : i # w => job'[i] = job[i]
  <2> DEFINE P == Probing(f, f \in asInstalled)
  <2>1. P.pc = "probe" /\ P.env = f
    BY ProbingTyped
  <2>2. job \in [Job -> JobRecord] /\ job' = [job EXCEPT ![w] = P]
    BY DEF MonitorInv, TypeOK, TakeJob
  <2> HIDE DEF P
  <2> QED
    BY <1>1, <2>1, <2>2
<1>4. CASE f # e
  BY <1>1, <1>2, <1>3, <1>4, Elsewhere
<1>5. CASE f = e
  <2>1. failures'[e] = 0 /\ e \notin todo' /\ \A j \in Job : ~Checks(j, e)
    BY <1>2, <1>5 DEF OneShutdown
  <2>2. \A j \in Job : Checks(j, e)' => j = w
    BY <1>3, <2>1 DEF Checks
  <2>3. open'[e] = 0 /\ \A j \in Job : job'[j].env = e => job'[j].pc # "alert"
    BY <1>2, <1>3 DEF OneShutdown
  <2> QED
    BY <1>3, <2>1, <2>2, <2>3 DEF OneShutdown
<1> QED
  BY <1>4, <1>5

\* A manual check concerns another service.
LEMMA CheckNowShutdown ==
  ASSUME MonitorInv, NEW e \in Env, OneShutdown(e), Undisturbed(e)', NEW c \in Client,
         NEW f \in Env, CheckNow(c, f)
  PROVE  OneShutdown(e)'
<1>1. c \in Job /\ f # e
  BY DEF Job, CheckNow, Undisturbed
<1>2. job[c].pc = "free" /\ UNCHANGED <<open, failures, cancelled, todo>>
  BY DEF CheckNow, maps, list, Free
<1>3. job'[c].env = f /\ \A i \in Job : i # c => job'[i] = job[i]
  <2> DEFINE P == Probing(f, f \in installed)
  <2>1. P.env = f
    BY ProbingTyped
  <2>2. job \in [Job -> JobRecord] /\ job' = [job EXCEPT ![c] = P]
    BY DEF MonitorInv, TypeOK, CheckNow
  <2> HIDE DEF P
  <2> QED
    BY <1>1, <2>1, <2>2
<1> QED
  BY <1>1, <1>2, <1>3, Elsewhere

\* A probe of the service fails only when the monitor is cancelled.
LEMMA ProbeShutdown ==
  ASSUME MonitorInv, NEW e \in Env, OneShutdown(e), Undisturbed(e), NEW j \in Job, Probe(j)
  PROVE  OneShutdown(e)'
<1>1. UNCHANGED <<open, failures, cancelled, todo>>
  BY ProbeSets DEF maps, list
<1>2. \A i \in Job : Checks(i, e)' <=> Checks(i, e)
  BY ProbeSets DEF Checks
<1>3. \A i \in Job : job'[i].env = e => job'[i].pc # "alert"
  BY ProbeSets DEF OneShutdown
<1>4. ASSUME job'[j].env = e, job'[j].installed, ~job'[j].ok
      PROVE  cancelled'
  <2>1. job[j].env = e /\ job[j].installed /\ job[j].pc = "probe" /\ job'[j].ok \in Answers(j)
    BY <1>4, ProbeSets
  <2>2. j \in Worker /\ j \notin Client
    BY <2>1, WorkersCheck
  <2>3. ~cancelled => Answers(j) = {job[j].env \in serving}
    BY <2>1, <2>2 DEF Answers
  <2>4. ~cancelled => job'[j].ok = (job[j].env \in serving)
    BY <2>1, <2>3
  <2> QED
    BY <1>1, <1>4, <2>1, <2>4 DEF Undisturbed
<1>5. \A i \in Job : Checks(i, e)' /\ job'[i].pc = "record" /\ job'[i].installed /\ ~job'[i].ok
        => cancelled'
  BY <1>1, <1>2, <1>4, ProbeSets DEF OneShutdown, Checks
<1> QED
  BY <1>1, <1>2, <1>3, <1>5 DEF OneShutdown

\* A first failure is counted and reported to nobody.
LEMMA RecordedShutdown ==
  ASSUME MonitorInv, NEW e \in Env, OneShutdown(e), Undisturbed(e), Undisturbed(e)',
         NEW j \in Job, Recorded(j)
  PROVE  OneShutdown(e)'
<1>1. PICK pc \in {"free", "resolve", "alert"} : Then(j, pc)
  BY RecordedThen
<1>2. /\ job'[j].pc = pc /\ (job'[j].pc = "free" \/ job'[j].env = job[j].env)
      /\ \A i \in Job : i # j => job'[i] = job[i]
  BY <1>1, ThenSets DEF MonitorInv, Free
<1>3. cancelled' = cancelled /\ todo' = todo /\ job[j].env \in Env
  BY RecordedThen DEF list
<1>4. CASE job[j].env # e
  <2>1. open'[e] = open[e] /\ failures'[e] = failures[e]
    <3>1. CASE RecordFailure(j)
      BY <1>4, <3>1 DEF RecordFailure, MonitorInv, TypeOK
    <3>2. CASE RecordRecovery(j)
      BY <1>4, <3>2 DEF RecordRecovery, RecordHealthy, MonitorInv, TypeOK
    <3>3. CASE Resolve(j) \/ CreateNotification(j)
      BY <1>4, <3>3 DEF Resolve, CreateNotification, MonitorInv, TypeOK, maps
    <3> QED
      BY <3>1, <3>2, <3>3 DEF Recorded
  <2> QED
    BY <1>2, <1>3, <1>4, <2>1, Elsewhere
<1>5. CASE job[j].env = e
  <2>1. \A i \in Job : Checks(i, e)' => i # j /\ Checks(i, e)
    BY <1>2 DEF Checks
  <2>2. CASE RecordFailure(j)
    <3>1. /\ job[j].pc = "record" /\ job[j].installed /\ ~job[j].ok
          /\ failures' = [failures EXCEPT ![e] = CountFailure(@)] /\ open' = open
      BY <1>5, <2>2 DEF RecordFailure
    <3>2. Checks(j, e)
      BY <1>5, <3>1 DEF Checks
    <3>3. cancelled /\ failures[e] = 0 /\ e \notin todo
      BY <3>1, <3>2 DEF OneShutdown
    <3>4. failures'[e] = 1
      BY <3>1, <3>3 DEF CountFailure, Threshold, MonitorInv, TypeOK
    <3>5. Then(j, "free")
      BY <1>5, <2>2, <3>4 DEF RecordFailure, Threshold
    <3>6. job'[j].pc = "free"
      BY <3>5, ThenSets DEF MonitorInv
    <3>7. \A i \in Job : ~Checks(i, e)'
      BY <2>1, <3>2 DEF OneShutdown
    <3>8. open'[e] = 0 /\ \A i \in Job : job'[i].env = e => job'[i].pc # "alert"
      BY <1>2, <3>1, <3>6 DEF OneShutdown
    <3> QED
      BY <1>3, <3>3, <3>4, <3>7, <3>8 DEF OneShutdown
  <2>3. CASE RecordRecovery(j)
    <3>1. /\ failures' = [failures EXCEPT ![e] = 0] /\ open' = open
          /\ Then(j, IF e \in healthy THEN "free" ELSE "resolve")
      BY <1>5, <2>3 DEF RecordRecovery, RecordHealthy
    <3>2. job'[j].pc # "alert"
      <4>1. PICK q \in {"free", "resolve"} : Then(j, q)
        BY <3>1
      <4> QED
        BY <4>1, ThenSets DEF MonitorInv
    <3>3. failures'[e] = 0 /\ open'[e] = 0
      BY <3>1 DEF MonitorInv, TypeOK, OneShutdown
    <3>4. \A i \in Job : job'[i].env = e => job'[i].pc # "alert"
      BY <1>2, <3>2 DEF OneShutdown
    <3>5. \A i \in Job : Checks(i, e)' => job'[i] = job[i]
      BY <1>2, <2>1
    <3> QED
      BY <1>3, <2>1, <3>3, <3>4, <3>5 DEF OneShutdown
  <2>4. CASE Resolve(j)
    <3>1. open' = [open EXCEPT ![e] = 0] /\ failures' = failures /\ Then(j, "free")
      BY <1>5, <2>4 DEF Resolve, Undisturbed, maps
    <3>2. job'[j].pc = "free" /\ open'[e] = 0
      BY <3>1, ThenSets DEF MonitorInv, TypeOK
    <3>3. \A i \in Job : job'[i].env = e => job'[i].pc # "alert"
      BY <1>2, <3>2 DEF OneShutdown
    <3>4. \A i \in Job : Checks(i, e)' => job'[i] = job[i]
      BY <1>2, <2>1
    <3> QED
      BY <1>3, <2>1, <3>1, <3>2, <3>3, <3>4 DEF OneShutdown
  <2>5. ~CreateNotification(j)
    BY <1>5 DEF CreateNotification, OneShutdown
  <2> QED
    BY <2>2, <2>3, <2>4, <2>5 DEF Recorded
<1> QED
  BY <1>4, <1>5

\* A sweep lists the service once, and ends before the next one.
LEMMA SweepShutdown ==
  ASSUME MonitorInv, NEW e \in Env, OneShutdown(e), Undisturbed(e), StartSweep \/ Prune
  PROVE  OneShutdown(e)'
<1>1. CASE StartSweep
  <2>1. ~sweeping /\ ~cancelled /\ UNCHANGED <<job, open, failures, cancelled>>
    BY <1>1 DEF StartSweep, maps
  <2>2. \A j \in Job : ~Checks(j, e)
    BY <2>1, WorkersCheck DEF Checks
  <2>3. failures[e] = 0
    BY <2>1 DEF OneShutdown
  <2> QED
    BY <2>1, <2>2, <2>3 DEF OneShutdown, Checks
<1>2. CASE Prune
  <2>1. /\ UNCHANGED <<job, open, cancelled, todo>>
        /\ failures' = [f \in Env |-> IF f \in Dropped THEN 0 ELSE failures[f]]
    BY <1>2 DEF Prune, EndSweep
  <2>2. failures'[e] \in {0, failures[e]}
    BY <2>1
  <2>3. \A j \in Job : Checks(j, e)' <=> Checks(j, e)
    BY <2>1 DEF Checks
  <2> QED
    BY <2>1, <2>2, <2>3 DEF OneShutdown
<1> QED
  BY <1>1, <1>2

\* A restart forgets the failure; nothing else touches a count.
LEMMA SurroundingsShutdown ==
  ASSUME MonitorInv, NEW e \in Env, OneShutdown(e), Undisturbed(e)',
         \/ \E f \in Env : ServiceToggles(f) \/ OperationEnds(f) \/ DeleteEnvironment(f)
                             \/ ResolveNotification(f)
         \/ Signal \/ Restart \/ UNCHANGED vars
  PROVE  OneShutdown(e)'
<1>1. CASE Restart
  <2>1. /\ failures' = [f \in Env |-> 0] /\ todo' = {} /\ job' = [j \in Job |-> Free]
        /\ open' = open
    BY <1>1 DEF Restart
  <2>2. failures'[e] = 0 /\ open'[e] = 0 /\ \A j \in Job : job'[j].pc = "free"
    BY <2>1 DEF OneShutdown, Free
  <2> QED
    BY <2>1, <2>2 DEF OneShutdown, Checks
<1>2. CASE ~Restart
  <2>1. /\ UNCHANGED <<job, failures, todo>>
        /\ cancelled => cancelled'
    BY <1>2 DEF ServiceToggles, OperationEnds, DeleteEnvironment, ResolveNotification,
       Signal, vars, maps, list
  <2>2. open'[e] = open[e]
    BY <1>2 DEF ServiceToggles, OperationEnds, DeleteEnvironment, ResolveNotification,
       Signal, vars, Undisturbed, MonitorInv, TypeOK
  <2>3. \A j \in Job : Checks(j, e)' <=> Checks(j, e)
    BY <2>1 DEF Checks
  <2> QED
    BY <2>1, <2>2, <2>3 DEF OneShutdown
<1> QED
  BY <1>1, <1>2

\* Every step keeps the failures a shutdown can have caused at one.
LEMMA StepShutdown ==
  ASSUME NEW e \in Env
  PROVE  MonitorInv /\ OneShutdown(e) /\ Undisturbed(e) /\ Undisturbed(e)' /\ [Next]_vars
           => OneShutdown(e)'
  BY TakeShutdown, CheckNowShutdown, ProbeShutdown, RecordedShutdown, SweepShutdown,
     SurroundingsShutdown
     DEF Next, Monitor, Surroundings, Check, Recorded

\* A service that never stops answering, and that nobody checks by hand, is
\* never reported: a shutdown fails one probe of it, and the threshold is three.
THEOREM NoneIsFalse == Spec => NoFalseAlarm
<1> SUFFICES ASSUME NEW e \in Env
             PROVE  Spec => ([]Undisturbed(e) => [](open[e] = 0))
  BY DEF NoFalseAlarm, Undisturbed
<1>1. Init => OneShutdown(e)
  BY InitShutdown
<1>2. MonitorInv /\ OneShutdown(e) /\ Undisturbed(e) /\ Undisturbed(e)' /\ [Next]_vars
        => OneShutdown(e)'
  BY StepShutdown
<1>3. OneShutdown(e) => open[e] = 0
  BY DEF OneShutdown
<1> QED
  BY <1>1, <1>2, <1>3, MonitorInvariant, PTL DEF Spec

=============================================================================
