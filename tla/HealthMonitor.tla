---------------------------- MODULE HealthMonitor ----------------------------
(***************************************************************************)
(* internal/health and the notifications it writes: the periodic sweep     *)
(* over all environments, the checks users ask for, the failure counters   *)
(* in memory and the alert in the database, which survives restarts.       *)
(*                                                                         *)
(* One step is one probe, one critical section of Monitor.mu or one        *)
(* statement of the store.  job[j] is a worker of the sweep or a CheckNow. *)
(***************************************************************************)
EXTENDS Naturals

CONSTANTS
  Env,         \* environments
  Worker,      \* goroutines of checkAll
  Client,      \* CheckNow requests in flight
  StoreMayFail, \* whether notification writes, whose errors are ignored, may fail
  MaxRestarts  \* bound: restarts of the process

ASSUME JobAssumption      == Worker \intersect Client = {}
ASSUME StoreMayFailAssumption == StoreMayFail \in BOOLEAN
ASSUME RestartsAssumption == MaxRestarts \in Nat

VARIABLES
  live, installed, \* rows of table environments
  serving,         \* the services that would answer a probe with ok
  open,            \* open[e]: unresolved notifications with the key of e
  results, failures, alerted, healthy,   \* the maps of Monitor
  cancelled,       \* rootCtx is cancelled
  restarts,
  sweeping,        \* checkAll is between its list and its prune
  listed,          \* the environments of that list, and
  todo,            \* those no worker has taken yet
  asInstalled,     \* those the list says are installed
  job,
  disturbed        \* history: environments checked or resolved by hand, or
                   \* one of whose notification writes has failed

rows == <<live, installed, serving>>
maps == <<results, failures, alerted, healthy>>
list == <<sweeping, listed, todo, asInstalled>>
vars == <<rows, open, maps, cancelled, restarts, list, job, disturbed>>

ThresholdOfOne == 1    \* mutation: one failure is enough
Threshold      == 3

Job  == Worker \union Client
None == "none"
Free == [pc |-> "free", env |-> None, installed |-> FALSE, ok |-> FALSE]

Init ==
  /\ live \in SUBSET Env
  /\ installed \in SUBSET live
  /\ serving \in SUBSET Env
  /\ open = [e \in Env |-> 0]
  /\ results = [e \in Env |-> None]
  /\ failures = [e \in Env |-> 0]
  /\ alerted = {} /\ healthy = {}
  /\ cancelled = FALSE
  /\ restarts = 0
  /\ sweeping = FALSE /\ listed = {} /\ todo = {} /\ asInstalled = {}
  /\ job = [j \in Job |-> Free]
  /\ disturbed = {}

-----------------------------------------------------------------------------
(***************************************************************************)
(* checkAll and CheckNow.                                                  *)
(***************************************************************************)

Probing(e, isInstalled) ==
  [pc |-> "probe", env |-> e, installed |-> isInstalled, ok |-> FALSE]

\* The first sweep, or one the ticker starts.  Once rootCtx is cancelled the
\* list fails and the sweep with it.
StartSweep ==
  /\ ~sweeping /\ ~cancelled
  /\ sweeping' = TRUE
  /\ listed' = live /\ todo' = live /\ asInstalled' = installed
  /\ UNCHANGED <<rows, open, maps, cancelled, restarts, job, disturbed>>

\* A worker takes an environment as it was listed.
TakeJob(w, e) ==
  /\ job[w] = Free
  /\ e \in todo
  /\ todo' = todo \ {e}
  /\ job' = [job EXCEPT ![w] = Probing(e, e \in asInstalled)]
  /\ UNCHANGED <<rows, open, maps, cancelled, restarts, sweeping, listed, asInstalled, disturbed>>

CheckNow(c, e) ==
  /\ job[c] = Free
  /\ e \in live
  /\ job' = [job EXCEPT ![c] = Probing(e, e \in installed)]
  /\ disturbed' = disturbed \union {e}
  /\ UNCHANGED <<rows, open, maps, cancelled, restarts, list>>

\* check: a cancelled context fails the request, and reads like a service
\* that does not answer; so does a user who does not wait for the answer.
Answers(j) ==
  LET e == job[j].env
      GivenUp == IF j \in Client THEN {FALSE} ELSE {}
  IN  IF ~job[j].installed \/ (j \in Worker /\ cancelled)
      THEN {FALSE} ELSE {e \in serving} \union GivenUp

Probe(j) ==
  /\ job[j].pc = "probe"
  /\ \E ok \in Answers(j) : job' = [job EXCEPT ![j].pc = "record", ![j].ok = ok]
  /\ UNCHANGED <<rows, open, maps, cancelled, restarts, list, disturbed>>

\* The counters stop at the threshold, which is all they are compared with.
CountFailure(n) == IF n < Threshold THEN n + 1 ELSE n

Then(j, pc) == job' = [job EXCEPT ![j] = IF pc = "free" THEN Free ELSE [@ EXCEPT !.pc = pc]]

\* An installed service did not answer.
RecordFailure(j) ==
  LET e == job[j].env IN
  /\ job[j].pc = "record"
  /\ job[j].installed /\ ~job[j].ok
  /\ results' = [results EXCEPT ![e] = "failed"]
  /\ failures' = [failures EXCEPT ![e] = CountFailure(@)]
  /\ healthy' = healthy \ {e}
  /\ \/ /\ failures'[e] >= Threshold /\ e \notin alerted
        /\ alerted' = alerted \union {e}
        /\ Then(j, "alert")
     \/ /\ failures'[e] < Threshold \/ e \in alerted
        /\ UNCHANGED alerted
        /\ Then(j, "free")
  /\ UNCHANGED <<rows, open, cancelled, restarts, list, disturbed>>

RecordHealthy(j, stillAlerted) ==
  LET e == job[j].env IN
  /\ job[j].pc = "record"
  /\ job[j].ok \/ ~job[j].installed
  /\ results' = [results EXCEPT ![e] = IF job[j].ok THEN "ok" ELSE "unknown"]
  /\ failures' = [failures EXCEPT ![e] = 0]
  /\ alerted' = stillAlerted
  /\ healthy' = healthy \union {e}
  /\ Then(j, IF e \in healthy THEN "free" ELSE "resolve")
  /\ UNCHANGED <<rows, open, cancelled, restarts, list, disturbed>>

\* The service answered, or nothing is installed that could.  (The mutation
\* leaves the alert raised.)
KeepAlerted(j)    == RecordHealthy(j, alerted)
RecordRecovery(j) == RecordHealthy(j, alerted \ {job[j].env})

\* ResolveNotificationByDedupeKey and CreateNotification, outside the lock;
\* errors are ignored.
Resolve(j) ==
  LET e == job[j].env IN
  /\ job[j].pc = "resolve"
  /\ \/ open' = [open EXCEPT ![e] = 0] /\ UNCHANGED disturbed
     \/ StoreMayFail /\ disturbed' = disturbed \union {e} /\ UNCHANGED open
  /\ Then(j, "free")
  /\ UNCHANGED <<rows, maps, cancelled, restarts, list>>

\* One unresolved row per key: ON CONFLICT DO NOTHING (mutation: without it).
Inserted(n)         == n + 1
InsertedOrExists(n) == IF n = 0 THEN 1 ELSE n

CreateNotification(j) ==
  LET e == job[j].env IN
  /\ job[j].pc = "alert"
  /\ \/ open' = [open EXCEPT ![e] = InsertedOrExists(@)] /\ UNCHANGED disturbed
     \/ StoreMayFail /\ disturbed' = disturbed \union {e} /\ UNCHANGED open
  /\ Then(j, "free")
  /\ UNCHANGED <<rows, maps, cancelled, restarts, list>>

\* Entries of environments that are not in the list are dropped.
Dropped == {e \in Env : results[e] # None /\ e \notin listed}

EndSweep(gone) ==
  /\ sweeping /\ todo = {} /\ \A w \in Worker : job[w] = Free
  /\ sweeping' = FALSE /\ listed' = {} /\ asInstalled' = {} /\ UNCHANGED todo
  /\ results' = [e \in Env |-> IF e \in gone THEN None ELSE results[e]]
  /\ failures' = [e \in Env |-> IF e \in gone THEN 0 ELSE failures[e]]
  /\ alerted' = alerted \ gone /\ healthy' = healthy \ gone
  /\ UNCHANGED <<rows, open, cancelled, restarts, job, disturbed>>

\* (Mutation: nothing is dropped.)
PruneNothing == EndSweep({})
Prune        == EndSweep(Dropped)

-----------------------------------------------------------------------------
(***************************************************************************)
(* What happens around the monitor.                                        *)
(***************************************************************************)

\* Services come and go; operations install and reset; rows are deleted.
ServiceToggles(e) ==
  /\ serving' = (serving \ {e}) \union ({e} \ serving)
  /\ UNCHANGED <<live, installed, open, maps, cancelled, restarts, list, job, disturbed>>

OperationEnds(e) ==
  /\ e \in live
  /\ installed' = (installed \ {e}) \union ({e} \ installed)
  /\ UNCHANGED <<live, serving, open, maps, cancelled, restarts, list, job, disturbed>>

DeleteEnvironment(e) ==
  /\ e \in live \ installed
  /\ live' = live \ {e}
  /\ UNCHANGED <<installed, serving, open, maps, cancelled, restarts, list, job, disturbed>>

\* An administrator confirms the alert.
ResolveNotification(e) ==
  /\ open[e] > 0
  /\ open' = [open EXCEPT ![e] = @ - 1]
  /\ disturbed' = disturbed \union {e}
  /\ UNCHANGED <<rows, maps, cancelled, restarts, list, job>>

Signal ==
  /\ ~cancelled
  /\ cancelled' = TRUE
  /\ UNCHANGED <<rows, open, maps, restarts, list, job, disturbed>>

\* The process ends, in order or not, and comes back with a new Monitor.
Restart ==
  /\ restarts < MaxRestarts
  /\ restarts' = restarts + 1
  /\ cancelled' = FALSE
  /\ results' = [e \in Env |-> None] /\ failures' = [e \in Env |-> 0]
  /\ alerted' = {} /\ healthy' = {}
  /\ sweeping' = FALSE /\ listed' = {} /\ todo' = {} /\ asInstalled' = {}
  /\ job' = [j \in Job |-> Free]
  /\ UNCHANGED <<rows, open, disturbed>>

-----------------------------------------------------------------------------
Check(j) ==
  Probe(j) \/ RecordFailure(j) \/ RecordRecovery(j) \/ Resolve(j) \/ CreateNotification(j)

Monitor ==
  \/ StartSweep \/ Prune
  \/ \E w \in Worker, e \in Env : TakeJob(w, e)
  \/ \E j \in Job : Check(j)

Surroundings ==
  \/ \E e \in Env : ServiceToggles(e) \/ OperationEnds(e) \/ DeleteEnvironment(e)
                      \/ ResolveNotification(e)
  \/ \E c \in Client, e \in Env : CheckNow(c, e)
  \/ Signal \/ Restart

Next == Monitor \/ Surroundings

Spec == Init /\ [][Next]_vars

(***************************************************************************)
(* The ticker fires, workers run, and a probe is over within three seconds *)
(* and a notification write within two, whatever the service does.         *)
(***************************************************************************)
Fairness ==
  /\ WF_vars(StartSweep) /\ WF_vars(Prune)
  /\ \A e \in Env : WF_vars(\E w \in Worker : TakeJob(w, e))
  /\ \A j \in Job : WF_vars(Check(j))

FairSpec == Spec /\ Fairness

-----------------------------------------------------------------------------
Known == {e \in Env : results[e] # None}

JobRecord == [pc: {"free", "probe", "record", "resolve", "alert"},
              env: Env \union {None}, installed: BOOLEAN, ok: BOOLEAN]

\* Every variable has its type: the maps of Monitor, the unresolved rows of
\* the notifications table, the list of checkAll and its jobs.
TypeOK ==
  /\ live \subseteq Env /\ installed \subseteq live /\ serving \subseteq Env
  /\ open \in [Env -> Nat]
  /\ results \in [Env -> {None, "ok", "failed", "unknown"}]
  /\ failures \in [Env -> 0..Threshold]
  /\ alerted \subseteq Env /\ healthy \subseteq Env
  /\ disturbed \subseteq Env
  /\ cancelled \in BOOLEAN /\ restarts \in 0..MaxRestarts /\ sweeping \in BOOLEAN
  /\ listed \subseteq Env /\ todo \subseteq listed /\ asInstalled \subseteq listed
  /\ job \in [Job -> JobRecord]

\* An outage has one unresolved notification, although a restart forgets
\* that it was raised (CreateNotification and its partial unique index).
OneOpenAlert == \A e \in Env : open[e] <= 1

\* A service that never stops answering is never reported, even though a
\* shutdown fails every probe still in flight and operations install and
\* reset it between the list and the probe (recordResult, checkAll).
NoFalseAlarm ==
  \A e \in Env : [](e \in serving /\ e \notin disturbed) => [](open[e] = 0)

\* Once the state of a service is settled the alert settles on it: open for
\* an installed service that does not answer, resolved for any other, through
\* recoveries, relapses, resets and restarts on the way (recordResult).
Settled(e) == e \in live /\ e \notin disturbed /\ ~cancelled

AlertFollowsService ==
  \A e \in Env :
    /\ <>[](Settled(e) /\ e \in serving) => <>[](open[e] = 0)
    /\ <>[](Settled(e) /\ e \in installed \ serving) => <>[](open[e] = 1)

\* The monitor forgets an environment that was deleted, even when a check of
\* it was in flight when the sweep pruned (checkAll): its maps do not grow.
DeletedIsForgotten ==
  \A e \in Env : <>[](e \notin live /\ ~cancelled) => <>[](e \notin Known)

-----------------------------------------------------------------------------
(***************************************************************************)
(* The inductive invariants (the proofs are in HealthMonitor_proofs).      *)
(***************************************************************************)

MonitorInv ==
  /\ TypeOK /\ OneOpenAlert
  /\ ~sweeping => todo = {} /\ \A w \in Worker : job[w] = Free
  /\ \A c \in Client : job[c] # Free => job[c].env \in disturbed
  /\ \A j \in Job : job[j].pc # "free" => job[j].env \in Env

Checks(j, e) == job[j].pc \in {"probe", "record"} /\ job[j].env = e

\* While a service answers and nobody checks it by hand, a shutdown is the one
\* thing that can fail its probe, once: the sweep has listed it once.
OneShutdown(e) ==
  /\ open[e] = 0 /\ \A j \in Job : job[j].env = e => job[j].pc # "alert"
  /\ \A i, j \in Job : Checks(i, e) /\ Checks(j, e) => i = j
  /\ e \in todo => \A j \in Job : ~Checks(j, e)
  /\ failures[e] \in {0, 1}
  /\ failures[e] = 1 => cancelled /\ e \notin todo /\ \A j \in Job : ~Checks(j, e)
  /\ \A j \in Job :
       Checks(j, e) /\ job[j].pc = "record" /\ job[j].installed /\ ~job[j].ok => cancelled
=============================================================================
