----------------------------- MODULE EventFeed -----------------------------
(***************************************************************************)
(* What docs/architecture.md, section 11.1, promises of the live log of an *)
(* operation: it only grows, and whoever watches it sees its events in     *)
(* order and without a gap, from the first one, across any disconnection.  *)
(***************************************************************************)
EXTENDS Naturals

CONSTANT Viewer

VARIABLES
  feed,         \* numbers of the events that were published
  shown         \* those a viewer has before him

Init == feed = {} /\ shown = [v \in Viewer |-> {}]

Publish ==
  /\ \E n \in feed' : (\A m \in feed : m < n) /\ feed' = feed \cup {n}
  /\ UNCHANGED shown

\* The next event that the viewer does not have yet.
Advance(v) ==
  /\ \E n \in feed \ shown[v] :
       /\ \A m \in feed \ shown[v] : n <= m
       /\ shown' = [shown EXCEPT ![v] = @ \cup {n}]
  /\ UNCHANGED feed

\* He opens the log again and is shown it from the start.
Reopen(v) == shown' = [shown EXCEPT ![v] = {}] /\ UNCHANGED feed

Next == Publish \/ \E v \in Viewer : Advance(v) \/ Reopen(v)

Spec == Init /\ [][Next]_<<feed, shown>>

=============================================================================
