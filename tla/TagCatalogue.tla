---------------------------- MODULE TagCatalogue ----------------------------
(***************************************************************************)
(* What docs/architecture.md, section 6.11, promises of tags: an account   *)
(* has a catalogue of names, an environment wears some of them.  Names are *)
(* never merged by renaming, vanish one at a time and when somebody asks,  *)
(* and an environment that is handed over wears what it wore.              *)
(***************************************************************************)
CONSTANTS Account, Environment, Name, None

VARIABLES
  catalogue,    \* names an account may use
  held,         \* whose environment it is; None: it is not there
  labels        \* names it wears

Init ==
  /\ catalogue = [a \in Account |-> {}]
  /\ held = [e \in Environment |-> None]
  /\ labels = [e \in Environment |-> {}]

Of(a) == {e \in Environment : held[e] = a}

\* One account writes the labels of environments that it has or that are new,
\* of none when it only adds names; other accounts see nothing of it.
Write(a) ==
  \E S \in SUBSET Environment, N \in SUBSET Name :
    /\ \A e \in S : held[e] \in {None, a}
    /\ catalogue' = [catalogue EXCEPT ![a] = @ \cup N]
    /\ held' = [e \in Environment |-> IF e \in S THEN a ELSE held[e]]
    /\ labels' \in [Environment -> SUBSET Name]
    /\ \A e \in Environment :
         IF e \in S THEN labels'[e] \subseteq catalogue'[a] ELSE labels'[e] = labels[e]

Rename(a, n, m) ==
  /\ n \in catalogue[a] /\ m \notin catalogue[a]
  /\ catalogue' = [catalogue EXCEPT ![a] = (@ \ {n}) \cup {m}]
  /\ labels' = [e \in Environment |->
       IF held[e] = a /\ n \in labels[e] THEN (labels[e] \ {n}) \cup {m} ELSE labels[e]]
  /\ UNCHANGED held

Drop(a, n) ==
  /\ n \in catalogue[a] /\ catalogue' = [catalogue EXCEPT ![a] = @ \ {n}]
  /\ labels' = [e \in Environment |-> IF held[e] = a THEN labels[e] \ {n} ELSE labels[e]]
  /\ UNCHANGED held

\* The receiver's catalogue grows by what he is given, the giver's stays.
HandOver(a, b) ==
  /\ catalogue' = [catalogue EXCEPT ![b] = @ \cup UNION {labels[e] : e \in Of(a)}]
  /\ held' = [e \in Environment |-> IF held[e] = a THEN b ELSE held[e]]
  /\ UNCHANGED labels

Remove(e) ==
  /\ held' = [held EXCEPT ![e] = None] /\ labels' = [labels EXCEPT ![e] = {}]
  /\ UNCHANGED catalogue

\* Only an account without environments can go.
Forget(a) ==
  /\ Of(a) = {} /\ catalogue' = [catalogue EXCEPT ![a] = {}]
  /\ UNCHANGED <<held, labels>>

Next ==
  \/ \E a \in Account : Write(a) \/ Forget(a)
  \/ \E a \in Account, n, m \in Name : Rename(a, n, m) \/ Drop(a, n)
  \/ \E a, b \in Account : HandOver(a, b)
  \/ \E e \in Environment : Remove(e)

Spec == Init /\ [][Next]_<<catalogue, held, labels>>

=============================================================================
