--------------------------- MODULE MCServiceConfig ---------------------------
(* Contents, service types and requests are interchangeable: ServiceConfig  *)
(* treats them alike, and none of its properties singles one out.           *)
EXTENDS ServiceConfig, TLC

Symmetric == Permutations(Content) \union Permutations(Type) \union Permutations(Req)

\* Bound: what the server and the port hold after they were disturbed is no
\* longer claimed to agree.  From there on only rows and revisions are, and they
\* are followed while saves overlap on an environment that was never installed.
Followed ==
  \A e \in disturbed :
    /\ e \notin installed /\ port[e] = None
    /\ file[e] = None /\ marker[e] = None /\ task[e] = NoTask
    /\ \A d \in Editor : edit[d] = NoEdit
=============================================================================
