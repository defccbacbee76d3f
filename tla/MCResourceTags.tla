--------------------------- MODULE MCResourceTags ---------------------------
(* Everything but the requests' kinds is interchangeable; safety only. *)
EXTENDS ResourceTags, TLC

Symmetries ==
  Permutations(Account) \cup Permutations(Environment) \cup Permutations(Tag)
    \cup Permutations(Name) \cup Permutations(Place)

=============================================================================
