----------------------------- MODULE MCAccounts -----------------------------
(* Tokens and handlers are interchangeable.                                 *)
EXTENDS Accounts, TLC

Symmetric == Permutations(Session) \union Permutations(Request)
=============================================================================
