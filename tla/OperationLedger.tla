--------------------------- MODULE OperationLedger ---------------------------
(***************************************************************************)
(* What the operation manager promises to the rest of DeploymentPlatform,  *)
(* with nothing said of how: every environment has one slot, an operation  *)
(* is accepted, begun and ended only while it holds its environment's      *)
(* slot, its status moves forward only, and a process that dies leaves no  *)
(* operation open once the service is back.                                *)
(*                                                                         *)
(* OperationManager implements this module (theorem ImplementsLedger, run  *)
(* operations); the abstract actions stand for no single line of code.     *)
(***************************************************************************)
EXTENDS Naturals

CONSTANTS
  Env,        \* the environments
  MaxOps      \* operations are numbered 1..MaxOps

VARIABLES
  up,         \* the service is running
  slot,       \* slot[e]: the operation that holds environment e, or NoOp
  ledger,     \* ledger[o]: the recorded status of operation o
  lost        \* operations whose terminal status could not be recorded

vars == <<up, slot, ledger, lost>>

OpId       == 1..MaxOps
NoOp       == 0
Unfinished == {"queued", "running"}
Terminal   == {"succeeded", "failed", "timed_out", "interrupted"}

Init ==
  /\ up = TRUE
  /\ slot = [e \in Env |-> NoOp]
  /\ ledger = [o \in OpId |-> "none"]
  /\ lost = {}

\* An operation nobody has seen takes a free slot.
Take(e, o) ==
  /\ up /\ slot[e] = NoOp
  /\ ledger[o] = "none"
  /\ \A f \in Env : slot[f] # o
  /\ slot' = [slot EXCEPT ![e] = o]
  /\ UNCHANGED <<up, ledger, lost>>

\* The holder moves its own ledger entry forward.
Move(e, from, to) ==
  /\ up /\ slot[e] \in OpId
  /\ ledger[slot[e]] \in from
  /\ ledger' = [ledger EXCEPT ![slot[e]] = to]
  /\ UNCHANGED <<up, slot, lost>>

Accept(e)      == Move(e, {"none"}, "queued")
Begin(e)       == Move(e, Unfinished, "running")
End(e, result) == Move(e, Unfinished, result)

\* The holder ends, and the record of it is refused.
Lose(e) ==
  /\ up /\ slot[e] \in OpId
  /\ ledger[slot[e]] \in Unfinished
  /\ lost' = lost \union {slot[e]}
  /\ UNCHANGED <<up, slot, ledger>>

\* A slot is freed by an operation that was never accepted, has ended, or
\* has ended without a record; never by one that is still open.
Free(e) ==
  /\ up /\ slot[e] \in OpId
  /\ ledger[slot[e]] \notin Unfinished \/ slot[e] \in lost
  /\ slot' = [slot EXCEPT ![e] = NoOp]
  /\ UNCHANGED <<up, ledger, lost>>

\* The process dies: slots live in its memory, the ledger does not.
Die ==
  /\ up /\ ~up'
  /\ slot' = [e \in Env |-> NoOp]
  /\ UNCHANGED <<ledger, lost>>

\* It is back: whatever was still open is closed.
Recover ==
  /\ ~up /\ up'
  /\ ledger' = [o \in OpId |->
                  IF ledger[o] \in Unfinished THEN "interrupted" ELSE ledger[o]]
  /\ lost' = {}
  /\ UNCHANGED slot

\* The history of ended operations is retained for a limited time.
Forget(o) ==
  /\ up /\ ledger[o] \in Terminal
  /\ ledger' = [ledger EXCEPT ![o] = "purged"]
  /\ UNCHANGED <<up, slot, lost>>

Next ==
  \/ \E e \in Env, o \in OpId : Take(e, o)
  \/ \E e \in Env : Accept(e) \/ Begin(e) \/ Lose(e) \/ Free(e)
  \/ \E e \in Env, result \in Terminal : End(e, result)
  \/ Die \/ Recover
  \/ \E o \in OpId : Forget(o)

Spec == Init /\ [][Next]_vars
=============================================================================
