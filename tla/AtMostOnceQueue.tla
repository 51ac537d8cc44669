---------------------------- MODULE AtMostOnceQueue ----------------------------
(***************************************************************************)
(* What the action queue promises (README: "at-most-once queue semantics"): *)
(* an accepted action is handed to the provider at most once, in the order  *)
(* of acceptance, one at a time, and reported in that order.  Some of the   *)
(* actions may be lost together, when the worker dies; none is retried.     *)
(***************************************************************************)
EXTENDS Naturals, Sequences

CONSTANTS Request, Capacity

VARIABLES
  outstanding,  \* accepted and not yet reported, oldest first
  handed,       \* how many of them, from the front, were handed over or skipped
  working       \* the last handed one is in the provider's hands

vars == <<outstanding, handed, working>>

Waiting == Len(outstanding) - handed

Init == outstanding = <<>> /\ handed = 0 /\ working = FALSE

Accept(r) ==
  /\ Waiting < Capacity
  /\ outstanding' = Append(outstanding, r)
  /\ UNCHANGED <<handed, working>>

HandOver ==
  /\ ~working
  /\ Waiting > 0
  /\ handed' = handed + 1
  /\ working' \in BOOLEAN      \* FALSE: skipped as expired
  /\ UNCHANGED outstanding

Finish ==
  /\ working
  /\ working' = FALSE
  /\ UNCHANGED <<outstanding, handed>>

Report ==
  /\ handed > (IF working THEN 1 ELSE 0)
  /\ outstanding' = Tail(outstanding)
  /\ handed' = handed - 1
  /\ UNCHANGED working

\* The worker dies in a call: that action and those waiting are never reported.
Lose ==
  /\ working
  /\ outstanding' = SubSeq(outstanding, 1, handed - 1)
  /\ handed' = handed - 1
  /\ working' = FALSE

Next == (\E r \in Request : Accept(r)) \/ HandOver \/ Finish \/ Report \/ Lose

Spec == Init /\ [][Next]_vars
================================================================================
