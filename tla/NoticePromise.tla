------------------------------ MODULE NoticePromise ------------------------------
(***************************************************************************)
(* What the notice service promises of every notice: one decision is taken *)
(* about it, it is distributed once and only if it was approved, and the   *)
(* outcome of its distribution is final.                                   *)
(***************************************************************************)
CONSTANT Notices
VARIABLE stage

Init == stage = [n \in Notices |-> "none"]

Move(n, from, to) == stage[n] = from /\ stage' = [stage EXCEPT ![n] = to]

Next ==
  \E n \in Notices :
    \/ Move(n, "none", "pending_review")
    \/ Move(n, "pending_review", "approved")
    \/ Move(n, "pending_review", "rejected")
    \/ Move(n, "approved", "underway")
    \/ Move(n, "underway", "delivered")
    \/ Move(n, "underway", "failed")

Spec == Init /\ [][Next]_stage
=============================================================================
