------------------------ MODULE MCMembershipPayments ------------------------
(* At most two orders of one owner, and at most two requests in flight.   *)
EXTENDS MembershipPayments, TLC

CONSTANTS u1, u2, o1, o2, w1, w2, k1, k2

OneOwner == [o \in Orders |-> u1]

\* Requests and keys are interchangeable; liveness runs do not use this.
Symmetry == Permutations(Workers) \cup Permutations(Keys)
=============================================================================
