----------------------------- MODULE Entitlement -----------------------------
(***************************************************************************)
(* What account-portfolio promises about lifetime membership, with no      *)
(* callbacks, queries, locks, facts or requests in it: an order is paid at *)
(* most once and refunded at most once, a payment makes its owner a member *)
(* unless an operator already did, and a refund ends the membership only   *)
(* if payments held it and none of the owner's is left.                    *)
(***************************************************************************)
CONSTANTS Users, Orders, Owner

VARIABLES
  paid,     \* orders that are paid for and not refunded
  ended,    \* orders that can never be paid for again
  holder    \* what holds each user's membership

vars == <<paid, ended, holder>>

Init ==
  /\ paid = {}
  /\ ended = {}
  /\ holder = [u \in Users |-> "nobody"]

Pay(o) ==
  /\ o \notin paid \cup ended
  /\ paid' = paid \cup {o}
  /\ holder' = [holder EXCEPT ![Owner[o]] = IF @ = "operator" THEN @ ELSE "payment"]
  /\ UNCHANGED ended

Refund(o) ==
  /\ o \in paid
  /\ paid' = paid \ {o}
  /\ ended' = ended \cup {o}
  /\ holder' = [holder EXCEPT ![Owner[o]] =
       IF @ = "payment" /\ ~\E p \in paid \ {o} : Owner[p] = Owner[o] THEN "nobody" ELSE @]

Close(o) ==
  /\ o \notin paid \cup ended
  /\ ended' = ended \cup {o}
  /\ UNCHANGED <<paid, holder>>

Grant(u) ==
  /\ holder[u] \in {"nobody", "withdrawn"}
  /\ holder' = [holder EXCEPT ![u] = "operator"]
  /\ UNCHANGED <<paid, ended>>

Withdraw(u) ==
  /\ holder[u] \in {"operator", "payment"}
  /\ holder' = [holder EXCEPT ![u] = "withdrawn"]
  /\ UNCHANGED <<paid, ended>>

Next ==
  \/ \E o \in Orders : Pay(o) \/ Refund(o) \/ Close(o)
  \/ \E u \in Users : Grant(u) \/ Withdraw(u)

Spec == Init /\ [][Next]_vars
=============================================================================
