----------------------------- MODULE FeedbackPromise -----------------------------
(***************************************************************************)
(* What QuizCraft promises the author of a feedback, with no outbox,       *)
(* dispatchers, requests or recorded facts in it.  A feedback that was     *)
(* filed reaches the operators once; they give it one status after the     *)
(* other; and the author is told one of those statuses, and later only     *)
(* later ones.                                                             *)
(***************************************************************************)
EXTENDS Naturals, Sequences

CONSTANTS Feedbacks, Statuses, Open

VARIABLES
  filed,  \* feedbacks that were taken
  trail,  \* the statuses that the operators gave to each
  told    \* the one its author is told of, with its place in the trail

vars == <<filed, trail, told>>

Init ==
  /\ filed = {}
  /\ trail = [f \in Feedbacks |-> <<>>]
  /\ told = [f \in Feedbacks |-> [version |-> 0, status |-> Open]]

File(f) ==
  /\ f \notin filed /\ filed' = filed \cup {f}
  /\ UNCHANGED <<trail, told>>

Reach(f) ==
  /\ f \in filed /\ trail[f] = <<>>
  /\ trail' = [trail EXCEPT ![f] = <<Open>>]
  /\ UNCHANGED <<filed, told>>

Judge(f, status) ==
  /\ trail[f] # <<>>
  /\ trail' = [trail EXCEPT ![f] = Append(@, status)]
  /\ UNCHANGED <<filed, told>>

Tell(f) ==
  /\ \E v \in 1..Len(trail[f]) :
       /\ v > told[f].version
       /\ told' = [told EXCEPT ![f] = [version |-> v, status |-> trail[f][v]]]
  /\ UNCHANGED <<filed, trail>>

Next ==
  \E f \in Feedbacks :
    \/ File(f) \/ Reach(f) \/ Tell(f)
    \/ \E status \in Statuses : Judge(f, status)

Spec == Init /\ [][Next]_vars
=============================================================================
