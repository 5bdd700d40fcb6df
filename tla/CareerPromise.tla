------------------------------ MODULE CareerPromise ------------------------------
(***************************************************************************)
(* What the career service promises the owner of searches and resume       *)
(* extractions, with no workers, claims, retries or digest deliveries in   *)
(* it.  Only so many searches are open at a time; a job has one outcome;   *)
(* a search is mailed about only when it is completed and its owner, asked *)
(* after that, wanted it; and only what was mailed is called sent.         *)
(***************************************************************************)
EXTENDS Naturals, FiniteSets

CONSTANTS Searches, Jobs, ActiveLimit

VARIABLES
  outcome,  \* of the jobs
  enabled,  \* whether the owner wants mail now
  wanted,   \* searches that a mail may go out of: the owner said yes
  mails,    \* those that one went out of
  mailed    \* those that are called sent

vars == <<outcome, enabled, wanted, mails, mailed>>

Init ==
  /\ outcome = [j \in Jobs |-> "none"]
  /\ enabled \in BOOLEAN
  /\ wanted = {} /\ mails = {} /\ mailed = {}

Create(j) ==
  /\ outcome[j] = "none"
  /\ j \in Searches => Cardinality({s \in Searches : outcome[s] = "open"}) < ActiveLimit
  /\ outcome' = [outcome EXCEPT ![j] = "open"]
  /\ UNCHANGED <<enabled, wanted, mails, mailed>>

Decide(j, how) ==
  /\ outcome[j] = "open"
  /\ outcome' = [outcome EXCEPT ![j] = how]
  /\ UNCHANGED <<enabled, wanted, mails, mailed>>

Wish ==
  /\ enabled' = ~enabled
  /\ UNCHANGED <<outcome, wanted, mails, mailed>>

Ask(s) ==
  /\ outcome[s] = "completed" /\ enabled
  /\ wanted' = wanted \cup {s}
  /\ UNCHANGED <<outcome, enabled, mails, mailed>>

\* An attempt that came to nothing; the owner is asked again before the next.
Drop(s) ==
  /\ wanted' = wanted \ {s}
  /\ UNCHANGED <<outcome, enabled, mails, mailed>>

Mail(s) ==
  /\ s \in wanted
  /\ mails' = mails \cup {s} /\ wanted' \in {wanted, wanted \ {s}}
  /\ UNCHANGED <<outcome, enabled, mailed>>

Record(s) ==
  /\ s \in mails
  /\ mailed' = mailed \cup {s}
  /\ UNCHANGED <<outcome, enabled, wanted, mails>>

Next ==
  \/ Wish
  \/ \E j \in Jobs : Create(j) \/ Decide(j, "completed") \/ Decide(j, "failed")
  \/ \E s \in Searches : Ask(s) \/ Drop(s) \/ Mail(s) \/ Record(s)

Spec == Init /\ [][Next]_vars
=============================================================================
