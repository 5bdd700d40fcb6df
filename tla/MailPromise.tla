------------------------------- MODULE MailPromise -------------------------------
(***************************************************************************)
(* What platform-core promises about its mails, with no workers, leases,   *)
(* calls, keys or receipts in it.  A mail goes out, and again only when    *)
(* the SMTP server took it without saying so; nothing goes out of a mail   *)
(* that was accepted, and it was accepted because the server said it has   *)
(* it; only a mail that was given up is taken up again.                    *)
(***************************************************************************)
EXTENDS Naturals

CONSTANT Jobs

VARIABLES
  stage,  \* what became of each mail
  sent,   \* how many copies of it the SMTP server took
  lost    \* how many of them it took without saying so

vars == <<stage, sent, lost>>

Init ==
  /\ stage = [j \in Jobs |-> "none"]
  /\ sent = [j \in Jobs |-> 0]
  /\ lost = [j \in Jobs |-> 0]

Move(js, from, to) ==
  /\ \A j \in js : stage[j] = from
  /\ stage' = [j \in Jobs |-> IF j \in js THEN to ELSE stage[j]]
  /\ UNCHANGED <<sent, lost>>

\* A given-up mail may still go out: its last call is on its way.
GoesOut(j) ==
  /\ stage[j] \in {"open", "failed"}
  /\ sent[j] = lost[j]
  /\ sent' = [sent EXCEPT ![j] = @ + 1]
  /\ lost' \in {lost, [lost EXCEPT ![j] = @ + 1]}
  /\ UNCHANGED stage

Accept(j) ==
  /\ sent[j] > lost[j]
  /\ Move({j}, "open", "accepted")

Next ==
  \/ \E j \in Jobs : GoesOut(j) \/ Accept(j)
  \/ \E j \in Jobs : Move({j}, "none", "open") \/ Move({j}, "failed", "open")
  \/ \E js \in SUBSET Jobs : Move(js, "open", "failed") \/ Move(js, "accepted", "delivered")

Spec == Init /\ [][Next]_vars
=============================================================================
