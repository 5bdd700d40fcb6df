------------------------------- MODULE NoticeDesk -------------------------------
(***************************************************************************)
(* The notice service: operators write versions of notices, review them    *)
(* and queue them for distribution, each write under an idempotency key    *)
(* whose history is kept for a day; workers deliver what is queued to a    *)
(* webhook (lifecycle.go, idempotency.go, worker.go).                      *)
(*                                                                         *)
(* A write is one transaction, under an advisory lock on its operation and *)
(* key: it is one step.  So is each transaction of a worker, and each call *)
(* to the webhook.  A write that is refused, or that is answered from the  *)
(* history, changes nothing and is left out.                               *)
(*                                                                         *)
(* A notice stands for one version, known by its content.  Time is left    *)
(* out: a claim lapses, and a key is forgotten, at any moment.             *)
(***************************************************************************)
EXTENDS Naturals, FiniteSets

CONSTANTS
  Notices,      \* notice_versions, by source URL and content
  Keys,         \* idempotency keys of one operator
  Workers,      \* notice workers
  MaxAttempts,  \* maxDeliveryAttempts (3)
  NoNotice

ASSUME AttemptsAssumption == MaxAttempts \in Nat \ {0}
ASSUME NoNoticeAssumption == NoNotice \notin Notices

VARIABLES
  notice,        \* notice_lifecycles
  reviews,       \* notice_reviews: the decisions taken about each notice
  distribution,  \* notice_distributions
  queued,        \* how many distributions were queued for each notice
  history,       \* notice_operations
  worker,        \* the workers
  received       \* notices that the webhook took

vars == <<notice, reviews, distribution, queued, history, worker, received>>
desk == <<notice, reviews, history>>

Operations == {"version_create", "review", "distribution"}
Decisions == {"approved", "rejected"}
Unknown == [notice |-> NoNotice, body |-> "none"]
Idle == [pc |-> "idle", notice |-> NoNotice, attempts |-> 0, status |-> "none"]

Init ==
  /\ notice = [n \in Notices |-> [state |-> "none", revision |-> 0]]
  /\ reviews = [n \in Notices |-> {}]
  /\ distribution = [n \in Notices |-> [status |-> "none", attempts |-> 0, lapsed |-> FALSE]]
  /\ queued = [n \in Notices |-> 0]
  /\ history = [o \in Operations |-> [k \in Keys |-> Unknown]]
  /\ worker = [w \in Workers |-> Idle]
  /\ received = {}

-----------------------------------------------------------------------------
(* Writes (writeOperation).                                                *)

\* The key has no history.  The answer is stored with the write's changes.
Answer(op, k, n, body) ==
  /\ history[op][k] = Unknown
  /\ history' = [history EXCEPT ![op][k] = [notice |-> n, body |-> body]]

\* createVersion.
CreateVersion(k, n) ==
  /\ notice[n].state = "none"
  /\ Answer("version_create", k, n, "content")
  /\ notice' = [notice EXCEPT ![n] = [state |-> "pending_review", revision |-> 1]]
  /\ UNCHANGED <<reviews, distribution, queued, worker, received>>

\* Mutant: the revision is compared, the state is not.
IsAtRevision(n, state, revision) == notice[n].revision = revision

\* The notice is in the state, and at the revision, that the operator saw.
Is(n, state, revision) == notice[n].state = state /\ notice[n].revision = revision

\* Mutant: a write raises the revision and leaves the state.
RaiseRevision(n, state) == notice' = [notice EXCEPT ![n].revision = @ + 1]

Advance(n, state) == notice' = [notice EXCEPT ![n] = [state |-> state, revision |-> @.revision + 1]]

\* review.
Review(k, n, decision, revision) ==
  /\ Is(n, "pending_review", revision)
  /\ Answer("review", k, n, decision)
  /\ reviews' = [reviews EXCEPT ![n] = @ \cup {decision}]
  /\ Advance(n, decision)
  /\ UNCHANGED <<distribution, queued, worker, received>>

\* distribute.
Distribute(k, n, revision) ==
  /\ Is(n, "approved", revision)
  /\ Answer("distribution", k, n, "audience")
  /\ distribution' = [distribution EXCEPT ![n] = [status |-> "queued", attempts |-> 0, lapsed |-> FALSE]]
  /\ queued' = [queued EXCEPT ![n] = @ + 1]
  /\ Advance(n, "distributed")
  /\ UNCHANGED <<reviews, worker, received>>

\* The key's history expires.
Forget(op, k) ==
  /\ history[op][k] # Unknown
  /\ history' = [history EXCEPT ![op][k] = Unknown]
  /\ UNCHANGED <<notice, reviews, distribution, queued, worker, received>>

-----------------------------------------------------------------------------
(* Workers (RunOnce).                                                      *)

\* Five minutes have passed since the claim.
Lapses(n) ==
  /\ distribution[n].status = "processing"
  /\ distribution' = [distribution EXCEPT ![n].lapsed = TRUE]
  /\ UNCHANGED <<desk, queued, worker, received>>

\* Mutant: a claim never lapses.
Queued(n) == distribution[n].status = "queued"

Claimable(n) ==
  \/ distribution[n].status = "queued"
  \/ distribution[n].status = "processing" /\ distribution[n].lapsed

\* Attempts are only compared with MaxAttempts, so they are not counted further.
Counted(a) == IF a < MaxAttempts THEN a + 1 ELSE a

\* The claim: any claimable row may be the oldest that nobody has locked.
Claim(w, n) ==
  /\ worker[w].pc = "idle"
  /\ Claimable(n)
  /\ distribution' = [distribution EXCEPT
       ![n] = [status |-> "processing", attempts |-> Counted(@.attempts), lapsed |-> FALSE]]
  /\ worker' = [worker EXCEPT ![w] = [pc |-> "send", notice |-> n, status |-> "none",
                                      attempts |-> Counted(distribution[n].attempts)]]
  /\ UNCHANGED <<desk, queued, received>>

AfterFailure(w) == IF worker[w].attempts >= MaxAttempts THEN "failed" ELSE "queued"

Conclude(w, status) == worker' = [worker EXCEPT ![w].pc = "complete", ![w].status = status]

\* Deliver: the webhook takes the notice, or does not; the worker may not hear of
\* either.
Deliver(w) ==
  /\ worker[w].pc = "send"
  /\ \/ /\ received' = received \cup {worker[w].notice}
        /\ \/ Conclude(w, "delivered")
           \/ Conclude(w, AfterFailure(w))
     \/ /\ Conclude(w, AfterFailure(w))
        /\ UNCHANGED received
  /\ UNCHANGED <<desk, distribution, queued>>

\* Mutant: a completion does not look whether the row is still being processed.
AlwaysCompletes(n) == TRUE

\* Somebody's claim stands, and it need not be this worker's.
Completes(n) == distribution[n].status = "processing"

\* The completion.  A worker that finds the row done, or queued, lost its claim.
Complete(w) ==
  LET n == worker[w].notice
  IN /\ worker[w].pc = "complete"
     /\ \/ /\ Completes(n)
           /\ distribution' = [distribution EXCEPT ![n].status = worker[w].status, ![n].lapsed = FALSE]
        \/ /\ ~Completes(n)
           /\ UNCHANGED distribution
     /\ worker' = [worker EXCEPT ![w] = Idle]
     /\ UNCHANGED <<desk, queued, received>>

\* The worker's process dies, or the database fails it.
Crash(w) ==
  /\ worker[w] # Idle
  /\ worker' = [worker EXCEPT ![w] = Idle]
  /\ UNCHANGED <<desk, distribution, queued, received>>

-----------------------------------------------------------------------------
Next ==
  \/ \E k \in Keys, n \in Notices :
       \/ CreateVersion(k, n)
       \/ \E revision \in 1..3 :
            \/ Distribute(k, n, revision)
            \/ \E decision \in Decisions : Review(k, n, decision, revision)
  \/ \E op \in Operations, k \in Keys : Forget(op, k)
  \/ \E n \in Notices : Lapses(n) \/ \E w \in Workers : Claim(w, n)
  \/ \E w \in Workers : Deliver(w) \/ Complete(w) \/ Crash(w)

Spec == Init /\ [][Next]_vars

\* Some worker's loop goes on, and reaches a row when the older ones are done; a
\* claim comes to its five minutes; and though workers may die again and again,
\* not all of them die before they have called the webhook, or before they
\* complete.  Nothing is asked of the webhook or of the operators.
Fairness ==
  /\ \A n \in Notices :
       /\ WF_vars(Lapses(n) /\ ~distribution[n].lapsed)
       /\ SF_vars(\E w \in Workers : Claim(w, n))
       /\ SF_vars(\E w \in Workers : worker[w].notice = n /\ Deliver(w))
       /\ SF_vars(\E w \in Workers : worker[w].notice = n /\ Complete(w))

FairSpec == Spec /\ Fairness

-----------------------------------------------------------------------------
(* Properties.                                                             *)

Stages == {"none", "pending_review", "approved", "rejected", "distributed"}
Statuses == {"none", "queued", "processing", "delivered", "failed"}

TypeOK ==
  /\ notice \in [Notices -> [state : Stages, revision : 0..3]]
  /\ reviews \in [Notices -> SUBSET Decisions]
  /\ distribution \in [Notices -> [status : Statuses, attempts : 0..MaxAttempts, lapsed : BOOLEAN]]
  /\ queued \in [Notices -> Nat]
  /\ history \in [Operations -> [Keys -> [notice : Notices \cup {NoNotice},
                                          body : {"none", "content", "audience"} \cup Decisions]]]
  /\ worker \in [Workers -> [pc : {"idle", "send", "complete"}, notice : Notices \cup {NoNotice},
                             attempts : 0..MaxAttempts, status : Statuses]]
  /\ received \subseteq Notices

\* What the webhook takes was approved and was not rejected, and it was queued
\* once, under however many keys it was asked for and whatever was forgotten.
OnlyApprovedIsReceived ==
  \A n \in received : reviews[n] = {"approved"} /\ queued[n] = 1

\* A distribution that says "delivered" did arrive, and one that says "failed" was
\* tried as often as it may be, also when another worker completed it.
OutcomeIsTrue ==
  \A n \in Notices :
    /\ distribution[n].status = "delivered" => n \in received
    /\ distribution[n].status = "failed" => distribution[n].attempts = MaxAttempts

\* What a distribution says and what the webhook took agree with each other, and
\* with the decision of the operators.
DistributionIsTrue == OnlyApprovedIsReceived /\ OutcomeIsTrue

\* The answer kept for a key is what became of its notice: no operation is
\* answered and undone, and no two answers contradict each other.
HistoryIsTrue ==
  \A k \in Keys :
    LET h == [op \in Operations |-> history[op][k]]
    IN /\ h["version_create"] # Unknown => notice[h["version_create"].notice].state # "none"
       /\ h["review"] # Unknown => reviews[h["review"].notice] = {h["review"].body}
       /\ h["distribution"] # Unknown => queued[h["distribution"].notice] = 1

\* Where a notice is on the way that NoticePromise describes.
stage ==
  [n \in Notices |->
     IF notice[n].state # "distributed" THEN notice[n].state
     ELSE IF distribution[n].status \in {"delivered", "failed"} THEN distribution[n].status
     ELSE "underway"]

Promise == INSTANCE NoticePromise

\* The service keeps its promise: operators who race, keys that are forgotten,
\* workers that die or complete each other's claims never take a notice off its
\* way or back on it.
KeepsPromise == Promise!Spec

\* What is queued is delivered or given up, even if the webhook never answers.
EventuallyDecided ==
  \A n \in Notices :
    distribution[n].status = "queued" ~> distribution[n].status \in {"delivered", "failed"}
=============================================================================
