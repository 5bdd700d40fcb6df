------------------------------- MODULE MailOutbox -------------------------------
(***************************************************************************)
(* How platform-core sends a mail: the outbox row and its lease, the mail  *)
(* workers, the SMTP provider with its ledger of keys, and the receipts    *)
(* that say a mail arrived (internal/mailworker, internal/smtpprovider,    *)
(* db/queries/verification_mail.sql).                                      *)
(*                                                                         *)
(* A worker's step is one SQL statement, its own transaction, or one call  *)
(* to the provider.  The provider handles one call at a time behind a      *)
(* mutex; a call whose worker stopped waiting stays where it is, with      *)
(* nobody to answer.  A job stands for its dedupe key, from which the      *)
(* provider derives the ledger's file names and the message id.            *)
(*                                                                         *)
(* Time is left out: a lease, a retry delay, a send or a code's validity   *)
(* may run out at any moment.  Which claimable row a worker takes is left  *)
(* open, for a locked row is skipped whatever its priority.                *)
(***************************************************************************)
EXTENDS Naturals, FiniteSets

CONSTANTS
  Jobs,         \* mail_outbox rows, one per dedupe key
  Workers,      \* mail-worker processes, each with a worker id of its own
  MaxAttempts,  \* max_attempts of every job
  MaxRequeues,  \* how often an operator requeues a job (a bound of the model)
  MaxLost,      \* how many acceptances of a job's mail get lost (a bound)
  NoJob,        \* stands for "no job" in a worker and in the provider
  Nobody        \* stands for a NULL locked_by, and for a caller who left

ASSUME AttemptsAssumption == MaxAttempts \in Nat \ {0}
ASSUME NoJobAssumption == NoJob \notin Jobs
ASSUME NobodyAssumption == Nobody \notin Workers

VARIABLES
  job,       \* mail_outbox
  dead,      \* jobs with an open row in mail_dead_letters
  stale,     \* jobs whose code has expired or whose payload was scrubbed
  worker,    \* the mail workers
  waiting,   \* calls at the provider, in front of its mutex
  handler,   \* the call behind the mutex
  ledger,    \* the provider's files for each key
  sent,      \* how many mails the SMTP server took for each key
  lost,      \* how many of them it took without the provider learning of it
  receipt,   \* mail_delivery_receipts
  callback   \* a delivery callback's statement, from its snapshot to its commit

vars == <<job, dead, stale, worker, waiting, handler, ledger, sent, lost, receipt, callback>>
outbox == <<job, dead>>
provider == <<waiting, handler, ledger, sent, lost>>
receipts == <<receipt, callback>>

Idle == [pc |-> "idle", job |-> NoJob, attempt |-> 0]
Free == [pc |-> "free", job |-> NoJob, to |-> Nobody]

Init ==
  /\ job = [j \in Jobs |-> [status |-> "none", attempts |-> 0, by |-> Nobody,
                            lapsed |-> FALSE, requeues |-> 0]]
  /\ dead = {}
  /\ stale = {}
  /\ worker = [w \in Workers |-> Idle]
  /\ waiting = {}
  /\ handler = Free
  /\ ledger = [j \in Jobs |-> "none"]
  /\ sent = [j \in Jobs |-> 0]
  /\ lost = [j \in Jobs |-> 0]
  /\ receipt = [j \in Jobs |-> "none"]
  /\ callback = [j \in Jobs |-> "none"]

-----------------------------------------------------------------------------
(* The rows.                                                               *)

\* The request for a code, or for a digest, writes its mail.
Enqueue(j) ==
  /\ job[j].status = "none"
  /\ job' = [job EXCEPT ![j].status = "pending"]
  /\ UNCHANGED <<dead, stale, worker, provider, receipts>>

\* The code expires; a day later its payload is scrubbed.
GoesStale(j) ==
  /\ job[j].status # "none"
  /\ stale' = stale \cup {j}
  /\ UNCHANGED <<outbox, worker, provider, receipts>>

LeaseLapses(j) ==
  /\ job[j].status = "processing"
  /\ job' = [job EXCEPT ![j].lapsed = TRUE]
  /\ UNCHANGED <<dead, stale, worker, provider, receipts>>

\* A row that leaves the worker's hands.
Unlocked(r, status) == [r EXCEPT !.status = status, !.by = Nobody, !.lapsed = FALSE]

\* RequeueMailOutbox.
Requeue(j) ==
  /\ job[j].status = "failed" /\ j \in dead
  /\ job[j].requeues < MaxRequeues
  /\ job' = [job EXCEPT ![j] = [Unlocked(job[j], "pending") EXCEPT !.attempts = 0, !.requeues = @ + 1]]
  /\ dead' = dead \ {j}
  /\ UNCHANGED <<stale, worker, provider, receipts>>

-----------------------------------------------------------------------------
(* ProcessOne: reconcile when it is time to, sweep, claim, send, decide.   *)

Goto(w, pc) == worker' = [worker EXCEPT ![w].pc = pc]
Return(w) == worker' = [worker EXCEPT ![w] = Idle]

\* Mutant: a receipt is only looked for when its mail is accepted.
NeverApplicable(j) == FALSE

\* Receipts that ApplyAllPendingMailDeliveryReceipts applies.
Applicable(j) == receipt[j] = "pending" /\ job[j].status = "accepted"

Deliver(js) ==
  job' = [j \in Jobs |-> IF j \in js THEN [job[j] EXCEPT !.status = "delivered"] ELSE job[j]]

Apply(js) ==
  /\ Deliver(js)
  /\ receipt' = [j \in Jobs |-> IF j \in js THEN "applied" ELSE receipt[j]]

Reconcile(w) ==
  /\ worker[w].pc = "idle"
  /\ Apply({j \in Jobs : Applicable(j)})
  /\ Goto(w, "sweep")
  /\ UNCHANGED <<dead, stale, provider, callback>>

SkipReconcile(w) ==
  /\ worker[w].pc = "idle"
  /\ Goto(w, "sweep")
  /\ UNCHANGED <<outbox, stale, provider, receipts>>

Lapsed(j) == job[j].status = "processing" /\ job[j].lapsed

\* Mutant: the sweep waits for one attempt more than there are.
ExhaustedTooLate(j) == Lapsed(j) /\ job[j].attempts > MaxAttempts

\* Jobs whose last attempt died with its worker.
Exhausted(j) == Lapsed(j) /\ job[j].attempts >= MaxAttempts

\* FailExhaustedOutboxLeases.
Sweep(w) ==
  LET js == {j \in Jobs : Exhausted(j)}
  IN /\ worker[w].pc = "sweep"
     /\ job' = [j \in Jobs |-> IF j \in js THEN Unlocked(job[j], "failed") ELSE job[j]]
     /\ dead' = dead \cup js
     /\ Goto(w, "claim")
     /\ UNCHANGED <<stale, provider, receipts>>

\* A job to send, or one whose worker let its lease run out, with attempts left.
Claimable(j) ==
  /\ job[j].status \in {"pending", "retry_due"} \/ Lapsed(j)
  /\ job[j].attempts < MaxAttempts

\* ClaimMailOutbox, and the checks that follow it: a mail that cannot be sent
\* any more is failed without a call.
Claim(w) ==
  /\ worker[w].pc = "claim"
  /\ \/ \E j \in Jobs :
          /\ Claimable(j)
          /\ job' = [job EXCEPT ![j].status = "processing", ![j].attempts = @ + 1,
                                ![j].by = w, ![j].lapsed = FALSE]
          /\ worker' = [worker EXCEPT ![w] = [pc |-> IF j \in stale THEN "fail" ELSE "send",
                                              job |-> j, attempt |-> job[j].attempts + 1]]
     \/ /\ \A j \in Jobs : ~Claimable(j)
        /\ Return(w)
        /\ UNCHANGED job
  /\ UNCHANGED <<dead, stale, provider, receipts>>

\* What the worker does about a call that failed for now, or for good.
AfterFailure(w, permanent) ==
  IF permanent \/ worker[w].attempt >= MaxAttempts THEN "fail" ELSE "retry"

\* The call reaches the provider, which refuses a code that has expired (410)
\* and otherwise has it wait for the mutex.
CallArrives(w) ==
  /\ worker[w].pc = "send"
  /\ \/ /\ worker[w].job \in stale
        /\ Goto(w, AfterFailure(w, TRUE))
        /\ UNCHANGED waiting
     \/ /\ worker[w].job \notin stale
        /\ waiting' = waiting \cup {[job |-> worker[w].job, to |-> w]}
        /\ Goto(w, "await")
  /\ UNCHANGED <<outbox, stale, handler, ledger, sent, lost, receipts>>

\* Nobody waits any more for the answer to this worker's call.
Left(r, w) == IF r.to = w THEN [r EXCEPT !.to = Nobody] ELSE r
Leaves(w) ==
  /\ waiting' = {Left(r, w) : r \in waiting}
  /\ handler' = Left(handler, w)

\* The send times out or the connection breaks; the call may still arrive.
CallTimesOut(w) ==
  /\ \/ /\ worker[w].pc = "send"
        /\ waiting' \in {waiting, waiting \cup {[job |-> worker[w].job, to |-> Nobody]}}
        /\ UNCHANGED handler
     \/ worker[w].pc = "await" /\ Leaves(w)
  /\ Goto(w, AfterFailure(w, FALSE))
  /\ UNCHANGED <<outbox, stale, ledger, sent, lost, receipts>>

\* Mutant: a claim is never checked again.
OwnsAlways(w) == TRUE

\* The job is still this worker's.
Owns(w) == job[worker[w].job].status = "processing" /\ job[worker[w].job].by = w

\* AcceptMailOutbox.  A worker that lost its lease reports an error.
Accept(w) ==
  LET j == worker[w].job
  IN /\ worker[w].pc = "accept"
     /\ \/ /\ Owns(w)
           /\ job' = [job EXCEPT ![j] = Unlocked(@, "accepted")]
           /\ Goto(w, "apply")
        \/ /\ ~Owns(w)
           /\ Return(w)
           /\ UNCHANGED job
     /\ UNCHANGED <<dead, stale, provider, receipts>>

\* ApplyPendingMailDeliveryReceipt.
ApplyReceipt(w) ==
  /\ worker[w].pc = "apply"
  /\ Apply({j \in {worker[w].job} : receipt[j] = "pending" /\ job[j].status = "accepted"})
  /\ Return(w)
  /\ UNCHANGED <<dead, stale, provider, callback>>

\* RetryMailOutbox.
Retry(w) ==
  LET j == worker[w].job
  IN /\ worker[w].pc = "retry"
     /\ job' = IF Owns(w) /\ job[j].attempts < MaxAttempts
               THEN [job EXCEPT ![j] = Unlocked(@, "retry_due")] ELSE job
     /\ Return(w)
     /\ UNCHANGED <<dead, stale, provider, receipts>>

\* FailMailOutbox.
Fail(w) ==
  LET j == worker[w].job
  IN /\ worker[w].pc = "fail"
     /\ \/ /\ Owns(w)
           /\ job' = [job EXCEPT ![j] = Unlocked(@, "failed")]
           /\ dead' = dead \cup {j}
        \/ /\ ~Owns(w)
           /\ UNCHANGED outbox
     /\ Return(w)
     /\ UNCHANGED <<stale, provider, receipts>>

\* The worker's process dies, or the database fails a statement of it.
WorkerCrashes(w) ==
  /\ worker[w] # Idle
  /\ Return(w)
  /\ Leaves(w)
  /\ UNCHANGED <<outbox, stale, ledger, sent, lost, receipts>>

-----------------------------------------------------------------------------
(* The provider (ServeHTTP).                                               *)

\* The answer, for the worker that still waits for it.
Answer(r, pc) ==
  worker' = IF r.to = Nobody THEN worker ELSE [worker EXCEPT ![r.to].pc = pc]

Failure(r, permanent) == IF r.to = Nobody THEN "idle" ELSE AfterFailure(r.to, permanent)

\* Mutant: an empty claim is taken for one that failed.
ClaimableKey(j) == ledger[j] \in {"none", "claimed"}

\* No file of this key: nobody has sent it, or the one who tried knows it failed.
NewKey(j) == ledger[j] = "none"

\* Mutant: any file of the key is taken for an acceptance.
AnyFile(j) == ledger[j] # "none"

\* The key's mail was accepted: an accepted file, or a pending one that says so.
AcceptedKey(j) == ledger[j] \in {"marked", "accepted"}

\* The first answer again; a pending file that says accepted is renamed.
Replay(r) ==
  /\ handler = Free /\ r \in waiting
  /\ AcceptedKey(r.job)
  /\ ledger' = [ledger EXCEPT ![r.job] = "accepted"]
  /\ waiting' = waiting \ {r}
  /\ Answer(r, "accept")
  /\ UNCHANGED <<outbox, stale, handler, sent, lost, receipts>>

\* An empty claim: 409; or the ledger cannot be read or written: 503.
TurnAway(r) ==
  /\ handler = Free /\ r \in waiting
  /\ waiting' = waiting \ {r}
  /\ Answer(r, Failure(r, FALSE))
  /\ UNCHANGED <<outbox, stale, handler, ledger, sent, lost, receipts>>

\* The claim is written and synced before anything is sent.
TakeKey(r) ==
  /\ handler = Free /\ r \in waiting
  /\ NewKey(r.job)
  /\ ledger' = [ledger EXCEPT ![r.job] = "claimed"]
  /\ waiting' = waiting \ {r}
  /\ handler' = [pc |-> "smtp", job |-> r.job, to |-> r.to]
  /\ UNCHANGED <<outbox, stale, worker, sent, lost, receipts>>

\* The SMTP server takes the mail and says so.
SmtpAccepts ==
  /\ handler.pc = "smtp"
  /\ sent' = [sent EXCEPT ![handler.job] = @ + 1]
  /\ handler' = [handler EXCEPT !.pc = "mark"]
  /\ UNCHANGED <<outbox, stale, worker, waiting, ledger, lost, receipts>>

\* The SMTP exchange ends in an error and the claim is removed.  The server may
\* have taken the mail all the same.
SmtpFails ==
  LET j == handler.job
  IN /\ handler.pc = "smtp"
     /\ \/ /\ lost[j] < MaxLost
           /\ sent' = [sent EXCEPT ![j] = @ + 1]
           /\ lost' = [lost EXCEPT ![j] = @ + 1]
           /\ Answer(handler, Failure(handler, FALSE))
        \/ /\ \E permanent \in BOOLEAN : Answer(handler, Failure(handler, permanent))
           /\ UNCHANGED <<sent, lost>>
     /\ ledger' = [ledger EXCEPT ![j] = "none"]
     /\ handler' = Free
     /\ UNCHANGED <<outbox, stale, waiting, receipts>>

\* What persistAcceptedMarker leaves of the claim when it is cut short.
Marks == {"claimed", "marked", "accepted"}

PersistAccepted ==
  /\ handler.pc = "mark"
  /\ \/ /\ ledger' = [ledger EXCEPT ![handler.job] = "accepted"]
        /\ Answer(handler, "accept")
     \/ /\ \E m \in Marks : ledger' = [ledger EXCEPT ![handler.job] = m]
        /\ Answer(handler, Failure(handler, FALSE))
  /\ handler' = Free
  /\ UNCHANGED <<outbox, stale, waiting, sent, lost, receipts>>

\* The provider's process dies: in the middle of the SMTP exchange the server
\* may have taken the mail, in the middle of the marker it is cut short.
ProviderCrashes ==
  /\ waiting # {} \/ handler # Free
  /\ sent' \in IF handler.pc = "smtp" THEN {sent, [sent EXCEPT ![handler.job] = @ + 1]} ELSE {sent}
  /\ ledger' \in IF handler.pc = "mark" THEN {[ledger EXCEPT ![handler.job] = m] : m \in Marks}
                 ELSE {ledger}
  /\ handler' = Free
  /\ waiting' = {}
  /\ UNCHANGED <<outbox, stale, worker, lost, receipts>>

-----------------------------------------------------------------------------
(* POST /mail/deliveries (RecordMailDeliveryReceipt).                      *)

\* The statement's snapshot: does it see the job accepted?
CallbackBegins(j) ==
  /\ sent[j] > 0 /\ callback[j] = "none"
  /\ callback' = [callback EXCEPT ![j] = IF job[j].status = "accepted" THEN "seeing" ELSE "blind"]
  /\ UNCHANGED <<outbox, stale, worker, provider, receipt>>

\* The statement commits: the receipt is there, and a job that it saw accepted,
\* and that still is, is delivered.  The receipt is not marked as applied: the
\* statement's last part would update the row that its first part has written,
\* which PostgreSQL, with one snapshot for the whole statement, does not do.
CallbackCommits(j) ==
  /\ callback[j] # "none"
  /\ callback' = [callback EXCEPT ![j] = "none"]
  /\ receipt' = [receipt EXCEPT ![j] = IF @ = "none" THEN "pending" ELSE @]
  /\ Deliver({k \in {j} : callback[k] = "seeing" /\ job[k].status = "accepted"})
  /\ UNCHANGED <<dead, stale, worker, provider>>

-----------------------------------------------------------------------------
Next ==
  \/ \E j \in Jobs :
       \/ Enqueue(j) \/ GoesStale(j) \/ LeaseLapses(j) \/ Requeue(j)
       \/ CallbackBegins(j) \/ CallbackCommits(j)
  \/ \E w \in Workers :
       \/ Reconcile(w) \/ SkipReconcile(w) \/ Sweep(w) \/ Claim(w)
       \/ CallArrives(w) \/ CallTimesOut(w)
       \/ Accept(w) \/ ApplyReceipt(w) \/ Retry(w) \/ Fail(w) \/ WorkerCrashes(w)
  \/ \E r \in waiting : Replay(r) \/ TurnAway(r) \/ TakeKey(r)
  \/ SmtpAccepts \/ SmtpFails \/ PersistAccepted \/ ProviderCrashes

Spec == Init /\ [][Next]_vars

\* A worker's loop, and its client's timeout.
WorkerStep(w) ==
  \/ SkipReconcile(w) \/ CallTimesOut(w)
  \/ Accept(w) \/ ApplyReceipt(w) \/ Retry(w) \/ Fail(w)

\* Some worker's loop goes on, and though processes may die in every attempt, not
\* all of them always die before they claim one; a worker's clock reaches the
\* next reconciliation again and again, and a lease comes to its end.  Nothing
\* is asked of the provider, of the SMTP server or of the operator.
Fairness ==
  /\ WF_vars(\E w \in Workers : WorkerStep(w))
  /\ SF_vars(\E w \in Workers : Sweep(w))
  /\ SF_vars(\E w \in Workers : Claim(w))
  /\ SF_vars(\E w \in Workers : Reconcile(w))
  /\ \A j \in Jobs : WF_vars(LeaseLapses(j) /\ ~job[j].lapsed)

FairSpec == Spec /\ Fairness

-----------------------------------------------------------------------------
(* Properties.                                                             *)

TypeOK ==
  /\ job \in [Jobs -> [status : {"none", "pending", "processing", "retry_due", "accepted", "delivered", "failed"},
                       attempts : 0..MaxAttempts, by : Workers \cup {Nobody},
                       lapsed : BOOLEAN, requeues : Nat]]
  /\ dead \subseteq Jobs /\ stale \subseteq Jobs
  /\ worker \in [Workers -> [pc : {"idle", "sweep", "claim", "send", "await", "accept", "apply", "retry", "fail"},
                             job : Jobs \cup {NoJob}, attempt : 0..MaxAttempts]]
  /\ waiting \subseteq [job : Jobs, to : Workers \cup {Nobody}]
  /\ handler \in [pc : {"free", "smtp", "mark"}, job : Jobs \cup {NoJob}, to : Workers \cup {Nobody}]
  /\ ledger \in [Jobs -> {"none", "claimed", "marked", "accepted"}]
  /\ sent \in [Jobs -> Nat] /\ lost \in [Jobs -> Nat]
  /\ receipt \in [Jobs -> {"none", "pending", "applied"}]
  /\ callback \in [Jobs -> {"none", "blind", "seeing"}]

\* A failed job has an open dead letter, for an operator to requeue, and no
\* other job has one: the unique index on open dead letters never refuses a
\* worker's statement.
FailedIsDeadLettered == \A j \in Jobs : job[j].status = "failed" <=> j \in dead

\* A mail goes out once, and once more for each time the SMTP server took it
\* without saying so, whatever crashes, times out, is retried or requeued.
SentOnce == \A j \in Jobs : sent[j] <= 1 + lost[j]

\* An accepted job's mail did go out.  It is delivered on the word of a receipt,
\* and a receipt that says it was applied did deliver it.  (A receipt need not say
\* so: the one whose own callback delivers the job never does.)
AcceptedWasSent ==
  \A j \in Jobs :
    /\ job[j].status \in {"accepted", "delivered"} => sent[j] > 0
    /\ job[j].status = "delivered" => receipt[j] # "none"
    /\ receipt[j] = "applied" => job[j].status = "delivered"

\* Where a mail is on the way that MailPromise describes.
stage ==
  [j \in Jobs |->
     IF job[j].status \in {"pending", "processing", "retry_due"} THEN "open" ELSE job[j].status]

Promise == INSTANCE MailPromise

\* Platform-core keeps its promise: no worker, late as it may be, takes an acceptance
\* back or sends an accepted mail again, and none is accepted on the word of a call
\* that was cut short, whatever crashes, times out, is retried or requeued.
KeepsPromise == Promise!Spec

\* Every mail is accepted or dead-lettered in the end, even if workers keep
\* dying and the provider never answers.
EventuallyDecided ==
  \A j \in Jobs : job[j].status = "pending" ~> job[j].status \in {"accepted", "delivered", "failed"}

\* A receipt is applied to its mail, whichever of the two came first and however
\* the two statements overlapped.
ReceiptEventuallyApplied ==
  \A j \in Jobs : receipt[j] = "pending" /\ job[j].status = "accepted" ~> job[j].status = "delivered"
=============================================================================
