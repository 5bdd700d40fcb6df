------------------------------ MODULE CareerSearch ------------------------------
(***************************************************************************)
(* The career service's background work: searches and resume extractions   *)
(* that are queued for the workers, and the digest of a completed search,  *)
(* which platform-core enqueues as mail (worker.go, searches.go,           *)
(* extractions.go, digest.go, careerdigestmail/service.go).                *)
(*                                                                         *)
(* A step is one transaction, one SQL statement, or one call.  The jobs    *)
(* are those of one owner; a request that is refused, or answered from its *)
(* idempotency key, changes nothing and is left out.  The clock is left    *)
(* out: a claim grows stale, and a digest due, at some moment.  A worker   *)
(* asks for a job and then for a digest: what is queued in between might   *)
(* as well be queued afterwards, so the two questions are one step.        *)
(***************************************************************************)
EXTENDS Naturals, FiniteSets

CONSTANTS
  Searches,     \* career_searches of the owner
  Extractions,  \* career_resume_extractions of the owner
  Workers,      \* processes that run the worker loop
  ActiveLimit,  \* searchActiveLimit
  NoJob

Jobs == Searches \cup Extractions

ASSUME JobsAssumption == Searches \cap Extractions = {} /\ NoJob \notin Jobs

VARIABLES
  status,    \* of the jobs
  stale,     \* jobs claimed longer than staleClaimAfter ago
  result,    \* career_search_results
  file,      \* extractions with file_content
  digest,    \* career_digest_deliveries: the status of each
  due,       \* digests attempted longer than digestRetryAfter ago
  mailed,    \* searches with email_sent_at
  enabled,   \* email_notification_enabled of the owner
  mails,     \* career digests in platform-core's outbox
  late,      \* digests on their way that nobody waits for any more
  worker     \* the workers

vars == <<status, stale, result, file, digest, due, mailed, enabled, mails, late, worker>>
jobs == <<status, stale, result, file>>
digests == <<digest, due, mailed>>
platform == <<mails, late>>

Idle == [pc |-> "idle", job |-> NoJob]

Init ==
  /\ status = [j \in Jobs |-> "none"] /\ stale = {} /\ result = {} /\ file = {}
  /\ digest = [s \in Searches |-> "none"] /\ due = {} /\ mailed = {}
  /\ enabled \in BOOLEAN
  /\ mails = {} /\ late = {}
  /\ worker = [w \in Workers |-> Idle]

-----------------------------------------------------------------------------
(* The owner.                                                              *)

Active == {s \in Searches : status[s] \in {"queued", "running"}}

\* storeSearch, under the owner's advisory lock; createExtraction.
Create(j) ==
  /\ status[j] = "none"
  /\ j \in Searches => Cardinality(Active) < ActiveLimit
  /\ status' = [status EXCEPT ![j] = "queued"]
  /\ file' = file \cup ({j} \cap Extractions)
  /\ UNCHANGED <<stale, result, digests, enabled, platform, worker>>

\* storeProfile.
SetNotification ==
  /\ enabled' = ~enabled
  /\ UNCHANGED <<jobs, digests, platform, worker>>

-----------------------------------------------------------------------------
(* Claims.                                                                 *)

Claimable(j) == status[j] = "queued" \/ (status[j] = "running" /\ j \in stale)

\* Mutant: a delivery that was claimed is not claimed again.
RetriesOnly(s) == s \in due \ mailed /\ status[s] = "completed" /\ digest[s] = "retry"

DigestClaimable(s) ==
  s \in due \ mailed /\ status[s] = "completed" /\ digest[s] \in {"retry", "sending"}

GrowsStale(j) ==
  /\ status[j] = "running" /\ j \notin stale
  /\ stale' = stale \cup {j}
  /\ UNCHANGED <<status, result, file, digests, enabled, platform, worker>>

FallsDue(s) ==
  /\ digest[s] \in {"retry", "sending"} /\ s \notin due
  /\ due' = due \cup {s}
  /\ UNCHANGED <<jobs, digest, mailed, enabled, platform, worker>>

Goto(w, pc, j) == worker' = [worker EXCEPT ![w] = [pc |-> pc, job |-> j]]

\* claimOne, and claimOneExtraction when there is no search to claim.
Claim(w, j) ==
  /\ worker[w] = Idle
  /\ Claimable(j)
  /\ j \in Extractions => \A s \in Searches : ~Claimable(s)
  /\ status' = [status EXCEPT ![j] = "running"]
  /\ stale' = stale \ {j}
  /\ Goto(w, "work", j)
  /\ UNCHANGED <<result, file, digests, enabled, platform>>

\* claimOneDigest, when there is no job to claim.
ClaimDigest(w, s) ==
  /\ worker[w] = Idle
  /\ \A j \in Jobs : ~Claimable(j)
  /\ DigestClaimable(s)
  /\ digest' = [digest EXCEPT ![s] = "sending"]
  /\ due' = due \ {s}
  /\ Goto(w, "preference", s)
  /\ UNCHANGED <<jobs, mailed, enabled, platform>>

-----------------------------------------------------------------------------
(* The outcome of a job.                                                   *)

\* Mutant: a failure is recorded whatever became of the job.
RunningOrDone(j) == TRUE

StillRunning(j) == status[j] = "running"

Ends(j, outcome) ==
  /\ status' = [status EXCEPT ![j] = outcome]
  /\ stale' = stale \ {j}
  /\ file' = file \ {j}

\* The job left 'running': another worker, that claimed it too, decided it.
Superseded(w) ==
  LET j == worker[w].job
  IN /\ worker[w].pc = "work"
     /\ ~StillRunning(j)
     /\ Goto(w, "idle", NoJob)
     /\ UNCHANGED <<jobs, digests, enabled, platform>>

\* finish: the result and the digest's row, in the transaction that completes it.
Complete(w) ==
  LET s == worker[w].job
  IN /\ worker[w].pc = "work" /\ s \in Searches
     /\ StillRunning(s)
     /\ Ends(s, "completed")
     /\ result' = result \cup {s}
     /\ digest' = [digest EXCEPT ![s] = "sending"]
     /\ Goto(w, "preference", s)
     /\ UNCHANGED <<due, mailed, enabled, platform>>

\* finishExtraction.
CompleteExtraction(w) ==
  LET e == worker[w].job
  IN /\ worker[w].pc = "work" /\ e \in Extractions
     /\ StillRunning(e)
     /\ Ends(e, "completed")
     /\ Goto(w, "idle", NoJob)
     /\ UNCHANGED <<result, digests, enabled, platform>>

\* fail and failExtraction.
Fail(w) ==
  LET j == worker[w].job
  IN /\ worker[w].pc = "work"
     /\ StillRunning(j)
     /\ Ends(j, "failed")
     /\ Goto(w, "idle", NoJob)
     /\ UNCHANGED <<result, digests, enabled, platform>>

-----------------------------------------------------------------------------
(* deliverDigest.                                                          *)

At(w, pc) == worker[w].pc = pc

ReadPreference(w) ==
  /\ At(w, "preference")
  /\ Goto(w, IF enabled THEN "sent?" ELSE "skip", worker[w].job)
  /\ UNCHANGED <<jobs, digests, enabled, platform>>

Skip(w) ==
  /\ At(w, "skip")
  /\ digest' = [digest EXCEPT ![worker[w].job] = "skipped"]
  /\ Goto(w, "idle", NoJob)
  /\ UNCHANGED <<jobs, due, mailed, enabled, platform>>

\* The guard on email_sent_at.
ReadSent(w) ==
  /\ At(w, "sent?")
  /\ Goto(w, IF worker[w].job \in mailed THEN "confirm" ELSE "send", worker[w].job)
  /\ UNCHANGED <<jobs, digests, enabled, platform>>

Confirm(w) ==
  /\ At(w, "confirm")
  /\ digest' = [digest EXCEPT ![worker[w].job] = "sent"]
  /\ Goto(w, "idle", NoJob)
  /\ UNCHANGED <<jobs, due, mailed, enabled, platform>>

\* SendDigest: Enqueue takes the first request, and calls the others replays.
Send(w) ==
  /\ At(w, "send")
  /\ mails' = mails \cup {worker[w].job}
  /\ Goto(w, "record", worker[w].job)
  /\ UNCHANGED <<jobs, digests, enabled, late>>

\* Mutant: a call without an answer counts as sent.
SendsOn == {"retry", "record"}

AfterLostAnswer == {"retry"}

\* The call is refused or fails; then the request may have arrived, or still will.
SendFails(w) ==
  /\ At(w, "send")
  /\ \/ mails' \in {mails, mails \cup {worker[w].job}} /\ UNCHANGED late
     \/ late' = late \cup {worker[w].job} /\ UNCHANGED mails
  /\ \E pc \in AfterLostAnswer : Goto(w, pc, worker[w].job)
  /\ UNCHANGED <<jobs, digests, enabled>>

ArrivesLate(s) ==
  /\ s \in late
  /\ late' = late \ {s}
  /\ mails' = mails \cup {s}
  /\ UNCHANGED <<jobs, digests, enabled, worker>>

\* email_sent_at and 'sent', in one transaction.
RecordSent(w) ==
  /\ At(w, "record")
  /\ mailed' = mailed \cup {worker[w].job}
  /\ digest' = [digest EXCEPT ![worker[w].job] = "sent"]
  /\ Goto(w, "idle", NoJob)
  /\ UNCHANGED <<jobs, due, enabled, platform>>

\* A statement of deliverDigest fails.
Errs(w) ==
  /\ worker[w].pc \in {"preference", "skip", "sent?", "confirm", "record"}
  /\ Goto(w, "retry", worker[w].job)
  /\ UNCHANGED <<jobs, digests, enabled, platform>>

\* markDigestRetry.
MarkRetry(w) ==
  /\ At(w, "retry")
  /\ IF digest[worker[w].job] = "sent" THEN UNCHANGED <<digest, due>>
     ELSE digest' = [digest EXCEPT ![worker[w].job] = "retry"] /\ due' = due \ {worker[w].job}
  /\ Goto(w, "idle", NoJob)
  /\ UNCHANGED <<jobs, mailed, enabled, platform>>

\* The process dies, or its last statement fails and the loop starts again.
Crash(w) ==
  /\ worker[w] # Idle
  /\ Goto(w, "idle", NoJob)
  /\ UNCHANGED <<jobs, digests, enabled, platform>>

-----------------------------------------------------------------------------
Decide(w) == Superseded(w) \/ Complete(w) \/ CompleteExtraction(w) \/ Fail(w)

Deliver(w) ==
  \/ ReadPreference(w) \/ Skip(w) \/ ReadSent(w) \/ Confirm(w) \/ Send(w) \/ RecordSent(w)

Step(w) ==
  \/ \E j \in Jobs : Claim(w, j)
  \/ \E s \in Searches : ClaimDigest(w, s)
  \/ Decide(w) \/ Deliver(w) \/ SendFails(w) \/ Errs(w) \/ MarkRetry(w) \/ Crash(w)

Next ==
  \/ SetNotification
  \/ \E j \in Jobs : Create(j) \/ GrowsStale(j)
  \/ \E s \in Searches : FallsDue(s) \/ ArrivesLate(s)
  \/ \E w \in Workers : Step(w)

Spec == Init /\ [][Next]_vars

\* Time passes, the workers' loops go on, and nothing fails every time it is tried.
Fairness ==
  /\ \A w \in Workers : WF_vars(Step(w))
  /\ \A j \in Jobs :
       WF_vars(GrowsStale(j)) /\ SF_vars(\E w \in Workers : worker[w].job = j /\ Decide(w))
  /\ \A s \in Searches :
       /\ WF_vars(FallsDue(s))
       /\ \A pc \in {"preference", "skip", "sent?", "send", "record"} :
            SF_vars(\E w \in Workers : worker[w] = [pc |-> pc, job |-> s] /\ Deliver(w))

FairSpec == Spec /\ Fairness

-----------------------------------------------------------------------------
(* Properties.                                                             *)

Pcs == {"idle", "work", "preference", "skip", "sent?", "confirm", "send", "record", "retry"}

\* Types; and a resume's bytes are kept while its extraction is undecided, no longer.
TypeOK ==
  /\ status \in [Jobs -> {"none", "queued", "running", "completed", "failed"}]
  /\ stale \subseteq {j \in Jobs : status[j] = "running"}
  /\ result \subseteq Searches
  /\ file = {e \in Extractions : status[e] \in {"queued", "running"}}
  /\ digest \in [Searches -> {"none", "sending", "retry", "sent", "skipped"}]
  /\ due \subseteq Searches /\ mailed \subseteq Searches
  /\ enabled \in BOOLEAN
  /\ mails \subseteq Searches /\ late \subseteq Searches
  /\ worker \in [Workers -> [pc : Pcs, job : Jobs \cup {NoJob}]]

\* A search has a result if it is completed and only then, however many workers
\* took it for theirs.
ResultIfCompleted == result = {s \in Searches : status[s] = "completed"}

\* A search has a digest to decide exactly when its result is durable, and only a
\* durable result is mailed: never one of a search that another worker failed.
DigestOfResult ==
  /\ result = {s \in Searches : digest[s] # "none"}
  /\ mails \cup late \subseteq result

\* A digest is called sent only when platform-core has it.
SentIsEnqueued ==
  /\ mailed \subseteq mails
  /\ \A s \in Searches : digest[s] = "sent" => s \in mailed

\* A digest that is called sent is about a durable result, all the way from the
\* search's outcome to platform-core's outbox.
DigestIsTrue == ResultIfCompleted /\ DigestOfResult /\ SentIsEnqueued

Outcome == [j \in Jobs |-> IF status[j] \in {"queued", "running"} THEN "open" ELSE status[j]]

\* Whoever is about to send read the preference after the search was completed.
Wanted ==
  {s \in Searches : \E w \in Workers : worker[w].job = s /\ worker[w].pc \in {"sent?", "send"}} \cup late

Promise == INSTANCE CareerPromise WITH outcome <- Outcome, wanted <- Wanted

\* Whoever dies, is late, or does a job that another has done, the jobs keep one
\* outcome, and a mail goes out of a completed search whose owner wanted it then.
KeepsPromise == Promise!Spec

\* No job stays queued or running for ever though its worker dies, and the digest
\* of a completed search is enqueued, or skipped as its owner wished.
EventuallyDone ==
  \A j \in Jobs :
    status[j] = "queued" ~>
      \/ status[j] = "failed"
      \/ status[j] = "completed" /\ (j \in Searches => j \in mailed \/ digest[j] = "skipped")
=============================================================================
