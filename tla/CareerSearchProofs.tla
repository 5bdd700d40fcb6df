-------------------------- MODULE CareerSearchProofs --------------------------
(***************************************************************************)
(* What TLAPS proves about the career service's background work, for any   *)
(* number of jobs and workers.                                             *)
(***************************************************************************)
EXTENDS CareerSearch, TLAPS

Delivering == {"preference", "skip", "sent?", "confirm", "send", "record", "retry"}

\* What a worker may rely on: the result of the search whose digest it sends is
\* durable, and what it is about to record did happen.
WorkersKnow ==
  \A w \in Workers :
    /\ worker[w].pc = "work" => worker[w].job \in Jobs
    /\ worker[w].pc \in Delivering => worker[w].job \in result
    /\ worker[w].pc = "confirm" => worker[w].job \in mailed
    /\ worker[w].pc = "record" => worker[w].job \in mails

IInv == TypeOK /\ ResultIfCompleted /\ DigestOfResult /\ SentIsEnqueued /\ WorkersKnow

USE DEF Delivering, Pcs

LEMMA InitInv == Init => IInv
  BY JobsAssumption DEF Init, IInv, TypeOK, ResultIfCompleted, DigestOfResult, SentIsEnqueued,
     WorkersKnow, Idle, Jobs

-----------------------------------------------------------------------------
(* The steps that leave the workers alone.                                 *)

LEMMA CreateKeeps ==
  ASSUME IInv, NEW j \in Jobs, Create(j)
  PROVE  IInv'
  <1> USE DEF IInv, Create, digests, platform
  <1>1. TypeOK'
    BY JobsAssumption DEF TypeOK, Jobs
  <1>2. ResultIfCompleted' /\ DigestOfResult' /\ SentIsEnqueued' /\ WorkersKnow'
    BY JobsAssumption DEF TypeOK, ResultIfCompleted, DigestOfResult, SentIsEnqueued, WorkersKnow, Jobs
  <1> QED BY <1>1, <1>2

LEMMA OthersKeep ==
  ASSUME IInv,
         \/ SetNotification
         \/ \E j \in Jobs : GrowsStale(j)
         \/ \E s \in Searches : FallsDue(s) \/ ArrivesLate(s)
  PROVE  IInv'
  <1> USE DEF jobs, digests, platform, IInv, TypeOK, ResultIfCompleted, DigestOfResult,
          SentIsEnqueued, WorkersKnow
  <1>1. CASE SetNotification
    <2>1. enabled' \in BOOLEAN
      BY <1>1 DEF SetNotification
    <2> QED BY <1>1, <2>1 DEF SetNotification
  <1>2. CASE \E j \in Jobs : GrowsStale(j)
    BY <1>2 DEF GrowsStale
  <1>3. CASE \E s \in Searches : FallsDue(s)
    BY <1>3 DEF FallsDue
  <1>4. CASE \E s \in Searches : ArrivesLate(s)
    BY <1>4 DEF ArrivesLate
  <1> QED BY <1>1, <1>2, <1>3, <1>4

-----------------------------------------------------------------------------
(* The steps of a worker.                                                  *)

\* A worker that moves on tells the others nothing: what they know has only grown.
LEMMA MovesOn ==
  ASSUME IInv, NEW w \in Workers, NEW pc \in Pcs, NEW j \in Jobs \cup {NoJob}, Goto(w, pc, j),
         result \subseteq result', mailed \subseteq mailed', mails \subseteq mails',
         pc = "work" => j \in Jobs, pc \in Delivering => j \in result',
         pc = "confirm" => j \in mailed', pc = "record" => j \in mails'
  PROVE  /\ worker' \in [Workers -> [pc : Pcs, job : Jobs \cup {NoJob}]]
         /\ WorkersKnow'
  BY DEF Goto, IInv, TypeOK, WorkersKnow

LEMMA ClaimKeeps ==
  ASSUME IInv, NEW w \in Workers, NEW j \in Jobs, Claim(w, j)
  PROVE  IInv'
  <1> USE DEF IInv, Claim, digests, platform
  <1>1. worker' \in [Workers -> [pc : Pcs, job : Jobs \cup {NoJob}]] /\ WorkersKnow'
    BY MovesOn
  <1>2. TypeOK'
    BY <1>1, JobsAssumption DEF TypeOK, Jobs, Claimable
  <1>3. ResultIfCompleted'
    BY JobsAssumption DEF TypeOK, ResultIfCompleted, Jobs, Claimable
  <1>4. DigestOfResult' /\ SentIsEnqueued'
    BY DEF DigestOfResult, SentIsEnqueued
  <1> QED BY <1>1, <1>2, <1>3, <1>4

LEMMA ClaimDigestKeeps ==
  ASSUME IInv, NEW w \in Workers, NEW s \in Searches, ClaimDigest(w, s)
  PROVE  IInv'
  <1> USE DEF IInv, ClaimDigest, DigestClaimable, jobs, platform
  <1>1. worker' \in [Workers -> [pc : Pcs, job : Jobs \cup {NoJob}]] /\ WorkersKnow'
    BY MovesOn DEF ResultIfCompleted, Jobs
  <1>2. TypeOK'
    BY <1>1 DEF TypeOK
  <1>3. ResultIfCompleted' /\ DigestOfResult' /\ SentIsEnqueued'
    BY DEF TypeOK, ResultIfCompleted, DigestOfResult, SentIsEnqueued
  <1> QED BY <1>1, <1>2, <1>3

LEMMA DecideKeeps ==
  ASSUME IInv, NEW w \in Workers, Decide(w)
  PROVE  IInv'
  <1> DEFINE j == worker[w].job
  <1>1. worker[w].pc = "work" /\ j \in Jobs
    BY DEF Decide, Superseded, Complete, CompleteExtraction, Fail, IInv, WorkersKnow
  <1>2. CASE Superseded(w)
    <2>1. worker' \in [Workers -> [pc : Pcs, job : Jobs \cup {NoJob}]] /\ WorkersKnow'
      BY <1>2, MovesOn DEF Superseded, jobs, digests, platform
    <2> QED
      BY <1>2, <2>1 DEF Superseded, jobs, digests, platform, IInv, TypeOK, ResultIfCompleted,
         DigestOfResult, SentIsEnqueued
  <1>3. CASE Complete(w)
    <2> USE <1>1, <1>3 DEF Complete, Ends, StillRunning, platform
    <2>1. worker' \in [Workers -> [pc : Pcs, job : Jobs \cup {NoJob}]] /\ WorkersKnow'
      BY MovesOn
    <2>2. TypeOK'
      BY <2>1, JobsAssumption DEF IInv, TypeOK, Jobs
    <2>3. ResultIfCompleted'
      BY DEF IInv, TypeOK, ResultIfCompleted
    <2>4. DigestOfResult' /\ SentIsEnqueued'
      BY DEF IInv, TypeOK, DigestOfResult, SentIsEnqueued
    <2> QED BY <2>1, <2>2, <2>3, <2>4 DEF IInv
  <1>4. CASE CompleteExtraction(w) \/ Fail(w)
    <2> USE <1>1, <1>4 DEF CompleteExtraction, Fail, Ends, StillRunning, digests, platform
    <2>1. worker' \in [Workers -> [pc : Pcs, job : Jobs \cup {NoJob}]] /\ WorkersKnow'
      BY MovesOn
    <2>2. TypeOK'
      BY <2>1, JobsAssumption DEF IInv, TypeOK, Jobs
    <2>3. ResultIfCompleted'
      BY JobsAssumption DEF IInv, TypeOK, ResultIfCompleted, Jobs
    <2>4. DigestOfResult' /\ SentIsEnqueued'
      BY DEF IInv, TypeOK, DigestOfResult, SentIsEnqueued
    <2> QED BY <2>1, <2>2, <2>3, <2>4 DEF IInv
  <1> QED BY <1>2, <1>3, <1>4 DEF Decide

LEMMA DeliverKeeps ==
  ASSUME IInv, NEW w \in Workers,
         Deliver(w) \/ SendFails(w) \/ Errs(w) \/ MarkRetry(w) \/ Crash(w)
  PROVE  IInv'
  <1> DEFINE s == worker[w].job
  <1>0. s \in Jobs \cup {NoJob} /\ result \subseteq Searches
    BY DEF IInv, TypeOK
  <1>1. worker[w].pc \in Delivering => s \in result
    BY DEF IInv, WorkersKnow
  <1> USE DEF At, jobs, digests, platform
  <1>2. CASE ReadPreference(w) \/ ReadSent(w) \/ Errs(w) \/ Crash(w)
    <2>1. worker' \in [Workers -> [pc : Pcs, job : Jobs \cup {NoJob}]] /\ WorkersKnow'
      <3>1. PICK pc \in Pcs, k \in {s, NoJob} :
              /\ Goto(w, pc, k)
              /\ pc \in Delivering => worker[w].pc \in Delivering /\ k = s
              /\ pc = "confirm" => k \in mailed
              /\ pc \notin {"work", "record"}
        BY <1>2 DEF ReadPreference, ReadSent, Errs, Crash
      <3> QED BY <1>0, <1>1, <1>2, <3>1, MovesOn DEF ReadPreference, ReadSent, Errs, Crash
    <2> QED
      BY <1>2, <2>1 DEF ReadPreference, ReadSent, Errs, Crash, IInv, TypeOK, ResultIfCompleted,
         DigestOfResult, SentIsEnqueued
  <1>3. CASE Skip(w) \/ Confirm(w) \/ RecordSent(w) \/ MarkRetry(w)
    <2> USE <1>0, <1>1, <1>3 DEF Skip, Confirm, RecordSent, MarkRetry
    <2>1. worker' \in [Workers -> [pc : Pcs, job : Jobs \cup {NoJob}]] /\ WorkersKnow'
      BY MovesOn
    <2>2. TypeOK'
      BY <2>1 DEF IInv, TypeOK
    <2>3. ResultIfCompleted' /\ DigestOfResult'
      BY DEF IInv, TypeOK, ResultIfCompleted, DigestOfResult
    <2>4. SentIsEnqueued'
      BY DEF IInv, TypeOK, SentIsEnqueued, WorkersKnow
    <2> QED BY <2>1, <2>2, <2>3, <2>4 DEF IInv
  <1>4. CASE Send(w) \/ SendFails(w)
    <2> USE <1>0, <1>1, <1>4 DEF Send, SendFails, AfterLostAnswer
    <2>1. worker' \in [Workers -> [pc : Pcs, job : Jobs \cup {NoJob}]] /\ WorkersKnow'
      BY MovesOn
    <2>2. TypeOK'
      BY <2>1 DEF IInv, TypeOK
    <2>3. ResultIfCompleted' /\ DigestOfResult' /\ SentIsEnqueued'
      BY DEF IInv, TypeOK, ResultIfCompleted, DigestOfResult, SentIsEnqueued
    <2> QED BY <2>1, <2>2, <2>3 DEF IInv
  <1> QED BY <1>2, <1>3, <1>4 DEF Deliver

LEMMA StepKeeps == IInv /\ [Next]_vars => IInv'
  <1> SUFFICES ASSUME IInv, [Next]_vars PROVE IInv'
    OBVIOUS
  <1>1. CASE \E w \in Workers : Step(w)
    BY <1>1, ClaimKeeps, ClaimDigestKeeps, DecideKeeps, DeliverKeeps DEF Step
  <1>2. CASE Next /\ ~\E w \in Workers : Step(w)
    BY <1>2, CreateKeeps, OthersKeep DEF Next
  <1>3. CASE UNCHANGED vars
    BY <1>3 DEF vars, IInv, TypeOK, ResultIfCompleted, DigestOfResult, SentIsEnqueued, WorkersKnow
  <1> QED BY <1>1, <1>2, <1>3

-----------------------------------------------------------------------------
(* The theorems.                                                           *)

LEMMA Invariance == Spec => []IInv
  BY InitInv, StepKeeps, PTL DEF Spec

\* A resume's bytes are kept while its extraction is undecided, and no longer.
THEOREM CareerTypes == Spec => []TypeOK
  <1>1. IInv => TypeOK
    BY DEF IInv
  <1> QED BY <1>1, Invariance, PTL

\* A search has a result if it is completed and only then (finish, fail).
THEOREM OneResult == Spec => []ResultIfCompleted
  <1>1. IInv => ResultIfCompleted
    BY DEF IInv
  <1> QED BY <1>1, Invariance, PTL

\* The digest's row comes with the result, and only a durable result is mailed
\* (finish, deliverDigest).
THEOREM DurableDigests == Spec => []DigestOfResult
  <1>1. IInv => DigestOfResult
    BY DEF IInv
  <1> QED BY <1>1, Invariance, PTL

\* A digest is called sent only when platform-core has it (deliverDigest).
THEOREM SentDigests == Spec => []SentIsEnqueued
  <1>1. IInv => SentIsEnqueued
    BY DEF IInv
  <1> QED BY <1>1, Invariance, PTL

\* The three together: a digest called sent is about a durable result.
THEOREM TrueDigests == Spec => []DigestIsTrue
  <1>1. ResultIfCompleted /\ DigestOfResult /\ SentIsEnqueued => DigestIsTrue
    BY DEF DigestIsTrue
  <1> QED BY <1>1, OneResult, DurableDigests, SentDigests, PTL

\* What a job came to stands, though it is claimed twice ("never re-failed").
OutcomeStands ==
  [][\A j \in Jobs : status[j] \in {"completed", "failed"} => status'[j] = status[j]]_vars

\* What a job came to stands, though it is claimed twice (finish, fail).
THEOREM OutcomesStand == Spec => OutcomeStands
  <1> DEFINE A == \A j \in Jobs : status[j] \in {"completed", "failed"} => status'[j] = status[j]
  <1>1. ASSUME IInv, Next PROVE A
    <2>1. ASSUME status' # status
          PROVE  \E k \in Jobs : \E x : status[k] \notin {"completed", "failed"}
                                    /\ status' = [status EXCEPT ![k] = x]
      <3>1. CASE \E j \in Jobs : Create(j)
        BY <3>1 DEF Create
      <3>2. CASE \E w \in Workers : Decide(w)
        <4>1. PICK w \in Workers : Decide(w)
          BY <3>2
        <4>2. worker[w].job \in Jobs /\ status[worker[w].job] = "running"
          BY <1>1, <2>1, <4>1
             DEF IInv, WorkersKnow, Decide, Superseded, Complete, CompleteExtraction, Fail, StillRunning,
                 jobs
        <4> QED
          BY <2>1, <4>1, <4>2
             DEF Decide, Superseded, Complete, CompleteExtraction, Fail, Ends, jobs
      <3>3. CASE \E w \in Workers, j \in Jobs : Claim(w, j)
        BY <3>3 DEF Claim, Claimable
      <3> QED
        BY <1>1, <2>1, <3>1, <3>2, <3>3
           DEF Next, Step, SetNotification, GrowsStale, FallsDue, ArrivesLate, ClaimDigest, Deliver,
               ReadPreference, Skip, ReadSent, Confirm, Send, RecordSent, SendFails, Errs, MarkRetry,
               Crash, jobs
    <2> QED BY <1>1, <2>1 DEF IInv, TypeOK
  <1>2. IInv /\ [Next]_vars => [A]_vars
    BY <1>1
  <1>3. Spec => [][A]_vars
    BY <1>2, Invariance, PTL DEF Spec
  <1> QED BY <1>3 DEF OutcomeStands

-----------------------------------------------------------------------------
(* The promise.                                                            *)

\* Where a worker has read "yes" and has not yet asked for the mail.
Sending == {"sent?", "send"}

\* What a worker's move means for the searches that a mail may go out of.
LEMMA WantedMoves ==
  ASSUME IInv, NEW w \in Workers, NEW pc \in Pcs, NEW j, Goto(w, pc, j), UNCHANGED late
  PROVE  LET s == worker[w].job
         IN /\ worker[w].pc \notin Sending /\ pc \notin Sending => UNCHANGED Wanted
            /\ pc \in Sending /\ j = s /\ s \in Searches => Wanted' = Wanted \cup {s}
            /\ worker[w].pc \in Sending /\ pc \notin Sending => Wanted' \in {Wanted, Wanted \ {s}}
  <1> DEFINE s == worker[w].job
  <1>1. /\ worker'[w] = [pc |-> pc, job |-> j]
        /\ \A v \in Workers \ {w} : worker'[v] = worker[v]
    BY DEF Goto, IInv, TypeOK
  <1>2. CASE worker[w].pc \notin Sending /\ pc \notin Sending
    BY <1>1, <1>2 DEF Wanted, Sending
  <1>3. CASE pc \in Sending /\ j = s /\ s \in Searches
    BY <1>1, <1>3 DEF Wanted, Sending
  <1>4. CASE worker[w].pc \in Sending /\ pc \notin Sending
    <2>1. \A t \in Searches \ {s} : t \in Wanted' <=> t \in Wanted
      BY <1>1, <1>4 DEF Wanted, Sending
    <2>2. s \in Wanted' => s \in Wanted
      BY <1>1, <1>4 DEF Wanted, Sending
    <2>3. Wanted \subseteq Searches /\ Wanted' \subseteq Searches
      BY DEF Wanted, IInv, TypeOK
    <2> QED BY <1>4, <2>1, <2>2, <2>3 DEF Sending
  <1> QED BY <1>2, <1>3, <1>4

LEMMA OutcomeStays ==
  ASSUME status' = status \/ \E j \in Jobs : Claimable(j) /\ status' = [status EXCEPT ![j] = "running"],
         TypeOK
  PROVE  UNCHANGED Outcome
  BY DEF Outcome, Claimable, TypeOK

LEMMA OutcomeOf ==
  ASSUME TypeOK, NEW j \in Jobs
  PROVE  /\ status[j] = "none" => Outcome[j] = "none"
         /\ status[j] \in {"queued", "running"} <=> Outcome[j] = "open"
         /\ status[j] = "completed" => Outcome[j] = "completed"
  BY DEF Outcome, TypeOK

LEMMA OutcomeMoves ==
  ASSUME TypeOK, NEW j \in Jobs, NEW x, status' = [status EXCEPT ![j] = x]
  PROVE  Outcome' = [Outcome EXCEPT ![j] = IF x \in {"queued", "running"} THEN "open" ELSE x]
  BY DEF Outcome, TypeOK

\* The owner's steps, the clock's and the network's.
LEMMA OwnerFollows ==
  ASSUME IInv,
         \/ SetNotification
         \/ \E j \in Jobs : Create(j) \/ GrowsStale(j)
         \/ \E s \in Searches : FallsDue(s) \/ ArrivesLate(s)
  PROVE  [Promise!Next]_(Promise!vars)
  <1> USE DEF IInv
  <1>1. CASE SetNotification
    <2>1. UNCHANGED <<Outcome, Wanted, mails, mailed>>
      BY <1>1 DEF SetNotification, jobs, digests, platform, Outcome, Wanted
    <2> QED BY <1>1, <2>1 DEF SetNotification, Promise!Wish, Promise!Next
  <1>2. ASSUME NEW j \in Jobs, Create(j) PROVE Promise!Create(j)
    <2>1. Outcome[j] = "none" /\ Outcome' = [Outcome EXCEPT ![j] = "open"]
      BY <1>2, OutcomeOf, OutcomeMoves DEF Create
    <2>2. Active = {s \in Searches : Outcome[s] = "open"}
      BY OutcomeOf DEF Active, Jobs
    <2>3. UNCHANGED <<enabled, Wanted, mails, mailed>>
      BY <1>2 DEF Create, digests, platform, Wanted
    <2>4. j \in Searches => Cardinality({s \in Searches : Outcome[s] = "open"}) < ActiveLimit
      BY <1>2, <2>2 DEF Create
    <2>5. Promise!Cardinality({s \in Searches : Outcome[s] = "open"})
            = Cardinality({s \in Searches : Outcome[s] = "open"})
      BY Zenon DEF Promise!Cardinality, Cardinality
    <2> QED BY <2>1, <2>3, <2>4, <2>5 DEF Promise!Create
  <1>3. ASSUME \/ \E j \in Jobs : GrowsStale(j)
               \/ \E s \in Searches : FallsDue(s)
        PROVE  UNCHANGED Promise!vars
    <2>1. UNCHANGED <<status, enabled, late, worker, mails, mailed>>
      BY <1>3 DEF GrowsStale, FallsDue, jobs, digests, platform
    <2> QED BY <2>1 DEF Promise!vars, Outcome, Wanted
  <1>4. ASSUME NEW s \in Searches, ArrivesLate(s) PROVE Promise!Mail(s)
    <2>1. UNCHANGED <<Outcome, enabled, mailed>> /\ mails' = mails \cup {s}
      BY <1>4 DEF ArrivesLate, jobs, digests, Outcome
    <2>2. s \in Wanted /\ Wanted' \in {Wanted, Wanted \ {s}}
      BY <1>4 DEF ArrivesLate, Wanted
    <2> QED BY <2>1, <2>2 DEF Promise!Mail
  <1> QED BY <1>1, <1>2, <1>3, <1>4 DEF Promise!Next

\* What a worker does about a job.
LEMMA WorkFollows ==
  ASSUME IInv, NEW w \in Workers,
         \/ \E j \in Jobs : Claim(w, j)
         \/ \E s \in Searches : ClaimDigest(w, s)
         \/ Decide(w)
  PROVE  [Promise!Next]_(Promise!vars)
  <1> USE DEF IInv
  <1>1. UNCHANGED <<enabled, mails, mailed, late>>
    BY DEF Claim, ClaimDigest, Decide, Superseded, Complete, CompleteExtraction, Fail, digests, platform
  <1>2. UNCHANGED Wanted
    <2>1. PICK pc \in Pcs, j \in Jobs \cup {NoJob} :
            Goto(w, pc, j) /\ pc \notin Sending /\ worker[w].pc \notin Sending
      <3>1. CASE Decide(w)
        <4>1. worker[w].job \in Jobs
          BY <3>1 DEF Decide, Superseded, Complete, CompleteExtraction, Fail, WorkersKnow
        <4> QED BY <3>1, <4>1 DEF Decide, Superseded, Complete, CompleteExtraction, Fail, Sending
      <3>2. CASE \E j \in Jobs : Claim(w, j)
        BY <3>2 DEF Claim, Idle, Sending
      <3>3. CASE \E s \in Searches : ClaimDigest(w, s)
        BY <3>3 DEF ClaimDigest, Idle, Sending, Jobs
      <3> QED BY <3>1, <3>2, <3>3
    <2> QED BY <1>1, <2>1, WantedMoves
  <1>3. ASSUME UNCHANGED Outcome PROVE UNCHANGED Promise!vars
    BY <1>1, <1>2, <1>3 DEF Promise!vars
  <1>4. CASE \/ \E j \in Jobs : Claim(w, j)
             \/ \E s \in Searches : ClaimDigest(w, s)
             \/ Superseded(w)
    <2>1. \/ status' = status
          \/ \E j \in Jobs : Claimable(j) /\ status' = [status EXCEPT ![j] = "running"]
      BY <1>4 DEF Claim, ClaimDigest, Superseded, jobs
    <2> QED BY <1>3, <2>1, OutcomeStays
  <1>5. CASE Complete(w) \/ CompleteExtraction(w) \/ Fail(w)
    <2> DEFINE j == worker[w].job
    <2>1. j \in Jobs /\ status[j] = "running"
      BY <1>5 DEF Complete, CompleteExtraction, Fail, StillRunning, WorkersKnow
    <2>2. PICK how \in {"completed", "failed"} : status' = [status EXCEPT ![j] = how]
      BY <1>5 DEF Complete, CompleteExtraction, Fail, Ends
    <2>3. Outcome[j] = "open" /\ Outcome' = [Outcome EXCEPT ![j] = how]
      BY <2>1, <2>2, OutcomeOf, OutcomeMoves
    <2>4. Promise!Decide(j, how)
      BY <1>1, <1>2, <2>3 DEF Promise!Decide
    <2> QED BY <2>1, <2>4 DEF Promise!Next
  <1> QED BY <1>4, <1>5 DEF Decide

\* What a worker does about a digest: it sends only between the owner's yes and
\* the end of that attempt, and records only what was sent.
LEMMA DeliverFollows ==
  ASSUME IInv, NEW w \in Workers,
         Deliver(w) \/ SendFails(w) \/ Errs(w) \/ MarkRetry(w) \/ Crash(w)
  PROVE  [Promise!Next]_(Promise!vars)
  <1> DEFINE s == worker[w].job
  <1> USE DEF IInv
  <1>1. UNCHANGED <<Outcome, enabled>>
    BY DEF Deliver, ReadPreference, Skip, ReadSent, Confirm, Send, RecordSent, SendFails, Errs, MarkRetry,
       Crash, jobs, Outcome
  <1>2. worker[w].pc \in Delivering => s \in Searches /\ Outcome[s] = "completed"
    <2>1. worker[w].pc \in Delivering => s \in Searches /\ status[s] = "completed"
      BY DEF WorkersKnow, ResultIfCompleted
    <2> QED BY <2>1, OutcomeOf DEF Jobs
  \* An attempt that ends, or never got to send.
  <1>3. ASSUME NEW pc \in Pcs, NEW j, Goto(w, pc, j), pc \notin Sending,
               UNCHANGED <<late, mails, mailed>>
        PROVE  [Promise!Next]_(Promise!vars)
    <2>1. CASE worker[w].pc \notin Sending
      BY <1>1, <1>3, <2>1, WantedMoves DEF Promise!vars
    <2>2. CASE worker[w].pc \in Sending
      <3>1. Wanted' \in {Wanted, Wanted \ {s}}
        BY <1>3, <2>2, WantedMoves
      <3>2. s \in Searches
        BY <1>2, <2>2 DEF Sending
      <3> QED BY <1>1, <1>3, <3>1, <3>2 DEF Promise!vars, Promise!Drop, Promise!Next
    <2> QED BY <2>1, <2>2
  <1>4. CASE ReadPreference(w)
    <2>1. /\ UNCHANGED <<late, mails, mailed>> /\ s \in Searches /\ Outcome[s] = "completed"
          /\ Goto(w, IF enabled THEN "sent?" ELSE "skip", s)
      BY <1>2, <1>4 DEF ReadPreference, At, digests, platform
    <2>2. CASE enabled
      <3>1. Wanted' = Wanted \cup {s}
        BY <2>1, <2>2, WantedMoves DEF Sending
      <3> QED BY <1>1, <2>1, <2>2, <3>1 DEF Promise!Ask, Promise!Next
    <2>3. CASE ~enabled
      <3>1. Goto(w, "skip", s)
        BY <2>1, <2>3
      <3> QED BY <1>3, <2>1, <3>1 DEF Sending
    <2> QED BY <2>2, <2>3
  <1>5. CASE ReadSent(w)
    <2>1. /\ UNCHANGED <<late, mails, mailed>> /\ s \in Searches /\ worker[w].pc = "sent?"
          /\ Goto(w, "confirm", s) \/ Goto(w, "send", s)
      BY <1>2, <1>5 DEF ReadSent, At, digests, platform
    <2>2. CASE Goto(w, "confirm", s)
      BY <1>3, <2>1, <2>2 DEF Sending
    <2>3. CASE Goto(w, "send", s)
      <3>1. Wanted' = Wanted \cup {s}
        BY <2>1, <2>3, WantedMoves DEF Sending
      <3>2. s \in Wanted
        BY <2>1 DEF Wanted
      <3>3. Wanted' = Wanted
        BY <3>1, <3>2
      <3> QED BY <1>1, <2>1, <3>3 DEF Promise!vars
    <2> QED BY <2>1, <2>2, <2>3
  <1>6. CASE Skip(w) \/ Confirm(w) \/ MarkRetry(w) \/ Errs(w) \/ Crash(w)
    <2>1. UNCHANGED <<late, mails, mailed>>
      BY <1>6 DEF Skip, Confirm, MarkRetry, Errs, Crash, digests, platform
    <2>2. \E pc \in {"idle", "retry"}, j \in {NoJob, s} : Goto(w, pc, j)
      BY <1>6 DEF Skip, Confirm, MarkRetry, Errs, Crash
    <2> QED BY <1>3, <2>1, <2>2 DEF Sending
  <1>7. CASE RecordSent(w)
    <2>1. /\ Goto(w, "idle", NoJob) /\ UNCHANGED <<late, mails>> /\ mailed' = mailed \cup {s}
          /\ worker[w].pc = "record"
      BY <1>7 DEF RecordSent, At, platform
    <2>2. s \in Searches /\ s \in mails
      BY <1>2, <2>1 DEF WorkersKnow
    <2>3. UNCHANGED Wanted
      BY <2>1, WantedMoves DEF Sending
    <2> QED BY <1>1, <2>1, <2>2, <2>3 DEF Promise!Record, Promise!Next
  <1>8. CASE Send(w) \/ SendFails(w)
    <2>1. worker[w].pc = "send" /\ s \in Searches /\ s \in Wanted /\ UNCHANGED mailed
      BY <1>2, <1>8 DEF Send, SendFails, At, digests, Wanted
    <2>2. PICK pc \in {"record", "retry"} : Goto(w, pc, s)
      BY <1>8 DEF Send, SendFails, AfterLostAnswer
    <2>3. CASE mails' \in {mails, mails \cup {s}} /\ UNCHANGED late
      <3>1. Wanted' \in {Wanted, Wanted \ {s}}
        BY <2>1, <2>2, <2>3, WantedMoves DEF Sending
      <3>2. CASE UNCHANGED mails
        BY <1>3, <2>1, <2>2, <2>3, <3>2 DEF Sending
      <3>3. CASE mails' = mails \cup {s}
        BY <1>1, <2>1, <3>1, <3>3 DEF Promise!Mail, Promise!Next
      <3> QED BY <2>3, <3>2, <3>3
    <2>4. CASE late' = late \cup {s} /\ UNCHANGED mails
      <3>1. /\ worker'[w] = [pc |-> pc, job |-> s]
            /\ \A v \in Workers \ {w} : worker'[v] = worker[v]
        BY <2>2 DEF Goto, TypeOK
      <3>2. Wanted' = Wanted
        BY <2>1, <2>4, <3>1 DEF Wanted
      <3> QED BY <1>1, <2>1, <2>4, <3>2 DEF Promise!vars
    <2> QED BY <1>8, <2>3, <2>4 DEF Send, SendFails
  <1> QED BY <1>4, <1>5, <1>6, <1>7, <1>8 DEF Deliver

\* The workers, whoever dies and whatever is claimed twice, do what CareerPromise
\* says: finish and fail write one outcome, and deliverDigest asks for a mail only
\* behind its reading of the owner's preference.
THEOREM PromiseKept == Spec => KeepsPromise
  <1>1. Init => Promise!Init
    BY DEF Init, Outcome, Wanted, Idle, Promise!Init
  <1>2. IInv /\ [Next]_vars => [Promise!Next]_(Promise!vars)
    <2>1. ASSUME IInv, UNCHANGED vars PROVE UNCHANGED Promise!vars
      BY <2>1 DEF vars, Promise!vars, Outcome, Wanted
    <2>2. ASSUME IInv, Next PROVE [Promise!Next]_(Promise!vars)
      BY <2>2, OwnerFollows, WorkFollows, DeliverFollows DEF Next, Step
    <2> QED BY <2>1, <2>2
  <1> QED BY <1>1, <1>2, Invariance, PTL DEF Spec, KeepsPromise, Promise!Spec
=============================================================================
