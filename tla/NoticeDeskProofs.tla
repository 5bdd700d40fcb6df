--------------------------- MODULE NoticeDeskProofs ---------------------------
(***************************************************************************)
(* What TLAPS proves about the notice service, for any number of notices,  *)
(* keys and workers and any limit of attempts; among it that the service   *)
(* keeps the promise of NoticePromise.                                     *)
(***************************************************************************)
EXTENDS NoticeDesk, TLAPS

(* The inductive invariant.                                                *)

\* How far a notice is decides its revision, its reviews and its distribution.
Lifecycle(n) ==
  /\ notice[n].state = "none" => notice[n].revision = 0
  /\ notice[n].state = "pending_review" => notice[n].revision = 1
  /\ notice[n].state \in {"approved", "rejected"} =>
       notice[n].revision = 2 /\ reviews[n] = {notice[n].state}
  /\ notice[n].state \in {"none", "pending_review"} => reviews[n] = {}
  /\ notice[n].state = "distributed" =>
       /\ reviews[n] = {"approved"}
       /\ queued[n] = 1
       /\ distribution[n].status # "none"
  /\ notice[n].state # "distributed" => queued[n] = 0 /\ distribution[n].status = "none"

\* A worker holds a notice that was queued; the attempts of its claim were
\* counted in the row; what it concluded is what it saw.
WorkerTrue(w) ==
  LET n == worker[w].notice
  IN worker[w].pc # "idle" =>
       /\ n \in Notices
       /\ distribution[n].status # "none"
       /\ worker[w].attempts <= distribution[n].attempts
       /\ worker[w].pc = "complete" =>
            /\ worker[w].status \in {"delivered", "failed", "queued"}
            /\ worker[w].status = "delivered" => n \in received
            /\ worker[w].status = "failed" => worker[w].attempts = MaxAttempts

ReceivedWasQueued == \A n \in received : distribution[n].status # "none"

HistoryNamesNotices ==
  \A op \in Operations, k \in Keys :
    history[op][k] # Unknown => history[op][k].notice \in Notices

IInv ==
  /\ TypeOK
  /\ \A n \in Notices : Lifecycle(n)
  /\ \A w \in Workers : WorkerTrue(w)
  /\ ReceivedWasQueued
  /\ OutcomeIsTrue
  /\ HistoryNamesNotices
  /\ HistoryIsTrue

USE DEF Operations, Decisions, Stages, Statuses

LEMMA IdleTyped == Idle.pc = "idle" /\ Idle.notice = NoNotice /\ Idle.attempts = 0 /\ Idle.status = "none"
  BY DEF Idle

LEMMA InitInv == Init => IInv
  <1> SUFFICES ASSUME Init PROVE IInv
    OBVIOUS
  <1> USE AttemptsAssumption DEF Init
  <1>1. TypeOK
    BY DEF TypeOK, Unknown, Idle
  <1>2. \A n \in Notices : Lifecycle(n)
    BY DEF Lifecycle
  <1>3. \A w \in Workers : WorkerTrue(w)
    BY DEF WorkerTrue, Idle
  <1>4. ReceivedWasQueued /\ OutcomeIsTrue /\ HistoryNamesNotices /\ HistoryIsTrue
    BY DEF ReceivedWasQueued, OutcomeIsTrue, HistoryNamesNotices, HistoryIsTrue
  <1> QED BY <1>1, <1>2, <1>3, <1>4 DEF IInv

-----------------------------------------------------------------------------
(* The operators' writes.                                                  *)

\* An answer that is true of its notice keeps the history true, if the write
\* changes nothing that an earlier answer says of another notice or of this one.
LEMMA HistoryAfterAnswer ==
  ASSUME IInv, NEW op \in Operations, NEW k \in Keys, NEW n \in Notices,
         NEW body \in {"content", "audience"} \cup Decisions,
         Answer(op, k, n, body),
         \A m \in Notices : notice[m].state # "none" => notice'[m].state # "none",
         \A m \in Notices : reviews[m] # {} => reviews'[m] = reviews[m],
         \A m \in Notices : queued[m] = 1 => queued'[m] = 1,
         op = "version_create" => notice'[n].state # "none",
         op = "review" => reviews'[n] = {body},
         op = "distribution" => queued'[n] = 1
  PROVE  /\ history' \in [Operations -> [Keys -> [notice : Notices \cup {NoNotice},
                                  body : {"none", "content", "audience"} \cup Decisions]]]
         /\ HistoryNamesNotices'
         /\ HistoryIsTrue'
  <1> DEFINE a == [notice |-> n, body |-> body]
  <1>1. /\ history \in [Operations -> [Keys -> [notice : Notices \cup {NoNotice},
                                  body : {"none", "content", "audience"} \cup Decisions]]]
        /\ history' = [history EXCEPT ![op][k] = a]
    BY DEF IInv, TypeOK, Answer
  <1>2. history' \in [Operations -> [Keys -> [notice : Notices \cup {NoNotice},
                                  body : {"none", "content", "audience"} \cup Decisions]]]
    BY <1>1
  <1>3. \A o \in Operations, q \in Keys :
          history'[o][q] = IF o = op /\ q = k THEN a ELSE history[o][q]
    BY <1>1
  <1>4. HistoryNamesNotices'
    BY <1>3 DEF IInv, HistoryNamesNotices
  <1>5. ASSUME NEW q \in Keys PROVE
          /\ history'["version_create"][q] # Unknown =>
               notice'[history'["version_create"][q].notice].state # "none"
          /\ history'["review"][q] # Unknown =>
               reviews'[history'["review"][q].notice] = {history'["review"][q].body}
          /\ history'["distribution"][q] # Unknown =>
               queued'[history'["distribution"][q].notice] = 1
    <2>1. /\ history["version_create"][q] # Unknown =>
               /\ history["version_create"][q].notice \in Notices
               /\ notice[history["version_create"][q].notice].state # "none"
          /\ history["review"][q] # Unknown =>
               /\ history["review"][q].notice \in Notices
               /\ reviews[history["review"][q].notice] = {history["review"][q].body}
          /\ history["distribution"][q] # Unknown =>
               /\ history["distribution"][q].notice \in Notices
               /\ queued[history["distribution"][q].notice] = 1
      BY DEF IInv, HistoryNamesNotices, HistoryIsTrue
    <2>2. history["review"][q] # Unknown => reviews[history["review"][q].notice] # {}
      BY <2>1
    <2> QED BY <1>3, <2>1, <2>2
  <1>6. HistoryIsTrue'
    BY <1>5 DEF HistoryIsTrue
  <1> QED BY <1>2, <1>4, <1>6

LEMMA CreateVersionKeeps ==
  ASSUME IInv, NEW k \in Keys, NEW n \in Notices, CreateVersion(k, n)
  PROVE  IInv'
  <1> USE DEF CreateVersion
  <1>1. /\ history' \in [Operations -> [Keys -> [notice : Notices \cup {NoNotice},
                                  body : {"none", "content", "audience"} \cup Decisions]]]
        /\ HistoryNamesNotices' /\ HistoryIsTrue'
    <2>1. Answer("version_create", k, n, "content")
      OBVIOUS
    <2>2. \A m \in Notices : notice[m].state # "none" => notice'[m].state # "none"
      BY DEF IInv, TypeOK
    <2>3. notice'[n].state # "none"
      BY DEF IInv, TypeOK
    <2> QED BY <2>1, <2>2, <2>3, HistoryAfterAnswer
  <1>2. TypeOK'
    BY <1>1 DEF IInv, TypeOK
  <1>3. \A m \in Notices : Lifecycle(m)'
    BY DEF IInv, TypeOK, Lifecycle
  <1>4. \A w \in Workers : WorkerTrue(w)'
    BY DEF IInv, WorkerTrue
  <1>5. ReceivedWasQueued' /\ OutcomeIsTrue'
    BY DEF IInv, ReceivedWasQueued, OutcomeIsTrue
  <1> QED BY <1>1, <1>2, <1>3, <1>4, <1>5 DEF IInv

LEMMA ReviewKeeps ==
  ASSUME IInv, NEW k \in Keys, NEW n \in Notices, NEW d \in Decisions, NEW r \in 1..3,
         Review(k, n, d, r)
  PROVE  IInv'
  <1> USE DEF Review, Is, Advance
  <1>1. notice[n].state = "pending_review" /\ notice[n].revision = 1 /\ reviews[n] = {}
    BY DEF IInv, Lifecycle
  <1>2. /\ history' \in [Operations -> [Keys -> [notice : Notices \cup {NoNotice},
                                  body : {"none", "content", "audience"} \cup Decisions]]]
        /\ HistoryNamesNotices' /\ HistoryIsTrue'
    <2>1. Answer("review", k, n, d)
      OBVIOUS
    <2>2. \A m \in Notices : notice[m].state # "none" => notice'[m].state # "none"
      BY DEF IInv, TypeOK
    <2>3. reviews'[n] = {d} /\ \A m \in Notices : reviews[m] # {} => reviews'[m] = reviews[m]
      BY <1>1 DEF IInv, TypeOK
    <2> QED BY <2>1, <2>2, <2>3, HistoryAfterAnswer
  <1>3. TypeOK'
    BY <1>1, <1>2 DEF IInv, TypeOK
  <1>4. \A m \in Notices : Lifecycle(m)'
    BY <1>1 DEF IInv, TypeOK, Lifecycle
  <1>5. \A w \in Workers : WorkerTrue(w)'
    BY DEF IInv, WorkerTrue
  <1>6. ReceivedWasQueued' /\ OutcomeIsTrue'
    BY DEF IInv, ReceivedWasQueued, OutcomeIsTrue
  <1> QED BY <1>2, <1>3, <1>4, <1>5, <1>6 DEF IInv

LEMMA DistributeKeeps ==
  ASSUME IInv, NEW k \in Keys, NEW n \in Notices, NEW r \in 1..3, Distribute(k, n, r)
  PROVE  IInv'
  <1> USE AttemptsAssumption DEF Distribute, Is, Advance
  <1>1. /\ notice[n].state = "approved" /\ notice[n].revision = 2
        /\ reviews[n] = {"approved"} /\ queued[n] = 0 /\ distribution[n].status = "none"
    BY DEF IInv, Lifecycle
  <1>2. /\ history' \in [Operations -> [Keys -> [notice : Notices \cup {NoNotice},
                                  body : {"none", "content", "audience"} \cup Decisions]]]
        /\ HistoryNamesNotices' /\ HistoryIsTrue'
    <2>1. Answer("distribution", k, n, "audience")
      OBVIOUS
    <2>2. \A m \in Notices : notice[m].state # "none" => notice'[m].state # "none"
      BY DEF IInv, TypeOK
    <2>3. queued'[n] = 1 /\ \A m \in Notices : queued[m] = 1 => queued'[m] = 1
      BY <1>1 DEF IInv, TypeOK
    <2> QED BY <2>1, <2>2, <2>3, HistoryAfterAnswer
  <1>3. TypeOK'
    BY <1>1, <1>2 DEF IInv, TypeOK
  <1>4. \A m \in Notices : Lifecycle(m)'
    BY <1>1 DEF IInv, TypeOK, Lifecycle
  <1>5. \A w \in Workers : WorkerTrue(w)'
    BY <1>1 DEF IInv, TypeOK, WorkerTrue
  <1>6. ReceivedWasQueued' /\ OutcomeIsTrue'
    BY <1>1 DEF IInv, TypeOK, ReceivedWasQueued, OutcomeIsTrue
  <1> QED BY <1>2, <1>3, <1>4, <1>5, <1>6 DEF IInv

LEMMA ForgetKeeps ==
  ASSUME IInv, NEW op \in Operations, NEW k \in Keys, Forget(op, k)
  PROVE  IInv'
  <1> USE DEF Forget
  <1>1. \A o \in Operations, q \in Keys :
          history'[o][q] = IF o = op /\ q = k THEN Unknown ELSE history[o][q]
    BY DEF IInv, TypeOK
  <1>2. TypeOK'
    BY DEF IInv, TypeOK, Unknown
  <1>3. HistoryNamesNotices'
    BY <1>1 DEF IInv, HistoryNamesNotices
  <1>4. HistoryIsTrue'
    BY <1>1 DEF IInv, HistoryIsTrue
  <1>5. /\ \A m \in Notices : Lifecycle(m)'
        /\ \A w \in Workers : WorkerTrue(w)'
        /\ ReceivedWasQueued' /\ OutcomeIsTrue'
    BY DEF IInv, Lifecycle, WorkerTrue, ReceivedWasQueued, OutcomeIsTrue
  <1> QED BY <1>2, <1>3, <1>4, <1>5 DEF IInv

-----------------------------------------------------------------------------
(* The workers' steps.                                                     *)

\* They leave the operators' desk alone, and no distribution comes or goes.
LEMMA DeskStands ==
  ASSUME IInv, UNCHANGED <<desk, queued>>,
         \A n \in Notices : distribution'[n].status = "none" <=> distribution[n].status = "none"
  PROVE  (\A n \in Notices : Lifecycle(n)') /\ HistoryNamesNotices' /\ HistoryIsTrue'
  BY DEF IInv, desk, Lifecycle, HistoryNamesNotices, HistoryIsTrue

LEMMA RowsTyped ==
  ASSUME TypeOK
  PROVE  /\ distribution \in [Notices -> [status : Statuses, attempts : 0..MaxAttempts, lapsed : BOOLEAN]]
         /\ worker \in [Workers -> [pc : {"idle", "send", "complete"}, notice : Notices \cup {NoNotice},
                                    attempts : 0..MaxAttempts, status : Statuses]]
  BY DEF TypeOK

LEMMA LapsesKeeps ==
  ASSUME IInv, NEW n \in Notices, Lapses(n)
  PROVE  IInv'
  <1> USE DEF Lapses
  <1>1. \A m \in Notices : /\ distribution'[m].status = distribution[m].status
                           /\ distribution'[m].attempts = distribution[m].attempts
    BY DEF IInv, TypeOK
  <1>2. TypeOK'
    <2>1. distribution' \in [Notices -> [status : Statuses, attempts : 0..MaxAttempts, lapsed : BOOLEAN]]
      BY RowsTyped DEF IInv
    <2> QED BY <2>1 DEF IInv, TypeOK, desk
  <1>3. (\A m \in Notices : Lifecycle(m)') /\ HistoryNamesNotices' /\ HistoryIsTrue'
    BY <1>1, DeskStands
  <1>4. \A w \in Workers : WorkerTrue(w)'
    BY <1>1 DEF IInv, WorkerTrue
  <1>5. ReceivedWasQueued' /\ OutcomeIsTrue'
    BY <1>1 DEF IInv, TypeOK, ReceivedWasQueued, OutcomeIsTrue
  <1> QED BY <1>2, <1>3, <1>4, <1>5 DEF IInv

LEMMA ClaimKeeps ==
  ASSUME IInv, NEW w \in Workers, NEW n \in Notices, Claim(w, n)
  PROVE  IInv'
  <1> USE AttemptsAssumption DEF Claim, Claimable, Counted
  <1>1. distribution[n].status \in {"queued", "processing"}
    OBVIOUS
  <1>2. /\ distribution'[n].status = "processing"
        /\ distribution[n].attempts \in 0..MaxAttempts
        /\ distribution'[n].attempts \in 0..MaxAttempts
        /\ distribution'[n].attempts >= distribution[n].attempts
        /\ \A m \in Notices \ {n} : distribution'[m] = distribution[m]
    BY DEF IInv, TypeOK
  <1>3. TypeOK'
    BY DEF IInv, TypeOK, desk
  <1>4. (\A m \in Notices : Lifecycle(m)') /\ HistoryNamesNotices' /\ HistoryIsTrue'
    BY <1>1, <1>2, DeskStands
  <1>5. ASSUME NEW v \in Workers PROVE WorkerTrue(v)'
    <2>1. CASE v = w
      BY <1>2, <2>1 DEF IInv, TypeOK, WorkerTrue
    <2>2. CASE v # w
      <3>1. worker'[v] = worker[v] /\ worker[v].attempts \in 0..MaxAttempts
        BY <2>2 DEF IInv, TypeOK
      <3>2. \A m \in Notices : distribution[m].attempts \in 0..MaxAttempts
                               /\ distribution'[m].attempts \in 0..MaxAttempts
                               /\ distribution'[m].attempts >= distribution[m].attempts
        BY <1>2, <1>3 DEF IInv, TypeOK
      <3> QED BY <1>2, <3>1, <3>2 DEF IInv, WorkerTrue
    <2> QED BY <2>1, <2>2
  <1>6. ReceivedWasQueued' /\ OutcomeIsTrue'
    BY <1>2 DEF IInv, TypeOK, ReceivedWasQueued, OutcomeIsTrue
  <1> QED BY <1>3, <1>4, <1>5, <1>6 DEF IInv

LEMMA DeliverKeeps ==
  ASSUME IInv, NEW w \in Workers, Deliver(w)
  PROVE  IInv'
  <1> DEFINE n == worker[w].notice
  <1>1. n \in Notices /\ distribution[n].status # "none" /\ worker[w].attempts \in 0..MaxAttempts
    BY DEF IInv, TypeOK, WorkerTrue, Deliver
  <1>2. PICK status \in {"delivered", "failed", "queued"} :
          /\ Conclude(w, status)
          /\ status = "delivered" => n \in received'
          /\ status = "failed" => worker[w].attempts = MaxAttempts
    BY <1>1, AttemptsAssumption DEF Deliver, AfterFailure
  <1>3. received \subseteq received' /\ received' \subseteq received \cup {n}
    BY DEF Deliver
  <1>4. TypeOK'
    <2>1. worker' \in [Workers -> [pc : {"idle", "send", "complete"}, notice : Notices \cup {NoNotice},
                                  attempts : 0..MaxAttempts, status : Statuses]]
      BY <1>2, RowsTyped DEF IInv, Conclude
    <2> QED BY <1>1, <1>3, <2>1 DEF IInv, TypeOK, Deliver, desk
  <1>5. (\A m \in Notices : Lifecycle(m)') /\ HistoryNamesNotices' /\ HistoryIsTrue'
    BY DeskStands DEF Deliver
  <1>6. ASSUME NEW v \in Workers PROVE WorkerTrue(v)'
    BY <1>1, <1>2, <1>3 DEF IInv, TypeOK, WorkerTrue, Deliver, Conclude
  <1>7. ReceivedWasQueued' /\ OutcomeIsTrue'
    BY <1>1, <1>3 DEF IInv, ReceivedWasQueued, OutcomeIsTrue, Deliver
  <1> QED BY <1>4, <1>5, <1>6, <1>7 DEF IInv

LEMMA CompleteKeeps ==
  ASSUME IInv, NEW w \in Workers, Complete(w)
  PROVE  IInv'
  <1> DEFINE n == worker[w].notice
             status == worker[w].status
  <1>1. /\ worker[w].pc = "complete" /\ n \in Notices
        /\ status \in {"delivered", "failed", "queued"}
        /\ status = "delivered" => n \in received
        /\ status = "failed" => worker[w].attempts = MaxAttempts
        /\ worker[w].attempts <= distribution[n].attempts
    BY DEF Complete, IInv, WorkerTrue
  <1>2. status = "failed" => distribution[n].attempts = MaxAttempts
    <2>1. distribution[n].attempts \in 0..MaxAttempts
      BY <1>1, RowsTyped DEF IInv
    <2> QED BY <1>1, <2>1, AttemptsAssumption
  <1>3. /\ UNCHANGED <<desk, queued, received>>
        /\ worker' = [worker EXCEPT ![w] = Idle]
        /\ \/ /\ distribution[n].status = "processing"
              /\ distribution' = [distribution EXCEPT ![n].status = status, ![n].lapsed = FALSE]
           \/ UNCHANGED distribution
    BY DEF Complete, Completes
  <1>4. /\ distribution' \in [Notices -> [status : Statuses, attempts : 0..MaxAttempts, lapsed : BOOLEAN]]
        /\ \A m \in Notices :
             /\ distribution'[m].attempts = distribution[m].attempts
             /\ \/ distribution'[m].status = distribution[m].status
                \/ /\ m = n /\ distribution[m].status = "processing"
                   /\ distribution'[m].status = status
    <2> HIDE DEF n, status
    <2> QED BY <1>1, <1>3, RowsTyped DEF IInv
  <1>5. TypeOK'
    <2>1. worker' \in [Workers -> [pc : {"idle", "send", "complete"}, notice : Notices \cup {NoNotice},
                                  attempts : 0..MaxAttempts, status : Statuses]]
      BY <1>3, RowsTyped, AttemptsAssumption DEF IInv, Idle
    <2> QED BY <1>3, <1>4, <2>1 DEF IInv, TypeOK, desk
  <1>6. (\A m \in Notices : Lifecycle(m)') /\ HistoryNamesNotices' /\ HistoryIsTrue'
    <2>1. \A m \in Notices : distribution'[m].status = "none" <=> distribution[m].status = "none"
      BY <1>1, <1>4
    <2> QED BY <1>3, <2>1, DeskStands
  <1>7. ASSUME NEW v \in Workers PROVE WorkerTrue(v)'
    <2>1. worker'[v] = worker[v] \/ worker'[v].pc = "idle"
      BY <1>3, IdleTyped, RowsTyped DEF IInv
    <2> QED BY <1>1, <1>3, <1>4, <2>1 DEF IInv, WorkerTrue
  <1>8. ReceivedWasQueued' /\ OutcomeIsTrue'
    <2>1. \A m \in received : m \in Notices
      BY DEF IInv, TypeOK
    <2> QED BY <1>1, <1>2, <1>3, <1>4, <2>1 DEF IInv, ReceivedWasQueued, OutcomeIsTrue
  <1> QED BY <1>5, <1>6, <1>7, <1>8 DEF IInv

LEMMA CrashKeeps ==
  ASSUME IInv, NEW w \in Workers, Crash(w)
  PROVE  IInv'
  <1> USE DEF Crash
  <1>1. TypeOK'
    BY AttemptsAssumption DEF IInv, TypeOK, desk, Idle
  <1>2. (\A m \in Notices : Lifecycle(m)') /\ HistoryNamesNotices' /\ HistoryIsTrue'
    BY DeskStands
  <1>3. ASSUME NEW v \in Workers PROVE WorkerTrue(v)'
    <2>1. worker'[v] = worker[v] \/ worker'[v].pc = "idle"
      BY IdleTyped DEF IInv, TypeOK
    <2> QED BY <2>1 DEF IInv, WorkerTrue
  <1>4. ReceivedWasQueued' /\ OutcomeIsTrue'
    BY DEF IInv, ReceivedWasQueued, OutcomeIsTrue
  <1> QED BY <1>1, <1>2, <1>3, <1>4 DEF IInv

LEMMA StepKeeps == IInv /\ [Next]_vars => IInv'
  <1> SUFFICES ASSUME IInv, [Next]_vars PROVE IInv'
    OBVIOUS
  <1>1. CASE Next
    BY <1>1, CreateVersionKeeps, ReviewKeeps, DistributeKeeps, ForgetKeeps, LapsesKeeps, ClaimKeeps,
       DeliverKeeps, CompleteKeeps, CrashKeeps DEF Next
  <1>2. CASE UNCHANGED vars
    BY <1>2 DEF vars, IInv, TypeOK, Lifecycle, WorkerTrue, ReceivedWasQueued, OutcomeIsTrue,
       HistoryNamesNotices, HistoryIsTrue
  <1> QED BY <1>1, <1>2

-----------------------------------------------------------------------------
(* The theorems.                                                           *)

LEMMA Invariance == Spec => []IInv
  BY InitInv, StepKeeps, PTL DEF Spec

\* The types of the notice service's tables and workers.
THEOREM NoticeTypes == Spec => []TypeOK
  <1>1. IInv => TypeOK
    BY DEF IInv
  <1> QED BY <1>1, Invariance, PTL

\* What the webhook takes was approved and queued once (review, distribute).
THEOREM ApprovedOnly == Spec => []OnlyApprovedIsReceived
  <1>1. IInv => OnlyApprovedIsReceived
    BY DEF IInv, TypeOK, Lifecycle, ReceivedWasQueued, OnlyApprovedIsReceived
  <1> QED BY <1>1, Invariance, PTL

\* A distribution's final status tells what happened (RunOnce).
THEOREM TrueOutcomes == Spec => []OutcomeIsTrue
  <1>1. IInv => OutcomeIsTrue
    BY DEF IInv
  <1> QED BY <1>1, Invariance, PTL

\* Both: distributions tell the truth (review, distribute, RunOnce).
THEOREM TrueDistributions == Spec => []DistributionIsTrue
  <1>1. OnlyApprovedIsReceived /\ OutcomeIsTrue => DistributionIsTrue
    BY DEF DistributionIsTrue
  <1> QED BY <1>1, ApprovedOnly, TrueOutcomes, PTL

\* The answers kept for replays stay true (writeOperation).
THEOREM TrueHistory == Spec => []HistoryIsTrue
  <1>1. IInv => HistoryIsTrue
    BY DEF IInv
  <1> QED BY <1>1, Invariance, PTL

-----------------------------------------------------------------------------
(* The refinement.                                                         *)

\* Where one notice is.
At(n) ==
  IF notice[n].state # "distributed" THEN notice[n].state
  ELSE IF distribution[n].status \in {"delivered", "failed"} THEN distribution[n].status
  ELSE "underway"

LEMMA StageIsFunction == stage = [n \in Notices |-> At(n)]
  BY DEF stage, At

\* A step that moves one notice is the promise's move.
LEMMA OneMoves ==
  ASSUME NEW n \in Notices, NEW from, NEW to, At(n) = from, At(n)' = to,
         \A m \in Notices \ {n} : At(m)' = At(m)
  PROVE  Promise!Move(n, from, to)
  <1>1. stage[n] = from
    BY StageIsFunction
  <1>2. stage' = [m \in Notices |-> At(m)']
    BY DEF stage, At
  <1>3. stage' = [stage EXCEPT ![n] = to]
    BY <1>2, StageIsFunction
  <1> QED BY <1>1, <1>3 DEF Promise!Move

LEMMA NoneMoves ==
  ASSUME \A m \in Notices : At(m)' = At(m)
  PROVE  UNCHANGED stage
  <1>1. stage' = [m \in Notices |-> At(m)']
    BY DEF stage, At
  <1> QED BY <1>1, StageIsFunction

LEMMA StepRefines == IInv /\ [Next]_vars => [Promise!Next]_stage
  <1> SUFFICES ASSUME IInv, [Next]_vars PROVE [Promise!Next]_stage
    OBVIOUS
  <1> USE DEF At, IInv, TypeOK, desk
  <1>1. ASSUME NEW k \in Keys, NEW n \in Notices, CreateVersion(k, n) PROVE Promise!Next
    <2>1. Promise!Move(n, "none", "pending_review")
      BY <1>1, OneMoves DEF CreateVersion
    <2> QED BY <2>1 DEF Promise!Next
  <1>2. ASSUME NEW k \in Keys, NEW n \in Notices, NEW d \in Decisions, NEW r \in 1..3, Review(k, n, d, r)
        PROVE  Promise!Next
    <2>1. Promise!Move(n, "pending_review", d)
      BY <1>2, OneMoves DEF Review, Is, Advance
    <2> QED BY <2>1 DEF Promise!Next
  <1>3. ASSUME NEW k \in Keys, NEW n \in Notices, NEW r \in 1..3, Distribute(k, n, r)
        PROVE  Promise!Next
    <2>1. Promise!Move(n, "approved", "underway")
      BY <1>3, OneMoves DEF Distribute, Is, Advance
    <2> QED BY <2>1 DEF Promise!Next
  <1>4. ASSUME NEW w \in Workers, NEW n \in Notices, Claim(w, n) PROVE UNCHANGED stage
    BY <1>4, NoneMoves DEF Claim, Claimable
  <1>5. ASSUME NEW n \in Notices, Lapses(n) PROVE UNCHANGED stage
    BY <1>5, NoneMoves DEF Lapses
  <1>6. ASSUME NEW w \in Workers, Complete(w) PROVE Promise!Next \/ UNCHANGED stage
    <2>1. worker[w].notice \in Notices /\ worker[w].status \in {"delivered", "failed", "queued"}
      BY <1>6 DEF Complete, WorkerTrue
    <2>2. PICK n \in Notices, status \in {"delivered", "failed", "queued"} :
            /\ UNCHANGED notice
            /\ \/ /\ distribution[n].status = "processing"
                  /\ distribution' = [distribution EXCEPT ![n].status = status, ![n].lapsed = FALSE]
               \/ UNCHANGED distribution
      BY <1>6, <2>1 DEF Complete, Completes
    <2>3. CASE UNCHANGED distribution
      BY <2>2, <2>3, NoneMoves
    <2>4. CASE /\ distribution[n].status = "processing"
               /\ distribution' = [distribution EXCEPT ![n].status = status, ![n].lapsed = FALSE]
      <3>1. notice[n].state = "distributed"
        BY <2>1, <2>4 DEF Lifecycle
      <3>2. distribution'[n].status = status /\ \A m \in Notices \ {n} : distribution'[m] = distribution[m]
        BY <2>1, <2>4, RowsTyped
      <3>3. At(n) = "underway" /\ At(n)' = (IF status = "queued" THEN "underway" ELSE status)
        BY <2>1, <2>2, <2>4, <3>1, <3>2
      <3>4. \A m \in Notices \ {n} : At(m)' = At(m)
        BY <2>2, <3>2
      <3>5. CASE status = "queued"
        BY <3>3, <3>4, <3>5, NoneMoves
      <3>6. CASE status # "queued"
        <4>1. Promise!Move(n, "underway", status)
          BY <2>1, <3>3, <3>4, <3>6, OneMoves
        <4> QED BY <2>1, <3>6, <4>1 DEF Promise!Next
      <3> QED BY <3>5, <3>6
    <2> QED BY <2>2, <2>3, <2>4
  <1>7. CASE \/ \E op \in Operations, k \in Keys : Forget(op, k)
             \/ \E w \in Workers : Deliver(w) \/ Crash(w)
             \/ UNCHANGED vars
    BY <1>7, NoneMoves DEF Forget, Deliver, Crash, vars
  <1> QED BY <1>1, <1>2, <1>3, <1>4, <1>5, <1>6, <1>7 DEF Next

\* The notice service implements the promise: every step of an operator or of a
\* worker takes one notice one step along its way, or none.
THEOREM PromiseKept == Spec => KeepsPromise
  <1>1. Init => Promise!Init
    BY DEF Init, Promise!Init, stage
  <1> QED BY <1>1, StepRefines, Invariance, PTL DEF Spec, KeepsPromise, Promise!Spec
=============================================================================
