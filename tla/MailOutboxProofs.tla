---------------------------- MODULE MailOutboxProofs ----------------------------
(***************************************************************************)
(* What TLAPS proves about the mail outbox and its provider, for any       *)
(* number of jobs and workers and any limits.                              *)
(***************************************************************************)
EXTENDS MailOutbox, TLAPS

(* The inductive invariant, in four parts.                                 *)

JobRecords ==
  [status : {"none", "pending", "processing", "retry_due", "accepted", "delivered", "failed"},
   attempts : 0..MaxAttempts, by : Workers \cup {Nobody}, lapsed : BOOLEAN, requeues : Nat]
WorkerRecords ==
  [pc : {"idle", "sweep", "claim", "send", "await", "accept", "apply", "retry", "fail"},
   job : Jobs \cup {NoJob}, attempt : 0..MaxAttempts]
Calls == [job : Jobs, to : Workers \cup {Nobody}]
Handlers == [pc : {"free", "smtp", "mark"}, job : Jobs \cup {NoJob}, to : Workers \cup {Nobody}]

RowsInv ==
  /\ job \in [Jobs -> JobRecords]
  /\ dead \subseteq Jobs /\ stale \subseteq Jobs
  /\ receipt \in [Jobs -> {"none", "pending", "applied"}]
  /\ callback \in [Jobs -> {"none", "blind", "seeing"}]
  /\ FailedIsDeadLettered
  /\ AcceptedWasSent

\* A worker past its claim has a job, and one that goes to accept it was told of
\* a mail that went out.
WorkerInv(w) ==
  /\ worker[w].pc \notin {"idle", "sweep", "claim"} => worker[w].job \in Jobs
  /\ worker[w].pc = "accept" => sent[worker[w].job] > 0

WorkersInv == worker \in [Workers -> WorkerRecords] /\ \A w \in Workers : WorkerInv(w)

\* A call that somebody waits for is that worker's only call, about its job.
Awaited(r) == r.to # Nobody => worker[r.to].pc = "await" /\ worker[r.to].job = r.job

CallsInv ==
  /\ waiting \subseteq Calls
  /\ handler \in Handlers
  /\ handler.pc # "free" => handler.job \in Jobs
  /\ handler.pc = "free" => handler.to = Nobody
  /\ Awaited(handler)
  /\ \A r \in waiting : Awaited(r) /\ (r.to # Nobody => handler.to # r.to)

\* The files of a key tell how often its mail can have gone out.
KeyInv(j) ==
  /\ ledger[j] = "none" => sent[j] = lost[j]
  /\ handler.pc = "smtp" /\ handler.job = j => ledger[j] = "claimed" /\ sent[j] = lost[j]
  /\ handler.pc = "mark" /\ handler.job = j => ledger[j] = "claimed" /\ sent[j] = lost[j] + 1
  /\ AcceptedKey(j) => sent[j] > 0
  /\ sent[j] <= 1 + lost[j]

KeysInv ==
  /\ ledger \in [Jobs -> {"none", "claimed", "marked", "accepted"}]
  /\ sent \in [Jobs -> Nat] /\ lost \in [Jobs -> Nat]
  /\ \A j \in Jobs : KeyInv(j)

IInv == RowsInv /\ WorkersInv /\ CallsInv /\ KeysInv

USE AttemptsAssumption, NoJobAssumption, NobodyAssumption

LEMMA InitInv == Init => IInv
  <1> SUFFICES ASSUME Init PROVE IInv
    OBVIOUS
  <1>1. RowsInv
    BY DEF Init, RowsInv, JobRecords, FailedIsDeadLettered, AcceptedWasSent
  <1>2. WorkersInv
    BY DEF Init, WorkersInv, WorkerInv, WorkerRecords, Idle
  <1>3. CallsInv
    BY DEF Init, CallsInv, Awaited, Handlers, Calls, Free
  <1>4. KeysInv
    BY DEF Init, KeysInv, KeyInv, AcceptedKey, Free
  <1> QED BY <1>1, <1>2, <1>3, <1>4 DEF IInv

-----------------------------------------------------------------------------
(* What a part needs of a step that leaves its variables alone.            *)

LEMMA RowsStand ==
  ASSUME RowsInv, UNCHANGED <<job, dead, receipt, callback>>, stale' \subseteq Jobs,
         \A j \in Jobs : sent[j] > 0 => sent'[j] > 0
  PROVE  RowsInv'
  BY DEF RowsInv, FailedIsDeadLettered, AcceptedWasSent

LEMMA ProviderStands ==
  ASSUME KeysInv, UNCHANGED <<handler, ledger, sent, lost>>
  PROVE  KeysInv'
  BY DEF KeysInv, KeyInv, AcceptedKey

\* A worker that waited for nothing, and waits for nothing.
LEMMA CallsStand ==
  ASSUME CallsInv, UNCHANGED <<waiting, handler>>, NEW w \in Workers, worker[w].pc # "await",
         \A v \in Workers \ {w} : worker'[v] = worker[v]
  PROVE  CallsInv'
  BY DEF CallsInv, Awaited, Calls, Handlers

LEMMA WorkersStand ==
  ASSUME WorkersInv, UNCHANGED worker, \A j \in Jobs : sent[j] > 0 => sent'[j] > 0
  PROVE  WorkersInv'
  BY DEF WorkersInv, WorkerInv

-----------------------------------------------------------------------------
(* Steps of the rows.                                                      *)

LEMMA UnlockedTyped ==
  ASSUME NEW r \in JobRecords, NEW s \in {"pending", "retry_due", "accepted", "failed"}
  PROVE  Unlocked(r, s) \in JobRecords /\ Unlocked(r, s).status = s
  BY DEF Unlocked, JobRecords

\* One row changes, which was and is neither failed nor accepted.
LEMMA RowChanges ==
  ASSUME RowsInv, NEW j \in Jobs, NEW r \in JobRecords, job' = [job EXCEPT ![j] = r],
         job[j].status \notin {"failed", "accepted", "delivered"},
         r.status \notin {"failed", "accepted", "delivered"},
         UNCHANGED <<dead, stale, receipt, callback, sent>>
  PROVE  RowsInv'
  BY DEF RowsInv, FailedIsDeadLettered, AcceptedWasSent

\* Accepted jobs are delivered, each with a receipt, and only theirs are applied.
LEMMA DeliverKeeps ==
  ASSUME RowsInv, NEW js \in SUBSET {j \in Jobs : job[j].status = "accepted"}, Deliver(js),
         receipt' \in [Jobs -> {"none", "pending", "applied"}],
         \A j \in js : receipt'[j] # "none",
         \A j \in Jobs \ js : receipt'[j] = receipt[j] \/ (receipt[j] = "none" /\ receipt'[j] = "pending"),
         UNCHANGED <<dead, stale, sent>>, callback' \in [Jobs -> {"none", "blind", "seeing"}]
  PROVE  RowsInv'
  <1>1. \A j \in Jobs : job'[j] \in JobRecords
                        /\ job'[j].status = (IF j \in js THEN "delivered" ELSE job[j].status)
    BY DEF Deliver, RowsInv, JobRecords
  <1>2. job' \in [Jobs -> JobRecords]
    BY <1>1 DEF Deliver
  <1>3. FailedIsDeadLettered'
    BY <1>1 DEF RowsInv, FailedIsDeadLettered
  <1>4. AcceptedWasSent'
    <2>1. ASSUME NEW j \in js
          PROVE  job'[j].status = "delivered" /\ sent'[j] > 0 /\ receipt'[j] # "none"
      BY <1>1 DEF RowsInv, AcceptedWasSent
    <2>2. ASSUME NEW j \in Jobs \ js
          PROVE  /\ job'[j].status = job[j].status /\ sent'[j] = sent[j]
                 /\ receipt'[j] = "none" => receipt[j] = "none"
                 /\ receipt'[j] = "applied" => receipt[j] = "applied"
      BY <1>1
    <2> QED BY <2>1, <2>2 DEF RowsInv, AcceptedWasSent
  <1> QED BY <1>2, <1>3, <1>4 DEF RowsInv

LEMMA ApplyKeeps ==
  ASSUME RowsInv, NEW js \in SUBSET {j \in Jobs : job[j].status = "accepted"}, Apply(js),
         UNCHANGED <<dead, stale, sent>>, callback' \in [Jobs -> {"none", "blind", "seeing"}]
  PROVE  RowsInv'
  <1>1. /\ receipt' \in [Jobs -> {"none", "pending", "applied"}]
        /\ \A j \in Jobs : receipt'[j] = IF j \in js THEN "applied" ELSE receipt[j]
    BY DEF Apply, RowsInv
  <1>2. /\ \A j \in js : receipt'[j] # "none"
        /\ \A j \in Jobs \ js : receipt'[j] = receipt[j] \/ (receipt[j] = "none" /\ receipt'[j] = "pending")
    BY <1>1
  <1>3. Deliver(js)
    BY DEF Apply
  <1> QED BY <1>1, <1>2, <1>3, DeliverKeeps

LEMMA RowStepsKeep ==
  ASSUME IInv, NEW j \in Jobs,
         \/ Enqueue(j) \/ GoesStale(j) \/ LeaseLapses(j) \/ Requeue(j)
         \/ CallbackBegins(j) \/ CallbackCommits(j)
  PROVE  IInv'
  <1>1. UNCHANGED <<worker, provider>>
    BY DEF Enqueue, GoesStale, LeaseLapses, Requeue, CallbackBegins, CallbackCommits
  <1>2. WorkersInv' /\ CallsInv' /\ KeysInv'
    <2>1. WorkersInv'
      BY <1>1, WorkersStand DEF IInv, provider
    <2>2. CallsInv'
      BY <1>1 DEF IInv, CallsInv, Awaited, provider
    <2>3. KeysInv'
      BY <1>1, ProviderStands DEF IInv, provider
    <2> QED BY <2>1, <2>2, <2>3
  <1>3. RowsInv'
    <2>0. RowsInv /\ job[j] \in JobRecords
      BY DEF IInv, RowsInv
    <2>1. CASE Enqueue(j)
      <3>1. [job[j] EXCEPT !.status = "pending"] \in JobRecords
        BY <2>0 DEF JobRecords
      <3> QED BY <2>0, <2>1, <3>1, RowChanges DEF Enqueue, provider, receipts, JobRecords
    <2>2. CASE LeaseLapses(j)
      <3>1. [job[j] EXCEPT !.lapsed = TRUE] \in JobRecords
        BY <2>0 DEF JobRecords
      <3> QED BY <2>0, <2>2, <3>1, RowChanges DEF LeaseLapses, provider, receipts, JobRecords
    <2>3. CASE GoesStale(j)
      BY <2>0, <2>3, RowsStand DEF GoesStale, outbox, provider, receipts, RowsInv
    <2>4. CASE Requeue(j)
      <3> DEFINE u == Unlocked(job[j], "pending")
                 r == [u EXCEPT !.attempts = 0, !.requeues = u.requeues + 1]
      <3>1. u \in JobRecords /\ u.status = "pending"
        BY <2>0, UnlockedTyped
      <3>3. job' = [job EXCEPT ![j] = r]
        BY <2>0, <2>4 DEF Requeue, RowsInv
      <3>2. r \in JobRecords /\ r.status = "pending"
        <4> HIDE DEF u
        <4>1. u.requeues + 1 \in Nat /\ 0 \in 0..MaxAttempts
          BY <3>1 DEF JobRecords
        <4> QED BY <3>1, <4>1 DEF JobRecords
      <3> HIDE DEF r
      <3> QED BY <2>0, <2>4, <3>2, <3>3
              DEF Requeue, provider, receipts, RowsInv, FailedIsDeadLettered, AcceptedWasSent
    <2>5. CASE CallbackBegins(j)
      <3>1. callback' \in [Jobs -> {"none", "blind", "seeing"}]
        BY <2>0, <2>5 DEF CallbackBegins, RowsInv
      <3> QED BY <2>0, <2>5, <3>1
              DEF CallbackBegins, outbox, provider, RowsInv, FailedIsDeadLettered, AcceptedWasSent
    <2>6. CASE CallbackCommits(j)
      <3>1. callback' \in [Jobs -> {"none", "blind", "seeing"}]
        BY <2>0, <2>6 DEF CallbackCommits, RowsInv
      <3> DEFINE js == {k \in {j} : callback[k] = "seeing" /\ job[k].status = "accepted"}
      <3>2. js \in SUBSET {k \in Jobs : job[k].status = "accepted"} /\ js \subseteq {j}
        OBVIOUS
      <3>3. /\ receipt' \in [Jobs -> {"none", "pending", "applied"}]
            /\ receipt'[j] = IF receipt[j] = "none" THEN "pending" ELSE receipt[j]
            /\ \A k \in Jobs \ {j} : receipt'[k] = receipt[k]
        BY <2>0, <2>6 DEF CallbackCommits, RowsInv
      <3>4. Deliver(js) /\ UNCHANGED <<dead, stale, sent>>
        BY <2>6 DEF CallbackCommits, provider
      <3> HIDE DEF js
      <3>5. /\ \A k \in js : receipt'[k] # "none"
            /\ \A k \in Jobs \ js :
                 receipt'[k] = receipt[k] \/ (receipt[k] = "none" /\ receipt'[k] = "pending")
        BY <3>2, <3>3
      <3> QED BY <2>0, <3>1, <3>2, <3>3, <3>4, <3>5, DeliverKeeps
    <2> QED BY <2>1, <2>2, <2>3, <2>4, <2>5, <2>6
  <1> QED BY <1>2, <1>3 DEF IInv

-----------------------------------------------------------------------------
(* Steps of a worker that does not call the provider.                      *)

\* The worker goes somewhere that asks nothing more of it.
LEMMA WorkerMoves ==
  ASSUME WorkersInv, NEW w \in Workers, NEW a \in WorkerRecords, worker' = [worker EXCEPT ![w] = a],
         a.pc # "accept", a.pc \notin {"idle", "sweep", "claim"} => a.job \in Jobs, UNCHANGED sent
  PROVE  WorkersInv'
  BY DEF WorkersInv, WorkerInv

LEMMA IdleTyped == Idle \in WorkerRecords /\ Idle.pc = "idle"
  BY DEF Idle, WorkerRecords

LEMMA GotoTyped ==
  ASSUME WorkersInv, NEW w \in Workers,
         NEW pc \in {"sweep", "claim", "await", "accept", "apply", "retry", "fail"}, Goto(w, pc)
  PROVE  \E a \in WorkerRecords :
           worker' = [worker EXCEPT ![w] = a] /\ a.pc = pc /\ a.job = worker[w].job
  <1> DEFINE a == [worker[w] EXCEPT !.pc = pc]
  <1>1. a \in WorkerRecords /\ a.pc = pc /\ a.job = worker[w].job
    BY DEF WorkersInv, WorkerRecords
  <1>2. worker' = [worker EXCEPT ![w] = a]
    BY DEF Goto, WorkersInv
  <1> HIDE DEF a
  <1> QED BY <1>1, <1>2

LEMMA SweepKeeps ==
  ASSUME RowsInv, NEW w \in Workers, Sweep(w)
  PROVE  RowsInv'
  <1> DEFINE js == {j \in Jobs : Exhausted(j)}
  <1>1. \A j \in js : job[j].status = "processing"
    BY DEF Exhausted, Lapsed
  <1>2. \A j \in Jobs : Unlocked(job[j], "failed") \in JobRecords /\ Unlocked(job[j], "failed").status = "failed"
    BY UnlockedTyped DEF RowsInv
  <1>3. /\ job' = [j \in Jobs |-> IF j \in js THEN Unlocked(job[j], "failed") ELSE job[j]]
        /\ dead' = dead \cup js
        /\ UNCHANGED <<stale, provider, receipts>>
    BY DEF Sweep
  <1> HIDE DEF js
  <1>4. job' \in [Jobs -> JobRecords]
    BY <1>2, <1>3 DEF RowsInv
  <1>5. \A j \in Jobs : job'[j].status = (IF j \in js THEN "failed" ELSE job[j].status)
    BY <1>2, <1>3
  <1>6. js \subseteq Jobs
    BY DEF js
  <1> QED BY <1>1, <1>3, <1>4, <1>5, <1>6
          DEF RowsInv, provider, receipts, FailedIsDeadLettered, AcceptedWasSent

\* A row in its worker's hands is accepted or failed by it.
LEMMA RowDecided ==
  ASSUME RowsInv, NEW j \in Jobs, job[j].status = "processing",
         NEW s \in {"accepted", "failed"}, job' = [job EXCEPT ![j] = Unlocked(@, s)],
         s = "accepted" => sent[j] > 0 /\ UNCHANGED dead,
         s = "failed" => dead' = dead \cup {j},
         UNCHANGED <<stale, receipt, callback, sent>>
  PROVE  RowsInv'
  <1>1. Unlocked(job[j], s) \in JobRecords /\ Unlocked(job[j], s).status = s
    BY UnlockedTyped DEF RowsInv
  <1>2. job' \in [Jobs -> JobRecords]
    BY <1>1 DEF RowsInv
  <1>3. job'[j].status = s /\ \A k \in Jobs \ {j} : job'[k] = job[k]
    BY <1>1 DEF RowsInv
  <1> QED BY <1>2, <1>3 DEF RowsInv, FailedIsDeadLettered, AcceptedWasSent

QuietStep(w) ==
  \/ Reconcile(w) \/ SkipReconcile(w) \/ Sweep(w) \/ Claim(w)
  \/ Accept(w) \/ ApplyReceipt(w) \/ Retry(w) \/ Fail(w)

LEMMA QuietRows ==
  ASSUME IInv, NEW w \in Workers, QuietStep(w)
  PROVE  RowsInv'
  <1>0. RowsInv /\ \A j \in Jobs : job[j] \in JobRecords
    BY DEF IInv, RowsInv
  <1>1. CASE Reconcile(w)
    <2>1. {j \in Jobs : Applicable(j)} \subseteq {j \in Jobs : job[j].status = "accepted"}
      BY DEF Applicable
    <2>2. callback' \in [Jobs -> {"none", "blind", "seeing"}]
      BY <1>0, <1>1 DEF Reconcile, RowsInv
    <2> QED BY <1>0, <1>1, <2>1, <2>2, ApplyKeeps DEF Reconcile, provider
  <1>2. CASE SkipReconcile(w)
    BY <1>0, <1>2, RowsStand DEF SkipReconcile, outbox, provider, receipts, RowsInv
  <1>3. CASE Sweep(w)
    BY <1>0, <1>3, SweepKeeps
  <1>4. CASE Claim(w)
    <2>1. CASE UNCHANGED job
      BY <1>0, <1>4, <2>1, RowsStand DEF Claim, provider, receipts, RowsInv
    <2>2. CASE \E j \in Jobs :
                 /\ Claimable(j)
                 /\ job' = [job EXCEPT ![j].status = "processing", ![j].attempts = @ + 1,
                                       ![j].by = w, ![j].lapsed = FALSE]
      <3>0. PICK j \in Jobs :
              /\ Claimable(j)
              /\ job' = [job EXCEPT ![j].status = "processing", ![j].attempts = @ + 1,
                                    ![j].by = w, ![j].lapsed = FALSE]
        BY <2>2
      <3> DEFINE r == [job[j] EXCEPT !.status = "processing", !.attempts = @ + 1,
                                     !.by = w, !.lapsed = FALSE]
      <3>1. job' = [job EXCEPT ![j] = r] /\ Claimable(j)
        BY <1>0, <3>0 DEF RowsInv
      <3>2. r \in JobRecords /\ r.status = "processing"
        <4>1. job[j].attempts \in 0..MaxAttempts /\ job[j].attempts < MaxAttempts
          BY <1>0, <3>1 DEF Claimable, JobRecords
        <4>2. job[j].attempts + 1 \in 0..MaxAttempts
          BY <4>1
        <4> QED BY <1>0, <4>2 DEF JobRecords
      <3>3. job[j].status \notin {"failed", "accepted", "delivered"}
        BY <3>1 DEF Claimable, Lapsed
      <3> HIDE DEF r
      <3> QED BY <1>0, <1>4, <3>1, <3>2, <3>3, RowChanges DEF Claim, provider, receipts
    <2> QED BY <1>4, <2>1, <2>2 DEF Claim
  <1>5. CASE Accept(w)
    <2>1. CASE UNCHANGED job
      BY <1>0, <1>5, <2>1, RowsStand DEF Accept, provider, receipts, RowsInv
    <2>2. CASE ~UNCHANGED job
      <3>1. worker[w].job \in Jobs /\ sent[worker[w].job] > 0
        BY <1>5 DEF Accept, IInv, WorkersInv, WorkerInv
      <3> QED BY <1>0, <1>5, <2>2, <3>1, RowDecided DEF Accept, Owns, provider, receipts
    <2> QED BY <2>1, <2>2
  <1>6. CASE ApplyReceipt(w)
    <2>1. worker[w].job \in Jobs
      BY <1>6 DEF ApplyReceipt, IInv, WorkersInv, WorkerInv
    <2>2. callback' \in [Jobs -> {"none", "blind", "seeing"}]
      BY <1>0, <1>6 DEF ApplyReceipt, RowsInv
    <2>3. {j \in {worker[w].job} : receipt[j] = "pending" /\ job[j].status = "accepted"}
            \subseteq {j \in Jobs : job[j].status = "accepted"}
      BY <2>1
    <2> QED BY <1>0, <1>6, <2>2, <2>3, ApplyKeeps DEF ApplyReceipt, provider
  <1>7. CASE Retry(w)
    <2> DEFINE j == worker[w].job
    <2>1. j \in Jobs
      BY <1>7 DEF Retry, IInv, WorkersInv, WorkerInv
    <2>2. CASE UNCHANGED job
      BY <1>0, <1>7, <2>2, RowsStand DEF Retry, provider, receipts, RowsInv
    <2>3. CASE ~UNCHANGED job
      <3>1. Unlocked(job[j], "retry_due") \in JobRecords /\ Unlocked(job[j], "retry_due").status = "retry_due"
        BY <1>0, <2>1, UnlockedTyped
      <3>2. job[j].status = "processing" /\ job' = [job EXCEPT ![j] = Unlocked(job[j], "retry_due")]
        BY <1>0, <1>7, <2>1, <2>3 DEF Retry, Owns, RowsInv
      <3> QED BY <1>0, <1>7, <2>1, <3>1, <3>2, RowChanges DEF Retry, provider, receipts
    <2> QED BY <2>2, <2>3
  <1>8. CASE Fail(w)
    <2>1. worker[w].job \in Jobs
      BY <1>8 DEF Fail, IInv, WorkersInv, WorkerInv
    <2>2. CASE UNCHANGED outbox
      BY <1>0, <1>8, <2>2, RowsStand DEF Fail, outbox, provider, receipts, RowsInv
    <2>3. CASE ~UNCHANGED outbox
      BY <1>0, <1>8, <2>1, <2>3, RowDecided DEF Fail, Owns, provider, receipts
    <2> QED BY <2>2, <2>3
  <1> QED BY <1>1, <1>2, <1>3, <1>4, <1>5, <1>6, <1>7, <1>8 DEF QuietStep

LEMMA QuietKeeps ==
  ASSUME IInv, NEW w \in Workers, QuietStep(w)
  PROVE  IInv'
  <1>0. WorkersInv /\ worker[w] \in WorkerRecords /\ worker[w].pc # "await"
    BY DEF IInv, WorkersInv, QuietStep, Reconcile, SkipReconcile, Sweep, Claim, Accept, ApplyReceipt,
       Retry, Fail
  <1>1. UNCHANGED provider
    BY DEF QuietStep, Reconcile, SkipReconcile, Sweep, Claim, Accept, ApplyReceipt, Retry, Fail
  <1>2. PICK a \in WorkerRecords :
          /\ worker' = [worker EXCEPT ![w] = a]
          /\ a.pc # "accept"
          /\ a.pc \notin {"idle", "sweep", "claim"} => a.job \in Jobs
    <2>1. CASE \E pc \in {"sweep", "claim"} : Goto(w, pc)
      BY <1>0, <2>1, GotoTyped
    <2>2. CASE Return(w)
      BY <2>2, IdleTyped DEF Return
    <2>3. CASE Accept(w) /\ Goto(w, "apply")
      <3>1. worker[w].job \in Jobs
        BY <1>0, <2>3 DEF Accept, WorkersInv, WorkerInv
      <3> QED BY <1>0, <2>3, <3>1, GotoTyped
    <2>4. CASE Claim(w) /\ ~Return(w)
      <3>1. PICK j \in Jobs, pc \in {"fail", "send"} :
              Claimable(j) /\ worker' = [worker EXCEPT ![w] = [pc |-> pc, job |-> j, attempt |-> job[j].attempts + 1]]
        BY <2>4 DEF Claim
      <3>2. job[j].attempts + 1 \in 0..MaxAttempts
        BY <3>1 DEF IInv, RowsInv, Claimable, JobRecords
      <3> DEFINE b == [pc |-> pc, job |-> j, attempt |-> job[j].attempts + 1]
      <3>3. b \in WorkerRecords /\ b.pc = pc /\ b.job = j
        BY <3>2 DEF WorkerRecords
      <3>4. worker' = [worker EXCEPT ![w] = b]
        BY <3>1
      <3> HIDE DEF b
      <3> QED BY <3>3, <3>4
    <2> QED BY <2>1, <2>2, <2>3, <2>4
            DEF QuietStep, Reconcile, SkipReconcile, Sweep, Accept, ApplyReceipt, Retry, Fail
  <1>3. WorkersInv'
    BY <1>0, <1>1, <1>2, WorkerMoves DEF provider
  <1>4. CallsInv'
    <2>1. \A v \in Workers \ {w} : worker'[v] = worker[v]
      BY <1>0, <1>2 DEF WorkersInv
    <2> QED BY <1>0, <1>1, <2>1, CallsStand DEF IInv, provider
  <1>5. KeysInv'
    BY <1>1, ProviderStands DEF IInv, provider
  <1> QED BY <1>3, <1>4, <1>5, QuietRows DEF IInv

-----------------------------------------------------------------------------
(* Steps of a worker that calls.                                           *)

LEMMA LeavesKeeps ==
  ASSUME CallsInv, NEW w \in Workers, Leaves(w), \A v \in Workers \ {w} : worker'[v] = worker[v]
  PROVE  /\ CallsInv'
         /\ handler'.pc = handler.pc /\ handler'.job = handler.job
  <1>1. /\ handler' \in Handlers /\ handler'.pc = handler.pc /\ handler'.job = handler.job
        /\ handler'.to = (IF handler.to = w THEN Nobody ELSE handler.to)
    BY DEF CallsInv, Leaves, Left, Handlers
  <1>2. \A r \in waiting : /\ Left(r, w) \in Calls /\ Left(r, w).job = r.job
                           /\ Left(r, w).to = (IF r.to = w THEN Nobody ELSE r.to)
    BY DEF CallsInv, Left, Calls
  <1>3. waiting' = {Left(r, w) : r \in waiting}
    BY DEF Leaves
  <1>4. waiting' \subseteq Calls
    BY <1>2, <1>3
  <1>5. Awaited(handler)'
    BY <1>1 DEF CallsInv, Awaited, Handlers
  <1>6. \A r \in waiting' : Awaited(r)' /\ (r.to # Nobody => handler'.to # r.to)
    BY <1>1, <1>2, <1>3 DEF CallsInv, Awaited, Calls
  <1> QED BY <1>1, <1>4, <1>5, <1>6 DEF CallsInv

LEMMA KeysUnderHandler ==
  ASSUME KeysInv, UNCHANGED <<ledger, sent, lost>>, handler'.pc = handler.pc, handler'.job = handler.job
  PROVE  KeysInv'
  BY DEF KeysInv, KeyInv, AcceptedKey

CallStep(w) == CallArrives(w) \/ CallTimesOut(w) \/ WorkerCrashes(w)

LEMMA CallKeeps ==
  ASSUME IInv, NEW w \in Workers, CallStep(w)
  PROVE  IInv'
  <1>0. WorkersInv /\ CallsInv /\ worker[w] \in WorkerRecords
    BY DEF IInv, WorkersInv
  <1>1. UNCHANGED <<outbox, stale, ledger, sent, lost, receipts>>
    BY DEF CallStep, CallArrives, CallTimesOut, WorkerCrashes
  <1>2. RowsInv'
    BY <1>1, RowsStand DEF IInv, outbox, receipts, RowsInv
  <1>3. PICK a \in WorkerRecords :
          /\ worker' = [worker EXCEPT ![w] = a]
          /\ a.pc # "accept"
          /\ a.pc \notin {"idle", "sweep", "claim"} => a.job \in Jobs
    <2>1. CASE WorkerCrashes(w)
      BY <2>1, IdleTyped DEF WorkerCrashes, Return
    <2>2. CASE CallArrives(w) \/ CallTimesOut(w)
      <3>1. worker[w].job \in Jobs
        BY <1>0, <2>2 DEF CallArrives, CallTimesOut, WorkersInv, WorkerInv
      <3>2. PICK pc \in {"await", "fail", "retry"} : Goto(w, pc)
        BY <2>2 DEF CallArrives, CallTimesOut, AfterFailure
      <3> QED BY <1>0, <3>1, <3>2, GotoTyped
    <2> QED BY <2>1, <2>2 DEF CallStep
  <1>4. WorkersInv'
    BY <1>0, <1>1, <1>3, WorkerMoves
  <1>5. worker'[w] = a /\ \A v \in Workers \ {w} : worker'[v] = worker[v]
    BY <1>0, <1>3 DEF WorkersInv
  <1>6. CallsInv' /\ handler'.pc = handler.pc /\ handler'.job = handler.job
    <2>1. CASE Leaves(w)
      BY <1>0, <1>5, <2>1, LeavesKeeps
    <2>2. CASE worker[w].pc # "await" /\ UNCHANGED <<waiting, handler>>
      BY <1>0, <1>5, <2>2, CallsStand
    <2>3. CASE /\ worker[w].pc = "send" /\ UNCHANGED handler
               /\ waiting' = waiting \cup {[job |-> worker[w].job, to |-> Nobody]}
      <3>1. [job |-> worker[w].job, to |-> Nobody] \in Calls
        BY <1>0, <2>3 DEF WorkersInv, WorkerInv, Calls
      <3> QED BY <1>0, <1>5, <2>3, <3>1 DEF CallsInv, Awaited, Calls, Handlers
    <2>4. CASE CallArrives(w) /\ ~UNCHANGED waiting
      <3>1. /\ worker[w].pc = "send" /\ worker'[w].pc = "await" /\ worker'[w].job = worker[w].job
            /\ waiting' = waiting \cup {[job |-> worker[w].job, to |-> w]}
            /\ UNCHANGED handler
        <4>1. Goto(w, "await")
          BY <2>4 DEF CallArrives
        <4>2. worker'[w].pc = "await" /\ worker'[w].job = worker[w].job
          BY <1>0, <4>1 DEF Goto, WorkersInv, WorkerRecords
        <4> QED BY <2>4, <4>2 DEF CallArrives
      <3>2. [job |-> worker[w].job, to |-> w] \in Calls
        BY <1>0, <3>1 DEF WorkersInv, WorkerInv, Calls
      <3>3. handler.to # w /\ \A r \in waiting : r.to # w
        BY <1>0, <3>1 DEF CallsInv, Awaited
      <3> QED BY <1>0, <1>5, <3>1, <3>2, <3>3 DEF CallsInv, Awaited, Calls, Handlers
    <2>5. CASE CallArrives(w) /\ UNCHANGED waiting
      BY <2>2, <2>5 DEF CallArrives
    <2>6. CASE CallTimesOut(w)
      BY <2>1, <2>2, <2>3, <2>6 DEF CallTimesOut
    <2> QED BY <2>1, <2>4, <2>5, <2>6 DEF CallStep, WorkerCrashes
  <1>7. KeysInv'
    BY <1>1, <1>6, KeysUnderHandler DEF IInv
  <1> QED BY <1>2, <1>4, <1>6, <1>7 DEF IInv

-----------------------------------------------------------------------------
(* Steps of the provider.                                                  *)

\* The answer to a call goes to the worker that awaits it, and to no other.
LEMMA AnswerKeeps ==
  ASSUME IInv, NEW r, r.to \in Workers \cup {Nobody}, Awaited(r),
         NEW pc \in {"idle", "accept", "fail", "retry"}, Answer(r, pc),
         pc = "accept" => r.job \in Jobs /\ sent[r.job] > 0,
         pc = "idle" => r.to = Nobody,
         \A j \in Jobs : sent[j] > 0 => sent'[j] > 0
  PROVE  WorkersInv' /\ \A v \in Workers : v # r.to => worker'[v] = worker[v]
  <1>1. CASE r.to = Nobody
    BY <1>1, WorkersStand DEF IInv, Answer
  <1>2. CASE r.to # Nobody
    <2>1. worker' = [worker EXCEPT ![r.to].pc = pc] /\ worker[r.to].pc = "await" /\ worker[r.to].job = r.job
      BY <1>2 DEF Answer, Awaited
    <2>2. worker' \in [Workers -> WorkerRecords]
      BY <1>2, <2>1 DEF IInv, WorkersInv, WorkerRecords
    <2>3. \A v \in Workers : v # r.to => worker'[v] = worker[v]
      BY <2>1 DEF IInv, WorkersInv
    <2>4. worker'[r.to].pc = pc /\ worker'[r.to].job = r.job /\ r.job \in Jobs
      BY <1>2, <2>1 DEF IInv, WorkersInv, WorkerInv, WorkerRecords
    <2>5. \A v \in Workers : WorkerInv(v)'
      BY <1>2, <2>3, <2>4 DEF IInv, WorkersInv, WorkerInv
    <2> QED BY <2>2, <2>3, <2>5 DEF WorkersInv
  <1> QED BY <1>1, <1>2

LEMMA FailurePcs ==
  ASSUME NEW r, NEW permanent
  PROVE  Failure(r, permanent) \in {"idle", "fail", "retry"} /\ (Failure(r, permanent) = "idle" => r.to = Nobody)
  BY DEF Failure, AfterFailure

\* A call leaves the queue, answered, while nobody holds the mutex.
LEMMA CallLeaves ==
  ASSUME IInv, NEW r \in waiting, handler = Free, UNCHANGED handler, waiting' = waiting \ {r},
         \A v \in Workers : v # r.to => worker'[v] = worker[v]
  PROVE  CallsInv'
  <1>1. r \in Calls /\ waiting \subseteq Calls
    BY DEF IInv, CallsInv
  <1>2. ASSUME NEW q \in waiting' PROVE Awaited(q)' /\ (q.to # Nobody => handler'.to # q.to)
    <2>1. CASE q.to = Nobody
      BY <2>1 DEF Awaited
    <2>2. CASE q.to # Nobody /\ q.to = r.to
      <3>1. q.job = r.job
        BY <2>2 DEF IInv, CallsInv, Awaited
      <3>2. q = r
        BY <1>1, <2>2, <3>1 DEF Calls
      <3> QED BY <3>2
    <2>3. CASE q.to # Nobody /\ q.to # r.to
      BY <1>1, <2>3 DEF IInv, CallsInv, Awaited, Calls
    <2> QED BY <2>1, <2>2, <2>3
  <1>3. Awaited(handler)'
    BY DEF Awaited, Free
  <1> QED BY <1>1, <1>2, <1>3 DEF IInv, CallsInv

LEMMA QueueKeeps ==
  ASSUME IInv, NEW r \in waiting, Replay(r) \/ TurnAway(r) \/ TakeKey(r)
  PROVE  IInv'
  <1>0. /\ r \in Calls /\ Awaited(r) /\ RowsInv /\ KeysInv
        /\ handler = Free /\ waiting' = waiting \ {r}
    BY DEF IInv, CallsInv, Replay, TurnAway, TakeKey
  <1>1. RowsInv'
    BY <1>0, RowsStand DEF Replay, TurnAway, TakeKey, outbox, receipts, RowsInv
  <1>2. CASE Replay(r)
    <2>1. WorkersInv' /\ \A v \in Workers : v # r.to => worker'[v] = worker[v]
      <3>1. r.job \in Jobs /\ r.to \in Workers \cup {Nobody} /\ sent[r.job] > 0
        BY <1>0, <1>2 DEF Replay, KeysInv, KeyInv, Calls
      <3>2. Answer(r, "accept") /\ UNCHANGED sent
        BY <1>2 DEF Replay
      <3> QED BY <1>0, <3>1, <3>2, AnswerKeeps
    <2>2. CallsInv'
      BY <1>0, <1>2, <2>1, CallLeaves DEF Replay
    <2>3. KeysInv'
      BY <1>0, <1>2 DEF Replay, KeysInv, KeyInv, AcceptedKey, Calls, Free
    <2> QED BY <1>1, <2>1, <2>2, <2>3 DEF IInv
  <1>3. CASE TurnAway(r)
    <2>1. WorkersInv' /\ \A v \in Workers : v # r.to => worker'[v] = worker[v]
      <3>1. r.to \in Workers \cup {Nobody}
        BY <1>0 DEF Calls
      <3>2. Answer(r, Failure(r, FALSE)) /\ UNCHANGED sent
        BY <1>3 DEF TurnAway
      <3> QED BY <1>0, <3>1, <3>2, FailurePcs, AnswerKeeps
    <2>2. CallsInv'
      BY <1>0, <1>3, <2>1, CallLeaves DEF TurnAway
    <2>3. KeysInv'
      BY <1>0, <1>3, ProviderStands DEF TurnAway
    <2> QED BY <1>1, <2>1, <2>2, <2>3 DEF IInv
  <1>4. CASE TakeKey(r)
    <2>1. WorkersInv'
      BY <1>4, WorkersStand DEF TakeKey, IInv
    <2>2. CallsInv'
      <3>1. handler' \in Handlers /\ handler'.pc = "smtp" /\ handler'.job = r.job /\ handler'.to = r.to /\ r.job \in Jobs
        BY <1>0, <1>4 DEF TakeKey, Calls, Handlers
      <3>2. \A q \in waiting' : Awaited(q)' /\ (q.to # Nobody => handler'.to # q.to)
        <4>1. ASSUME NEW q \in waiting', q.to # Nobody, q.to = r.to PROVE FALSE
          <5>1. q \in Calls /\ q.job = r.job
            BY <1>0, <4>1 DEF IInv, CallsInv, Awaited
          <5>2. q = r
            BY <1>0, <4>1, <5>1 DEF Calls
          <5> QED BY <1>0, <5>2
        <4> QED BY <1>0, <1>4, <3>1, <4>1 DEF TakeKey, IInv, CallsInv, Awaited
      <3>3. Awaited(handler)'
        BY <1>0, <1>4, <3>1 DEF TakeKey, Awaited
      <3> QED BY <1>0, <3>1, <3>2, <3>3 DEF IInv, CallsInv
    <2>3. KeysInv'
      BY <1>0, <1>4 DEF TakeKey, NewKey, KeysInv, KeyInv, AcceptedKey, Calls
    <2> QED BY <1>1, <2>1, <2>2, <2>3 DEF IInv
  <1> QED BY <1>2, <1>3, <1>4

\* The mutex is free again, and whoever waited for the call was answered.
LEMMA HandlerLeaves ==
  ASSUME IInv, handler' = Free, waiting' \subseteq waiting,
         \A v \in Workers : v # handler.to => worker'[v] = worker[v]
  PROVE  CallsInv'
  <1>1. Free \in Handlers /\ Free.pc = "free" /\ Free.to = Nobody
    BY DEF Free, Handlers
  <1>2. waiting' \subseteq Calls
    BY DEF IInv, CallsInv
  <1>3. \A q \in waiting' : Awaited(q)' /\ (q.to # Nobody => handler'.to # q.to)
    BY <1>1, <1>2 DEF IInv, CallsInv, Awaited, Calls
  <1> QED BY <1>1, <1>2, <1>3 DEF CallsInv, Awaited

LEMMA HandlerKeeps ==
  ASSUME IInv, SmtpAccepts \/ SmtpFails \/ PersistAccepted \/ ProviderCrashes
  PROVE  IInv'
  <1> DEFINE j == handler.job
  <1>0. /\ RowsInv /\ KeysInv /\ CallsInv /\ WorkersInv
        /\ handler \in Handlers /\ Awaited(handler) /\ handler.to \in Workers \cup {Nobody}
        /\ handler.pc # "free" => j \in Jobs
    BY DEF IInv, CallsInv, Handlers
  <1>1. \A k \in Jobs : sent[k] > 0 => sent'[k] > 0
    <2>1. CASE UNCHANGED sent
      BY <2>1
    <2>2. CASE sent' = [sent EXCEPT ![j] = @ + 1]
      BY <1>0, <2>2 DEF KeysInv
    <2> QED BY <2>1, <2>2 DEF SmtpAccepts, SmtpFails, PersistAccepted, ProviderCrashes
  <1>2. RowsInv'
    BY <1>0, <1>1, RowsStand
       DEF SmtpAccepts, SmtpFails, PersistAccepted, ProviderCrashes, outbox, receipts, RowsInv
  <1>3. CASE SmtpAccepts
    <2>1. WorkersInv'
      BY <1>0, <1>1, <1>3, WorkersStand DEF SmtpAccepts
    <2>2. CallsInv'
      <3>1. handler' \in Handlers /\ handler'.pc = "mark" /\ handler'.job = j /\ handler'.to = handler.to
        BY <1>0, <1>3 DEF SmtpAccepts, Handlers
      <3> QED BY <1>0, <1>3, <3>1 DEF SmtpAccepts, CallsInv, Awaited
    <2>3. KeysInv'
      BY <1>0, <1>3 DEF SmtpAccepts, KeysInv, KeyInv, AcceptedKey, Handlers
    <2> QED BY <1>2, <2>1, <2>2, <2>3 DEF IInv
  <1>4. CASE SmtpFails
    <2>1. PICK permanent \in BOOLEAN : Answer(handler, Failure(handler, permanent))
      BY <1>4 DEF SmtpFails
    <2>2. WorkersInv' /\ \A v \in Workers : v # handler.to => worker'[v] = worker[v]
      BY <1>0, <1>1, <2>1, FailurePcs, AnswerKeeps
    <2>3. CallsInv'
      BY <1>4, <2>2, HandlerLeaves DEF SmtpFails
    <2>4. KeysInv'
      <3>1. /\ j \in Jobs /\ ledger[j] = "claimed" /\ sent[j] = lost[j]
            /\ sent[j] \in Nat /\ lost[j] \in Nat
        BY <1>0, <1>4 DEF SmtpFails, KeysInv, KeyInv
      <3>2. \/ /\ sent' = [sent EXCEPT ![j] = @ + 1]
               /\ lost' = [lost EXCEPT ![j] = @ + 1]
            \/ UNCHANGED <<sent, lost>>
        BY <1>4 DEF SmtpFails
      <3>3. sent' \in [Jobs -> Nat] /\ lost' \in [Jobs -> Nat] /\ sent'[j] = lost'[j]
        BY <1>0, <3>1, <3>2 DEF KeysInv
      <3>4. \A k \in Jobs \ {j} : sent'[k] = sent[k] /\ lost'[k] = lost[k]
        BY <1>0, <3>1, <3>2 DEF KeysInv
      <3>5. ledger' = [ledger EXCEPT ![j] = "none"] /\ handler' = Free
        BY <1>4 DEF SmtpFails
      <3>6. ASSUME NEW k \in Jobs PROVE KeyInv(k)'
        BY <1>0, <3>1, <3>3, <3>4, <3>5 DEF KeysInv, KeyInv, AcceptedKey, Free
      <3> QED BY <1>0, <3>1, <3>3, <3>5, <3>6 DEF KeysInv
    <2> QED BY <1>2, <2>2, <2>3, <2>4 DEF IInv
  <1>5. CASE PersistAccepted
    <2>1. sent[j] > 0 /\ UNCHANGED <<sent, lost>>
      BY <1>0, <1>5 DEF PersistAccepted, KeysInv, KeyInv
    <2>2. Answer(handler, "accept") \/ Answer(handler, Failure(handler, FALSE))
      BY <1>5 DEF PersistAccepted
    <2>3. WorkersInv' /\ \A v \in Workers : v # handler.to => worker'[v] = worker[v]
      <3>1. CASE Answer(handler, "accept")
        BY <1>0, <1>1, <1>5, <2>1, <3>1, AnswerKeeps DEF PersistAccepted
      <3>2. CASE Answer(handler, Failure(handler, FALSE))
        BY <1>0, <1>1, <3>2, FailurePcs, AnswerKeeps
      <3> QED BY <2>2, <3>1, <3>2
    <2>4. CallsInv'
      BY <1>5, <2>3, HandlerLeaves DEF PersistAccepted
    <2>5. KeysInv'
      <3>1. PICK m \in Marks : ledger' = [ledger EXCEPT ![j] = m]
        BY <1>5 DEF PersistAccepted, Marks
      <3> QED BY <1>0, <1>5, <2>1, <3>1 DEF PersistAccepted, Marks, KeysInv, KeyInv, AcceptedKey, Free
    <2> QED BY <1>2, <2>3, <2>4, <2>5 DEF IInv
  <1>6. CASE ProviderCrashes
    <2>1. WorkersInv'
      BY <1>0, <1>1, <1>6, WorkersStand DEF ProviderCrashes
    <2>2. CallsInv'
      BY <1>6, HandlerLeaves DEF ProviderCrashes
    <2>3. KeysInv'
      <3>1. UNCHANGED lost /\ handler' = Free
        BY <1>6 DEF ProviderCrashes
      <3>2. CASE handler.pc = "smtp"
        BY <1>0, <1>6, <3>1, <3>2 DEF ProviderCrashes, KeysInv, KeyInv, AcceptedKey, Free
      <3>3. CASE handler.pc = "mark"
        <4>1. UNCHANGED sent
          BY <1>6, <3>3 DEF ProviderCrashes
        <4>2. PICK m \in Marks : ledger' = [ledger EXCEPT ![j] = m]
          BY <1>6, <3>3 DEF ProviderCrashes
        <4> QED BY <1>0, <3>1, <3>3, <4>1, <4>2 DEF Marks, KeysInv, KeyInv, AcceptedKey, Free
      <3>4. CASE handler.pc = "free"
        BY <1>0, <1>6, <3>1, <3>4 DEF ProviderCrashes, KeysInv, KeyInv, AcceptedKey, Free
      <3> QED BY <1>0, <3>2, <3>3, <3>4 DEF Handlers
    <2> QED BY <1>2, <2>1, <2>2, <2>3 DEF IInv
  <1> QED BY <1>3, <1>4, <1>5, <1>6

-----------------------------------------------------------------------------
(* The theorems.                                                           *)

LEMMA StepKeeps == IInv /\ [Next]_vars => IInv'
  <1> SUFFICES ASSUME IInv, [Next]_vars PROVE IInv'
    OBVIOUS
  <1>1. CASE Next
    BY <1>1, RowStepsKeep, QuietKeeps, CallKeeps, QueueKeeps, HandlerKeeps DEF Next, QuietStep, CallStep
  <1>2. CASE UNCHANGED vars
    <2>1. RowsInv'
      BY <1>2, RowsStand DEF vars, IInv, RowsInv
    <2>2. WorkersInv' /\ KeysInv'
      BY <1>2, WorkersStand, ProviderStands DEF vars, IInv
    <2>3. CallsInv'
      BY <1>2 DEF vars, IInv, CallsInv, Awaited
    <2> QED BY <2>1, <2>2, <2>3 DEF IInv
  <1> QED BY <1>1, <1>2

LEMMA Invariance == Spec => []IInv
  BY InitInv, StepKeeps, PTL DEF Spec

\* The types of the outbox, the workers and the provider's ledger.
THEOREM MailTypes == Spec => []TypeOK
  <1>1. IInv => TypeOK
    BY DEF IInv, RowsInv, WorkersInv, CallsInv, KeysInv, TypeOK, JobRecords, WorkerRecords, Calls, Handlers
  <1> QED BY <1>1, Invariance, PTL

\* Failed jobs and open dead letters go together (FailMailOutbox, the sweep, RequeueMailOutbox).
THEOREM DeadLetters == Spec => []FailedIsDeadLettered
  <1>1. IInv => FailedIsDeadLettered
    BY DEF IInv, RowsInv
  <1> QED BY <1>1, Invariance, PTL

\* The provider's ledger keeps a mail from going out again (ServeHTTP).
THEOREM MailSentOnce == Spec => []SentOnce
  <1>1. IInv => SentOnce
    BY DEF IInv, KeysInv, KeyInv, SentOnce
  <1> QED BY <1>1, Invariance, PTL

\* An accepted job's mail went out; it is delivered on the word of a receipt, and
\* by every receipt that is marked as applied (AcceptMailOutbox,
\* RecordMailDeliveryReceipt, ApplyPendingMailDeliveryReceipt).
THEOREM AcceptedMailSent == Spec => []AcceptedWasSent
  <1>1. IInv => AcceptedWasSent
    BY DEF IInv, RowsInv
  <1> QED BY <1>1, Invariance, PTL

\* No worker takes an acceptance back (the guards on status and locked_by).
AcceptanceStands ==
  [][\A j \in Jobs : job[j].status \in {"accepted", "delivered"}
       => job'[j].status \in {job[j].status, "delivered"}]_vars

\* So it is, in every behaviour.
THEOREM AcceptancesStand == Spec => AcceptanceStands
  <1> DEFINE A == \A j \in Jobs : job[j].status \in {"accepted", "delivered"}
                    => job'[j].status \in {job[j].status, "delivered"}
  <1>1. ASSUME IInv, Next PROVE A
    <2>0. job \in [Jobs -> JobRecords]
      BY <1>1 DEF IInv, RowsInv
    <2>1. ASSUME NEW k \in Jobs, NEW r, job' = [job EXCEPT ![k] = r], job[k].status \notin {"accepted", "delivered"}
          PROVE  A
      BY <2>0, <2>1
    <2>2. ASSUME NEW js, Deliver(js) PROVE A
      BY <2>0, <2>2 DEF Deliver, JobRecords
    <2>3. ASSUME UNCHANGED job PROVE A
      BY <2>3
    <2>4. ASSUME NEW w \in Workers, QuietStep(w) PROVE A
      <3>1. worker[w].pc \in {"accept", "retry", "fail"} => worker[w].job \in Jobs
        BY <1>1 DEF IInv, WorkersInv, WorkerInv
      <3>2. CASE Sweep(w)
        <4>1. \A j \in Jobs : job[j].status \in {"accepted", "delivered"} => job'[j] = job[j]
          BY <3>2 DEF Sweep, Exhausted, Lapsed
        <4> QED BY <4>1
      <3>3. CASE Claim(w)
        BY <2>0, <3>3 DEF Claim, Claimable, Lapsed
      <3>4. CASE Accept(w) \/ Retry(w) \/ Fail(w)
        BY <2>1, <2>3, <3>1, <3>4 DEF Accept, Retry, Fail, Owns, outbox
      <3> QED BY <2>2, <2>3, <2>4, <3>2, <3>3, <3>4 DEF QuietStep, Reconcile, SkipReconcile, ApplyReceipt, Apply, outbox
    <2>5. ASSUME NEW j \in Jobs,
                 \/ Enqueue(j) \/ GoesStale(j) \/ LeaseLapses(j) \/ Requeue(j)
                 \/ CallbackBegins(j) \/ CallbackCommits(j)
          PROVE  A
      <3>1. CASE Enqueue(j) \/ LeaseLapses(j)
        BY <2>0, <3>1 DEF Enqueue, LeaseLapses
      <3>2. CASE Requeue(j)
        BY <2>1, <3>2 DEF Requeue
      <3> QED BY <2>2, <2>3, <2>5, <3>1, <3>2 DEF GoesStale, CallbackBegins, CallbackCommits, outbox
    <2>6. ASSUME UNCHANGED outbox PROVE A
      BY <2>3, <2>6 DEF outbox
    <2> QED
      BY <1>1, <2>4, <2>5, <2>6
         DEF Next, QuietStep, CallArrives, CallTimesOut, WorkerCrashes, Replay, TurnAway, TakeKey,
             SmtpAccepts, SmtpFails, PersistAccepted, ProviderCrashes
  <1>2. IInv /\ [Next]_vars => [A]_vars
    BY <1>1
  <1>3. Spec => [][A]_vars
    BY <1>2, Invariance, PTL DEF Spec
  <1> QED BY <1>3 DEF AcceptanceStands
-----------------------------------------------------------------------------
(* What becomes of a mail.                                                 *)

\* What the ledger knows of a mail stays true, nobody has a mail that was not
\* written, and only one that the ledger calls accepted is taken for accepted.
OutInv ==
  /\ \A j \in Jobs : job[j].status \in {"accepted", "delivered"} => ledger[j] = "accepted"
  /\ \A j \in Jobs : AcceptedKey(j) => sent[j] = lost[j] + 1
  /\ \A w \in Workers : worker[w].pc = "accept" => ledger[worker[w].job] = "accepted"
  /\ \A w \in Workers : worker[w].job \in Jobs => job[worker[w].job].status # "none"
  /\ \A r \in waiting : job[r.job].status # "none"
  /\ handler.job \in Jobs => job[handler.job].status # "none"

\* A step as MailPromise sees it, but for the mails that go out.
Moves ==
  \/ UNCHANGED stage
  \/ \E j \in Jobs : Promise!Move({j}, "none", "open") \/ Promise!Move({j}, "failed", "open")
  \/ \E js \in SUBSET Jobs : Promise!Move(js, "open", "failed") \/ Promise!Move(js, "accepted", "delivered")
  \/ \E w \in Workers : worker[w].pc = "accept" /\ Promise!Move({worker[w].job}, "open", "accepted")

LEMMA StageShift ==
  ASSUME NEW js \in SUBSET Jobs, NEW from, NEW to, UNCHANGED <<sent, lost>>,
         \A j \in js : stage[j] = from,
         \A j \in Jobs : stage'[j] = IF j \in js THEN to ELSE stage[j]
  PROVE  Promise!Move(js, from, to)
  <1>1. stage' = [j \in Jobs |-> stage'[j]]
    BY DEF stage
  <1>2. stage' = [j \in Jobs |-> IF j \in js THEN to ELSE stage[j]]
    BY <1>1
  <1> QED BY <1>2 DEF Promise!Move

LEMMA StageStands ==
  ASSUME \A j \in Jobs : stage'[j] = stage[j]
  PROVE  UNCHANGED stage
  <1>1. stage' = [j \in Jobs |-> stage'[j]] /\ stage = [j \in Jobs |-> stage[j]]
    BY DEF stage
  <1> QED BY <1>1

\* One row changes.
LEMMA RowMoves ==
  ASSUME job \in [Jobs -> JobRecords], NEW j \in Jobs, NEW r, job' = [job EXCEPT ![j] = r],
         UNCHANGED <<sent, lost>>
  PROVE  /\ \A k \in Jobs : stage'[k] = IF k = j THEN stage'[j] ELSE stage[k]
         /\ stage[j] = IF job[j].status \in {"pending", "processing", "retry_due"} THEN "open" ELSE job[j].status
         /\ stage'[j] = IF r.status \in {"pending", "processing", "retry_due"} THEN "open" ELSE r.status
         /\ stage'[j] = stage[j] => UNCHANGED stage
         /\ \A from, to : stage[j] = from /\ stage'[j] = to => Promise!Move({j}, from, to)
  <1>1. job'[j] = r /\ \A k \in Jobs \ {j} : job'[k] = job[k]
    OBVIOUS
  <1>2. \A k \in Jobs : stage'[k] = IF k = j THEN stage'[j] ELSE stage[k]
    BY <1>1 DEF stage
  <1>3. /\ stage[j] = IF job[j].status \in {"pending", "processing", "retry_due"} THEN "open" ELSE job[j].status
        /\ stage'[j] = IF r.status \in {"pending", "processing", "retry_due"} THEN "open" ELSE r.status
    BY <1>1 DEF stage
  <1>4. stage'[j] = stage[j] => UNCHANGED stage
    BY <1>2, StageStands
  <1>5. ASSUME NEW from, NEW to, stage[j] = from, stage'[j] = to PROVE Promise!Move({j}, from, to)
    BY <1>2, <1>5, StageShift
  <1> QED BY <1>2, <1>3, <1>4, <1>5

LEMMA DeliverMoves ==
  ASSUME job \in [Jobs -> JobRecords], NEW js \in SUBSET Jobs, Deliver(js),
         \A j \in js : job[j].status = "accepted", UNCHANGED <<sent, lost>>
  PROVE  Promise!Move(js, "accepted", "delivered")
  <1>1. \A j \in Jobs : job'[j].status = IF j \in js THEN "delivered" ELSE job[j].status
    BY DEF Deliver, JobRecords
  <1>2. /\ \A j \in js : stage[j] = "accepted"
        /\ \A j \in Jobs : stage'[j] = IF j \in js THEN "delivered" ELSE stage[j]
    BY <1>1 DEF stage
  <1> QED BY <1>2, StageShift

LEMMA SweepMoves ==
  ASSUME job \in [Jobs -> JobRecords], NEW w \in Workers, Sweep(w)
  PROVE  \E js \in SUBSET Jobs : Promise!Move(js, "open", "failed")
  <1> DEFINE js == {j \in Jobs : Exhausted(j)}
  <1>1. \A j \in Jobs : job'[j].status = IF j \in js THEN "failed" ELSE job[j].status
    BY DEF Sweep, Unlocked, JobRecords
  <1>2. /\ \A j \in js : stage[j] = "open"
        /\ \A j \in Jobs : stage'[j] = IF j \in js THEN "failed" ELSE stage[j]
    BY <1>1 DEF stage, Exhausted, Lapsed
  <1>3. Promise!Move(js, "open", "failed")
    BY <1>2, StageShift DEF Sweep, provider
  <1> QED BY <1>3

LEMMA WorkerStageMoves ==
  ASSUME IInv, NEW w \in Workers, QuietStep(w)
  PROVE  Moves
  <1> DEFINE j == worker[w].job
  <1>0. job \in [Jobs -> JobRecords] /\ UNCHANGED <<sent, lost>>
    BY DEF IInv, RowsInv, QuietStep, Reconcile, SkipReconcile, Sweep, Claim, Accept, ApplyReceipt, Retry, Fail,
           provider
  <1>1. CASE Reconcile(w)
    <2>1. Promise!Move({k \in Jobs : Applicable(k)}, "accepted", "delivered")
      BY <1>0, <1>1, DeliverMoves DEF Reconcile, Apply, Applicable
    <2> QED BY <2>1 DEF Moves
  <1>2. CASE ApplyReceipt(w)
    <2>1. j \in Jobs
      BY <1>2 DEF ApplyReceipt, IInv, WorkersInv, WorkerInv
    <2>2. Promise!Move({k \in {j} : receipt[k] = "pending" /\ job[k].status = "accepted"}, "accepted", "delivered")
      BY <1>0, <1>2, <2>1, DeliverMoves DEF ApplyReceipt, Apply
    <2> QED BY <2>1, <2>2 DEF Moves
  <1>3. CASE Sweep(w)
    BY <1>0, <1>3, SweepMoves DEF Moves
  <1>4. CASE UNCHANGED job
    BY <1>4 DEF Moves, stage
  <1>5. CASE Claim(w) /\ ~UNCHANGED job
    <2>1. PICK k \in Jobs : /\ Claimable(k)
                            /\ job' = [job EXCEPT ![k].status = "processing", ![k].attempts = @ + 1,
                                                  ![k].by = w, ![k].lapsed = FALSE]
      BY <1>5 DEF Claim
    <2> DEFINE r == job'[k]
    <2>2. job' = [job EXCEPT ![k] = r] /\ r.status = "processing"
      BY <1>0, <2>1 DEF JobRecords
    <2>3. job[k].status \in {"pending", "processing", "retry_due"}
      BY <2>1 DEF Claimable, Lapsed
    <2> HIDE DEF r
    <2> QED BY <1>0, <2>2, <2>3, RowMoves DEF Moves
  <1>6. CASE (Accept(w) \/ Retry(w) \/ Fail(w)) /\ ~UNCHANGED job
    <2>1. j \in Jobs /\ Owns(w)
      BY <1>6 DEF Accept, Retry, Fail, IInv, WorkersInv, WorkerInv, outbox
    <2>2. PICK s \in {"accepted", "retry_due", "failed"} :
            job' = [job EXCEPT ![j] = Unlocked(job[j], s)] /\ (s = "accepted" => worker[w].pc = "accept")
      BY <1>6 DEF Accept, Retry, Fail, outbox
    <2>3. Unlocked(job[j], s).status = s
      BY <1>0, <2>1 DEF Unlocked, JobRecords
    <2>4. stage[j] = "open" /\ (s = "retry_due" => UNCHANGED stage)
          /\ (s # "retry_due" => Promise!Move({j}, "open", s))
      BY <1>0, <2>1, <2>2, <2>3, RowMoves DEF Owns
    <2> QED BY <2>1, <2>2, <2>4 DEF Moves
  <1> QED BY <1>1, <1>2, <1>3, <1>4, <1>5, <1>6 DEF QuietStep, SkipReconcile, outbox

LEMMA RowStageMoves ==
  ASSUME IInv, NEW j \in Jobs,
         \/ Enqueue(j) \/ GoesStale(j) \/ LeaseLapses(j) \/ Requeue(j)
         \/ CallbackBegins(j) \/ CallbackCommits(j)
  PROVE  Moves
  <1>0. job \in [Jobs -> JobRecords] /\ UNCHANGED <<sent, lost>>
    BY DEF IInv, RowsInv, Enqueue, GoesStale, LeaseLapses, Requeue, CallbackBegins, CallbackCommits, provider
  <1>1. CASE UNCHANGED job
    BY <1>1 DEF Moves, stage
  <1>2. CASE CallbackCommits(j)
    <2>1. Promise!Move({k \in {j} : callback[k] = "seeing" /\ job[k].status = "accepted"}, "accepted", "delivered")
      BY <1>0, <1>2, DeliverMoves DEF CallbackCommits
    <2> QED BY <2>1 DEF Moves
  <1>3. CASE Enqueue(j) \/ LeaseLapses(j)
    <2> DEFINE r == job'[j]
    <2>1. job' = [job EXCEPT ![j] = r] /\ (Enqueue(j) => r.status = "pending")
          /\ (LeaseLapses(j) => r.status = job[j].status)
      BY <1>0, <1>3 DEF Enqueue, LeaseLapses, JobRecords
    <2>2. (Enqueue(j) => job[j].status = "none") /\ (LeaseLapses(j) => job[j].status = "processing")
      BY DEF Enqueue, LeaseLapses
    <2> HIDE DEF r
    <2> QED BY <1>0, <1>3, <2>1, <2>2, RowMoves DEF Moves
  <1>4. CASE Requeue(j)
    <2> DEFINE r == job'[j]
    <2>1. job' = [job EXCEPT ![j] = [Unlocked(job[j], "pending") EXCEPT !.attempts = 0, !.requeues = @ + 1]]
          /\ job[j].status = "failed"
      BY <1>4 DEF Requeue
    <2>2. job' = [job EXCEPT ![j] = r] /\ r.status = "pending"
      BY <1>0, <2>1 DEF Unlocked, JobRecords
    <2> HIDE DEF r
    <2> QED BY <1>0, <2>1, <2>2, RowMoves DEF Moves
  <1> QED BY <1>1, <1>2, <1>3, <1>4 DEF GoesStale, CallbackBegins, outbox

\* The other steps leave the rows alone.
QueueStep(r) == Replay(r) \/ TurnAway(r) \/ TakeKey(r)
HandlerStep == SmtpAccepts \/ SmtpFails \/ PersistAccepted \/ ProviderCrashes

LEMMA StageMoves ==
  ASSUME IInv, [Next]_vars
  PROVE  Moves
  <1>1. CASE UNCHANGED job
    BY <1>1 DEF Moves, stage
  <1>2. CASE \/ \E w \in Workers : CallStep(w)
             \/ \E r \in waiting : QueueStep(r)
             \/ HandlerStep \/ UNCHANGED vars
    BY <1>1, <1>2 DEF CallStep, QueueStep, HandlerStep, CallArrives, CallTimesOut, WorkerCrashes, Replay, TurnAway,
       TakeKey, SmtpAccepts, SmtpFails, PersistAccepted, ProviderCrashes, outbox, vars
  <1> QED
    BY <1>2, WorkerStageMoves, RowStageMoves DEF Next, QuietStep, CallStep, QueueStep, HandlerStep

\* A mail that was written stays written, and none is accepted but by its ledger.
LEMMA MovesKeep ==
  ASSUME OutInv, Moves, NEW j \in Jobs
  PROVE  /\ job[j].status # "none" => job'[j].status # "none"
         /\ job'[j].status \in {"accepted", "delivered"} => ledger[j] = "accepted"
  <1>1. /\ stage[j] = "none" <=> job[j].status = "none"
        /\ stage'[j] = "none" <=> job'[j].status = "none"
        /\ stage[j] \in {"accepted", "delivered"} <=> job[j].status \in {"accepted", "delivered"}
        /\ stage'[j] \in {"accepted", "delivered"} <=> job'[j].status \in {"accepted", "delivered"}
    BY DEF stage
  <1>2. ASSUME NEW js, NEW from, NEW to, Promise!Move(js, from, to)
        PROVE  stage'[j] = (IF j \in js THEN to ELSE stage[j]) /\ (j \in js => stage[j] = from)
    BY <1>2 DEF Promise!Move
  <1>3. CASE UNCHANGED stage
    BY <1>1, <1>3 DEF OutInv
  <1>4. CASE \E k \in Jobs : Promise!Move({k}, "none", "open") \/ Promise!Move({k}, "failed", "open")
    BY <1>1, <1>2, <1>4 DEF OutInv
  <1>5. CASE \E js \in SUBSET Jobs : Promise!Move(js, "open", "failed") \/ Promise!Move(js, "accepted", "delivered")
    BY <1>1, <1>2, <1>5 DEF OutInv
  <1>6. CASE \E w \in Workers : worker[w].pc = "accept" /\ Promise!Move({worker[w].job}, "open", "accepted")
    <2>1. PICK w \in Workers : worker[w].pc = "accept" /\ Promise!Move({worker[w].job}, "open", "accepted")
      BY <1>6
    <2>2. ledger[worker[w].job] = "accepted"
      BY <2>1 DEF OutInv
    <2>3. stage'[j] = (IF j = worker[w].job THEN "accepted" ELSE stage[j])
          /\ (j = worker[w].job => stage[j] = "open")
      BY <1>2, <2>1
    <2> QED BY <1>1, <2>2, <2>3 DEF OutInv
  <1> QED BY <1>3, <1>4, <1>5, <1>6 DEF Moves

\* What OutInv needs of a step's workers, calls and keys.
WorkersFollow ==
  \A w \in Workers :
    /\ worker'[w].pc = "accept" => \/ worker[w].pc = "accept" /\ worker[w].job = worker'[w].job
                                   \/ ledger'[worker'[w].job] = "accepted"
    /\ worker'[w].job \in Jobs => worker'[w].job = worker[w].job \/ job'[worker'[w].job].status # "none"

CallsFollow ==
  /\ \A r \in waiting' : \/ \E q \in waiting : q.job = r.job
                         \/ \E w \in Workers : worker[w].job = r.job
  /\ handler'.job \in Jobs => \/ handler'.job = handler.job
                              \/ \E q \in waiting : q.job = handler'.job

KeysFollow ==
  \A j \in Jobs :
    /\ ledger[j] = "accepted" => ledger'[j] = "accepted"
    /\ ledger'[j] \in {"marked", "accepted"} => sent'[j] = lost'[j] + 1

LEMMA OutFollows ==
  ASSUME IInv, IInv', OutInv, Moves, WorkersFollow, CallsFollow, KeysFollow
  PROVE  OutInv'
  <1>1. \A j \in Jobs : job'[j].status \in {"accepted", "delivered"} => ledger'[j] = "accepted"
    BY MovesKeep DEF KeysFollow
  <1>2. \A j \in Jobs : AcceptedKey(j)' => sent'[j] = lost'[j] + 1
    BY DEF KeysFollow, AcceptedKey
  <1>3. \A w \in Workers : worker'[w].pc = "accept" => ledger'[worker'[w].job] = "accepted"
    BY DEF WorkersFollow, KeysFollow, OutInv, IInv, WorkersInv, WorkerInv
  <1>4. \A w \in Workers : worker'[w].job \in Jobs => job'[worker'[w].job].status # "none"
    BY MovesKeep DEF WorkersFollow, OutInv
  <1>5. ASSUME NEW r \in waiting' PROVE job'[r.job].status # "none"
    <2>1. r.job \in Jobs
      BY DEF IInv, CallsInv, Calls
    <2> QED BY <2>1, MovesKeep DEF CallsFollow, OutInv
  <1>6. handler'.job \in Jobs => job'[handler'.job].status # "none"
    BY MovesKeep DEF CallsFollow, OutInv
  <1> QED BY <1>1, <1>2, <1>3, <1>4, <1>5, <1>6 DEF OutInv

LEMMA ProviderFollows ==
  ASSUME OutInv, UNCHANGED provider
  PROVE  CallsFollow /\ KeysFollow
  BY DEF provider, OutInv, AcceptedKey, CallsFollow, KeysFollow

LEMMA WorkersFollowPc ==
  ASSUME IInv, NEW w \in Workers, NEW pc, worker' = [worker EXCEPT ![w].pc = pc],
         pc = "accept" => ledger'[worker[w].job] = "accepted"
  PROVE  WorkersFollow
  <1>1. /\ worker'[w].pc = pc /\ worker'[w].job = worker[w].job
        /\ \A v \in Workers \ {w} : worker'[v] = worker[v]
    BY DEF IInv, WorkersInv, WorkerRecords
  <1> QED BY <1>1 DEF WorkersFollow

LEMMA WorkersFollowIdle ==
  ASSUME IInv, NEW w \in Workers, Return(w)
  PROVE  WorkersFollow
  <1>1. worker'[w] = Idle /\ \A v \in Workers \ {w} : worker'[v] = worker[v]
    BY DEF Return, IInv, WorkersInv
  <1> QED BY <1>1 DEF WorkersFollow, Idle

LEMMA QuietFollows ==
  ASSUME IInv, OutInv, NEW w \in Workers, QuietStep(w)
  PROVE  WorkersFollow /\ UNCHANGED provider
  <1>1. UNCHANGED provider
    BY DEF QuietStep, Reconcile, SkipReconcile, Sweep, Claim, Accept, ApplyReceipt, Retry, Fail
  <1>2. CASE Return(w)
    BY <1>1, <1>2, WorkersFollowIdle
  <1>3. CASE \E pc \in {"sweep", "claim", "apply"} : Goto(w, pc)
    BY <1>1, <1>3, WorkersFollowPc DEF Goto
  <1>4. CASE Claim(w) /\ ~Return(w)
    <2>1. PICK j \in Jobs :
            /\ job' = [job EXCEPT ![j].status = "processing", ![j].attempts = @ + 1, ![j].by = w, ![j].lapsed = FALSE]
            /\ worker' = [worker EXCEPT ![w] = [pc |-> IF j \in stale THEN "fail" ELSE "send",
                                                job |-> j, attempt |-> job[j].attempts + 1]]
      BY <1>4 DEF Claim
    <2>2. job'[j].status = "processing"
      BY <2>1 DEF IInv, RowsInv, JobRecords
    <2>3. /\ worker'[w].pc # "accept" /\ worker'[w].job = j
          /\ \A v \in Workers \ {w} : worker'[v] = worker[v]
      BY <2>1 DEF IInv, WorkersInv
    <2> QED BY <1>1, <2>2, <2>3 DEF WorkersFollow
  <1> QED BY <1>1, <1>2, <1>3, <1>4 DEF QuietStep, Reconcile, SkipReconcile, Sweep, Accept, ApplyReceipt, Retry, Fail

LEMMA LeftJob ==
  ASSUME NEW w, NEW r, r \in Calls \/ r \in Handlers
  PROVE  Left(r, w).job = r.job
  BY DEF Left, Calls, Handlers

LEMMA CallFollows ==
  ASSUME IInv, OutInv, NEW w \in Workers, CallStep(w)
  PROVE  WorkersFollow /\ CallsFollow /\ KeysFollow
  <1>1. KeysFollow
    BY DEF CallStep, CallArrives, CallTimesOut, WorkerCrashes, KeysFollow, OutInv, AcceptedKey
  <1>2. WorkersFollow
    <2>1. CASE Return(w)
      BY <2>1, WorkersFollowIdle
    <2>2. CASE \E pc \in {"await", "fail", "retry"} : Goto(w, pc)
      BY <2>2, WorkersFollowPc DEF Goto
    <2> QED BY <2>1, <2>2 DEF CallStep, CallArrives, CallTimesOut, WorkerCrashes, AfterFailure
  <1>3. CallsFollow
    <2>1. CASE Leaves(w)
      <3>1. \A r \in waiting' : \E q \in waiting : q.job = r.job
        BY <2>1, LeftJob DEF Leaves, IInv, CallsInv
      <3>2. handler'.job = handler.job
        BY <2>1, LeftJob DEF Leaves, IInv, CallsInv
      <3> QED BY <3>1, <3>2 DEF CallsFollow
    <2>2. CASE UNCHANGED handler /\ \E to : waiting' \in {waiting, waiting \cup {[job |-> worker[w].job, to |-> to]}}
      BY <2>2 DEF CallsFollow
    <2> QED BY <2>1, <2>2 DEF CallStep, CallArrives, CallTimesOut, WorkerCrashes
  <1> QED BY <1>1, <1>2, <1>3

LEMMA AnswerFollows ==
  ASSUME IInv, NEW r, r.to \in Workers \cup {Nobody}, Awaited(r), NEW pc, Answer(r, pc),
         pc = "accept" => ledger'[r.job] = "accepted"
  PROVE  WorkersFollow
  <1>1. CASE r.to = Nobody
    BY <1>1 DEF Answer, WorkersFollow
  <1>2. CASE r.to # Nobody
    BY <1>2, WorkersFollowPc DEF Answer, Awaited
  <1> QED BY <1>1, <1>2

LEMMA QueueFollows ==
  ASSUME IInv, OutInv, NEW r \in waiting, QueueStep(r)
  PROVE  WorkersFollow /\ CallsFollow /\ KeysFollow
  <1>1. r \in Calls /\ Awaited(r) /\ waiting' \subseteq waiting
    BY DEF IInv, CallsInv, QueueStep, Replay, TurnAway, TakeKey
  <1>2. r.to \in Workers \cup {Nobody} /\ r.job \in Jobs
    BY <1>1 DEF Calls
  <1>3. CallsFollow
    <2>1. (Replay(r) \/ TurnAway(r) => handler' = handler) /\ (TakeKey(r) => handler'.job = r.job)
      <3>1. Replay(r) => handler' = handler
        BY DEF Replay
      <3>2. TurnAway(r) => handler' = handler
        BY DEF TurnAway
      <3>3. TakeKey(r) => handler'.job = r.job
        BY DEF TakeKey
      <3> QED BY <3>1, <3>2, <3>3
    <2> QED BY <1>1, <2>1 DEF CallsFollow, QueueStep
  <1>4. KeysFollow
    BY <1>2 DEF QueueStep, Replay, TurnAway, TakeKey, NewKey, OutInv, AcceptedKey, KeysFollow, IInv, KeysInv
  <1>5. WorkersFollow
    <2>1. CASE Replay(r)
      <3>1. ledger'[r.job] = "accepted" /\ Answer(r, "accept")
        BY <1>2, <2>1 DEF Replay, IInv, KeysInv
      <3> QED BY <1>1, <1>2, <3>1, AnswerFollows
    <2>2. CASE TurnAway(r)
      BY <1>1, <1>2, <2>2, FailurePcs, AnswerFollows DEF TurnAway
    <2>3. CASE TakeKey(r)
      BY <2>3 DEF TakeKey, WorkersFollow
    <2> QED BY <2>1, <2>2, <2>3 DEF QueueStep
  <1> QED BY <1>3, <1>4, <1>5

LEMMA HandlerFollows ==
  ASSUME IInv, OutInv, HandlerStep
  PROVE  WorkersFollow /\ CallsFollow /\ KeysFollow
  <1> DEFINE j == handler.job
  <1>1. handler.to \in Workers \cup {Nobody} /\ Awaited(handler) /\ (handler.pc # "free" => j \in Jobs)
    BY DEF IInv, CallsInv, Handlers
  <1>2. CallsFollow
    <2>1. waiting' \subseteq waiting
      BY DEF HandlerStep, SmtpAccepts, SmtpFails, PersistAccepted, ProviderCrashes
    <2>2. handler' = Free \/ handler' = [handler EXCEPT !.pc = "mark"]
      BY DEF HandlerStep, SmtpAccepts, SmtpFails, PersistAccepted, ProviderCrashes
    <2>3. handler'.job = NoJob \/ handler'.job = handler.job
      BY <2>2 DEF Free, IInv, CallsInv, Handlers
    <2> QED BY <2>1, <2>3 DEF CallsFollow
  <1>3. /\ ledger \in [Jobs -> {"none", "claimed", "marked", "accepted"}]
        /\ sent \in [Jobs -> Nat] /\ lost \in [Jobs -> Nat]
        /\ handler.pc = "smtp" => ledger[j] = "claimed" /\ sent[j] = lost[j]
        /\ handler.pc = "mark" => ledger[j] = "claimed" /\ sent[j] = lost[j] + 1
    BY <1>1 DEF IInv, KeysInv, KeyInv
  <1>4. \A k \in Jobs : ledger[k] \in {"marked", "accepted"} => sent[k] = lost[k] + 1
    BY DEF OutInv, AcceptedKey
  <1>5. CASE SmtpAccepts
    <2>1. KeysFollow
      BY <1>1, <1>3, <1>4, <1>5 DEF SmtpAccepts, KeysFollow
    <2> QED BY <1>2, <1>5, <2>1 DEF SmtpAccepts, WorkersFollow
  <1>6. CASE SmtpFails
    <2>1. KeysFollow
      BY <1>1, <1>3, <1>4, <1>6 DEF SmtpFails, KeysFollow
    <2>2. WorkersFollow
      BY <1>1, <1>6, FailurePcs, AnswerFollows DEF SmtpFails
    <2> QED BY <1>2, <2>1, <2>2
  <1>7. CASE PersistAccepted
    <2>1. KeysFollow
      BY <1>1, <1>3, <1>4, <1>7 DEF PersistAccepted, KeysFollow
    <2>2. WorkersFollow
      <3>1. CASE ledger' = [ledger EXCEPT ![j] = "accepted"] /\ Answer(handler, "accept")
        <4>1. ledger'[j] = "accepted"
          BY <1>1, <1>3, <1>7, <3>1 DEF PersistAccepted
        <4> QED BY <1>1, <3>1, <4>1, AnswerFollows
      <3>2. CASE Answer(handler, Failure(handler, FALSE))
        BY <1>1, <3>2, FailurePcs, AnswerFollows
      <3> QED BY <1>7, <3>1, <3>2 DEF PersistAccepted
    <2> QED BY <1>2, <2>1, <2>2
  <1>8. CASE ProviderCrashes
    <2>1. UNCHANGED <<worker, lost>>
      BY <1>8 DEF ProviderCrashes
    <2>2. CASE handler.pc = "smtp"
      <3>1. UNCHANGED ledger /\ sent' \in {sent, [sent EXCEPT ![j] = @ + 1]}
        BY <1>8, <2>2 DEF ProviderCrashes
      <3> QED BY <1>1, <1>2, <1>3, <1>4, <2>1, <2>2, <3>1 DEF KeysFollow, WorkersFollow
    <2>3. CASE handler.pc = "mark"
      <3>1. UNCHANGED sent /\ \E m \in Marks : ledger' = [ledger EXCEPT ![j] = m]
        BY <1>8, <2>3 DEF ProviderCrashes
      <3> QED BY <1>1, <1>2, <1>3, <1>4, <2>1, <2>3, <3>1 DEF KeysFollow, WorkersFollow
    <2>4. CASE handler.pc \notin {"smtp", "mark"}
      <3>1. UNCHANGED <<sent, ledger>>
        BY <1>8, <2>4 DEF ProviderCrashes
      <3> QED BY <1>2, <1>4, <2>1, <3>1 DEF KeysFollow, WorkersFollow
    <2> QED BY <2>2, <2>3, <2>4
  <1> QED BY <1>5, <1>6, <1>7, <1>8 DEF HandlerStep

LEMMA OutStep == IInv /\ IInv' /\ OutInv /\ [Next]_vars => OutInv'
  <1> SUFFICES ASSUME IInv, IInv', OutInv, [Next]_vars PROVE OutInv'
    OBVIOUS
  <1>1. WorkersFollow /\ CallsFollow /\ KeysFollow
    <2>1. CASE UNCHANGED <<worker, provider>>
      BY <2>1, ProviderFollows DEF WorkersFollow
    <2>2. ASSUME NEW j \in Jobs,
                 \/ Enqueue(j) \/ GoesStale(j) \/ LeaseLapses(j) \/ Requeue(j)
                 \/ CallbackBegins(j) \/ CallbackCommits(j)
          PROVE  UNCHANGED <<worker, provider>>
      BY <2>2 DEF Enqueue, GoesStale, LeaseLapses, Requeue, CallbackBegins, CallbackCommits
    <2>3. ASSUME NEW w \in Workers, QuietStep(w) PROVE WorkersFollow /\ CallsFollow /\ KeysFollow
      BY <2>3, QuietFollows, ProviderFollows
    <2>4. UNCHANGED vars => UNCHANGED <<worker, provider>>
      BY DEF vars, provider
    <2> QED
      BY <2>1, <2>2, <2>3, <2>4, CallFollows, QueueFollows, HandlerFollows
      DEF Next, QuietStep, CallStep, QueueStep, HandlerStep
  <1> QED BY <1>1, OutFollows, StageMoves

LEMMA AlwaysOut == Spec => []OutInv
  <1>1. Init => OutInv
    BY DEF Init, OutInv, AcceptedKey, Idle, Free
  <1> QED BY <1>1, Invariance, OutStep, PTL DEF Spec

\* The rows, the leases, the calls and the ledger do what MailPromise says: a claim
\* decides nothing, AcceptMailOutbox accepts what the ledger accepted, and the
\* provider takes a key only while every copy that went out was disowned.
THEOREM PromiseKept == Spec => KeepsPromise
  <1>1. Init => Promise!Init
    BY DEF Init, stage, Promise!Init
  <1>2. ASSUME IInv, OutInv, [Next]_vars PROVE Promise!Next \/ UNCHANGED <<stage, sent, lost>>
    <2>1. Moves
      BY <1>2, StageMoves
    <2>2. CASE UNCHANGED <<sent, lost>>
      <3>1. ASSUME NEW w \in Workers, worker[w].pc = "accept", Promise!Move({worker[w].job}, "open", "accepted")
            PROVE  Promise!Next
        <4> DEFINE j == worker[w].job
        <4>1. j \in Jobs /\ ledger[j] = "accepted"
          BY <1>2, <3>1 DEF IInv, WorkersInv, WorkerInv, OutInv
        <4>2. sent[j] > lost[j]
          BY <1>2, <4>1 DEF IInv, KeysInv, OutInv, AcceptedKey
        <4> QED BY <3>1, <4>1, <4>2 DEF Promise!Accept, Promise!Next
      <3> QED BY <2>1, <2>2, <3>1 DEF Moves, Promise!Next
    <2>3. CASE ~UNCHANGED <<sent, lost>>
      <3> DEFINE j == handler.job
      <3>1. SmtpAccepts \/ SmtpFails \/ ProviderCrashes
        BY <1>2, <2>3
        DEF Next, vars, Enqueue, GoesStale, LeaseLapses, Requeue, CallbackBegins, CallbackCommits,
            Reconcile, SkipReconcile, Sweep, Claim, Accept, ApplyReceipt, Retry, Fail, provider,
            CallArrives, CallTimesOut, WorkerCrashes, Replay, TurnAway, TakeKey, PersistAccepted
      <3>2. /\ handler.pc = "smtp" /\ UNCHANGED job
            /\ sent' = [sent EXCEPT ![j] = @ + 1]
            /\ lost' \in {lost, [lost EXCEPT ![j] = @ + 1]}
        BY <2>3, <3>1 DEF SmtpAccepts, SmtpFails, ProviderCrashes, outbox
      <3>3. j \in Jobs /\ ledger[j] = "claimed" /\ sent[j] = lost[j]
        BY <1>2, <3>2 DEF IInv, CallsInv, KeysInv, KeyInv
      <3>4. stage[j] \in {"open", "failed"} /\ UNCHANGED stage
        <4>1. job[j].status \notin {"none", "accepted", "delivered"}
          BY <1>2, <3>3 DEF OutInv
        <4>2. job[j] \in JobRecords
          BY <1>2, <3>3 DEF IInv, RowsInv
        <4> QED BY <3>2, <3>3, <4>1, <4>2 DEF stage, JobRecords
      <3>5. Promise!GoesOut(j)
        BY <3>2, <3>3, <3>4 DEF Promise!GoesOut
      <3> QED BY <3>3, <3>5 DEF Promise!Next
    <2> QED BY <2>2, <2>3
  <1>3. IInv /\ OutInv /\ [Next]_vars => [Promise!Next]_(Promise!vars)
    BY <1>2 DEF Promise!vars
  <1> QED BY <1>1, <1>3, Invariance, AlwaysOut, PTL DEF Spec, KeepsPromise, Promise!Spec
=============================================================================
