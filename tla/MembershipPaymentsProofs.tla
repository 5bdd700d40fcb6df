----------------------- MODULE MembershipPaymentsProofs -----------------------
(***************************************************************************)
(* What TLAPS proves about the payment kernel, for any number of users,    *)
(* orders, requests and Idempotency-Keys.                                  *)
(***************************************************************************)
EXTENDS MembershipPayments, TLAPS

-----------------------------------------------------------------------------
(* Types.                                                                  *)

\* A request that reaches a state of its type leaves all requests in theirs.
LEMMA BecomesTyped ==
  ASSUME worker \in [Workers -> WorkerStates],
         NEW w \in Workers, NEW r \in WorkerStates, Becomes(w, r)
  PROVE  worker' \in [Workers -> WorkerStates]
  BY DEF Becomes

LEMMA IdleTyped == Idle \in WorkerStates
  BY DEF Idle, WorkerStates, Requested, Informed, PCs, RequestKinds, ReversalStatuses

LEMMA ReturnTyped ==
  ASSUME worker \in [Workers -> WorkerStates], NEW w \in Workers, Return(w)
  PROVE  worker' \in [Workers -> WorkerStates]
  BY IdleTyped, BecomesTyped DEF Return

\* The tail of a request that applied its fact.
LEMMA AfterApplyTyped ==
  ASSUME worker \in [Workers -> WorkerStates], NEW w \in Workers,
         worker[w].pc \in {"apply", "commit"},
         NEW b \in BOOLEAN, AfterApply(w, b)
  PROVE  worker' \in [Workers -> WorkerStates]
  <1>0. worker[w] \in Requested /\ Informed(worker[w])
    BY DEF WorkerStates
  <1>1. CASE worker[w].op = "notify"
    BY <1>1, ReturnTyped DEF AfterApply
  <1>2. CASE worker[w].op = "reconcile"
    <2> DEFINE r == [worker[w] EXCEPT !.pc = "query", !.order = NoOrder, !.kind = "none"]
    <2>1. r \in WorkerStates
      <3>1. r \in Requested
        BY <1>0 DEF Requested, PCs
      <3>2. Informed(r)
        BY <1>0, <1>2 DEF Requested, Informed
      <3> QED BY <3>1, <3>2 DEF WorkerStates
    <2>2. Becomes(w, r)
      BY <1>2 DEF AfterApply
    <2> QED BY <2>1, <2>2, BecomesTyped
  <1>3. CASE worker[w].op \notin {"notify", "reconcile"}
    <2> DEFINE r == [worker[w] EXCEPT !.pc = "record", !.revoked = b]
    <2>1. r \in WorkerStates
      <3>1. r \in Requested
        BY <1>0 DEF Requested, PCs
      <3>2. Informed(r)
        BY <1>0, <1>3 DEF Requested, Informed
      <3> QED BY <3>1, <3>2 DEF WorkerStates
    <2>2. Becomes(w, r)
      BY <1>3 DEF AfterApply
    <2> QED BY <2>1, <2>2, BecomesTyped
  <1> QED BY <1>1, <1>2, <1>3

LEMMA InitTyped == Init => TypeOK
  BY IdleTyped DEF Init, TypeOK, Trades, OrderRows, Statuses, MemberRows, NoFact,
     EventRows, RefundRows, CommandRows, NoCommand

LEMMA OrderRowTyped ==
  ASSUME NEW row \in OrderRows, NEW s \in Statuses, NEW q \in {0, 1, 2}, NEW b \in BOOLEAN
  PROVE  /\ [row EXCEPT !.status = s, !.seq = q] \in OrderRows
         /\ [row EXCEPT !.status = s, !.bound = b] \in OrderRows
         /\ [row EXCEPT !.status = s] \in OrderRows
  BY DEF OrderRows

\* The gateway, the dispatcher and the operators keep the types.
LEMMA EnvironmentTyped ==
  ASSUME TypeOK, NEW o \in Orders, Environment(o)
  PROVE  TypeOK'
  <1>1. CASE OpenCharge(o)
    BY <1>1 DEF OpenCharge, database, TypeOK, Trades
  <1>2. CASE BindDispatched(o)
    <2>1. [order[o] EXCEPT !.status = "pending_payment", !.bound = TRUE] \in OrderRows
      BY OrderRowTyped DEF TypeOK, Statuses
    <2>2. order' \in [Orders -> OrderRows]
      BY <1>2, <2>1 DEF BindDispatched, TypeOK
    <2> QED BY <1>2, <2>2 DEF BindDispatched, gateway, TypeOK
  <1>3. CASE Charge(o)
    BY <1>3 DEF Charge, database, TypeOK, Trades
  <1>4. CASE Reverse(o)
    BY <1>4 DEF Reverse, database, TypeOK, ReversalStatuses
  <1> QED BY <1>1, <1>2, <1>3, <1>4 DEF Environment

LEMMA MembershipTyped ==
  ASSUME TypeOK, NEW u \in Users, OperatorGrant(u) \/ OperatorRevoke(u)
  PROVE  TypeOK'
  BY DEF OperatorGrant, OperatorRevoke, gateway, TypeOK, MemberRows

\* A step that changes requests only.
LEMMA WorkerOnlyTyped ==
  ASSUME TypeOK, worker' \in [Workers -> WorkerStates], UNCHANGED <<gateway, database>>
  PROVE  TypeOK'
  BY DEF TypeOK, gateway, database

LEMMA CommandTyped ==
  ASSUME TypeOK, NEW k \in Keys, command[k].op # "none"
  PROVE  command[k].order \in Orders
  <1>1. command[k] \in CommandRows
    BY DEF TypeOK
  <1> QED BY <1>1 DEF CommandRows

LEMMA ArriveTyped ==
  ASSUME TypeOK, NEW w \in Workers, Arrive(w)
  PROVE  TypeOK'
  <1>0. worker \in [Workers -> WorkerStates] /\ Idle \in WorkerStates
    BY IdleTyped DEF TypeOK
  <1>1. ASSUME NEW o \in Orders, ReceiveNotification(w, o) PROVE TypeOK'
    <2> DEFINE r == [Idle EXCEPT !.pc = "query", !.op = "notify", !.order = o]
    <2>1. r \in WorkerStates
      BY DEF Idle, WorkerStates, Requested, Informed, PCs, RequestKinds
    <2> QED BY <1>0, <1>1, <2>1, BecomesTyped, WorkerOnlyTyped DEF ReceiveNotification
  <1>2. ASSUME NEW o \in Orders, LookUpRefund(w, o) PROVE TypeOK'
    <2> DEFINE r == [Idle EXCEPT !.pc = "provider", !.op = "lookup", !.order = o]
    <2>1. r \in WorkerStates
      BY DEF Idle, WorkerStates, Requested, Informed, PCs, RequestKinds
    <2> QED BY <1>0, <1>2, <2>1, BecomesTyped, WorkerOnlyTyped DEF LookUpRefund
  <1>3. ASSUME NEW u \in Users, ReadOrders(w, u) PROVE TypeOK'
    <2> DEFINE c == {o \in Orders : /\ Owner[o] = u
                                    /\ order[o].bound
                                    /\ order[o].status = "pending_payment"}
               r == [Idle EXCEPT !.pc = "query", !.op = "reconcile", !.todo = c]
    <2>1. r \in WorkerStates
      BY DEF Idle, WorkerStates, Requested, Informed, PCs, RequestKinds
    <2> QED BY <1>0, <1>3, <2>1, BecomesTyped, WorkerOnlyTyped DEF ReadOrders
  <1>4. ASSUME NEW op \in {"close", "refund"}, NEW o \in Orders, NEW k \in Keys,
               ClaimCommand(w, op, o, k)
        PROVE  TypeOK'
    <2> DEFINE r == [Idle EXCEPT !.pc = "provider", !.op = op, !.order = o, !.key = k]
    <2>1. r \in WorkerStates
      BY DEF Idle, WorkerStates, Requested, Informed, PCs, RequestKinds
    <2>2. worker' \in [Workers -> WorkerStates]
      BY <1>0, <1>4, <2>1, BecomesTyped DEF ClaimCommand
    <2>3. command' \in [Keys -> CommandRows]
      BY <1>4 DEF ClaimCommand, TypeOK, CommandRows
    <2> QED BY <1>4, <2>2, <2>3 DEF ClaimCommand, TypeOK, gateway
  <1>5. ASSUME NEW k \in Keys, ReplayClose(w, k) PROVE TypeOK'
    <2> DEFINE r == [Idle EXCEPT !.pc = "answered", !.op = "close",
                                 !.order = command[k].order, !.key = k]
    <2>0. command[k].order \in Orders
      BY <1>5, CommandTyped DEF ReplayClose
    <2>1. r \in WorkerStates
      BY <2>0 DEF Idle, WorkerStates, Requested, Informed, PCs, RequestKinds
    <2> QED BY <1>0, <1>5, <2>1, BecomesTyped, WorkerOnlyTyped DEF ReplayClose
  <1>6. ASSUME NEW k \in Keys, ReplayRefund(w, k) PROVE TypeOK'
    <2> DEFINE o == command[k].order
               r == [Idle EXCEPT !.pc = "provider", !.op = "replay", !.order = o, !.key = k,
                                 !.revoked = order[o].status = "refunded"]
    <2>0. o \in Orders
      BY <1>6, CommandTyped DEF ReplayRefund
    <2>1. r \in WorkerStates
      BY <2>0 DEF Idle, WorkerStates, Requested, Informed, PCs, RequestKinds
    <2> QED BY <1>0, <1>6, <2>1, BecomesTyped, WorkerOnlyTyped DEF ReplayRefund
  <1> QED BY <1>1, <1>2, <1>3, <1>4, <1>5, <1>6 DEF Arrive

\* What a request in flight is known to hold.
LEMMA InFlight ==
  ASSUME TypeOK, NEW w \in Workers
  PROVE  /\ worker \in [Workers -> WorkerStates]
         /\ worker[w] \in Requested
         /\ Informed(worker[w])
  BY DEF TypeOK, WorkerStates

\* A refund's answer takes the request to its next step.
LEMMA OnRefundAnswerTyped ==
  ASSUME TypeOK, NEW w \in Workers, At(w, "provider", {"refund", "replay", "lookup"}),
         NEW s \in ReversalStatuses, OnRefundAnswer(w, s)
  PROVE  worker' \in [Workers -> WorkerStates]
  <1>0. worker[w] \in Requested /\ Informed(worker[w])
    BY InFlight
  <1>1. CASE s = "succeeded" /\ worker[w].op # "replay"
    <2> DEFINE r == [worker[w] EXCEPT !.answer = s, !.kind = "refunded", !.pc = "apply"]
    <2>1. r \in WorkerStates
      <3>1. r \in Requested
        BY <1>0 DEF Requested, PCs, FactKinds
      <3>2. Informed(r)
        BY <1>0, <1>1 DEF At, Requested, Informed, FactKinds
      <3> QED BY <3>1, <3>2 DEF WorkerStates
    <2> QED BY <1>1, <2>1, InFlight, BecomesTyped DEF OnRefundAnswer
  <1>2. CASE ~(s = "succeeded" /\ worker[w].op # "replay")
    <2> DEFINE r == [worker[w] EXCEPT !.answer = s, !.kind = "refunded", !.pc = "record"]
    <2>1. r \in WorkerStates
      <3>1. r \in Requested
        BY <1>0 DEF Requested, PCs, FactKinds
      <3>2. Informed(r)
        BY <1>0 DEF At, Requested, Informed
      <3> QED BY <3>1, <3>2 DEF WorkerStates
    <2> QED BY <1>2, <2>1, InFlight, BecomesTyped DEF OnRefundAnswer
  <1> QED BY <1>1, <1>2

LEMMA ApplyTyped ==
  ASSUME TypeOK, NEW w \in Workers, Apply(w)
  PROVE  TypeOK'
  <1> DEFINE o == worker[w].order
             f == WorkerFact(w)
  <1>1. /\ worker \in [Workers -> WorkerStates] /\ o \in Orders /\ f \in Fact
        /\ worker[w].pc = "apply"
    BY InFlight DEF Apply, Informed, WorkerFact, Fact
  <1>2. facts' \subseteq Fact
    BY <1>1 DEF Apply, TypeOK
  <1>3. worker' \in [Workers -> WorkerStates]
    <2>1. CASE Return(w)
      BY <1>1, <2>1, ReturnTyped
    <2>2. CASE AfterApply(w, FALSE)
      BY <1>1, <2>2, AfterApplyTyped
    <2>3. CASE Goto(w, "commit")
      <3>1. [worker[w] EXCEPT !.pc = "commit"] \in WorkerStates
        BY <1>1, InFlight DEF WorkerStates, Requested, Informed, PCs
      <3> QED BY <1>1, <2>3, <3>1, BecomesTyped DEF Goto
    <2> QED BY <2>1, <2>2, <2>3 DEF Apply
  <1> QED BY <1>2, <1>3 DEF Apply, TypeOK, gateway

\* A refund leaves the membership of its owner in its type.
LEMMA RevokedTyped ==
  ASSUME TypeOK, NEW o \in Orders, NEW m \in MemberRows, NEW n \in Revoked(m, o)
  PROVE  n \in MemberRows
  BY DEF TypeOK, Revoked, Replacements, PaidFacts, MemberRows, Fact

LEMMA CommitTyped ==
  ASSUME TypeOK, NEW w \in Workers, Commit(w)
  PROVE  TypeOK'
  <1> DEFINE o == worker[w].order
             f == WorkerFact(w)
             m == member[Owner[o]]
  <1>1. /\ worker \in [Workers -> WorkerStates] /\ o \in Orders /\ f \in Fact
        /\ f.kind \in FactKinds /\ worker[w].pc = "commit" /\ f.order = o
    BY InFlight DEF Commit, Informed, WorkerFact, Fact
  <1>2. Owner[o] \in Users /\ m \in MemberRows
    BY <1>1, OwnerAssumption DEF TypeOK
  <1>3. facts' \subseteq Fact
    BY <1>1 DEF Commit, TypeOK
  <1>4. order' \in [Orders -> OrderRows]
    <2>1. StatusOf(f.kind) \in Statuses /\ SequenceOf(f.kind) \in {0, 1, 2}
      BY <1>1 DEF StatusOf, SequenceOf, Statuses, FactKinds
    <2>2. [order[o] EXCEPT !.status = StatusOf(f.kind), !.seq = SequenceOf(f.kind)] \in OrderRows
      BY <1>1, <2>1, OrderRowTyped DEF TypeOK
    <2> QED BY <1>1, <2>2 DEF Commit, TypeOK
  <1>5. CASE StatusOf(f.kind) = "paid" /\ member' = [member EXCEPT ![Owner[o]] = Granted(m, f)]
             /\ events' = events \cup GrantEvents(m, f) /\ AfterApply(w, FALSE)
    <2>1. Granted(m, f) \in MemberRows
      BY <1>1, <1>2 DEF Granted, MemberRows
    <2>2. GrantEvents(m, f) \subseteq EventRows
      BY <1>1 DEF GrantEvents, EventRows
    <2>3. worker' \in [Workers -> WorkerStates]
      BY <1>1, <1>5, AfterApplyTyped
    <2> QED BY <1>3, <1>4, <1>5, <2>1, <2>2, <2>3 DEF TypeOK, Commit, gateway
  <1>6. CASE /\ StatusOf(f.kind) = "refunded"
             /\ \E n \in Revoked(m, o) : member' = [member EXCEPT ![Owner[o]] = n]
             /\ events' = events \cup RevokeEvents(m, f)
             /\ AfterApply(w, RevokeEvents(m, f) # {})
    <2>1. member' \in [Users -> MemberRows]
      BY <1>1, <1>2, <1>6, RevokedTyped DEF TypeOK
    <2>2. RevokeEvents(m, f) \subseteq EventRows
      BY <1>1 DEF RevokeEvents, EventRows
    <2>3. worker' \in [Workers -> WorkerStates]
      BY <1>1, <1>6, AfterApplyTyped
    <2> QED BY <1>3, <1>4, <1>6, <2>1, <2>2, <2>3 DEF TypeOK, Commit, gateway
  <1>7. CASE StatusOf(f.kind) = "closed" /\ AfterApply(w, FALSE) /\ UNCHANGED <<member, events>>
    <2>1. worker' \in [Workers -> WorkerStates]
      BY <1>1, <1>7, AfterApplyTyped
    <2> QED BY <1>3, <1>4, <1>7, <2>1 DEF TypeOK, Commit, gateway
  <1> QED BY <1>1, <1>5, <1>6, <1>7 DEF Commit, WorkerFact

LEMMA PendingAndClosed == {"pending_payment", "closed"} \subseteq Statuses
  BY DEF Statuses

LEMMA ProceedTyped ==
  ASSUME TypeOK, NEW w \in Workers, Proceed(w)
  PROVE  TypeOK'
  <1> DEFINE o == worker[w].order
  <1>0. /\ worker \in [Workers -> WorkerStates]
        /\ worker[w] \in Requested
        /\ Informed(worker[w])
    BY InFlight
  <1>1. CASE CorrelateNotification(w)
    <2>1. [worker[w] EXCEPT !.pc = "recover", !.kind = "notified_paid"] \in WorkerStates
      BY <1>0, <1>1 DEF CorrelateNotification, At, WorkerStates, Requested, Informed, PCs, FactKinds
    <2>2. worker' \in [Workers -> WorkerStates]
      BY <1>0, <1>1, <2>1, BecomesTyped, ReturnTyped DEF CorrelateNotification
    <2> QED BY <1>1, <2>2, WorkerOnlyTyped DEF CorrelateNotification
  <1>2. CASE RecoverOrder(w)
    <2>1. [worker[w] EXCEPT !.pc = "apply"] \in WorkerStates
      BY <1>0, <1>2 DEF RecoverOrder, At, WorkerStates, Requested, Informed, PCs
    <2>2. worker' \in [Workers -> WorkerStates]
      BY <1>0, <1>2, <2>1, BecomesTyped, ReturnTyped DEF RecoverOrder, Goto
    <2>3. order' \in [Orders -> OrderRows]
      <3>1. o \in Orders
        BY <1>0, <1>2 DEF RecoverOrder, At, Informed
      <3>2. [order[o] EXCEPT !.status = "pending_payment", !.bound = TRUE] \in OrderRows
        BY <3>1, PendingAndClosed, OrderRowTyped DEF TypeOK
      <3> QED BY <1>2, <3>1, <3>2 DEF RecoverOrder, TypeOK
    <2> QED BY <1>2, <2>2, <2>3 DEF RecoverOrder, TypeOK, gateway
  <1>3. CASE OrdersRead(w)
    BY <1>0, <1>3, ReturnTyped, WorkerOnlyTyped DEF OrdersRead
  <1>4. ASSUME NEW p \in Orders, QueryCandidate(w, p) PROVE TypeOK'
    <2> DEFINE next == [worker[w] EXCEPT !.todo = worker[w].todo \ {p}]
    <2>1. next \in WorkerStates
      BY <1>0, <1>4 DEF QueryCandidate, At, WorkerStates, Requested, Informed, PCs
    <2>2. ASSUME NEW k \in {"queried_paid", "queried_closed"}
          PROVE  [next EXCEPT !.pc = "apply", !.order = p, !.kind = k] \in WorkerStates
      <3> DEFINE r == [next EXCEPT !.pc = "apply", !.order = p, !.kind = k]
      <3>1. r \in Requested
        BY <2>1 DEF WorkerStates, Requested, PCs, FactKinds
      <3>2. Informed(r)
        BY <1>0, <1>4 DEF QueryCandidate, At, Requested, Informed, FactKinds
      <3> QED BY <3>1, <3>2 DEF WorkerStates
    <2>3. worker' \in [Workers -> WorkerStates]
      BY <1>0, <1>4, <2>1, <2>2, BecomesTyped DEF QueryCandidate
    <2> QED BY <1>4, <2>3, WorkerOnlyTyped DEF QueryCandidate
  <1>5. CASE Apply(w)
    BY <1>5, ApplyTyped
  <1>6. CASE Commit(w)
    BY <1>6, CommitTyped
  <1>7. CASE ProviderClose(w)
    <2>1. [worker[w] EXCEPT !.pc = "settle"] \in WorkerStates
      BY <1>0, <1>7 DEF ProviderClose, At, WorkerStates, Requested, Informed, PCs
    <2>2. worker' \in [Workers -> WorkerStates]
      BY <1>0, <1>7, <2>1, BecomesTyped, ReturnTyped DEF ProviderClose, Goto
    <2>3. trade' \in [Orders -> Trades]
      BY <1>7 DEF ProviderClose, TypeOK, Trades
    <2> QED BY <1>7, <2>2, <2>3 DEF ProviderClose, TypeOK, database
  <1>8. CASE SettleClose(w)
    <2>1. [worker[w] EXCEPT !.pc = "finish"] \in WorkerStates
      BY <1>0, <1>8 DEF SettleClose, At, WorkerStates, Requested, Informed, PCs
    <2>2. worker' \in [Workers -> WorkerStates]
      BY <1>0, <1>8, <2>1, BecomesTyped, ReturnTyped DEF SettleClose, Goto
    <2>3. order' \in [Orders -> OrderRows]
      <3>1. o \in Orders
        BY <1>0, <1>8 DEF SettleClose, At, Informed
      <3>2. [order[o] EXCEPT !.status = "closed"] \in OrderRows
        BY <3>1, PendingAndClosed, OrderRowTyped DEF TypeOK
      <3> QED BY <1>8, <3>1, <3>2 DEF SettleClose, TypeOK
    <2> QED BY <1>8, <2>2, <2>3 DEF SettleClose, TypeOK, gateway
  <1>9. CASE ProviderRefund(w)
    <2>1. worker' \in [Workers -> WorkerStates]
      BY <1>0, <1>9, OnRefundAnswerTyped, ReturnTyped DEF ProviderRefund, At
    <2>2. trade' \in [Orders -> Trades] /\ reversal' \in [Orders -> {"none"} \cup ReversalStatuses]
      BY <1>9 DEF ProviderRefund, TypeOK, Trades, gateway
    <2> QED BY <1>9, <2>1, <2>2 DEF ProviderRefund, TypeOK, database
  <1>10. CASE ProviderQueryRefund(w)
    <2>1. o \in Orders
      BY <1>0, <1>10 DEF ProviderQueryRefund, At, Informed
    <2>2. reversal[o] \in {"none"} \cup ReversalStatuses
      BY <2>1 DEF TypeOK
    <2>3. worker' \in [Workers -> WorkerStates]
      BY <1>0, <1>10, <2>2, OnRefundAnswerTyped, ReturnTyped DEF ProviderQueryRefund, At
    <2> QED BY <1>10, <2>3, WorkerOnlyTyped DEF ProviderQueryRefund
  <1>11. CASE RecordRefund(w)
    <2>1. /\ worker[w].op # "lookup" => [worker[w] EXCEPT !.pc = "finish"] \in WorkerStates
          /\ worker[w].answer \in ReversalStatuses
      BY <1>0, <1>11 DEF RecordRefund, WorkerStates, Requested, Informed, PCs
    <2>2. worker' \in [Workers -> WorkerStates]
      BY <1>0, <1>11, <2>1, BecomesTyped, ReturnTyped DEF RecordRefund, Goto
    <2>3. worker[w].revoked \in BOOLEAN
      BY <1>0 DEF Requested
    <2>4. refund' \in [Orders -> RefundRows]
      BY <1>11, <2>1, <2>3 DEF RecordRefund, TypeOK, RefundRows
    <2> QED BY <1>11, <2>2, <2>4 DEF RecordRefund, TypeOK, gateway
  <1>12. CASE FinishCommand(w)
    <2>1. /\ [worker[w] EXCEPT !.pc = "answered"] \in WorkerStates
          /\ worker[w].key \in Keys
      BY <1>0, <1>12 DEF FinishCommand, WorkerStates, Requested, Informed, PCs
    <2>2. worker' \in [Workers -> WorkerStates]
      BY <1>0, <1>12, <2>1, BecomesTyped, ReturnTyped DEF FinishCommand, Goto
    <2>3. command' \in [Keys -> CommandRows]
      <3>0. command[worker[w].key] \in CommandRows
        BY <2>1 DEF TypeOK
      <3>1. [command[worker[w].key] EXCEPT !.stored = TRUE] \in CommandRows
        BY <3>0 DEF CommandRows
      <3> QED BY <1>12, <2>1, <3>1 DEF FinishCommand, TypeOK
    <2> QED BY <1>12, <2>2, <2>3 DEF FinishCommand, TypeOK, gateway
  <1>13. CASE CloseAnswered(w)
    BY <1>0, <1>13, ReturnTyped, WorkerOnlyTyped DEF CloseAnswered
  <1> QED BY <1>1, <1>2, <1>3, <1>4, <1>5, <1>6, <1>7, <1>8, <1>9, <1>10, <1>11, <1>12, <1>13
          DEF Proceed

LEMMA InterruptTyped ==
  ASSUME TypeOK, NEW w \in Workers, Abandon(w) \/ Release(w)
  PROVE  TypeOK'
  <1>1. [Idle EXCEPT !.pc = "lost"] \in WorkerStates
    BY DEF Idle, WorkerStates, Requested, Informed, PCs, RequestKinds
  <1>2. worker' \in [Workers -> WorkerStates]
    BY <1>1, InFlight, BecomesTyped, ReturnTyped DEF Abandon, Release
  <1> QED BY <1>2, WorkerOnlyTyped DEF Abandon, Release

LEMMA NextTyped ==
  ASSUME TypeOK, [Next]_vars
  PROVE  TypeOK'
  <1>1. CASE UNCHANGED vars
    BY <1>1 DEF vars, gateway, database, TypeOK
  <1> QED BY <1>1, EnvironmentTyped, MembershipTyped, ArriveTyped, ProceedTyped, InterruptTyped
          DEF Next

\* The state of the kernel always has its type, and every request knows what
\* the steps it has taken told it.
THEOREM TypeCorrect == Spec => []TypeOK
  BY InitTyped, NextTyped, PTL DEF Spec

-----------------------------------------------------------------------------
(* The inductive invariant.                                                *)

\* The order's row lock is held by one application at a time.
OneCommit ==
  \A v, w \in Workers :
    worker[v].pc = "commit" /\ worker[w].pc = "commit" /\ worker[v].order = worker[w].order
      => v = w

\* What Apply checked under the lock still holds when Commit runs.
CommitPending ==
  \A w \in Workers :
    worker[w].pc = "commit" =>
      LET o == worker[w].order
      IN /\ order[o].bound
         /\ WorkerFact(w) \notin facts
         /\ TransitionAllowed(order[o].status, StatusOf(worker[w].kind))

BoundLeftCreated == \A o \in Orders : order[o].bound => order[o].status # "created"

\* A replacement can be found for every paid order: its fact is stored.
PaidHasFact ==
  \A o \in Orders : order[o].status = "paid" => \E f \in PaidFacts : f.order = o

EventsStored == \A e \in events : e.fact \in facts

FreeSources ==
  \A u \in Users :
    member[u].plan = "free"
      <=> member[u].source \in {"initial", "operator_revocation", "payment_refund"}

IInv ==
  /\ TypeOK
  /\ OneCommit
  /\ CommitPending
  /\ BoundLeftCreated
  /\ PaidHasFact
  /\ EventsStored
  /\ FreeSources
  /\ PaidBacked
  /\ NoLostEntitlement

-----------------------------------------------------------------------------
(* What a step leaves alone.                                               *)

\* A step that touches no order, fact or membership and takes no lock.
Quiet ==
  /\ UNCHANGED <<order, facts, member, events>>
  /\ \A w \in Workers : worker'[w].pc = "commit" => worker'[w] = worker[w]

\* A step of request w that does not take a lock.
Lockless(w) ==
  /\ \A v \in Workers \ {w} : worker'[v] = worker[v]
  /\ worker'[w].pc # "commit"

LEMMA BecomesLockless ==
  ASSUME TypeOK, NEW w \in Workers, NEW r, r.pc # "commit", Becomes(w, r)
  PROVE  Lockless(w)
  BY DEF Becomes, Lockless, TypeOK

LEMMA ReturnLockless ==
  ASSUME TypeOK, NEW w \in Workers, Return(w)
  PROVE  Lockless(w)
  BY BecomesLockless DEF Return, Idle

LEMMA GotoLockless ==
  ASSUME TypeOK, NEW w \in Workers, NEW pc, pc # "commit", Goto(w, pc)
  PROVE  Lockless(w)
  BY InFlight, BecomesLockless DEF Goto, Requested

LEMMA AfterApplyLockless ==
  ASSUME TypeOK, NEW w \in Workers, NEW b, AfterApply(w, b)
  PROVE  Lockless(w)
  BY InFlight, ReturnLockless, BecomesLockless DEF AfterApply, Requested

LEMMA LocklessQuiet ==
  ASSUME NEW w \in Workers, Lockless(w), UNCHANGED <<order, facts, member, events>>
  PROVE  Quiet
  BY DEF Lockless, Quiet

LEMMA EnvironmentQuiet ==
  ASSUME NEW o \in Orders, Environment(o)
  PROVE  Quiet \/ BindDispatched(o)
  BY DEF Environment, OpenCharge, Charge, Reverse, Quiet, database

LEMMA ArriveQuiet ==
  ASSUME TypeOK, NEW w \in Workers, Arrive(w)
  PROVE  Quiet
  BY BecomesLockless, LocklessQuiet
     DEF Arrive, ReceiveNotification, LookUpRefund, ReadOrders, ClaimCommand, ReplayClose,
         ReplayRefund, database, Idle

LEMMA OnRefundAnswerLockless ==
  ASSUME TypeOK, NEW w \in Workers, NEW s, OnRefundAnswer(w, s)
  PROVE  Lockless(w)
  BY InFlight, BecomesLockless DEF OnRefundAnswer, Requested

LEMMA ProceedQuiet ==
  ASSUME TypeOK, NEW w \in Workers, Proceed(w)
  PROVE  Quiet \/ RecoverOrder(w) \/ SettleClose(w) \/ Apply(w) \/ Commit(w)
  <1>1. CASE CorrelateNotification(w) \/ OrdersRead(w) \/ CloseAnswered(w)
    <2>1. Lockless(w)
      BY <1>1, InFlight, BecomesLockless, ReturnLockless
         DEF CorrelateNotification, OrdersRead, CloseAnswered, Requested
    <2> QED BY <1>1, <2>1, LocklessQuiet
            DEF CorrelateNotification, OrdersRead, CloseAnswered, database
  <1>2. ASSUME NEW o \in Orders, QueryCandidate(w, o) PROVE Quiet
    <2>1. Lockless(w)
      BY <1>2, InFlight, BecomesLockless DEF QueryCandidate, Requested, At
    <2> QED BY <1>2, <2>1, LocklessQuiet DEF QueryCandidate, database
  <1>3. CASE ProviderClose(w) \/ RecordRefund(w) \/ FinishCommand(w)
    <2>1. Lockless(w)
      BY <1>3, GotoLockless, ReturnLockless DEF ProviderClose, RecordRefund, FinishCommand
    <2> QED BY <1>3, <2>1, LocklessQuiet DEF ProviderClose, RecordRefund, FinishCommand, database
  <1>4. CASE ProviderRefund(w) \/ ProviderQueryRefund(w)
    <2>1. Lockless(w)
      BY <1>4, OnRefundAnswerLockless, ReturnLockless DEF ProviderRefund, ProviderQueryRefund
    <2> QED BY <1>4, <2>1, LocklessQuiet DEF ProviderRefund, ProviderQueryRefund, database
  <1> QED BY <1>1, <1>2, <1>3, <1>4 DEF Proceed

LEMMA InterruptQuiet ==
  ASSUME TypeOK, NEW w \in Workers, Abandon(w) \/ Release(w)
  PROVE  Quiet
  BY BecomesLockless, ReturnLockless, LocklessQuiet DEF Abandon, Release, database, Idle

\* Every step is one of those that write orders, facts or memberships, or quiet.
LEMMA Steps ==
  ASSUME TypeOK, [Next]_vars
  PROVE  \/ Quiet
         \/ \E o \in Orders : BindDispatched(o)
         \/ \E u \in Users : OperatorGrant(u) \/ OperatorRevoke(u)
         \/ \E w \in Workers : RecoverOrder(w) \/ SettleClose(w) \/ Apply(w) \/ Commit(w)
  <1>1. CASE UNCHANGED vars
    BY <1>1 DEF vars, database, Quiet
  <1> QED BY <1>1, EnvironmentQuiet, ArriveQuiet, ProceedQuiet, InterruptQuiet DEF Next

-----------------------------------------------------------------------------
(* The lock.                                                               *)

LEMMA WritersLockless ==
  ASSUME TypeOK, NEW w \in Workers,
         \/ RecoverOrder(w) \/ SettleClose(w) \/ Commit(w)
         \/ Apply(w) /\ worker'[w].pc # "commit"
  PROVE  Lockless(w)
  <1>1. CASE RecoverOrder(w) \/ SettleClose(w) \/ Commit(w)
    BY <1>1, GotoLockless, ReturnLockless, AfterApplyLockless DEF RecoverOrder, SettleClose, Commit
  <1>2. CASE Apply(w) /\ worker'[w].pc # "commit"
    <2>1. CASE Goto(w, "commit")
      BY <1>2, <2>1, InFlight DEF Goto, Becomes, Requested
    <2> QED BY <1>2, <2>1, ReturnLockless, AfterApplyLockless DEF Apply
  <1> QED BY <1>1, <1>2

\* A request that takes the lock found nobody else holding it, and its order
\* bound, its fact new and its transition allowed.
LEMMA ApplyLocks ==
  ASSUME TypeOK, NEW w \in Workers, Apply(w), worker'[w].pc = "commit"
  PROVE  /\ worker' = [worker EXCEPT ![w] = [worker[w] EXCEPT !.pc = "commit"]]
         /\ Unlocked(worker[w].order)
         /\ order[worker[w].order].bound
         /\ WorkerFact(w) \notin facts
         /\ TransitionAllowed(order[worker[w].order].status, StatusOf(worker[w].kind))
         /\ UNCHANGED <<order, facts, member, events>>
  <1>1. ~Lockless(w)
    BY DEF Lockless
  <1>2. ~Return(w) /\ ~AfterApply(w, FALSE)
    BY <1>1, ReturnLockless, AfterApplyLockless
  <1> QED BY <1>2 DEF Apply, Goto, Becomes, WorkerFact

\* No two requests hold the lock of one order.
LEMMA OneCommitStep ==
  ASSUME IInv, [Next]_vars
  PROVE  OneCommit'
  <1>0. TypeOK /\ OneCommit
    BY DEF IInv
  <1>1. CASE Quiet
    BY <1>0, <1>1 DEF Quiet, OneCommit
  <1>2. CASE \E o \in Orders : BindDispatched(o)
    BY <1>0, <1>2 DEF BindDispatched, OneCommit
  <1>3. CASE \E u \in Users : OperatorGrant(u) \/ OperatorRevoke(u)
    BY <1>0, <1>3 DEF OperatorGrant, OperatorRevoke, OneCommit
  <1>4. ASSUME NEW w \in Workers, Lockless(w) PROVE OneCommit'
    BY <1>0, <1>4 DEF Lockless, OneCommit
  <1>5. ASSUME NEW w \in Workers, Apply(w), worker'[w].pc = "commit" PROVE OneCommit'
    <2>1. /\ worker' = [worker EXCEPT ![w] = [worker[w] EXCEPT !.pc = "commit"]]
          /\ Unlocked(worker[w].order)
      BY <1>0, <1>5, ApplyLocks
    <2>2. worker'[w].order = worker[w].order /\ \A v \in Workers \ {w} : worker'[v] = worker[v]
      BY <1>0, <2>1, InFlight DEF Requested
    <2> QED BY <1>0, <2>1, <2>2 DEF OneCommit, Unlocked
  <1> QED BY <1>0, <1>1, <1>2, <1>3, <1>4, <1>5, Steps, WritersLockless

\* A request that holds its order's lock through a step of another keeps what
\* it checked when it took it.
LEMMA HeldThrough ==
  ASSUME TypeOK, CommitPending, NEW v \in Workers,
         worker[v].pc = "commit", worker'[v] = worker[v],
         order'[worker[v].order] = order[worker[v].order],
         WorkerFact(v) \in facts' => WorkerFact(v) \in facts
  PROVE  /\ order'[worker'[v].order].bound
         /\ WorkerFact(v)' \notin facts'
         /\ TransitionAllowed(order'[worker'[v].order].status, StatusOf(worker'[v].kind))
  BY DEF CommitPending, WorkerFact

\* Nobody changes an order, or stores its fact, while another holds its lock.
LEMMA CommitPendingStep ==
  ASSUME IInv, [Next]_vars
  PROVE  CommitPending'
  <1>0. TypeOK /\ OneCommit /\ CommitPending /\ BoundLeftCreated
    BY DEF IInv
  <1>h. \A x \in Workers : worker[x].pc = "commit" => worker[x].order \in Orders
    BY <1>0, InFlight DEF Informed
  <1> SUFFICES ASSUME NEW v \in Workers, worker'[v].pc = "commit"
               PROVE  /\ order'[worker'[v].order].bound
                      /\ WorkerFact(v)' \notin facts'
                      /\ TransitionAllowed(order'[worker'[v].order].status, StatusOf(worker'[v].kind))
    BY DEF CommitPending, WorkerFact
  <1>1. CASE Quiet
    BY <1>0, <1>1, HeldThrough DEF Quiet
  <1>2. ASSUME NEW o \in Orders, BindDispatched(o)
        PROVE  worker'[v] = worker[v] /\ order'[worker[v].order] = order[worker[v].order] /\ facts' = facts
    <2>1. worker' = worker /\ order[worker[v].order].bound
      BY <1>0, <1>2 DEF BindDispatched, CommitPending
    <2>2. worker[v].order # o
      BY <1>2, <2>1, <1>0 DEF BindDispatched, BoundLeftCreated
    <2>3. worker[v].pc = "commit" /\ worker[v].order \in Orders
      BY <1>h, <2>1
    <2> QED BY <1>0, <1>2, <2>1, <2>2, <2>3 DEF BindDispatched, TypeOK
  <1>3. CASE \E u \in Users : OperatorGrant(u) \/ OperatorRevoke(u)
    BY <1>0, <1>3, HeldThrough DEF OperatorGrant, OperatorRevoke
  <1>4. ASSUME NEW w \in Workers, Lockless(w),
               RecoverOrder(w) \/ SettleClose(w) \/ Apply(w) \/ Commit(w)
        PROVE  /\ worker'[v] = worker[v]
               /\ order'[worker[v].order] = order[worker[v].order]
               /\ WorkerFact(v) \in facts' => WorkerFact(v) \in facts
    <2>1. v # w /\ worker'[v] = worker[v] /\ worker[v].pc = "commit"
      BY <1>4 DEF Lockless
    <2>2. order[worker[v].order].bound /\ worker[v].order \in Orders
      BY <1>0, <1>h, <2>1 DEF CommitPending
    <2>3. CASE RecoverOrder(w)
      BY <1>0, <2>1, <2>2, <2>3 DEF RecoverOrder, TypeOK
    <2>4. CASE SettleClose(w)
      <3>1. worker[w].order # worker[v].order
        BY <2>1, <2>4 DEF SettleClose, Unlocked
      <3> QED BY <1>0, <2>1, <2>2, <2>4, <3>1 DEF SettleClose, TypeOK
    <2>5. CASE Apply(w)
      <3>1. worker[w].order # worker[v].order
        BY <2>1, <2>5 DEF Apply, Unlocked
      <3> QED BY <2>1, <2>5, <3>1 DEF Apply, WorkerFact
    <2>6. CASE Commit(w)
      <3>1. worker[w].order # worker[v].order
        BY <1>0, <2>1, <2>6 DEF Commit, OneCommit
      <3> QED BY <1>0, <2>1, <2>2, <2>6, <3>1 DEF Commit, WorkerFact, TypeOK
    <2> QED BY <1>4, <2>1, <2>3, <2>4, <2>5, <2>6
  <1>5. ASSUME NEW w \in Workers, Apply(w), worker'[w].pc = "commit"
        PROVE  CommitPending'
    <2>1. /\ worker' = [worker EXCEPT ![w] = [worker[w] EXCEPT !.pc = "commit"]]
          /\ order[worker[w].order].bound
          /\ WorkerFact(w) \notin facts
          /\ TransitionAllowed(order[worker[w].order].status, StatusOf(worker[w].kind))
          /\ UNCHANGED <<order, facts, member, events>>
      BY <1>0, <1>5, ApplyLocks
    <2>2. /\ worker'[w].order = worker[w].order /\ worker'[w].kind = worker[w].kind
          /\ \A x \in Workers \ {w} : worker'[x] = worker[x]
      BY <1>0, <2>1, InFlight DEF Requested
    <2> QED BY <1>0, <2>1, <2>2 DEF CommitPending, WorkerFact
  <1> QED BY <1>0, <1>1, <1>2, <1>3, <1>4, <1>5, Steps, WritersLockless, HeldThrough
          DEF CommitPending, WorkerFact, Lockless, BindDispatched

LEMMA BoundLeftCreatedStep ==
  ASSUME IInv, [Next]_vars
  PROVE  BoundLeftCreated'
  <1>0. TypeOK /\ BoundLeftCreated
    BY DEF IInv
  <1>1. CASE Quiet
    BY <1>0, <1>1 DEF Quiet, BoundLeftCreated
  <1>2. ASSUME NEW o \in Orders, BindDispatched(o) PROVE BoundLeftCreated'
    BY <1>0, <1>2 DEF BindDispatched, BoundLeftCreated, TypeOK, OrderRows
  <1>3. CASE \E u \in Users : OperatorGrant(u) \/ OperatorRevoke(u)
    BY <1>0, <1>3 DEF OperatorGrant, OperatorRevoke, BoundLeftCreated
  <1>4. ASSUME NEW w \in Workers, RecoverOrder(w) PROVE BoundLeftCreated'
    BY <1>0, <1>4 DEF RecoverOrder, BoundLeftCreated, TypeOK, OrderRows
  <1>5. ASSUME NEW w \in Workers, SettleClose(w) PROVE BoundLeftCreated'
    BY <1>0, <1>5 DEF SettleClose, BoundLeftCreated, TypeOK, OrderRows
  <1>6. ASSUME NEW w \in Workers, Apply(w) PROVE BoundLeftCreated'
    BY <1>0, <1>6 DEF Apply, BoundLeftCreated
  <1>7. ASSUME NEW w \in Workers, Commit(w) PROVE BoundLeftCreated'
    <2>1. StatusOf(worker[w].kind) # "created"
      BY DEF StatusOf
    <2> QED BY <1>0, <1>7, <2>1 DEF Commit, BoundLeftCreated, TypeOK, OrderRows, WorkerFact
  <1> QED BY <1>0, <1>1, <1>2, <1>3, <1>4, <1>5, <1>6, <1>7, Steps

-----------------------------------------------------------------------------
(* The membership.                                                         *)

\* A step that changes no membership and no payment, and forgets no fact.
NoMoney ==
  /\ UNCHANGED <<member, events>>
  /\ facts \subseteq facts'
  /\ \A o \in Orders : order'[o].status = "paid" <=> order[o].status = "paid"

\* The conjuncts of IInv that speak of memberships.
MemberInv == PaidHasFact /\ EventsStored /\ FreeSources /\ PaidBacked /\ NoLostEntitlement

LEMMA NoMoneySteps ==
  ASSUME IInv, [Next]_vars
  PROVE  \/ NoMoney
         \/ \E u \in Users : OperatorGrant(u) \/ OperatorRevoke(u)
         \/ \E w \in Workers : Commit(w)
  <1>0. TypeOK
    BY DEF IInv
  <1>1. CASE Quiet
    BY <1>1 DEF Quiet, NoMoney
  <1>2. ASSUME NEW o \in Orders, BindDispatched(o) PROVE NoMoney
    BY <1>0, <1>2 DEF BindDispatched, NoMoney, TypeOK, OrderRows
  <1>3. ASSUME NEW w \in Workers, RecoverOrder(w) PROVE NoMoney
    <2>1. UNCHANGED <<member, events, facts>>
      BY <1>3 DEF RecoverOrder
    <2>2. ASSUME NEW o \in Orders PROVE order'[o].status = "paid" <=> order[o].status = "paid"
      BY <1>0, <1>3 DEF RecoverOrder, TypeOK, OrderRows
    <2> QED BY <2>1, <2>2 DEF NoMoney
  <1>4. ASSUME NEW w \in Workers, SettleClose(w) PROVE NoMoney
    <2>1. UNCHANGED <<member, events, facts>>
      BY <1>4 DEF SettleClose
    <2>2. ASSUME NEW o \in Orders PROVE order'[o].status = "paid" <=> order[o].status = "paid"
      BY <1>0, <1>4 DEF SettleClose, TypeOK, OrderRows, TransitionAllowed
    <2> QED BY <2>1, <2>2 DEF NoMoney
  <1>5. ASSUME NEW w \in Workers, Apply(w) PROVE NoMoney
    BY <1>5 DEF Apply, NoMoney
  <1> QED BY <1>0, <1>1, <1>2, <1>3, <1>4, <1>5, Steps

LEMMA NoMoneyKeeps ==
  ASSUME TypeOK, MemberInv, NoMoney
  PROVE  MemberInv'
  <1>0. PaidFacts \subseteq PaidFacts'
    BY DEF NoMoney, PaidFacts
  <1>1. PaidHasFact'
    BY <1>0 DEF MemberInv, PaidHasFact, NoMoney
  <1>2. EventsStored'
    BY DEF MemberInv, EventsStored, NoMoney
  <1>3. FreeSources'
    BY DEF MemberInv, FreeSources, NoMoney
  <1>4. PaidBacked'
    BY <1>0 DEF MemberInv, PaidBacked, NoMoney, PaidFacts, TypeOK, Fact
  <1>5. NoLostEntitlement'
    BY DEF MemberInv, NoLostEntitlement, NoMoney
  <1> QED BY <1>1, <1>2, <1>3, <1>4, <1>5 DEF MemberInv

LEMMA OperatorKeeps ==
  ASSUME TypeOK, MemberInv, NEW u \in Users, OperatorGrant(u) \/ OperatorRevoke(u)
  PROVE  MemberInv'
  <1>0. UNCHANGED <<order, facts, events>>
    BY DEF OperatorGrant, OperatorRevoke
  <1>1. /\ \A v \in Users \ {u} : member'[v] = member[v]
        /\ \/ member'[u].plan = "lifetime" /\ member'[u].source = "operator_grant"
           \/ member'[u].plan = "free" /\ member'[u].source = "operator_revocation"
    <2>1. member \in [Users -> MemberRows]
      BY DEF TypeOK
    <2>2. CASE OperatorGrant(u)
      BY <2>1, <2>2 DEF OperatorGrant
    <2>3. CASE OperatorRevoke(u)
      BY <2>1, <2>3 DEF OperatorRevoke
    <2> QED BY <2>2, <2>3
  <1>2. PaidFacts' = PaidFacts
    BY <1>0 DEF PaidFacts
  <1>3. PaidHasFact' /\ EventsStored'
    BY <1>0, <1>2 DEF MemberInv, PaidHasFact, EventsStored
  <1>4. FreeSources'
    BY <1>1 DEF MemberInv, FreeSources
  <1>5. PaidBacked'
    BY <1>0, <1>1, <1>2 DEF MemberInv, PaidBacked
  <1>6. NoLostEntitlement'
    BY <1>0, <1>1, OwnerAssumption DEF MemberInv, NoLostEntitlement
  <1> QED BY <1>3, <1>4, <1>5, <1>6 DEF MemberInv

\* What every commit does to its order and to the facts.
LEMMA CommitWrites ==
  ASSUME TypeOK, CommitPending, NEW w \in Workers, Commit(w),
         NEW o, o = worker[w].order, NEW f, f = WorkerFact(w)
  PROVE  /\ o \in Orders /\ f \in Fact /\ f.order = o /\ f.kind = worker[w].kind
         /\ facts' = facts \cup {f} /\ f \notin facts
         /\ order'[o].status = StatusOf(f.kind)
         /\ \A p \in Orders \ {o} : order'[p] = order[p]
         /\ TransitionAllowed(order[o].status, StatusOf(f.kind))
         /\ Owner[o] \in Users /\ member[Owner[o]] \in MemberRows
  <1>1. o \in Orders /\ f \in Fact /\ f.order = o /\ f.kind = worker[w].kind
    BY InFlight DEF Commit, Informed, WorkerFact, Fact
  <1>2. f \notin facts /\ TransitionAllowed(order[o].status, StatusOf(f.kind))
    BY <1>1 DEF Commit, CommitPending
  <1>3. /\ facts' = facts \cup {f}
        /\ order' = [order EXCEPT ![o].status = StatusOf(f.kind), ![o].seq = SequenceOf(f.kind)]
    BY DEF Commit
  <1>4. /\ order'[o].status = StatusOf(f.kind)
        /\ \A p \in Orders \ {o} : order'[p] = order[p]
    BY <1>1, <1>3 DEF TypeOK, OrderRows
  <1> QED BY <1>1, <1>2, <1>3, <1>4, OwnerAssumption DEF TypeOK

\* A commit of a fact that says "paid".
LEMMA PaidCommitKeeps ==
  ASSUME TypeOK, CommitPending, MemberInv, NEW w \in Workers, Commit(w),
         StatusOf(worker[w].kind) = "paid"
  PROVE  MemberInv'
  <1> DEFINE o == worker[w].order
             f == WorkerFact(w)
             u == Owner[o]
             m == member[u]
  <1>1. /\ o \in Orders /\ f \in Fact /\ f.order = o /\ f.kind = worker[w].kind
        /\ facts' = facts \cup {f} /\ f \notin facts
        /\ order'[o].status = "paid"
        /\ \A p \in Orders \ {o} : order'[p] = order[p]
        /\ u \in Users /\ m \in MemberRows
    BY CommitWrites
  <1>2. /\ member' = [member EXCEPT ![u] = Granted(m, f)]
        /\ events' = events \cup GrantEvents(m, f)
    BY <1>1 DEF Commit
  <1>3. member'[u] = Granted(m, f) /\ \A v \in Users \ {u} : member'[v] = member[v]
    BY <1>1, <1>2 DEF TypeOK
  <1>4. PaidFacts' = PaidFacts \cup {f}
    BY <1>1 DEF PaidFacts
  <1>5. PaidHasFact'
    BY <1>1, <1>4 DEF MemberInv, PaidHasFact
  <1>6. EventsStored'
    BY <1>1, <1>2 DEF MemberInv, EventsStored, GrantEvents
  <1>7. FreeSources'
    BY <1>1, <1>3 DEF MemberInv, FreeSources, Granted, MemberRows
  <1>8. PaidBacked'
    <2> SUFFICES ASSUME NEW v \in Users, member'[v].source = "payment"
                 PROVE  /\ member'[v].plan = "lifetime"
                        /\ member'[v].fact \in PaidFacts'
                        /\ Owner[member'[v].fact.order] = v
                        /\ order'[member'[v].fact.order].status = "paid"
      BY DEF PaidBacked
    <2>1. CASE v = u
      <3>1. /\ Granted(m, f).source = "payment"
            /\ Granted(m, f).source = "payment"
                 => Granted(m, f).plan = "lifetime" /\ Granted(m, f).fact = f
        BY <1>1, <1>3, <2>1 DEF Granted, MemberRows
      <3> QED BY <1>1, <1>3, <1>4, <2>1, <3>1
    <2>2. CASE v # u
      <3>1. member'[v] = member[v]
        BY <1>3, <2>2
      <3>2. /\ member[v].plan = "lifetime" /\ member[v].fact \in PaidFacts
            /\ Owner[member[v].fact.order] = v
            /\ order[member[v].fact.order].status = "paid"
        BY <3>1 DEF MemberInv, PaidBacked
      <3>3. member[v].fact.order \in Orders /\ member[v].fact.order # o
        BY <2>2, <3>2 DEF PaidFacts, TypeOK, Fact
      <3> QED BY <1>1, <1>4, <3>1, <3>2, <3>3
    <2> QED BY <2>1, <2>2
  <1>9. NoLostEntitlement'
    <2> SUFFICES ASSUME NEW p \in Orders, order'[p].status = "paid"
                 PROVE  \/ member'[Owner[p]].plan = "lifetime"
                        \/ member'[Owner[p]].source = "operator_revocation"
      BY DEF NoLostEntitlement
    <2>1. CASE Owner[p] = u
      <3>1. Granted(m, f).plan = "lifetime"
        BY <1>1 DEF Granted, MemberRows
      <3> QED BY <1>3, <2>1, <3>1
    <2>2. CASE Owner[p] # u
      BY <1>1, <1>3, <2>2, OwnerAssumption DEF MemberInv, NoLostEntitlement
    <2> QED BY <2>1, <2>2
  <1> QED BY <1>5, <1>6, <1>7, <1>8, <1>9 DEF MemberInv

\* A commit of a fact that says "refunded".
LEMMA RefundedCommitKeeps ==
  ASSUME TypeOK, CommitPending, MemberInv, NEW w \in Workers, Commit(w),
         StatusOf(worker[w].kind) = "refunded"
  PROVE  MemberInv'
  <1> DEFINE o == worker[w].order
             f == WorkerFact(w)
             u == Owner[o]
             m == member[u]
  <1>1. /\ o \in Orders /\ f \in Fact /\ f.order = o /\ f.kind = worker[w].kind
        /\ facts' = facts \cup {f}
        /\ order'[o].status = "refunded"
        /\ \A p \in Orders \ {o} : order'[p] = order[p]
        /\ u \in Users /\ m \in MemberRows
    BY CommitWrites
  <1>2. PICK n \in Revoked(m, o) : member' = [member EXCEPT ![u] = n]
    BY <1>1 DEF Commit
  <1>3. events' = events \cup RevokeEvents(m, f)
    BY <1>1 DEF Commit
  <1>4. member'[u] = n /\ \A v \in Users \ {u} : member'[v] = member[v]
    BY <1>1, <1>2 DEF TypeOK
  <1>5. PaidFacts' = PaidFacts
    BY <1>1 DEF PaidFacts
  \* The three ways a refund can leave the membership of its owner.
  <1>6. \/ ~Backs(o, m) /\ n = m
        \/ Backs(o, m) /\ \E r \in Replacements(o) : n = [m EXCEPT !.fact = r]
        \/ /\ Backs(o, m) /\ Replacements(o) = {}
           /\ n = [plan |-> "free", source |-> "payment_refund", fact |-> NoFact]
    BY <1>2 DEF Revoked
  <1>7. PaidHasFact'
    BY <1>1, <1>5 DEF MemberInv, PaidHasFact
  <1>8. EventsStored'
    BY <1>1, <1>3 DEF MemberInv, EventsStored, RevokeEvents
  <1>9. FreeSources'
    <2>1. m.plan = "free" <=> m.source \in {"initial", "operator_revocation", "payment_refund"}
      BY <1>1 DEF MemberInv, FreeSources
    <2>2. n.plan = "free" <=> n.source \in {"initial", "operator_revocation", "payment_refund"}
      <3>1. CASE ~Backs(o, m)
        BY <1>6, <2>1, <3>1
      <3>2. CASE Backs(o, m) /\ \E r \in Replacements(o) : n = [m EXCEPT !.fact = r]
        BY <1>1, <2>1, <3>2 DEF MemberRows
      <3>3. CASE n = [plan |-> "free", source |-> "payment_refund", fact |-> NoFact]
        BY <3>3
      <3> QED BY <1>6, <3>1, <3>2, <3>3
    <2> QED BY <1>4, <2>2 DEF MemberInv, FreeSources
  <1>10. PaidBacked'
    <2> SUFFICES ASSUME NEW v \in Users, member'[v].source = "payment"
                 PROVE  /\ member'[v].plan = "lifetime"
                        /\ member'[v].fact \in PaidFacts'
                        /\ Owner[member'[v].fact.order] = v
                        /\ order'[member'[v].fact.order].status = "paid"
      BY DEF PaidBacked
    <2>1. CASE member'[v] = member[v] /\ (v = u => ~Backs(o, m))
      <3>1. /\ member[v].plan = "lifetime" /\ member[v].fact \in PaidFacts
            /\ Owner[member[v].fact.order] = v
            /\ order[member[v].fact.order].status = "paid"
        BY <2>1 DEF MemberInv, PaidBacked
      <3>2. member[v].fact.order \in Orders /\ member[v].fact.order # o
        BY <2>1, <3>1 DEF PaidFacts, TypeOK, Fact, Backs
      <3> QED BY <1>1, <1>5, <2>1, <3>1, <3>2
    <2>2. ASSUME v = u, Backs(o, m), NEW r \in Replacements(o), n = [m EXCEPT !.fact = r]
          PROVE  /\ member'[v].plan = "lifetime"
                 /\ member'[v].fact \in PaidFacts'
                 /\ Owner[member'[v].fact.order] = v
                 /\ order'[member'[v].fact.order].status = "paid"
      <3>1. /\ r \in PaidFacts /\ r.order # o /\ Owner[r.order] = u
            /\ order[r.order].status = "paid" /\ r.order \in Orders
        BY DEF Replacements, PaidFacts, TypeOK, Fact
      <3>2. member'[v].plan = "lifetime" /\ member'[v].fact = r
        BY <1>1, <1>4, <2>2 DEF Backs, MemberRows
      <3> QED BY <1>1, <1>5, <2>2, <3>1, <3>2
    <2>3. CASE v # u \/ ~Backs(o, m)
      <3>1. member'[v] = member[v]
        BY <1>4, <1>6, <2>3
      <3> QED BY <2>1, <2>3, <3>1
    <2>4. CASE v = u /\ Backs(o, m)
      <3>1. n.source = "payment"
        BY <1>4, <2>4
      <3>2. PICK r \in Replacements(o) : n = [m EXCEPT !.fact = r]
        <4>1. n # [plan |-> "free", source |-> "payment_refund", fact |-> NoFact]
          BY <3>1
        <4> QED BY <1>6, <2>4, <4>1
      <3> QED BY <2>2, <2>4, <3>2
    <2> QED BY <2>3, <2>4
  <1>11. NoLostEntitlement'
    <2> SUFFICES ASSUME NEW p \in Orders, order'[p].status = "paid"
                 PROVE  \/ member'[Owner[p]].plan = "lifetime"
                        \/ member'[Owner[p]].source = "operator_revocation"
      BY DEF NoLostEntitlement
    <2>1. p # o /\ order[p].status = "paid"
      BY <1>1
    <2>2. \/ member[Owner[p]].plan = "lifetime"
          \/ member[Owner[p]].source = "operator_revocation"
      BY <2>1 DEF MemberInv, NoLostEntitlement
    <2>3. CASE Owner[p] # u \/ ~Backs(o, m)
      BY <1>4, <1>6, <2>2, <2>3, OwnerAssumption
    <2>4. CASE Owner[p] = u /\ Backs(o, m)
      <3>1. PICK r \in PaidFacts : r.order = p
        BY <2>1 DEF MemberInv, PaidHasFact
      <3>2. r \in Replacements(o)
        BY <2>1, <2>4, <3>1 DEF Replacements
      <3> QED BY <1>1, <1>4, <1>6, <2>4, <3>2 DEF Backs, MemberRows
    <2> QED BY <2>3, <2>4
  <1> QED BY <1>7, <1>8, <1>9, <1>10, <1>11 DEF MemberInv

\* A commit of a fact that says "closed": the order was never paid.
LEMMA ClosedCommitKeeps ==
  ASSUME TypeOK, CommitPending, MemberInv, NEW w \in Workers, Commit(w),
         StatusOf(worker[w].kind) = "closed"
  PROVE  MemberInv'
  <1> DEFINE o == worker[w].order
             f == WorkerFact(w)
  <1>1. /\ o \in Orders /\ f \in Fact /\ f.order = o /\ f.kind = worker[w].kind
        /\ facts' = facts \cup {f}
        /\ order'[o].status = "closed"
        /\ \A p \in Orders \ {o} : order'[p] = order[p]
        /\ TransitionAllowed(order[o].status, "closed")
    BY CommitWrites
  <1>2. order[o].status # "paid"
    BY <1>1 DEF TransitionAllowed
  <1>3. UNCHANGED <<member, events>>
    BY <1>1 DEF Commit
  <1> QED BY <1>1, <1>2, <1>3, NoMoneyKeeps DEF NoMoney

LEMMA MemberInvStep ==
  ASSUME IInv, [Next]_vars
  PROVE  MemberInv'
  <1>1. TypeOK /\ CommitPending /\ MemberInv
    BY DEF IInv, MemberInv
  <1>2. ASSUME NEW w \in Workers, Commit(w) PROVE MemberInv'
    <2>1. StatusOf(worker[w].kind) \in {"paid", "refunded", "closed"}
      BY DEF StatusOf
    <2> QED BY <1>1, <1>2, <2>1, PaidCommitKeeps, RefundedCommitKeeps, ClosedCommitKeeps
  <1> QED BY <1>1, <1>2, NoMoneySteps, NoMoneyKeeps, OperatorKeeps

-----------------------------------------------------------------------------
(* The invariants.                                                         *)

LEMMA InitIInv == Init => IInv
  <1> SUFFICES ASSUME Init PROVE IInv
    OBVIOUS
  <1>1. TypeOK
    BY InitTyped
  <1>2. \A w \in Workers : worker[w].pc = "idle"
    BY DEF Init, Idle
  <1>3. \A o \in Orders : order[o].status = "created" /\ ~order[o].bound
    BY DEF Init
  <1>4. \A u \in Users : member[u].plan = "free" /\ member[u].source = "initial"
    BY DEF Init
  <1>5. facts = {} /\ events = {}
    BY DEF Init
  <1> QED BY <1>1, <1>2, <1>3, <1>4, <1>5
          DEF IInv, OneCommit, CommitPending, BoundLeftCreated, PaidHasFact, EventsStored,
              FreeSources, PaidBacked, NoLostEntitlement

LEMMA NextIInv ==
  ASSUME IInv, [Next]_vars
  PROVE  IInv'
  <1>1. TypeOK'
    BY NextTyped DEF IInv
  <1> QED BY <1>1, OneCommitStep, CommitPendingStep, BoundLeftCreatedStep, MemberInvStep
          DEF IInv, MemberInv

LEMMA Invariance == Spec => []IInv
  BY InitIInv, NextIInv, PTL DEF Spec

\* Whatever races with a refund, a membership that a payment holds stands on a
\* stored fact about an order of its user that is still paid.
THEOREM MembershipBacked == Spec => []PaidBacked
  <1>1. IInv => PaidBacked
    BY DEF IInv
  <1> QED BY <1>1, Invariance, PTL

\* The owner of a paid order has their membership, unless an operator took it.
THEOREM EntitlementKept == Spec => []NoLostEntitlement
  <1>1. IInv => NoLostEntitlement
    BY DEF IInv
  <1> QED BY <1>1, Invariance, PTL

\* The unique key on the membership events never rolls back a confirmed
\* payment or refund.
THEOREM EventInsertSucceeds == Spec => []EventKeyFree
  <1>1. IInv => EventKeyFree
    BY DEF IInv, EventKeyFree, CommitPending, EventsStored, WorkerFact
  <1> QED BY <1>1, Invariance, PTL

-----------------------------------------------------------------------------
(* What a step may never do.                                               *)

\* Only a transition membershipOrderTransitionAllowed accepts, or the binding
\* of a created order, changes an order's status.
OrderMoves(o) ==
  \/ order'[o].status = order[o].status
  \/ order[o].status = "created" /\ order'[o].status = "pending_payment"
  \/ TransitionAllowed(order[o].status, order'[o].status)

LEMMA OrdersMove ==
  ASSUME IInv, [Next]_vars, NEW o \in Orders
  PROVE  OrderMoves(o)
  <1>0. TypeOK /\ CommitPending
    BY DEF IInv
  <1>1. CASE Quiet
    BY <1>1 DEF Quiet, OrderMoves
  <1>2. ASSUME NEW p \in Orders, BindDispatched(p) PROVE OrderMoves(o)
    BY <1>0, <1>2 DEF BindDispatched, OrderMoves, TypeOK, OrderRows
  <1>3. ASSUME NEW u \in Users, OperatorGrant(u) \/ OperatorRevoke(u) PROVE OrderMoves(o)
    BY <1>3 DEF OperatorGrant, OperatorRevoke, OrderMoves
  <1>4. ASSUME NEW w \in Workers, RecoverOrder(w) PROVE OrderMoves(o)
    BY <1>0, <1>4 DEF RecoverOrder, OrderMoves, TypeOK, OrderRows
  <1>5. ASSUME NEW w \in Workers, SettleClose(w) PROVE OrderMoves(o)
    <2>1. CASE worker[w].order = o
      BY <1>0, <1>5, <2>1 DEF SettleClose, OrderMoves, TypeOK, OrderRows
    <2>2. CASE worker[w].order # o
      BY <1>0, <1>5, <2>2 DEF SettleClose, OrderMoves, TypeOK
    <2> QED BY <2>1, <2>2
  <1>6. ASSUME NEW w \in Workers, Apply(w) PROVE OrderMoves(o)
    BY <1>6 DEF Apply, OrderMoves
  <1>7. ASSUME NEW w \in Workers, Commit(w) PROVE OrderMoves(o)
    <2> DEFINE p == worker[w].order
               f == WorkerFact(w)
    <2>1. /\ order'[p].status = StatusOf(f.kind)
          /\ \A q \in Orders \ {p} : order'[q] = order[q]
          /\ TransitionAllowed(order[p].status, StatusOf(f.kind))
      BY <1>0, <1>7, CommitWrites
    <2> QED BY <2>1 DEF OrderMoves
  <1> QED BY <1>0, <1>1, <1>2, <1>3, <1>4, <1>5, <1>6, <1>7, Steps

\* Nothing moves an order out of a terminal state, and a paid one moves only
\* to refunded.
THEOREM TerminalOrdersStay == Spec => TerminalOrders
  <1> DEFINE A == \A o \in Orders :
                    /\ order[o].status \in {"closed", "failed", "refunded"}
                         => order'[o].status = order[o].status
                    /\ order[o].status = "paid" => order'[o].status \in {"paid", "refunded"}
  <1>1. IInv /\ [Next]_vars => [A]_vars
    BY OrdersMove DEF OrderMoves, TransitionAllowed
  <1> QED BY <1>1, Invariance, PTL DEF Spec, TerminalOrders

\* Payments and refunds leave an operator's grant to operators.
THEOREM OperatorGrantsStand == Spec => OperatorGrantStands
  <1>1. ASSUME IInv, [Next]_vars, NEW u \in Users,
               member[u].source = "operator_grant", member'[u] # member[u]
        PROVE  member'[u].source = "operator_revocation"
    <2>0. TypeOK /\ CommitPending /\ FreeSources
      BY <1>1 DEF IInv
    <2>1. CASE NoMoney
      BY <1>1, <2>1 DEF NoMoney
    <2>2. ASSUME NEW v \in Users, OperatorGrant(v) \/ OperatorRevoke(v)
          PROVE  member'[u].source = "operator_revocation"
      <3>1. member[u].plan # "free"
        BY <1>1, <2>0 DEF FreeSources
      <3> QED BY <1>1, <2>0, <2>2, <3>1 DEF OperatorGrant, OperatorRevoke, TypeOK
    <2>3. ASSUME NEW w \in Workers, Commit(w)
          PROVE  member'[u].source = "operator_revocation"
      <3> DEFINE o == worker[w].order
                 f == WorkerFact(w)
                 m == member[Owner[o]]
      <3>1. Owner[o] \in Users /\ f.kind = worker[w].kind
        BY <2>0, <2>3, CommitWrites
      <3>2. member[u].plan # "free"
        BY <1>1, <2>0 DEF FreeSources
      <3>3. CASE u = Owner[o]
        <4>1. ~Backs(o, m) /\ Granted(m, f) = m /\ Revoked(m, o) = {m}
          BY <1>1, <3>2, <3>3 DEF Backs, Granted, Revoked
        <4> QED BY <1>1, <2>0, <2>3, <3>1, <3>3, <4>1 DEF Commit, TypeOK
      <3>4. CASE u # Owner[o]
        BY <1>1, <2>0, <2>3, <3>1, <3>4 DEF Commit, TypeOK
      <3> QED BY <3>3, <3>4
    <2> QED BY <1>1, <2>1, <2>2, <2>3, NoMoneySteps
  <1> DEFINE A == \A u \in Users :
                    member[u].source = "operator_grant" /\ member'[u] # member[u]
                      => member'[u].source = "operator_revocation"
  <1>2. IInv /\ [Next]_vars => [A]_vars
    BY <1>1
  <1> QED BY <1>2, Invariance, PTL DEF Spec, OperatorGrantStands

-----------------------------------------------------------------------------
(* The kernel implements the promise of Entitlement.                       *)

PaidOrders == {o \in Orders : order[o].status = "paid"}
EndedOrders == {o \in Orders : order[o].status \in {"closed", "failed", "refunded"}}
Holders == [u \in Users |-> Holder(member[u])]

LEMMA InitPromised == Init => Promise!Init
  BY OwnerAssumption DEF Init, Promise!Init, Holder

\* A step the promise does not speak of.
LEMMA SilentPromised ==
  ASSUME UNCHANGED member, \A o \in Orders : order'[o].status = order[o].status \/
           {order[o].status, order'[o].status} \subseteq {"created", "pending_payment"}
  PROVE  UNCHANGED Promise!vars
  <1>1. PaidOrders' = PaidOrders /\ EndedOrders' = EndedOrders /\ Holders' = Holders
    BY DEF PaidOrders, EndedOrders, Holders
  <1> QED BY <1>1 DEF Promise!vars, PaidOrders, EndedOrders, Holders

\* An order that was never paid for ends.
LEMMA ClosePromised ==
  ASSUME NEW o \in Orders, order[o].status \in {"created", "pending_payment"},
         order'[o].status \in {"closed", "failed", "refunded"},
         \A p \in Orders \ {o} : order'[p].status = order[p].status,
         UNCHANGED member
  PROVE  Promise!Close(o)
  <1>1. PaidOrders' = PaidOrders /\ EndedOrders' = EndedOrders \cup {o} /\ Holders' = Holders
    BY DEF PaidOrders, EndedOrders, Holders
  <1>2. o \notin PaidOrders \cup EndedOrders
    BY DEF PaidOrders, EndedOrders
  <1> QED BY <1>1, <1>2 DEF Promise!Close, PaidOrders, EndedOrders, Holders

LEMMA OperatorPromised ==
  ASSUME IInv, NEW u \in Users, OperatorGrant(u) \/ OperatorRevoke(u)
  PROVE  Promise!Grant(u) \/ Promise!Withdraw(u)
  <1>0. TypeOK /\ FreeSources
    BY DEF IInv
  <1>1. PaidOrders' = PaidOrders /\ EndedOrders' = EndedOrders
    BY DEF OperatorGrant, OperatorRevoke, PaidOrders, EndedOrders
  <1>2. CASE OperatorGrant(u)
    <2>1. Holder(member[u]) \in {"nobody", "withdrawn"}
      BY <1>0, <1>2 DEF OperatorGrant, FreeSources, Holder
    <2>2. Holders' = [Holders EXCEPT ![u] = "operator"]
      BY <1>0, <1>2 DEF OperatorGrant, Holder, Holders, TypeOK
    <2> QED BY <1>1, <2>1, <2>2 DEF Promise!Grant, PaidOrders, EndedOrders, Holders
  <1>3. CASE OperatorRevoke(u)
    <2>1. Holder(member[u]) \in {"operator", "payment"}
      BY <1>0, <1>3 DEF OperatorRevoke, FreeSources, Holder, TypeOK, MemberRows
    <2>2. Holders' = [Holders EXCEPT ![u] = "withdrawn"]
      BY <1>0, <1>3 DEF OperatorRevoke, Holder, Holders, TypeOK
    <2> QED BY <1>1, <2>1, <2>2 DEF Promise!Withdraw, PaidOrders, EndedOrders, Holders
  <1> QED BY <1>2, <1>3

LEMMA PaidCommitPromised ==
  ASSUME IInv, NEW w \in Workers, Commit(w), NEW o \in Orders, o = worker[w].order,
         StatusOf(worker[w].kind) = "paid"
  PROVE  Promise!Pay(o)
  <1> DEFINE f == WorkerFact(w)
             u == Owner[o]
             m == member[u]
  <1>0. TypeOK /\ CommitPending /\ FreeSources
    BY DEF IInv
  <1>1. /\ o \in Orders /\ f \in Fact /\ f.order = o /\ f.kind = worker[w].kind
        /\ order'[o].status = "paid"
        /\ \A p \in Orders \ {o} : order'[p] = order[p]
        /\ TransitionAllowed(order[o].status, "paid")
        /\ u \in Users /\ m \in MemberRows
    BY <1>0, CommitWrites
  <1>2. o \notin PaidOrders \cup EndedOrders
    BY <1>1 DEF TransitionAllowed, PaidOrders, EndedOrders
  <1>3. PaidOrders' = PaidOrders \cup {o} /\ EndedOrders' = EndedOrders
    BY <1>1, <1>2 DEF PaidOrders, EndedOrders
  <1>4. member' = [member EXCEPT ![u] = Granted(m, f)]
    BY <1>1 DEF Commit
  <1>5. Holder(Granted(m, f)) = IF Holder(m) = "operator" THEN "operator" ELSE "payment"
    BY <1>0, <1>1 DEF Granted, Holder, FreeSources, MemberRows
  <1>6. Holders' = [Holders EXCEPT ![u] = IF @ = "operator" THEN @ ELSE "payment"]
    BY <1>0, <1>1, <1>4, <1>5 DEF Holders, TypeOK
  <1> QED BY <1>1, <1>2, <1>3, <1>6 DEF Promise!Pay, PaidOrders, EndedOrders, Holders

LEMMA RefundedCommitPromised ==
  ASSUME IInv, NEW w \in Workers, Commit(w), NEW o \in Orders, o = worker[w].order,
         StatusOf(worker[w].kind) = "refunded"
  PROVE  Promise!Refund(o) \/ Promise!Close(o)
  <1> DEFINE f == WorkerFact(w)
             u == Owner[o]
             m == member[u]
  <1>0. TypeOK /\ CommitPending /\ FreeSources /\ PaidBacked /\ PaidHasFact
    BY DEF IInv
  <1>1. /\ o \in Orders /\ f \in Fact /\ f.order = o /\ f.kind = worker[w].kind
        /\ order'[o].status = "refunded"
        /\ \A p \in Orders \ {o} : order'[p] = order[p]
        /\ TransitionAllowed(order[o].status, "refunded")
        /\ u \in Users /\ m \in MemberRows
    BY <1>0, CommitWrites
  <1>2. PICK n \in Revoked(m, o) : member' = [member EXCEPT ![u] = n]
    BY <1>1 DEF Commit
  <1>3. CASE order[o].status = "paid"
    <2>1. PaidOrders' = PaidOrders \ {o} /\ EndedOrders' = EndedOrders \cup {o} /\ o \in PaidOrders
      BY <1>1, <1>3 DEF PaidOrders, EndedOrders
    <2>2. Replacements(o) = {} <=> ~\E p \in PaidOrders \ {o} : Owner[p] = u
      <3>1. ASSUME NEW p \in PaidOrders \ {o}, Owner[p] = u PROVE Replacements(o) # {}
        <4>1. PICK r \in PaidFacts : r.order = p
          BY <1>0 DEF PaidHasFact, PaidOrders
        <4> QED BY <3>1, <4>1 DEF Replacements, PaidOrders
      <3>2. ASSUME NEW r \in Replacements(o) PROVE \E p \in PaidOrders \ {o} : Owner[p] = u
        BY <1>0 DEF Replacements, PaidFacts, PaidOrders, TypeOK, Fact
      <3> QED BY <3>1, <3>2
    <2>3. Holder(n) = IF Holder(m) = "payment" /\ Replacements(o) = {} THEN "nobody" ELSE Holder(m)
      <3>1. CASE Backs(o, m)
        <4>1. Holder(m) = "payment"
          BY <3>1 DEF Backs, Holder
        <4>2. CASE Replacements(o) = {}
          <5>1. n = [plan |-> "free", source |-> "payment_refund", fact |-> NoFact]
            BY <1>2, <3>1, <4>2 DEF Revoked
          <5> QED BY <4>1, <4>2, <5>1 DEF Holder
        <4>3. CASE Replacements(o) # {}
          <5>1. n.source = "payment"
            BY <1>1, <1>2, <3>1, <4>3 DEF Revoked, Backs, MemberRows
          <5> QED BY <4>1, <4>3, <5>1 DEF Holder
        <4> QED BY <4>2, <4>3
      <3>2. CASE ~Backs(o, m)
        <4>1. n = m
          BY <1>2, <3>2 DEF Revoked
        <4>2. ASSUME Holder(m) = "payment" PROVE Replacements(o) # {}
          <5>1. m.source = "payment"
            BY <1>1, <4>2 DEF Holder, MemberRows
          <5>2. /\ m.plan = "lifetime" /\ m.fact \in PaidFacts /\ Owner[m.fact.order] = u
                /\ order[m.fact.order].status = "paid"
            BY <1>0, <1>1, <5>1 DEF PaidBacked
          <5> QED BY <3>2, <5>1, <5>2 DEF Backs, Replacements
        <4> QED BY <4>1, <4>2
      <3> QED BY <3>1, <3>2
    <2>4. Holders' = [Holders EXCEPT ![u] =
            IF @ = "payment" /\ ~\E p \in PaidOrders \ {o} : Owner[p] = u THEN "nobody" ELSE @]
      BY <1>0, <1>1, <1>2, <2>2, <2>3 DEF Holders, TypeOK
    <2> QED BY <1>1, <2>1, <2>4 DEF Promise!Refund, PaidOrders, EndedOrders, Holders
  <1>4. CASE order[o].status # "paid"
    <2>1. ~Backs(o, m)
      BY <1>0, <1>1, <1>4 DEF Backs, PaidBacked
    <2>2. UNCHANGED member
      BY <1>0, <1>1, <1>2, <2>1 DEF Revoked, TypeOK
    <2>3. order[o].status = "pending_payment"
      BY <1>1, <1>4 DEF TransitionAllowed
    <2> QED BY <1>1, <2>2, <2>3, ClosePromised
  <1> QED BY <1>3, <1>4

LEMMA ClosedCommitPromised ==
  ASSUME IInv, NEW w \in Workers, Commit(w), NEW o \in Orders, o = worker[w].order,
         StatusOf(worker[w].kind) = "closed"
  PROVE  Promise!Close(o)
  <1> DEFINE f == WorkerFact(w)
  <1>1. TypeOK /\ CommitPending
    BY DEF IInv
  <1>2. /\ o \in Orders /\ f.kind = worker[w].kind
        /\ order'[o].status = "closed"
        /\ \A p \in Orders \ {o} : order'[p] = order[p]
        /\ TransitionAllowed(order[o].status, "closed")
    BY <1>1, CommitWrites
  <1>3. UNCHANGED member
    BY <1>2 DEF Commit
  <1>4. order[o].status \in {"created", "pending_payment"}
    BY <1>2 DEF TransitionAllowed
  <1> QED BY <1>2, <1>3, <1>4, ClosePromised

LEMMA NextPromised ==
  ASSUME IInv, [Next]_vars
  PROVE  [Promise!Next]_(Promise!vars)
  <1>0. TypeOK /\ CommitPending /\ BoundLeftCreated
    BY DEF IInv
  <1>1. CASE Quiet
    BY <1>1, SilentPromised DEF Quiet
  <1>2. ASSUME NEW p \in Orders, BindDispatched(p) PROVE UNCHANGED Promise!vars
    BY <1>0, <1>2, SilentPromised DEF BindDispatched, TypeOK, OrderRows
  <1>3. ASSUME NEW u \in Users, OperatorGrant(u) \/ OperatorRevoke(u) PROVE Promise!Next
    BY <1>3, OperatorPromised DEF Promise!Next
  <1>4. ASSUME NEW w \in Workers, RecoverOrder(w) PROVE UNCHANGED Promise!vars
    <2>1. UNCHANGED member
      BY <1>4 DEF RecoverOrder
    <2>2. ASSUME NEW o \in Orders
          PROVE  \/ order'[o].status = order[o].status
                 \/ {order[o].status, order'[o].status} \subseteq {"created", "pending_payment"}
      BY <1>0, <1>4 DEF RecoverOrder, TypeOK, OrderRows
    <2> QED BY <2>1, <2>2, SilentPromised
  <1>5. ASSUME NEW w \in Workers, SettleClose(w) PROVE [Promise!Next]_(Promise!vars)
    <2> DEFINE o == worker[w].order
    <2>1. o \in Orders
      BY <1>0, <1>5, InFlight DEF SettleClose, At, Informed
    <2>2. UNCHANGED member
      BY <1>5 DEF SettleClose
    <2>3. CASE UNCHANGED order
      BY <2>2, <2>3, SilentPromised
    <2>4. CASE ~UNCHANGED order
      <3>1. /\ order' = [order EXCEPT ![o].status = "closed"]
            /\ order[o].status \in {"created", "pending_payment"}
        BY <1>5, <2>4 DEF SettleClose, TransitionAllowed
      <3>2. order'[o].status = "closed" /\ \A p \in Orders \ {o} : order'[p].status = order[p].status
        BY <1>0, <2>1, <3>1 DEF TypeOK, OrderRows
      <3> QED BY <2>1, <2>2, <3>1, <3>2, ClosePromised DEF Promise!Next
    <2> QED BY <2>3, <2>4
  <1>6. ASSUME NEW w \in Workers, Apply(w) PROVE UNCHANGED Promise!vars
    BY <1>6, SilentPromised DEF Apply
  <1>7. ASSUME NEW w \in Workers, Commit(w) PROVE Promise!Next
    <2>1. StatusOf(worker[w].kind) \in {"paid", "refunded", "closed"}
      BY DEF StatusOf
    <2>2. PICK o \in Orders : o = worker[w].order
      BY <1>0, <1>7, CommitWrites
    <2> QED BY <1>7, <2>1, <2>2, PaidCommitPromised, RefundedCommitPromised, ClosedCommitPromised
            DEF Promise!Next
  <1> QED BY <1>0, <1>1, <1>2, <1>3, <1>4, <1>5, <1>6, <1>7, Steps

\* Every step of the kernel, whatever it interleaves with, is a payment, a
\* refund, a closing, an operator's act of the promise, or invisible to it.
THEOREM KernelKeepsPromise == Spec => ImplementsEntitlement
  BY InitPromised, NextPromised, Invariance, PTL DEF Spec, ImplementsEntitlement, Promise!Spec

-----------------------------------------------------------------------------
(* The gateway.  What a request believes of it stays true while the request *)
(* waits for its turn, so it is still true when it is written down.        *)

\* What request r has learned of trades t, reversals v and orders s.
Learned(r, t, v, s) ==
  /\ r.pc \in {"recover", "apply", "commit"} =>
       /\ r.kind \in {"notified_paid", "queried_paid"} => t[r.order] \in {"SUCCESS", "REFUND"}
       /\ r.kind = "queried_closed" => t[r.order] = "CLOSED"
       /\ r.kind = "refunded" => v[r.order] = "succeeded"
  /\ r.answer = "succeeded" => r.order \in Orders /\ v[r.order] = "succeeded"
  /\ r.op \in {"notify", "reconcile"} => r.answer = "none"
  /\ r.pc = "settle" => t[r.order] \in {"CLOSED", "REFUND"}
  /\ r.pc = "provider" /\ r.op = "refund" => s[r.order].status \in {"paid", "refunded"}

LearnedTrue == \A w \in Workers : Learned(worker[w], trade, reversal, order)

\* The gateway refunds only what was paid for here first.
RefundedWasPaid ==
  \A o \in Orders :
    /\ trade[o] = "REFUND" => order[o].status \in {"paid", "refunded"}
    /\ reversal[o] # "none" => trade[o] = "REFUND"

GInv == IInv /\ LearnedTrue /\ RefundedWasPaid /\ GatewayAgrees /\ RefundRecordTrue

\* What is never taken back of an order.
Final(o) ==
  /\ trade[o] \in {"SUCCESS", "REFUND"} => trade'[o] \in {"SUCCESS", "REFUND"}
  /\ trade[o] \in {"CLOSED", "REFUND"} => trade'[o] = trade[o]
  /\ reversal[o] = "succeeded" => reversal'[o] = "succeeded"
  /\ order[o].status \in {"paid", "refunded"} => order'[o].status \in {"paid", "refunded"}

\* The steps that change what the gateway knows.
LEMMA GatewaySteps ==
  ASSUME TypeOK, [Next]_vars
  PROVE  \/ UNCHANGED gateway
         \/ \E o \in Orders : OpenCharge(o) \/ Charge(o) \/ Reverse(o)
         \/ \E w \in Workers : ProviderClose(w) \/ ProviderRefund(w)
  <1>1. ASSUME NEW o \in Orders, Environment(o)
        PROVE  UNCHANGED gateway \/ OpenCharge(o) \/ Charge(o) \/ Reverse(o)
    BY <1>1 DEF Environment, BindDispatched
  <1>2. ASSUME NEW u \in Users, OperatorGrant(u) \/ OperatorRevoke(u) PROVE UNCHANGED gateway
    BY <1>2 DEF OperatorGrant, OperatorRevoke
  <1>3. ASSUME NEW w \in Workers, Arrive(w) PROVE UNCHANGED gateway
    BY <1>3 DEF Arrive, ReceiveNotification, LookUpRefund, ReadOrders, ClaimCommand, ReplayClose, ReplayRefund
  <1>4. ASSUME NEW w \in Workers, Proceed(w)
        PROVE  UNCHANGED gateway \/ ProviderClose(w) \/ ProviderRefund(w)
    BY <1>4 DEF Proceed, CorrelateNotification, RecoverOrder, OrdersRead, QueryCandidate, Apply,
                Commit, SettleClose, ProviderQueryRefund, RecordRefund, FinishCommand, CloseAnswered
  <1>5. ASSUME NEW w \in Workers, Abandon(w) \/ Release(w) PROVE UNCHANGED gateway
    BY <1>5 DEF Abandon, Release
  <1> QED BY <1>1, <1>2, <1>3, <1>4, <1>5 DEF Next, vars

LEMMA FinalStep ==
  ASSUME IInv, RefundedWasPaid, [Next]_vars, NEW o \in Orders
  PROVE  Final(o)
  <1>0. TypeOK
    BY DEF IInv
  <1>1. order[o].status \in {"paid", "refunded"} => order'[o].status \in {"paid", "refunded"}
    BY OrdersMove DEF OrderMoves, TransitionAllowed
  <1>2. CASE UNCHANGED gateway
    BY <1>1, <1>2 DEF Final, gateway
  <1>3. ASSUME NEW p \in Orders, OpenCharge(p) \/ Charge(p) \/ Reverse(p) PROVE Final(o)
    BY <1>0, <1>1, <1>3 DEF Final, OpenCharge, Charge, Reverse, TypeOK
  <1>4. ASSUME NEW w \in Workers, ProviderClose(w) PROVE Final(o)
    BY <1>0, <1>1, <1>4 DEF Final, ProviderClose, TypeOK
  <1>5. ASSUME NEW w \in Workers, ProviderRefund(w) PROVE Final(o)
    BY <1>0, <1>1, <1>5 DEF Final, ProviderRefund, TypeOK, RefundedWasPaid, gateway
  <1> QED BY <1>0, <1>2, <1>3, <1>4, <1>5, GatewaySteps

\* What a request has learned survives the steps of others.
LEMMA LearnedLasts ==
  ASSUME NEW r \in WorkerStates, Learned(r, trade, reversal, order), \A o \in Orders : Final(o)
  PROVE  Learned(r, trade', reversal', order')
  <1>1. /\ r.pc \in {"recover", "apply", "commit", "settle", "provider"} => r.order \in Orders
        /\ r.order \in Orders => Final(r.order)
    BY DEF WorkerStates, Informed
  <1> QED BY <1>1 DEF Learned, Final

LEMMA IdleLearned == Learned(Idle, trade', reversal', order')
  BY DEF Learned, Idle

\* It is enough to look at the request that takes the step.
LEMMA LearnedElsewhere ==
  ASSUME TypeOK, LearnedTrue, \A o \in Orders : Final(o), NEW w \in Workers,
         NEW r, Becomes(w, r), Learned(r, trade', reversal', order')
  PROVE  LearnedTrue'
  <1>1. ASSUME NEW v \in Workers \ {w} PROVE Learned(worker'[v], trade', reversal', order')
    BY LearnedLasts DEF LearnedTrue, Becomes, TypeOK
  <1>2. Learned(worker'[w], trade', reversal', order')
    BY DEF Becomes, TypeOK
  <1> QED BY <1>1, <1>2 DEF LearnedTrue

LEMMA LearnedUnchanged ==
  ASSUME TypeOK, LearnedTrue, \A o \in Orders : Final(o), UNCHANGED worker
  PROVE  LearnedTrue'
  <1>1. ASSUME NEW v \in Workers PROVE Learned(worker'[v], trade', reversal', order')
    BY LearnedLasts DEF LearnedTrue, TypeOK
  <1> QED BY <1>1 DEF LearnedTrue

LEMMA ArriveLearned ==
  ASSUME TypeOK, LearnedTrue, \A o \in Orders : Final(o), NEW w \in Workers, Arrive(w)
  PROVE  LearnedTrue'
  <1>1. ASSUME NEW op \in {"close", "refund"}, NEW o \in Orders, NEW k \in Keys, ClaimCommand(w, op, o, k)
        PROVE  LearnedTrue'
    <2> DEFINE r == [Idle EXCEPT !.pc = "provider", !.op = op, !.order = o, !.key = k]
    <2>1. op = "refund" => order[o].status = "paid"
      BY <1>1 DEF ClaimCommand, RequiredStatus
    <2>2. Learned(r, trade', reversal', order')
      BY <1>1, <2>1 DEF ClaimCommand, Learned, Idle
    <2> QED BY <1>1, <2>2, LearnedElsewhere DEF ClaimCommand
  <1>2. ASSUME NEW r, Becomes(w, r), r.answer = "none", r.op # "refund",
               r.pc \in {"query", "provider", "answered"}
        PROVE  LearnedTrue'
    <2>1. Learned(r, trade', reversal', order')
      BY <1>2 DEF Learned
    <2> QED BY <1>2, <2>1, LearnedElsewhere
  <1>3. ASSUME NEW o \in Orders, ReceiveNotification(w, o) \/ LookUpRefund(w, o) PROVE LearnedTrue'
    BY <1>2, <1>3 DEF ReceiveNotification, LookUpRefund, Idle
  <1>4. ASSUME NEW u \in Users, ReadOrders(w, u) PROVE LearnedTrue'
    BY <1>2, <1>4 DEF ReadOrders, Idle
  <1>5. ASSUME NEW k \in Keys, ReplayClose(w, k) \/ ReplayRefund(w, k) PROVE LearnedTrue'
    BY <1>2, <1>5 DEF ReplayClose, ReplayRefund, Idle
  <1> QED BY <1>1, <1>3, <1>4, <1>5 DEF Arrive

LEMMA ReturnLearned ==
  ASSUME TypeOK, LearnedTrue, \A o \in Orders : Final(o), NEW w \in Workers, Return(w)
  PROVE  LearnedTrue'
  BY IdleLearned, LearnedElsewhere DEF Return

\* A request that only changes its place keeps what it learned.
LEMMA GotoLearned ==
  ASSUME TypeOK, LearnedTrue, \A o \in Orders : Final(o), NEW w \in Workers,
         NEW pc \in {"apply", "commit", "finish", "answered"}, Goto(w, pc),
         pc \in {"apply", "commit"} => worker[w].pc \in {"recover", "apply"}
  PROVE  LearnedTrue'
  <1> DEFINE r == [worker[w] EXCEPT !.pc = pc]
  <1>1. Learned(worker[w], trade', reversal', order')
    BY LearnedLasts DEF LearnedTrue, TypeOK
  <1>2. worker[w] \in Requested
    BY InFlight
  <1>3. Learned(r, trade', reversal', order')
    BY <1>1, <1>2 DEF Learned, Requested
  <1> QED BY <1>3, LearnedElsewhere DEF Goto

LEMMA AfterApplyLearned ==
  ASSUME TypeOK, LearnedTrue, \A o \in Orders : Final(o), NEW w \in Workers,
         NEW b \in BOOLEAN, AfterApply(w, b)
  PROVE  LearnedTrue'
  <1>1. Learned(worker[w], trade', reversal', order') /\ worker[w] \in Requested
    BY LearnedLasts, InFlight DEF LearnedTrue, TypeOK
  <1>2. CASE worker[w].op = "notify"
    BY <1>2, ReturnLearned DEF AfterApply
  <1>3. CASE worker[w].op = "reconcile"
    <2> DEFINE r == [worker[w] EXCEPT !.pc = "query", !.order = NoOrder, !.kind = "none"]
    <2>1. Learned(r, trade', reversal', order')
      BY <1>1, <1>3 DEF Learned, Requested
    <2> QED BY <1>3, <2>1, LearnedElsewhere DEF AfterApply
  <1>4. CASE worker[w].op \notin {"notify", "reconcile"}
    <2> DEFINE r == [worker[w] EXCEPT !.pc = "record", !.revoked = b]
    <2>1. Learned(r, trade', reversal', order')
      BY <1>1, <1>4 DEF Learned, Requested
    <2> QED BY <1>4, <2>1, LearnedElsewhere DEF AfterApply
  <1> QED BY <1>2, <1>3, <1>4

\* The answer a refund request carries is the gateway's.
LEMMA OnRefundAnswerLearned ==
  ASSUME TypeOK, LearnedTrue, \A o \in Orders : Final(o), NEW w \in Workers,
         At(w, "provider", {"refund", "replay", "lookup"}),
         NEW s \in ReversalStatuses, OnRefundAnswer(w, s), reversal'[worker[w].order] = s
  PROVE  LearnedTrue'
  <1>1. worker[w] \in Requested /\ worker[w].order \in Orders
    BY InFlight DEF At, Informed
  <1>2. CASE s = "succeeded" /\ worker[w].op # "replay"
    <2> DEFINE r == [worker[w] EXCEPT !.answer = s, !.kind = "refunded", !.pc = "apply"]
    <2>1. Learned(r, trade', reversal', order')
      BY <1>1, <1>2 DEF Learned, Requested, At
    <2> QED BY <1>2, <2>1, LearnedElsewhere DEF OnRefundAnswer
  <1>3. CASE ~(s = "succeeded" /\ worker[w].op # "replay")
    <2> DEFINE r == [worker[w] EXCEPT !.answer = s, !.kind = "refunded", !.pc = "record"]
    <2>1. Learned(r, trade', reversal', order')
      BY <1>1, <1>3 DEF Learned, Requested, At
    <2> QED BY <1>3, <2>1, LearnedElsewhere DEF OnRefundAnswer
  <1> QED BY <1>2, <1>3

LEMMA ProceedLearned ==
  ASSUME TypeOK, LearnedTrue, \A o \in Orders : Final(o), NEW w \in Workers, Proceed(w)
  PROVE  LearnedTrue'
  <1> DEFINE o == worker[w].order
  <1>0. /\ worker[w] \in Requested /\ Informed(worker[w])
        /\ Learned(worker[w], trade', reversal', order')
        /\ worker[w] \in WorkerStates
    BY LearnedLasts, InFlight DEF LearnedTrue, TypeOK
  <1>1. CASE CorrelateNotification(w)
    <2> DEFINE r == [worker[w] EXCEPT !.pc = "recover", !.kind = "notified_paid"]
    <2>1. trade[o] = "SUCCESS" => Learned(r, trade', reversal', order')
      BY <1>0, <1>1 DEF CorrelateNotification, Learned, Requested, At, gateway
    <2> QED BY <1>1, <2>1, LearnedElsewhere, ReturnLearned DEF CorrelateNotification
  <1>2. CASE RecoverOrder(w)
    BY <1>2, GotoLearned, ReturnLearned DEF RecoverOrder, At
  <1>3. CASE OrdersRead(w) \/ CloseAnswered(w)
    BY <1>3, ReturnLearned DEF OrdersRead, CloseAnswered
  <1>4. ASSUME NEW p \in Orders, QueryCandidate(w, p) PROVE LearnedTrue'
    <2> DEFINE next == [worker[w] EXCEPT !.todo = worker[w].todo \ {p}]
               paid == [next EXCEPT !.pc = "apply", !.order = p, !.kind = "queried_paid"]
               closed == [next EXCEPT !.pc = "apply", !.order = p, !.kind = "queried_closed"]
    <2>1. Learned(next, trade', reversal', order')
      BY <1>0 DEF Learned, Requested
    <2>2. worker[w].op = "reconcile" /\ worker[w].answer = "none" /\ UNCHANGED trade
      BY <1>0, <1>4 DEF QueryCandidate, At, Learned, gateway
    <2>3. trade[p] = "SUCCESS" => Learned(paid, trade', reversal', order')
      BY <1>0, <2>2 DEF Learned, Requested
    <2>4. trade[p] = "CLOSED" => Learned(closed, trade', reversal', order')
      BY <1>0, <2>2 DEF Learned, Requested
    <2> QED BY <1>4, <2>1, <2>3, <2>4, LearnedElsewhere DEF QueryCandidate
  <1>5. CASE Apply(w)
    BY <1>5, ReturnLearned, AfterApplyLearned, GotoLearned DEF Apply
  <1>6. CASE Commit(w)
    BY <1>6, AfterApplyLearned DEF Commit
  <1>7. CASE ProviderClose(w)
    <2>1. o \in Orders
      BY <1>0, <1>7 DEF ProviderClose, At, Informed
    <2>2. CASE Goto(w, "settle") /\ trade'[o] \in {"CLOSED", "REFUND"}
      <3>1. Learned([worker[w] EXCEPT !.pc = "settle"], trade', reversal', order')
        BY <1>0, <2>2 DEF Learned, Requested
      <3> QED BY <2>2, <3>1, LearnedElsewhere DEF Goto
    <2> QED BY <1>7, <2>1, <2>2, ReturnLearned DEF ProviderClose, TypeOK
  <1>8. CASE SettleClose(w)
    BY <1>8, GotoLearned, ReturnLearned DEF SettleClose
  <1>9. CASE ProviderRefund(w)
    <2>1. o \in Orders
      BY <1>0, <1>9 DEF ProviderRefund, At, Informed
    <2>2. CASE Return(w)
      BY <2>2, ReturnLearned
    <2>3. CASE ~Return(w)
      <3>1. PICK s \in ReversalStatuses :
              reversal' = [reversal EXCEPT ![o] = s] /\ OnRefundAnswer(w, s)
        BY <1>9, <2>3 DEF ProviderRefund
      <3>2. reversal'[o] = s
        BY <2>1, <3>1 DEF TypeOK
      <3> QED BY <1>9, <3>1, <3>2, OnRefundAnswerLearned DEF ProviderRefund, At
    <2> QED BY <2>2, <2>3
  <1>10. CASE ProviderQueryRefund(w)
    <2>1. o \in Orders
      BY <1>0, <1>10 DEF ProviderQueryRefund, At, Informed
    <2>2. reversal[o] \in {"none"} \cup ReversalStatuses /\ UNCHANGED reversal
      BY <1>10, <2>1 DEF ProviderQueryRefund, gateway, TypeOK
    <2> QED BY <1>10, <2>2, OnRefundAnswerLearned, ReturnLearned DEF ProviderQueryRefund, At
  <1>11. CASE RecordRefund(w)
    BY <1>11, GotoLearned, ReturnLearned DEF RecordRefund
  <1>12. CASE FinishCommand(w)
    BY <1>12, GotoLearned, ReturnLearned DEF FinishCommand
  <1> QED BY <1>1, <1>2, <1>3, <1>4, <1>5, <1>6, <1>7, <1>8, <1>9, <1>10, <1>11, <1>12 DEF Proceed

LEMMA LearnedStep ==
  ASSUME IInv, LearnedTrue, RefundedWasPaid, [Next]_vars
  PROVE  LearnedTrue'
  <1>0. TypeOK /\ \A o \in Orders : Final(o)
    BY FinalStep DEF IInv
  <1>1. ASSUME NEW w \in Workers, Abandon(w) \/ Release(w) PROVE LearnedTrue'
    <2>1. Learned([Idle EXCEPT !.pc = "lost"], trade', reversal', order')
      BY DEF Learned, Idle
    <2> QED BY <1>0, <1>1, <2>1, LearnedElsewhere, ReturnLearned DEF Abandon, Release
  <1>2. ASSUME NEW o \in Orders, Environment(o) PROVE UNCHANGED worker
    BY <1>2 DEF Environment, OpenCharge, BindDispatched, Charge, Reverse
  <1>3. ASSUME NEW u \in Users, OperatorGrant(u) \/ OperatorRevoke(u) PROVE UNCHANGED worker
    BY <1>3 DEF OperatorGrant, OperatorRevoke
  <1> QED BY <1>0, <1>1, <1>2, <1>3, LearnedUnchanged, ArriveLearned, ProceedLearned DEF Next, vars

LEMMA RefundedWasPaidStep ==
  ASSUME GInv, [Next]_vars
  PROVE  RefundedWasPaid'
  <1>0. TypeOK /\ LearnedTrue /\ RefundedWasPaid /\ \A o \in Orders : Final(o)
    BY FinalStep DEF GInv, IInv
  <1> SUFFICES ASSUME NEW o \in Orders
               PROVE  /\ trade'[o] = "REFUND" => order'[o].status \in {"paid", "refunded"}
                      /\ reversal'[o] # "none" => trade'[o] = "REFUND"
    BY DEF RefundedWasPaid
  <1>1. CASE trade[o] = "REFUND"
    BY <1>0, <1>1 DEF Final, RefundedWasPaid
  <1>2. CASE trade[o] # "REFUND"
    <2>0. reversal[o] = "none"
      BY <1>0, <1>2 DEF RefundedWasPaid
    <2>1. CASE UNCHANGED gateway
      BY <1>2, <2>0, <2>1 DEF gateway
    <2>2. ASSUME NEW p \in Orders, OpenCharge(p) \/ Charge(p) \/ Reverse(p)
          PROVE  trade'[o] # "REFUND" /\ reversal'[o] = "none"
      BY <1>0, <1>2, <2>0, <2>2 DEF OpenCharge, Charge, Reverse, TypeOK
    <2>3. ASSUME NEW w \in Workers, ProviderClose(w)
          PROVE  trade'[o] # "REFUND" /\ reversal'[o] = "none"
      BY <1>0, <1>2, <2>0, <2>3 DEF ProviderClose, TypeOK
    <2>4. ASSUME NEW w \in Workers, ProviderRefund(w)
          PROVE  /\ trade'[o] = "REFUND" => order'[o].status \in {"paid", "refunded"}
                 /\ reversal'[o] # "none" => trade'[o] = "REFUND"
      <3>1. order[worker[w].order].status \in {"paid", "refunded"} /\ UNCHANGED order
        BY <1>0, <2>4 DEF ProviderRefund, At, LearnedTrue, Learned, database
      <3>2. CASE o = worker[w].order
        BY <1>0, <1>2, <2>0, <2>4, <3>1, <3>2 DEF ProviderRefund, TypeOK, gateway
      <3>3. CASE o # worker[w].order
        BY <1>0, <1>2, <2>0, <2>4, <3>3 DEF ProviderRefund, TypeOK, gateway
      <3> QED BY <3>2, <3>3
    <2> QED BY <1>0, <2>1, <2>2, <2>3, <2>4, <1>2, <2>0, GatewaySteps
  <1> QED BY <1>1, <1>2

\* The claim GatewayAgrees makes of one order.
Agrees(o) ==
  /\ order[o].status = "paid" => trade[o] \in {"SUCCESS", "REFUND"}
  /\ order[o].status = "closed" => trade[o] = "CLOSED"
  /\ order[o].status = "refunded" => reversal[o] = "succeeded"

LEMMA GatewayAgreesStep ==
  ASSUME GInv, [Next]_vars
  PROVE  GatewayAgrees'
  <1>0. /\ TypeOK /\ CommitPending /\ LearnedTrue /\ RefundedWasPaid
        /\ \A o \in Orders : Final(o) /\ Agrees(o)
    BY FinalStep DEF GInv, IInv, GatewayAgrees, Agrees
  <1> SUFFICES ASSUME NEW o \in Orders PROVE Agrees(o)'
    BY DEF GatewayAgrees, Agrees
  <1>1. CASE order'[o].status \in {order[o].status, "pending_payment"}
    BY <1>0, <1>1 DEF Final, Agrees
  <1>2. CASE Quiet
    BY <1>1, <1>2 DEF Quiet
  <1>3. ASSUME NEW p \in Orders, BindDispatched(p) PROVE Agrees(o)'
    BY <1>0, <1>1, <1>3 DEF BindDispatched, TypeOK, OrderRows
  <1>4. ASSUME NEW u \in Users, OperatorGrant(u) \/ OperatorRevoke(u) PROVE Agrees(o)'
    BY <1>1, <1>4 DEF OperatorGrant, OperatorRevoke
  <1>5. ASSUME NEW w \in Workers, RecoverOrder(w) PROVE Agrees(o)'
    BY <1>0, <1>1, <1>5 DEF RecoverOrder, TypeOK, OrderRows
  <1>6. ASSUME NEW w \in Workers, SettleClose(w) PROVE Agrees(o)'
    <2>1. CASE o # worker[w].order \/ UNCHANGED order
      BY <1>0, <1>1, <1>6, <2>1 DEF SettleClose, TypeOK
    <2>2. CASE o = worker[w].order /\ ~UNCHANGED order
      <3>1. /\ order' = [order EXCEPT ![o].status = "closed"]
            /\ order[o].status \in {"created", "pending_payment"}
            /\ UNCHANGED trade
        BY <1>6, <2>2 DEF SettleClose, TransitionAllowed, gateway
      <3>2. trade[o] \in {"CLOSED", "REFUND"}
        BY <1>0, <1>6, <2>2 DEF SettleClose, At, LearnedTrue, Learned
      <3>3. trade[o] = "CLOSED"
        BY <1>0, <3>1, <3>2 DEF RefundedWasPaid
      <3>4. order'[o].status = "closed"
        BY <1>0, <3>1 DEF TypeOK, OrderRows
      <3> QED BY <3>1, <3>3, <3>4 DEF Agrees
    <2> QED BY <2>1, <2>2
  <1>7. ASSUME NEW w \in Workers, Apply(w) PROVE Agrees(o)'
    BY <1>1, <1>7 DEF Apply
  <1>8. ASSUME NEW w \in Workers, Commit(w) PROVE Agrees(o)'
    <2> DEFINE p == worker[w].order
               f == WorkerFact(w)
    <2>1. /\ order'[p].status = StatusOf(f.kind) /\ f.kind = worker[w].kind /\ f \in Fact
          /\ \A q \in Orders \ {p} : order'[q] = order[q]
      BY <1>0, <1>8, CommitWrites
    <2>2. CASE o # p
      BY <1>1, <2>1, <2>2
    <2>3. CASE o = p
      <3>1. UNCHANGED <<trade, reversal>>
        BY <1>8 DEF Commit, gateway
      <3>2. /\ f.kind \in {"notified_paid", "queried_paid"} => trade[o] \in {"SUCCESS", "REFUND"}
            /\ f.kind = "queried_closed" => trade[o] = "CLOSED"
            /\ f.kind = "refunded" => reversal[o] = "succeeded"
        BY <1>0, <1>8, <2>1, <2>3 DEF Commit, LearnedTrue, Learned
      <3>3. f.kind \in FactKinds
        BY <2>1 DEF Fact
      <3> QED BY <2>1, <2>3, <3>1, <3>2, <3>3 DEF Agrees, StatusOf, FactKinds
    <2> QED BY <2>2, <2>3
  <1> QED BY <1>0, <1>2, <1>3, <1>4, <1>5, <1>6, <1>7, <1>8, Steps

LEMMA RefundRecordTrueStep ==
  ASSUME GInv, [Next]_vars
  PROVE  RefundRecordTrue'
  <1>0. TypeOK /\ LearnedTrue /\ RefundRecordTrue /\ \A o \in Orders : Final(o)
    BY FinalStep DEF GInv, IInv
  <1> SUFFICES ASSUME NEW o \in Orders, refund'[o].status = "succeeded"
               PROVE  reversal'[o] = "succeeded"
    BY DEF RefundRecordTrue
  <1>1. CASE refund'[o] = refund[o]
    BY <1>0, <1>1 DEF RefundRecordTrue, Final
  <1>2. ASSUME NEW w \in Workers, RecordRefund(w) PROVE reversal'[o] = "succeeded"
    <2>1. CASE o = worker[w].order
      <3>1. refund'[o].status = worker[w].answer
        BY <1>0, <1>2, <2>1 DEF RecordRefund, TypeOK
      <3>2. reversal[o] = "succeeded"
        BY <1>0, <2>1, <3>1 DEF LearnedTrue, Learned
      <3> QED BY <1>0, <3>2 DEF Final
    <2>2. CASE o # worker[w].order
      BY <1>0, <1>1, <1>2, <2>2 DEF RecordRefund, TypeOK
    <2> QED BY <2>1, <2>2
  <1>3. ASSUME NEW p \in Orders, Environment(p) PROVE UNCHANGED refund
    BY <1>3 DEF Environment, OpenCharge, BindDispatched, Charge, Reverse, database
  <1>4. ASSUME NEW u \in Users, OperatorGrant(u) \/ OperatorRevoke(u) PROVE UNCHANGED refund
    BY <1>4 DEF OperatorGrant, OperatorRevoke
  <1>5. ASSUME NEW w \in Workers, Arrive(w) PROVE UNCHANGED refund
    BY <1>5 DEF Arrive, ReceiveNotification, LookUpRefund, ReadOrders, ClaimCommand, ReplayClose,
                ReplayRefund, database
  <1>6. ASSUME NEW w \in Workers, Proceed(w) PROVE UNCHANGED refund \/ RecordRefund(w)
    BY <1>6 DEF Proceed, CorrelateNotification, RecoverOrder, OrdersRead, QueryCandidate, Apply,
                Commit, ProviderClose, SettleClose, ProviderRefund, ProviderQueryRefund,
                FinishCommand, CloseAnswered, database
  <1>7. ASSUME NEW w \in Workers, Abandon(w) \/ Release(w) PROVE UNCHANGED refund
    BY <1>7 DEF Abandon, Release, database
  <1> QED BY <1>1, <1>2, <1>3, <1>4, <1>5, <1>6, <1>7 DEF Next, vars, database

LEMMA InitGInv == Init => GInv
  <1> SUFFICES ASSUME Init PROVE GInv
    OBVIOUS
  <1>1. IInv
    BY InitIInv
  <1>2. LearnedTrue
    BY DEF Init, LearnedTrue, Learned, Idle
  <1>3. RefundedWasPaid /\ GatewayAgrees /\ RefundRecordTrue
    BY DEF Init, RefundedWasPaid, GatewayAgrees, RefundRecordTrue
  <1> QED BY <1>1, <1>2, <1>3 DEF GInv

LEMMA GatewayInvariance == Spec => []GInv
  <1>1. ASSUME GInv, [Next]_vars PROVE GInv'
    BY <1>1, NextIInv, LearnedStep, RefundedWasPaidStep, GatewayAgreesStep, RefundRecordTrueStep DEF GInv
  <1> QED BY <1>1, InitGInv, PTL DEF Spec

\* An order is paid, closed or refunded here only once it is at the gateway,
\* and stays in agreement with it.
THEOREM OrdersAgreeWithGateway == Spec => []GatewayAgrees
  <1>1. GInv => GatewayAgrees
    BY DEF GInv
  <1> QED BY <1>1, GatewayInvariance, PTL

\* A refund that is recorded as succeeded has succeeded, however late and in
\* whatever order the answers about it were written down.
THEOREM RefundRecordsTrue == Spec => []RefundRecordTrue
  <1>1. GInv => RefundRecordTrue
    BY DEF GInv
  <1> QED BY <1>1, GatewayInvariance, PTL
=============================================================================
