-------------------------- MODULE OrderDeliveryProofs --------------------------
(***************************************************************************)
(* What TLAPS proves about the delivery of orders to the provider, for any *)
(* number of orders and requests and any way the provider names orders.    *)
(***************************************************************************)
EXTENDS OrderDelivery, TLAPS

-----------------------------------------------------------------------------
(* Types.                                                                  *)

LEMMA BecomesTyped ==
  ASSUME TypeOK, NEW w \in Workers, NEW r \in WorkerStates, Becomes(w, r)
  PROVE  worker' \in [Workers -> WorkerStates]
  BY DEF Becomes, TypeOK

LEMMA ReturnTyped ==
  ASSUME TypeOK, NEW w \in Workers, Return(w)
  PROVE  worker' \in [Workers -> WorkerStates]
  <1>1. Idle \in WorkerStates
    BY DEF Idle, WorkerStates
  <1> QED BY <1>1, BecomesTyped DEF Return

\* A request that is about an order.
LEMMA StartTyped ==
  ASSUME TypeOK, NEW w \in Workers, NEW o \in Orders, NEW pc \in {"claim", "lookup"},
         Becomes(w, [Idle EXCEPT !.pc = pc, !.order = o])
  PROVE  worker' \in [Workers -> WorkerStates]
  <1>1. [Idle EXCEPT !.pc = pc, !.order = o] \in WorkerStates
    BY DEF Idle, WorkerStates
  <1> QED BY <1>1, BecomesTyped

\* A request past its first step knows its order.
LEMMA InFlight ==
  ASSUME TypeOK, NEW w \in Workers, worker[w].pc \notin {"idle", "lost"}
  PROVE  worker[w].order \in Orders /\ worker[w] \in WorkerStates
  BY DEF TypeOK, WorkerStates

LEMMA GotoTyped ==
  ASSUME TypeOK, NEW w \in Workers, worker[w].pc \notin {"idle", "lost"},
         NEW pc \in {"create", "await", "bind", "giveback", "conflict", "recover"}, Goto(w, pc)
  PROVE  worker' \in [Workers -> WorkerStates]
  <1>1. [worker[w] EXCEPT !.pc = pc] \in WorkerStates
    BY InFlight DEF WorkerStates
  <1> QED BY <1>1, BecomesTyped DEF Goto

LEMMA InitTyped == Init => TypeOK
  BY NoLeaseAssumption DEF Init, TypeOK, Trades, OrderRows, Statuses, IntentRows, WorkerStates, Idle

\* Rows the transactions write.
LEMMA IntentTyped ==
  ASSUME TypeOK, NEW o \in Orders, NEW r \in IntentRows
  PROVE  [intent EXCEPT ![o] = r] \in [Orders -> IntentRows]
  BY DEF TypeOK

LEMMA OrderTyped ==
  ASSUME TypeOK, NEW o \in Orders, NEW r \in OrderRows
  PROVE  [order EXCEPT ![o] = r] \in [Orders -> OrderRows]
  BY DEF TypeOK

LEMMA StatusTyped ==
  ASSUME TypeOK, NEW o \in Orders, NEW s \in Statuses
  PROVE  [order EXCEPT ![o].status = s] \in [Orders -> OrderRows]
  BY DEF TypeOK, OrderRows

LEMMA BindTyped ==
  ASSUME TypeOK, NEW o \in Orders, BindTo(o)
  PROVE  order' \in [Orders -> OrderRows] /\ intent' \in [Orders -> IntentRows]
  <1>1. [status |-> "pending_payment", bound |-> TRUE] \in OrderRows
    BY DEF OrderRows, Statuses
  <1>2. [state |-> "delivered", lease |-> NoLease, expired |-> FALSE] \in IntentRows
    BY NoLeaseAssumption DEF IntentRows
  <1> QED BY <1>1, <1>2, OrderTyped, IntentTyped DEF BindTo

LEMMA EnvironmentTyped ==
  ASSUME TypeOK, NEW o \in Orders, Environment(o)
  PROVE  TypeOK'
  <1>1. CASE OpenCharge(o)
    BY <1>1 DEF OpenCharge, TypeOK, Trades
  <1>2. CASE Charge(o)
    BY <1>2 DEF Charge, TypeOK, Trades
  <1>3. CASE SettleClose(o)
    <2>1. order' \in [Orders -> OrderRows]
      BY <1>3, StatusTyped DEF SettleClose, Statuses
    <2> QED BY <1>3, <2>1 DEF SettleClose, TypeOK
  <1>4. CASE RecordPayment(o)
    <2>1. order' \in [Orders -> OrderRows]
      BY <1>4, StatusTyped DEF RecordPayment, Statuses
    <2> QED BY <1>4, <2>1 DEF RecordPayment, TypeOK
  <1> QED BY <1>1, <1>2, <1>3, <1>4 DEF Environment

LEMMA PersistTyped ==
  ASSUME TypeOK, NEW w \in Workers, NEW o \in Orders, PersistIntent(w, o)
  PROVE  TypeOK'
  <1>1. worker' \in [Workers -> WorkerStates]
    BY StartTyped DEF PersistIntent
  <1>2. CASE order[o].status = "none"
    <2>0. [state |-> "pending", lease |-> NoLease, expired |-> FALSE] \in IntentRows
      BY NoLeaseAssumption DEF IntentRows
    <2>1. order' = [order EXCEPT ![o].status = "created"]
      BY <1>2 DEF PersistIntent
    <2>2. order' \in [Orders -> OrderRows]
      BY <2>1, StatusTyped DEF Statuses
    <2>3. intent' \in [Orders -> IntentRows]
      BY <1>2, <2>0, IntentTyped DEF PersistIntent
    <2> QED BY <1>1, <2>2, <2>3 DEF PersistIntent, TypeOK
  <1>3. CASE order[o].status # "none"
    BY <1>1, <1>3 DEF PersistIntent, TypeOK
  <1> QED BY <1>2, <1>3

LEMMA ReleasedTyped ==
  Released \in IntentRows /\ [Released EXCEPT !.state = "failed"] \in IntentRows
  BY NoLeaseAssumption DEF Released, IntentRows

LEMMA ProceedTyped ==
  ASSUME TypeOK, NEW w \in Workers, Proceed(w)
  PROVE  TypeOK'
  <1> DEFINE o == worker[w].order
  <1>0. worker[w].pc \notin {"idle", "lost"}
    BY DEF Proceed, ClaimDelivery, CallCreateOrder, CreateOrderAnswered, BindDispatched,
           RecordRecoverableFailure, FailConflicted, LookUpExternal, BindRecovered
  <1>a. o \in Orders
    BY <1>0, InFlight
  <1>1. CASE ClaimDelivery(w)
    <2>1. CASE Claimable(o)
      <3>1. [state |-> "dispatching", lease |-> w, expired |-> FALSE] \in IntentRows
        BY DEF IntentRows
      <3>2. intent' \in [Orders -> IntentRows]
        BY <1>1, <2>1, <1>a, <3>1, IntentTyped DEF ClaimDelivery
      <3>3. worker' \in [Workers -> WorkerStates]
        BY <1>0, <1>1, <2>1, GotoTyped DEF ClaimDelivery
      <3> QED BY <1>1, <3>2, <3>3 DEF ClaimDelivery, TypeOK
    <2>2. CASE ~Claimable(o)
      BY <1>1, <2>2, ReturnTyped DEF ClaimDelivery, TypeOK
    <2> QED BY <2>1, <2>2
  <1>2. CASE CallCreateOrder(w)
    <2>1. worker' \in [Workers -> WorkerStates]
      BY <1>0, <1>2, GotoTyped DEF CallCreateOrder
    <2> QED BY <1>2, <1>a, <2>1 DEF CallCreateOrder, TypeOK
  <1>3. CASE CreateOrderAnswered(w)
    <2>1. worker' \in [Workers -> WorkerStates]
      BY <1>0, <1>3, GotoTyped DEF CreateOrderAnswered
    <2> QED BY <1>3, <2>1 DEF CreateOrderAnswered, TypeOK
  <1>4. CASE BindDispatched(w)
    <2>1. worker' \in [Workers -> WorkerStates]
      BY <1>0, <1>4, GotoTyped, ReturnTyped DEF BindDispatched
    <2>2. order' \in [Orders -> OrderRows] /\ intent' \in [Orders -> IntentRows]
      BY <1>4, <1>a, BindTyped DEF BindDispatched, TypeOK
    <2> QED BY <1>4, <2>1, <2>2 DEF BindDispatched, TypeOK
  <1>5. CASE RecordRecoverableFailure(w)
    <2>1. intent' \in [Orders -> IntentRows]
      BY <1>5, <1>a, ReleasedTyped, IntentTyped DEF RecordRecoverableFailure, TypeOK
    <2>2. worker' \in [Workers -> WorkerStates]
      BY <1>5, ReturnTyped DEF RecordRecoverableFailure
    <2> QED BY <1>5, <2>1, <2>2 DEF RecordRecoverableFailure, TypeOK
  <1>6. CASE FailConflicted(w)
    <2>1. intent' \in [Orders -> IntentRows]
      BY <1>6, <1>a, ReleasedTyped, IntentTyped DEF FailConflicted, TypeOK
    <2>2. worker' \in [Workers -> WorkerStates]
      BY <1>6, ReturnTyped DEF FailConflicted
    <2>3. order' \in [Orders -> OrderRows]
      <3>1. CASE UNCHANGED order
        BY <3>1 DEF TypeOK
      <3>2. CASE order' = [order EXCEPT ![o].status = "failed"]
        BY <3>2, <1>a, StatusTyped DEF Statuses
      <3> QED BY <1>6, <3>1, <3>2 DEF FailConflicted
    <2> QED BY <1>6, <2>1, <2>2, <2>3 DEF FailConflicted, TypeOK
  <1>7. CASE LookUpExternal(w)
    <2>1. worker' \in [Workers -> WorkerStates]
      BY <1>0, <1>7, GotoTyped, ReturnTyped DEF LookUpExternal
    <2> QED BY <1>7, <2>1 DEF LookUpExternal, TypeOK
  <1>8. CASE BindRecovered(w)
    <2>1. worker' \in [Workers -> WorkerStates]
      BY <1>8, ReturnTyped DEF BindRecovered
    <2>2. order' \in [Orders -> OrderRows] /\ intent' \in [Orders -> IntentRows]
      BY <1>8, <1>a, BindTyped DEF BindRecovered, TypeOK
    <2> QED BY <1>8, <2>1, <2>2 DEF BindRecovered, TypeOK
  <1> QED BY <1>1, <1>2, <1>3, <1>4, <1>5, <1>6, <1>7, <1>8 DEF Proceed

\* Time passes, the provider fails, a request dies.
LEMMA InterruptTyped ==
  ASSUME TypeOK, NEW w \in Workers,
         \/ \E o \in Orders : ReceiveNotification(w, o) \/ LeaseRunsOut(w, o)
         \/ ProviderFails(w) \/ Abandon(w) \/ Release(w)
  PROVE  TypeOK'
  <1>1. ASSUME NEW o \in Orders, ReceiveNotification(w, o) PROVE TypeOK'
    <2>1. worker' \in [Workers -> WorkerStates]
      BY <1>1, StartTyped DEF ReceiveNotification
    <2> QED BY <1>1, <2>1 DEF ReceiveNotification, TypeOK
  <1>2. ASSUME NEW o \in Orders, LeaseRunsOut(w, o) PROVE TypeOK'
    <2>1. [intent[o] EXCEPT !.expired = @ \/ intent[o].lease = w] \in IntentRows
      BY DEF TypeOK, IntentRows
    <2>2. [worker[w] EXCEPT !.late = @ \/ Dispatching(w, o)] \in WorkerStates
      BY DEF TypeOK, WorkerStates, Dispatching
    <2>3. intent' \in [Orders -> IntentRows] /\ worker' \in [Workers -> WorkerStates]
      BY <1>2, <2>1, <2>2 DEF LeaseRunsOut, TypeOK
    <2> QED BY <1>2, <2>3 DEF LeaseRunsOut, TypeOK
  <1>3. CASE ProviderFails(w)
    <2>1. worker' \in [Workers -> WorkerStates]
      BY <1>3, GotoTyped DEF ProviderFails
    <2> QED BY <1>3, <2>1 DEF ProviderFails, TypeOK
  <1>4. CASE Abandon(w)
    <2>1. [Idle EXCEPT !.pc = "lost"] \in WorkerStates
      BY DEF Idle, WorkerStates
    <2> QED BY <1>4, <2>1, BecomesTyped DEF Abandon, TypeOK
  <1>5. CASE Release(w)
    BY <1>5, ReturnTyped DEF Release, TypeOK
  <1> QED BY <1>1, <1>2, <1>3, <1>4, <1>5

LEMMA NextTyped ==
  ASSUME TypeOK, [Next]_vars
  PROVE  TypeOK'
  <1>1. CASE UNCHANGED vars
    BY <1>1 DEF vars, TypeOK
  <1>2. CASE Next
    BY <1>2, EnvironmentTyped, PersistTyped, ProceedTyped, InterruptTyped DEF Next
  <1> QED BY <1>1, <1>2

\* Type correctness of the orders, intents and requests.
THEOREM DeliveryTypeCorrect == Spec => []TypeOK
  BY InitTyped, NextTyped, PTL DEF Spec

-----------------------------------------------------------------------------
(* The tables agree with one another and with the provider.                *)

\* An intent exists with its order, and a bound order has been dispatched.
Persisted ==
  \A o \in Orders :
    /\ order[o].status = "none" <=> intent[o].state = "none"
    /\ order[o].status \in {"none", "created"} => ~order[o].bound

\* No charge without a call, no call without an order; an order that got
\* anywhere has a charge, and a closed one has a closed charge.
Opened ==
  \A o \in Orders :
    /\ trade[o] # "absent" => o \in sent
    /\ o \in sent => order[o].status # "none"
    /\ order[o].status \notin {"none", "created"} => trade[o] # "absent"
    /\ order[o].status = "closed" => trade[o] = "CLOSED"

TablesInv == Persisted /\ IntentFollowsOrder /\ Opened

\* What a request has learned stays true while it acts on it.
RequestKnows ==
  \A w \in Workers :
    /\ worker[w].pc \notin {"idle", "lost"} => order[worker[w].order].status # "none"
    /\ worker[w].pc \in {"bind", "conflict", "lookup", "recover"} => trade[worker[w].order] # "absent"

LEMMA InitTables == Init => TablesInv /\ RequestKnows
  BY DEF Init, TablesInv, Persisted, IntentFollowsOrder, Opened, RequestKnows, Idle

LEMMA EnvironmentTables ==
  ASSUME TypeOK, TablesInv, NEW o \in Orders, Environment(o)
  PROVE  TablesInv'
  <1> USE DEF TablesInv, Persisted, IntentFollowsOrder, Opened, TypeOK, Trades, OrderRows
  <1>1. CASE OpenCharge(o)
    BY <1>1 DEF OpenCharge
  <1>2. CASE Charge(o)
    BY <1>2 DEF Charge
  <1>3. CASE SettleClose(o)
    BY <1>3 DEF SettleClose
  <1>4. CASE RecordPayment(o)
    BY <1>4 DEF RecordPayment
  <1> QED BY <1>1, <1>2, <1>3, <1>4 DEF Environment

LEMMA BindTables ==
  ASSUME TypeOK, TablesInv, NEW o \in Orders, order[o].status = "created", trade[o] # "absent",
         BindTo(o), UNCHANGED <<trade, sent>>
  PROVE  TablesInv'
  BY DEF BindTo, TablesInv, Persisted, IntentFollowsOrder, Opened, TypeOK, OrderRows, IntentRows

\* A step that leaves the tables alone.
LEMMA SameTables ==
  ASSUME TablesInv, UNCHANGED <<trade, sent, order, intent>>
  PROVE  TablesInv'
  BY DEF TablesInv, Persisted, IntentFollowsOrder, Opened

LEMMA PersistTables ==
  ASSUME TypeOK, TablesInv, NEW w \in Workers, NEW o \in Orders, PersistIntent(w, o)
  PROVE  TablesInv'
  <1>1. CASE UNCHANGED <<order, intent>>
    BY <1>1, SameTables DEF PersistIntent
  <1>2. CASE order[o].status = "none"
    <2> DEFINE row == [state |-> "pending", lease |-> NoLease, expired |-> FALSE]
    <2>1. /\ order' = [order EXCEPT ![o].status = "created"]
          /\ intent' = [intent EXCEPT ![o] = row]
          /\ UNCHANGED <<trade, sent>>
      BY <1>2 DEF PersistIntent
    <2>2. order'[o].status = "created" /\ order'[o].bound = order[o].bound /\ intent'[o].state = "pending"
      BY <2>1 DEF TypeOK, OrderRows
    <2>3. \A p \in Orders \ {o} : order'[p] = order[p] /\ intent'[p] = intent[p]
      BY <2>1 DEF TypeOK
    <2>4. ~order[o].bound
      BY <1>2 DEF TablesInv, Persisted
    <2> HIDE DEF row
    <2> QED BY <1>2, <2>1, <2>2, <2>3, <2>4 DEF TablesInv, Persisted, IntentFollowsOrder, Opened
  <1> QED BY <1>1, <1>2 DEF PersistIntent

LEMMA ProceedTables ==
  ASSUME TypeOK, TablesInv, RequestKnows, NEW w \in Workers, Proceed(w)
  PROVE  TablesInv'
  <1> DEFINE o == worker[w].order
  <1>0. worker[w].pc \notin {"idle", "lost"}
    BY DEF Proceed, ClaimDelivery, CallCreateOrder, CreateOrderAnswered, BindDispatched,
           RecordRecoverableFailure, FailConflicted, LookUpExternal, BindRecovered
  <1>a. o \in Orders
    BY <1>0, InFlight
  <1>b. order[o].status # "none"
    BY <1>0 DEF RequestKnows
  <1>1. CASE ClaimDelivery(w)
    <2>1. CASE UNCHANGED intent
      BY <1>1, <2>1, SameTables DEF ClaimDelivery
    <2>2. CASE Claimable(o) /\ intent' = [intent EXCEPT ![o] = [state |-> "dispatching", lease |-> w, expired |-> FALSE]]
      <3>1. /\ ~order[o].bound /\ order[o].status = "created"
            /\ UNCHANGED <<trade, sent, order>>
        BY <1>1, <2>2 DEF ClaimDelivery, Claimable
      <3>2. intent'[o].state = "dispatching" /\ \A p \in Orders \ {o} : intent'[p] = intent[p]
        BY <2>2, <1>a DEF TypeOK
      <3> QED BY <3>1, <3>2 DEF TablesInv, Persisted, IntentFollowsOrder, Opened
    <2> QED BY <1>1, <2>1, <2>2 DEF ClaimDelivery
  <1>2. CASE CallCreateOrder(w)
    BY <1>2, <1>a, <1>b
    DEF CallCreateOrder, TablesInv, Persisted, IntentFollowsOrder, Opened
  <1>3. CASE CreateOrderAnswered(w) \/ LookUpExternal(w)
    BY <1>3, SameTables DEF CreateOrderAnswered, LookUpExternal
  <1>4. CASE BindDispatched(w)
    <2>1. trade[o] # "absent"
      BY <1>4 DEF BindDispatched, RequestKnows
    <2> QED BY <1>4, <1>a, <2>1, BindTables, SameTables DEF BindDispatched, Bindable
  <1>5. CASE RecordRecoverableFailure(w)
    BY <1>5, <1>a, SameTables
    DEF RecordRecoverableFailure, OwnsDispatch, Released, TablesInv, Persisted, IntentFollowsOrder, Opened,
        TypeOK, OrderRows, IntentRows
  <1>6. CASE FailConflicted(w)
    <2>1. trade[o] # "absent"
      BY <1>6 DEF FailConflicted, RequestKnows
    <2>2. CASE UNCHANGED <<order, intent>>
      BY <1>6, <2>2, SameTables DEF FailConflicted
    <2>3. CASE OwnsDispatch(w) /\ order' = [order EXCEPT ![o].status = "failed"]
               /\ intent' = [intent EXCEPT ![o] = [Released EXCEPT !.state = "failed"]]
      <3>1. /\ ~order[o].bound
            /\ order'[o].status = "failed" /\ order'[o].bound = order[o].bound
            /\ \A p \in Orders \ {o} : order'[p] = order[p]
        BY <2>3, <1>a DEF OwnsDispatch, TypeOK, OrderRows
      <3>2. intent'[o].state = "failed" /\ \A p \in Orders \ {o} : intent'[p] = intent[p]
        BY <2>3, <1>a DEF TypeOK, Released
      <3>3. UNCHANGED <<trade, sent>>
        BY <1>6 DEF FailConflicted
      <3> QED BY <1>b, <2>1, <3>1, <3>2, <3>3 DEF TablesInv, Persisted, IntentFollowsOrder, Opened
    <2> QED BY <1>6, <2>2, <2>3 DEF FailConflicted
  <1>7. CASE BindRecovered(w)
    <2>1. trade[o] # "absent"
      BY <1>7 DEF BindRecovered, RequestKnows
    <2> QED BY <1>7, <1>a, <2>1, BindTables, SameTables DEF BindRecovered, Bindable
  <1> QED BY <1>1, <1>2, <1>3, <1>4, <1>5, <1>6, <1>7 DEF Proceed

LEMMA InterruptTables ==
  ASSUME TypeOK, TablesInv, NEW w \in Workers,
         \/ \E o \in Orders : ReceiveNotification(w, o) \/ LeaseRunsOut(w, o)
         \/ ProviderFails(w) \/ Abandon(w) \/ Release(w)
  PROVE  TablesInv'
  <1>1. ASSUME NEW o \in Orders, LeaseRunsOut(w, o) PROVE TablesInv'
    <2>1. \A p \in Orders : intent'[p].state = intent[p].state
      BY <1>1 DEF LeaseRunsOut, TypeOK, IntentRows
    <2> QED BY <1>1, <2>1 DEF LeaseRunsOut, TablesInv, Persisted, IntentFollowsOrder, Opened
  <1>2. CASE UNCHANGED <<trade, sent, order, intent>>
    BY <1>2, SameTables
  <1> QED BY <1>1, <1>2 DEF ReceiveNotification, ProviderFails, Abandon, Release

\* Orders and charges move on: what a request learned of them stays true.
OrdersMoveOn ==
  \A o \in Orders :
    /\ order[o].status # "none" => order'[o].status # "none"
    /\ order[o].bound => order'[o].bound
    /\ trade[o] # "absent" => trade'[o] # "absent"

LEMMA MoveOn ==
  ASSUME TypeOK, Next
  PROVE  OrdersMoveOn
  <1> USE DEF OrdersMoveOn, TypeOK, OrderRows
  <1>1. ASSUME NEW o \in Orders, Environment(o) PROVE OrdersMoveOn
    BY <1>1 DEF Environment, OpenCharge, Charge, SettleClose, RecordPayment
  <1>2. ASSUME NEW w \in Workers, NEW o \in Orders, PersistIntent(w, o) PROVE OrdersMoveOn
    BY <1>2 DEF PersistIntent
  <1>3. ASSUME NEW w \in Workers, Proceed(w) PROVE OrdersMoveOn
    BY <1>3 DEF Proceed, ClaimDelivery, CallCreateOrder, CreateOrderAnswered, BindDispatched, BindTo,
           RecordRecoverableFailure, FailConflicted, LookUpExternal, BindRecovered
  <1>4. CASE UNCHANGED <<trade, order>>
    BY <1>4
  <1> QED BY <1>1, <1>2, <1>3, <1>4
      DEF Next, ReceiveNotification, LeaseRunsOut, ProviderFails, Abandon, Release

LEMMA KnowledgeStep ==
  ASSUME TypeOK, TablesInv, RequestKnows, Next
  PROVE  RequestKnows'
  <1> USE DEF RequestKnows
  <1>0. OrdersMoveOn
    BY MoveOn
  <1>1. ASSUME NEW v \in Workers, NEW w \in Workers, NEW r,
               Becomes(w, r),
               r.pc \notin {"idle", "lost"} => r.order \in Orders /\ order'[r.order].status # "none",
               r.pc \in {"bind", "conflict", "lookup", "recover"} => trade'[r.order] # "absent"
        PROVE  /\ worker'[v].pc \notin {"idle", "lost"} => order'[worker'[v].order].status # "none"
               /\ worker'[v].pc \in {"bind", "conflict", "lookup", "recover"} => trade'[worker'[v].order] # "absent"
    <2>1. CASE v = w
      BY <1>1, <2>1 DEF Becomes, TypeOK
    <2>2. CASE v # w
      <3>1. worker'[v] = worker[v]
        BY <1>1, <2>2 DEF Becomes, TypeOK
      <3> QED BY <1>0, <3>1, InFlight DEF OrdersMoveOn
    <2> QED BY <2>1, <2>2
  <1>2. ASSUME NEW w \in Workers, NEW r,
               Becomes(w, r),
               r.pc \notin {"idle", "lost"} => r.order \in Orders /\ order'[r.order].status # "none",
               r.pc \in {"bind", "conflict", "lookup", "recover"} => trade'[r.order] # "absent"
        PROVE  RequestKnows'
    BY <1>1, <1>2
  <1>3. ASSUME NEW w \in Workers, Return(w) \/ Abandon(w)
        PROVE  RequestKnows'
    <2>1. CASE Return(w)
      BY <2>1, <1>2 DEF Return, Idle
    <2>2. CASE Abandon(w)
      BY <2>2, <1>2 DEF Abandon, Idle
    <2> QED BY <1>3, <2>1, <2>2
  <1>4. ASSUME NEW w \in Workers, worker[w].pc \notin {"idle", "lost"},
               NEW pc \in {"create", "await", "giveback", "bind", "conflict", "recover"},
               pc \in {"bind", "conflict", "recover"} => trade[worker[w].order] # "absent",
               Goto(w, pc)
        PROVE  RequestKnows'
    <2> DEFINE r == [worker[w] EXCEPT !.pc = pc]
    <2>1. r.pc = pc /\ r.order = worker[w].order /\ worker[w].order \in Orders
      BY <1>4, InFlight DEF WorkerStates
    <2>2. Becomes(w, r)
      BY <1>4 DEF Goto
    <2>3. order'[r.order].status # "none" /\ (trade[r.order] # "absent" => trade'[r.order] # "absent")
      BY <1>0, <1>4, <2>1 DEF OrdersMoveOn
    <2> HIDE DEF r
    <2> QED BY <1>2, <1>4, <2>1, <2>2, <2>3
  <1>5. ASSUME NEW o \in Orders, Environment(o) PROVE RequestKnows'
    <2>1. worker' = worker
      BY <1>5 DEF Environment, OpenCharge, Charge, SettleClose, RecordPayment
    <2> QED BY <1>0, <2>1, InFlight DEF OrdersMoveOn
  <1>6. ASSUME NEW w \in Workers, NEW o \in Orders, PersistIntent(w, o) PROVE RequestKnows'
    <2> DEFINE r == [Idle EXCEPT !.pc = "claim", !.order = o]
    <2>1. r.pc = "claim" /\ r.order = o /\ Becomes(w, r)
      BY <1>6 DEF PersistIntent, Idle
    <2>2. order'[o].status # "none"
      BY <1>6 DEF PersistIntent, TypeOK, OrderRows
    <2> HIDE DEF r
    <2> QED BY <1>2, <2>1, <2>2
  <1>7. ASSUME NEW w \in Workers, NEW o \in Orders, ReceiveNotification(w, o) PROVE RequestKnows'
    <2> DEFINE r == [Idle EXCEPT !.pc = "lookup", !.order = o]
    <2>1. r.pc = "lookup" /\ r.order = o /\ Becomes(w, r)
      BY <1>7 DEF ReceiveNotification, Idle
    <2>2. trade'[o] # "absent" /\ order'[o].status # "none"
      BY <1>7 DEF ReceiveNotification, TablesInv, Opened
    <2> HIDE DEF r
    <2> QED BY <1>2, <2>1, <2>2
  <1>8. ASSUME NEW w \in Workers, NEW o \in Orders, LeaseRunsOut(w, o) PROVE RequestKnows'
    <2>1. \A v \in Workers : worker'[v].pc = worker[v].pc /\ worker'[v].order = worker[v].order
      BY <1>8 DEF LeaseRunsOut, TypeOK, WorkerStates
    <2> QED BY <1>8, <2>1 DEF LeaseRunsOut
  <1>9. ASSUME NEW w \in Workers, Proceed(w) \/ ProviderFails(w) PROVE RequestKnows'
    <2>1. CASE ClaimDelivery(w)
      BY <2>1, <1>3, <1>4 DEF ClaimDelivery
    <2>2. CASE CallCreateOrder(w)
      BY <2>2, <1>4 DEF CallCreateOrder
    <2>3. CASE CreateOrderAnswered(w)
      BY <2>3, <1>4 DEF CreateOrderAnswered
    <2>4. CASE BindDispatched(w)
      BY <2>4, <1>3, <1>4 DEF BindDispatched
    <2>5. CASE LookUpExternal(w)
      BY <2>5, <1>3, <1>4 DEF LookUpExternal
    <2>6. CASE RecordRecoverableFailure(w) \/ FailConflicted(w) \/ BindRecovered(w)
      BY <2>6, <1>3 DEF RecordRecoverableFailure, FailConflicted, BindRecovered
    <2>7. CASE ProviderFails(w)
      BY <2>7, <1>4 DEF ProviderFails
    <2> QED BY <1>9, <2>1, <2>2, <2>3, <2>4, <2>5, <2>6, <2>7 DEF Proceed
  <1> QED BY <1>3, <1>5, <1>6, <1>7, <1>8, <1>9 DEF Next, Release

-----------------------------------------------------------------------------
(* Orders that share an external id.                                       *)

Rivals(o) == {p \in Orders \ {o} : order[p].bound /\ External[p] = External[o]}

\* A request that is about to give its order up has seen the other one bound,
\* and what is bound stays bound.
ConflictKnown ==
  \A w \in Workers, o \in Orders :
    worker[w].pc = "conflict" /\ worker[w].order = o => Rivals(o) # {}

ExternalInv == OneOrderPerExternal /\ ConflictKnown /\ FailedOnlyIfTaken

LEMMA InitExternal == Init => ExternalInv
  BY DEF Init, ExternalInv, OneOrderPerExternal, ConflictKnown, FailedOnlyIfTaken, Idle

\* Nobody gets bound to an external id that is taken.
LEMMA OneOrderStep ==
  ASSUME TypeOK, OneOrderPerExternal, Next
  PROVE  OneOrderPerExternal'
  <1> USE DEF OneOrderPerExternal
  <1>1. ASSUME NEW o \in Orders, Taken(o) = {}, BindTo(o) PROVE OneOrderPerExternal'
    BY <1>1 DEF BindTo, Taken, TypeOK
  <1>2. ASSUME \A o \in Orders : order'[o].bound = order[o].bound PROVE OneOrderPerExternal'
    BY <1>2
  <1>3. ASSUME NEW o \in Orders, Environment(o) PROVE OneOrderPerExternal'
    <2>1. \A p \in Orders : order'[p].bound = order[p].bound
      BY <1>3 DEF Environment, OpenCharge, Charge, SettleClose, RecordPayment, TypeOK, OrderRows
    <2> QED BY <1>2, <2>1
  <1>4. ASSUME NEW w \in Workers, NEW o \in Orders, PersistIntent(w, o) PROVE OneOrderPerExternal'
    <2>1. \A p \in Orders : order'[p].bound = order[p].bound
      BY <1>4 DEF PersistIntent, TypeOK, OrderRows
    <2> QED BY <1>2, <2>1
  <1>5. ASSUME NEW w \in Workers, BindDispatched(w) \/ BindRecovered(w) PROVE OneOrderPerExternal'
    <2>1. worker[w].order \in Orders
      BY <1>5, InFlight DEF BindDispatched, BindRecovered
    <2> QED BY <1>1, <1>2, <1>5, <2>1 DEF BindDispatched, BindRecovered
  <1>6. ASSUME NEW w \in Workers, FailConflicted(w) PROVE OneOrderPerExternal'
    <2>1. \A p \in Orders : order'[p].bound = order[p].bound
      BY <1>6 DEF FailConflicted, TypeOK, OrderRows
    <2> QED BY <1>2, <2>1
  <1>7. CASE UNCHANGED order
    BY <1>2, <1>7
  <1> QED BY <1>3, <1>4, <1>5, <1>6, <1>7
      DEF Next, Proceed, ClaimDelivery, CallCreateOrder, CreateOrderAnswered, RecordRecoverableFailure,
          LookUpExternal, ReceiveNotification, LeaseRunsOut, ProviderFails, Abandon, Release

LEMMA RivalsStay ==
  ASSUME TypeOK, Next, NEW o \in Orders, Rivals(o) # {}
  PROVE  Rivals(o)' # {}
  BY MoveOn DEF OrdersMoveOn, Rivals

\* Only BindDispatched reaches the conflict, and it has just seen the rival.
LEMMA ConflictStep ==
  ASSUME TypeOK, ConflictKnown, Next
  PROVE  ConflictKnown'
  <1> SUFFICES ASSUME NEW w \in Workers, NEW o \in Orders,
                      worker'[w].pc = "conflict", worker'[w].order = o
               PROVE  Rivals(o)' # {}
    BY DEF ConflictKnown, Rivals
  <1>1. CASE worker[w].pc = "conflict" /\ worker'[w].order = worker[w].order
    BY <1>1, RivalsStay DEF ConflictKnown
  <1>2. CASE BindDispatched(w) /\ Goto(w, "conflict")
    <2>1. worker[w].order = o
      BY <1>2 DEF Goto, Becomes, TypeOK, WorkerStates
    <2>2. Taken(o) # {}
      <3>1. \A pc : pc # "conflict" => ~Goto(w, pc)
        BY DEF Goto, Becomes, TypeOK, WorkerStates
      <3>2. ~Return(w)
        BY DEF Return, Becomes, Idle, TypeOK
      <3> QED BY <1>2, <2>1, <3>1, <3>2 DEF BindDispatched
    <2>3. Rivals(o) # {}
      BY <2>2 DEF Taken, Rivals
    <2> QED BY <2>3, RivalsStay
  <1>3. \/ worker'[w].pc = worker[w].pc /\ worker'[w].order = worker[w].order
        \/ BindDispatched(w) /\ Goto(w, "conflict")
    <2>1. ASSUME NEW v \in Workers, NEW r, Becomes(v, r), r.pc # "conflict"
          PROVE  worker'[w] = worker[w]
      BY <2>1 DEF Becomes, TypeOK
    <2>2. ASSUME NEW v \in Workers, Return(v) PROVE worker'[w] = worker[w]
      BY <2>2, <2>1 DEF Return, Idle
    <2>3. ASSUME NEW v \in Workers, NEW pc, pc # "conflict", Goto(v, pc) PROVE worker'[w] = worker[w]
      <3>1. [worker[v] EXCEPT !.pc = pc].pc = pc
        BY DEF TypeOK, WorkerStates
      <3> QED BY <2>1, <2>3, <3>1 DEF Goto
    <2>4. ASSUME NEW p \in Orders, Environment(p) PROVE worker'[w] = worker[w]
      BY <2>4 DEF Environment, OpenCharge, Charge, SettleClose, RecordPayment
    <2>5. ASSUME NEW v \in Workers, NEW p \in Orders, PersistIntent(v, p) \/ ReceiveNotification(v, p)
          PROVE  worker'[w] = worker[w]
      BY <2>5, <2>1 DEF PersistIntent, ReceiveNotification, Idle
    <2>6. ASSUME NEW v \in Workers, NEW p \in Orders, LeaseRunsOut(v, p)
          PROVE  worker'[w].pc = worker[w].pc /\ worker'[w].order = worker[w].order
      BY <2>6 DEF LeaseRunsOut, TypeOK, WorkerStates
    <2>7. ASSUME NEW v \in Workers, Abandon(v) PROVE worker'[w] = worker[w]
      BY <2>7, <2>1 DEF Abandon, Idle
    <2>8. ASSUME NEW v \in Workers, BindDispatched(v)
          PROVE  worker'[w] = worker[w] \/ (BindDispatched(w) /\ Goto(w, "conflict"))
      <3>1. CASE Goto(v, "conflict")
        <4>1. CASE v = w
          BY <2>8, <3>1, <4>1
        <4>2. CASE v # w
          BY <3>1, <4>2 DEF Goto, Becomes, TypeOK
        <4> QED BY <4>1, <4>2
      <3> QED BY <2>8, <2>2, <2>3, <3>1 DEF BindDispatched
    <2>9. ASSUME NEW v \in Workers, Proceed(v) \/ ProviderFails(v) \/ Release(v), ~BindDispatched(v)
          PROVE  worker'[w] = worker[w]
      BY <2>9, <2>2, <2>3
      DEF Proceed, ProviderFails, Release, ClaimDelivery, CallCreateOrder, CreateOrderAnswered,
          RecordRecoverableFailure, FailConflicted, LookUpExternal, BindRecovered
    <2> QED BY <2>4, <2>5, <2>6, <2>7, <2>8, <2>9 DEF Next
  <1> QED BY <1>1, <1>2, <1>3

LEMMA FailedStep ==
  ASSUME TypeOK, ConflictKnown, FailedOnlyIfTaken, Next
  PROVE  FailedOnlyIfTaken'
  <1> SUFFICES ASSUME NEW o \in Orders, order'[o].status = "failed"
               PROVE  Rivals(o)' # {}
    BY DEF FailedOnlyIfTaken, Rivals
  <1>1. CASE order[o].status = "failed"
    BY <1>1, RivalsStay DEF FailedOnlyIfTaken, Rivals
  <1>2. ASSUME NEW w \in Workers, FailConflicted(w), worker[w].order = o
        PROVE  Rivals(o)' # {}
    <2>1. Rivals(o) # {}
      BY <1>2 DEF FailConflicted, ConflictKnown
    <2> QED BY <2>1, RivalsStay
  <1>3. order[o].status = "failed" \/ \E w \in Workers : FailConflicted(w) /\ worker[w].order = o
    <2>1. ASSUME NEW p \in Orders, Environment(p) PROVE order[o].status = "failed"
      BY <2>1 DEF Environment, OpenCharge, Charge, SettleClose, RecordPayment, TypeOK, OrderRows
    <2>2. ASSUME NEW w \in Workers, NEW p \in Orders, PersistIntent(w, p) PROVE order[o].status = "failed"
      BY <2>2 DEF PersistIntent, TypeOK, OrderRows
    <2>3. ASSUME NEW w \in Workers, BindDispatched(w) \/ BindRecovered(w) PROVE order[o].status = "failed"
      BY <2>3 DEF BindDispatched, BindRecovered, BindTo, TypeOK
    <2>4. ASSUME NEW w \in Workers, FailConflicted(w)
          PROVE  order[o].status = "failed" \/ worker[w].order = o
      BY <2>4 DEF FailConflicted, TypeOK, OrderRows
    <2>5. CASE UNCHANGED order
      BY <2>5
    <2> QED BY <2>1, <2>2, <2>3, <2>4, <2>5
        DEF Next, Proceed, ClaimDelivery, CallCreateOrder, CreateOrderAnswered, RecordRecoverableFailure,
            LookUpExternal, ReceiveNotification, LeaseRunsOut, ProviderFails, Abandon, Release
  <1> QED BY <1>1, <1>2, <1>3

-----------------------------------------------------------------------------
(* Leases.                                                                 *)

\* A dispatcher within its thirty seconds has the lease, unless a callback
\* bound its order: nobody takes a lease away before it runs out.
TimelyHoldsLease ==
  \A w \in Workers, o \in Orders :
    Dispatching(w, o) /\ ~worker[w].late =>
      order[o].bound \/ (intent[o].lease = w /\ ~intent[o].expired)

\* Nobody else dispatches when a lease is claimed.
LEMMA ClaimAlone ==
  ASSUME TypeOK, TimelyHoldsLease, NEW w \in Workers, NEW o \in Orders, Claimable(o), Dispatching(w, o)
  PROVE  worker[w].late
  BY NoLeaseAssumption DEF TypeOK, TimelyHoldsLease, Claimable, IntentRows

LeaseInv == TimelyHoldsLease /\ OneTimelyDispatcher

LEMMA InitLease == Init => LeaseInv
  BY DEF Init, LeaseInv, TimelyHoldsLease, OneTimelyDispatcher, Dispatching, Idle

\* A step that gives nobody a lease and takes no timely dispatcher's away.
LeaseKept ==
  /\ \A w \in Workers, o \in Orders :
       Dispatching(w, o)' /\ ~worker'[w].late => Dispatching(w, o) /\ ~worker[w].late
  /\ \A w \in Workers, o \in Orders :
       Dispatching(w, o)' /\ ~worker'[w].late /\ intent[o].lease = w /\ ~intent[o].expired =>
         order'[o].bound \/ (intent'[o].lease = w /\ ~intent'[o].expired)

LEMMA LeaseKeptStep ==
  ASSUME TypeOK, LeaseInv, OrdersMoveOn, LeaseKept
  PROVE  LeaseInv'
  <1>1. TimelyHoldsLease'
    BY DEF LeaseInv, TimelyHoldsLease, LeaseKept, OrdersMoveOn
  <1>2. OneTimelyDispatcher'
    BY DEF LeaseInv, OneTimelyDispatcher, LeaseKept
  <1> QED BY <1>1, <1>2 DEF LeaseInv

\* A request that changes and is not dispatching afterwards, or dispatched the
\* same order before.
LEMMA ReturnKeepsLeases ==
  ASSUME TypeOK, NEW w \in Workers, Return(w) \/ Abandon(w), NEW v \in Workers, NEW o \in Orders,
         Dispatching(v, o)'
  PROVE  v # w /\ worker'[v] = worker[v]
  BY DEF Return, Abandon, Becomes, Idle, Dispatching, TypeOK

LEMMA GotoKeepsLeases ==
  ASSUME TypeOK, NEW w \in Workers, NEW pc,
         worker[w].pc \in {"create", "await", "bind", "giveback", "conflict"} \/ pc = "recover",
         Goto(w, pc), NEW v \in Workers, NEW o \in Orders, Dispatching(v, o)'
  PROVE  Dispatching(v, o) /\ worker'[v].late = worker[v].late
  BY DEF Goto, Becomes, Dispatching, TypeOK, WorkerStates

LEMMA LeaseStep ==
  ASSUME TypeOK, TablesInv, RequestKnows, LeaseInv, Next
  PROVE  LeaseInv'
  <1>0. OrdersMoveOn
    BY MoveOn
  <1>1. ASSUME NEW w \in Workers, Return(w) \/ Abandon(w), UNCHANGED intent PROVE LeaseKept
    BY <1>1, ReturnKeepsLeases DEF LeaseKept, Dispatching
  <1>2. ASSUME NEW w \in Workers, NEW pc, Goto(w, pc), UNCHANGED intent,
               worker[w].pc \in {"create", "await", "bind", "giveback", "conflict"} \/ pc = "recover"
        PROVE  LeaseKept
    BY <1>2, GotoKeepsLeases DEF LeaseKept
  <1>3. ASSUME NEW o \in Orders, Environment(o) PROVE LeaseKept
    BY <1>3 DEF Environment, OpenCharge, Charge, SettleClose, RecordPayment, LeaseKept, Dispatching
  <1>4. ASSUME NEW w \in Workers, NEW o \in Orders, PersistIntent(w, o) \/ ReceiveNotification(w, o)
        PROVE  LeaseKept
    <2> DEFINE r == worker'[w]
    <2>1. r.pc \in {"claim", "lookup"} /\ \A v \in Workers \ {w} : worker'[v] = worker[v]
      BY <1>4 DEF PersistIntent, ReceiveNotification, Becomes, Idle, TypeOK
    <2>2. \A v \in Workers, p \in Orders :
            Dispatching(v, p)' => Dispatching(v, p) /\ worker'[v].late = worker[v].late /\ worker[v].order = p
      BY <2>1 DEF Dispatching
    <2>3. \A v \in Workers, p \in Orders : Dispatching(v, p) => order[p].status # "none"
      BY DEF Dispatching, RequestKnows
    <2>4. \A p \in Orders : order[p].status # "none" => intent'[p] = intent[p]
      BY <1>4 DEF PersistIntent, ReceiveNotification, TypeOK
    <2> QED BY <2>2, <2>3, <2>4 DEF LeaseKept
  <1>5. ASSUME NEW w \in Workers, NEW o \in Orders, LeaseRunsOut(w, o) PROVE LeaseKept
    <2>1. \A v \in Workers : worker'[v].pc = worker[v].pc /\ worker'[v].order = worker[v].order
      BY <1>5 DEF LeaseRunsOut, TypeOK, WorkerStates
    <2>2. \A v \in Workers, p \in Orders : Dispatching(v, p)' <=> Dispatching(v, p)
      BY <2>1 DEF Dispatching
    <2>3. \A v \in Workers : ~worker'[v].late => ~worker[v].late
      BY <1>5 DEF LeaseRunsOut, TypeOK, WorkerStates
    <2>4. Dispatching(w, o) => worker'[w].late
      BY <1>5 DEF LeaseRunsOut, TypeOK, WorkerStates
    <2>5. \A p \in Orders : intent'[p].lease = intent[p].lease
      BY <1>5 DEF LeaseRunsOut, TypeOK, IntentRows
    <2>6. \A p \in Orders : intent'[p].expired => intent[p].expired \/ (p = o /\ intent[o].lease = w)
      BY <1>5 DEF LeaseRunsOut, TypeOK, IntentRows
    <2> QED BY <2>2, <2>3, <2>4, <2>5, <2>6, ZenonT(30) DEF LeaseKept
  <1>6. ASSUME NEW w \in Workers, BindDispatched(w) \/ BindRecovered(w) PROVE LeaseKept
    <2>1. CASE UNCHANGED intent
      BY <1>1, <1>2, <1>6, <2>1 DEF BindDispatched, BindRecovered
    <2>2. CASE BindTo(worker[w].order) /\ Return(w)
      <3>1. worker[w].order \in Orders
        BY <1>6, InFlight DEF BindDispatched, BindRecovered
      <3>2. \A p \in Orders : order'[p].bound \/ intent'[p] = intent[p]
        BY <2>2, <3>1 DEF BindTo, TypeOK
      <3> QED BY <2>2, <3>2, ReturnKeepsLeases DEF LeaseKept, Dispatching
    <2> QED BY <1>6, <2>1, <2>2 DEF BindDispatched, BindRecovered
  <1>7. ASSUME NEW w \in Workers, RecordRecoverableFailure(w) \/ FailConflicted(w) PROVE LeaseKept
    <2>1. \A p \in Orders : intent'[p] = intent[p] \/ intent[p].lease = w
      <3>1. worker[w].order \in Orders
        BY <1>7, InFlight DEF RecordRecoverableFailure, FailConflicted
      <3> QED BY <1>7, <3>1 DEF RecordRecoverableFailure, FailConflicted, OwnsDispatch, TypeOK
    <2>2. Return(w)
      BY <1>7 DEF RecordRecoverableFailure, FailConflicted
    <2> QED BY <2>1, <2>2, ReturnKeepsLeases DEF LeaseKept, Dispatching
  <1>8. ASSUME NEW w \in Workers, ClaimDelivery(w) PROVE LeaseKept \/ LeaseInv'
    <2> DEFINE o == worker[w].order
    <2>1. CASE ~Claimable(o)
      BY <1>1, <1>8, <2>1 DEF ClaimDelivery
    <2>2. CASE Claimable(o)
      <3>1. o \in Orders
        BY <1>8, InFlight DEF ClaimDelivery
      <3>2. /\ intent'[o].lease = w /\ ~intent'[o].expired
            /\ \A p \in Orders \ {o} : intent'[p] = intent[p]
        BY <1>8, <2>2, <3>1 DEF ClaimDelivery, TypeOK
      <3>3. worker'[w].order = o /\ \A v \in Workers \ {w} : worker'[v] = worker[v]
        BY <1>8, <2>2 DEF ClaimDelivery, Goto, Becomes, TypeOK, WorkerStates
      <3>4. \A v \in Workers \ {w} : Dispatching(v, o)' => worker'[v].late
        BY <2>2, <3>1, <3>3, ClaimAlone DEF Dispatching, LeaseInv
      <3>5. \A v \in Workers \ {w}, p \in Orders : Dispatching(v, p)' <=> Dispatching(v, p)
        BY <3>3 DEF Dispatching
      <3>6. \A p \in Orders : Dispatching(w, p)' => p = o
        BY <3>3 DEF Dispatching
      <3>7. TimelyHoldsLease'
        BY <1>0, <3>2, <3>3, <3>4, <3>5, <3>6 DEF LeaseInv, TimelyHoldsLease, OrdersMoveOn
      <3>8. OneTimelyDispatcher'
        BY <3>3, <3>4, <3>5, <3>6 DEF LeaseInv, OneTimelyDispatcher
      <3> QED BY <3>7, <3>8 DEF LeaseInv
    <2> QED BY <2>1, <2>2
  <1>9. ASSUME NEW w \in Workers,
               CallCreateOrder(w) \/ CreateOrderAnswered(w) \/ LookUpExternal(w) \/ ProviderFails(w)
                 \/ Abandon(w) \/ Release(w)
        PROVE  LeaseKept
    BY <1>9, <1>1, <1>2 DEF CallCreateOrder, CreateOrderAnswered, LookUpExternal, ProviderFails, Abandon, Release
  <1>10. LeaseKept \/ LeaseInv'
    BY <1>3, <1>4, <1>5, <1>6, <1>7, <1>8, <1>9 DEF Next, Proceed
  <1> QED BY <1>0, <1>10, LeaseKeptStep

-----------------------------------------------------------------------------
(* The theorems.                                                           *)

IInv == TypeOK /\ TablesInv /\ RequestKnows /\ ExternalInv /\ LeaseInv

LEMMA NextIInv ==
  ASSUME IInv, [Next]_vars
  PROVE  IInv'
  <1>1. CASE UNCHANGED vars
    BY <1>1 DEF vars, IInv, TypeOK, TablesInv, Persisted, IntentFollowsOrder, Opened, RequestKnows,
                ExternalInv, OneOrderPerExternal, ConflictKnown, Rivals, FailedOnlyIfTaken,
                LeaseInv, TimelyHoldsLease, OneTimelyDispatcher, Dispatching
  <1>2. CASE Next
    <2> USE <1>2 DEF IInv
    <2>1. TypeOK'
      BY NextTyped
    <2>2. TablesInv'
      BY EnvironmentTables, PersistTables, ProceedTables, InterruptTables DEF Next
    <2>3. RequestKnows'
      BY KnowledgeStep
    <2>4. ExternalInv'
      BY OneOrderStep, ConflictStep, FailedStep DEF ExternalInv
    <2>5. LeaseInv'
      BY LeaseStep
    <2> QED BY <2>1, <2>2, <2>3, <2>4, <2>5
  <1> QED BY <1>1, <1>2

LEMMA Invariance == Spec => []IInv
  <1>1. Init => IInv
    BY InitTyped, InitTables, InitExternal, InitLease DEF IInv
  <1> QED BY <1>1, NextIInv, PTL DEF Spec

\* However leases expire, get lost and are given back, two requests dispatch
\* one order at once only if one of them has outlived its lease.
THEOREM OneDispatcher == Spec => []OneTimelyDispatcher
  <1>1. IInv => OneTimelyDispatcher
    BY DEF IInv, LeaseInv
  <1> QED BY <1>1, Invariance, PTL

\* Whoever bound or failed an order, its intent says the same.
THEOREM IntentsFollowOrders == Spec => []IntentFollowsOrder
  <1>1. IInv => IntentFollowsOrder
    BY DEF IInv, TablesInv
  <1> QED BY <1>1, Invariance, PTL

\* Money taken for an order that is not bound can still be attached to it.
THEOREM PaidCanBeAttached == Spec => []PaidStaysBindable
  <1>1. IInv => PaidStaysBindable
    <2> SUFFICES ASSUME IInv, NEW o \in Orders, trade[o] = "SUCCESS", ~order[o].bound,
                        order[o].status # "failed"
                 PROVE  order[o].status = "created" /\ intent[o].state \in {"pending", "dispatching"}
      BY DEF PaidStaysBindable, IInv, ExternalInv, FailedOnlyIfTaken
    <2>1. order[o].status \notin {"none", "closed"}
      BY DEF IInv, TablesInv, Opened
    <2>2. order[o].status = "created"
      BY <2>1 DEF IInv, TypeOK, OrderRows, Statuses, TablesInv, IntentFollowsOrder
    <2>3. intent[o].state \notin {"none", "delivered", "failed"}
      BY <2>2 DEF IInv, TablesInv, Persisted, IntentFollowsOrder
    <2> QED BY <2>2, <2>3 DEF IInv, TypeOK, IntentRows
  <1> QED BY <1>1, Invariance, PTL

\* No two orders are bound to one order of the provider.
THEOREM ExternalsUnique == Spec => []OneOrderPerExternal
  <1>1. IInv => OneOrderPerExternal
    BY DEF IInv, ExternalInv
  <1> QED BY <1>1, Invariance, PTL

\* An order given up as conflicting has a rival that is bound.
THEOREM ConflictsAreReal == Spec => []FailedOnlyIfTaken
  <1>1. IInv => FailedOnlyIfTaken
    BY DEF IInv, ExternalInv
  <1> QED BY <1>1, Invariance, PTL

PaymentsStep(o) ==
  /\ trade[o] = "absent" /\ trade'[o] # "absent" =>
       order[o].status = "created" /\ trade'[o] = "NOTPAY"
  /\ ~order[o].bound /\ order'[o].bound =>
       /\ order[o].status = "created" /\ order'[o].status = "pending_payment"
       /\ trade[o] # "absent"
  /\ order[o].bound => order'[o].bound
  /\ order[o].status \notin {"none", "created", order'[o].status} =>
       order[o].status = "pending_payment" /\ order'[o].status \in {"paid", "closed"}

LEMMA PaymentsSteps ==
  ASSUME IInv, [Next]_vars, NEW o \in Orders
  PROVE  PaymentsStep(o)
  <1> USE DEF PaymentsStep
  <1>1. CASE UNCHANGED <<trade, order>>
    BY <1>1
  <1>2. ASSUME NEW p \in Orders, Environment(p) PROVE PaymentsStep(o)
    <2>1. trade[p] = "absent" /\ p \in sent => order[p].status = "created"
      BY DEF IInv, TablesInv, Opened
    <2> QED BY <1>2, <2>1 DEF Environment, OpenCharge, Charge, SettleClose, RecordPayment, IInv, TypeOK, OrderRows
  <1>3. ASSUME NEW w \in Workers, NEW p \in Orders, PersistIntent(w, p) PROVE PaymentsStep(o)
    BY <1>3 DEF PersistIntent, IInv, TypeOK, OrderRows
  <1>4. ASSUME NEW w \in Workers, BindDispatched(w) \/ BindRecovered(w) PROVE PaymentsStep(o)
    <2>1. trade[worker[w].order] # "absent" /\ worker[w].order \in Orders
      BY <1>4, InFlight DEF BindDispatched, BindRecovered, IInv, RequestKnows
    <2> QED BY <1>4, <2>1 DEF BindDispatched, BindRecovered, BindTo, Bindable, IInv, TypeOK
  <1>5. ASSUME NEW w \in Workers, FailConflicted(w) PROVE PaymentsStep(o)
    BY <1>5 DEF FailConflicted, IInv, TypeOK, OrderRows
  <1> QED BY <1>1, <1>2, <1>3, <1>4, <1>5
      DEF Next, Proceed, ClaimDelivery, CallCreateOrder, CreateOrderAnswered, RecordRecoverableFailure,
          LookUpExternal, ReceiveNotification, LeaseRunsOut, ProviderFails, Abandon, Release, vars

\* The environment MembershipPayments assumes of the dispatcher is the one this
\* component is.
THEOREM EnvironmentDischarged == Spec => PaymentsEnvironment
  <1>1. IInv /\ [Next]_vars => \A o \in Orders : PaymentsStep(o)
    BY PaymentsSteps
  <1>2. IInv /\ [Next]_vars =>
          [\A o \in Orders :
             /\ trade[o] = "absent" /\ trade'[o] # "absent" =>
                  order[o].status = "created" /\ trade'[o] = "NOTPAY"
             /\ ~order[o].bound /\ order'[o].bound =>
                  /\ order[o].status = "created" /\ order'[o].status = "pending_payment"
                  /\ trade[o] # "absent"
             /\ order[o].bound => order'[o].bound
             /\ order[o].status \notin {"none", "created", order'[o].status} =>
                  order[o].status = "pending_payment" /\ order'[o].status \in {"paid", "closed"}]_vars
    BY <1>1 DEF PaymentsStep
  <1> QED BY <1>2, Invariance, PTL DEF Spec, PaymentsEnvironment
=============================================================================
