----------------------------- MODULE OrderDelivery -----------------------------
(***************************************************************************)
(* How a membership order reaches the payment provider: its intent, the    *)
(* dispatcher's lease, the provider call, the binding of what the provider *)
(* answered, and the binding a verified callback makes when the dispatcher *)
(* died (services/account-portfolio/payment_handlers.go).                  *)
(*                                                                         *)
(* A request is a worker; its step is one transaction or one provider      *)
(* call.  A transaction that reads an intent takes the intent's and the    *)
(* order's row locks and holds them until it commits, so it is one step.   *)
(* What happens to a bound order afterwards is MembershipPayments; here it *)
(* is paid or closed by the gateway's word alone.                          *)
(*                                                                         *)
(* The client retries with the Idempotency-Key of the order it created, so *)
(* a key stands for its order.  A worker's name is the id of the lease it  *)
(* claimed: the code draws a fresh one, and no worker compares a lease it  *)
(* has not claimed itself on that order.                                   *)
(***************************************************************************)
EXTENDS Naturals, FiniteSets

CONSTANTS
  Orders,     \* orders clients may create, each with its stable merchant id
  Externals,  \* the provider's own order ids
  External,   \* the id the provider gives each order; EasyPay's are distinct
  Workers,    \* HTTP requests that may be in flight at once
  NoOrder,    \* stands for "no order" in a worker
  NoLease     \* stands for a NULL delivery_lease_id

ASSUME ExternalAssumption == External \in [Orders -> Externals]
ASSUME NoOrderAssumption == NoOrder \notin Orders
ASSUME NoLeaseAssumption == NoLease \notin Workers

VARIABLES
  trade,   \* the provider's view of each order's charge
  sent,    \* orders with a CreateOrder call on its way or arrived
  order,   \* account_portfolio_membership_orders
  intent,  \* account_portfolio_payment_order_intents
  worker   \* the requests in flight

vars == <<trade, sent, order, intent, worker>>

Idle == [pc |-> "idle", order |-> NoOrder, late |-> FALSE]

Becomes(w, r) == worker' = [worker EXCEPT ![w] = r]
Goto(w, pc) == Becomes(w, [worker[w] EXCEPT !.pc = pc])
Return(w) == Becomes(w, Idle)

\* Past its claim and not answered yet.
Dispatching(w, o) ==
  worker[w].order = o /\ worker[w].pc \in {"create", "await", "bind", "giveback", "conflict"}

\* Mutant: an order that only shares the external id counts as having it.
Shared(o) == {p \in Orders \ {o} : External[p] = External[o]}

\* Bound orders that have the external id of o.
Taken(o) == {p \in Orders \ {o} : order[p].bound /\ External[p] = External[o]}

Init ==
  /\ trade = [o \in Orders |-> "absent"]
  /\ sent = {}
  /\ order = [o \in Orders |-> [status |-> "none", bound |-> FALSE]]
  /\ intent = [o \in Orders |-> [state |-> "none", lease |-> NoLease, expired |-> FALSE]]
  /\ worker = [w \in Workers |-> Idle]

-----------------------------------------------------------------------------
(* POST /payment-intents (createMembershipOrder).                          *)

\* persistMembershipOrderIntent: the first request under a key commits the
\* order and its intent, a retry finds them.
PersistIntent(w, o) ==
  /\ worker[w] = Idle
  /\ Becomes(w, [Idle EXCEPT !.pc = "claim", !.order = o])
  /\ \/ /\ order[o].status = "none"
        /\ order' = [order EXCEPT ![o].status = "created"]
        /\ intent' = [intent EXCEPT ![o] = [state |-> "pending", lease |-> NoLease, expired |-> FALSE]]
     \/ /\ order[o].status # "none"
        /\ UNCHANGED <<order, intent>>
  /\ UNCHANGED <<trade, sent>>

\* Mutant: a dispatcher's lease lasts for ever.
ClaimableOnce(o) ==
  /\ ~order[o].bound /\ order[o].status = "created"
  /\ intent[o].state = "pending"

\* An intent to dispatch: undelivered, and no lease on it or an expired one.
Claimable(o) ==
  /\ ~order[o].bound /\ order[o].status = "created"
  /\ \/ intent[o].state = "pending"
     \/ intent[o].state = "dispatching" /\ intent[o].expired

\* claimPaymentOrderDelivery.  A request that does not get the lease answers
\* with the order as it is.
ClaimDelivery(w) ==
  LET o == worker[w].order
  IN /\ worker[w].pc = "claim"
     /\ \/ /\ Claimable(o)
           /\ intent' = [intent EXCEPT ![o] = [state |-> "dispatching", lease |-> w, expired |-> FALSE]]
           /\ Goto(w, "create")
        \/ /\ ~Claimable(o)
           /\ Return(w)
           /\ UNCHANGED intent
     /\ UNCHANGED <<trade, sent, order>>

\* The call leaves; it may reach the provider whatever becomes of the request.
CallCreateOrder(w) ==
  /\ worker[w].pc = "create"
  /\ sent' = sent \cup {worker[w].order}
  /\ Goto(w, "await")
  /\ UNCHANGED <<trade, order, intent>>

\* The provider answers with the order it has under that merchant id, whether
\* it made it just now or long ago.
CreateOrderAnswered(w) ==
  /\ worker[w].pc = "await" /\ trade[worker[w].order] # "absent"
  /\ Goto(w, "bind")
  /\ UNCHANGED <<trade, sent, order, intent>>

\* Signing fails, the call fails or times out, or its answer does not do.
ProviderFails(w) ==
  /\ worker[w].pc \in {"create", "await"}
  /\ Goto(w, "giveback")
  /\ UNCHANGED <<trade, sent, order, intent>>

\* Mutant: an order is bound whatever has become of it.
BindableInAnyStatus(o) == TRUE

Bindable(o) == order[o].status = "created"

BindTo(o) ==
  /\ order' = [order EXCEPT ![o] = [status |-> "pending_payment", bound |-> TRUE]]
  /\ intent' = [intent EXCEPT ![o] = [state |-> "delivered", lease |-> NoLease, expired |-> FALSE]]

\* bindProviderOrder for the dispatcher: only under the lease it claimed.
BindDispatched(w) ==
  LET o == worker[w].order
      holdsLease == intent[o].state = "dispatching" /\ intent[o].lease = w
  IN /\ worker[w].pc = "bind"
     /\ \/ /\ order[o].bound
           /\ Return(w)
           /\ UNCHANGED <<order, intent>>
        \/ /\ ~order[o].bound /\ ~(Bindable(o) /\ holdsLease)
           /\ Goto(w, "giveback")
           /\ UNCHANGED <<order, intent>>
        \/ /\ ~order[o].bound /\ Bindable(o) /\ holdsLease /\ Taken(o) # {}
           /\ Goto(w, "conflict")
           /\ UNCHANGED <<order, intent>>
        \/ /\ ~order[o].bound /\ Bindable(o) /\ holdsLease /\ Taken(o) = {}
           /\ BindTo(o)
           /\ Return(w)
     /\ UNCHANGED <<trade, sent>>

\* Mutant: a dispatcher decides under anybody's lease.
OwnsAnyLease(w) ==
  ~order[worker[w].order].bound /\ intent[worker[w].order].state = "dispatching"

\* A dispatcher that is done decides about its order only under its own lease.
OwnsDispatch(w) ==
  LET o == worker[w].order
  IN ~order[o].bound /\ intent[o].state = "dispatching" /\ intent[o].lease = w

Released == [state |-> "pending", lease |-> NoLease, expired |-> FALSE]

\* recordRecoverableDeliveryFailure.
RecordRecoverableFailure(w) ==
  LET o == worker[w].order
  IN /\ worker[w].pc = "giveback"
     /\ intent' = IF OwnsDispatch(w) THEN [intent EXCEPT ![o] = Released] ELSE intent
     /\ Return(w)
     /\ UNCHANGED <<trade, sent, order>>

\* failConflictedPaymentOrderIntent.
FailConflicted(w) ==
  LET o == worker[w].order
  IN /\ worker[w].pc = "conflict"
     /\ \/ /\ OwnsDispatch(w) /\ order[o].status = "created"
           /\ order' = [order EXCEPT ![o].status = "failed"]
           /\ intent' = [intent EXCEPT ![o] = [Released EXCEPT !.state = "failed"]]
        \/ /\ ~(OwnsDispatch(w) /\ order[o].status = "created")
           /\ UNCHANGED <<order, intent>>
     /\ Return(w)
     /\ UNCHANGED <<trade, sent>>

-----------------------------------------------------------------------------
(* A verified callback (recoverProviderOrderFromNotification).             *)

\* The provider reports a paid charge, as often as it likes, and its query
\* agrees.
ReceiveNotification(w, o) ==
  /\ worker[w] = Idle /\ trade[o] = "SUCCESS"
  /\ Becomes(w, [Idle EXCEPT !.pc = "lookup", !.order = o])
  /\ UNCHANGED <<trade, sent, order, intent>>

\* An external id that some order has is not recovered.
LookUpExternal(w) ==
  LET o == worker[w].order
  IN /\ worker[w].pc = "lookup"
     /\ IF order[o].bound \/ Taken(o) # {} THEN Return(w) ELSE Goto(w, "recover")
     /\ UNCHANGED <<trade, sent, order, intent>>

\* Mutant: a callback waits for the dispatcher's lease.
RecoverableUnleased(o) == intent[o].state = "pending"

Recoverable(o) == intent[o].state \in {"pending", "dispatching"}

\* bindProviderOrder for the callback: no lease, any undelivered intent.  What
\* cannot be bound any more is an error, and the provider reports again.
BindRecovered(w) ==
  LET o == worker[w].order
      free == ~order[o].bound /\ Bindable(o) /\ Recoverable(o) /\ Taken(o) = {}
  IN /\ worker[w].pc = "recover"
     /\ \/ free /\ BindTo(o)
        \/ ~free /\ UNCHANGED <<order, intent>>
     /\ Return(w)
     /\ UNCHANGED <<trade, sent>>

-----------------------------------------------------------------------------
(* Outside: the provider, the buyer, the clock, and what                   *)
(* MembershipPayments does with the order.                                 *)

\* A CreateOrder call arrives.
OpenCharge(o) ==
  /\ o \in sent /\ trade[o] = "absent"
  /\ trade' = [trade EXCEPT ![o] = "NOTPAY"]
  /\ UNCHANGED <<sent, order, intent, worker>>

\* The buyer pays; or the charge expires or an operator closes it there.
Charge(o) ==
  /\ trade[o] = "NOTPAY"
  /\ \E s \in {"SUCCESS", "CLOSED"} : trade' = [trade EXCEPT ![o] = s]
  /\ UNCHANGED <<sent, order, intent, worker>>

\* An operator's close settles locally what the gateway has closed; it leaves
\* the intent as it is, with the lease a dispatcher may hold on it.
SettleClose(o) ==
  /\ trade[o] = "CLOSED" /\ order[o].status \in {"created", "pending_payment"}
  /\ order' = [order EXCEPT ![o].status = "closed"]
  /\ UNCHANGED <<trade, sent, intent, worker>>

\* A payment fact about a bound order is applied.
RecordPayment(o) ==
  /\ trade[o] = "SUCCESS" /\ order[o].bound /\ order[o].status = "pending_payment"
  /\ order' = [order EXCEPT ![o].status = "paid"]
  /\ UNCHANGED <<trade, sent, intent, worker>>

\* Thirty seconds have passed since w claimed o, which w may not have survived.
LeaseRunsOut(w, o) ==
  /\ \/ intent[o].lease = w /\ ~intent[o].expired
     \/ Dispatching(w, o) /\ ~worker[w].late
  /\ intent' = [intent EXCEPT ![o].expired = @ \/ intent[o].lease = w]
  /\ worker' = [worker EXCEPT ![w].late = @ \/ Dispatching(w, o)]
  /\ UNCHANGED <<trade, sent, order>>

\* A request dies between two of its steps; its committed work stays.
Abandon(w) ==
  /\ worker[w].pc \notin {"idle", "lost"}
  /\ Becomes(w, [Idle EXCEPT !.pc = "lost"])
  /\ UNCHANGED <<trade, sent, order, intent>>

Release(w) ==
  /\ worker[w].pc = "lost"
  /\ Return(w)
  /\ UNCHANGED <<trade, sent, order, intent>>

-----------------------------------------------------------------------------

Environment(o) == OpenCharge(o) \/ Charge(o) \/ SettleClose(o) \/ RecordPayment(o)

Proceed(w) ==
  \/ ClaimDelivery(w) \/ CallCreateOrder(w) \/ CreateOrderAnswered(w)
  \/ BindDispatched(w) \/ RecordRecoverableFailure(w) \/ FailConflicted(w)
  \/ LookUpExternal(w) \/ BindRecovered(w)

Next ==
  \/ \E o \in Orders : Environment(o)
  \/ \E w \in Workers :
       \/ \E o \in Orders : PersistIntent(w, o) \/ ReceiveNotification(w, o) \/ LeaseRunsOut(w, o)
       \/ Proceed(w) \/ ProviderFails(w) \/ Abandon(w) \/ Release(w)

Spec == Init /\ [][Next]_vars

Outlived(w, o) == Dispatching(w, o) /\ LeaseRunsOut(w, o)

\* Outages end, an accepted request runs on, a call that was sent arrives, and
\* time passes.  A dispatch fits into its lease again once calls do not hang:
\* the provider's client gives up after ten seconds, the lease lasts thirty.
\* Without that two clients could take the lease from one another for ever.
FairSpec ==
  /\ Spec
  /\ <>[][\A w \in Workers : ~Abandon(w) /\ ~ProviderFails(w)]_vars
  /\ <>[][\A w \in Workers, o \in Orders : ~Outlived(w, o)]_vars
  /\ \A w \in Workers : WF_vars(Proceed(w)) /\ WF_vars(Release(w))
  /\ \A o \in Orders : WF_vars(OpenCharge(o))
  /\ \A w \in Workers, o \in Orders : WF_vars(LeaseRunsOut(w, o))

\* A client that got an error or an undelivered order tries its key again.
ClientsRetry == \A o \in Orders : SF_vars(\E w \in Workers : PersistIntent(w, o))

\* The provider repeats a notification nobody has accepted.
ProviderRepeats == \A o \in Orders : SF_vars(\E w \in Workers : ReceiveNotification(w, o))

-----------------------------------------------------------------------------
(* Properties.                                                             *)

Trades == {"absent", "NOTPAY", "SUCCESS", "CLOSED"}
Statuses == {"none", "created", "pending_payment", "paid", "closed", "failed"}
OrderRows == [status : Statuses, bound : BOOLEAN]
IntentRows ==
  {r \in [state : {"none", "pending", "dispatching", "delivered", "failed"},
          lease : Workers \cup {NoLease}, expired : BOOLEAN] :
     r.state = "dispatching" <=> r.lease \in Workers}
WorkerStates ==
  {r \in [pc : {"idle", "claim", "create", "await", "bind", "giveback", "conflict",
                "lookup", "recover", "lost"},
          order : Orders \cup {NoOrder}, late : BOOLEAN] :
     r.pc \notin {"idle", "lost"} => r.order \in Orders}

\* Every row and every request has its type; an intent has a lease exactly
\* while it is being dispatched (the schema's delivery_lease_shape).
TypeOK ==
  /\ trade \in [Orders -> Trades]
  /\ sent \subseteq Orders
  /\ order \in [Orders -> OrderRows]
  /\ intent \in [Orders -> IntentRows]
  /\ worker \in [Workers -> WorkerStates]

\* "The short-lived lease makes concurrent idempotency retries observe one
\* active dispatch": two requests dispatch one order at once only if one of
\* them has outlived its lease, however leases were lost and given back.
OneTimelyDispatcher ==
  \A v, w \in Workers : \A o \in Orders :
    v # w /\ Dispatching(v, o) /\ Dispatching(w, o) => worker[v].late \/ worker[w].late

\* The two tables agree: an intent is delivered exactly when its order is bound
\* and failed exactly when its order is, whichever of dispatcher, callback and
\* operator got there first.
IntentFollowsOrder ==
  \A o \in Orders :
    /\ intent[o].state = "delivered" <=> order[o].bound
    /\ intent[o].state = "failed" <=> order[o].status = "failed"
    /\ order[o].status \in {"pending_payment", "paid"} => order[o].bound

\* "Do not fail it locally: a retry or a verified callback can attach it":
\* money taken for an order that is not bound can still be attached to it,
\* unless another order has the same external id.
PaidStaysBindable ==
  \A o \in Orders :
    trade[o] = "SUCCESS" /\ ~order[o].bound =>
      \/ order[o].status = "created" /\ intent[o].state \in {"pending", "dispatching"}
      \/ \E p \in Orders \ {o} : order[p].bound /\ External[p] = External[o]

\* No two orders are bound to one order of the provider.
OneOrderPerExternal ==
  \A o, p \in Orders :
    o # p /\ order[o].bound /\ order[p].bound => External[o] # External[p]

\* An order is given up as conflicting only if another one really has its
\* external id, even though that is decided in an earlier transaction.
FailedOnlyIfTaken ==
  \A o \in Orders :
    order[o].status = "failed" =>
      \E p \in Orders \ {o} : order[p].bound /\ External[p] = External[o]

\* What MembershipPayments takes for granted about its environment: a charge
\* opens only for an order that is still created, and only a created order
\* with a charge is bound, which makes it pending.  An order that has left
\* "created" is the payment kernel's alone: who comes late with a bind or a
\* failure writes over nothing.
PaymentsEnvironment ==
  [][\A o \in Orders :
       /\ trade[o] = "absent" /\ trade'[o] # "absent" =>
            order[o].status = "created" /\ trade'[o] = "NOTPAY"
       /\ ~order[o].bound /\ order'[o].bound =>
            /\ order[o].status = "created" /\ order'[o].status = "pending_payment"
            /\ trade[o] # "absent"
       /\ order[o].bound => order'[o].bound
       /\ order[o].status \notin {"none", "created", order'[o].status} =>
            order[o].status = "pending_payment" /\ order'[o].status \in {"paid", "closed"}]_vars

\* An order whose client keeps retrying gets past "created": a dispatcher that
\* died with the lease does not block it for ever.
EventuallyDelivered ==
  ClientsRetry =>
    \A o \in Orders : order[o].status = "created" ~> order[o].status # "created"

\* A paid charge is attached to its order by the provider's callbacks alone
\* (to another order only if that has the same external id).
PaidEventuallyBound ==
  ProviderRepeats =>
    \A o \in Orders :
      trade[o] = "SUCCESS" ~> \E p \in Orders : order[p].bound /\ External[p] = External[o]
=============================================================================
