------------------------- MODULE MembershipPayments -------------------------
(***************************************************************************)
(* The payment kernel of services/account-portfolio: how a provider's      *)
(* verified statement about an order becomes a payment fact, an order      *)
(* transition and a membership, while callbacks, owner reads and operator  *)
(* commands run concurrently and any of them may die between two steps.    *)
(*                                                                         *)
(* Every HTTP request is a worker.  A worker's step is one database        *)
(* transaction or one provider call, so another worker runs between any    *)
(* two of them.  applyVerifiedPaymentNotification alone is two steps: it   *)
(* takes the order's row lock first and the membership's lock later, and   *)
(* under READ COMMITTED nobody sees its order before it commits.           *)
(*                                                                         *)
(* Left out as data: amounts, plan and currency (constants of the one      *)
(* product), row versions (a command with a stale expected version changes *)
(* nothing), notifications and audits (written, never read by the kernel). *)
(***************************************************************************)
EXTENDS Naturals, FiniteSets

CONSTANTS
  Users,      \* account owners
  Orders,     \* membership orders whose intent is persisted
  Owner,      \* the user of each order
  Workers,    \* HTTP requests that may be in flight at once
  Keys,       \* Idempotency-Keys operators use
  Requests,   \* the kinds of request in play, a subset of RequestKinds
  NoOrder     \* stands for "no order" in a worker or a membership

RequestKinds == {"notify", "reconcile", "close", "refund", "lookup", "membership"}

ASSUME OwnerAssumption == Owner \in [Orders -> Users]
ASSUME RequestsAssumption == Requests \subseteq RequestKinds
ASSUME NoOrderAssumption == NoOrder \notin Orders

VARIABLES
  trade,      \* the gateway's view of each order's charge
  reversal,   \* the gateway's view of each order's refund
  order,      \* account_portfolio_membership_orders
  facts,      \* account_portfolio_payment_facts
  member,     \* account_portfolio_memberships
  events,     \* account_portfolio_membership_events of source 'payment'
  refund,     \* account_portfolio_membership_order_refunds
  command,    \* account_portfolio_command_idempotency, console operations
  worker      \* the requests in flight

gateway == <<trade, reversal>>
database == <<order, facts, member, events, refund, command>>
vars == <<gateway, database, worker>>

-----------------------------------------------------------------------------
(* Rows.                                                                   *)

Statuses == {"created", "pending_payment", "paid", "closed", "failed", "refunded"}

\* A fact is identified by its provider event id, which is unique and names
\* the source of the statement and the order: easypay:<trade>:paid,
\* query:<provider>:<order>:<status>, easypay-refund-<order>.
FactKinds == {"notified_paid", "queried_paid", "queried_closed", "refunded"}
Fact == [kind : FactKinds, order : Orders]
NoFact == [kind |-> "none", order |-> NoOrder]

StatusOf(kind) ==
  CASE kind \in {"notified_paid", "queried_paid"} -> "paid"
    [] kind = "queried_closed" -> "closed"
    [] OTHER -> "refunded"

\* Mutant: stages counted from zero.
SequenceFromZero(kind) == IF kind = "refunded" THEN 1 ELSE 0

\* easyPayPaidSequence and easyPayRefundSequence.
SequenceOf(kind) == IF kind = "refunded" THEN 2 ELSE 1

TransitionAllowed(from, to) ==
  \/ from = "created" /\ to \in {"pending_payment", "failed", "closed"}
  \/ from = "pending_payment"
       /\ to \in {"pending_payment", "paid", "closed", "failed", "refunded"}
  \/ from = "paid" /\ to = "refunded"

PaidFacts == {f \in facts : StatusOf(f.kind) = "paid"}

ReversalStatuses == {"processing", "succeeded", "closed", "abnormal"}

NoCommand == [op |-> "none", order |-> NoOrder, stored |-> FALSE]

Idle == [pc |-> "idle", op |-> "none", order |-> NoOrder, key |-> "none",
         kind |-> "none", answer |-> "none", revoked |-> FALSE, todo |-> {}]

-----------------------------------------------------------------------------
(* Control of a request.                                                   *)

\* The rows FOR UPDATE holds across the two steps of an application.
Unlocked(o) == \A w \in Workers : ~(worker[w].pc = "commit" /\ worker[w].order = o)

Becomes(w, r) == worker' = [worker EXCEPT ![w] = r]

At(w, pc, ops) == worker[w].pc = pc /\ worker[w].op \in ops

Goto(w, pc) == Becomes(w, [worker[w] EXCEPT !.pc = pc])

\* An answer, or an error: the handler returns and nothing of it stays.
Return(w) == Becomes(w, Idle)

\* After its fact is dealt with a request goes on with its handler's tail.
AfterApply(w, revoked) ==
  CASE worker[w].op = "notify" -> Return(w)
    [] worker[w].op = "reconcile" ->
         Becomes(w, [worker[w] EXCEPT !.pc = "query", !.order = NoOrder, !.kind = "none"])
    [] OTHER ->
         Becomes(w, [worker[w] EXCEPT !.pc = "record", !.revoked = revoked])

-----------------------------------------------------------------------------
(* Outside the service: the buyer, the gateway and the dispatcher.         *)

Init ==
  /\ trade = [o \in Orders |-> "absent"]
  /\ reversal = [o \in Orders |-> "none"]
  /\ order = [o \in Orders |-> [status |-> "created", seq |-> 0, bound |-> FALSE]]
  /\ facts = {}
  /\ member = [u \in Users |-> [plan |-> "free", source |-> "initial", fact |-> NoFact]]
  /\ events = {}
  /\ refund = [o \in Orders |-> [status |-> "none", revoked |-> FALSE]]
  /\ command = [k \in Keys |-> NoCommand]
  /\ worker = [w \in Workers |-> Idle]

\* The dispatcher's CreateOrder reaches the gateway.
OpenCharge(o) ==
  /\ trade[o] = "absent" /\ order[o].status = "created"
  /\ trade' = [trade EXCEPT ![o] = "NOTPAY"]
  /\ UNCHANGED <<reversal, database, worker>>

\* Mutant: the dispatcher binds an order whatever has become of it.
BindRegardless(o) ==
  /\ trade[o] # "absent" /\ ~order[o].bound
  /\ order' = [order EXCEPT ![o].status = "pending_payment", ![o].bound = TRUE]
  /\ UNCHANGED <<gateway, facts, member, events, refund, command, worker>>

\* The dispatcher binds what CreateOrder returned (bindProviderOrder).
BindDispatched(o) ==
  /\ trade[o] # "absent" /\ order[o].status = "created"
  /\ order' = [order EXCEPT ![o].status = "pending_payment", ![o].bound = TRUE]
  /\ UNCHANGED <<gateway, facts, member, events, refund, command, worker>>

\* The buyer pays, or the charge expires at the provider.
Charge(o) ==
  /\ trade[o] = "NOTPAY"
  /\ \E s \in {"SUCCESS", "CLOSED"} : trade' = [trade EXCEPT ![o] = s]
  /\ UNCHANGED <<reversal, database, worker>>

\* The provider finishes a refund; an abnormal one may be repaired by hand.
Reverse(o) ==
  /\ \/ reversal[o] = "processing"
          /\ \E s \in ReversalStatuses \ {"processing"} : reversal' = [reversal EXCEPT ![o] = s]
     \/ reversal[o] = "abnormal" /\ reversal' = [reversal EXCEPT ![o] = "succeeded"]
  /\ UNCHANGED <<trade, database, worker>>

-----------------------------------------------------------------------------
(* Membership ownership.                                                   *)

\* Mutant: a payment takes a membership over from the operator who granted it.
GrantedOver(m, f) == [plan |-> "lifetime", source |-> "payment", fact |-> f]

\* grantPaymentMembership: the membership that results from paid fact f.
Granted(m, f) ==
  IF m.plan = "free" THEN [plan |-> "lifetime", source |-> "payment", fact |-> f]
  ELSE IF m.source = "payment" THEN [m EXCEPT !.fact = f]
  ELSE m

GrantEvents(m, f) == IF m.plan = "free" THEN {[kind |-> "grant", fact |-> f]} ELSE {}

\* Mutant: a replacement that was itself refunded.
ReplacementsEverPaid(o) ==
  {f \in PaidFacts : f.order # o /\ Owner[f.order] = Owner[o]}

\* Paid facts of the user's other committed-paid orders.  Which of them is the
\* latest by the provider's clock is not modelled: any may be.
Replacements(o) ==
  {f \in PaidFacts : /\ f.order # o
                     /\ Owner[f.order] = Owner[o]
                     /\ order[f.order].status = "paid"}

\* revokePaymentMembership acts only on a membership this order's payment backs.
Backs(o, m) == m.plan = "lifetime" /\ m.source = "payment" /\ m.fact.order = o

\* Mutants: a refund that looks for no replacement, and one that takes nothing.
RevokedOutright(m, o) ==
  IF ~Backs(o, m) THEN {m}
  ELSE {[plan |-> "free", source |-> "payment_refund", fact |-> NoFact]}
RevokedNever(m, o) == {m}

\* The memberships a refund of o may leave behind.
Revoked(m, o) ==
  IF ~Backs(o, m) THEN {m}
  ELSE IF Replacements(o) # {} THEN {[m EXCEPT !.fact = f] : f \in Replacements(o)}
  ELSE {[plan |-> "free", source |-> "payment_refund", fact |-> NoFact]}

RevokeEvents(m, f) ==
  IF Backs(f.order, m) /\ Replacements(f.order) = {} THEN {[kind |-> "revoke", fact |-> f]} ELSE {}

-----------------------------------------------------------------------------
(* applyVerifiedPaymentNotification.                                       *)

WorkerFact(w) == [kind |-> worker[w].kind, order |-> worker[w].order]

\* The order's row is locked and the fact inserted.  A fact that is already
\* there is a replay, or, when its digest differs, an error: the digest of a
\* refund covers the OccurredAt of the answer that carried it, so a second
\* answer never matches.  A fact of a stale sequence or a transition the order
\* cannot make is kept and ignored.  Anything else waits for the membership.
Apply(w) ==
  LET o == worker[w].order
      f == WorkerFact(w)
      inTime == /\ SequenceOf(f.kind) > order[o].seq
                /\ TransitionAllowed(order[o].status, StatusOf(f.kind))
  IN /\ worker[w].pc = "apply"
     /\ Unlocked(o)
     /\ \/ /\ ~order[o].bound \/ (f \in facts /\ f.kind = "refunded")
           /\ Return(w)
           /\ UNCHANGED facts
        \/ /\ order[o].bound /\ f \in facts /\ f.kind # "refunded"
           /\ AfterApply(w, FALSE)
           /\ UNCHANGED facts
        \/ /\ order[o].bound /\ f \notin facts /\ ~inTime
           /\ facts' = facts \cup {f}
           /\ AfterApply(w, FALSE)
        \/ /\ order[o].bound /\ f \notin facts /\ inTime
           /\ Goto(w, "commit")
           /\ UNCHANGED facts
     /\ UNCHANGED <<gateway, order, member, events, refund, command>>

\* The membership's row is locked, read and written, and the transaction
\* commits the fact, the order and the membership together.
Commit(w) ==
  LET o == worker[w].order
      f == WorkerFact(w)
      m == member[Owner[o]]
  IN /\ worker[w].pc = "commit"
     /\ facts' = facts \cup {f}
     /\ order' = [order EXCEPT ![o].status = StatusOf(f.kind), ![o].seq = SequenceOf(f.kind)]
     /\ \/ /\ StatusOf(f.kind) = "paid"
           /\ member' = [member EXCEPT ![Owner[o]] = Granted(m, f)]
           /\ events' = events \cup GrantEvents(m, f)
           /\ AfterApply(w, FALSE)
        \/ /\ StatusOf(f.kind) = "refunded"
           /\ \E n \in Revoked(m, o) : member' = [member EXCEPT ![Owner[o]] = n]
           /\ events' = events \cup RevokeEvents(m, f)
           /\ AfterApply(w, RevokeEvents(m, f) # {})
        \/ /\ StatusOf(f.kind) = "closed"
           /\ AfterApply(w, FALSE)
           /\ UNCHANGED <<member, events>>
     /\ UNCHANGED <<gateway, refund, command>>

-----------------------------------------------------------------------------
(* The provider's callback (paymentProviderNotification).                  *)

\* The gateway sends a paid notification once the buyer has paid, as often as
\* it likes and as late as it likes.
ReceiveNotification(w, o) ==
  /\ "notify" \in Requests
  /\ worker[w] = Idle /\ trade[o] \in {"SUCCESS", "REFUND"}
  /\ Becomes(w, [Idle EXCEPT !.pc = "query", !.op = "notify", !.order = o])
  /\ UNCHANGED <<gateway, database>>

\* A notification is believed only if the provider's own query agrees.
CorrelateNotification(w) ==
  /\ At(w, "query", {"notify"})
  /\ \/ trade[worker[w].order] = "SUCCESS"
          /\ Becomes(w, [worker[w] EXCEPT !.pc = "recover", !.kind = "notified_paid"])
     \/ trade[worker[w].order] # "SUCCESS" /\ Return(w)
  /\ UNCHANGED <<gateway, database>>

\* recoverProviderOrderFromNotification: an order the dispatcher has not bound
\* yet is bound here, without its lease; one no longer 'created' cannot be.
RecoverOrder(w) ==
  LET o == worker[w].order
  IN /\ At(w, "recover", {"notify"})
     /\ \/ /\ order[o].bound
           /\ Goto(w, "apply")
           /\ UNCHANGED order
        \/ /\ ~order[o].bound /\ order[o].status = "created"
           /\ order' = [order EXCEPT ![o].status = "pending_payment", ![o].bound = TRUE]
           /\ Goto(w, "apply")
        \/ /\ ~order[o].bound /\ order[o].status # "created"
           /\ Return(w)
           /\ UNCHANGED order
     /\ UNCHANGED <<gateway, facts, member, events, refund, command>>

-----------------------------------------------------------------------------
(* The owner reads their orders (reconcilePendingMembershipOrders).        *)

ReadOrders(w, u) ==
  LET candidates == {o \in Orders : /\ Owner[o] = u
                                    /\ order[o].bound
                                    /\ order[o].status = "pending_payment"}
  IN /\ "reconcile" \in Requests
     /\ worker[w] = Idle /\ candidates # {}
     /\ Becomes(w, [Idle EXCEPT !.pc = "query", !.op = "reconcile", !.todo = candidates])
     /\ UNCHANGED <<gateway, database>>

\* One candidate of the list read before: still pending at the provider, or a
\* fact built from what the query says now.  The query shows a refunded charge
\* as one that waits for its buyer.
QueryCandidate(w, o) ==
  /\ At(w, "query", {"reconcile"}) /\ o \in worker[w].todo
  /\ LET rest == worker[w].todo \ {o}
         next == [worker[w] EXCEPT !.todo = rest]
     IN \/ /\ trade[o] = "SUCCESS"
           /\ Becomes(w, [next EXCEPT !.pc = "apply", !.order = o, !.kind = "queried_paid"])
        \/ /\ trade[o] = "CLOSED"
           /\ Becomes(w, [next EXCEPT !.pc = "apply", !.order = o, !.kind = "queried_closed"])
        \/ /\ trade[o] \notin {"SUCCESS", "CLOSED"}
           /\ Becomes(w, next)
  /\ UNCHANGED <<gateway, database>>

OrdersRead(w) ==
  /\ At(w, "query", {"reconcile"}) /\ worker[w].todo = {}
  /\ Return(w)
  /\ UNCHANGED <<gateway, database>>

-----------------------------------------------------------------------------
(* Operator commands on one order (payment_console_handlers.go).           *)

RequiredStatus(op) == IF op = "close" THEN {"created", "pending_payment"} ELSE {"paid"}

\* claimConsoleOrderCommand: the key is claimed with an empty answer and the
\* order is in a state the command needs; otherwise the claim rolls back.
ClaimCommand(w, op, o, k) ==
  /\ op \in Requests
  /\ worker[w] = Idle /\ command[k] = NoCommand
  /\ Unlocked(o) /\ order[o].status \in RequiredStatus(op)
  /\ command' = [command EXCEPT ![k] = [op |-> op, order |-> o, stored |-> FALSE]]
  /\ Becomes(w, [Idle EXCEPT !.pc = "provider", !.op = op, !.order = o, !.key = k])
  /\ UNCHANGED <<gateway, order, facts, member, events, refund>>

\* A key that was claimed before answers from its row and reaches no provider
\* command.  A close answers 200 with whatever is stored.
ReplayClose(w, k) ==
  /\ worker[w] = Idle /\ command[k].op = "close"
  /\ Becomes(w, [Idle EXCEPT !.pc = "answered", !.op = "close", !.order = command[k].order, !.key = k])
  /\ UNCHANGED <<gateway, database>>

\* replayConsoleMembershipRefund: with nothing stored the refund record is
\* rebuilt.  The order read here decides what is recorded about the
\* entitlement.
ReplayRefund(w, k) ==
  LET o == command[k].order
  IN /\ worker[w] = Idle /\ command[k].op = "refund" /\ ~command[k].stored
     /\ Unlocked(o)
     /\ Becomes(w, [Idle EXCEPT !.pc = "provider", !.op = "replay", !.order = o, !.key = k,
                                !.revoked = order[o].status = "refunded"])
     /\ UNCHANGED <<gateway, database>>

\* CloseOrder: the gateway asks the provider first and refuses a paid order.
\* It answers "closed" for an order that is no longer open at the gateway.
ProviderClose(w) ==
  LET o == worker[w].order
  IN /\ At(w, "provider", {"close"})
     /\ \/ /\ trade[o] = "NOTPAY"
           /\ trade' = [trade EXCEPT ![o] = "CLOSED"]
           /\ Goto(w, "settle")
        \/ /\ trade[o] \in {"CLOSED", "REFUND"}
           /\ Goto(w, "settle")
           /\ UNCHANGED trade
        \/ /\ trade[o] \in {"absent", "SUCCESS"}
           /\ Return(w)
           /\ UNCHANGED trade
     /\ UNCHANGED <<reversal, database>>

\* settleConsoleOrderClose.
SettleClose(w) ==
  LET o == worker[w].order
  IN /\ At(w, "settle", {"close"})
     /\ Unlocked(o)
     /\ \/ /\ order[o].status = "closed"
           /\ Goto(w, "finish")
           /\ UNCHANGED order
        \/ /\ TransitionAllowed(order[o].status, "closed")
           /\ order' = [order EXCEPT ![o].status = "closed"]
           /\ Goto(w, "finish")
        \/ /\ order[o].status # "closed" /\ ~TransitionAllowed(order[o].status, "closed")
           /\ Return(w)
           /\ UNCHANGED order
     /\ UNCHANGED <<gateway, facts, member, events, refund, command>>

\* Mutants: any refund answer is a fact; an abnormal refund reads as succeeded;
\* looking a refund up never applies it.
OnAnyRefundAnswer(w, s) ==
  Becomes(w, [worker[w] EXCEPT
    !.answer = s, !.kind = "refunded",
    !.pc = IF worker[w].op # "replay" THEN "apply" ELSE "record"])
OnRefundAnswerAbnormal(w, s) ==
  Becomes(w, [worker[w] EXCEPT
    !.answer = IF s = "abnormal" THEN "succeeded" ELSE s, !.kind = "refunded",
    !.pc = IF s = "succeeded" /\ worker[w].op # "replay" THEN "apply" ELSE "record"])
OnRefundAnswerRecordOnly(w, s) ==
  Becomes(w, [worker[w] EXCEPT
    !.answer = s, !.kind = "refunded",
    !.pc = IF s = "succeeded" /\ worker[w].op = "refund" THEN "apply" ELSE "record"])

\* What the handler does with the gateway's answer about a refund: only a
\* succeeded one is a fact, and a replay never applies it.
OnRefundAnswer(w, s) ==
  Becomes(w, [worker[w] EXCEPT
    !.answer = s,
    !.kind = "refunded",
    !.pc = IF s = "succeeded" /\ worker[w].op # "replay" THEN "apply" ELSE "record"])

\* Refund: the gateway refunds a paid charge once; afterwards the charge no
\* longer reads as paid and the command is refused.
ProviderRefund(w) ==
  LET o == worker[w].order
  IN /\ At(w, "provider", {"refund"})
     /\ \/ /\ trade[o] = "SUCCESS"
           /\ trade' = [trade EXCEPT ![o] = "REFUND"]
           /\ \E s \in ReversalStatuses :
                /\ reversal' = [reversal EXCEPT ![o] = s]
                /\ OnRefundAnswer(w, s)
        \/ /\ trade[o] # "SUCCESS"
           /\ Return(w)
           /\ UNCHANGED gateway
     /\ UNCHANGED database

ProviderQueryRefund(w) ==
  LET s == reversal[worker[w].order]
  IN /\ At(w, "provider", {"replay", "lookup"})
     /\ \/ s # "none" /\ OnRefundAnswer(w, s)
        \/ s = "none" /\ Return(w)
     /\ UNCHANGED <<gateway, database>>

\* upsertConsoleMembershipRefund and updateConsoleMembershipRefund write the
\* answer the request carries, however old it is; the revocation only grows.
RecordRefund(w) ==
  LET o == worker[w].order
  IN /\ worker[w].pc = "record"
     /\ refund' = [refund EXCEPT ![o] = [status |-> worker[w].answer,
                                         revoked |-> @.revoked \/ worker[w].revoked]]
     /\ IF worker[w].op = "lookup" THEN Return(w) ELSE Goto(w, "finish")
     /\ UNCHANGED <<gateway, order, facts, member, events, command>>

\* finishConsoleOrderCommand stores the answer; failing to is not an error.
FinishCommand(w) ==
  /\ worker[w].pc = "finish"
  /\ \/ command' = [command EXCEPT ![worker[w].key].stored = TRUE]
     \/ UNCHANGED command
  /\ IF worker[w].op = "close" THEN Goto(w, "answered") ELSE Return(w)
  /\ UNCHANGED <<gateway, order, facts, member, events, refund>>

\* The 200 a close answers with is kept until the client has read it.
CloseAnswered(w) ==
  /\ worker[w].pc = "answered"
  /\ Return(w)
  /\ UNCHANGED <<gateway, database>>

\* getConsoleMembershipOrderRefund.
LookUpRefund(w, o) ==
  /\ "lookup" \in Requests
  /\ worker[w] = Idle /\ refund[o].status # "none"
  /\ Unlocked(o)
  /\ Becomes(w, [Idle EXCEPT !.pc = "provider", !.op = "lookup", !.order = o])
  /\ UNCHANGED <<gateway, database>>

-----------------------------------------------------------------------------
(* Operator grants and revocations (mutateConsoleMembership).              *)

OperatorGrant(u) ==
  /\ "membership" \in Requests
  /\ member[u].plan = "free"
  /\ member' = [member EXCEPT ![u] = [plan |-> "lifetime", source |-> "operator_grant", fact |-> NoFact]]
  /\ UNCHANGED <<gateway, order, facts, events, refund, command, worker>>

OperatorRevoke(u) ==
  /\ "membership" \in Requests
  /\ member[u].plan = "lifetime"
  /\ member' = [member EXCEPT ![u] = [plan |-> "free", source |-> "operator_revocation", fact |-> NoFact]]
  /\ UNCHANGED <<gateway, order, facts, events, refund, command, worker>>

-----------------------------------------------------------------------------
(* A request may die between any two of its steps: a provider error, a lost *)
(* database connection, a cancelled context, the process.  Its open         *)
(* transaction rolls back, its locks go, its committed work stays, and      *)
(* nobody gets an answer.                                                   *)

Abandon(w) ==
  /\ worker[w].pc \notin {"idle", "answered", "lost"}
  /\ Becomes(w, [Idle EXCEPT !.pc = "lost"])
  /\ UNCHANGED <<gateway, database>>

Release(w) ==
  /\ worker[w].pc = "lost"
  /\ Return(w)
  /\ UNCHANGED <<gateway, database>>

Environment(o) == OpenCharge(o) \/ BindDispatched(o) \/ Charge(o) \/ Reverse(o)

Arrive(w) ==
  \/ \E o \in Orders : ReceiveNotification(w, o) \/ LookUpRefund(w, o)
  \/ \E u \in Users : ReadOrders(w, u)
  \/ \E op \in {"close", "refund"}, o \in Orders, k \in Keys : ClaimCommand(w, op, o, k)
  \/ \E k \in Keys : ReplayClose(w, k) \/ ReplayRefund(w, k)

Proceed(w) ==
  \/ CorrelateNotification(w) \/ RecoverOrder(w)
  \/ OrdersRead(w) \/ \E o \in Orders : QueryCandidate(w, o)
  \/ Apply(w) \/ Commit(w)
  \/ ProviderClose(w) \/ SettleClose(w)
  \/ ProviderRefund(w) \/ ProviderQueryRefund(w)
  \/ RecordRefund(w) \/ FinishCommand(w) \/ CloseAnswered(w)

Next ==
  \/ \E o \in Orders : Environment(o)
  \/ \E u \in Users : OperatorGrant(u) \/ OperatorRevoke(u)
  \/ \E w \in Workers : Arrive(w) \/ Proceed(w) \/ Abandon(w) \/ Release(w)

Spec == Init /\ [][Next]_vars

\* Outages end, a request that was accepted runs on, and owners and operators
\* keep reading: nothing in the service itself polls the provider.
FairSpec ==
  /\ Spec
  /\ <>[][\A w \in Workers : ~Abandon(w)]_vars
  /\ \A w \in Workers : WF_vars(Proceed(w)) /\ WF_vars(Release(w))
  /\ \A u \in Users : SF_vars(\E w \in Workers : ReadOrders(w, u))
  /\ \A o \in Orders : SF_vars(\E w \in Workers : LookUpRefund(w, o))

-----------------------------------------------------------------------------
(* Properties.                                                             *)

PCs == {"idle", "query", "recover", "apply", "commit", "provider", "settle",
        "record", "finish", "answered", "lost"}

Trades == {"absent", "NOTPAY", "SUCCESS", "CLOSED", "REFUND"}
OrderRows == [status : Statuses, seq : {0, 1, 2}, bound : BOOLEAN]
MemberRows == [plan : {"free", "lifetime"},
               source : {"initial", "operator_grant", "operator_revocation",
                         "payment", "payment_refund"},
               fact : Fact \cup {NoFact}]
EventRows == [kind : {"grant", "revoke"}, fact : Fact]
RefundRows == [status : {"none"} \cup ReversalStatuses, revoked : BOOLEAN]
CommandRows ==
  {r \in [op : {"none", "close", "refund"}, order : Orders \cup {NoOrder}, stored : BOOLEAN] :
     r.op # "none" => r.order \in Orders}
Requested == [pc : PCs, op : {"none", "replay"} \cup RequestKinds,
              order : Orders \cup {NoOrder}, key : Keys \cup {"none"},
              kind : FactKinds \cup {"none"}, answer : {"none"} \cup ReversalStatuses,
              revoked : BOOLEAN, todo : SUBSET Orders]

\* A request that has got past a step knows what that step told it.
Informed(r) ==
  /\ r.pc \in {"query", "recover"} => r.op \in {"notify", "reconcile"}
  /\ r.pc \in {"recover", "apply", "commit"} => r.kind \in FactKinds
  /\ r.pc \in {"recover", "apply", "commit", "provider", "settle", "record", "finish", "answered"}
       => r.order \in Orders
  /\ r.pc = "query" /\ r.op = "notify" => r.order \in Orders
  /\ r.op \in {"close", "refund", "replay"} => r.key \in Keys
  /\ (r.pc = "record" \/ (r.pc \in {"apply", "commit"} /\ r.op \notin {"notify", "reconcile"}))
       => r.answer \in ReversalStatuses /\ r.op \in {"refund", "replay", "lookup"}
  /\ r.pc = "finish" => r.op \in {"close", "refund", "replay"}

WorkerStates == {r \in Requested : Informed(r)}

\* Every row and every request has its type.
TypeOK ==
  /\ trade \in [Orders -> Trades]
  /\ reversal \in [Orders -> {"none"} \cup ReversalStatuses]
  /\ order \in [Orders -> OrderRows]
  /\ facts \subseteq Fact
  /\ member \in [Users -> MemberRows]
  /\ events \subseteq EventRows
  /\ refund \in [Orders -> RefundRows]
  /\ command \in [Keys -> CommandRows]
  /\ worker \in [Workers -> WorkerStates]

\* A membership that a payment holds is held by a stored fact that says "paid"
\* about an order of that same user which is still paid: a refund, whatever
\* raced with it, never leaves a membership standing on a refunded order.
PaidBacked ==
  \A u \in Users :
    member[u].source = "payment" =>
      /\ member[u].plan = "lifetime"
      /\ member[u].fact \in PaidFacts
      /\ Owner[member[u].fact.order] = u
      /\ order[member[u].fact.order].status = "paid"

\* Nobody who has a paid order is without membership, unless an operator took
\* it away: refunding one order never takes what another one still pays for.
NoLostEntitlement ==
  \A o \in Orders :
    order[o].status = "paid" =>
      \/ member[Owner[o]].plan = "lifetime"
      \/ member[Owner[o]].source = "operator_revocation"

\* The order never gets ahead of the money: paid means the buyer was charged,
\* closed means the buyer can no longer be, refunded means the refund arrived.
GatewayAgrees ==
  \A o \in Orders :
    /\ order[o].status = "paid" => trade[o] \in {"SUCCESS", "REFUND"}
    /\ order[o].status = "closed" => trade[o] = "CLOSED"
    /\ order[o].status = "refunded" => reversal[o] = "succeeded"

\* The unique key on membership_events.payment_fact_id never rejects the grant
\* or revocation of a transaction that is about to commit, which would undo a
\* provider's confirmed payment: the key is taken only by facts already stored.
EventKeyFree ==
  \A w \in Workers :
    worker[w].pc = "commit" =>
      \A e \in events : e.fact # [kind |-> worker[w].kind, order |-> worker[w].order]

\* What the refund record calls settled is settled at the gateway.
RefundRecordTrue ==
  \A o \in Orders : refund[o].status = "succeeded" => reversal[o] = "succeeded"

\* No callback, query or command moves an order out of a terminal state, and a
\* paid order only moves on to refunded.
TerminalOrders ==
  [][\A o \in Orders :
       /\ order[o].status \in {"closed", "failed", "refunded"} => order'[o].status = order[o].status
       /\ order[o].status = "paid" => order'[o].status \in {"paid", "refunded"}]_vars

\* Payments and refunds leave a membership an operator granted to operators.
OperatorGrantStands ==
  [][\A u \in Users :
       member[u].source = "operator_grant" /\ member'[u] # member[u]
         => member'[u].source = "operator_revocation"]_vars

\* The kernel implements the promise of Entitlement.
Holder(m) ==
  CASE m.source \in {"initial", "payment_refund"} -> "nobody"
    [] m.source = "operator_grant" -> "operator"
    [] m.source = "operator_revocation" -> "withdrawn"
    [] OTHER -> "payment"

Promise == INSTANCE Entitlement WITH
  paid <- {o \in Orders : order[o].status = "paid"},
  ended <- {o \in Orders : order[o].status \in {"closed", "failed", "refunded"}},
  holder <- [u \in Users |-> Holder(member[u])]

ImplementsEntitlement == Promise!Spec

\* A payment for a bound order is recorded in the end even if every callback
\* was lost, as long as its owner keeps reading their orders.
PaidEventuallyRecorded ==
  \A o \in Orders :
    trade[o] = "SUCCESS" /\ order[o].bound ~> order[o].status \in {"paid", "refunded"}

\* A refund that has a record and succeeded at the gateway ends the order, as
\* long as operators keep looking it up.
RefundEventuallyApplied ==
  \A o \in Orders :
    reversal[o] = "succeeded" /\ refund[o].status # "none" ~> order[o].status = "refunded"

-----------------------------------------------------------------------------
(* What a comment of the code says and the code does not do.               *)

\* "so a refund cannot stay pending forever" (getConsoleMembershipOrderRefund).
RefundNeverStaysPending ==
  \A o \in Orders :
    reversal[o] = "succeeded" /\ refund[o].status = "processing" ~> refund[o].status = "succeeded"
=============================================================================
