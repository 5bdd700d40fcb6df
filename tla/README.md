# HENU-Kit: a formal model of its core

This directory is kept beside the HENU-Kit monorepo.  It holds TLA+ modules
that model parts of the system, TLC configurations that check them on small
instances, and proofs checked by TLAPS that hold for every instance.  Every
definition is translated from the source; `PROJECT.json` says from which lines.

Every configuration belongs to the module whose name starts like it:
`Payments*.cfg` to `MCMembershipPayments`, `OrderDelivery.cfg` to
`MCOrderDelivery`, `Deploy*.cfg` to `MCDeployQueue`, and `MailOutbox.cfg`,
`AccountAccess.cfg`, `NoticeDesk.cfg`, `FeedbackInbox.cfg` and
`CareerSearch.cfg` to `MC` and their own name.  So
`tlc -workers 2 -config NoticeDesk.cfg MCNoticeDesk` runs one, and
`tlapm NoticeDeskProofs.tla` checks the proofs of a component.

## 1. Inventory

HENU-Kit is a set of small Go services behind two gateways, each with its own
PostgreSQL schema, and a few older products that were moved in whole.

| Component | State | Operations | What is hard |
|---|---|---|---|
| Payment kernel, `services/account-portfolio` (`payment*.go`, `easypay.go`) | orders, order intents, payment facts, refunds, memberships, membership events | create an order, dispatch it to the gateway, take a callback, read orders (and reconcile), operator close, refund, refund lookup | callbacks lost, late or repeated; refunds racing payments on one membership; crashes between a provider call and its record; idempotent retries |
| Account commands, `services/account-portfolio` (`accountportfolio.go`) | command idempotency, points ledger and balance, tickets, notifications, memberships | adjust points, grant and revoke membership, ticket conversation, notifications | one command executed once under retries; balance equals the sum of its ledger; optimistic versions |
| Gateway patches, `infra/epay-gateway` | the gateway's orders and refunds | create, query, close, refund, refund query, notify outbox | what an answer means when it is late or lost |
| Mail outbox and SMTP provider, `platform-core` (`mailworker`, `smtpprovider`) | outbox rows with leases and attempts, dead letters, delivery receipts; the provider's files per idempotency key | enqueue, claim, send, accept, retry, fail, sweep, reconcile receipts, requeue; record a receipt | leases that expire under a slow worker; a process that dies between the SMTP server's yes and its own marker; receipts before acceptances |
| Access to an account, `platform-core` (`verification`, `identity`) | identity and credential, verification codes, Sessions, authorization codes | request a code, register, log in by password or code, confirm, recover, change the password, authorize, exchange, revoke a Session | several row locks per transaction, in an order; Sessions opened while a password is replaced; single use under locks that expire |
| Operations inbox, `platform-core` (`operationsinbox`) | items with versions, audit trail, idempotency keys | create, update, read | late and repeated requests of another service |
| Rest of Platform Core | role grants, operator grants, OAuth continuations, authentication retention | grant, revoke, continue a login, clean up | revisions, last administrator |
| Deploy webhook, `services/deploy-webhook` | a directory: queued deliveries, the running one, markers of processed, failed and replaced ones, last success and failure | accept a push, queue it, retry, recover, claim, deploy, record, read the status | one deployment at a time; a crash between two files; redeliveries; recovery into a full or newer queue; SIGTERM |
| Notice, `services/notice` | versions of notices with their lifecycle and reviews, distributions, an idempotency history kept for a day | create a version, review it, distribute it; claim, deliver to a webhook, complete | keys that are forgotten; claims that lapse, and completions of another worker's claim |
| Career, `services/career-opportunities` | searches, results, resume extractions, digest deliveries, notification preference | queue a search or extraction, claim, finish, fail, send the digest | stale claims; a digest enqueued in another service, with lost and late calls |
| QuizCraft, `products/quizcraft/go-service` | feedback with its outbox and status facts; practice sessions, answers, ranks, workshop | take feedback, dispatch it to the inbox, read its status back; answer, score, settle the ranking, import | row locks that end before the call they are for; reads that overtake each other; settling while answers arrive |
| Library, `services/library` | catalogue, activation of a release, downloads | activate, roll back, authorise a download | two activations at once, a half-activated release |
| Food, Portal and Console gateways, Portal API and summary, worker, legacy study API, MCP servers, front ends, scripts | see `PROJECT.json` | | mostly request/response over one table, or presentation |

How they interact.  A browser reaches a service only through Portal Gateway
(students) or Console Gateway (operators), which authenticate the actor and
sign the call; services do not call one another's tables.  Account Portfolio
calls the payment gateway over HTTP and is called back by it.  QuizCraft's
dispatcher posts feedback to Platform Core's Operations Inbox and reads its
status from there.  A career worker hands a digest to Platform Core, which puts it
into the same mail outbox as verification codes; mail workers call the SMTP
provider, and its delivery callback comes back to Platform Core.  Nothing in
Account Portfolio runs in the background: whatever must happen eventually happens
because somebody asks again.  Mail, notices, feedback and searches have worker
loops, every one of which may run in several replicas.

### The payment kernel in more detail

State (PostgreSQL): `membership_orders` (status, version,
`provider_event_sequence`, `provider_order_id`), `payment_order_intents`
(delivery state, lease, checkout handle), `payment_facts` (unique per provider
event id, with the digest of what the provider said), `memberships` (plan,
source, `payment_fact_id`), `membership_events` (unique per payment fact),
`membership_order_refunds` (one per merchant order), `command_idempotency`.

Operations: see the table in section 3.  What makes it correct:

* an order is paid, closed or refunded only once it is at the gateway, and never
  leaves a terminal state;
* a membership that a payment holds stands on an order of that user that is
  still paid, and a user with a paid order has a membership unless an operator
  withdrew it;
* what operators grant, payments and refunds leave alone;
* a payment whose callbacks are lost is recorded in the end, and so is a refund
  whose command died;
* a lease that expires hands an order over to one new dispatcher, and the old
  one can no longer decide anything about it.

### The deploy queue in more detail

State: files in one directory, each written by an atomic rename, under one
exclusive `flock` per operation.  What makes it correct:

* what was accepted is queued, running or marked at every point of every write,
  so nothing is lost by a crash;
* the runner holds what `running.json` says, and nothing else can bring the same
  delivery back meanwhile;
* a recorded success is not deployed again, a replaced delivery neither deployed
  nor queued again;
* what was queued is tried in the end.

### The services with workers

All four follow one pattern: a row is claimed for a limited time, the worker calls
somebody else outside any transaction, and writes down the outcome if the row is
still what it was.  What makes them correct:

* mail: a mail goes out once, and once more for each acceptance that the SMTP
  server gave and nobody heard; what is called accepted did go out; what cannot be
  sent is in the dead letters;
* notices: one decision about each version, one distribution and only of what was
  approved, an outcome that is final and true, and a history that never answers
  with something that did not happen;
* feedback: what the author reads is what the operators' audit trail says of that
  version, never goes back to an older one, and reaches their last word;
* searches: an outcome is written once, only a durable result is mailed, and what
  is called sent is in the outbox;
* each of them, in the end, is decided, though workers die and calls get lost.

### Access to an account

Correct means: every live Session was opened, or kept, under today's password;
a code is good for one thing, and for nothing once it was guessed at too often; an
authorization code becomes one Session, and only of a Session that is not
revoked; and the transactions that replace passwords or open Sessions do not wait
for each other in a circle.

## 2. Plan

Done, in this order, each with its proofs:

1. `MembershipPayments`, `Entitlement`: the part of the system that moves money
   and rights.
2. `OrderDelivery`: the order intent, its lease, dispatch, binding and recovery by
   callback.  The environment actions `OpenCharge` and `BindDispatched` of
   `MembershipPayments` are its abstraction, and `PaymentsEnvironment` is what they
   take for granted.
3. `DeployQueue`: queue, runner, crash and restart; and `DeploySchedule`.
4. `MailOutbox`: outbox, provider and receipts; and `MailPromise`.
5. `AccountAccess`: passwords, codes, Sessions and authorization codes with their
   row locks; and `AccountPromise`.
6. `NoticeDesk`; and `NoticePromise`.
7. `FeedbackInbox`: QuizCraft's feedback and the Operations Inbox, composed; and
   `FeedbackPromise`.
8. `CareerSearch`: searches, extractions and digests; and `CareerPromise`.

Each component refines the abstract specification named beside it
(`OrderDelivery` has `PaymentsEnvironment` instead), as a property of its run and as
a theorem.

Left, in the order of what they would add:

9. `AccountCommands`: the idempotent command layer with the points ledger (balance
   equals the ledger's sum, one effect per key) and tickets.
10. `RoleGrants` (Platform Core): grants under revisions, the last administrator.
11. The Actions webhook's notifications as a third policy of `DeployQueue`.
12. QuizCraft's weekly settlement against answers that arrive meanwhile.

## 3. Modules

### MembershipPayments

Variables are the tables above plus what the gateway knows (`trade`,
`reversal`) and the requests in flight (`worker`).  A request is a record whose
`pc` names the next step of its handler; a step is one transaction or one
provider call.

| Action | Code |
|---|---|
| `ReceiveNotification`, `CorrelateNotification`, `RecoverOrder` | `paymentProviderNotification`, `recoverProviderOrderFromNotification` |
| `ReadOrders`, `QueryCandidate`, `OrdersRead` | `reconcilePendingMembershipOrders` |
| `Apply`, `Commit` | `applyVerifiedPaymentNotification`, `insertPaymentFact`, `grantPaymentMembership`, `revokePaymentMembership` |
| `ClaimCommand`, `ReplayClose`, `ReplayRefund`, `FinishCommand`, `CloseAnswered` | `claimConsoleOrderCommand`, the replay branches, `finishConsoleOrderCommand` |
| `ProviderClose`, `SettleClose` | `CloseOrder` at the gateway, `settleConsoleOrderClose` |
| `ProviderRefund`, `ProviderQueryRefund`, `RecordRefund`, `LookUpRefund` | `Refund` and `QueryRefund` at the gateway, `upsertConsoleMembershipRefund`, `updateConsoleMembershipRefund`, `getConsoleMembershipOrderRefund` |
| `OperatorGrant`, `OperatorRevoke` | `mutateConsoleMembership` |
| `Abandon`, `Release` | any error return, cancelled request or crash between two steps |
| `OpenCharge`, `BindDispatched`, `Charge`, `Reverse` | the dispatcher, the buyer and the gateway |

Locks.  `Apply` takes the order's row lock (`SELECT ... FOR UPDATE`), `Commit`
releases it; between the two the worker is at `pc = "commit"`, every other
transaction that locks the same row waits (`Unlocked`), and nobody sees its
writes (READ COMMITTED).  The membership lock is taken and released inside
`Commit`, so two orders of one owner interleave up to it.  A transaction that
locks and finishes without a second lock is one step.

Facts.  A fact is a kind and an order: the code's event ids are
`easypay:<trade>:paid`, `query:<provider>:<order>:<status>` and the
`easypay-refund-` id, so the same payment may be stored twice under two ids and
must still have one effect.  The digest matters in one place: a refund's covers
the time of the answer, so a second answer to the same refund is an error.

Abstracted: amounts, currency and plan (constants of the single product);
versions (a command with a stale `expected_version` changes nothing, and one with
the right version is what is modelled); notifications and audits (written, never
read by the kernel); which of several replacement facts is the latest (any may be
chosen, so what is shown holds for the latest too).

### Entitlement

What the kernel promises with all of that hidden: `Pay`, `Refund`, `Close`,
`Grant`, `Withdraw` over the set of paid orders, the set of ended orders and who
holds each membership.  `MembershipPayments!ImplementsEntitlement` is the
refinement, with `paid` and `ended` read off order statuses and `holder` off the
membership's source.

### The MC modules

Model values, and where they are used an owner function, a function of external
ids and a symmetry, for TLC.  Nothing of a specification is replaced.

### OrderDelivery

The two tables of an order (`order`, `intent`), the provider's side (`trade`, and
`sent`: calls that are on their way or have arrived), and the requests (`worker`).

| Action | Code |
|---|---|
| `PersistIntent` | `persistMembershipOrderIntent`: create the order and its intent, or find them under the same key |
| `ClaimDelivery` | `claimPaymentOrderDelivery`: take or refuse the lease |
| `CallCreateOrder`, `CreateOrderAnswered`, `ProviderFails` | `CreateOrder` of the provider and its outcomes in `dispatchMembershipOrderIntent` |
| `BindDispatched`, `BindRecovered` | `bindProviderOrder`, from the dispatcher and from a callback |
| `RecordRecoverableFailure` | gives the lease back, if it is still the caller's |
| `FailConflicted` | `failConflictedPaymentOrderIntent`: the second transaction after a conflict |
| `ReceiveNotification`, `LookUpExternal` | `paymentProviderNotification`, `recoverProviderOrderFromNotification` |
| `SettleClose`, `RecordPayment` | an operator's close, a payment fact: the two things that move a bound or created order elsewhere |
| `LeaseRunsOut` | 30 seconds have passed: the lease's `expired` flag, and `late` on the worker that held it |
| `OpenCharge`, `Charge` | the gateway and the buyer |

`External` gives each order the provider's own id for it.  For EasyPay that id is
the merchant's id, so it is unique, and the conflict branch is for other
providers; `OrderDelivery.cfg` takes a provider that shares one id.  A worker's
name stands for the lease id it drew.

### DeployQueue

`disk` is the directory, `runner` the runner process, `pending` what a receiver
has stamped with its time and not yet locked the directory for.

| Action | Code |
|---|---|
| `Receive`, `Enqueue`, `EnqueueFails` | `ServeHTTP` up to the call, `Store.Enqueue` whole, and cut short after the cleanup or after the marker |
| `RetryFailed` | `Store.RetryFailedSHA` (any failed delivery: several may be of one SHA) |
| `ReadStatus` | `Store.Snapshot`, which drops a waiting delivery that was replaced |
| `RunnerStarts`, `RecoveryFails` | `runStore`: `RecoverInterrupted` whole, and cut short before the slot is freed |
| `Claim`, `ClaimFails` | `Store.Claim` with the done deliveries it drops on the way |
| `StartDeploy`, `DeployEnds` | `runOne`: a cancelled context fails before the command runs |
| `Complete`, `CompleteFails` | `RunAll` after a deployment and `Store.Complete`, whole or cut short after one or two writes |
| `Cancel`, `RunnerDies` | SIGTERM; a kill or a host going down between two operations |

An operation under the lock is one action for all of its writes and one for only
some of them: nobody else sees the state in between, except after a crash.
`Expiring` are the deliveries whose markers may outlive the retention; a cleanup
takes any of them.  `LatestArrival` chooses between the two policies.  One runner
at a time is systemd's guarantee (a oneshot unit), and the path unit starts it
when there is a queue file or a `running.json`.

### DeploySchedule

What somebody who pushes may rely on, without files, processes or redeliveries: a
delivery waits, runs, and is deployed, or fails, or gives way to a newer one; one
runs at a time, the oldest first; what is deployed or has given way is over.

`DeployQueue!KeepsSchedule` is the refinement.  It is about the deliveries whose
markers are kept (`Lasting`): once a marker has expired, the code itself cannot
tell a redelivery from a new delivery.  A write that was cut short leaves files that
contradict each other, and the mapping says which one counts (`Counts`): a queue
file only while no marker is against it, `running.json` only if no queue file of its
delivery is there as well (`Slot`: a recovery that was cut short has put it back
already), a "superseded" marker unless the delivery is processed (`GaveWay`).

### MailOutbox

`job` is `mail_outbox`, `dead` the open dead letters, `receipt` the delivery
receipts and `callback` a receipt's statement between its snapshot and its commit;
`worker` the mail workers; `waiting`, `handler` and `ledger` the provider's calls
in front of and behind its mutex, and its files per key; `sent` counts what the
SMTP server took, `lost` what it took without the provider learning of it.

| Action | Code |
|---|---|
| `Enqueue`, `GoesStale` | the request that writes the mail; expiry and scrubbing of its payload |
| `Reconcile`, `SkipReconcile`, `Sweep`, `Claim` | `Worker.ProcessOne` up to the call: `ApplyAllPendingMailDeliveryReceipts`, `FailExhaustedOutboxLeases`, `ClaimMailOutbox` and the checks after it |
| `CallArrives`, `CallTimesOut` | `HTTPSender.Send` and the start of the provider's `ServeHTTP` |
| `Accept`, `ApplyReceipt`, `Retry`, `Fail` | the rest of `ProcessOne`, one statement each |
| `Replay`, `TurnAway`, `TakeKey`, `SmtpAccepts`, `SmtpFails`, `PersistAccepted` | `Provider.ServeHTTP`: answer again, refuse, claim the key, send, mark |
| `CallbackBegins`, `CallbackCommits` | `mailDeliveryReceipt` and `RecordMailDeliveryReceipt` |
| `Requeue` | `RequeueMailOutbox` |
| `LeaseLapses`, `WorkerCrashes`, `ProviderCrashes` | time, and processes that die; the provider's with its file half written |

The receipt's statement has two steps because its `UPDATE` sees the job as of its
snapshot: a job accepted meanwhile is not delivered by it, and the periodic
reconciliation exists for that.  It never marks its own receipt as applied: its last
part updates the row that its first part has just written, which a PostgreSQL
statement, working on one snapshot, does not do.  So `AcceptedWasSent` says that a
delivered mail has a receipt and that an applied receipt has delivered its mail, not
that every delivered mail's receipt is applied.

### MailPromise

`stage` of a mail is its job's status with the three open ones taken together; `sent`
and `lost` count its copies.  `GoesOut` allows a copy only while every earlier one
was lost to the provider, `Accept` only what the server said it took, and only a
`failed` mail is opened again.  Workers, leases, calls, keys and receipts stutter
(`MailOutbox!KeepsPromise`).

### AccountAccess

`password` counts the passwords the account has had, `code`, `session` and `grant`
are the tables, `latest` the code each purpose would look up, `request` the
handlers with the point they have come to, `held` their row locks.  `After` gives
each operation its statements in order.

| Action | Code |
|---|---|
| `Begin`, `Fails` | a request arrives; it is refused, rolls back, or dies |
| `Lock` | `lockCredentialScope` and the statements that lock the user, a Session or an authorization code, with the check of what they find |
| `LockCode` | `validateVerificationCodeForUpdate`, which commits a wrong guess |
| `Identity`, `Register` | `Register`: the look for the address, and the insert under its unique index |
| `Open`, `Confirm` | `PasswordLogin` and `Verify`, with and without a Session |
| `Replace` | `RecoverPassword`, `ChangePassword` |
| `Authorize`, `Exchange` | the same of `identity.Service` |
| `Request`, `RevokeSession` | `Service.Request` of a code, and the operator's revocation |

A transaction's writes are under locks it keeps to its end, so they are modelled
at its commit; statements that wait for a lock wait (`Granted`).  An `epoch` is the
password a Session was opened under: the code has no such column, and
`SessionsAreCurrent` is about it.

### AccountPromise

The same operations with no requests and no locks: each happens at one moment and
asks for everything in that moment, a password change for a live Session, an exchange
for a live Session behind its grant, a code for being unspent.
`AccountAccess!ActsAtomically` says that the handlers, which check in one statement
and write in a later one, are such operations: a commit maps to the operation, every
other step stutters.  `Spent` are the codes that were used up by what they are for; a
code that was guessed at too often, or replaced by a newer one, is not among them.

### NoticeDesk and NoticePromise

`notice` is the lifecycle of each version, `reviews`, `distribution` and `history`
are the tables, `queued` counts distributions, `received` is what the webhook took.

| Action | Code |
|---|---|
| `CreateVersion`, `Review`, `Distribute` | the same of `lifecycleStore`, inside `writeOperation` |
| `Forget` | a key's day is over: `writeOperation` deletes its row |
| `Claim`, `Deliver`, `Complete` | `Worker.RunOnce` and `WebhookSender.Deliver` |
| `Lapses`, `Crash` | five minutes; a worker that dies |

`NoticePromise` has one variable, where each notice is on its way (`stage`), and
the six moves it may make.  `NoticeDesk!KeepsPromise` is the refinement; `stage`
is read off the lifecycle and, once a notice is distributed, off its distribution,
so claims, attempts, keys and workers stutter.

### FeedbackInbox

`delivery` and `facts` are QuizCraft's tables, `item` and `trail` the inbox's, `late`
the create requests nobody waits for any more; `dispatcher` and `reader` are the
replicas' dispatchers and the status requests.

| Action | Code |
|---|---|
| `CreateFeedback` | `createFeedback` with its outbox row |
| `Query`, `Posts`, `PostFails`, `Record`, `Crash` | `dispatchInboxBatch` |
| `Update`, and `Create` within `Posts`, `PostFails` and `ArrivesLate` | `operationsinbox.Service`; a repeated request is answered from its key |
| `Fetch`, `Look`, `Insert`, `Leave` | `syncFeedbackStatusFromInbox`; the insert has a snapshot and a commit |

### FeedbackPromise

What a feedback's author and the operators see: filed, reached, judged, told.  `Filed`
are the feedbacks with an outbox row, `trail` is the inbox's own, `Told` is what
`loadFeedbackStatus` shows (`Shown`) with its place in the trail.  `Tell` moves it
only forward and only to what the trail says there
(`FeedbackInbox!KeepsPromise`).

### CareerSearch

`status`, `result` and `file` are the jobs' tables, `digest` and `mailed` the digest
deliveries and `email_sent_at`, `enabled` the owner's preference, `mails` what
Platform Core has enqueued, `late` the requests still on their way.

| Action | Code |
|---|---|
| `Create`, `SetNotification` | `storeSearch` and `createExtraction`; `storeProfile` |
| `Claim`, `ClaimDigest` | `claimOne`, `claimOneExtraction`, `claimOneDigest` in the order of `worker.Step` |
| `Complete`, `CompleteExtraction`, `Fail`, `Superseded` | `finish`, `finishExtraction`, `fail`, `failExtraction` |
| `ReadPreference`, `Skip`, `ReadSent`, `Confirm`, `Send`, `SendFails`, `RecordSent`, `Errs`, `MarkRetry` | `deliverDigest`, statement by statement, with `Enqueue` of Platform Core |
| `GrowsStale`, `FallsDue`, `ArrivesLate`, `Crash` | the clock, the network, a process that dies |

### CareerPromise

`outcome` is a job's status with "queued" and "running" taken together, so that claims
and stale workers stutter; `Wanted` are the searches that a worker, or a request
that nobody waits for, may still mail about: a worker that has read the owner's "yes"
and not yet sent.  The owner may say "no" at any later moment and the mail still goes
out: that is what the code does, so `Mail` asks for `wanted` and not for `enabled`.
The refinement is `CareerSearch!KeepsPromise`.

### The proof modules

One for each component, with its name and `Proofs`; section 5.

## 4. Runs

| Run | Question |
|---|---|
| `payments_races` (`PaymentsRaces.cfg`) | Callbacks and refunds of two orders of one owner race and die anywhere, while operators grant and revoke the membership: `PaidBacked`, `NoLostEntitlement`, and the refinement `ImplementsEntitlement`. |
| `payments_console` (`PaymentsConsole.cfg`) | Every kind of request on one order, two in flight: `GatewayAgrees`, `RefundRecordTrue`, `TerminalOrders`, `OperatorGrantStands`; and in the end `PaidEventuallyRecorded` with no callback that is sure to arrive, and `RefundEventuallyApplied` through lookups. |
| `payments_stuck_refund` (`PaymentsStuckRefund.cfg`) | Violation of `RefundNeverStaysPending`. |
| `delivery` (`OrderDelivery.cfg`) | Requests dispatch, retry and recover two orders that share an external id, while leases run out, the provider fails and operators close: `OneTimelyDispatcher`, `FailedOnlyIfTaken`, `PaymentsEnvironment`; `EventuallyDelivered` if the client keeps retrying, `PaidEventuallyBound` if only the callbacks are repeated. |
| `deploy_fifo` (`DeployFifo.cfg`) | The generic queue: `QueueBounded`, `DeployedOnce`, `StatusTrue`, the refinement `KeepsSchedule`, `EventuallyAttempted`. |
| `deploy_latest` (`DeployLatest.cfg`) | The materials queue: `SupersededStaysOut`, and `KeepsSchedule` under its policy. |
| `deploy_interrupted` (`DeployInterrupted.cfg`) | Violation of `InterruptedOrNewer`: after an `Enqueue` cut short between marker and file, a recovery gives the interrupted delivery up for one that is already replaced. |
| `mail_outbox` (`MailOutbox.cfg`) | One mail, two workers, a provider and its crashes: `SentOnce`, `AcceptedWasSent`, the refinement `KeepsPromise`, `EventuallyDecided`, `ReceiptEventuallyApplied`. |
| `account_access` (`AccountAccess.cfg`) | Any two requests of one account at once: `SessionsAreCurrent`, `CodeDoesOneThing`, `OneLockOrder`, and the refinement `ActsAtomically`. |
| `notice_desk` (`NoticeDesk.cfg`) | Operators with keys that expire and workers that complete each other's claims: `DistributionIsTrue`, `HistoryIsTrue`, the refinement `KeepsPromise`, `EventuallyDecided`. |
| `feedback_inbox` (`FeedbackInbox.cfg`) | Two dispatchers and two readers of one feedback: `FactsAreHistory`, the refinement `KeepsPromise`, `ThereAndBack`. |
| `career_search` (`CareerSearch.cfg`) | Two workers on one search, one extraction and the search's digest: `DigestIsTrue`, the refinement `KeepsPromise`, `EventuallyDone`. |

Each run checks what could go wrong between several steps.  The type invariants,
and the simpler facts behind a property that is checked (`EventKeyFree`,
`IntentFollowsOrder`, `OneOrderPerExternal`, `PaidStaysBindable`, `OneCopy`,
`RunningNotSuperseded`, `FailedIsDeadLettered`, `DeliveredIsThere`, and the parts of
`DistributionIsTrue` and `DigestIsTrue`), are proved for every instance (section 5)
and are not repeated in a run.  So are the action properties that a refinement
contains, in words of its own, and that are therefore defined in the proof modules:
`NothingLost`, `AcceptanceStands`, `ExchangedOnce`, `RevokedIsNotExchanged`,
`ShownNeverGoesBack`, `OutcomeStands`.

What the two violations show is in `PROJECT.json` under `findings`, each with
the comment of the code it contradicts.

### Bounds

The payment runs use at most two orders, two requests in flight and two
Idempotency-Keys.  Two orders of one owner are the smallest case with a
replacement payment; a third would only be another replacement.  Two concurrent
requests are enough for every race between a check and a use: the hazards listed
in `PROJECT.json` are all between two actors.  A request may die at any step and
any number of requests may follow one another, so sequences are not bounded.
`CHECK_DEADLOCK FALSE` because the system may rest: all orders terminal, nobody
asking.

The delivery run has two requests, any two of a dispatcher, the one that took its
lease over and a callback, and two orders with one external id, the smallest
conflict.  Leases run out any number of times.

The deploy runs have three deliveries (running, waiting, arriving), the third
with markers that expire, a queue of one place so that it is full when one waits,
and at most four receipts and retries (`MaxStamp`; three in `deploy_fifo`, which
checks liveness too), enough for every delivery to arrive and, in the run with
four, one to come again; crashes and restarts are not bounded.
The bound on stamps bounds the run: once it is reached the deploy queue may rest,
so deadlock is not checked.

`mail_outbox`: two workers are the one whose lease lapsed and the one that took its
job over; two attempts are a first and a last; one requeue (`MaxRequeues`) and one
lost acceptance (`MaxLost`) show that both start over with the key's files in
place.  208,425 distinct states.

`account_access`: two requests, because every race on a lock is between the one that
has it and the one that waits; three Sessions are one to start from and one for
each request; a code of each purpose, two guesses, and two passwords so that one is
old.  The requests are alike, so symmetry is sound for these safety properties.
1,271,628 distinct states.

`notice_desk`: three workers, for a claim that lapses, is claimed again, and is
completed by the first while a third claims what that completion queued; three
attempts as in the code; two keys, the same one again and another one.
`CHECK_DEADLOCK FALSE` because a desk where every key has its history may rest.

`feedback_inbox`: two dispatchers that have the same row, two readers that overtake
each other, an item that changes twice (`MaxVersion`), so that a reader may carry
the middle version past the last.  25,835 distinct states.

`career_search`: two workers on the same job; one search and one extraction, for the
claim's order between them.  The preference and the staleness change any number of
times.  11,672 distinct states.

### Fairness

Payment kernel (`FairSpec`).  A request that was accepted runs on (`WF` of
`Proceed`): Go runs every goroutine and every call has a timeout.  Failures stop
eventually (`<>[][~Abandon]_vars`): a provider or database that fails for ever
records nothing, and the code promises nothing then.  Owners keep reading their
orders and operators keep looking refunds up, even if other requests keep the
service busy (`SF` of `ReadOrders`, `LookUpRefund`): the code has no poller, so
the two liveness properties are exactly as strong as that.

Delivery.  Requests run on and are let go, the gateway acts on a call that reached
it, a lease that its holder does not use runs out.  From some point on nothing
fails, and no dispatcher outlives its lease: the provider's client gives up after 10
seconds, the lease lasts 30.  Without that assumption TLC finds two retries that
take the lease from each other for ever.  Each property then has
its own premise: the client retries (`ClientsRetry`, `SF` of `PersistIntent`), or
the provider repeats its callback until it is answered with success
(`ProviderRepeats`, `SF` of `ReceiveNotification`).

Deploy queue.  Weak fairness of the runner's `Progress`: the path unit starts it
while there is work, and each command ends within its timeout (45 minutes, two
hours for materials).  Crashes and full disks stop eventually; SIGTERM need not.

Mail outbox.  Some worker's loop goes on (`WF`), a lease that is not given up
lapses, and although workers may die in every attempt, not every one of them dies
before it sweeps, claims or reconciles (`SF`).  Nothing is asked of the provider,
the SMTP server or the operator: `EventuallyDecided` holds even if no call is ever
answered, because attempts are counted at the claim and the sweep takes what the
last one left.

Notice desk.  As for mail, per notice: claims lapse, and not every worker dies
before it claims, calls or completes.  The webhook may never answer.

Feedback.  Dispatchers and requests end in finite time (`WF`: the batch has five
seconds, each request its context).  Calls fail, but not every time (`SF` of the
query, the post and the record), and the author keeps asking (`SF` of `Fetch`):
the status is only read when somebody wants to see it.

Career.  Time passes, the loops go on (`WF`), and no step of a job or a digest
fails every time it is tried (`SF`).  An owner may toggle the preference for ever.

`account_access` checks no liveness: a request that waits for a lock gets it or is
ended by the database, which is not this program's doing.

## 5. Proofs

`MembershipPaymentsProofs` proves, for any sets of users, orders, requests and
keys, any `Owner` function and any `Requests`:

| Theorem | Statement |
|---|---|
| `TypeCorrect` | `Spec => []TypeOK` |
| `MembershipBacked`, `EntitlementKept`, `EventInsertSucceeds` | `[]PaidBacked`, `[]NoLostEntitlement`, `[]EventKeyFree` |
| `TerminalOrdersStay`, `OperatorGrantsStand` | the two action properties |
| `KernelKeepsPromise` | the refinement: `Spec => ImplementsEntitlement` |
| `OrdersAgreeWithGateway`, `RefundRecordsTrue` | `[]GatewayAgrees`, `[]RefundRecordTrue` |

Assumptions: only those in `MembershipPayments` (`OwnerAssumption`,
`RequestsAssumption`, `NoOrderAssumption`).

The argument.  None of the invariants is inductive alone.  `IInv` adds:

* `OneCommit` and `CommitPending`: between `Apply` and `Commit` the row lock
  keeps what was checked true, so a commit never applies a fact twice and never
  makes a transition that was not allowed;
* `BoundLeftCreated`: the binder and the callback's recovery cannot touch an order
  whose fact is being applied;
* `PaidHasFact`: every paid order has a paid fact stored, so the search for a
  replacement finds it.  Without this a refund could end a membership another
  order still pays for;
* `EventsStored` and `FreeSources`: events are about stored facts, and a
  membership is free exactly under the sources that take it away.

`GInv` adds for the gateway `LearnedTrue` (what a waiting request has learned of
the gateway stays true until it writes it down, because paid, closed and
refunded are final there) and `RefundedWasPaid` (the gateway refunds only what was
paid here first, which is what keeps a late close from closing a refunded order).

The proof that a step preserves an invariant goes through `Steps`: every step
either is `Quiet` (touches no order, fact or membership and takes no lock) or is
one of six actions, and each invariant needs an argument for those six only.

### The order's delivery

`OrderDeliveryProofs`, for any sets of orders, external ids and requests and any
`External`: `DeliveryTypeCorrect`, `OneDispatcher` (`OneTimelyDispatcher`),
`IntentsFollowOrders`, `PaidCanBeAttached` (`PaidStaysBindable`),
`ExternalsUnique`, `ConflictsAreReal` (`FailedOnlyIfTaken`) and
`EnvironmentDischarged` (`PaymentsEnvironment`).  The invariant behind them adds
to the types: `TablesInv`, the two tables agree row by row; `RequestKnows`, what a
request learned from the provider stays true until it uses it (a charge exists
once it was created, ids do not change); `ExternalInv`, a conflict once seen
lasts, because binding is final; `LeaseInv`, a dispatcher that is in time still
has the lease in its name.

### The deploy queue

`DeployQueueProofs`, for either policy, any deliveries, any limit and any
retention (`Expiring`): `QueueTypeCorrect`, `OneDeployment` (`OneCopy`),
`DeploysOnce`, `ReplacedNotRunning`, `StatusOnRecord`, `QueueLosesNothing`
(`NothingLost`), `ReplacedStaysOut` (`SupersededStaysOut`) and `QueueLimit`
(`QueueBounded`).  The invariant is `QInv`: types, no delivery queued twice, and
`Holds`: a busy runner has what `running.json` says, nothing of it waits, it is
not replaced, and it has no success on record.  Each
write has a lemma that says what it leaves of every field, each action one that
puts its writes together (`JoinsFields`, `TidiesFields`, `RecoveredFields`,
`ClaimFields`, `CompleteFields`); the theorems go through the seven kinds of step
in `Steps`.  `QueueLimit` carries the finiteness of the queue in its invariant.

`ScheduleKept` is the refinement of `DeploySchedule`, one lemma for each kind of
step (`JoinsFollows`, `TidiesFollows`, `RecoveryFollows`, `ClaimFollows`,
`CompleteFollows`, ...).  Two things carry it.  A delivery that a queue file counts
for is in no other place (`QInv`), so the mapping has a delivery once.  And a write
that was cut short is a step of its own in the schedule or none at all: a marker
without its file removed is already the whole move (`MarkersOnly`, `SlotOf`), because
the marker decides what counts.

### The mail outbox

`MailOutboxProofs`, for any jobs and workers and any limits: `MailTypes`,
`DeadLetters` (`FailedIsDeadLettered`), `MailSentOnce` (`SentOnce`),
`AcceptedMailSent` (`AcceptedWasSent`), `AcceptancesStand` (`AcceptanceStands`).
The heart of `IInv` is `KeyInv`: the files of a key tell how often its mail can have
gone out.  No file means exactly the lost ones, a claim behind the mutex not one
more yet, an accepted file at least one.  `CallsInv` ties it to the workers: a call
that somebody waits for is that worker's only call and about its job, so "accepted"
reaches a worker only for a mail that went out, and a late one is only ever told the
truth.  `PromiseKept` is the refinement of `MailPromise`.  It needs `OutInv` as well:
an accepted job has an accepted key, and such a key means one copy more than were
lost, so that nothing more can go out of it.

### Access to an account

`AccountAccessProofs`, for any number of requests, codes, Sessions and grants:
`AccountTypes`, `CurrentSessions` (`SessionsAreCurrent`), `CodesDoOneThing`
(`CodeDoesOneThing`), `OneExchange` (`ExchangedOnce`), `LocksInOrder`
(`OneLockOrder`), `RevokedStaysOut` (`RevokedIsNotExchanged`).  The invariant says
in `LocksInv` which locks a request has at the point it has come to, and that no
row has two holders; in `KnowledgeInv` that what it found in the rows it locked is
still true.  A replacement of the password changes both, so `ReplaceAlone` shows
that no login can be past its check of the old password then (both would hold the
user's row) and no exchange past its check of the Session (the replacement waits
for that row).  `CodesInv` needs no lock at all: `ConsumeVerificationCode` checks
what it writes.  `LocksInOrder` is about sets of requests of any size, where the run has two.  Of two
requests that take the credential scope, one holds nothing yet; a request that starts
with a code waits for nothing but the user's row, holding a code of a purpose that
nobody takes after the user, so that who waits for it holds nothing.  In a circle
everyone waits for someone and is waited for: its members would all take the scope,
and all hold something.

`OperationsAreAtomic` is the refinement of `AccountPromise`.  Its invariant is
`MomentInv`: what a request checked of a Session that it has locked still holds
(`Trusts`), the Session it will open is nobody else's, and an account that is being
recovered exists.  Every writer of a Session has to have its row, so at the commit
all that was checked before is true at once.  `OneExchange` (`ExchangedOnce`) and
`RevokedStaysOut` are what a client of the OAuth flow sees of it.

### The notice desk

`NoticeDeskProofs`, for any notices, keys and workers: `NoticeTypes`,
`ApprovedOnly`, `TrueOutcomes`, both together as `TrueDistributions`
(`DistributionIsTrue`), `TrueHistory` (`HistoryIsTrue`), and `PromiseKept`, the
refinement of `NoticePromise`.  `Lifecycle` reads revision, reviews and distribution
off a notice's state; `WorkerTrue` says that a worker's attempts were counted in its
row, so that a late worker's "failed" is true of the row as well.

### Feedback

`FeedbackInboxProofs`, for any feedbacks, replicas and readers: `FeedbackTypes`,
`DeliveredThere`, `FactsRepeatHistory` (`FactsAreHistory`), `ShownStays`
(`ShownNeverGoesBack`) and `PromiseKept`, the refinement of `FeedbackPromise`.  The
invariant says that every answer of the inbox, in an item, a fact or a reader's
hands, is what the trail says of its version; trails only grow, so it stays so.
That there is a fact of the highest version, so that `Shown` is one, would be an
induction over the facts; it follows instead from the natural numbers being
well-founded (`LeastNatural`, `GreatestBelow`).  For the refinement `FiledFirst` adds
that dispatchers and late requests are about what was filed, and `ToldIsHistory` that
what is shown is fixed by its version, so that a new fact either shows a later one or
changes nothing.

### Career

`CareerSearchProofs`, for any jobs and workers: `CareerTypes`, `OneResult`,
`DurableDigests` (the digest's row comes with the result, and only a result is mailed),
`SentDigests`, the three together as `TrueDigests`
(`DigestIsTrue`), `OutcomesStand` (`OutcomeStands`).  `WorkersKnow`: whoever sends a
digest has a durable result behind it, and whoever records that it was sent did
send it.  `PromiseKept` is the refinement of `CareerPromise`; `WantedMoves` says what
a worker's move means for the searches that a mail may still go out of.

### Only model-checked

The liveness properties and the two violations: fairness is beyond the prover, and a
violation is a trace.  The liveness properties are `PaidEventuallyRecorded`,
`RefundEventuallyApplied`, `EventuallyDelivered` and `PaidEventuallyBound`,
`EventuallyAttempted`, `EventuallyDecided` of mails and of notices,
`ReceiptEventuallyApplied`, `ThereAndBack` and `EventuallyDone`.  Every invariant, every
action property and every refinement that a run checks is proved.

## 6. Not modelled

### What the models leave out

Payments: request authentication and signatures, money amounts, wording and layout of
responses, the audit and notification rows, the PHP gateway beyond its answers.
Deploy: durability below the file, a write or rename that returned is taken to last
(`RecoverInterrupted` of the generic queue does not sync after its removal, which
a repeated recovery would make good); the queue's policy marker, file modes and
ownership, and the materials pipeline's lock.  Mail: encryption and templates;
`Worker.MarkDelivered` has no caller; the SMTP exchange has no deadline of its own
and the provider's mutex is held meanwhile, which the model covers as a call that
takes for ever.  Account: expiry, rate limits, challenges, the Redis locks and the
idempotency keys of `Exchange` only ever refuse, and are covered by `Fails`;
suspension and the replay of a code's answer under its key are left out.  Feedback:
the dispatchers act for one account; were the configured token's account to change
between a lost answer and the retry, the unique source reference would refuse the
retry for ever.  Career: job sources, ranking and rate limits; an owner without a
verified address, whose digest is retried for ever.

Components with no model, and why, are in `PROJECT.json`.  Mostly they are single
transactions that compare a version (Food, role grants), reads, proxies and
presentation (gateways, front ends, MCP servers), or host scripts.  Library
activations are serialised by an advisory lock (`activation.go:460`).  The points
ledger and the idempotent account commands (`accountportfolio.go:612`, `:1342`) and
QuizCraft's settlement are state machines worth a model that are still without one.
The share of the repository's code that is modelled is small for that reason: most
of it is request parsing, generated types and queries of such services.

### Behaviour met while modelling that no run is about

* `payment_console_handlers.go:44`: a close replayed while the first is still
  running, or after it died, answers 200 from the claim's placeholder.
* `payment_console_handlers.go:135`: a replayed refund records that the membership was
  revoked by what it finds then, whoever revoked it.
* `deploy-webhook/internal/runner/runner.go:55`: a runner that is told to stop
  between two deployments claims once more, and records that delivery as failed.
* `notice/idempotency.go:25`: the request's hash covers the route's pattern and the
  body, not the notice version in the path; the same key and body for another
  version replays the first one's answer, where `:48` would call it another request.
* `notice/worker.go:97`: a completion asks whether the row is being processed, not
  whether by this worker, so a stale worker completes or requeues another's claim.
  `DistributionIsTrue` and `KeepsPromise` hold all the same.
* `Authorize` and `Exchange` lock a Session before its user, `RecoverPassword` and
  `ChangePassword` the other way round: PostgreSQL ends one of two that meet.
  `OneLockOrder` leaves them out for that reason, and `Fails` is what happens.
* `platform-core/db/queries/verification_mail.sql:290`: a callback that delivers the
  job leaves its receipt's `applied_at` NULL, and both reconciliations look at
  `accepted` jobs only, so the receipt stays for ever in the index of receipts still to
  be applied (`000003_verification_mail.up.sql:81`).  The job is right.
* `career-opportunities/worker.go:343`: the update to 'skipped' is unguarded and may
  overwrite 'sent', so that, with a third worker, a later retry mark stays for ever on
  a digest that was mailed.  A stale worker's failure discards a search whose second
  worker was about to complete it.
