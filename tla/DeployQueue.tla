------------------------------ MODULE DeployQueue ------------------------------
(***************************************************************************)
(* The deploy webhook's queue of deliveries, kept in files, and the runner *)
(* that deploys them one by one (services/deploy-webhook: state.Store,     *)
(* runner.Runner, `run`).  Two policies share the code: the generic queue  *)
(* is FIFO and has a retry command; the materials queue keeps only the     *)
(* latest arrival waiting.                                                 *)
(*                                                                         *)
(* Every operation of the store holds an exclusive lock on the directory,  *)
(* so operations do not interleave; but each writes several files, one     *)
(* atomic rename at a time, and a process that dies or cannot write leaves *)
(* only the first of them.  The lock dies with its holder.  An operation   *)
(* is therefore one action for all of its writes and one for only some.    *)
(*                                                                         *)
(* There is one runner: systemd starts the oneshot unit, whenever a queue  *)
(* file or running.json exists, and never twice at a time.                 *)
(***************************************************************************)
EXTENDS Naturals, FiniteSets

CONSTANTS
  Delivery,       \* GitHub's delivery ids
  Expiring,       \* those whose terminal markers may outlive the retention
  LatestArrival,  \* TRUE for the materials queue, FALSE for the generic one
  MaxQueue,       \* HENUKIT_WEBHOOK_MAX_QUEUE
  MaxStamp,       \* bound on the clock, that is on receipts and retries
  None            \* stands for a file that does not exist

ASSUME ExpiringAssumption == Expiring \subseteq Delivery
ASSUME LatestArrivalAssumption == LatestArrival \in BOOLEAN
ASSUME QueueAssumption == MaxQueue \in Nat \ {0} /\ MaxStamp \in Nat
ASSUME NoneAssumption == None \notin Delivery

VARIABLES
  clock,    \* counts the times a delivery was stamped
  pending,  \* deliveries a receiver has stamped and not yet enqueued
  disk,     \* the state directory
  runner    \* the runner process

vars == <<clock, pending, disk, runner>>

NoEvent == [delivery |-> None, stamp |-> 0]
Off == [pc |-> "off", event |-> NoEvent, result |-> "none", cancelled |-> FALSE]

Init ==
  /\ clock = 0
  /\ pending = {}
  /\ disk = [queue |-> {}, running |-> NoEvent, processed |-> {}, failed |-> {},
             superseded |-> {}, lastSuccess |-> None, lastFailure |-> None]
  /\ runner = Off

-----------------------------------------------------------------------------
(* What the files say of a delivery, and what the writes make of them.     *)

\* Mutants: markers are looked for under another name.
NeverProcessed(d, x) == FALSE
NeverSuperseded(d, x) == FALSE

IsProcessed(d, x) == x \in d.processed
IsSuperseded(d, x) == LatestArrival /\ x \in d.superseded
HasQueued(d, x) == \E e \in d.queue : e.delivery = x

IsDuplicate(d, x) ==
  \/ IsProcessed(d, x)
  \/ IsSuperseded(d, x)
  \/ HasQueued(d, x)
  \/ d.running.delivery = x

\* cleanupTerminalLocked takes away the markers that are older than the
\* retention; old says whose.
Cleaned(d, old) ==
  [d EXCEPT !.processed = @ \ old, !.failed = @ \ old, !.superseded = @ \ old]

\* The deliveries a new one replaces: the materials queue has one file.
Replaced(d) == IF LatestArrival THEN {e.delivery : e \in d.queue} ELSE {}

Superseding(d) == [d EXCEPT !.superseded = @ \cup Replaced(d)]

Queueing(d, e) == [d EXCEPT !.queue = IF LatestArrival THEN {e} ELSE @ \cup {e}]

\* Mutant: one too many.
RoomForOneMore(d) == Cardinality(d.queue) <= MaxQueue

Room(d) == LatestArrival \/ Cardinality(d.queue) < MaxQueue

-----------------------------------------------------------------------------
(* The receiver.                                                           *)

\* A verified push arrives, for the first time or again, and gets its time.
Receive(x) ==
  /\ clock < MaxStamp
  /\ clock' = clock + 1
  /\ pending' = pending \cup {[delivery |-> x, stamp |-> clock + 1]}
  /\ UNCHANGED <<disk, runner>>

\* Enqueue: a duplicate or a full queue leaves what the cleanup left.
Enqueue(e) ==
  /\ pending' = pending \ {e}
  /\ \E old \in SUBSET Expiring :
       LET d == Cleaned(disk, old)
       IN disk' = IF IsDuplicate(d, e.delivery) \/ ~Room(d) THEN d
                  ELSE Queueing(Superseding(d), e)
  /\ UNCHANGED <<clock, runner>>

\* Enqueue cut short before the delivery's own file is there.
EnqueueFails(e) ==
  /\ pending' = pending \ {e}
  /\ \E old \in SUBSET Expiring :
       LET d == Cleaned(disk, old)
       IN disk' \in {d} \cup IF IsDuplicate(d, e.delivery) THEN {} ELSE {Superseding(d)}
  /\ UNCHANGED <<clock, runner>>

\* The approval helper's `retry`: the newest failed delivery of a SHA, here any
\* failed one, is queued again behind the others (RetryFailedSHA).
RetryFailed(x) ==
  /\ ~LatestArrival /\ clock < MaxStamp
  /\ x \in disk.failed /\ ~IsDuplicate(disk, x) /\ Room(disk)
  /\ clock' = clock + 1
  /\ disk' = Queueing(disk, [delivery |-> x, stamp |-> clock + 1])
  /\ UNCHANGED <<pending, runner>>

\* Snapshot: reading the status drops a waiting delivery that was replaced.
ReadStatus ==
  /\ \E e \in disk.queue : IsSuperseded(disk, e.delivery)
  /\ disk' = [disk EXCEPT !.queue = {}]
  /\ UNCHANGED <<clock, pending, runner>>

-----------------------------------------------------------------------------
(* The runner process.                                                     *)

Freed(d) == [d EXCEPT !.running = NoEvent]

\* The interrupted delivery goes back to the queue, with its old time.
Requeues(d) ==
  /\ ~IsProcessed(d, d.running.delivery)
  /\ IF LatestArrival
     THEN ~IsSuperseded(d, d.running.delivery) /\ d.queue = {}
     ELSE ~HasQueued(d, d.running.delivery)

\* Mutant: it gives way without a marker.
NeverGivesWay(d) == FALSE

\* The interrupted delivery gives way to the one that is waiting.
GivesWay(d) ==
  /\ LatestArrival /\ ~IsSuperseded(d, d.running.delivery)
  /\ d.queue # {} /\ ~HasQueued(d, d.running.delivery)

\* What RecoverInterrupted writes before it removes running.json.
Recovering(d) ==
  [d EXCEPT !.queue = @ \cup IF Requeues(d) THEN {d.running} ELSE {},
            !.superseded = @ \cup IF GivesWay(d) THEN {d.running.delivery} ELSE {}]

\* Mutant: running.json stays when the delivery is done.
FreedUnlessDone(d) ==
  IF IsProcessed(d, d.running.delivery) THEN d ELSE Freed(Recovering(d))

HalfRecovered(d) == Recovering(d)
Recovered(d) == Freed(Recovering(d))

\* The path unit starts the runner, which first recovers what a previous one
\* left behind.
RunnerStarts ==
  /\ runner = Off /\ (disk.queue # {} \/ disk.running # NoEvent)
  /\ disk' = IF disk.running = NoEvent THEN disk ELSE Recovered(disk)
  /\ runner' = [Off EXCEPT !.pc = "ready"]
  /\ UNCHANGED <<clock, pending>>

\* The runner dies, or cannot write, in the middle of the recovery.
RecoveryFails ==
  /\ runner = Off /\ disk.running # NoEvent
  /\ disk' = HalfRecovered(disk)
  /\ UNCHANGED <<clock, pending, runner>>

Done(d, e) == IsProcessed(d, e.delivery) \/ IsSuperseded(d, e.delivery)

\* Mutant: the files are not in the order of their times.
AnyTurn(d, e) == ~Done(d, e)

HasItsTurn(d, e) == ~Done(d, e) /\ \A f \in d.queue : f.stamp < e.stamp => Done(d, f)

\* Claim: the oldest delivery that is not done yet moves to running.json and
\* the done ones before it are dropped; without one the runner ends.  The slot
\* is free: nobody else fills it after the recovery.
Claim ==
  /\ runner.pc = "ready" /\ disk.running = NoEvent
  /\ \/ \E e \in disk.queue :
          /\ HasItsTurn(disk, e)
          /\ disk' = [disk EXCEPT !.running = e,
                                  !.queue = {f \in @ : f.stamp >= e.stamp} \ {e}]
          /\ runner' = [runner EXCEPT !.pc = "claimed", !.event = e]
     \/ /\ \A e \in disk.queue : Done(disk, e)
        /\ disk' = [disk EXCEPT !.queue = {}]
        /\ runner' = Off
  /\ UNCHANGED <<clock, pending>>

\* The runner dies after dropping a done delivery.
ClaimFails ==
  /\ runner.pc = "ready" /\ disk.running = NoEvent
  /\ \E e \in disk.queue :
       /\ Done(disk, e) /\ \A f \in disk.queue : f.stamp >= e.stamp
       /\ disk' = [disk EXCEPT !.queue = @ \ {e}]
  /\ runner' = Off
  /\ UNCHANGED <<clock, pending>>

\* The deploy command starts, unless the runner was told to stop: a command
\* with a cancelled context fails before it runs.
StartDeploy ==
  /\ runner.pc = "claimed"
  /\ runner' = IF runner.cancelled THEN [runner EXCEPT !.pc = "done", !.result = "unstarted"]
               ELSE [runner EXCEPT !.pc = "deploying"]
  /\ UNCHANGED <<clock, pending, disk>>

\* The command succeeds, fails, or is killed by its timeout or the
\* cancellation.
DeployEnds ==
  /\ runner.pc = "deploying"
  /\ \E result \in {"ok", "failed", "timeout"} :
       runner' = [runner EXCEPT !.pc = "done", !.result = result]
  /\ UNCHANGED <<clock, pending, disk>>

\* Complete writes the marker, then the status file, then frees the slot.
Marked(d, e, ok) ==
  IF ok THEN [d EXCEPT !.processed = @ \cup {e.delivery}]
  ELSE [d EXCEPT !.failed = @ \cup {e.delivery}]

Noted(d, e, ok) ==
  IF ok THEN [d EXCEPT !.lastSuccess = e.delivery]
  ELSE [d EXCEPT !.lastFailure = e.delivery]

\* Mutant: the status file first.
NotedFirst(d, e, ok) == {Noted(d, e, ok), Marked(Noted(d, e, ok), e, ok)}

HalfCompleted(d, e, ok) == {Marked(d, e, ok), Noted(Marked(d, e, ok), e, ok)}

Completed(d, e, ok) == Freed(Noted(Marked(d, e, ok), e, ok))

\* The cleanup that ends Complete spares the marker it has just written.  A
\* failure lets the later deliveries have their turn, a timeout or a
\* cancellation ends the runner.
Complete ==
  /\ runner.pc = "done" /\ disk.running = runner.event
  /\ \E old \in SUBSET Expiring :
       disk' = Completed(Cleaned(disk, old), runner.event, runner.result = "ok")
  /\ runner' =
       IF runner.result = "ok" \/ (runner.result = "failed" /\ ~runner.cancelled)
       THEN [runner EXCEPT !.pc = "ready", !.event = NoEvent, !.result = "none"]
       ELSE Off
  /\ UNCHANGED <<clock, pending>>

CompleteFails ==
  /\ runner.pc = "done" /\ disk.running = runner.event
  /\ disk' \in HalfCompleted(disk, runner.event, runner.result = "ok")
  /\ runner' = Off
  /\ UNCHANGED <<clock, pending>>

\* SIGTERM: a stop of the unit, a shutdown of the host.
Cancel ==
  /\ runner.pc # "off" /\ ~runner.cancelled
  /\ runner' = [runner EXCEPT !.cancelled = TRUE]
  /\ UNCHANGED <<clock, pending, disk>>

\* The process is killed between two operations, or the host goes down.
RunnerDies ==
  /\ runner.pc # "off"
  /\ runner' = Off
  /\ UNCHANGED <<clock, pending, disk>>

-----------------------------------------------------------------------------

Progress == RunnerStarts \/ Claim \/ StartDeploy \/ DeployEnds \/ Complete

Failure == RecoveryFails \/ ClaimFails \/ CompleteFails \/ RunnerDies

Receiver ==
  \/ \E x \in Delivery : Receive(x) \/ RetryFailed(x)
  \/ \E e \in pending : Enqueue(e) \/ EnqueueFails(e)
  \/ ReadStatus

Next == Receiver \/ Progress \/ Failure \/ Cancel

Spec == Init /\ [][Next]_vars

\* systemd starts the runner while there is work, every deployment ends in its
\* timeout, and crashes and full disks do not go on for ever.
FairSpec == Spec /\ WF_vars(Progress) /\ <>[][~Failure]_vars

-----------------------------------------------------------------------------
(* Properties.                                                             *)

Events == [delivery : Delivery, stamp : 1..MaxStamp]

Disks ==
  [queue : SUBSET Events, running : Events \cup {NoEvent},
   processed : SUBSET Delivery, failed : SUBSET Delivery, superseded : SUBSET Delivery,
   lastSuccess : Delivery \cup {None}, lastFailure : Delivery \cup {None}]

Runners ==
  [pc : {"off", "ready", "claimed", "deploying", "done"}, event : Events \cup {NoEvent},
   result : {"none", "ok", "failed", "timeout", "unstarted"}, cancelled : BOOLEAN]

\* The shapes of the files; only the materials queue replaces deliveries, and
\* it has one file.
TypeOK ==
  /\ clock \in 0..MaxStamp
  /\ pending \subseteq Events
  /\ disk \in Disks
  /\ runner \in Runners
  /\ ~LatestArrival => disk.superseded = {}
  /\ LatestArrival => \A e, f \in disk.queue : e = f

Busy == runner.pc \in {"claimed", "deploying", "done"}

\* One deployment at a time, and of what running.json says: a runner that has
\* claimed a delivery holds the slot until it has recorded the result, through
\* redeliveries and retries, and nothing of that delivery is queued meanwhile.
\* No delivery is queued twice.
OneCopy ==
  /\ Busy => disk.running = runner.event /\ ~HasQueued(disk, runner.event.delivery)
  /\ \A e, f \in disk.queue : e.delivery = f.delivery => e = f

\* The limit holds with the running delivery on top of it: a recovery puts it
\* back into a queue that may be full (RecoverInterrupted does not count).
QueueBounded ==
  Cardinality(disk.queue \cup ({disk.running} \ {NoEvent})) <= MaxQueue + 1

\* A delivery that was deployed is not deployed again while its marker is
\* kept, whatever is redelivered, retried or recovered.
DeployedOnce ==
  runner.pc \in {"claimed", "deploying"} =>
    runner.event.delivery \notin disk.processed

\* What the status endpoint calls the last success or failure is on record,
\* whenever the process that wrote it died.
StatusTrue ==
  /\ disk.lastSuccess \in disk.processed \cup Expiring \cup {None}
  /\ disk.lastFailure \in disk.failed \cup Expiring \cup {None}

\* The materials queue never deploys a delivery it has replaced: a newer
\* arrival does not touch the running one.
RunningNotSuperseded ==
  Busy => runner.event.delivery \notin disk.superseded

\* A replaced delivery stays out of the queue: no redelivery and no recovery
\* brings it back to displace the newer one.
SupersededStaysOut ==
  [][\A x \in disk.superseded \ Expiring :
       HasQueued(disk', x) => HasQueued(disk, x)]_vars

\* The deliveries whose markers are kept, and what the files say of them: a
\* file that is there does not count when a marker, or a newer file, overrules it.
Lasting == Delivery \ Expiring

Counts(d, e) == e.delivery \in Lasting /\ ~Done(d, e)

Queued(d) == {e \in d.queue : Counts(d, e)}

Slot(d) ==
  IF Counts(d, d.running) /\ ~HasQueued(d, d.running.delivery) THEN d.running ELSE NoEvent

Deploying == Busy /\ runner.event.delivery \in Lasting

GaveWay(d) == (d.superseded \cap Lasting) \ d.processed

Schedule == INSTANCE DeploySchedule WITH
  Delivery <- Lasting, waiting <- Queued(disk), running <- Slot(disk), busy <- Deploying,
  ok <- disk.processed \cap Lasting, failed <- disk.failed \cap Lasting,
  superseded <- GaveWay(disk)

\* Through redeliveries, retries, recoveries, and writes cut short, the queue is
\* the schedule of DeploySchedule: every delivery has one place in it and moves
\* only as the schedule says, the oldest of those that wait is deployed first,
\* and what is deployed or replaced does not come back.
KeepsSchedule == Schedule!Spec

\* What was queued is deployed, fails, or is replaced in the end.
EventuallyAttempted ==
  \A x \in Delivery :
    HasQueued(disk, x) ~> x \in disk.processed \cup disk.failed \cup disk.superseded

\* ADR 0023: a recovery requeues the interrupted delivery unless a newer one
\* waits, so that after it there is something to deploy.
InterruptedOrNewer ==
  [][(RunnerStarts /\ disk.running # NoEvent /\ ~Done(disk, disk.running)) =>
       \E e \in disk'.queue : ~Done(disk', e)]_vars
=============================================================================
