--------------------------- MODULE DeployQueueProofs ---------------------------
(***************************************************************************)
(* What TLAPS proves about the deploy queue, for either policy, any number *)
(* of deliveries and any limit.                                            *)
(***************************************************************************)
EXTENDS DeployQueue, FiniteSetTheorems, TLAPS

-----------------------------------------------------------------------------
(* Types.  What each write makes of a directory of the right shape.        *)

LEMMA NoneApart == NoEvent \notin Events /\ NoEvent.delivery = None
  BY NoneAssumption DEF NoEvent, Events

LEMMA CleanedTyped ==
  ASSUME NEW d \in Disks, NEW old \in SUBSET Expiring
  PROVE  Cleaned(d, old) \in Disks
  BY DEF Cleaned, Disks

LEMMA SupersedingTyped ==
  ASSUME NEW d \in Disks
  PROVE  Superseding(d) \in Disks
  <1>1. Replaced(d) \subseteq Delivery
    BY DEF Replaced, Disks, Events
  <1> QED BY <1>1 DEF Superseding, Disks

LEMMA QueueingTyped ==
  ASSUME NEW d \in Disks, NEW e \in Events
  PROVE  Queueing(d, e) \in Disks
  BY DEF Queueing, Disks

LEMMA FreedTyped ==
  ASSUME NEW d \in Disks
  PROVE  Freed(d) \in Disks
  BY DEF Freed, Disks

LEMMA RecoveringTyped ==
  ASSUME NEW d \in Disks, d.running # NoEvent
  PROVE  Recovering(d) \in Disks
  BY DEF Recovering, Disks, Events

LEMMA MarkedTyped ==
  ASSUME NEW d \in Disks, NEW e \in Events, NEW ok \in BOOLEAN
  PROVE  Marked(d, e, ok) \in Disks /\ Noted(d, e, ok) \in Disks
  BY DEF Marked, Noted, Disks, Events

\* What TypeOK says of the directory.
Shape(d) ==
  /\ d \in Disks
  /\ ~LatestArrival => d.superseded = {}
  /\ LatestArrival => \A e, f \in d.queue : e = f

LEMMA ShapeOfDisk == TypeOK => Shape(disk) /\ LatestArrival \in BOOLEAN
  BY LatestArrivalAssumption DEF TypeOK, Shape

LEMMA CleanedShape ==
  ASSUME NEW d, Shape(d), NEW old \in SUBSET Expiring
  PROVE  Shape(Cleaned(d, old))
  BY CleanedTyped DEF Cleaned, Disks, Shape

LEMMA SupersedingShape ==
  ASSUME NEW d, Shape(d)
  PROVE  Shape(Superseding(d))
  BY SupersedingTyped DEF Superseding, Replaced, Disks, Shape

LEMMA QueueingShape ==
  ASSUME NEW d, Shape(d), NEW e \in Events
  PROVE  Shape(Queueing(d, e))
  <1>1. Queueing(d, e) \in Disks
    BY QueueingTyped DEF Shape
  <1>2. Queueing(d, e).superseded = d.superseded
    BY DEF Queueing, Disks, Shape
  <1>3. LatestArrival => Queueing(d, e).queue = {e}
    BY DEF Queueing, Disks, Shape
  <1> QED BY <1>1, <1>2, <1>3 DEF Shape

LEMMA FreedShape ==
  ASSUME NEW d, Shape(d)
  PROVE  Shape(Freed(d))
  BY FreedTyped DEF Freed, Disks, Shape

LEMMA RecoveringShape ==
  ASSUME NEW d, Shape(d), d.running # NoEvent
  PROVE  Shape(Recovering(d))
  <1>1. Recovering(d) \in Disks
    BY RecoveringTyped DEF Shape
  <1>2. ~LatestArrival => Recovering(d).superseded = d.superseded
    BY DEF Recovering, GivesWay, Disks, Shape
  <1>3. LatestArrival => Recovering(d).queue = d.queue
                         \/ (d.queue = {} /\ Recovering(d).queue = {d.running})
    BY DEF Recovering, Requeues, Disks, Shape
  <1> QED BY <1>1, <1>2, <1>3 DEF Shape

LEMMA MarkedShape ==
  ASSUME NEW d, Shape(d), NEW e \in Events, NEW ok \in BOOLEAN
  PROVE  Shape(Marked(d, e, ok)) /\ Shape(Noted(d, e, ok))
  <1>1. Marked(d, e, ok) \in Disks /\ Noted(d, e, ok) \in Disks
    BY MarkedTyped DEF Shape
  <1>2. /\ Marked(d, e, ok).queue = d.queue /\ Marked(d, e, ok).superseded = d.superseded
        /\ Noted(d, e, ok).queue = d.queue /\ Noted(d, e, ok).superseded = d.superseded
    BY DEF Marked, Noted, Disks, Shape
  <1> QED BY <1>1, <1>2 DEF Shape

\* A directory of the right shape, and nothing else changed.
LEMMA DiskStep ==
  ASSUME TypeOK, Shape(disk'), runner' \in Runners, UNCHANGED clock, pending' \subseteq pending
  PROVE  TypeOK'
  BY DEF TypeOK, Shape

LEMMA OffTyped == Off \in Runners
  BY DEF Off, Runners

LEMMA InitTyped == Init => TypeOK
  BY OffTyped, QueueAssumption DEF Init, TypeOK, Disks

\* The runner has an event while it is busy.
BusyEvent == Busy => runner.event \in Events

LEMMA StampTyped ==
  ASSUME TypeOK, clock < MaxStamp, NEW x \in Delivery
  PROVE  [delivery |-> x, stamp |-> clock + 1] \in Events /\ clock + 1 \in 0..MaxStamp
  BY QueueAssumption DEF TypeOK, Events

LEMMA ReceiverTyped ==
  ASSUME TypeOK, Receiver
  PROVE  TypeOK' /\ runner' = runner
  <1> USE ShapeOfDisk
  <1>1. runner \in Runners /\ pending \subseteq Events
    BY DEF TypeOK
  <1>2. CASE \E x \in Delivery : Receive(x)
    BY <1>2, StampTyped DEF Receive, TypeOK
  <1>3. CASE \E x \in Delivery : RetryFailed(x)
    <2>1. PICK x \in Delivery : RetryFailed(x)
      BY <1>3
    <2>2. Shape(disk')
      BY <2>1, StampTyped, QueueingShape DEF RetryFailed
    <2> QED BY <2>1, <2>2, <1>1, StampTyped DEF RetryFailed, TypeOK, Shape
  <1>4. CASE \E e \in pending : Enqueue(e)
    <2>1. PICK e \in pending : Enqueue(e)
      BY <1>4
    <2>2. PICK old \in SUBSET Expiring :
            \/ disk' = Cleaned(disk, old)
            \/ disk' = Queueing(Superseding(Cleaned(disk, old)), e)
      BY <2>1 DEF Enqueue
    <2>3. Shape(disk')
      BY <2>2, <1>1, CleanedShape, SupersedingShape, QueueingShape
    <2> QED BY <2>1, <2>3, <1>1, DiskStep DEF Enqueue
  <1>5. CASE \E e \in pending : EnqueueFails(e)
    <2>1. PICK e \in pending : EnqueueFails(e)
      BY <1>5
    <2>2. PICK old \in SUBSET Expiring :
            disk' = Cleaned(disk, old) \/ disk' = Superseding(Cleaned(disk, old))
      BY <2>1 DEF EnqueueFails
    <2>3. Shape(disk')
      BY <2>2, CleanedShape, SupersedingShape
    <2> QED BY <2>1, <2>3, <1>1, DiskStep DEF EnqueueFails
  <1>6. CASE ReadStatus
    <2>1. Shape(disk')
      BY <1>6 DEF ReadStatus, Shape, Disks
    <2> QED BY <1>6, <2>1, <1>1, DiskStep DEF ReadStatus
  <1> QED BY <1>2, <1>3, <1>4, <1>5, <1>6 DEF Receiver

LEMMA RunnerTyped ==
  ASSUME TypeOK, BusyEvent, Progress \/ Failure \/ Cancel
  PROVE  TypeOK' /\ BusyEvent'
  <1> USE ShapeOfDisk, OffTyped
  <1>1. runner \in Runners
    BY DEF TypeOK
  <1>a. ~(Off.pc \in {"claimed", "deploying", "done"}) /\ Off.pc = "off"
    BY DEF Off
  <1>2. CASE RunnerStarts
    <2>1. Shape(disk')
      BY <1>2, RecoveringShape, FreedShape DEF RunnerStarts, Recovered
    <2>2. runner' \in Runners /\ runner'.pc = "ready"
      BY <1>2 DEF RunnerStarts, Off, Runners
    <2> QED BY <1>2, <2>1, <2>2, DiskStep DEF RunnerStarts, BusyEvent, Busy
  <1>3. CASE RecoveryFails
    <2>1. Shape(disk')
      BY <1>3, RecoveringShape DEF RecoveryFails, HalfRecovered
    <2> QED BY <1>3, <2>1, <1>1, DiskStep DEF RecoveryFails, BusyEvent, Busy
  <1>4. CASE Claim
    <2>1. CASE \E e \in disk.queue :
                 /\ disk' = [disk EXCEPT !.running = e, !.queue = {f \in @ : f.stamp >= e.stamp} \ {e}]
                 /\ runner' = [runner EXCEPT !.pc = "claimed", !.event = e]
      <3>1. PICK e \in disk.queue :
                 /\ disk' = [disk EXCEPT !.running = e, !.queue = {f \in @ : f.stamp >= e.stamp} \ {e}]
                 /\ runner' = [runner EXCEPT !.pc = "claimed", !.event = e]
        BY <2>1
      <3>2. e \in Events
        BY DEF Shape, Disks
      <3>3. Shape(disk')
        BY <3>1, <3>2 DEF Shape, Disks
      <3>4. runner' \in Runners /\ runner'.event = e
        BY <3>1, <3>2, <1>1 DEF Runners
      <3> QED BY <1>4, <3>2, <3>3, <3>4, DiskStep DEF Claim, BusyEvent
    <2>2. CASE disk' = [disk EXCEPT !.queue = {}] /\ runner' = Off
      <3>1. Shape(disk')
        BY <2>2 DEF Shape, Disks
      <3> QED BY <1>4, <2>2, <3>1, <1>a, DiskStep DEF Claim, BusyEvent, Busy
    <2> QED BY <1>4, <2>1, <2>2 DEF Claim
  <1>5. CASE ClaimFails
    <2>1. Shape(disk')
      BY <1>5 DEF ClaimFails, Shape, Disks
    <2> QED BY <1>5, <2>1, <1>a, DiskStep DEF ClaimFails, BusyEvent, Busy
  <1>6. CASE StartDeploy \/ DeployEnds \/ Cancel
    <2>1. runner' \in Runners /\ runner'.event = runner.event /\ (Busy' => Busy)
      BY <1>6, <1>1 DEF StartDeploy, DeployEnds, Cancel, Runners, Busy
    <2> QED BY <1>6, <2>1 DEF StartDeploy, DeployEnds, Cancel, TypeOK, BusyEvent
  <1>7. CASE Complete
    <2>1. runner.event \in Events
      BY <1>7 DEF Complete, BusyEvent, Busy
    <2>2. PICK old \in SUBSET Expiring :
            disk' = Completed(Cleaned(disk, old), runner.event, runner.result = "ok")
      BY <1>7 DEF Complete
    <2>3. Shape(disk')
      BY <2>1, <2>2, CleanedShape, MarkedShape, FreedShape DEF Completed
    <2>4. runner' \in Runners /\ runner'.pc \in {"off", "ready"}
      BY <1>7, <1>1, <1>a DEF Complete, Runners
    <2> QED BY <1>7, <2>3, <2>4, DiskStep DEF Complete, BusyEvent, Busy
  <1>8. CASE CompleteFails
    <2>1. runner.event \in Events
      BY <1>8 DEF CompleteFails, BusyEvent, Busy
    <2>2. Shape(disk')
      BY <1>8, <2>1, MarkedShape DEF CompleteFails, HalfCompleted
    <2> QED BY <1>8, <2>2, <1>a, DiskStep DEF CompleteFails, BusyEvent, Busy
  <1>9. CASE RunnerDies
    BY <1>9, <1>a DEF RunnerDies, TypeOK, BusyEvent, Busy
  <1> QED BY <1>2, <1>3, <1>4, <1>5, <1>6, <1>7, <1>8, <1>9 DEF Progress, Failure

LEMMA NextTyped ==
  ASSUME TypeOK, BusyEvent, [Next]_vars
  PROVE  TypeOK' /\ BusyEvent'
  <1>1. CASE Receiver
    BY <1>1, ReceiverTyped DEF BusyEvent, Busy
  <1>2. CASE Progress \/ Failure \/ Cancel
    BY <1>2, RunnerTyped
  <1>3. CASE UNCHANGED vars
    BY <1>3 DEF vars, TypeOK, BusyEvent, Busy
  <1> QED BY <1>1, <1>2, <1>3 DEF Next

\* The files and the runner keep the shapes the code gives them, under either
\* policy and whatever write is cut short.
THEOREM QueueTypeCorrect == Spec => []TypeOK
  <1>1. Init => TypeOK /\ BusyEvent
    BY InitTyped DEF Init, BusyEvent, Busy, Off
  <1>2. TypeOK /\ BusyEvent /\ [Next]_vars => TypeOK' /\ BusyEvent'
    BY NextTyped
  <1> QED BY <1>1, <1>2, PTL DEF Spec

-----------------------------------------------------------------------------
(* What each write touches, field by field.                                *)

LEMMA CleanedFields ==
  ASSUME NEW d, Shape(d), NEW old
  PROVE  LET c == Cleaned(d, old)
         IN /\ c.queue = d.queue /\ c.running = d.running
            /\ c.processed = d.processed \ old /\ c.failed = d.failed \ old
            /\ c.superseded = d.superseded \ old
            /\ c.lastSuccess = d.lastSuccess /\ c.lastFailure = d.lastFailure
  BY DEF Cleaned, Shape, Disks

LEMMA SupersedingFields ==
  ASSUME NEW d, Shape(d)
  PROVE  LET c == Superseding(d)
         IN /\ c.queue = d.queue /\ c.running = d.running
            /\ c.processed = d.processed /\ c.failed = d.failed
            /\ c.superseded = d.superseded \cup Replaced(d)
            /\ c.lastSuccess = d.lastSuccess /\ c.lastFailure = d.lastFailure
  BY DEF Superseding, Shape, Disks

LEMMA QueueingFields ==
  ASSUME NEW d, Shape(d), NEW e
  PROVE  LET c == Queueing(d, e)
         IN /\ c.queue = IF LatestArrival THEN {e} ELSE d.queue \cup {e}
            /\ c.running = d.running
            /\ c.processed = d.processed /\ c.failed = d.failed
            /\ c.superseded = d.superseded
            /\ c.lastSuccess = d.lastSuccess /\ c.lastFailure = d.lastFailure
  BY DEF Queueing, Shape, Disks

LEMMA RecoveringFields ==
  ASSUME NEW d, Shape(d)
  PROVE  LET c == Recovering(d)
         IN /\ c.queue = d.queue \cup IF Requeues(d) THEN {d.running} ELSE {}
            /\ c.superseded = d.superseded \cup IF GivesWay(d) THEN {d.running.delivery} ELSE {}
            /\ c.running = d.running
            /\ c.processed = d.processed /\ c.failed = d.failed
            /\ c.lastSuccess = d.lastSuccess /\ c.lastFailure = d.lastFailure
  BY DEF Recovering, Shape, Disks

LEMMA FreedFields ==
  ASSUME NEW d, Shape(d)
  PROVE  LET c == Freed(d)
         IN /\ c.queue = d.queue /\ c.running = NoEvent
            /\ c.processed = d.processed /\ c.failed = d.failed
            /\ c.superseded = d.superseded
            /\ c.lastSuccess = d.lastSuccess /\ c.lastFailure = d.lastFailure
  BY DEF Freed, Shape, Disks

LEMMA MarkedFields ==
  ASSUME NEW d, Shape(d), NEW e, NEW ok \in BOOLEAN
  PROVE  LET c == Marked(d, e, ok)
         IN /\ c.queue = d.queue /\ c.running = d.running /\ c.superseded = d.superseded
            /\ c.processed = IF ok THEN d.processed \cup {e.delivery} ELSE d.processed
            /\ c.failed = IF ok THEN d.failed ELSE d.failed \cup {e.delivery}
            /\ c.lastSuccess = d.lastSuccess /\ c.lastFailure = d.lastFailure
  BY DEF Marked, Shape, Disks

LEMMA NotedFields ==
  ASSUME NEW d, Shape(d), NEW e, NEW ok \in BOOLEAN
  PROVE  LET c == Noted(d, e, ok)
         IN /\ c.queue = d.queue /\ c.running = d.running /\ c.superseded = d.superseded
            /\ c.processed = d.processed /\ c.failed = d.failed
            /\ c.lastSuccess = IF ok THEN e.delivery ELSE d.lastSuccess
            /\ c.lastFailure = IF ok THEN d.lastFailure ELSE e.delivery
  BY DEF Noted, Shape, Disks

-----------------------------------------------------------------------------
(* The steps by what they do to the directory.  Every property below is    *)
(* proved step by step from these.                                         *)

\* A delivery that is no duplicate joins the queue, in place of whatever it
\* replaces.
Joins ==
  \E e \in Events, old \in SUBSET Expiring :
    /\ ~IsDuplicate(Cleaned(disk, old), e.delivery) /\ Room(Cleaned(disk, old))
    /\ disk' = Queueing(Superseding(Cleaned(disk, old)), e)

\* Markers expire; the waiting delivery may be marked replaced already.
Tidies ==
  \E old \in SUBSET Expiring :
    disk' = Cleaned(disk, old) \/ disk' = Superseding(Cleaned(disk, old))

LEMMA ReceiverSteps ==
  ASSUME TypeOK, Receiver
  PROVE  \/ UNCHANGED disk
         \/ Joins
         \/ Tidies
         \/ ReadStatus
  <1> USE ShapeOfDisk
  <1>0. pending \subseteq Events
    BY DEF TypeOK
  <1>1. CASE \E x \in Delivery : Receive(x)
    BY <1>1 DEF Receive
  <1>2. CASE \E x \in Delivery : RetryFailed(x)
    <2>1. PICK x \in Delivery : RetryFailed(x)
      BY <1>2
    <2>2. DEFINE e == [delivery |-> x, stamp |-> clock + 1]
    <2>3. e \in Events /\ e.delivery = x
      BY <2>1, StampTyped DEF RetryFailed
    <2>4. Cleaned(disk, {}) = disk /\ Superseding(disk) = disk
      BY <2>1 DEF RetryFailed, Cleaned, Superseding, Replaced, Shape, Disks
    <2>5. disk' = Queueing(Superseding(Cleaned(disk, {})), e)
      BY <2>1, <2>4 DEF RetryFailed
    <2>6. ~IsDuplicate(Cleaned(disk, {}), e.delivery) /\ Room(Cleaned(disk, {}))
      BY <2>1, <2>3, <2>4 DEF RetryFailed
    <2> QED BY <2>3, <2>5, <2>6 DEF Joins
  <1>3. CASE \E e \in pending : Enqueue(e)
    <2>1. PICK e \in pending : Enqueue(e)
      BY <1>3
    <2>2. PICK old \in SUBSET Expiring :
            disk' = IF IsDuplicate(Cleaned(disk, old), e.delivery) \/ ~Room(Cleaned(disk, old))
                    THEN Cleaned(disk, old)
                    ELSE Queueing(Superseding(Cleaned(disk, old)), e)
      BY <2>1 DEF Enqueue
    <2>3. e \in Events
      BY <1>0
    <2> QED BY <2>2, <2>3 DEF Joins, Tidies
  <1>4. CASE \E e \in pending : EnqueueFails(e)
    BY <1>4 DEF EnqueueFails, Tidies
  <1> QED BY <1>1, <1>2, <1>3, <1>4 DEF Receiver

\* The runner's steps that leave the directory alone.
LEMMA RunnerSteps ==
  ASSUME Progress \/ Failure \/ Cancel
  PROVE  \/ RunnerStarts \/ RecoveryFails \/ Claim \/ ClaimFails \/ Complete \/ CompleteFails
         \/ StartDeploy \/ DeployEnds
         \/ Cancel \/ RunnerDies
  BY DEF Progress, Failure

-----------------------------------------------------------------------------
(* One copy of a delivery.                                                 *)

QueueOnce == \A e, f \in disk.queue : e.delivery = f.delivery => e = f

\* What the busy runner holds, and nothing marked about it yet.
Holds ==
  Busy => /\ disk.running = runner.event
          /\ ~HasQueued(disk, runner.event.delivery)
          /\ runner.event.delivery \notin disk.superseded
          /\ runner.event.delivery \notin disk.processed

QInv == TypeOK /\ BusyEvent /\ QueueOnce /\ Holds

LEMMA JoinsFields ==
  ASSUME TypeOK, Joins
  PROVE  \E e \in Events, old \in SUBSET Expiring :
           /\ ~IsDuplicate(Cleaned(disk, old), e.delivery) /\ Room(disk)
           /\ ~HasQueued(disk, e.delivery) /\ disk.running.delivery # e.delivery
           /\ disk'.queue = IF LatestArrival THEN {e} ELSE disk.queue \cup {e}
           /\ disk'.running = disk.running
           /\ disk'.processed = disk.processed \ old /\ disk'.failed = disk.failed \ old
           /\ disk'.superseded = (disk.superseded \ old) \cup Replaced(disk)
           /\ disk'.lastSuccess = disk.lastSuccess /\ disk'.lastFailure = disk.lastFailure
  <1> USE ShapeOfDisk
  <1>1. PICK e \in Events, old \in SUBSET Expiring :
          /\ ~IsDuplicate(Cleaned(disk, old), e.delivery) /\ Room(Cleaned(disk, old))
          /\ disk' = Queueing(Superseding(Cleaned(disk, old)), e)
    BY DEF Joins
  <1> DEFINE c == Cleaned(disk, old)
             u == Superseding(c)
  <1>2. Shape(c) /\ Shape(u)
    BY CleanedShape, SupersedingShape
  <1>3. /\ c.queue = disk.queue /\ c.running = disk.running
        /\ c.processed = disk.processed \ old /\ c.failed = disk.failed \ old
        /\ c.superseded = disk.superseded \ old
        /\ c.lastSuccess = disk.lastSuccess /\ c.lastFailure = disk.lastFailure
    BY CleanedFields
  <1>4. /\ u.queue = c.queue /\ u.running = c.running
        /\ u.processed = c.processed /\ u.failed = c.failed
        /\ u.superseded = c.superseded \cup Replaced(c)
        /\ u.lastSuccess = c.lastSuccess /\ u.lastFailure = c.lastFailure
    BY <1>2, SupersedingFields
  <1>5. /\ disk'.queue = IF LatestArrival THEN {e} ELSE u.queue \cup {e}
        /\ disk'.running = u.running
        /\ disk'.processed = u.processed /\ disk'.failed = u.failed
        /\ disk'.superseded = u.superseded
        /\ disk'.lastSuccess = u.lastSuccess /\ disk'.lastFailure = u.lastFailure
    BY <1>1, <1>2, QueueingFields
  <1>6. ~HasQueued(c, e.delivery) /\ c.running.delivery # e.delivery /\ Replaced(c) = Replaced(disk)
    BY <1>1, <1>3 DEF IsDuplicate, Replaced
  <1>7. ~HasQueued(disk, e.delivery)
    BY <1>3, <1>6 DEF HasQueued
  <1>9. Room(disk)
    BY <1>1, <1>3 DEF Room
  <1> HIDE DEF c, u
  <1>8. ~IsDuplicate(Cleaned(disk, old), e.delivery)
    BY <1>1
  <1> QED BY <1>3, <1>4, <1>5, <1>6, <1>7, <1>8, <1>9

LEMMA TidiesFields ==
  ASSUME TypeOK, Tidies
  PROVE  \E old \in SUBSET Expiring :
           /\ disk'.queue = disk.queue /\ disk'.running = disk.running
           /\ disk'.processed = disk.processed \ old /\ disk'.failed = disk.failed \ old
           /\ \/ disk'.superseded = disk.superseded \ old
              \/ disk'.superseded = (disk.superseded \ old) \cup Replaced(disk)
           /\ disk'.lastSuccess = disk.lastSuccess /\ disk'.lastFailure = disk.lastFailure
  <1> USE ShapeOfDisk
  <1>1. PICK old \in SUBSET Expiring :
          disk' = Cleaned(disk, old) \/ disk' = Superseding(Cleaned(disk, old))
    BY DEF Tidies
  <1> DEFINE c == Cleaned(disk, old)
             u == Superseding(c)
  <1>2. Shape(c)
    BY CleanedShape
  <1>3. /\ c.queue = disk.queue /\ c.running = disk.running
        /\ c.processed = disk.processed \ old /\ c.failed = disk.failed \ old
        /\ c.superseded = disk.superseded \ old
        /\ c.lastSuccess = disk.lastSuccess /\ c.lastFailure = disk.lastFailure
    BY CleanedFields
  <1>4. /\ u.queue = c.queue /\ u.running = c.running
        /\ u.processed = c.processed /\ u.failed = c.failed
        /\ u.superseded = c.superseded \cup Replaced(c)
        /\ u.lastSuccess = c.lastSuccess /\ u.lastFailure = c.lastFailure
    BY <1>2, SupersedingFields
  <1>5. Replaced(c) = Replaced(disk)
    BY <1>3 DEF Replaced
  <1>6. disk' = c \/ disk' = u
    BY <1>1
  <1> HIDE DEF c, u
  <1> QED BY <1>3, <1>4, <1>5, <1>6

LEMMA RecoveredFields ==
  ASSUME TypeOK, RunnerStarts \/ RecoveryFails
  PROVE  \/ UNCHANGED disk
         \/ /\ disk.running # NoEvent
            /\ disk'.queue = disk.queue \cup IF Requeues(disk) THEN {disk.running} ELSE {}
            /\ disk'.superseded =
                 disk.superseded \cup IF GivesWay(disk) THEN {disk.running.delivery} ELSE {}
            /\ disk'.running = disk.running \/ (RunnerStarts /\ disk'.running = NoEvent)
            /\ disk'.processed = disk.processed /\ disk'.failed = disk.failed
            /\ disk'.lastSuccess = disk.lastSuccess /\ disk'.lastFailure = disk.lastFailure
  <1> USE ShapeOfDisk
  <1>1. CASE disk.running = NoEvent
    BY <1>1 DEF RunnerStarts, RecoveryFails
  <1>2. CASE disk.running # NoEvent
    <2> DEFINE c == Recovering(disk)
    <2>1. Shape(c)
      BY <1>2, RecoveringShape
    <2>2. /\ c.queue = disk.queue \cup IF Requeues(disk) THEN {disk.running} ELSE {}
          /\ c.superseded = disk.superseded \cup IF GivesWay(disk) THEN {disk.running.delivery} ELSE {}
          /\ c.running = disk.running
          /\ c.processed = disk.processed /\ c.failed = disk.failed
          /\ c.lastSuccess = disk.lastSuccess /\ c.lastFailure = disk.lastFailure
      BY RecoveringFields
    <2>3. /\ Freed(c).queue = c.queue /\ Freed(c).running = NoEvent
          /\ Freed(c).processed = c.processed /\ Freed(c).failed = c.failed
          /\ Freed(c).superseded = c.superseded
          /\ Freed(c).lastSuccess = c.lastSuccess /\ Freed(c).lastFailure = c.lastFailure
      BY <2>1, FreedFields
    <2>4. disk' = c \/ (RunnerStarts /\ disk' = Freed(c))
      BY <1>2 DEF RunnerStarts, RecoveryFails, Recovered, HalfRecovered
    <2> HIDE DEF c
    <2> QED BY <1>2, <2>2, <2>3, <2>4
  <1> QED BY <1>1, <1>2

\* What a claim takes out of the queue is either claimed or done.
LEMMA ClaimFields ==
  ASSUME TypeOK, Claim \/ ClaimFails
  PROVE  /\ disk'.processed = disk.processed /\ disk'.failed = disk.failed
         /\ disk'.superseded = disk.superseded
         /\ disk'.lastSuccess = disk.lastSuccess /\ disk'.lastFailure = disk.lastFailure
         /\ disk.running = NoEvent
         /\ \/ \E e \in disk.queue :
                 /\ HasItsTurn(disk, e) /\ disk'.running = e
                 /\ disk'.queue \subseteq disk.queue \ {e}
                 /\ \A f \in disk.queue \ disk'.queue : f = e \/ Done(disk, f)
                 /\ runner' = [runner EXCEPT !.pc = "claimed", !.event = e]
            \/ /\ disk'.running = disk.running /\ disk'.queue \subseteq disk.queue
               /\ \A f \in disk.queue \ disk'.queue : Done(disk, f)
               /\ runner' = Off
  <1>0. disk.queue \subseteq Events
    BY DEF TypeOK, Disks
  <1>1. CASE ClaimFails
    BY <1>1 DEF ClaimFails, TypeOK, Disks
  <1>2. CASE Claim
    <2>1. CASE disk' = [disk EXCEPT !.queue = {}] /\ runner' = Off /\ \A e \in disk.queue : Done(disk, e)
      BY <1>2, <2>1 DEF Claim, TypeOK, Disks
    <2>2. CASE \E e \in disk.queue :
                 /\ HasItsTurn(disk, e)
                 /\ disk' = [disk EXCEPT !.running = e, !.queue = {f \in @ : f.stamp >= e.stamp} \ {e}]
                 /\ runner' = [runner EXCEPT !.pc = "claimed", !.event = e]
      <3>1. PICK e \in disk.queue :
                 /\ HasItsTurn(disk, e)
                 /\ disk' = [disk EXCEPT !.running = e, !.queue = {f \in @ : f.stamp >= e.stamp} \ {e}]
                 /\ runner' = [runner EXCEPT !.pc = "claimed", !.event = e]
        BY <2>2
      <3>2. /\ disk'.queue = {f \in disk.queue : f.stamp >= e.stamp} \ {e} /\ disk'.running = e
            /\ disk'.processed = disk.processed /\ disk'.failed = disk.failed
            /\ disk'.superseded = disk.superseded
            /\ disk'.lastSuccess = disk.lastSuccess /\ disk'.lastFailure = disk.lastFailure
        BY <3>1 DEF TypeOK, Disks
      <3>3. \A f \in disk.queue : f.stamp \in Nat
        BY <1>0, QueueAssumption DEF Events
      <3>4. \A f \in disk.queue \ disk'.queue : f = e \/ f.stamp < e.stamp
        BY <3>2, <3>3
      <3>5. disk'.queue \subseteq disk.queue \ {e} /\ \A f \in disk.queue \ disk'.queue : f = e \/ Done(disk, f)
        BY <3>1, <3>2, <3>4 DEF HasItsTurn
      <3> QED BY <1>2, <3>1, <3>2, <3>5 DEF Claim
    <2> QED BY <1>2, <2>1, <2>2 DEF Claim
  <1> QED BY <1>1, <1>2

LEMMA CleanedOfNothing ==
  ASSUME NEW d, Shape(d)
  PROVE  Cleaned(d, {}) = d
  BY DEF Cleaned, Shape, Disks

\* A recording of the result is about the delivery the runner holds.
LEMMA CompleteFields ==
  ASSUME QInv, Complete \/ CompleteFails
  PROVE  \E old \in SUBSET Expiring :
           LET e == runner.event
               ok == runner.result = "ok"
           IN /\ e \in Events /\ disk.running = e
              /\ disk'.queue = disk.queue
              /\ disk'.superseded = disk.superseded \ old
              /\ disk'.running = disk.running \/ disk'.running = NoEvent
              /\ disk'.processed = (disk.processed \ old) \cup IF ok THEN {e.delivery} ELSE {}
              /\ disk'.failed = (disk.failed \ old) \cup IF ok THEN {} ELSE {e.delivery}
              /\ disk'.lastSuccess = disk.lastSuccess \/ (ok /\ disk'.lastSuccess = e.delivery)
              /\ disk'.lastFailure = disk.lastFailure \/ (~ok /\ disk'.lastFailure = e.delivery)
              /\ runner'.pc \in {"off", "ready"}
  <1> USE ShapeOfDisk DEF QInv
  <1>0. PICK ok \in BOOLEAN : ok = (runner.result = "ok")
    OBVIOUS
  <1> DEFINE e == runner.event
  <1>1. e \in Events /\ disk.running = e /\ runner \in Runners /\ Shape(disk)
    BY DEF Complete, CompleteFails, BusyEvent, Busy, TypeOK
  <1>a. Off.pc = "off"
    BY DEF Off
  <1>2. runner'.pc \in {"off", "ready"}
    BY <1>1, <1>a DEF Complete, CompleteFails, Runners
  <1>3. PICK old \in SUBSET Expiring :
          disk' \in HalfCompleted(Cleaned(disk, old), e, ok) \cup {Completed(Cleaned(disk, old), e, ok)}
    <2>1. CASE Complete
      BY <1>0, <2>1 DEF Complete
    <2>2. CASE CompleteFails
      <3>1. disk' \in HalfCompleted(Cleaned(disk, {}), e, ok)
        BY <1>0, <2>2, <1>1, CleanedOfNothing DEF CompleteFails
      <3> QED BY <3>1
    <2> QED BY <2>1, <2>2
  <1> DEFINE d == Cleaned(disk, old)
  <1> DEFINE m == Marked(d, e, ok)
             n == Noted(m, e, ok)
  <1>4. Shape(d) /\ Shape(m) /\ Shape(n)
    BY <1>1, CleanedShape, MarkedShape
  <1>5. disk' \in {m, n, Freed(n)}
    BY <1>3 DEF HalfCompleted, Completed
  <1>6. /\ d.queue = disk.queue /\ d.running = disk.running
        /\ d.processed = disk.processed \ old /\ d.failed = disk.failed \ old
        /\ d.superseded = disk.superseded \ old
        /\ d.lastSuccess = disk.lastSuccess /\ d.lastFailure = disk.lastFailure
    BY CleanedFields
  <1>7. /\ m.queue = d.queue /\ m.running = d.running /\ m.superseded = d.superseded
        /\ m.processed = IF ok THEN d.processed \cup {e.delivery} ELSE d.processed
        /\ m.failed = IF ok THEN d.failed ELSE d.failed \cup {e.delivery}
        /\ m.lastSuccess = d.lastSuccess /\ m.lastFailure = d.lastFailure
    BY <1>4, MarkedFields
  <1>8. /\ n.queue = m.queue /\ n.running = m.running /\ n.superseded = m.superseded
        /\ n.processed = m.processed /\ n.failed = m.failed
        /\ n.lastSuccess = IF ok THEN e.delivery ELSE m.lastSuccess
        /\ n.lastFailure = IF ok THEN m.lastFailure ELSE e.delivery
    BY <1>4, NotedFields
  <1>9. /\ Freed(n).queue = n.queue /\ Freed(n).running = NoEvent
        /\ Freed(n).superseded = n.superseded
        /\ Freed(n).processed = n.processed /\ Freed(n).failed = n.failed
        /\ Freed(n).lastSuccess = n.lastSuccess /\ Freed(n).lastFailure = n.lastFailure
    BY <1>4, FreedFields
  <1> HIDE DEF d, m, n, e
  <1>10. /\ e \in Events /\ disk.running = e
         /\ disk'.queue = disk.queue
         /\ disk'.superseded = disk.superseded \ old
         /\ disk'.running = disk.running \/ disk'.running = NoEvent
         /\ disk'.processed = (disk.processed \ old) \cup IF ok THEN {e.delivery} ELSE {}
         /\ disk'.failed = (disk.failed \ old) \cup IF ok THEN {} ELSE {e.delivery}
         /\ disk'.lastSuccess = disk.lastSuccess \/ (ok /\ disk'.lastSuccess = e.delivery)
         /\ disk'.lastFailure = disk.lastFailure \/ (~ok /\ disk'.lastFailure = e.delivery)
    BY <1>1, <1>5, <1>6, <1>7, <1>8, <1>9
  <1> QED BY <1>0, <1>2, <1>10 DEF e

LEMMA InitOnce == Init => QInv
  BY InitTyped DEF Init, QInv, BusyEvent, QueueOnce, Holds, Busy, Off

LEMMA OnceStep ==
  ASSUME QInv, [Next]_vars
  PROVE  QueueOnce' /\ Holds'
  <1> USE ShapeOfDisk DEF QInv
  <1>a. /\ disk.queue \subseteq Events /\ (LatestArrival => \A e, f \in disk.queue : e = f)
        /\ runner \in Runners /\ (~LatestArrival => disk.superseded = {})
    BY DEF TypeOK, Disks
  <1>b. NoEvent.delivery = None /\ \A e \in Events : e.delivery # None
    BY NoneAssumption DEF NoEvent, Events
  \* Whoever is replaced waits, and what the busy runner holds does not wait.
  <1>c. Busy => runner.event.delivery \notin Replaced(disk)
    BY DEF Holds, HasQueued, Replaced
  <1>1. CASE Joins /\ runner' = runner
    <2>1. PICK e \in Events, old \in SUBSET Expiring :
           /\ ~HasQueued(disk, e.delivery) /\ disk.running.delivery # e.delivery
           /\ disk'.queue = IF LatestArrival THEN {e} ELSE disk.queue \cup {e}
           /\ disk'.running = disk.running
           /\ disk'.processed = disk.processed \ old
           /\ disk'.superseded = (disk.superseded \ old) \cup Replaced(disk)
      BY <1>1, JoinsFields
    <2>2. QueueOnce'
      BY <2>1 DEF QueueOnce, HasQueued
    <2>3. Busy => ~HasQueued(disk', runner.event.delivery)
      BY <2>1 DEF Holds, HasQueued
    <2> QED BY <1>1, <1>c, <2>1, <2>2, <2>3 DEF Holds, Busy
  <1>2. CASE Tidies /\ runner' = runner
    <2>1. PICK old \in SUBSET Expiring :
           /\ disk'.queue = disk.queue /\ disk'.running = disk.running
           /\ disk'.processed = disk.processed \ old
           /\ disk'.superseded \subseteq disk.superseded \cup Replaced(disk)
      BY <1>2, TidiesFields
    <2> QED BY <1>2, <1>c, <2>1 DEF QueueOnce, Holds, HasQueued, Busy
  <1>3. CASE ReadStatus
    <2>1. /\ disk'.queue = {} /\ disk'.running = disk.running
          /\ disk'.processed = disk.processed /\ disk'.superseded = disk.superseded
      BY <1>3 DEF ReadStatus, Shape, Disks
    <2> QED BY <1>3, <2>1 DEF ReadStatus, QueueOnce, Holds, HasQueued, Busy
  <1>4. CASE RunnerStarts \/ RecoveryFails
    <2>1. ~Busy' /\ ~Busy
      BY <1>4 DEF RunnerStarts, RecoveryFails, Off, Busy
    <2>2. CASE UNCHANGED disk
      BY <2>1, <2>2 DEF QueueOnce, Holds
    <2>3. CASE disk'.queue = disk.queue \cup IF Requeues(disk) THEN {disk.running} ELSE {}
      BY <2>1, <2>3 DEF Requeues, HasQueued, QueueOnce, Holds
    <2> QED BY <1>4, <2>2, <2>3, RecoveredFields
  <1>5. CASE Claim \/ ClaimFails
    <2>1. disk'.queue \subseteq disk.queue
      BY <1>5, ClaimFields
    <2>2. QueueOnce'
      BY <2>1 DEF QueueOnce
    <2>3. CASE \E e \in disk.queue :
                 /\ HasItsTurn(disk, e) /\ disk'.running = e
                 /\ disk'.queue \subseteq disk.queue \ {e}
                 /\ runner' = [runner EXCEPT !.pc = "claimed", !.event = e]
      <3>1. PICK e \in disk.queue :
                 /\ HasItsTurn(disk, e) /\ disk'.running = e
                 /\ disk'.queue \subseteq disk.queue \ {e}
                 /\ runner' = [runner EXCEPT !.pc = "claimed", !.event = e]
        BY <2>3
      <3>2. runner'.event = e /\ e \in Events
        BY <3>1, <1>a DEF Runners
      <3>3. ~HasQueued(disk', e.delivery)
        BY <3>1 DEF HasQueued, QueueOnce
      <3>4. e.delivery \notin disk'.superseded /\ e.delivery \notin disk'.processed
        BY <3>1, <1>5, <1>a, ClaimFields DEF HasItsTurn, Done, IsProcessed, IsSuperseded
      <3> QED BY <2>2, <3>1, <3>2, <3>3, <3>4 DEF Holds
    <2>4. CASE runner' = Off
      BY <2>2, <2>4 DEF Holds, Busy, Off
    <2> QED BY <1>5, <2>3, <2>4, ClaimFields
  <1>6. CASE StartDeploy \/ DeployEnds \/ Cancel
    <2>1. /\ runner'.event = runner.event /\ (Busy' => Busy) /\ UNCHANGED disk
          /\ runner'.pc \in {"claimed", "deploying"} => runner.pc \in {"claimed", "deploying"}
      BY <1>6, <1>a DEF StartDeploy, DeployEnds, Cancel, Runners, Busy
    <2> QED BY <2>1 DEF QueueOnce, Holds
  <1>7. CASE Complete \/ CompleteFails
    <2>1. disk'.queue = disk.queue /\ runner'.pc \in {"off", "ready"}
      BY <1>7, CompleteFields
    <2> QED BY <2>1 DEF QueueOnce, Holds, Busy
  <1>8. CASE RunnerDies
    BY <1>8 DEF RunnerDies, QueueOnce, Holds, Busy, Off
  <1>9. CASE UNCHANGED <<disk, runner>>
    BY <1>9 DEF QueueOnce, Holds, Busy
  <1>10. CASE Receiver
    <2>1. runner' = runner
      BY <1>10, ReceiverTyped
    <2> QED BY <1>10, <2>1, <1>1, <1>2, <1>3, <1>9, ReceiverSteps
  <1>11. CASE Progress \/ Failure \/ Cancel
    BY <1>11, <1>4, <1>5, <1>6, <1>7, <1>8, RunnerSteps
  <1> QED BY <1>9, <1>10, <1>11 DEF Next, vars

LEMMA QInvStep ==
  ASSUME QInv, [Next]_vars
  PROVE  QInv'
  BY NextTyped, OnceStep DEF QInv

LEMMA QInvAlways == Spec => []QInv
  <1>1. Init => QInv
    BY InitOnce
  <1>2. QInv /\ [Next]_vars => QInv'
    BY QInvStep
  <1> QED BY <1>1, <1>2, PTL DEF Spec

\* One deployment at a time, of what running.json says, and no second copy of a
\* delivery anywhere in the queue.
THEOREM OneDeployment == Spec => []OneCopy
  <1>1. QInv => OneCopy
    BY DEF QInv, QueueOnce, Holds, OneCopy
  <1> QED BY <1>1, QInvAlways, PTL

\* A delivery whose success is on record is not deployed again.
THEOREM DeploysOnce == Spec => []DeployedOnce
  <1>1. QInv => DeployedOnce
    BY DEF QInv, Holds, Busy, DeployedOnce
  <1> QED BY <1>1, QInvAlways, PTL

\* The delivery that runs is never one that a newer arrival has replaced.
THEOREM ReplacedNotRunning == Spec => []RunningNotSuperseded
  <1>1. QInv => RunningNotSuperseded
    BY DEF QInv, Holds, RunningNotSuperseded
  <1> QED BY <1>1, QInvAlways, PTL

-----------------------------------------------------------------------------
(* The status files.                                                       *)

LEMMA ReadStatusFields ==
  ASSUME TypeOK, ReadStatus
  PROVE  /\ LatestArrival /\ disk'.queue = {} /\ disk'.running = disk.running
         /\ disk'.processed = disk.processed /\ disk'.failed = disk.failed
         /\ disk'.superseded = disk.superseded
         /\ disk'.lastSuccess = disk.lastSuccess /\ disk'.lastFailure = disk.lastFailure
         /\ \A f \in disk.queue : f.delivery \in disk.superseded
  BY DEF ReadStatus, IsSuperseded, TypeOK, Disks

\* The steps, with what each leaves of the directory.
LEMMA Steps ==
  ASSUME QInv, [Next]_vars
  PROVE  \/ UNCHANGED disk
         \/ Joins
         \/ Tidies
         \/ ReadStatus
         \/ RunnerStarts \/ RecoveryFails
         \/ Claim \/ ClaimFails
         \/ Complete \/ CompleteFails
  <1>1. CASE Receiver
    BY <1>1, ReceiverSteps DEF QInv
  <1>2. CASE Progress \/ Failure \/ Cancel
    BY <1>2, RunnerSteps DEF StartDeploy, DeployEnds, Cancel, RunnerDies
  <1> QED BY <1>1, <1>2 DEF Next, vars

\* What the status files name has its marker: Complete writes that first.
THEOREM StatusOnRecord == Spec => []StatusTrue
  <1>1. Init => StatusTrue
    BY DEF Init, StatusTrue
  <1>2. ASSUME QInv, StatusTrue, [Next]_vars
        PROVE  StatusTrue'
    <2> USE <1>2 DEF QInv
    <2>1. CASE UNCHANGED disk
      BY <2>1 DEF StatusTrue
    <2>2. CASE Joins
      <3>1. PICK old \in SUBSET Expiring :
             /\ disk'.processed = disk.processed \ old /\ disk'.failed = disk.failed \ old
             /\ disk'.lastSuccess = disk.lastSuccess /\ disk'.lastFailure = disk.lastFailure
        BY <2>2, JoinsFields
      <3> QED BY <3>1 DEF StatusTrue
    <2>3. CASE Tidies
      <3>1. PICK old \in SUBSET Expiring :
             /\ disk'.processed = disk.processed \ old /\ disk'.failed = disk.failed \ old
             /\ disk'.lastSuccess = disk.lastSuccess /\ disk'.lastFailure = disk.lastFailure
        BY <2>3, TidiesFields
      <3> QED BY <3>1 DEF StatusTrue
    <2>4. CASE ReadStatus
      BY <2>4, ReadStatusFields DEF StatusTrue
    <2>5. CASE RunnerStarts \/ RecoveryFails
      <3>1. /\ disk'.processed = disk.processed /\ disk'.failed = disk.failed
            /\ disk'.lastSuccess = disk.lastSuccess /\ disk'.lastFailure = disk.lastFailure
        BY <2>5, RecoveredFields
      <3> QED BY <3>1 DEF StatusTrue
    <2>6. CASE Claim \/ ClaimFails
      BY <2>6, ClaimFields DEF StatusTrue
    <2>7. CASE Complete \/ CompleteFails
      <3> DEFINE x == runner.event.delivery
                 ok == runner.result = "ok"
      <3>1. PICK old \in SUBSET Expiring :
             /\ disk'.processed = (disk.processed \ old) \cup IF ok THEN {x} ELSE {}
             /\ disk'.failed = (disk.failed \ old) \cup IF ok THEN {} ELSE {x}
             /\ disk'.lastSuccess = disk.lastSuccess \/ (ok /\ disk'.lastSuccess = x)
             /\ disk'.lastFailure = disk.lastFailure \/ (~ok /\ disk'.lastFailure = x)
        BY <2>7, CompleteFields
      <3> HIDE DEF x
      <3> QED BY <3>1 DEF StatusTrue
    <2> QED BY <2>1, <2>2, <2>3, <2>4, <2>5, <2>6, <2>7, Steps
  <1> QED BY <1>1, <1>2, QInvAlways, PTL DEF Spec

-----------------------------------------------------------------------------
(* What is taken stays known.                                              *)

Known(d, x) ==
  \/ HasQueued(d, x) \/ d.running.delivery = x
  \/ x \in d.processed \/ x \in d.failed \/ x \in d.superseded

\* A delivery the queue has taken never vanishes without a trace: at every
\* point of every write it is queued, running, or has a marker.
NothingLost ==
  [][\A x \in Delivery \ Expiring : Known(disk, x) => Known(disk', x)]_vars

LEMMA KnownStep ==
  ASSUME QInv, [Next]_vars, NEW x \in Delivery \ Expiring, Known(disk, x)
  PROVE  Known(disk', x)
  <1> USE DEF QInv
  <1>0. x # None
    BY NoneAssumption
  <1>1. CASE UNCHANGED disk
    BY <1>1 DEF Known, HasQueued
  <1>2. CASE Joins
    <2>1. PICK e \in Events, old \in SUBSET Expiring :
           /\ disk'.queue = IF LatestArrival THEN {e} ELSE disk.queue \cup {e}
           /\ disk'.running = disk.running
           /\ disk'.processed = disk.processed \ old /\ disk'.failed = disk.failed \ old
           /\ disk'.superseded = (disk.superseded \ old) \cup Replaced(disk)
      BY <1>2, JoinsFields
    <2>2. HasQueued(disk, x) => HasQueued(disk', x) \/ x \in disk'.superseded
      BY <2>1 DEF HasQueued, Replaced
    <2> QED BY <2>1, <2>2 DEF Known
  <1>3. CASE Tidies
    <2>1. PICK old \in SUBSET Expiring :
           /\ disk'.queue = disk.queue /\ disk'.running = disk.running
           /\ disk'.processed = disk.processed \ old /\ disk'.failed = disk.failed \ old
           /\ disk.superseded \ old \subseteq disk'.superseded
      BY <1>3, TidiesFields
    <2> QED BY <2>1 DEF Known, HasQueued
  <1>4. CASE ReadStatus
    BY <1>4, ReadStatusFields DEF Known, HasQueued
  <1>5. CASE RunnerStarts \/ RecoveryFails
    <2>1. CASE UNCHANGED disk
      BY <2>1 DEF Known, HasQueued
    <2>2. CASE /\ disk'.queue = disk.queue \cup IF Requeues(disk) THEN {disk.running} ELSE {}
               /\ disk'.superseded =
                    disk.superseded \cup IF GivesWay(disk) THEN {disk.running.delivery} ELSE {}
               /\ disk'.running = disk.running \/ disk'.running = NoEvent
               /\ disk'.processed = disk.processed /\ disk'.failed = disk.failed
      <3>1. HasQueued(disk, x) => HasQueued(disk', x)
        BY <2>2 DEF HasQueued
      \* The interrupted delivery is requeued, or given up with a marker.
      <3>2. CASE disk.running.delivery = x
        <4>1. CASE Requeues(disk)
          BY <2>2, <3>2, <4>1 DEF Known, HasQueued
        <4>2. CASE ~Requeues(disk)
          <5>1. \/ x \in disk.processed \/ x \in disk.superseded \/ HasQueued(disk, x)
                \/ GivesWay(disk)
            BY <3>2, <4>2 DEF Requeues, GivesWay, IsProcessed, IsSuperseded
          <5> QED BY <2>2, <3>1, <3>2, <5>1 DEF Known
        <4> QED BY <4>1, <4>2
      <3>3. CASE disk.running.delivery # x
        BY <2>2, <3>1, <3>3 DEF Known
      <3> QED BY <3>2, <3>3
    <2> QED BY <1>5, <2>1, <2>2, RecoveredFields
  <1>6. CASE Claim \/ ClaimFails
    <2>1. disk.running.delivery # x
      BY <1>0, <1>6, NoneApart, ClaimFields
    <2>2. disk'.processed = disk.processed /\ disk'.failed = disk.failed
          /\ disk'.superseded = disk.superseded
      BY <1>6, ClaimFields
    <2>3. ASSUME NEW f \in disk.queue \ disk'.queue, f.delivery = x
          PROVE  disk'.running = f \/ x \in disk.processed \cup disk.superseded
      BY <1>6, <2>3, ClaimFields DEF Done, IsProcessed, IsSuperseded
    <2> QED BY <2>1, <2>2, <2>3 DEF Known, HasQueued
  <1>7. CASE Complete \/ CompleteFails
    <2> DEFINE e == runner.event
               ok == runner.result = "ok"
    <2>1. PICK old \in SUBSET Expiring :
           /\ disk.running = e
           /\ disk'.queue = disk.queue
           /\ disk'.superseded = disk.superseded \ old
           /\ disk'.processed = (disk.processed \ old) \cup IF ok THEN {e.delivery} ELSE {}
           /\ disk'.failed = (disk.failed \ old) \cup IF ok THEN {} ELSE {e.delivery}
      BY <1>7, CompleteFields
    <2> HIDE DEF e
    <2> QED BY <2>1 DEF Known, HasQueued
  <1> QED BY <1>1, <1>2, <1>3, <1>4, <1>5, <1>6, <1>7, Steps

\* A delivery the queue has taken stays queued, running or marked through every
\* write, whole or cut short; only the retention takes a marker away.
THEOREM QueueLosesNothing == Spec => NothingLost
  <1>1. QInv /\ [Next]_vars
          => [\A x \in Delivery \ Expiring : Known(disk, x) => Known(disk', x)]_vars
    BY KnownStep
  <1> QED BY <1>1, QInvAlways, PTL DEF Spec, NothingLost

-----------------------------------------------------------------------------
(* What is replaced stays out.                                             *)

LEMMA SupersededStep ==
  ASSUME QInv, [Next]_vars, NEW x \in disk.superseded \ Expiring, HasQueued(disk', x)
  PROVE  HasQueued(disk, x)
  <1> USE DEF QInv
  <1>0. LatestArrival /\ Shape(disk)
    BY ShapeOfDisk DEF TypeOK
  <1>1. CASE UNCHANGED disk
    BY <1>1 DEF HasQueued
  <1>2. CASE Joins
    <2>1. PICK e \in Events, old \in SUBSET Expiring :
           /\ ~IsDuplicate(Cleaned(disk, old), e.delivery)
           /\ disk'.queue = {e}
      BY <1>0, <1>2, JoinsFields
    <2>2. e.delivery \notin disk.superseded \ old
      BY <1>0, <2>1, CleanedFields DEF IsDuplicate, IsSuperseded
    <2>3. e.delivery = x
      BY <2>1 DEF HasQueued
    <2> QED BY <2>2, <2>3
  <1>3. CASE Tidies
    BY <1>3, TidiesFields DEF HasQueued
  <1>4. CASE ReadStatus
    BY <1>4, ReadStatusFields DEF HasQueued
  <1>5. CASE RunnerStarts \/ RecoveryFails
    BY <1>0, <1>5, RecoveredFields DEF Requeues, IsSuperseded, HasQueued
  <1>6. CASE Claim \/ ClaimFails
    BY <1>6, ClaimFields DEF HasQueued
  <1>7. CASE Complete \/ CompleteFails
    BY <1>7, CompleteFields DEF HasQueued
  <1> QED BY <1>1, <1>2, <1>3, <1>4, <1>5, <1>6, <1>7, Steps

\* A replaced delivery does not come back into the queue, neither redelivered
\* nor recovered, while its marker is kept.
THEOREM ReplacedStaysOut == Spec => SupersededStaysOut
  <1>1. QInv /\ [Next]_vars
          => [\A x \in disk.superseded \ Expiring :
                HasQueued(disk', x) => HasQueued(disk, x)]_vars
    BY SupersededStep
  <1> QED BY <1>1, QInvAlways, PTL DEF Spec, SupersededStaysOut

-----------------------------------------------------------------------------
(* The limit of the queue.                                                 *)

Waiting == disk.queue \cup ({disk.running} \ {NoEvent})

\* TLC's sets are finite; here that is part of the invariant.
Limit == IsFiniteSet(Waiting) /\ Cardinality(Waiting) <= MaxQueue + 1

LEMMA OneMore ==
  ASSUME NEW S, IsFiniteSet(S), NEW x, NEW n \in Int, Cardinality(S) <= n
  PROVE  IsFiniteSet(S \cup {x}) /\ Cardinality(S \cup {x}) <= n + 1
  <1>1. IsFiniteSet(S \cup {x}) /\ Cardinality(S) \in Nat
    BY FS_AddElement, FS_CardinalityType
  <1>2. Cardinality(S \cup {x}) = IF x \in S THEN Cardinality(S) ELSE Cardinality(S) + 1
    BY FS_AddElement
  <1> QED BY <1>1, <1>2

LEMMA LimitStep ==
  ASSUME QInv, Limit, [Next]_vars
  PROVE  Limit'
  <1> USE DEF QInv
  <1>1. MaxQueue \in Nat /\ MaxQueue >= 1
    BY QueueAssumption
  <1>2. CASE Joins
    <2>1. PICK e \in Events :
           /\ Room(disk)
           /\ disk'.queue = IF LatestArrival THEN {e} ELSE disk.queue \cup {e}
           /\ disk'.running = disk.running
      BY <1>2, JoinsFields
    <2> DEFINE Before == IF LatestArrival THEN {} ELSE disk.queue
    <2>2. IsFiniteSet(Before) /\ Cardinality(Before) \in Nat /\ Cardinality(Before) <= MaxQueue - 1
      <3>1. CASE LatestArrival
        BY <1>1, <3>1, FS_EmptySet
      <3>2. CASE ~LatestArrival
        <4>1. IsFiniteSet(disk.queue)
          BY FS_Subset DEF Limit, Waiting
        <4>2. Cardinality(disk.queue) \in Nat /\ Cardinality(disk.queue) < MaxQueue
          BY <2>1, <3>2, <4>1, FS_CardinalityType DEF Room
        <4> QED BY <1>1, <3>2, <4>1, <4>2
      <3> QED BY <3>1, <3>2
    <2> HIDE DEF Before
    <2>a. PICK n \in Int : n = MaxQueue - 1
      BY <1>1
    <2>b. PICK m \in Int : m = n + 1
      OBVIOUS
    <2>3. IsFiniteSet(Before \cup {e}) /\ Cardinality(Before \cup {e}) <= m
      BY <2>2, <2>a, <2>b, OneMore
    <2> DEFINE After == Before \cup {e}
    <2>c. IsFiniteSet(After) /\ Cardinality(After) <= m
      BY <2>3
    <2> HIDE DEF After
    <2>d. MaxQueue + 1 \in Int /\ MaxQueue + 1 = m + 1
      BY <1>1, <2>a, <2>b
    <2>e. IsFiniteSet(After \cup {disk.running}) /\ Cardinality(After \cup {disk.running}) <= m + 1
      BY <2>c, OneMore
    <2>4. /\ IsFiniteSet(After \cup {disk.running})
          /\ Cardinality(After \cup {disk.running}) <= MaxQueue + 1
      BY <2>d, <2>e
    <2>5. Waiting' \subseteq After \cup {disk.running}
      BY <2>1 DEF Waiting, Before, After
    <2>6. IsFiniteSet(Waiting') /\ Cardinality(Waiting') \in Nat
          /\ Cardinality(After \cup {disk.running}) \in Nat
          /\ Cardinality(Waiting') <= Cardinality(After \cup {disk.running})
      BY <2>4, <2>5, FS_Subset, FS_CardinalityType
    <2> QED BY <1>1, <2>4, <2>6 DEF Limit
  \* Every other step shrinks or keeps what waits and runs.
  <1>3. ASSUME Waiting' \subseteq Waiting
        PROVE  Limit'
    <2>1. /\ IsFiniteSet(Waiting') /\ Cardinality(Waiting') \in Nat /\ Cardinality(Waiting) \in Nat
          /\ Cardinality(Waiting') <= Cardinality(Waiting)
      BY <1>3, FS_Subset, FS_CardinalityType DEF Limit
    <2> QED BY <1>1, <2>1 DEF Limit
  <1>4. CASE UNCHANGED disk
    BY <1>3, <1>4 DEF Waiting
  <1>5. CASE Tidies
    BY <1>3, <1>5, TidiesFields DEF Waiting
  <1>6. CASE ReadStatus
    BY <1>3, <1>6, ReadStatusFields DEF Waiting
  <1>7. CASE RunnerStarts \/ RecoveryFails
    BY <1>3, <1>4, <1>7, RecoveredFields DEF Waiting
  <1>8. CASE Claim \/ ClaimFails
    BY <1>3, <1>8, ClaimFields DEF Waiting
  <1>9. CASE Complete \/ CompleteFails
    BY <1>3, <1>9, CompleteFields DEF Waiting
  <1> QED BY <1>2, <1>4, <1>5, <1>6, <1>7, <1>8, <1>9, Steps

\* The queue and the running delivery together never exceed the limit by more
\* than the one that a recovery puts back.
THEOREM QueueLimit == Spec => []QueueBounded
  <1>1. Init => Limit
    <2>1. Init => Waiting = {}
      BY DEF Init, Waiting
    <2> QED BY <2>1, FS_EmptySet, QueueAssumption DEF Limit
  <1>2. QInv /\ Limit /\ [Next]_vars => Limit'
    BY LimitStep
  <1>3. Limit => QueueBounded
    BY DEF Limit, Waiting, QueueBounded
  <1> QED BY <1>1, <1>2, <1>3, QInvAlways, PTL DEF Spec

-----------------------------------------------------------------------------
(* The schedule.  First what of it the steps leave alone.                  *)

LEMMA LastingApart ==
  ASSUME NEW x \in Lasting
  PROVE  x # None /\ \A old \in SUBSET Expiring : x \notin old
  BY NoneAssumption DEF Lasting

\* The files that the schedule is read from, up to the markers that expire.
SameMarkers(d, c) ==
  /\ c.processed \cap Lasting = d.processed \cap Lasting
  /\ c.failed \cap Lasting = d.failed \cap Lasting

Stays(d, c) ==
  /\ SameMarkers(d, c)
  /\ Queued(c) = Queued(d) /\ Slot(c) = Slot(d) /\ GaveWay(c) = GaveWay(d)

LEMMA StaysThen ==
  ASSUME Stays(disk, disk'), Deploying' = Deploying
  PROVE  UNCHANGED Schedule!vars
  BY DEF Schedule!vars, Stays, SameMarkers

LEMMA MarkersOnly ==
  ASSUME NEW d, NEW c, SameMarkers(d, c), c.queue = d.queue, c.running = d.running,
         c.superseded \cap Lasting = d.superseded \cap Lasting
  PROVE  Stays(d, c)
  <1>1. \A e : Counts(c, e) = Counts(d, e)
    BY DEF Counts, Done, IsProcessed, IsSuperseded, SameMarkers
  <1>2. GaveWay(c) = GaveWay(d)
    BY DEF GaveWay, SameMarkers
  <1> QED BY <1>1, <1>2 DEF Stays, Queued, Slot, HasQueued

LEMMA CountsThere ==
  ASSUME NEW d, NEW e
  PROVE  Counts(d, e) <=> /\ e.delivery \in Lasting /\ e.delivery \notin d.processed
                          /\ LatestArrival => e.delivery \notin d.superseded
  BY DEF Counts, Done, IsProcessed, IsSuperseded

LEMMA SlotOf ==
  ASSUME NEW d
  PROVE  /\ Slot(d) \in {d.running, NoEvent}
         /\ Slot(d) # NoEvent =>
              Slot(d) = d.running /\ Counts(d, d.running) /\ ~HasQueued(d, d.running.delivery)
         /\ Counts(d, d.running) /\ ~HasQueued(d, d.running.delivery) => Slot(d) = d.running
         /\ d.running = NoEvent => Slot(d) = NoEvent
  BY DEF Slot

\* A newer file, or the marker for one, puts whatever waits out of the schedule.
LEMMA JoinsFollows ==
  ASSUME QInv, Joins, Deploying' = Deploying
  PROVE  [Schedule!Next]_(Schedule!vars)
  <1> USE LatestArrivalAssumption
  <1>a. ~LatestArrival => disk.superseded = {}
    BY DEF QInv, TypeOK
  <1>1. PICK e \in Events, old \in SUBSET Expiring :
           /\ ~IsDuplicate(Cleaned(disk, old), e.delivery)
           /\ ~HasQueued(disk, e.delivery) /\ disk.running.delivery # e.delivery
           /\ disk'.queue = IF LatestArrival THEN {e} ELSE disk.queue \cup {e}
           /\ disk'.running = disk.running
           /\ disk'.processed = disk.processed \ old /\ disk'.failed = disk.failed \ old
           /\ disk'.superseded = (disk.superseded \ old) \cup Replaced(disk)
    BY JoinsFields DEF QInv
  <1>2. SameMarkers(disk, disk')
    BY <1>1, LastingApart DEF SameMarkers
  <1>3. e.delivery \notin Replaced(disk) /\ (~LatestArrival => Replaced(disk) = {})
    BY <1>1 DEF Replaced, HasQueued
  <1>4. e.delivery \in Lasting =>
          e.delivery \notin disk.processed /\ e.delivery \notin disk.superseded
    <2>1. e.delivery \notin disk.processed \ old /\ (LatestArrival => e.delivery \notin disk.superseded \ old)
      BY <1>1, CleanedFields, ShapeOfDisk DEF QInv, IsDuplicate, IsProcessed, IsSuperseded
    <2> QED BY <2>1, <1>a, LastingApart
  <1>5. e.delivery \in Lasting => Counts(disk', e)
    BY <1>1, <1>3, <1>4, CountsThere
  <1>6. Slot(disk') = Slot(disk)
    <2>1. CASE ~LatestArrival
      <3>1. Counts(disk', disk.running) = Counts(disk, disk.running)
        BY <1>1, <2>1, CountsThere, LastingApart
      <3>2. HasQueued(disk', disk.running.delivery) = HasQueued(disk, disk.running.delivery)
        BY <1>1, <2>1 DEF HasQueued
      <3> QED BY <1>1, <3>1, <3>2 DEF Slot
    <2>2. CASE LatestArrival /\ HasQueued(disk, disk.running.delivery)
      <3>1. ~Counts(disk', disk.running)
        BY <1>1, <2>2, CountsThere DEF HasQueued, Replaced
      <3> QED BY <1>1, <2>2, <3>1 DEF Slot
    <2>3. CASE LatestArrival /\ ~HasQueued(disk, disk.running.delivery)
      <3>1. disk.running.delivery \notin Replaced(disk)
        BY <2>3 DEF HasQueued, Replaced
      <3>2. Counts(disk', disk.running) = Counts(disk, disk.running)
        BY <1>1, <3>1, CountsThere, LastingApart
      <3>3. ~HasQueued(disk', disk.running.delivery)
        BY <1>1, <2>3 DEF HasQueued
      <3> QED BY <1>1, <2>3, <3>2, <3>3 DEF Slot
    <2> QED BY <2>1, <2>2, <2>3
  <1>7. GaveWay(disk') = IF LatestArrival THEN GaveWay(disk) \cup Schedule!Names(Queued(disk))
                         ELSE GaveWay(disk)
    <2>1. \A x \in Lasting : x \in disk'.processed <=> x \in disk.processed
      BY <1>1, LastingApart
    <2>2. CASE ~LatestArrival
      BY <1>1, <1>3, <2>1, <2>2, LastingApart DEF GaveWay
    <2>3. CASE LatestArrival
      <3>1. \A x \in Lasting : x \in Replaced(disk) /\ x \notin disk.processed
              => x \in disk.superseded \/ x \in Schedule!Names(Queued(disk))
        BY <2>3, CountsThere DEF Replaced, Queued, Schedule!Names
      <3>2. \A x \in Schedule!Names(Queued(disk)) :
              x \in Lasting /\ x \notin disk.processed /\ x \in Replaced(disk)
        BY <2>3, CountsThere DEF Replaced, Queued, Schedule!Names
      <3> QED BY <1>1, <2>1, <2>3, <3>1, <3>2, LastingApart DEF GaveWay
    <2> QED BY <2>2, <2>3
  <1>8. CASE e.delivery \in Lasting
    <2>1. Queued(disk') = IF LatestArrival THEN {e} ELSE Queued(disk) \cup {e}
      <3>1. CASE LatestArrival
        BY <1>1, <1>5, <1>8, <3>1 DEF Queued
      <3>2. CASE ~LatestArrival
        <4>1. \A f : Counts(disk', f) = Counts(disk, f)
          BY <1>1, <3>2, CountsThere, LastingApart
        <4> QED BY <1>1, <1>5, <1>8, <3>2, <4>1 DEF Queued
      <3> QED BY <3>1, <3>2
    <2>2. e.delivery \notin Schedule!Names(Queued(disk))
      BY <1>1 DEF Schedule!Names, Queued, HasQueued
    <2>3. e.delivery # Slot(disk).delivery
      BY <1>1, <1>8, SlotOf, LastingApart DEF NoEvent
    <2>4. e.delivery \notin GaveWay(disk)
      BY <1>4, <1>8 DEF GaveWay
    <2>5. Schedule!Arrive(e)
      BY <1>2, <1>4, <1>6, <1>7, <1>8, <2>1, <2>2, <2>3, <2>4 DEF Schedule!Arrive, SameMarkers
    <2>6. e \in [delivery : Lasting, stamp : 1..MaxStamp]
      BY <1>8 DEF Events
    <2> QED BY <2>5, <2>6 DEF Schedule!Next
  <1>9. CASE e.delivery \notin Lasting
    <2>1. CASE LatestArrival
      <3>1. Queued(disk') = {}
        BY <1>1, <1>9, <2>1, CountsThere DEF Queued
      <3> QED BY <1>2, <1>6, <1>7, <2>1, <3>1 DEF Schedule!GiveWay, Schedule!Next, SameMarkers
    <2>2. CASE ~LatestArrival
      <3>1. \A f : Counts(disk', f) = Counts(disk, f)
        BY <1>1, <2>2, CountsThere, LastingApart
      <3>2. Queued(disk') = Queued(disk)
        BY <1>1, <1>9, <2>2, <3>1, CountsThere DEF Queued
      <3> QED BY <1>2, <1>6, <1>7, <2>2, <3>2, StaysThen DEF Stays
    <2> QED BY <2>1, <2>2
  <1> QED BY <1>8, <1>9

LEMMA TidiesFollows ==
  ASSUME QInv, Tidies, Deploying' = Deploying
  PROVE  [Schedule!Next]_(Schedule!vars)
  <1> USE LatestArrivalAssumption
  <1>1. PICK old \in SUBSET Expiring :
           /\ disk'.queue = disk.queue /\ disk'.running = disk.running
           /\ disk'.processed = disk.processed \ old /\ disk'.failed = disk.failed \ old
           /\ \/ disk'.superseded = disk.superseded \ old
              \/ disk'.superseded = (disk.superseded \ old) \cup Replaced(disk)
    BY TidiesFields DEF QInv
  <1>2. SameMarkers(disk, disk')
    BY <1>1, LastingApart DEF SameMarkers
  <1>3. CASE disk'.superseded \cap Lasting = disk.superseded \cap Lasting
    BY <1>1, <1>2, <1>3, MarkersOnly, StaysThen
  <1>4. CASE LatestArrival /\ disk'.superseded = (disk.superseded \ old) \cup Replaced(disk)
    <2>1. Queued(disk') = {}
      BY <1>1, <1>4, CountsThere DEF Queued, Replaced
    <2>2. Slot(disk') = Slot(disk)
      <3>1. CASE HasQueued(disk, disk.running.delivery)
        BY <1>1, <3>1 DEF Slot, HasQueued
      <3>2. CASE ~HasQueued(disk, disk.running.delivery)
        <4>1. disk.running.delivery \notin Replaced(disk)
          BY <3>2 DEF HasQueued, Replaced
        <4>2. Counts(disk', disk.running) = Counts(disk, disk.running)
          BY <1>1, <1>4, <4>1, CountsThere, LastingApart
        <4> QED BY <1>1, <4>2 DEF Slot, HasQueued
      <3> QED BY <3>1, <3>2
    <2>3. GaveWay(disk') = GaveWay(disk) \cup Schedule!Names(Queued(disk))
      <3>1. \A x \in Lasting : x \in Replaced(disk) /\ x \notin disk.processed
              => x \in disk.superseded \/ x \in Schedule!Names(Queued(disk))
        BY <1>4, CountsThere DEF Replaced, Queued, Schedule!Names
      <3>2. \A x \in Schedule!Names(Queued(disk)) :
              x \in Lasting /\ x \notin disk.processed /\ x \in Replaced(disk)
        BY <1>4, CountsThere DEF Replaced, Queued, Schedule!Names
      <3>3. \A x \in Lasting : x \in disk'.processed <=> x \in disk.processed
        BY <1>1, LastingApart
      <3> QED BY <1>4, <3>1, <3>2, <3>3, LastingApart DEF GaveWay
    <2> QED BY <1>2, <1>4, <2>1, <2>2, <2>3 DEF Schedule!GiveWay, Schedule!Next, SameMarkers
  <1>5. ~LatestArrival => Replaced(disk) = {}
    BY DEF Replaced
  <1>6. disk'.superseded = disk.superseded \ old => disk'.superseded \cap Lasting = disk.superseded \cap Lasting
    BY <1>1, LastingApart
  <1> QED BY <1>1, <1>3, <1>4, <1>5, <1>6

\* The file that a reading of the status drops was out of the schedule already.
LEMMA ReadStatusFollows ==
  ASSUME QInv, ReadStatus
  PROVE  Stays(disk, disk')
  <1>1. /\ LatestArrival /\ disk'.queue = {} /\ disk'.running = disk.running
        /\ disk'.processed = disk.processed /\ disk'.failed = disk.failed
        /\ disk'.superseded = disk.superseded
        /\ \A f \in disk.queue : f.delivery \in disk.superseded
    BY ReadStatusFields DEF QInv
  <1>2. \A e : Counts(disk', e) = Counts(disk, e)
    BY <1>1, CountsThere
  <1>3. Queued(disk) = {} /\ Queued(disk') = {}
    BY <1>1, CountsThere DEF Queued
  <1>4. HasQueued(disk, disk.running.delivery) => ~Counts(disk, disk.running)
    BY <1>1, CountsThere DEF HasQueued
  <1>5. Slot(disk') = Slot(disk)
    BY <1>1, <1>2, <1>4 DEF Slot, HasQueued
  <1> QED BY <1>1, <1>3, <1>5 DEF Stays, SameMarkers, GaveWay

\* A recovery settles an interrupted run: it waits again, or gives way.  Done once
\* more after it was cut short, it changes nothing of the schedule.
LEMMA RecoveryFollows ==
  ASSUME QInv, RunnerStarts \/ RecoveryFails
  PROVE  [Schedule!Next]_(Schedule!vars)
  <1> USE LatestArrivalAssumption
  <1>a. ~Deploying /\ ~Deploying' /\ Deploying' = Deploying
    BY DEF RunnerStarts, RecoveryFails, Deploying, Busy, Off
  <1>b. ~Counts(disk, NoEvent) /\ ~Counts(disk', NoEvent)
    BY CountsThere, LastingApart DEF NoEvent
  <1>c. NoEvent \notin Events /\ (disk.running \in Events \/ disk.running = NoEvent)
    BY NoneApart DEF QInv, TypeOK, Disks
  <1>1. CASE UNCHANGED disk
    BY <1>1, <1>a, StaysThen DEF Stays, SameMarkers
  <1>2. CASE /\ disk.running # NoEvent
             /\ disk'.queue = disk.queue \cup IF Requeues(disk) THEN {disk.running} ELSE {}
             /\ disk'.superseded =
                  disk.superseded \cup IF GivesWay(disk) THEN {disk.running.delivery} ELSE {}
             /\ disk'.running = disk.running \/ disk'.running = NoEvent
             /\ disk'.processed = disk.processed /\ disk'.failed = disk.failed
    <2> DEFINE x == disk.running.delivery
    <2>1. SameMarkers(disk, disk')
      BY <1>2 DEF SameMarkers
    <2>2. CASE Requeues(disk)
      <3>1. disk'.queue = disk.queue \cup {disk.running} /\ disk'.superseded = disk.superseded
        BY <1>2, <2>2 DEF Requeues, GivesWay
      <3>2. \A e : Counts(disk', e) = Counts(disk, e)
        BY <1>2, <3>1, CountsThere
      <3>3. HasQueued(disk', x)
        BY <3>1 DEF HasQueued
      <3>4. Slot(disk') = NoEvent
        BY <1>2, <3>3 DEF Slot, HasQueued
      <3>5. GaveWay(disk') = GaveWay(disk)
        BY <1>2, <3>1 DEF GaveWay
      <3>6. CASE x \in Lasting
        <4>1. Counts(disk, disk.running)
          BY <2>2, <3>6, CountsThere DEF Requeues, IsProcessed, IsSuperseded
        <4>2. ~HasQueued(disk, x)
          BY <2>2 DEF Requeues, HasQueued
        <4>3. Slot(disk) = disk.running
          BY <4>1, <4>2 DEF Slot
        <4>4. Queued(disk') = Queued(disk) \cup {disk.running}
          BY <3>1, <3>2, <4>1 DEF Queued
        <4>5. Schedule!Resume
          BY <1>2, <1>a, <2>1, <3>4, <3>5, <4>3, <4>4 DEF Schedule!Resume, SameMarkers
        <4> QED BY <4>5 DEF Schedule!Next
      <3>7. CASE x \notin Lasting
        <4>1. ~Counts(disk, disk.running)
          BY <3>7, CountsThere
        <4>2. Slot(disk) = NoEvent /\ Queued(disk') = Queued(disk)
          BY <3>1, <3>2, <4>1 DEF Slot, Queued
        <4> QED BY <1>a, <2>1, <3>4, <3>5, <4>2, StaysThen DEF Stays
      <3> QED BY <3>6, <3>7
    <2>3. CASE GivesWay(disk)
      <3>1. /\ LatestArrival /\ x \notin disk.superseded
            /\ disk'.queue = disk.queue /\ ~HasQueued(disk, x)
            /\ disk'.superseded = disk.superseded \cup {x}
        BY <1>2, <2>3 DEF Requeues, GivesWay, IsSuperseded
      <3>2. \A e \in disk.queue : Counts(disk', e) = Counts(disk, e)
        BY <1>2, <3>1, CountsThere DEF HasQueued
      <3>3. Queued(disk') = Queued(disk)
        BY <3>1, <3>2 DEF Queued
      <3>4. Slot(disk') = NoEvent
        <4>1. ~Counts(disk', disk.running)
          BY <3>1, CountsThere
        <4> QED BY <1>2, <1>b, <4>1 DEF Slot
      <3>5. CASE x \in Lasting /\ x \notin disk.processed
        <4>1. Slot(disk) = disk.running
          BY <3>1, <3>5, CountsThere DEF Slot
        <4>2. GaveWay(disk') = GaveWay(disk) \cup {x}
          BY <1>2, <3>1, <3>5 DEF GaveWay
        <4>3. Schedule!Yield
          BY <1>2, <1>a, <2>1, <3>1, <3>3, <3>4, <4>1, <4>2 DEF Schedule!Yield, SameMarkers
        <4> QED BY <4>3 DEF Schedule!Next
      <3>6. CASE x \notin Lasting \/ x \in disk.processed
        <4>1. Slot(disk) = NoEvent
          BY <3>6, CountsThere DEF Slot
        <4>2. GaveWay(disk') = GaveWay(disk)
          BY <1>2, <3>1, <3>6 DEF GaveWay
        <4> QED BY <1>a, <2>1, <3>3, <3>4, <4>1, <4>2, StaysThen DEF Stays
      <3> QED BY <3>5, <3>6
    <2>4. CASE ~Requeues(disk) /\ ~GivesWay(disk)
      <3>1. disk'.queue = disk.queue /\ disk'.superseded = disk.superseded
        BY <1>2, <2>4
      <3>2. CASE disk'.running = disk.running
        BY <1>2, <1>a, <2>1, <3>1, <3>2, MarkersOnly, StaysThen
      <3>3. CASE disk'.running = NoEvent
        <4>1. x \in disk.processed \/ (LatestArrival /\ x \in disk.superseded) \/ HasQueued(disk, x)
          BY <2>4 DEF Requeues, GivesWay, IsProcessed, IsSuperseded
        <4>2. Slot(disk) = NoEvent /\ Slot(disk') = NoEvent
          BY <1>b, <3>3, <4>1, CountsThere DEF Slot
        <4>3. \A e : Counts(disk', e) = Counts(disk, e)
          BY <1>2, <3>1, CountsThere
        <4>4. Queued(disk') = Queued(disk) /\ GaveWay(disk') = GaveWay(disk)
          BY <1>2, <3>1, <4>3 DEF Queued, GaveWay
        <4> QED BY <1>a, <2>1, <4>2, <4>4, StaysThen DEF Stays
      <3> QED BY <1>2, <3>2, <3>3
    <2> QED BY <2>2, <2>3, <2>4
  <1> QED BY <1>1, <1>2, RecoveredFields DEF QInv

\* A claim starts the oldest that counts; what it drops does not count.
LEMMA ClaimFollows ==
  ASSUME QInv, Claim \/ ClaimFails
  PROVE  [Schedule!Next]_(Schedule!vars)
  <1>1. /\ disk'.processed = disk.processed /\ disk'.failed = disk.failed
        /\ disk'.superseded = disk.superseded /\ disk.running = NoEvent
    BY ClaimFields DEF QInv
  <1>2. SameMarkers(disk, disk') /\ GaveWay(disk') = GaveWay(disk)
    BY <1>1 DEF SameMarkers, GaveWay
  <1>3. \A e : Counts(disk', e) = Counts(disk, e)
    BY <1>1, CountsThere
  <1>4. Slot(disk) = NoEvent /\ Deploying = FALSE
    BY <1>1 DEF Slot, Deploying, Busy, Claim, ClaimFails
  <1>5. disk.queue \subseteq Events /\ runner \in Runners
    BY DEF QInv, TypeOK, Disks
  <1>6. CASE \E e \in disk.queue :
                 /\ HasItsTurn(disk, e) /\ disk'.running = e
                 /\ disk'.queue \subseteq disk.queue \ {e}
                 /\ \A f \in disk.queue \ disk'.queue : f = e \/ Done(disk, f)
                 /\ runner' = [runner EXCEPT !.pc = "claimed", !.event = e]
    <2>1. PICK e \in disk.queue :
                 /\ HasItsTurn(disk, e) /\ disk'.running = e
                 /\ disk'.queue \subseteq disk.queue \ {e}
                 /\ \A f \in disk.queue \ disk'.queue : f = e \/ Done(disk, f)
                 /\ runner' = [runner EXCEPT !.pc = "claimed", !.event = e]
      BY <1>6
    <2>2. runner'.pc = "claimed" /\ runner'.event = e
      BY <1>5, <2>1 DEF Runners
    <2>3. Queued(disk') = Queued(disk) \ {e}
      BY <1>3, <2>1 DEF Queued, Counts
    <2>4. CASE e.delivery \in Lasting
      <3>1. Counts(disk, e) /\ Counts(disk', e)
        BY <1>3, <2>1, <2>4 DEF Counts, HasItsTurn
      <3>2. ~HasQueued(disk', e.delivery)
        BY <2>1 DEF QInv, QueueOnce, HasQueued
      <3>3. Slot(disk') = e /\ Deploying' = TRUE
        BY <2>1, <2>2, <2>4, <3>1, <3>2 DEF Slot, Deploying, Busy
      <3>4. e \in Queued(disk)
        BY <2>1, <3>1 DEF Queued
      <3>5. \A f \in Queued(disk) : e.stamp <= f.stamp
        <4>1. \A f \in Queued(disk) : f \in disk.queue /\ ~(f.stamp < e.stamp)
          BY <2>1 DEF Queued, Counts, HasItsTurn
        <4>2. \A f \in disk.queue : f.stamp \in Nat
          BY <1>5, QueueAssumption DEF Events
        <4> QED BY <2>1, <4>1, <4>2
      <3>6. Schedule!Start(e)
        BY <1>2, <1>4, <2>3, <3>3, <3>4, <3>5 DEF Schedule!Start, SameMarkers
      <3>7. e \in [delivery : Lasting, stamp : 1..MaxStamp]
        BY <1>5, <2>1, <2>4 DEF Events
      <3> QED BY <3>6, <3>7 DEF Schedule!Next
    <2>5. CASE e.delivery \notin Lasting
      <3>1. ~Counts(disk, e) /\ ~Counts(disk', e)
        BY <2>5 DEF Counts
      <3>2. Queued(disk') = Queued(disk)
        BY <2>3, <3>1 DEF Queued
      <3>3. Slot(disk') = NoEvent /\ Deploying' = FALSE
        BY <2>1, <2>2, <2>5, <3>1 DEF Slot, Deploying
      <3> QED BY <1>2, <1>4, <3>2, <3>3, StaysThen DEF Stays
    <2> QED BY <2>4, <2>5
  <1>7. CASE /\ disk'.running = disk.running /\ disk'.queue \subseteq disk.queue
             /\ \A f \in disk.queue \ disk'.queue : Done(disk, f)
             /\ runner' = Off
    <2>1. Queued(disk') = Queued(disk)
      BY <1>3, <1>7 DEF Queued, Counts
    <2>2. Slot(disk') = NoEvent /\ Deploying' = FALSE
      BY <1>1, <1>7 DEF Slot, Deploying, Busy, Off
    <2> QED BY <1>2, <1>4, <2>1, <2>2, StaysThen DEF Stays
  <1> QED BY <1>6, <1>7, ClaimFields DEF QInv

\* A result that got as far as its marker counts as recorded.
LEMMA CompleteFollows ==
  ASSUME QInv, Complete \/ CompleteFails
  PROVE  [Schedule!Next]_(Schedule!vars)
  <1> DEFINE e == runner.event
             success == runner.result = "ok"
  <1>1. PICK old \in SUBSET Expiring :
          /\ e \in Events /\ disk.running = e
          /\ disk'.queue = disk.queue
          /\ disk'.superseded = disk.superseded \ old
          /\ disk'.running = disk.running \/ disk'.running = NoEvent
          /\ disk'.processed = (disk.processed \ old) \cup IF success THEN {e.delivery} ELSE {}
          /\ disk'.failed = (disk.failed \ old) \cup IF success THEN {} ELSE {e.delivery}
          /\ runner'.pc \in {"off", "ready"}
    BY CompleteFields
  <1>2. Busy /\ Deploying' = FALSE
    BY <1>1 DEF Complete, CompleteFails, Deploying, Busy
  <1>3. ~HasQueued(disk, e.delivery) /\ e.delivery \notin disk.superseded /\ e.delivery \notin disk.processed
    BY <1>2 DEF QInv, Holds
  <1> HIDE DEF e, success
  <1>4. /\ \A x \in Lasting : x \in disk'.superseded <=> x \in disk.superseded
        /\ \A x \in Lasting : x # e.delivery => (x \in disk'.processed <=> x \in disk.processed)
        /\ \A x \in Lasting : x # e.delivery => (x \in disk'.failed <=> x \in disk.failed)
    BY <1>1, LastingApart
  <1>5. \A f \in disk.queue : Counts(disk', f) = Counts(disk, f)
    BY <1>3, <1>4, CountsThere DEF HasQueued
  <1>6. Queued(disk') = Queued(disk)
    BY <1>1, <1>5 DEF Queued
  <1>7. GaveWay(disk') = GaveWay(disk)
    BY <1>3, <1>4 DEF GaveWay
  <1>b. ~Counts(disk', NoEvent)
    BY CountsThere, LastingApart DEF NoEvent
  <1>8. CASE e.delivery \in Lasting
    <2>1. Slot(disk) = e /\ e # NoEvent
      BY <1>1, <1>3, <1>8, CountsThere, NoneApart DEF Slot
    <2>2. Deploying = TRUE
      BY <1>2, <1>8 DEF Deploying, e
    <2>3. CASE success
      <3>1. ~Counts(disk', e)
        BY <1>1, <2>3, CountsThere
      <3>2. Slot(disk') = NoEvent
        BY <1>1, <1>b, <3>1 DEF Slot
      <3>3. /\ disk'.processed \cap Lasting = (disk.processed \cap Lasting) \cup {e.delivery}
            /\ disk'.failed \cap Lasting = disk.failed \cap Lasting
        BY <1>1, <1>8, <2>3, LastingApart
      <3>4. Schedule!Succeed
        BY <1>2, <1>6, <1>7, <2>1, <2>2, <3>2, <3>3 DEF Schedule!Succeed
      <3> QED BY <3>4 DEF Schedule!Next
    <2>4. CASE ~success
      <3>1. /\ disk'.processed \cap Lasting = disk.processed \cap Lasting
            /\ disk'.failed \cap Lasting = (disk.failed \cap Lasting) \cup {e.delivery}
        BY <1>1, <1>8, <2>4, LastingApart
      <3>2. Slot(disk') \in {Slot(disk), NoEvent}
        BY <1>1, <2>1, SlotOf
      <3>3. Schedule!Fail
        BY <1>2, <1>6, <1>7, <2>1, <2>2, <3>1, <3>2 DEF Schedule!Fail
      <3> QED BY <3>3 DEF Schedule!Next
    <2> QED BY <2>3, <2>4
  <1>9. CASE e.delivery \notin Lasting
    <2>1. Slot(disk) = NoEvent /\ Slot(disk') = NoEvent
      BY <1>1, <1>9, <1>b, CountsThere DEF Slot
    <2>2. SameMarkers(disk, disk')
      BY <1>1, <1>9, LastingApart DEF SameMarkers
    <2>3. Deploying = FALSE
      BY <1>9 DEF Deploying, e
    <2> QED BY <1>2, <1>6, <1>7, <2>1, <2>2, <2>3, StaysThen DEF Stays
  <1> QED BY <1>8, <1>9

LEMMA DiesFollows ==
  ASSUME QInv, RunnerDies
  PROVE  [Schedule!Next]_(Schedule!vars)
  <1>1. UNCHANGED disk /\ Deploying' = FALSE
    BY DEF RunnerDies, Deploying, Busy, Off
  <1>2. Stays(disk, disk')
    BY <1>1 DEF Stays, SameMarkers
  <1>3. CASE Deploying = FALSE
    BY <1>1, <1>2, <1>3, StaysThen
  <1>4. CASE Deploying = TRUE
    BY <1>1, <1>2, <1>4 DEF Schedule!Interrupt, Schedule!Next, Stays, SameMarkers
  <1>5. Deploying \in BOOLEAN
    BY DEF Deploying, Busy
  <1> QED BY <1>3, <1>4, <1>5

\* What the files say, half-written ones included, moves only as the schedule of
\* DeploySchedule allows: no crash, redelivery, retry or recovery loses, doubles,
\* reorders or brings back a delivery whose markers last.
THEOREM ScheduleKept == Spec => KeepsSchedule
  <1>1. Init => Schedule!Init
    BY DEF Init, Schedule!Init, Queued, Slot, GaveWay, Deploying, Busy, Off
  <1>2. ASSUME QInv, [Next]_vars
        PROVE  [Schedule!Next]_(Schedule!vars)
    <2>1. CASE UNCHANGED disk /\ Deploying' = Deploying
      BY <2>1, StaysThen DEF Stays, SameMarkers
    <2>2. CASE UNCHANGED vars
      BY <2>1, <2>2 DEF vars, Deploying, Busy
    <2>3. CASE Receiver
      <3>1. runner' = runner
        BY <1>2, <2>3, ReceiverTyped DEF QInv
      <3>2. Deploying' = Deploying
        BY <3>1 DEF Deploying, Busy
      <3> QED
        BY <1>2, <2>1, <2>3, <3>2, ReceiverSteps, JoinsFollows, TidiesFollows,
           ReadStatusFollows, StaysThen
        DEF QInv
    <2>4. CASE StartDeploy \/ DeployEnds \/ Cancel
      <3>1. UNCHANGED disk /\ Deploying' = Deploying
        BY <1>2, <2>4
        DEF StartDeploy, DeployEnds, Cancel, QInv, TypeOK, Runners, Deploying, Busy
      <3> QED BY <2>1, <3>1
    <2>5. CASE Progress \/ Failure \/ Cancel
      BY <1>2, <2>4, <2>5, RunnerSteps, RecoveryFollows, ClaimFollows, CompleteFollows, DiesFollows
    <2> QED BY <1>2, <2>2, <2>3, <2>5 DEF Next
  <1>3. QInv /\ [Next]_vars => [Schedule!Next]_(Schedule!vars)
    BY <1>2
  <1> QED BY <1>1, <1>3, QInvAlways, PTL DEF Spec, KeepsSchedule, Schedule!Spec
=============================================================================
