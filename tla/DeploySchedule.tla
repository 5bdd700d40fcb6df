----------------------------- MODULE DeploySchedule -----------------------------
(***************************************************************************)
(* What the deploy webhook promises for the deliveries it has taken, with  *)
(* no files, half-done writes, processes or redeliveries in it.  A         *)
(* delivery waits, runs, and is deployed, or fails, or gives way to a      *)
(* newer one; one runs at a time, the oldest first; one whose run was      *)
(* interrupted waits again under its old time, or gives way; what is       *)
(* deployed or has given way is over.                                      *)
(***************************************************************************)
EXTENDS Naturals

CONSTANTS
  Delivery,       \* the deliveries of the promise
  LatestArrival,  \* TRUE if only the latest arrival waits
  MaxStamp,       \* bound on the time of an arrival
  NoEvent         \* stands for no delivery

VARIABLES
  waiting,     \* deliveries, with their times
  running,     \* the one whose turn it is, or was when its run was interrupted
  busy,        \* whether it is being deployed
  ok,          \* those that were deployed
  failed,      \* those whose deployment failed at least once
  superseded   \* those that gave way to a newer one

vars == <<waiting, running, busy, ok, failed, superseded>>

Init ==
  /\ waiting = {} /\ running = NoEvent /\ ~busy
  /\ ok = {} /\ failed = {} /\ superseded = {}

Names(es) == {e.delivery : e \in es}

\* New to the promise, or failed: GitHub's redeliveries and the retry command.
Arrive(e) ==
  /\ e.delivery \notin Names(waiting) \cup {running.delivery} \cup ok \cup superseded
  /\ waiting' = IF LatestArrival THEN {e} ELSE waiting \cup {e}
  /\ superseded' = IF LatestArrival THEN superseded \cup Names(waiting) ELSE superseded
  /\ UNCHANGED <<running, busy, ok, failed>>

\* A newer arrival, which need not be one of the promise or get its place.
GiveWay ==
  /\ LatestArrival
  /\ waiting' = {} /\ superseded' = superseded \cup Names(waiting)
  /\ UNCHANGED <<running, busy, ok, failed>>

Start(e) ==
  /\ running = NoEvent
  /\ e \in waiting /\ \A f \in waiting : e.stamp <= f.stamp
  /\ running' = e /\ busy' = TRUE /\ waiting' = waiting \ {e}
  /\ UNCHANGED <<ok, failed, superseded>>

Interrupt ==
  /\ busy /\ ~busy'
  /\ UNCHANGED <<waiting, running, ok, failed, superseded>>

\* Neither of a run that is going on.
Resume ==
  /\ running # NoEvent /\ ~busy
  /\ waiting' = waiting \cup {running} /\ running' = NoEvent
  /\ UNCHANGED <<busy, ok, failed, superseded>>

Yield ==
  /\ LatestArrival /\ running # NoEvent /\ ~busy
  /\ superseded' = superseded \cup {running.delivery} /\ running' = NoEvent
  /\ UNCHANGED <<waiting, busy, ok, failed>>

Succeed ==
  /\ busy /\ ~busy'
  /\ ok' = ok \cup {running.delivery} /\ running' = NoEvent
  /\ UNCHANGED <<waiting, failed, superseded>>

\* A failure that was recorded in part only is an interruption, too.
Fail ==
  /\ busy /\ ~busy'
  /\ failed' = failed \cup {running.delivery} /\ running' \in {running, NoEvent}
  /\ UNCHANGED <<waiting, ok, superseded>>

Next ==
  \/ \E e \in [delivery : Delivery, stamp : 1..MaxStamp] : Arrive(e) \/ Start(e)
  \/ GiveWay \/ Interrupt \/ Resume \/ Yield \/ Succeed \/ Fail

Spec == Init /\ [][Next]_vars
=============================================================================
