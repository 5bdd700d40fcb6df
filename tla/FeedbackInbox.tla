----------------------------- MODULE FeedbackInbox -----------------------------
(***************************************************************************)
(* How a learner's feedback on a question reaches the operators and how    *)
(* its status comes back: QuizCraft's feedback with its outbox, the inbox  *)
(* dispatchers, platform-core's Operations Inbox, and the status reads     *)
(* (workshop_http.go, inbox_dispatcher.go, operationsinbox/service.go).    *)
(*                                                                         *)
(* A step is one transaction, one SQL statement, or one call between the   *)
(* two services.  The dispatcher's query locks its rows outside any        *)
(* transaction, so the locks are gone before it posts.  A feedback stands  *)
(* for its outbox row, for the idempotency key derived from that row, and  *)
(* for the source reference that is unique in the inbox.                   *)
(*                                                                         *)
(* A request that is refused, or answered from its idempotency key,        *)
(* changes nothing and is left out.  Time is left out: a row is due again  *)
(* at any moment.  The dispatchers act for one account, that of the token  *)
(* they are configured with.                                               *)
(***************************************************************************)
EXTENDS Naturals, Sequences, FiniteSets

CONSTANTS
  Feedbacks,    \* quizcraft_feedbacks, each with its outbox row
  Dispatchers,  \* replicas of the service, each with a dispatcher
  Readers,      \* requests for the status of a feedback
  Statuses,     \* of an inbox item
  Open,         \* the status an item is created with
  MaxVersion,   \* how often an item changes (a bound of the model)
  NoFeedback

ASSUME StatusAssumption == Open \in Statuses
ASSUME VersionAssumption == MaxVersion \in Nat \ {0}
ASSUME NoFeedbackAssumption == NoFeedback \notin Feedbacks

VARIABLES
  delivery,    \* quizcraft_feedback_inbox_deliveries
  facts,       \* quizcraft_feedback_status_facts, in the order they were recorded
  item,        \* operations_inbox_items; version 0: there is none
  trail,       \* operations_inbox_audit_events: the status at each version
  late,        \* create requests that nobody waits for any more
  dispatcher,  \* the dispatchers
  reader       \* the status requests

vars == <<delivery, facts, item, trail, late, dispatcher, reader>>
quizcraft == <<delivery, facts>>
inbox == <<item, trail, late>>

Absent == [version |-> 0, status |-> Open]
Idle == [batch |-> {}, feedback |-> NoFeedback, created |-> FALSE]
Away == [pc |-> "away", feedback |-> NoFeedback, seen |-> Absent]

Init ==
  /\ delivery = [f \in Feedbacks |-> "none"]
  /\ facts = [f \in Feedbacks |-> <<>>]
  /\ item = [f \in Feedbacks |-> Absent]
  /\ trail = [f \in Feedbacks |-> <<>>]
  /\ late = {}
  /\ dispatcher = [d \in Dispatchers |-> Idle]
  /\ reader = [r \in Readers |-> Away]

-----------------------------------------------------------------------------
(* The Operations Inbox.                                                   *)

\* Create: the first request inserts the item; the others find their key.
Create(f) ==
  IF item[f].version > 0 THEN UNCHANGED <<item, trail>>
  ELSE /\ item' = [item EXCEPT ![f] = [version |-> 1, status |-> Open]]
       /\ trail' = [trail EXCEPT ![f] = <<Open>>]

\* Mutant: an update that only sets the status leaves the version.
SameVersion(f, status) == [item[f] EXCEPT !.status = status]

NextVersion(f, status) == [version |-> item[f].version + 1, status |-> status]

\* Update, by an operator who saw the item's version.
Update(f, status) ==
  /\ item[f].version > 0
  /\ Len(trail[f]) < MaxVersion
  /\ item' = [item EXCEPT ![f] = NextVersion(f, status)]
  /\ trail' = [trail EXCEPT ![f] = Append(@, status)]
  /\ UNCHANGED <<quizcraft, late, dispatcher, reader>>

\* A create request arrives after its dispatcher stopped waiting.
ArrivesLate(f) ==
  /\ f \in late
  /\ late' = late \ {f}
  /\ Create(f)
  /\ UNCHANGED <<quizcraft, dispatcher, reader>>

-----------------------------------------------------------------------------
(* QuizCraft: feedback, and the dispatchers (dispatchInboxBatch).          *)

CreateFeedback(f) ==
  /\ delivery[f] = "none"
  /\ delivery' = [delivery EXCEPT ![f] = "due"]
  /\ facts' = [facts EXCEPT ![f] = <<[version |-> 0, status |-> Open]>>]
  /\ UNCHANGED <<inbox, dispatcher, reader>>

Due == {f \in Feedbacks : delivery[f] = "due"}

\* Rows whose time has not come, or that another query just locks, are left.
Query(d, fs) ==
  /\ dispatcher[d].batch = {}
  /\ fs # {} /\ fs \subseteq Due
  /\ dispatcher' = [dispatcher EXCEPT ![d].batch = fs]
  /\ UNCHANGED <<quizcraft, inbox, reader>>

Turn(d, f) == f \in dispatcher[d].batch /\ dispatcher[d].feedback = NoFeedback

Hears(d, f, created) ==
  dispatcher' = [dispatcher EXCEPT ![d].feedback = f, ![d].created = created]

\* createInboxItem, answered with 201.
Posts(d, f) ==
  /\ Turn(d, f)
  /\ Create(f)
  /\ Hears(d, f, TRUE)
  /\ UNCHANGED <<quizcraft, late, reader>>

\* The call fails: it was refused or lost, or its answer was, or it is late.
PostFails(d, f) ==
  /\ Turn(d, f)
  /\ \/ Create(f) /\ UNCHANGED late
     \/ late' \in {late, late \cup {f}} /\ UNCHANGED <<item, trail>>
  /\ Hears(d, f, FALSE)
  /\ UNCHANGED <<quizcraft, reader>>

\* The outcome is written, and the batch goes on.
Record(d) ==
  LET f == dispatcher[d].feedback
  IN /\ f # NoFeedback
     /\ delivery' = IF dispatcher[d].created THEN [delivery EXCEPT ![f] = "delivered"] ELSE delivery
     /\ dispatcher' = [dispatcher EXCEPT ![d] = [Idle EXCEPT !.batch = dispatcher[d].batch \ {f}]]
     /\ UNCHANGED <<facts, inbox, reader>>

\* The process dies, the batch's five seconds are over, or a statement fails.
Crash(d) ==
  /\ dispatcher[d] # Idle
  /\ dispatcher' = [dispatcher EXCEPT ![d] = Idle]
  /\ UNCHANGED <<quizcraft, inbox, reader>>

-----------------------------------------------------------------------------
(* QuizCraft: status reads (syncFeedbackStatusFromInbox).                  *)

Versions(f) == {facts[f][i].version : i \in 1..Len(facts[f])}

\* Mutant: the fact recorded last is shown.
LastRecorded(f) == facts[f][Len(facts[f])]

\* What the author is shown: the fact of the highest version.
Shown(f) ==
  CHOOSE x \in {facts[f][i] : i \in 1..Len(facts[f])} : \A v \in Versions(f) : v <= x.version

Goto(r, pc) == reader' = [reader EXCEPT ![r].pc = pc]

\* getInboxItem: of a feedback not delivered yet nothing is asked.
Fetch(r, f) ==
  /\ reader[r] = Away
  /\ delivery[f] = "delivered"
  /\ reader' = [reader EXCEPT ![r] = [pc |-> "look", feedback |-> f, seen |-> item[f]]]
  /\ UNCHANGED <<quizcraft, inbox, dispatcher>>

\* Mutant: any answer of the inbox that was recorded makes the next one old.
Recorded(r) == \E v \in Versions(reader[r].feedback) : v > 0

\* A newer version was recorded already.
Overtaken(r) == \E v \in Versions(reader[r].feedback) : v > reader[r].seen.version

\* The snapshot of the INSERT, which sees whether it is overtaken ...
Look(r) ==
  /\ reader[r].pc = "look"
  /\ ~Overtaken(r)
  /\ Goto(r, "insert")
  /\ UNCHANGED <<quizcraft, inbox, dispatcher>>

\* ... and the row, unless this version has its fact.
Insert(r) ==
  LET f == reader[r].feedback
  IN /\ reader[r].pc = "insert"
     /\ facts' = IF reader[r].seen.version \in Versions(f) THEN facts
                 ELSE [facts EXCEPT ![f] = Append(@, reader[r].seen)]
     /\ reader' = [reader EXCEPT ![r] = Away]
     /\ UNCHANGED <<delivery, inbox, dispatcher>>

\* The answer is overtaken, or a dependency fails.
Leave(r) ==
  /\ reader[r] # Away
  /\ reader' = [reader EXCEPT ![r] = Away]
  /\ UNCHANGED <<quizcraft, inbox, dispatcher>>

-----------------------------------------------------------------------------
Next ==
  \/ \E f \in Feedbacks :
       \/ CreateFeedback(f) \/ ArrivesLate(f)
       \/ \E status \in Statuses : Update(f, status)
       \/ \E d \in Dispatchers : Posts(d, f) \/ PostFails(d, f)
       \/ \E r \in Readers : Fetch(r, f)
  \/ \E d \in Dispatchers : Record(d) \/ Crash(d) \/ \E fs \in SUBSET Feedbacks : Query(d, fs)
  \/ \E r \in Readers : Look(r) \/ Insert(r) \/ Leave(r)

Spec == Init /\ [][Next]_vars

\* A dispatcher and a request end in finite time.  Replicas die and calls fail, but
\* not every time; and the author of a feedback keeps asking for its status.
Fairness ==
  /\ \A d \in Dispatchers : WF_vars(Record(d) \/ Crash(d))
  /\ \A r \in Readers : WF_vars(Look(r) \/ Insert(r) \/ Leave(r))
  /\ \A f \in Feedbacks :
       /\ SF_vars(\E d \in Dispatchers, fs \in SUBSET Feedbacks : f \in fs /\ Query(d, fs))
       /\ SF_vars(\E d \in Dispatchers : Posts(d, f))
       /\ SF_vars(\E d \in Dispatchers : dispatcher[d].feedback = f /\ dispatcher[d].created /\ Record(d))
       /\ SF_vars(\E r \in Readers : Fetch(r, f))
       /\ SF_vars(\E r \in Readers : reader[r].feedback = f /\ Look(r))
       /\ SF_vars(\E r \in Readers : reader[r].feedback = f /\ Insert(r))

FairSpec == Spec /\ Fairness

-----------------------------------------------------------------------------
(* Properties.                                                             *)

Items == [version : 0..MaxVersion, status : Statuses]

TypeOK ==
  /\ delivery \in [Feedbacks -> {"none", "due", "delivered"}]
  /\ facts \in [Feedbacks -> Seq(Items)]
  /\ item \in [Feedbacks -> Items]
  /\ trail \in [Feedbacks -> Seq(Statuses)]
  /\ late \subseteq Feedbacks
  /\ dispatcher \in [Dispatchers -> [batch : SUBSET Feedbacks, feedback : Feedbacks \cup {NoFeedback},
                                     created : BOOLEAN]]
  /\ reader \in [Readers -> [pc : {"away", "look", "insert"}, feedback : Feedbacks \cup {NoFeedback},
                             seen : Items]]
  /\ \A f \in Feedbacks : item[f].version = Len(trail[f])

\* A feedback that QuizCraft calls delivered is in the operators' inbox, and so
\* its status can be asked for.
DeliveredIsThere == \A f \in Feedbacks : delivery[f] = "delivered" => item[f].version > 0

\* What QuizCraft recorded about a version is what the inbox's trail says of it,
\* whichever request carried it and however long that took.
FactsAreHistory ==
  \A f \in Feedbacks : \A i \in 1..Len(facts[f]) :
    facts[f][i].version > 0 => /\ facts[f][i].version <= Len(trail[f])
                               /\ trail[f][facts[f][i].version] = facts[f][i].status

Filed == {f \in Feedbacks : delivery[f] # "none"}

Told == [f \in Feedbacks |-> IF facts[f] = <<>> THEN Absent ELSE Shown(f)]

Promise == INSTANCE FeedbackPromise WITH filed <- Filed, told <- Told

\* Whatever is lost, late, repeated or overtaken between the two services, what
\* was filed reaches the operators once, and its author is told what they decided
\* and never, after that, what they had decided before.
KeepsPromise == Promise!Spec

\* Every feedback is delivered, whatever is lost on the way.
EventuallyDelivered == \A f \in Feedbacks : delivery[f] = "due" ~> delivery[f] = "delivered"

\* The last word of the operators reaches the author.
EventuallyShown ==
  \A f \in Feedbacks :
    item[f].version = MaxVersion ~> facts[f] # <<>> /\ Shown(f) = item[f]

\* Feedback goes its way to the operators, and their word back to the author.
ThereAndBack == EventuallyDelivered /\ EventuallyShown
=============================================================================
