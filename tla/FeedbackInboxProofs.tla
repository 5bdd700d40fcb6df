-------------------------- MODULE FeedbackInboxProofs --------------------------
(***************************************************************************)
(* What TLAPS proves about the way of a feedback, for any number of        *)
(* feedbacks, replicas and readers.                                        *)
(***************************************************************************)
EXTENDS FeedbackInbox, WellFoundedInduction, TLAPS

\* An answer of the inbox is what its trail says of that version.
Noted(f, x) ==
  x.version > 0 => x.version <= Len(trail[f]) /\ trail[f][x.version] = x.status

ItemIsNoted == \A f \in Feedbacks : Noted(f, item[f])

FactsAreNoted == \A f \in Feedbacks : \A i \in 1..Len(facts[f]) : Noted(f, facts[f][i])

\* A reader holds such an answer, and a dispatcher that heard "created" heard it
\* of an item that is there.
ReadersHoldNoted ==
  \A r \in Readers :
    reader[r].pc # "away" => reader[r].feedback \in Feedbacks /\ Noted(reader[r].feedback, reader[r].seen)

CreatedIsThere ==
  \A d \in Dispatchers :
    dispatcher[d].created => /\ dispatcher[d].feedback \in Feedbacks
                             /\ item[dispatcher[d].feedback].version > 0

IInv ==
  /\ TypeOK
  /\ ItemIsNoted
  /\ FactsAreNoted
  /\ ReadersHoldNoted
  /\ CreatedIsThere
  /\ DeliveredIsThere

USE StatusAssumption, VersionAssumption DEF Items

\* What TypeOK says of the tables, of the dispatchers and of the readers.
LEMMA TablesTyped ==
  ASSUME TypeOK
  PROVE  /\ facts \in [Feedbacks -> Seq(Items)]
         /\ item \in [Feedbacks -> Items]
         /\ trail \in [Feedbacks -> Seq(Statuses)]
         /\ \A f \in Feedbacks : item[f].version = Len(trail[f])
  BY DEF TypeOK

DispatcherType == [batch : SUBSET Feedbacks, feedback : Feedbacks \cup {NoFeedback}, created : BOOLEAN]
ReaderType ==
  [pc : {"away", "look", "insert"}, feedback : Feedbacks \cup {NoFeedback}, seen : Items]

LEMMA ActorsTyped ==
  ASSUME TypeOK
  PROVE  dispatcher \in [Dispatchers -> DispatcherType] /\ reader \in [Readers -> ReaderType]
  BY DEF TypeOK, DispatcherType, ReaderType

LEMMA InitInv == Init => IInv
  <1> SUFFICES ASSUME Init PROVE IInv
    OBVIOUS
  <1> USE DEF Init, Absent, Idle, Away
  <1>1. TypeOK
    BY DEF TypeOK
  <1>2. ItemIsNoted /\ FactsAreNoted /\ ReadersHoldNoted /\ CreatedIsThere /\ DeliveredIsThere
    BY DEF ItemIsNoted, FactsAreNoted, ReadersHoldNoted, CreatedIsThere, DeliveredIsThere, Noted
  <1> QED BY <1>1, <1>2 DEF IInv

-----------------------------------------------------------------------------
(* The trail only grows.                                                   *)

TrailGrows ==
  \A f \in Feedbacks :
    \/ trail'[f] = trail[f] /\ item'[f] = item[f]
    \/ \E status \in Statuses :
         /\ Len(trail[f]) < MaxVersion
         /\ trail'[f] = Append(trail[f], status)
         /\ item'[f] = [version |-> Len(trail[f]) + 1, status |-> status]

LEMMA CreateGrows ==
  ASSUME TypeOK, NEW f \in Feedbacks, Create(f)
  PROVE  /\ TrailGrows
         /\ item' \in [Feedbacks -> Items] /\ trail' \in [Feedbacks -> Seq(Statuses)]
         /\ item'[f].version > 0
  <1>1. /\ item \in [Feedbacks -> Items] /\ trail \in [Feedbacks -> Seq(Statuses)]
        /\ \A g \in Feedbacks : item[g].version = Len(trail[g])
    BY DEF TypeOK
  <1>2. CASE item[f].version > 0
    BY <1>1, <1>2 DEF Create, TrailGrows
  <1>3. CASE ~(item[f].version > 0)
    <2>1. Len(trail[f]) = 0 /\ trail[f] = <<>>
      BY <1>1, <1>3
    <2>2. /\ item' = [item EXCEPT ![f] = [version |-> 1, status |-> Open]]
          /\ trail' = [trail EXCEPT ![f] = <<Open>>]
      BY <1>3 DEF Create
    <2>3. <<Open>> = Append(trail[f], Open) /\ Len(trail[f]) + 1 = 1 /\ Len(trail[f]) < MaxVersion
      BY <2>1
    <2>4. item' \in [Feedbacks -> Items] /\ item'[f].version > 0
      BY <1>1, <2>2
    <2>5. trail' \in [Feedbacks -> Seq(Statuses)]
      BY <1>1, <2>2, <2>3
    <2>6. item'[f] = [version |-> Len(trail[f]) + 1, status |-> Open] /\ trail'[f] = Append(trail[f], Open)
      BY <1>1, <2>2, <2>3
    <2>7. \A g \in Feedbacks \ {f} : trail'[g] = trail[g] /\ item'[g] = item[g]
      BY <1>1, <2>2
    <2> QED BY <2>3, <2>4, <2>5, <2>6, <2>7 DEF TrailGrows
  <1> QED BY <1>2, <1>3

LEMMA UpdateGrows ==
  ASSUME TypeOK, NEW f \in Feedbacks, NEW status \in Statuses, Update(f, status)
  PROVE  /\ TrailGrows
         /\ item' \in [Feedbacks -> Items] /\ trail' \in [Feedbacks -> Seq(Statuses)]
  <1>1. /\ item \in [Feedbacks -> Items] /\ trail \in [Feedbacks -> Seq(Statuses)]
        /\ \A g \in Feedbacks : item[g].version = Len(trail[g])
    BY DEF TypeOK
  <1>2. /\ Len(trail[f]) < MaxVersion /\ Len(trail[f]) \in Nat
        /\ item' = [item EXCEPT ![f] = [version |-> Len(trail[f]) + 1, status |-> status]]
        /\ trail' = [trail EXCEPT ![f] = Append(trail[f], status)]
    <2>1. item[f].version = Len(trail[f]) /\ Len(trail[f]) \in Nat
      BY <1>1
    <2>2. NextVersion(f, status) = [version |-> Len(trail[f]) + 1, status |-> status]
      BY <2>1 DEF NextVersion
    <2> QED BY <2>1, <2>2 DEF Update
  <1>3. item' \in [Feedbacks -> Items]
    BY <1>1, <1>2
  <1>4. trail' \in [Feedbacks -> Seq(Statuses)]
    BY <1>1, <1>2
  <1>5. /\ item'[f] = [version |-> Len(trail[f]) + 1, status |-> status]
        /\ trail'[f] = Append(trail[f], status)
    BY <1>1, <1>2
  <1>6. \A g \in Feedbacks \ {f} : trail'[g] = trail[g] /\ item'[g] = item[g]
    BY <1>1, <1>2
  <1> QED BY <1>2, <1>3, <1>4, <1>5, <1>6 DEF TrailGrows

LEMMA NotedStays ==
  ASSUME TypeOK, TrailGrows, NEW f \in Feedbacks, NEW x \in Items, Noted(f, x)
  PROVE  x.version > 0 => x.version <= Len(trail'[f]) /\ trail'[f][x.version] = x.status
  <1>1. trail[f] \in Seq(Statuses) /\ x.version \in Nat
    BY DEF TypeOK
  <1>2. CASE trail'[f] = trail[f]
    BY <1>2 DEF Noted
  <1>3. CASE \E status \in Statuses : trail'[f] = Append(trail[f], status)
    BY <1>1, <1>3 DEF Noted
  <1> QED BY <1>2, <1>3 DEF TrailGrows

\* What growth preserves.
LEMMA GrowthKeeps ==
  ASSUME IInv, TrailGrows,
         item' \in [Feedbacks -> Items], trail' \in [Feedbacks -> Seq(Statuses)]
  PROVE  /\ ItemIsNoted'
         /\ \A f \in Feedbacks : item'[f].version = Len(trail'[f])
         /\ UNCHANGED facts => FactsAreNoted'
         /\ UNCHANGED reader => ReadersHoldNoted'
         /\ UNCHANGED dispatcher => CreatedIsThere'
         /\ UNCHANGED delivery => DeliveredIsThere'
         /\ \A f \in Feedbacks : item[f].version > 0 => item'[f].version > 0
  <1>1. ASSUME NEW f \in Feedbacks
        PROVE  /\ Noted(f, item[f])'
               /\ item'[f].version = Len(trail'[f])
               /\ item[f].version > 0 => item'[f].version > 0
    <2>1. trail[f] \in Seq(Statuses) /\ item[f] \in Items /\ item[f].version = Len(trail[f])
      BY DEF IInv, TypeOK
    <2>2. CASE trail'[f] = trail[f] /\ item'[f] = item[f]
      BY <2>1, <2>2 DEF IInv, ItemIsNoted, Noted
    <2>3. CASE \E status \in Statuses :
                 /\ trail'[f] = Append(trail[f], status)
                 /\ item'[f] = [version |-> Len(trail[f]) + 1, status |-> status]
      BY <2>1, <2>3 DEF Noted
    <2> QED BY <2>2, <2>3 DEF TrailGrows
  <1>2. UNCHANGED facts => FactsAreNoted'
    <2> SUFFICES ASSUME UNCHANGED facts, NEW f \in Feedbacks, NEW i \in 1..Len(facts[f])
                 PROVE  Noted(f, facts[f][i])'
      BY DEF FactsAreNoted
    <2>1. facts[f][i] \in Items
      <3> HIDE DEF Items
      <3>1. facts[f] \in Seq(Items)
        BY TablesTyped DEF IInv
      <3> QED BY <3>1
    <2>2. Noted(f, facts[f][i])
      BY DEF IInv, FactsAreNoted
    <2> QED BY <2>1, <2>2, NotedStays DEF IInv, Noted
  <1>3. UNCHANGED reader => ReadersHoldNoted'
    <2> SUFFICES ASSUME UNCHANGED reader, NEW r \in Readers, reader[r].pc # "away"
                 PROVE  reader[r].feedback \in Feedbacks /\ Noted(reader[r].feedback, reader[r].seen)'
      BY DEF ReadersHoldNoted
    <2>1. /\ reader[r].feedback \in Feedbacks /\ reader[r].seen \in Items
          /\ Noted(reader[r].feedback, reader[r].seen)
      BY DEF IInv, TypeOK, ReadersHoldNoted
    <2> QED BY <2>1, NotedStays DEF IInv, Noted
  <1>4. UNCHANGED dispatcher => CreatedIsThere'
    BY <1>1 DEF IInv, CreatedIsThere
  <1>5. UNCHANGED delivery => DeliveredIsThere'
    BY <1>1 DEF IInv, DeliveredIsThere
  <1> QED BY <1>1, <1>2, <1>3, <1>4, <1>5 DEF ItemIsNoted

\* Steps that leave the inbox alone.
LEMMA InboxStands ==
  ASSUME IInv, UNCHANGED <<item, trail>>
  PROVE  /\ ItemIsNoted'
         /\ \A f \in Feedbacks : item'[f].version = Len(trail'[f])
         /\ UNCHANGED facts => FactsAreNoted'
         /\ UNCHANGED reader => ReadersHoldNoted'
         /\ UNCHANGED dispatcher => CreatedIsThere'
         /\ UNCHANGED delivery => DeliveredIsThere'
  <1>1. TrailGrows /\ item' \in [Feedbacks -> Items] /\ trail' \in [Feedbacks -> Seq(Statuses)]
    BY DEF IInv, TypeOK, TrailGrows
  <1> QED BY <1>1, GrowthKeeps

-----------------------------------------------------------------------------
(* The steps.                                                              *)

LEMMA UpdateKeeps ==
  ASSUME IInv, NEW f \in Feedbacks, NEW status \in Statuses, Update(f, status)
  PROVE  IInv'
  <1>1. /\ TrailGrows
        /\ item' \in [Feedbacks -> Items] /\ trail' \in [Feedbacks -> Seq(Statuses)]
    BY UpdateGrows DEF IInv
  <1> QED BY <1>1, GrowthKeeps DEF Update, quizcraft, IInv, TypeOK

LEMMA ArrivesLateKeeps ==
  ASSUME IInv, NEW f \in Feedbacks, ArrivesLate(f)
  PROVE  IInv'
  <1>1. /\ TrailGrows
        /\ item' \in [Feedbacks -> Items] /\ trail' \in [Feedbacks -> Seq(Statuses)]
    BY CreateGrows DEF IInv, ArrivesLate
  <1> QED BY <1>1, GrowthKeeps DEF ArrivesLate, quizcraft, IInv, TypeOK

LEMMA CreateFeedbackKeeps ==
  ASSUME IInv, NEW f \in Feedbacks, CreateFeedback(f)
  PROVE  IInv'
  <1> USE DEF CreateFeedback, inbox
  <1>1. facts' \in [Feedbacks -> Seq(Items)]
    <2>1. [version |-> 0, status |-> Open] \in Items
      OBVIOUS
    <2> HIDE DEF Items
    <2>2. <<[version |-> 0, status |-> Open]>> \in Seq(Items)
      BY <2>1
    <2> QED BY <2>2, TablesTyped DEF IInv
  <1>2. FactsAreNoted'
    <2> SUFFICES ASSUME NEW g \in Feedbacks, NEW i \in 1..Len(facts'[g]) PROVE Noted(g, facts'[g][i])
      BY DEF FactsAreNoted, Noted
    <2>1. CASE g = f
      BY <2>1, TablesTyped DEF IInv, Noted
    <2>2. CASE g # f
      BY <2>2, TablesTyped DEF IInv, FactsAreNoted
    <2> QED BY <2>1, <2>2
  <1>3. DeliveredIsThere'
    BY DEF IInv, TypeOK, DeliveredIsThere
  <1>4. TypeOK'
    BY <1>1 DEF IInv, TypeOK
  <1> QED BY <1>2, <1>3, <1>4, InboxStands DEF IInv

LEMMA PostKeeps ==
  ASSUME IInv, NEW d \in Dispatchers, NEW f \in Feedbacks, Posts(d, f) \/ PostFails(d, f)
  PROVE  IInv'
  <1>1. PICK created \in BOOLEAN :
          /\ Hears(d, f, created)
          /\ created => Create(f)
          /\ Create(f) \/ UNCHANGED <<item, trail>>
          /\ UNCHANGED <<quizcraft, reader>>
          /\ late' \subseteq late \cup {f}
    BY DEF Posts, PostFails
  <1>2. /\ TrailGrows
        /\ item' \in [Feedbacks -> Items] /\ trail' \in [Feedbacks -> Seq(Statuses)]
        /\ created => item'[f].version > 0
    <2>1. CASE Create(f)
      BY <2>1, CreateGrows DEF IInv
    <2>2. CASE UNCHANGED <<item, trail>> /\ ~created
      BY <2>2 DEF IInv, TypeOK, TrailGrows
    <2> QED BY <1>1, <2>1, <2>2
  <1>3. /\ dispatcher' \in [Dispatchers -> DispatcherType]
        /\ dispatcher'[d].feedback = f /\ dispatcher'[d].created = created
        /\ \A e \in Dispatchers \ {d} : dispatcher'[e] = dispatcher[e]
    BY <1>1, ActorsTyped DEF IInv, Hears, DispatcherType
  <1>4. CreatedIsThere'
    <2>1. \A g \in Feedbacks : item[g].version > 0 => item'[g].version > 0
      BY <1>2, GrowthKeeps
    <2> QED BY <1>2, <1>3, <2>1 DEF IInv, CreatedIsThere
  <1>5. TypeOK'
    BY <1>1, <1>2, <1>3, GrowthKeeps DEF IInv, TypeOK, quizcraft, DispatcherType
  <1> QED BY <1>1, <1>2, <1>4, <1>5, GrowthKeeps DEF IInv, quizcraft

LEMMA DispatcherKeeps ==
  ASSUME IInv, NEW d \in Dispatchers,
         Record(d) \/ Crash(d) \/ \E fs \in SUBSET Feedbacks : Query(d, fs)
  PROVE  IInv'
  <1>1. UNCHANGED <<facts, inbox, reader>>
    BY DEF Record, Crash, Query, quizcraft
  <1>2. /\ dispatcher' \in [Dispatchers -> DispatcherType]
        /\ \A e \in Dispatchers : dispatcher'[e].created =>
             dispatcher[e].created /\ dispatcher'[e].feedback = dispatcher[e].feedback
    <2>1. Idle \in DispatcherType /\ ~Idle.created
      BY DEF Idle, DispatcherType
    <2>2. CASE Record(d)
      <3>1. [Idle EXCEPT !.batch = dispatcher[d].batch \ {dispatcher[d].feedback}] \in DispatcherType
            /\ ~[Idle EXCEPT !.batch = dispatcher[d].batch \ {dispatcher[d].feedback}].created
        BY ActorsTyped DEF IInv, Idle, DispatcherType
      <3> HIDE DEF DispatcherType
      <3> QED BY <2>2, <3>1, ActorsTyped DEF IInv, Record
    <2>3. CASE Crash(d)
      BY <2>1, <2>3, ActorsTyped DEF IInv, Crash
    <2>4. CASE \E fs \in SUBSET Feedbacks : Query(d, fs)
      BY <2>4, ActorsTyped DEF IInv, Query, DispatcherType
    <2> QED BY <2>2, <2>3, <2>4
  <1>3. CreatedIsThere'
    BY <1>1, <1>2 DEF IInv, CreatedIsThere, inbox
  <1>4. /\ delivery' \in [Feedbacks -> {"none", "due", "delivered"}]
        /\ \A f \in Feedbacks : delivery'[f] = "delivered" =>
             \/ delivery[f] = "delivered"
             \/ dispatcher[d].created /\ f = dispatcher[d].feedback
    BY DEF IInv, TypeOK, Record, Crash, Query, quizcraft
  <1>5. DeliveredIsThere'
    BY <1>1, <1>4 DEF IInv, CreatedIsThere, DeliveredIsThere, inbox
  <1>6. TypeOK'
    BY <1>1, <1>2, <1>4, InboxStands DEF IInv, TypeOK, inbox, DispatcherType
  <1> QED BY <1>1, <1>3, <1>5, <1>6, InboxStands DEF IInv, inbox

LEMMA FetchKeeps ==
  ASSUME IInv, NEW r \in Readers, NEW f \in Feedbacks, Fetch(r, f)
  PROVE  IInv'
  <1> USE DEF Fetch, quizcraft, inbox
  <1>1. TypeOK'
    BY DEF IInv, TypeOK
  <1>2. ReadersHoldNoted'
    BY DEF IInv, TypeOK, ItemIsNoted, ReadersHoldNoted, Noted
  <1> QED BY <1>1, <1>2, InboxStands DEF IInv

LEMMA ReaderKeeps ==
  ASSUME IInv, NEW r \in Readers, Look(r) \/ Insert(r) \/ Leave(r)
  PROVE  IInv'
  <1>1. UNCHANGED <<delivery, inbox, dispatcher>>
    BY DEF Look, Insert, Leave, quizcraft
  <1>2. /\ reader' \in [Readers -> ReaderType]
        /\ \A q \in Readers : reader'[q].pc # "away" =>
             /\ reader[q].pc # "away"
             /\ reader'[q].feedback = reader[q].feedback
             /\ reader'[q].seen = reader[q].seen
    <2>1. Absent \in Items
      BY DEF Absent
    <2> HIDE DEF Items
    <2>2. Away \in ReaderType /\ Away.pc = "away"
      BY <2>1 DEF Away, ReaderType
    <2>3. CASE Look(r)
      BY <2>3, ActorsTyped DEF IInv, Look, Goto, ReaderType
    <2>4. CASE reader' = [reader EXCEPT ![r] = Away]
      BY <2>2, <2>4, ActorsTyped DEF IInv
    <2> QED BY <2>3, <2>4 DEF Insert, Leave
  <1>3. ReadersHoldNoted'
    BY <1>1, <1>2 DEF IInv, ReadersHoldNoted, Noted, inbox
  <1>4. facts' \in [Feedbacks -> Seq(Items)] /\ FactsAreNoted'
    <2>1. CASE UNCHANGED facts
      BY <1>1, <2>1, InboxStands DEF IInv, TypeOK, inbox
    <2>2. CASE Insert(r) /\ ~UNCHANGED facts
      <3>1. PICK f \in Feedbacks, x \in Items : facts' = [facts EXCEPT ![f] = Append(@, x)] /\ Noted(f, x)
        BY <2>2 DEF Insert, IInv, TypeOK, ReadersHoldNoted
      <3>2. facts \in [Feedbacks -> Seq(Items)]
        BY DEF IInv, TypeOK
      <3>3. facts' \in [Feedbacks -> Seq(Items)]
        <4> HIDE DEF Items
        <4>1. Append(facts[f], x) \in Seq(Items)
          BY <3>2
        <4> QED BY <3>1, <3>2, <4>1
      <3>4. ASSUME NEW g \in Feedbacks, NEW i \in 1..Len(facts'[g]) PROVE Noted(g, facts'[g][i])
        <4>1. CASE g = f
          BY <3>1, <3>2, <4>1 DEF IInv, FactsAreNoted
        <4>2. CASE g # f
          BY <3>1, <3>2, <4>2 DEF IInv, FactsAreNoted
        <4> QED BY <4>1, <4>2
      <3>5. FactsAreNoted'
        BY <1>1, <3>4 DEF FactsAreNoted, Noted, inbox
      <3> QED BY <3>3, <3>5
    <2> QED BY <2>1, <2>2 DEF Look, Leave, quizcraft
  <1>5. TypeOK'
    BY <1>1, <1>2, <1>4, InboxStands DEF IInv, TypeOK, inbox, ReaderType
  <1> QED BY <1>1, <1>3, <1>4, <1>5, InboxStands DEF IInv, inbox

LEMMA StepKeeps == IInv /\ [Next]_vars => IInv'
  <1> SUFFICES ASSUME IInv, [Next]_vars PROVE IInv'
    OBVIOUS
  <1>1. CASE Next
    BY <1>1, CreateFeedbackKeeps, ArrivesLateKeeps, UpdateKeeps, PostKeeps, FetchKeeps, DispatcherKeeps,
       ReaderKeeps DEF Next
  <1>2. CASE UNCHANGED vars
    BY <1>2, InboxStands DEF vars, IInv, TypeOK
  <1> QED BY <1>1, <1>2

-----------------------------------------------------------------------------
(* The theorems.                                                           *)

LEMMA Invariance == Spec => []IInv
  BY InitInv, StepKeeps, PTL DEF Spec

\* The types; the trail has one entry for each version of its item.
THEOREM FeedbackTypes == Spec => []TypeOK
  <1>1. IInv => TypeOK
    BY DEF IInv
  <1> QED BY <1>1, Invariance, PTL

\* A feedback called delivered is in the inbox (dispatchInboxBatch, Create).
THEOREM DeliveredThere == Spec => []DeliveredIsThere
  <1>1. IInv => DeliveredIsThere
    BY DEF IInv
  <1> QED BY <1>1, Invariance, PTL

\* Facts repeat the inbox's trail (syncFeedbackStatusFromInbox, Update).
THEOREM FactsRepeatHistory == Spec => []FactsAreHistory
  <1>1. IInv => FactsAreHistory
    BY DEF IInv, FactsAreNoted, FactsAreHistory, Noted
  <1> QED BY <1>1, Invariance, PTL

-----------------------------------------------------------------------------
(* What the author is shown.                                               *)

\* A set of natural numbers has a least one: the natural numbers are well-founded.
LEMMA LeastNatural ==
  ASSUME NEW S, S \subseteq Nat, S # {}
  PROVE  \E x \in S : \A y \in S : x <= y
  <1> DEFINE less == OpToRel(<, Nat)
  <1>1. IsWellFoundedOn(less, Nat)
    BY NatLessThanWellFounded
  <1> HIDE DEF less
  <1>2. PICK x \in S : \A y \in S : ~(<<y, x>> \in less)
    BY <1>1, WFMin
  <1>3. \A a, b \in Nat : a < b => <<a, b>> \in less
    BY DEF less, OpToRel
  <1>4. ASSUME NEW y \in S PROVE x <= y
    <2>1. ~(y < x)
      BY <1>2, <1>3
    <2>2. x \in Nat /\ y \in Nat
      OBVIOUS
    <2> QED BY <2>1, <2>2
  <1> QED BY <1>4

\* And one with a bound has a greatest.
LEMMA GreatestBelow ==
  ASSUME NEW m \in Nat, NEW S, S \subseteq 0..m, S # {}
  PROVE  \E x \in S : \A y \in S : y <= x
  <1> DEFINE D == {m - y : y \in S}
  <1>1. D \subseteq Nat /\ D # {}
    <2>1. ASSUME NEW y \in S PROVE m - y \in Nat
      <3>1. y \in 0..m
        OBVIOUS
      <3> QED BY <3>1
    <2> QED BY <2>1
  <1>2. PICK d \in D : \A e \in D : d <= e
    BY <1>1, LeastNatural
  <1>3. PICK x \in S : d = m - x
    OBVIOUS
  <1>4. ASSUME NEW y \in S PROVE y <= x
    <2>1. d <= m - y
      BY <1>2
    <2>2. x \in 0..m /\ y \in 0..m
      OBVIOUS
    <2> QED BY <1>3, <2>1, <2>2
  <1> QED BY <1>4

\* Shown is what its name says: a fact, and no recorded version is higher.
ShownIsLatest ==
  \A f \in Feedbacks : facts[f] # <<>> =>
    /\ \E i \in 1..Len(facts[f]) : Shown(f) = facts[f][i]
    /\ Shown(f).version \in Versions(f)
    /\ Versions(f) \subseteq Nat
    /\ \A v \in Versions(f) : v <= Shown(f).version

LEMMA LatestIsShown == TypeOK => ShownIsLatest
  <1> SUFFICES ASSUME facts \in [Feedbacks -> Seq(Items)], NEW f \in Feedbacks, facts[f] # <<>>
               PROVE  /\ \E i \in 1..Len(facts[f]) : Shown(f) = facts[f][i]
                      /\ Shown(f).version \in Versions(f)
                      /\ Versions(f) \subseteq Nat
                      /\ \A v \in Versions(f) : v <= Shown(f).version
    BY TablesTyped DEF ShownIsLatest
  <1> DEFINE F == {facts[f][i] : i \in 1..Len(facts[f])}
             Latest(x) == \A v \in Versions(f) : v <= x.version
  <1>1. /\ facts[f] \in Seq(Items) /\ Len(facts[f]) \in Nat /\ Len(facts[f]) > 0
        /\ \A i \in 1..Len(facts[f]) : facts[f][i] \in Items
    <2> HIDE DEF Items
    <2>1. facts[f] \in Seq(Items)
      OBVIOUS
    <2> QED BY <2>1
  <1>3. Versions(f) \subseteq 0..MaxVersion /\ Versions(f) # {}
    <2>1. facts[f][1].version \in Versions(f)
      BY <1>1 DEF Versions
    <2>2. \A i \in 1..Len(facts[f]) : facts[f][i].version \in 0..MaxVersion
      BY <1>1
    <2> QED BY <2>1, <2>2 DEF Versions
  <1>4. PICK v \in Versions(f) : \A w \in Versions(f) : w <= v
    BY <1>3, GreatestBelow
  <1>5. PICK x \in F : x.version = v
    BY <1>4 DEF Versions
  <1>6. Latest(x)
    BY <1>4, <1>5
  <1>7. Shown(f) = CHOOSE y \in F : Latest(y)
    BY DEF Shown
  <1> HIDE DEF Latest
  <1>8. Shown(f) \in F /\ Latest(Shown(f))
    BY <1>6, <1>7
  <1>9. Shown(f).version \in Versions(f)
    BY <1>8 DEF Versions
  <1> QED BY <1>3, <1>8, <1>9 DEF Latest

\* A feedback that is not there yet has no facts, and no reader asks about it.
NothingBefore ==
  /\ \A f \in Feedbacks : delivery[f] = "none" => facts[f] = <<>>
  /\ \A r \in Readers :
       reader[r].pc # "away" => reader[r].feedback \in Feedbacks /\ delivery[reader[r].feedback] # "none"

LEMMA NothingBeforeStep == TypeOK /\ NothingBefore /\ [Next]_vars => NothingBefore'
  <1> SUFFICES ASSUME TypeOK, NothingBefore, [Next]_vars PROVE NothingBefore'
    OBVIOUS
  <1>1. delivery \in [Feedbacks -> {"none", "due", "delivered"}]
    BY DEF TypeOK
  <1>2. CASE UNCHANGED <<delivery, facts, reader>>
    BY <1>2 DEF NothingBefore
  <1>3. ASSUME NEW f \in Feedbacks, CreateFeedback(f) PROVE NothingBefore'
    BY <1>1, <1>3 DEF CreateFeedback, NothingBefore
  <1>4. ASSUME NEW d \in Dispatchers, Record(d) PROVE NothingBefore'
    BY <1>1, <1>4 DEF Record, NothingBefore
  <1>5. ASSUME NEW r \in Readers, NEW f \in Feedbacks, Fetch(r, f) PROVE NothingBefore'
    BY <1>5, ActorsTyped DEF Fetch, quizcraft, NothingBefore
  <1>6. ASSUME NEW r \in Readers, Look(r) PROVE NothingBefore'
    BY <1>6, ActorsTyped DEF Look, Goto, quizcraft, NothingBefore, ReaderType
  <1>7. ASSUME NEW r \in Readers, Insert(r) PROVE NothingBefore'
    <2>1. \A q \in Readers : reader'[q].pc # "away" => reader'[q] = reader[q]
      BY <1>7, ActorsTyped DEF Insert, Away
    <2>2. UNCHANGED delivery /\ reader[r].pc # "away"
      BY <1>7 DEF Insert
    <2>3. \A f \in Feedbacks : facts'[f] = facts[f] \/ f = reader[r].feedback
      BY <1>7, TablesTyped DEF Insert
    <2> QED BY <2>1, <2>2, <2>3 DEF NothingBefore
  <1>8. ASSUME NEW r \in Readers, Leave(r) PROVE NothingBefore'
    BY <1>8, ActorsTyped DEF Leave, quizcraft, NothingBefore, Away
  <1> QED
    BY <1>2, <1>3, <1>4, <1>5, <1>6, <1>7, <1>8
    DEF Next, vars, quizcraft, Update, ArrivesLate, Posts, PostFails, Crash, Query

LEMMA AlwaysNothingBefore == Spec => []NothingBefore
  <1>1. Init => NothingBefore
    BY DEF Init, Away, NothingBefore
  <1>2. IInv => TypeOK
    BY DEF IInv
  <1> QED BY <1>1, <1>2, Invariance, NothingBeforeStep, PTL DEF Spec

\* Facts are only added.
LEMMA FactsGrow ==
  ASSUME TypeOK, NothingBefore, [Next]_vars, NEW f \in Feedbacks, facts[f] # <<>>
  PROVE  facts'[f] # <<>> /\ Versions(f) \subseteq Versions(f)'
  <1>1. facts \in [Feedbacks -> Seq(Items)]
    BY TablesTyped
  <1>2. CASE facts'[f] = facts[f]
    BY <1>2 DEF Versions
  <1>3. ASSUME NEW g \in Feedbacks, CreateFeedback(g) PROVE facts'[f] = facts[f]
    BY <1>1, <1>3 DEF CreateFeedback, NothingBefore
  <1>4. ASSUME NEW r \in Readers, Insert(r), facts' # facts
        PROVE  facts'[f] # <<>> /\ Versions(f) \subseteq Versions(f)'
    <2> DEFINE g == reader[r].feedback
    <2>1. facts' = [facts EXCEPT ![g] = Append(@, reader[r].seen)]
      BY <1>4 DEF Insert
    <2>2. CASE f = g
      <3> HIDE DEF Items
      <3>1. reader[r].seen \in Items /\ facts[f] \in Seq(Items)
        BY <1>1, ActorsTyped DEF ReaderType
      <3>2. facts'[f] = Append(facts[f], reader[r].seen)
        BY <1>1, <2>1, <2>2
      <3>3. /\ Len(facts'[f]) = Len(facts[f]) + 1 /\ Len(facts[f]) \in Nat
            /\ \A i \in 1..Len(facts[f]) : facts'[f][i] = facts[f][i]
        BY <3>1, <3>2
      <3>4. facts'[f] # <<>>
        BY <3>3
      <3> QED BY <3>3, <3>4 DEF Versions
    <2>3. CASE f # g
      <3>1. facts'[f] = facts[f]
        BY <1>1, <2>1, <2>3
      <3> QED BY <1>2, <3>1
    <2> QED BY <2>2, <2>3
  <1>5. \/ facts' = facts
        \/ \E g \in Feedbacks : CreateFeedback(g)
        \/ \E r \in Readers : Insert(r)
    BY DEF Next, vars, quizcraft, Update, ArrivesLate, Posts, PostFails, Fetch, Record, Crash, Query,
       Look, Leave
  <1> QED BY <1>2, <1>3, <1>4, <1>5

\* The author never sees the status of a feedback go back to an older version,
\* though reads overtake each other between the inbox and the table.
ShownNeverGoesBack ==
  [][\A f \in Feedbacks : facts[f] # <<>> => Shown(f)'.version >= Shown(f).version]_vars

\* What the author sees never goes back (syncFeedbackStatusFromInbox records an
\* answer, loadFeedbackStatus shows the one of the highest version).
THEOREM ShownStays == Spec => ShownNeverGoesBack
  <1>1. ASSUME IInv, ShownIsLatest, ShownIsLatest', NothingBefore, [Next]_vars
        PROVE  [\A f \in Feedbacks : facts[f] # <<>> => Shown(f)'.version >= Shown(f).version]_vars
    <2> SUFFICES ASSUME NEW f \in Feedbacks, facts[f] # <<>> PROVE Shown(f)'.version >= Shown(f).version
      OBVIOUS
    <2>1. facts'[f] # <<>> /\ Versions(f) \subseteq Versions(f)'
      BY <1>1, FactsGrow DEF IInv
    <2>2. Shown(f).version \in Versions(f) /\ Versions(f)' \subseteq Nat
      BY <1>1, <2>1 DEF ShownIsLatest
    <2>3. \A v \in Versions(f)' : v <= Shown(f)'.version /\ Shown(f)'.version \in Nat
      BY <1>1, <2>1 DEF ShownIsLatest
    <2>4. Shown(f).version <= Shown(f)'.version /\ Shown(f).version \in Nat /\ Shown(f)'.version \in Nat
      BY <2>1, <2>2, <2>3
    <2> QED BY <2>4
  <1>2. IInv => ShownIsLatest
    BY LatestIsShown DEF IInv
  <1> QED BY <1>1, <1>2, Invariance, AlwaysNothingBefore, PTL DEF Spec, ShownNeverGoesBack
-----------------------------------------------------------------------------
(* The promise.                                                            *)

\* The dispatchers, and the requests they gave up, are about feedbacks that were
\* filed.  A reader's answer is of an item that is there; what is recorded of
\* version 0 is that the feedback is open.
FiledFirst ==
  /\ late \subseteq Filed
  /\ \A d \in Dispatchers :
       dispatcher[d].batch \subseteq Filed /\ dispatcher[d].feedback \in Filed \cup {NoFeedback}
  /\ \A r \in Readers : reader[r].pc # "away" => reader[r].seen.version > 0
  /\ \A f \in Feedbacks : \A i \in 1..Len(facts[f]) :
       facts[f][i].version = 0 => facts[f][i].status = Open

LEMMA RecordKeepsFiled ==
  ASSUME TypeOK, FiledFirst, NEW d \in Dispatchers, Record(d)
  PROVE  Filed' = Filed
  BY DEF TypeOK, Record, Filed, FiledFirst

LEMMA FiledGrows ==
  ASSUME TypeOK, FiledFirst, [Next]_vars
  PROVE  \/ Filed' = Filed
         \/ \E f \in Feedbacks : CreateFeedback(f) /\ f \notin Filed /\ Filed' = Filed \cup {f}
  <1>1. delivery \in [Feedbacks -> {"none", "due", "delivered"}]
    BY DEF TypeOK
  <1>2. CASE UNCHANGED delivery
    BY <1>2 DEF Filed
  <1>3. ASSUME NEW f \in Feedbacks, CreateFeedback(f) PROVE f \notin Filed /\ Filed' = Filed \cup {f}
    BY <1>1, <1>3 DEF CreateFeedback, Filed
  <1>4. ASSUME NEW d \in Dispatchers, Record(d) PROVE Filed' = Filed
    BY <1>4, RecordKeepsFiled
  <1>5. \/ UNCHANGED delivery
        \/ \E f \in Feedbacks : CreateFeedback(f)
        \/ \E d \in Dispatchers : Record(d)
    BY DEF Next, vars, quizcraft, Update, ArrivesLate, Posts, PostFails, Fetch, Crash, Query,
       Look, Insert, Leave
  <1> QED BY <1>2, <1>3, <1>4, <1>5

\* Which actor a step moves; the others are where they were.
LEMMA DispatchersFiled ==
  ASSUME IInv, FiledFirst, [Next]_vars, Filed \subseteq Filed'
  PROVE  /\ late' \subseteq Filed'
         /\ \A d \in Dispatchers :
              dispatcher'[d].batch \subseteq Filed' /\ dispatcher'[d].feedback \in Filed' \cup {NoFeedback}
  <1>1. dispatcher \in [Dispatchers -> DispatcherType]
    BY ActorsTyped DEF IInv
  <1>2. CASE UNCHANGED <<late, dispatcher>>
    BY <1>2 DEF FiledFirst
  <1>3. ASSUME NEW f \in Feedbacks, ArrivesLate(f) PROVE UNCHANGED dispatcher /\ late' \subseteq late
    BY <1>3 DEF ArrivesLate
  <1>4. ASSUME NEW d \in Dispatchers, NEW f \in Feedbacks, Posts(d, f) \/ PostFails(d, f)
        PROVE  /\ f \in Filed /\ late' \subseteq late \cup {f}
               /\ \A e \in Dispatchers : dispatcher'[e].batch = dispatcher[e].batch
               /\ \A e \in Dispatchers : dispatcher'[e].feedback \in {dispatcher[e].feedback, f}
    <2>1. f \in Filed /\ late' \subseteq late \cup {f}
      BY <1>4 DEF Posts, PostFails, Turn, FiledFirst
    <2>2. PICK created \in BOOLEAN : Hears(d, f, created)
      BY <1>4 DEF Posts, PostFails
    <2>3. \A e \in Dispatchers : /\ dispatcher'[e].batch = dispatcher[e].batch
                                 /\ dispatcher'[e].feedback \in {dispatcher[e].feedback, f}
      BY <1>1, <2>2 DEF Hears, DispatcherType
    <2> QED BY <2>1, <2>3
  <1>5. ASSUME NEW d \in Dispatchers, Record(d) \/ Crash(d)
        PROVE  /\ UNCHANGED late
               /\ \A e \in Dispatchers : /\ dispatcher'[e].batch \subseteq dispatcher[e].batch
                                         /\ dispatcher'[e].feedback \in {dispatcher[e].feedback, NoFeedback}
    BY <1>1, <1>5 DEF Record, Crash, inbox, Idle, DispatcherType
  <1>6. ASSUME NEW d \in Dispatchers, NEW fs \in SUBSET Feedbacks, Query(d, fs)
        PROVE  /\ UNCHANGED late
               /\ \A e \in Dispatchers : /\ dispatcher'[e].batch \subseteq dispatcher[e].batch \cup Filed
                                         /\ dispatcher'[e].feedback = dispatcher[e].feedback
    BY <1>1, <1>6 DEF Query, inbox, Due, Filed, DispatcherType
  <1>7. \/ UNCHANGED <<late, dispatcher>>
        \/ \E f \in Feedbacks : ArrivesLate(f)
        \/ \E d \in Dispatchers, f \in Feedbacks : Posts(d, f) \/ PostFails(d, f)
        \/ \E d \in Dispatchers : Record(d) \/ Crash(d) \/ \E fs \in SUBSET Feedbacks : Query(d, fs)
    BY DEF Next, vars, inbox, CreateFeedback, Update, Fetch, Look, Insert, Leave
  <1>8. CASE \E f \in Feedbacks : ArrivesLate(f)
    BY <1>3, <1>8 DEF FiledFirst
  <1>9. CASE \E d \in Dispatchers, f \in Feedbacks : Posts(d, f) \/ PostFails(d, f)
    BY <1>4, <1>9 DEF FiledFirst
  <1>10. CASE \E d \in Dispatchers : Record(d) \/ Crash(d) \/ \E fs \in SUBSET Feedbacks : Query(d, fs)
    BY <1>5, <1>6, <1>10 DEF FiledFirst
  <1> QED BY <1>2, <1>7, <1>8, <1>9, <1>10

LEMMA ReadersSeeItems ==
  ASSUME IInv, FiledFirst, [Next]_vars
  PROVE  \A r \in Readers : reader'[r].pc # "away" => reader'[r].seen.version > 0
  <1>1. reader \in [Readers -> ReaderType]
    BY ActorsTyped DEF IInv
  <1>2. ASSUME NEW r \in Readers, NEW f \in Feedbacks, Fetch(r, f)
        PROVE  \A q \in Readers : reader'[q] = reader[q] \/ reader'[q].seen.version > 0
    BY <1>1, <1>2 DEF Fetch, IInv, DeliveredIsThere
  <1>3. ASSUME NEW r \in Readers, Look(r) \/ Insert(r) \/ Leave(r)
        PROVE  \A q \in Readers : reader'[q].pc # "away" =>
                 reader[q].pc # "away" /\ reader'[q].seen = reader[q].seen
    BY <1>1, <1>3 DEF Look, Goto, Insert, Leave, Away, ReaderType
  <1>4. \/ UNCHANGED reader
        \/ \E r \in Readers, f \in Feedbacks : Fetch(r, f)
        \/ \E r \in Readers : Look(r) \/ Insert(r) \/ Leave(r)
    BY DEF Next, vars, CreateFeedback, ArrivesLate, Update, Posts, PostFails, Record, Crash, Query
  <1> QED BY <1>2, <1>3, <1>4 DEF FiledFirst

\* The only steps that record a fact.
LEMMA FactsMove ==
  ASSUME TypeOK, [Next]_vars
  PROVE  \/ UNCHANGED facts
         \/ \E f \in Feedbacks : CreateFeedback(f)
         \/ \E r \in Readers :
              /\ reader[r].pc # "away" /\ UNCHANGED <<delivery, inbox, dispatcher>>
              /\ facts' = [facts EXCEPT ![reader[r].feedback] = Append(@, reader[r].seen)]
  BY DEF Next, vars, quizcraft, Update, ArrivesLate, Posts, PostFails, Fetch, Record, Crash, Query,
     Look, Insert, Leave

LEMMA FiledFirstStep == IInv /\ FiledFirst /\ [Next]_vars => FiledFirst'
  <1> SUFFICES ASSUME IInv, FiledFirst, [Next]_vars PROVE FiledFirst'
    OBVIOUS
  <1>1. Filed \subseteq Filed'
    BY FiledGrows DEF IInv
  <1>2. ASSUME NEW f \in Feedbacks, NEW i \in 1..Len(facts'[f]), facts'[f][i].version = 0
        PROVE  facts'[f][i].status = Open
    <2>1. facts \in [Feedbacks -> Seq(Items)]
      BY TablesTyped DEF IInv
    <2>2. CASE UNCHANGED facts
      BY <1>2, <2>2 DEF FiledFirst
    <2>3. CASE \E g \in Feedbacks : CreateFeedback(g)
      BY <1>2, <2>1, <2>3 DEF CreateFeedback, FiledFirst
    <2>4. ASSUME NEW r \in Readers, reader[r].pc # "away",
                 facts' = [facts EXCEPT ![reader[r].feedback] = Append(@, reader[r].seen)]
          PROVE  facts'[f][i].status = Open
      <3>1. reader[r].seen \in Items /\ reader[r].seen.version # 0
        BY <2>4, ActorsTyped DEF IInv, ReaderType, FiledFirst
      <3>2. CASE f = reader[r].feedback
        <4> HIDE DEF Items
        <4>1. facts'[f] = Append(facts[f], reader[r].seen) /\ facts[f] \in Seq(Items)
          BY <2>1, <2>4, <3>2
        <4>2. i \in 1..Len(facts[f]) /\ facts'[f][i] = facts[f][i]
          BY <1>2, <3>1, <4>1
        <4> QED BY <1>2, <4>2 DEF FiledFirst
      <3>3. CASE f # reader[r].feedback
        BY <1>2, <2>1, <2>4, <3>3 DEF FiledFirst
      <3> QED BY <3>2, <3>3
    <2> QED BY <2>2, <2>3, <2>4, FactsMove DEF IInv
  <1> QED BY <1>1, <1>2, DispatchersFiled, ReadersSeeItems DEF FiledFirst

\* The author is told what the operators decided, at its place in the trail.
StatusAt(f, v) == IF v = 0 THEN Open ELSE trail[f][v]

ToldIsHistory ==
  \A f \in Feedbacks :
    /\ Told[f].version \in 0..Len(trail[f])
    /\ Told[f] = [version |-> Told[f].version, status |-> StatusAt(f, Told[f].version)]
    /\ facts[f] # <<>> => Told[f] = Shown(f)

LEMMA WhatIsTold == IInv /\ FiledFirst => ToldIsHistory
  <1> SUFFICES ASSUME IInv, FiledFirst, NEW f \in Feedbacks
               PROVE  /\ Told[f].version \in 0..Len(trail[f])
                      /\ Told[f] = [version |-> Told[f].version, status |-> StatusAt(f, Told[f].version)]
                      /\ facts[f] # <<>> => Told[f] = Shown(f)
    BY DEF ToldIsHistory
  <1>1. Len(trail[f]) \in Nat
    BY TablesTyped DEF IInv
  <1>2. CASE facts[f] = <<>>
    BY <1>1, <1>2 DEF Told, Absent, StatusAt
  <1>3. CASE facts[f] # <<>>
    <2>1. Told[f] = Shown(f)
      BY <1>3 DEF Told
    <2>2. PICK i \in 1..Len(facts[f]) : Shown(f) = facts[f][i]
      BY <1>3, LatestIsShown DEF IInv, ShownIsLatest
    <2>3. facts[f][i] \in Items
      <3> HIDE DEF Items
      <3>1. facts[f] \in Seq(Items)
        BY TablesTyped DEF IInv
      <3> QED BY <3>1
    <2>4. /\ facts[f][i].version = 0 => facts[f][i].status = Open
          /\ facts[f][i].version > 0 => /\ facts[f][i].version <= Len(trail[f])
                                        /\ trail[f][facts[f][i].version] = facts[f][i].status
      BY DEF IInv, FactsAreNoted, Noted, FiledFirst
    <2> QED BY <1>1, <2>1, <2>2, <2>3, <2>4 DEF StatusAt
  <1> QED BY <1>2, <1>3

LEMMA ToldStays ==
  ASSUME NEW f \in Feedbacks, facts'[f] = facts[f]
  PROVE  Told'[f] = Told[f]
  <1> DEFINE Latest(s) ==
        CHOOSE x \in {s[i] : i \in 1..Len(s)} : \A v \in {s[i].version : i \in 1..Len(s)} : v <= x.version
  <1>1. Shown(f) = Latest(facts[f]) /\ Shown(f)' = Latest(facts'[f])
    BY DEF Shown, Versions
  <1> HIDE DEF Latest
  <1>2. Shown(f)' = Shown(f)
    BY <1>1
  <1> QED BY <1>2 DEF Told

\* A recorded fact tells the author something later, or nothing.
LEMMA InsertFollows ==
  ASSUME IInv, ShownIsLatest', NothingBefore, ToldIsHistory, ToldIsHistory', [Next]_vars,
         NEW f \in Feedbacks, NEW x, UNCHANGED <<delivery, inbox, dispatcher>>,
         facts' = [facts EXCEPT ![f] = Append(@, x)]
  PROVE  [Promise!Next]_(Promise!vars)
  <1>1. f \in Feedbacks /\ UNCHANGED <<Filed, trail>>
    BY DEF Filed, inbox
  <1>2. facts \in [Feedbacks -> Seq(Items)]
    BY TablesTyped DEF IInv
  <1>3. \A g \in Feedbacks \ {f} : facts'[g] = facts[g]
    BY <1>2
  <1>4. Told' = [Told EXCEPT ![f] = Told'[f]]
    <2>1. \A g \in Feedbacks \ {f} : Told'[g] = Told[g]
      BY <1>3, ToldStays
    <2> QED BY <2>1 DEF Told
  <1>5. /\ Told[f].version \in 0..Len(trail[f]) /\ Told'[f].version \in 0..Len(trail[f])
        /\ Told[f] = [version |-> Told[f].version, status |-> StatusAt(f, Told[f].version)]
        /\ Told'[f] = [version |-> Told'[f].version, status |-> StatusAt(f, Told'[f].version)]
        /\ Len(trail[f]) \in Nat
    <2>1. Len(trail[f]) \in Nat
      BY <1>1, TablesTyped DEF IInv
    <2>2. StatusAt(f, Told[f].version)' = StatusAt(f, Told'[f].version)
      BY <1>1 DEF StatusAt
    <2>3. /\ Told'[f].version \in 0..Len(trail'[f])
          /\ Told'[f] = [version |-> Told'[f].version, status |-> StatusAt(f, Told[f].version)']
      BY <1>1 DEF ToldIsHistory
    <2> QED BY <1>1, <2>1, <2>2, <2>3 DEF ToldIsHistory
  <1>6. Told[f].version <= Told'[f].version
    <2>1. CASE facts[f] = <<>>
      BY <1>1, <1>5, <2>1 DEF Told, Absent
    <2>2. CASE facts[f] # <<>>
      <3>1. facts'[f] # <<>> /\ Versions(f) \subseteq Versions(f)'
        BY <1>1, <2>2, FactsGrow DEF IInv
      <3>2. Shown(f).version \in Versions(f)
        BY <1>1, <2>2, LatestIsShown DEF IInv, ShownIsLatest
      <3>3. \A v \in Versions(f)' : v <= Shown(f)'.version
        BY <1>1, <3>1 DEF ShownIsLatest
      <3>4. Told[f] = Shown(f) /\ Told'[f] = Shown(f)'
        BY <1>1, <2>2, <3>1 DEF ToldIsHistory
      <3> QED BY <3>1, <3>2, <3>3, <3>4
    <2> QED BY <2>1, <2>2
  <1>7. CASE Told'[f].version = Told[f].version
    <2>1. Told'[f] = Told[f]
      BY <1>5, <1>7
    <2>2. Told' = Told
      BY <1>4, <2>1 DEF Told
    <2> QED BY <1>1, <2>2 DEF Promise!vars
  <1>8. CASE Told'[f].version # Told[f].version
    <2>1. /\ Told'[f].version \in 1..Len(trail[f]) /\ Told'[f].version > Told[f].version
          /\ Told'[f] = [version |-> Told'[f].version, status |-> trail[f][Told'[f].version]]
      BY <1>5, <1>6, <1>8 DEF StatusAt
    <2>2. Told' = [Told EXCEPT ![f] = [version |-> Told'[f].version, status |-> trail[f][Told'[f].version]]]
      BY <1>4, <2>1
    <2>3. Promise!Tell(f)
      BY <1>1, <2>1, <2>2 DEF Promise!Tell
    <2> QED BY <1>1, <2>3 DEF Promise!Next
  <1> QED BY <1>7, <1>8

\* A create request finds its item, or the feedback reaches the operators.
LEMMA CreateFollows ==
  ASSUME IInv, NEW f \in Filed, Create(f), UNCHANGED <<delivery, facts>>
  PROVE  [Promise!Next]_(Promise!vars)
  <1>1. UNCHANGED <<Filed, Told>>
    BY DEF Filed, Told, Shown, Versions
  <1>2. CASE item[f].version > 0
    BY <1>1, <1>2 DEF Create, Promise!vars
  <1>3. CASE ~(item[f].version > 0)
    <2>1. f \in Feedbacks
      BY DEF Filed
    <2>2. trail[f] = <<>>
      BY <1>3, <2>1, TablesTyped DEF IInv
    <2>3. Promise!Reach(f)
      BY <1>1, <1>3, <2>2 DEF Create, Promise!Reach
    <2> QED BY <2>1, <2>3 DEF Promise!Next
  <1> QED BY <1>2, <1>3

LEMMA FileFollows ==
  ASSUME IInv, ShownIsLatest', NothingBefore,
         NEW f \in Feedbacks, CreateFeedback(f)
  PROVE  Promise!File(f)
  <1>1. facts \in [Feedbacks -> Seq(Items)] /\ facts[f] = <<>>
    BY TablesTyped DEF IInv, CreateFeedback, NothingBefore
  <1>2. f \notin Filed /\ Filed' = Filed \cup {f}
    BY DEF CreateFeedback, Filed, IInv, TypeOK
  <1>3. facts'[f] = <<Absent>> /\ \A g \in Feedbacks \ {f} : facts'[g] = facts[g]
    BY <1>1 DEF CreateFeedback, Absent
  <1>4. Told'[f] = Absent
    <2>1. \E i \in 1..Len(facts'[f]) : Shown(f)' = facts'[f][i]
      BY <1>3 DEF ShownIsLatest
    <2>2. Shown(f)' = Absent
      BY <1>3, <2>1
    <2>3. facts'[f] # <<>>
      BY <1>3
    <2>4. Told'[f] = Shown(f)'
      BY <2>3 DEF Told
    <2> QED BY <2>2, <2>4
  <1>5. Told[f] = Absent
    BY <1>1 DEF Told
  <1>6. \A g \in Feedbacks \ {f} : Told'[g] = Told[g]
    BY <1>3, ToldStays
  <1>7. Told' = Told
    BY <1>4, <1>5, <1>6 DEF Told
  <1> QED BY <1>2, <1>7 DEF Promise!File, CreateFeedback, inbox

LEMMA JudgeFollows ==
  ASSUME IInv, NEW f \in Feedbacks, NEW status \in Statuses, Update(f, status)
  PROVE  Promise!Judge(f, status)
  <1>1. UNCHANGED <<Filed, Told>>
    BY DEF Update, quizcraft, Filed, Told, Shown, Versions
  <1>2. trail[f] # <<>>
    BY TablesTyped DEF Update, IInv
  <1> QED BY <1>1, <1>2 DEF Update, Promise!Judge

\* Whatever the services and their calls do, the author and the operators see a
\* feedback filed, reached, judged and told of, each as FeedbackPromise has it
\* (createFeedback, dispatchInboxBatch, Create, Update, syncFeedbackStatusFromInbox).
THEOREM PromiseKept == Spec => KeepsPromise
  <1> DEFINE HInv == IInv /\ FiledFirst /\ NothingBefore /\ ShownIsLatest /\ ToldIsHistory
  <1>1. Init => FiledFirst
    BY DEF Init, Idle, Away, FiledFirst
  <1>2. Spec => []HInv
    <2>1. IInv => ShownIsLatest
      BY LatestIsShown DEF IInv
    <2> QED BY <1>1, <2>1, Invariance, FiledFirstStep, AlwaysNothingBefore, WhatIsTold, PTL DEF Spec
  <1>3. Init => Promise!Init
    BY DEF Init, Promise!Init, Filed, Told, Absent
  <1>4. ASSUME HInv, HInv', [Next]_vars PROVE [Promise!Next]_(Promise!vars)
    <2>1. CASE UNCHANGED <<delivery, facts, trail>>
      BY <2>1 DEF Promise!vars, Filed, Told, Shown, Versions
    <2>2. ASSUME NEW f \in Feedbacks, CreateFeedback(f) PROVE [Promise!Next]_(Promise!vars)
      <3>1. Promise!File(f)
        BY <1>4, <2>2, FileFollows
      <3> QED BY <3>1 DEF Promise!Next
    <2>3. ASSUME NEW f \in Feedbacks, NEW status \in Statuses, Update(f, status)
          PROVE  [Promise!Next]_(Promise!vars)
      <3>1. Promise!Judge(f, status)
        BY <1>4, <2>3, JudgeFollows
      <3> QED BY <3>1 DEF Promise!Next
    <2>4. ASSUME NEW f \in Feedbacks, ArrivesLate(f) PROVE [Promise!Next]_(Promise!vars)
      <3>1. f \in Filed /\ Create(f) /\ UNCHANGED <<delivery, facts>>
        BY <1>4, <2>4 DEF ArrivesLate, quizcraft, FiledFirst
      <3> QED BY <1>4, <3>1, CreateFollows
    <2>5. ASSUME NEW d \in Dispatchers, NEW f \in Feedbacks, Posts(d, f) \/ PostFails(d, f)
          PROVE  [Promise!Next]_(Promise!vars)
      <3>1. f \in Filed /\ UNCHANGED <<delivery, facts>>
        BY <1>4, <2>5 DEF Posts, PostFails, Turn, quizcraft, FiledFirst
      <3>2. Create(f) \/ UNCHANGED <<item, trail>>
        BY <2>5 DEF Posts, PostFails
      <3> QED BY <1>4, <2>1, <3>1, <3>2, CreateFollows
    <2>6. ASSUME NEW d \in Dispatchers, Record(d) PROVE [Promise!Next]_(Promise!vars)
      <3>1. UNCHANGED <<facts, trail>>
        BY <2>6 DEF Record, inbox
      <3>2. Filed' = Filed
        BY <1>4, <2>6, RecordKeepsFiled DEF IInv
      <3> QED BY <3>1, <3>2 DEF Promise!vars, Told, Shown, Versions
    <2>7. ASSUME NEW r \in Readers, Insert(r) PROVE [Promise!Next]_(Promise!vars)
      <3>1. CASE UNCHANGED facts
        BY <2>1, <2>7, <3>1 DEF Insert, inbox
      <3>2. CASE ~UNCHANGED facts
        <4>1. reader[r].feedback \in Feedbacks /\ UNCHANGED <<delivery, inbox, dispatcher>>
              /\ facts' = [facts EXCEPT ![reader[r].feedback] = Append(@, reader[r].seen)]
          BY <1>4, <2>7, <3>2 DEF Insert, NothingBefore
        <4> QED BY <1>4, <4>1, InsertFollows
      <3> QED BY <3>1, <3>2
    <2> QED
      BY <1>4, <2>1, <2>2, <2>3, <2>4, <2>5, <2>6, <2>7
      DEF Next, vars, quizcraft, inbox, Crash, Query, Fetch, Look, Leave
  <1> HIDE DEF HInv
  <1> QED BY <1>2, <1>3, <1>4, PTL DEF Spec, KeepsPromise, Promise!Spec
=============================================================================
