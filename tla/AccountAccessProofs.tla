-------------------------- MODULE AccountAccessProofs --------------------------
(***************************************************************************)
(* What TLAPS proves about the access to an account, for any number of     *)
(* requests, codes, Sessions and grants.                                   *)
(***************************************************************************)
EXTENDS AccountAccess, FiniteSetTheorems, TLAPS

CodeRecords == [issued : BOOLEAN, failed : 0..MaxGuesses, uses : Nat]
SessionRecords == [status : {"none", "live", "revoked"}, epoch : Nat, grant : Grants \cup {NoGrant}]
GrantRecords == [status : {"none", "issued", "used"}, session : Sessions \cup {NoSession}]
RequestRecords ==
  [op : Operations \cup {"none"}, pc : Points, typed : Nat, code : Codes \cup {NoCode},
   session : Sessions \cup {NoSession}, grant : Grants \cup {NoGrant},
   new : Sessions \cup {NoSession}]

\* The codes, which no lock is needed for: every write that uses one up looks at it.
CodesInv ==
  /\ code \in [Codes -> CodeRecords]
  /\ latest \in [Purposes -> Codes \cup {NoCode}]
  /\ \A p \in Purposes : latest[p] # NoCode => PurposeOf(latest[p]) = p
  /\ CodeDoesOneThing

\* Where an operation can be.
Path ==
  [register  |-> {"code", "identity", "register"},
   login     |-> {"scope", "user", "open"},
   verify    |-> {"code", "user", "open"},
   confirm   |-> {"code", "consume"},
   recover   |-> {"scope", "user", "code", "replace"},
   change    |-> {"scope", "user", "session", "code", "replace"},
   authorize |-> {"session", "user", "grant"},
   exchange  |-> {"row", "session", "user", "exchange"}]

PastCode(q) ==
  \/ q.op \in {"register", "verify", "confirm"} /\ q.pc # "code"
  \/ q.pc = "replace"

Shape(q) ==
  \/ q = Idle
  \/ /\ q.op \in Operations /\ q.pc \in Path[q.op]
     /\ q.op \in {"change", "authorize", "exchange"} => q.session \in Sessions
     /\ q.op \in {"authorize", "exchange"} => q.grant \in Grants
     /\ q.code # NoCode => q.code \in Codes /\ PurposeOf(q.code) = Asks(q.op)
     /\ PastCode(q) => q.code # NoCode

RequestsInv ==
  /\ request \in [Requests -> RequestRecords]
  /\ \A r \in Requests : Shape(request[r])

\* The locks of a request, read off the point it has come to.
Holds(q, x) ==
  \/ x = <<"scope">> /\ q.op \in {"login", "recover", "change"} /\ q.pc # "scope"
  \/ x = <<"user">> /\ \/ q.pc \in {"open", "exchange", "grant", "replace"}
                       \/ q.op \in {"recover", "change"} /\ q.pc \in {"session", "code"}
  \/ x = <<"code", q.code>> /\ PastCode(q)
  \/ x = <<"session", q.session>> /\ \/ q.op = "change" /\ q.pc \in {"code", "replace"}
                                     \/ q.op = "authorize" /\ q.pc \in {"user", "grant"}
                                     \/ q.op = "exchange" /\ q.pc \in {"user", "exchange"}
  \/ x = <<"grant", q.grant>> /\ q.op = "exchange" /\ q.pc # "row"

\* No two requests hold the same row.
LocksInv ==
  /\ held \in [Requests -> SUBSET Rows]
  /\ \A r \in Requests : \A x : x \in held[r] <=> Holds(request[r], x)
  /\ \A r, q \in Requests : r # q => held[r] \cap held[q] = {}

Local == RequestsInv /\ LocksInv

\* Opened by the grant g.
Of(g) == {s \in Sessions : session[s].status # "none" /\ session[s].grant = g}

AccountInv ==
  /\ password \in Nat
  /\ session \in [Sessions -> SessionRecords]
  /\ grant \in [Grants -> GrantRecords]
  /\ SessionsAreCurrent
  /\ \A s \in Sessions : session[s].status = "live" => session[s].epoch > 0

GrantsInv ==
  \A g \in Grants :
    /\ grant[g].status # "none" => grant[g].session \in Sessions
    /\ grant[g].status # "used" => Of(g) = {}
    /\ \A s, t \in Of(g) : s = t

\* What a request has found in the rows it locked stays true.
Knows(q) ==
  /\ q.pc \in {"open", "exchange"} => password > 0
  /\ q.op = "login" /\ q.pc = "open" => q.typed = password
  /\ q.op = "exchange" => grant[q.grant].status # "none" /\ grant[q.grant].session = q.session
  /\ q.op = "exchange" /\ q.pc \in {"user", "exchange"} => session[q.session].status = "live"
  /\ q.op = "authorize" => grant[q.grant].status = "none"

KnowledgeInv ==
  /\ \A r \in Requests : Knows(request[r])
  /\ \A r, q \in Requests :
       r # q /\ request[r].op = "authorize" /\ request[q].op = "authorize"
         => request[r].grant # request[q].grant

IInv == CodesInv /\ Local /\ AccountInv /\ GrantsInv /\ KnowledgeInv

-----------------------------------------------------------------------------
(* Rows and paths.                                                         *)

LEMMA RowsDiffer ==
  /\ <<"scope">> # <<"user">>
  /\ \A k \in {"code", "session", "grant"} : \A x : <<k, x>> # <<"scope">> /\ <<k, x>> # <<"user">>
  /\ \A k, l, x, y : <<k, x>> = <<l, y>> => k = l /\ x = y
  OBVIOUS

LEMMA OperationsAre ==
  Operations = {"register", "login", "verify", "confirm", "recover", "change", "authorize", "exchange"}
  BY DEF Operations, After

LEMMA InitInv == Init => IInv
  <1> SUFFICES ASSUME Init PROVE IInv
    OBVIOUS
  <1> USE DEF Init
  <1>1. CodesInv
    BY GuessesAssumption DEF CodesInv, CodeRecords, CodeDoesOneThing
  <1>2. RequestsInv
    BY DEF RequestsInv, RequestRecords, Shape, Idle, Points
  <1>3. LocksInv
    BY DEF LocksInv, Holds, PastCode, Idle
  <1>4. AccountInv
    BY DEF AccountInv, SessionRecords, GrantRecords, SessionsAreCurrent
  <1>5. GrantsInv
    BY DEF GrantsInv, Of
  <1>6. KnowledgeInv
    BY DEF KnowledgeInv, Knows, Idle
  <1> QED BY <1>1, <1>2, <1>3, <1>4, <1>5, <1>6 DEF IInv, Local

-----------------------------------------------------------------------------
(* The requests and their locks.                                           *)

LEMMA EndKeeps ==
  ASSUME Local, NEW r \in Requests, End(r)
  PROVE  Local' /\ request'[r] = Idle /\ \A q \in Requests \ {r} : request'[q] = request[q]
  <1> USE DEF Local, End
  <1>1. request' = [request EXCEPT ![r] = Idle] /\ request'[r] = Idle
        /\ \A q \in Requests \ {r} : request'[q] = request[q]
    BY DEF RequestsInv
  <1>2. RequestsInv'
    BY <1>1 DEF RequestsInv, RequestRecords, Shape, Idle, Points
  <1>3. \A x : ~Holds(Idle, x)
    BY DEF Holds, PastCode, Idle
  <1>4. held'[r] = {} /\ \A q \in Requests \ {r} : held'[q] = held[q]
    BY DEF LocksInv
  <1>5. LocksInv'
    BY <1>1, <1>3, <1>4 DEF LocksInv
  <1> QED BY <1>1, <1>2, <1>5

\* A request goes on, having locked what its statement wants.
LEMMA ProceedKeeps ==
  ASSUME Local, CodesInv, NEW r \in Requests, request[r].op # "none",
         request[r].pc \in {"scope", "user", "session", "row", "code", "identity"},
         request[r].pc = "code" => request[r].code # NoCode,
         Proceed(r),
         request[r].pc = "identity" => held' = held,
         request[r].pc # "identity" => Granted(r) /\ Take(r)
  PROVE  /\ Local'
         /\ request'[r].op = request[r].op /\ request'[r].pc = After[request[r].op][request[r].pc]
         /\ \A f \in {"typed", "session", "grant", "new"} : request'[r][f] = request[r][f]
         /\ \A q \in Requests \ {r} : request'[q] = request[q]
  <1> DEFINE o == request[r]
             n == request'[r]
             next == After[o.op][o.pc]
  <1>1. o \in RequestRecords /\ Shape(o) /\ o # Idle
    BY DEF Local, RequestsInv, Idle
  <1>2. o.op \in Operations /\ o.pc \in Path[o.op]
    BY <1>1 DEF Shape
  <1>3. \/ o.op = "register" /\ \/ o.pc = "code" /\ next = "identity"
                                \/ o.pc = "identity" /\ next = "register"
        \/ o.op = "login" /\ \/ o.pc = "scope" /\ next = "user"
                             \/ o.pc = "user" /\ next = "open"
        \/ o.op = "verify" /\ \/ o.pc = "code" /\ next = "user"
                              \/ o.pc = "user" /\ next = "open"
        \/ o.op = "confirm" /\ o.pc = "code" /\ next = "consume"
        \/ o.op = "recover" /\ \/ o.pc = "scope" /\ next = "user"
                               \/ o.pc = "user" /\ next = "code"
                               \/ o.pc = "code" /\ next = "replace"
        \/ o.op = "change" /\ \/ o.pc = "scope" /\ next = "user"
                              \/ o.pc = "user" /\ next = "session"
                              \/ o.pc = "session" /\ next = "code"
                              \/ o.pc = "code" /\ next = "replace"
        \/ o.op = "authorize" /\ \/ o.pc = "session" /\ next = "user"
                                 \/ o.pc = "user" /\ next = "grant"
        \/ o.op = "exchange" /\ \/ o.pc = "row" /\ next = "session"
                                \/ o.pc = "session" /\ next = "user"
                                \/ o.pc = "user" /\ next = "exchange"
    BY <1>2, OperationsAre DEF Path, After
  <1>4. n = Goto(o, next) /\ \A q \in Requests \ {r} : request'[q] = request[q]
    BY DEF Proceed, Local, RequestsInv
  <1>5. /\ n = [o EXCEPT !.pc = next, !.code = n.code]
        /\ next # "code" => n.code = o.code
        /\ next = "code" => n.code = latest["security"]
    BY <1>1, <1>3, <1>4 DEF Goto, RequestRecords, Asks
  <1>6. n.code \in Codes \cup {NoCode} /\ (n.code # NoCode => PurposeOf(n.code) = Asks(o.op))
    <2>1. CASE next # "code"
      BY <2>1, <1>1, <1>5 DEF Shape, RequestRecords
    <2>2. CASE next = "code"
      BY <2>2, <1>3, <1>5 DEF CodesInv, Purposes, Asks
    <2> QED BY <2>1, <2>2
  <1>7. n \in RequestRecords
    BY <1>1, <1>3, <1>5, <1>6 DEF RequestRecords, Points
  <1>8. n.op = o.op /\ n.pc = next /\ n.session = o.session /\ n.grant = o.grant
        /\ n.typed = o.typed /\ n.new = o.new
    BY <1>1, <1>5, <1>7 DEF RequestRecords
  <1>9. PastCode(n) => n.code # NoCode
    BY <1>1, <1>3, <1>5, <1>8 DEF Shape, PastCode
  <1>10. n.pc \in Path[n.op]
    BY <1>3, <1>8 DEF Path
  <1>11. Shape(n)
    BY <1>1, <1>2, <1>6, <1>8, <1>9, <1>10 DEF Shape
  <1>12. RequestsInv'
    <2>1. request' \in [Requests -> RequestRecords]
      BY <1>7 DEF Proceed, Local, RequestsInv
    <2> QED BY <2>1, <1>4, <1>11 DEF Local, RequestsInv
  <1>13. \A x : Holds(n, x) <=> x \in held'[r]
    <2>1. \A x : x \in held[r] <=> Holds(o, x)
      BY DEF Local, LocksInv
    <2>2. CASE o.pc = "identity"
      BY <2>1, <2>2, <1>1, <1>3, <1>5, <1>8 DEF Holds, PastCode
    <2>3. CASE o.pc # "identity"
      <3>1. \A x : x \in held'[r] <=> Holds(o, x) \/ x \in Wanted(r)
        BY <2>1, <2>3 DEF Take, Local, LocksInv
      <3>2. \A x : x \in Wanted(r) <=>
                     \/ o.pc \in {"scope", "user"} /\ x = <<o.pc>>
                     \/ o.pc = "code" /\ x = <<"code", o.code>>
                     \/ o.pc = "session" /\ x = <<"session", o.session>>
                     \/ o.pc = "row" /\ x = <<"grant", o.grant>>
        BY <1>3 DEF Wanted
      <3>3. \A x : Holds(n, x) <=> Holds(o, x) \/ x \in Wanted(r)
        BY <3>2, <1>3, <1>5, <1>8, <2>3 DEF Holds, PastCode
      <3> QED BY <3>1, <3>3
    <2> QED BY <2>2, <2>3
  <1>14. \A x : Holds(n, x) => x \in Rows
    BY <1>11, <1>7, <1>8, <1>2, OperationsAre DEF Holds, Shape, Rows, PastCode, Path, RequestRecords, Idle
  <1>15. \A q \in Requests \ {r} : held'[q] = held[q]
    BY DEF Take, Local, LocksInv
  <1>16. \A q \in Requests \ {r} : held'[r] \cap held[q] = {}
    BY DEF Take, Granted, WaitsFor, Local, LocksInv
  <1>17. LocksInv'
    <2>1. held' \in [Requests -> SUBSET Rows]
      BY <1>13, <1>14, <1>15 DEF Take, Local, LocksInv
    <2>2. \A q \in Requests : \A x : x \in held'[q] <=> Holds(request'[q], x)
      BY <1>4, <1>13, <1>15 DEF Local, LocksInv
    <2>3. \A p, q \in Requests : p # q => held'[p] \cap held'[q] = {}
      BY <1>15, <1>16 DEF Local, LocksInv
    <2> QED BY <2>1, <2>2, <2>3 DEF LocksInv
  <1> QED BY <1>4, <1>8, <1>12, <1>17 DEF Local

\* A request that has just arrived.
LEMMA BeginKeeps ==
  ASSUME IInv, NEW r \in Requests, Begin(r)
  PROVE  Local' /\ KnowledgeInv'
  <1> USE DEF IInv
  <1>1. PICK op \in Operations, t \in 0..password, s \in Sessions \cup {NoSession},
             m \in Sessions \cup {NoSession}, g \in Grants \cup {NoGrant} :
       /\ op \in {"login", "change"} <=> t # 0
       /\ op \in {"change", "authorize"} <=> s # NoSession
       /\ s # NoSession => session[s].status # "none" /\ session[s].grant = NoGrant
       /\ op \in Opening <=> m # NoSession
       /\ m # NoSession => m \in Fresh /\ \A x \in Fresh : m <= x
       /\ op \in {"authorize", "exchange"} <=> g # NoGrant
       /\ op = "authorize" => grant[g].status = "none" /\ \A q \in Requests : request[q].grant # g
       /\ op = "exchange" => grant[g].status # "none"
       /\ op \in {"recover", "change"} => password < MaxPasswords
       /\ request' = [request EXCEPT ![r] =
            Goto([Idle EXCEPT !.op = op, !.typed = t, !.new = m, !.grant = g,
                              !.session = IF op = "exchange" THEN grant[g].session ELSE s],
                 After[op].start)]
    BY Zenon DEF Begin
  <1> DEFINE o == [Idle EXCEPT !.op = op, !.typed = t, !.new = m, !.grant = g,
                               !.session = IF op = "exchange" THEN grant[g].session ELSE s]
             n == request'[r]
             first == After[op].start
  <1>2. n = Goto(o, first) /\ \A q \in Requests \ {r} : request'[q] = request[q]
    BY <1>1 DEF Local, RequestsInv
  <1>3. /\ first \in {"code", "scope", "session", "row"} /\ first \in Path[op] /\ first \in Points
        /\ first = "code" <=> op \in {"register", "verify", "confirm"}
        /\ first = "scope" <=> op \in {"login", "recover", "change"}
        /\ first = "session" <=> op = "authorize"
        /\ first = "row" <=> op = "exchange"
    BY OperationsAre DEF After, Path, Points
  <1>4. o.session \in Sessions \cup {NoSession} /\ (op = "exchange" => o.session \in Sessions)
    <2>1. op = "exchange" => grant[g].session \in Sessions
      BY <1>1 DEF GrantsInv
    <2>2. o.session = IF op = "exchange" THEN grant[g].session ELSE s
      BY DEF Idle
    <2> QED BY <2>1, <2>2
  <1>5. o \in RequestRecords
    <2>1. t \in Nat
      BY DEF AccountInv
    <2>2. \A x \in Sessions \cup {NoSession} :
            [Idle EXCEPT !.op = op, !.typed = t, !.new = m, !.grant = g, !.session = x] \in RequestRecords
      BY <2>1 DEF RequestRecords, Points, Idle
    <2>3. (IF op = "exchange" THEN grant[g].session ELSE s) \in Sessions \cup {NoSession}
      BY <1>1 DEF GrantsInv
    <2> QED BY <2>2, <2>3
  <1>6. /\ n.op = op /\ n.pc = first /\ n.typed = t /\ n.session = o.session /\ n.grant = g
        /\ n = [o EXCEPT !.pc = first, !.code = n.code]
        /\ n.code = IF first = "code" THEN latest[Asks(op)] ELSE NoCode
    BY <1>2, <1>5 DEF Goto, RequestRecords, Idle
  <1>7. n.code \in Codes \cup {NoCode} /\ (n.code # NoCode => PurposeOf(n.code) = Asks(op))
    BY <1>6 DEF CodesInv, Purposes, Asks
  <1>8. n \in RequestRecords
    BY <1>3, <1>5, <1>6, <1>7 DEF RequestRecords
  <1>9. ~PastCode(n)
    BY <1>3, <1>6 DEF PastCode
  <1>10. op \in {"authorize", "exchange"} => g \in Grants
    BY <1>1
  <1>11. op \in {"change", "authorize", "exchange"} => n.session \in Sessions
    BY <1>1, <1>4, <1>6 DEF Idle
  <1>12. Shape(n)
    BY <1>3, <1>6, <1>7, <1>9, <1>10, <1>11 DEF Shape
  <1>13. request[r] = Idle /\ held' = held /\ UNCHANGED <<password, session, grant>>
    BY DEF Begin, tables
  <1>14. \A x : ~Holds(n, x) /\ ~Holds(Idle, x)
    BY <1>3, <1>6, <1>9 DEF Holds, PastCode, Idle
  <1>15. RequestsInv'
    BY <1>1, <1>2, <1>8, <1>12 DEF Local, RequestsInv
  <1>16. LocksInv'
    BY <1>2, <1>13, <1>14 DEF Local, LocksInv
  <1>17. Knows(request[r])'
    BY <1>1, <1>3, <1>6, <1>10, <1>13, OperationsAre DEF Knows, Idle
  <1>18. KnowledgeInv'
    <2>1. \A q \in Requests \ {r} : Knows(request[q])'
      BY <1>2, <1>13 DEF KnowledgeInv, Knows
    <2>2. op = "authorize" => \A q \in Requests : request[q].grant # g
      BY <1>1
    <2> QED BY <1>2, <1>6, <1>17, <2>1, <2>2 DEF KnowledgeInv
  <1> QED BY <1>15, <1>16, <1>18 DEF Local

-----------------------------------------------------------------------------
(* The codes.                                                              *)

LEMMA ConsumeKeeps ==
  ASSUME CodesInv, NEW c \in Codes, Consume(c), latest' = latest
  PROVE  CodesInv'
  BY GuessesAssumption DEF CodesInv, CodeRecords, CodeDoesOneThing, Consume, Consumable

LEMMA RequestKeepsCodes ==
  ASSUME CodesInv, NEW c \in Codes, Request(c)
  PROVE  CodesInv'
  <1> USE DEF CodesInv, Request
  <1>1. code' \in [Codes -> CodeRecords] /\ CodeDoesOneThing'
    BY DEF CodeRecords, CodeDoesOneThing
  <1>2. PurposeOf(c) \in Purposes
    BY DEF PurposeOf, Purposes
  <1>3. latest' \in [Purposes -> Codes \cup {NoCode}]
        /\ \A p \in Purposes : latest'[p] # NoCode => PurposeOf(latest'[p]) = p
    BY <1>2
  <1> QED BY <1>1, <1>3

LEMMA LockCodeKeepsCodes ==
  ASSUME CodesInv, Local, NEW r \in Requests, LockCode(r)
  PROVE  CodesInv'
  <1> DEFINE c == request[r].code
  <1>1. c \in Codes \cup {NoCode}
    BY DEF Local, RequestsInv, RequestRecords
  <1>2. CASE UNCHANGED code
    BY <1>2 DEF LockCode, CodesInv, CodeDoesOneThing
  <1>3. CASE Consumable(c) /\ code' = [code EXCEPT ![c].failed = @ + 1]
    BY <1>1, <1>3, GuessesAssumption
       DEF LockCode, CodesInv, CodeRecords, CodeDoesOneThing, Consumable
  <1> QED BY <1>2, <1>3 DEF LockCode
-----------------------------------------------------------------------------
(* Steps that leave the password, the Sessions and the grants alone.       *)

Rest == AccountInv /\ GrantsInv /\ KnowledgeInv

LEMMA TablesKept ==
  ASSUME AccountInv, GrantsInv, UNCHANGED <<password, session, grant>>
  PROVE  AccountInv' /\ GrantsInv'
  BY DEF AccountInv, GrantsInv, SessionsAreCurrent, Of

\* A request ends; what the others know stays true.
LEMMA EndKnows ==
  ASSUME IInv, NEW r \in Requests, End(r), \A q \in Requests \ {r} : Knows(request[q])'
  PROVE  KnowledgeInv'
  <1>1. request'[r] = Idle /\ \A q \in Requests \ {r} : request'[q] = request[q]
    BY EndKeeps DEF IInv
  <1>2. Knows(request[r])'
    BY <1>1 DEF Knows, Idle
  <1> QED BY <1>1, <1>2 DEF IInv, KnowledgeInv, Idle

LEMMA QuietEnd ==
  ASSUME IInv, NEW r \in Requests, End(r), UNCHANGED <<password, session, grant>>
  PROVE  Local' /\ Rest'
  <1>1. Local' /\ \A q \in Requests \ {r} : request'[q] = request[q]
    BY EndKeeps DEF IInv
  <1>2. \A q \in Requests \ {r} : Knows(request[q])'
    BY <1>1 DEF IInv, KnowledgeInv, Knows
  <1> QED BY <1>1, <1>2, EndKnows, TablesKept DEF IInv, Rest

LEMMA QuietProceed ==
  ASSUME IInv, NEW r \in Requests, request[r].op # "none",
         request[r].pc \in {"scope", "user", "session", "row", "code", "identity"},
         request[r].pc = "code" => request[r].code # NoCode,
         Proceed(r),
         request[r].pc = "identity" => held' = held,
         request[r].pc # "identity" => Granted(r) /\ Take(r),
         request[r].pc \in {"scope", "user", "session", "row"} => Stands(r),
         UNCHANGED <<password, session, grant>>
  PROVE  Local' /\ Rest'
  <1> DEFINE o == request[r]
             next == After[o.op][o.pc]
  <1>1. /\ Local'
        /\ request'[r].op = o.op /\ request'[r].pc = next
        /\ request'[r].typed = o.typed /\ request'[r].session = o.session /\ request'[r].grant = o.grant
        /\ \A q \in Requests \ {r} : request'[q] = request[q]
    BY ProceedKeeps DEF IInv
  <1>2. o.op \in Operations /\ o.pc \in Path[o.op]
    BY DEF IInv, Local, RequestsInv, Shape, Idle
  <1>3. /\ next \in {"open", "exchange"} => o.pc = "user"
        /\ o.op = "exchange" /\ next \in {"user", "exchange"} => o.pc \in {"session", "user"}
    BY <1>2, OperationsAre DEF Path, After
  <1>4. Knows(request[r])'
    BY <1>1, <1>3 DEF IInv, KnowledgeInv, Knows, Stands
  <1>5. \A q \in Requests \ {r} : Knows(request[q])'
    BY <1>1 DEF IInv, KnowledgeInv, Knows
  <1>6. KnowledgeInv'
    BY <1>1, <1>4, <1>5 DEF IInv, KnowledgeInv
  <1> QED BY <1>1, <1>6, TablesKept DEF IInv, Rest

LEMMA CodesKept ==
  ASSUME CodesInv, UNCHANGED <<code, latest>>
  PROVE  CodesInv'
  BY DEF CodesInv, CodeDoesOneThing

LEMMA LockKeeps ==
  ASSUME IInv, NEW r \in Requests, Lock(r)
  PROVE  IInv'
  <1>1. UNCHANGED tables /\ request[r].op # "none" /\ request[r].pc \in {"scope", "user", "session", "row"}
        /\ Granted(r)
    BY DEF Lock, At
  <1>2. CASE Stands(r) /\ Take(r) /\ Proceed(r)
    BY <1>1, <1>2, QuietProceed, CodesKept DEF IInv, Rest, tables
  <1>3. CASE End(r)
    BY <1>1, <1>3, QuietEnd, CodesKept DEF IInv, Rest, tables
  <1> QED BY <1>2, <1>3 DEF Lock

LEMMA LockCodeKeeps ==
  ASSUME IInv, NEW r \in Requests, LockCode(r)
  PROVE  IInv'
  <1>1. UNCHANGED <<password, session, grant>> /\ request[r].op # "none" /\ request[r].pc = "code"
        /\ Granted(r)
    BY DEF LockCode, At
  <1>2. CodesInv'
    BY LockCodeKeepsCodes DEF IInv
  <1>3. CASE Consumable(request[r].code) /\ Take(r) /\ Proceed(r)
    BY <1>1, <1>2, <1>3, QuietProceed DEF IInv, Rest, Consumable
  <1>4. CASE End(r)
    BY <1>1, <1>2, <1>4, QuietEnd DEF IInv, Rest
  <1> QED BY <1>3, <1>4 DEF LockCode

LEMMA IdentityKeeps ==
  ASSUME IInv, NEW r \in Requests, Identity(r)
  PROVE  IInv'
  <1>1. UNCHANGED tables /\ request[r].op # "none" /\ request[r].pc = "identity"
    BY DEF Identity, At
  <1>2. CASE Proceed(r) /\ held' = held
    BY <1>1, <1>2, QuietProceed, CodesKept DEF IInv, Rest, tables
  <1>3. CASE End(r)
    BY <1>1, <1>3, QuietEnd, CodesKept DEF IInv, Rest, tables
  <1> QED BY <1>2, <1>3 DEF Identity

LEMMA FailsKeeps ==
  ASSUME IInv, NEW r \in Requests, Fails(r)
  PROVE  IInv'
  BY QuietEnd, CodesKept DEF IInv, Rest, Fails, tables

LEMMA ConfirmKeeps ==
  ASSUME IInv, NEW r \in Requests, Confirm(r)
  PROVE  IInv'
  <1>1. request[r].code \in Codes
    BY NamesAssumption DEF IInv, Local, RequestsInv, RequestRecords, Confirm, Consume, Consumable
  <1> QED BY <1>1, ConsumeKeeps, QuietEnd DEF IInv, Rest, Confirm

LEMMA RequestKeeps ==
  ASSUME IInv, NEW c \in Codes, Request(c)
  PROVE  IInv'
  <1>1. CodesInv' /\ AccountInv' /\ GrantsInv'
    BY RequestKeepsCodes, TablesKept DEF IInv, Request
  <1> QED
    BY <1>1 DEF IInv, Request, Local, RequestsInv, LocksInv, KnowledgeInv, Knows
-----------------------------------------------------------------------------
(* Steps that open and revoke Sessions, or write grants.                   *)

\* A Session is opened that no grant stands behind, or is given up.
LEMMA GrantsKept ==
  ASSUME IInv, grant' = grant, session' \in [Sessions -> SessionRecords],
         \A s \in Sessions : \/ session'[s].status # "none" => session[s].status # "none"
                                                             /\ session'[s].grant = session[s].grant
                             \/ session'[s].grant = NoGrant
  PROVE  GrantsInv'
  <1>1. \A g \in Grants : Of(g)' \subseteq Of(g)
    BY NamesAssumption DEF Of
  <1> QED BY <1>1 DEF IInv, GrantsInv

LEMMA RegisterKeeps ==
  ASSUME IInv, NEW r \in Requests, Register(r)
  PROVE  IInv'
  <1> DEFINE n == request[r].new
  <1>1. End(r) /\ UNCHANGED <<latest, grant>>
    BY DEF Register
  <1>2. CASE UNCHANGED <<password, code, session>>
    BY <1>1, <1>2, QuietEnd, CodesKept DEF IInv, Rest
  <1>3. CASE /\ password = 0 /\ password' = 1
             /\ Consume(request[r].code)
             /\ session' = [session EXCEPT ![n] = Opened(1, NoGrant)]
    <2>1. request[r].code \in Codes
      BY <1>3 DEF IInv, Local, RequestsInv, RequestRecords, Consume, Consumable
    <2>2. CodesInv'
      BY <1>1, <1>3, <2>1, ConsumeKeeps DEF IInv
    <2>3. session' \in [Sessions -> SessionRecords]
          /\ \A s \in Sessions : session'[s] = session[s] \/ session'[s] = Opened(1, NoGrant)
      BY <1>3 DEF IInv, AccountInv, SessionRecords, Opened
    <2>4. \A s \in Sessions : session[s].status # "live"
      BY <1>3 DEF IInv, AccountInv, SessionsAreCurrent
    <2>5. AccountInv'
      BY <1>1, <1>3, <2>3, <2>4 DEF IInv, AccountInv, SessionsAreCurrent, Opened
    <2>6. GrantsInv'
      BY <1>1, <2>3, GrantsKept DEF Opened
    <2>7. \A q \in Requests \ {r} : Knows(request[q])'
      <3> SUFFICES ASSUME NEW q \in Requests \ {r} PROVE Knows(request[q])'
        OBVIOUS
      <3>1. Knows(request[q]) /\ request'[q] = request[q] /\ Shape(request[q])
        BY <1>1, EndKeeps DEF IInv, KnowledgeInv, Local, RequestsInv
      <3>2. request[q].op = "exchange" => request[q].session \in Sessions
        BY <3>1 DEF Shape, Idle
      <3> QED BY <1>1, <1>3, <2>3, <3>1, <3>2 DEF Knows, Opened
    <2> QED BY <1>1, <2>2, <2>5, <2>6, <2>7, EndKnows, EndKeeps DEF IInv
  <1> QED BY <1>2, <1>3 DEF Register

LEMMA OpenKeeps ==
  ASSUME IInv, NEW r \in Requests, Open(r)
  PROVE  IInv'
  <1> DEFINE o == request[r]
             p == IF o.op = "login" THEN o.typed ELSE password
  <1>1. End(r) /\ UNCHANGED <<password, latest, grant>> /\ o.pc = "open" /\ o.op # "none"
        /\ session' = [session EXCEPT ![o.new] = Opened(p, NoGrant)]
    BY DEF Open, At
  <1>2. p = password /\ password > 0
    BY <1>1 DEF IInv, KnowledgeInv, Knows
  <1>3. CodesInv'
    <2>1. CASE o.op = "verify"
      <3>1. o.code \in Codes /\ Consume(o.code)
        BY <2>1 DEF IInv, Local, RequestsInv, RequestRecords, Open, Consume, Consumable
      <3> QED BY <1>1, <3>1, ConsumeKeeps DEF IInv
    <2>2. CASE o.op # "verify"
      BY <1>1, <2>2, CodesKept DEF IInv, Open
    <2> QED BY <2>1, <2>2
  <1>4. session' \in [Sessions -> SessionRecords]
        /\ \A s \in Sessions : session'[s] = session[s] \/ session'[s] = Opened(password, NoGrant)
    BY <1>1, <1>2 DEF IInv, AccountInv, SessionRecords, Opened
  <1>5. AccountInv'
    BY <1>1, <1>2, <1>4 DEF IInv, AccountInv, SessionsAreCurrent, Opened
  <1>6. GrantsInv'
    BY <1>1, <1>4, GrantsKept DEF Opened
  <1>7. \A q \in Requests \ {r} : Knows(request[q])'
    <2> SUFFICES ASSUME NEW q \in Requests \ {r} PROVE Knows(request[q])'
      OBVIOUS
    <2>1. Knows(request[q]) /\ request'[q] = request[q] /\ Shape(request[q])
      BY <1>1, EndKeeps DEF IInv, KnowledgeInv, Local, RequestsInv
    <2>2. request[q].op = "exchange" => request[q].session \in Sessions
      BY <2>1 DEF Shape, Idle
    <2> QED BY <1>1, <1>4, <2>1, <2>2 DEF Knows, Opened
  <1> QED BY <1>1, <1>3, <1>5, <1>6, <1>7, EndKnows, EndKeeps DEF IInv

\* The user's row keeps a replacement apart from a login that has found the old
\* password right; the rows of the Sessions keep it apart from their exchanges.
LEMMA ReplaceAlone ==
  ASSUME IInv, NEW r \in Requests, Replace(r), NEW q \in Requests \ {r}
  PROVE  /\ ~(request[q].op = "login" /\ request[q].pc = "open")
         /\ ~(request[q].op = "exchange" /\ request[q].pc \in {"user", "exchange"})
  <1>1. request[r].op # "none" /\ request[r].pc = "replace" /\ Granted(r)
    BY DEF Replace, At
  <1>2. <<"user">> \in held[r]
    BY <1>1 DEF IInv, Local, LocksInv, Holds
  <1>3. ASSUME request[q].op = "login", request[q].pc = "open" PROVE FALSE
    <2>1. <<"user">> \in held[q]
      BY <1>3 DEF IInv, Local, LocksInv, Holds
    <2> QED BY <1>2, <2>1 DEF IInv, Local, LocksInv
  <1>4. ASSUME request[q].op = "exchange", request[q].pc \in {"user", "exchange"} PROVE FALSE
    <2>1. <<"session", request[q].session>> \in held[q]
      BY <1>4 DEF IInv, Local, LocksInv, Holds
    <2>2. request[q].session \in Sessions
      BY <1>4 DEF IInv, Local, RequestsInv, Shape, Idle
    <2>3. <<"session", request[q].session>> \in Wanted(r)
      BY <1>1, <2>2 DEF Wanted
    <2> QED BY <1>1, <2>1, <2>3 DEF Granted, WaitsFor
  <1> QED BY <1>3, <1>4

LEMMA RevokedRecord ==
  ASSUME NEW x \in SessionRecords
  PROVE  Revoked(x) \in SessionRecords /\ Revoked(x).status = "revoked" /\ Revoked(x).grant = x.grant
  <1>1. [x EXCEPT !.status = "revoked"] \in SessionRecords
    BY DEF SessionRecords
  <1>2. \A y \in SessionRecords : [y EXCEPT !.epoch = 0] \in SessionRecords
    BY DEF SessionRecords
  <1>3. Revoked(x) = [[x EXCEPT !.status = "revoked"] EXCEPT !.epoch = 0]
    BY DEF Revoked
  <1>4. Revoked(x) \in SessionRecords
    BY <1>1, <1>2, <1>3
  <1>5. Revoked(x).status = "revoked" /\ Revoked(x).grant = x.grant
    BY DEF Revoked, SessionRecords
  <1> QED BY <1>4, <1>5

LEMMA ReplaceKeeps ==
  ASSUME IInv, NEW r \in Requests, Replace(r)
  PROVE  IInv'
  <1> DEFINE o == request[r]
             kept(s) == o.op = "change" /\ s = o.session
  <1>1. End(r) /\ UNCHANGED <<latest, grant>> /\ Consume(o.code) /\ password' = password + 1
        /\ session' = [s \in Sessions |->
             IF s = o.new THEN Opened(password', NoGrant)
             ELSE IF session[s].status = "none" THEN session[s]
             ELSE IF kept(s) THEN [session[s] EXCEPT !.epoch = password']
             ELSE Revoked(session[s])]
    BY DEF Replace
  <1>2. CodesInv'
    <2>1. o.code \in Codes
      BY <1>1 DEF IInv, Local, RequestsInv, RequestRecords, Consume, Consumable
    <2> QED BY <1>1, <2>1, ConsumeKeeps DEF IInv
  <1>3. password' \in Nat /\ password' > 0
    BY <1>1 DEF IInv, AccountInv
  <1>4. ASSUME NEW s \in Sessions
        PROVE  /\ session'[s] \in SessionRecords
               /\ session'[s].status = "live" => session'[s].epoch = password'
               /\ \/ session'[s].status # "none" => session[s].status # "none"
                                                  /\ session'[s].grant = session[s].grant
                  \/ session'[s].grant = NoGrant
    <2>1. session[s] \in SessionRecords
      BY DEF IInv, AccountInv
    <2>2. CASE s = o.new
      BY <1>1, <1>3, <2>2 DEF Opened, SessionRecords
    <2>3. CASE s # o.new /\ session[s].status = "none"
      BY <1>1, <2>1, <2>3
    <2>4. CASE s # o.new /\ session[s].status # "none" /\ kept(s)
      <3>1. session'[s] = [session[s] EXCEPT !.epoch = password']
        BY <1>1, <2>4
      <3> QED BY <1>3, <2>1, <2>4, <3>1 DEF SessionRecords
    <2>5. CASE s # o.new /\ session[s].status # "none" /\ ~kept(s)
      <3>1. session'[s] = Revoked(session[s])
        BY <1>1, <2>5
      <3> QED BY <2>1, <2>5, <3>1, RevokedRecord
    <2> QED BY <2>2, <2>3, <2>4, <2>5
  <1>5. session' \in [Sessions -> SessionRecords]
    BY <1>1, <1>4
  <1>6. AccountInv'
    BY <1>1, <1>3, <1>4, <1>5 DEF IInv, AccountInv, SessionsAreCurrent
  <1>7. GrantsInv'
    BY <1>1, <1>4, <1>5, GrantsKept
  <1>8. \A q \in Requests \ {r} : Knows(request[q])'
    <2> SUFFICES ASSUME NEW q \in Requests \ {r} PROVE Knows(request[q])'
      OBVIOUS
    <2>1. Knows(request[q]) /\ request'[q] = request[q]
      BY <1>1, EndKeeps DEF IInv, KnowledgeInv
    <2> QED BY <1>1, <1>3, <2>1, ReplaceAlone DEF Knows
  <1> QED BY <1>1, <1>2, <1>6, <1>7, <1>8, EndKnows, EndKeeps DEF IInv

LEMMA RevokeSessionKeeps ==
  ASSUME IInv, NEW s \in Sessions, RevokeSession(s)
  PROVE  IInv'
  <1>1. session[s].status = "live" /\ session' = [session EXCEPT ![s] = Revoked(session[s])]
        /\ UNCHANGED <<password, code, latest, grant, request, held>>
    BY DEF RevokeSession
  <1>2. session' = [session EXCEPT ![s] = session'[s]] /\ session'[s] \in SessionRecords
        /\ session'[s].status = "revoked" /\ session'[s].grant = session[s].grant
    <2>1. session[s] \in SessionRecords
      BY DEF IInv, AccountInv
    <2>2. session'[s] = Revoked(session[s])
      BY <1>1 DEF IInv, AccountInv
    <2> QED BY <1>1, <2>1, <2>2, RevokedRecord DEF IInv, AccountInv
  <1>3. CodesInv' /\ Local'
    BY <1>1, CodesKept DEF IInv, Local, RequestsInv, LocksInv
  <1>4. AccountInv'
    BY <1>1, <1>2 DEF IInv, AccountInv, SessionsAreCurrent
  <1>5. GrantsInv'
    <2>1. session' \in [Sessions -> SessionRecords]
      BY <1>4 DEF AccountInv
    <2> QED BY <1>1, <1>2, <2>1, GrantsKept DEF IInv, AccountInv
  <1>6. ASSUME NEW q \in Requests PROVE Knows(request[q])'
    <2>1. CASE request[q].op = "exchange" /\ request[q].pc \in {"user", "exchange"}
      <3>1. <<"session", request[q].session>> \in held[q]
        BY <2>1 DEF IInv, Local, LocksInv, Holds
      <3>2. request[q].session # s
        BY <3>1 DEF RevokeSession
      <3> QED BY <1>1, <1>2, <3>2 DEF IInv, KnowledgeInv, Knows, AccountInv
    <2>2. CASE ~(request[q].op = "exchange" /\ request[q].pc \in {"user", "exchange"})
      BY <1>1, <2>2 DEF IInv, KnowledgeInv, Knows
    <2> QED BY <2>1, <2>2
  <1>7. KnowledgeInv'
    BY <1>1, <1>6 DEF IInv, KnowledgeInv
  <1> QED BY <1>3, <1>4, <1>5, <1>7 DEF IInv

LEMMA AuthorizeKeeps ==
  ASSUME IInv, NEW r \in Requests, Authorize(r)
  PROVE  IInv'
  <1> DEFINE g == request[r].grant
  <1>1. End(r) /\ UNCHANGED <<password, code, latest, session>>
        /\ request[r].op # "none" /\ request[r].pc = "grant"
        /\ grant' = [grant EXCEPT ![g] = [status |-> "issued", session |-> request[r].session]]
    BY DEF Authorize, At
  <1>2. request[r].op = "authorize"
    BY <1>1, OperationsAre DEF IInv, Local, RequestsInv, Shape, Path, Idle
  <1>3. g \in Grants /\ request[r].session \in Sessions /\ grant[g].status = "none"
    BY <1>2 DEF IInv, Local, RequestsInv, Shape, Idle, KnowledgeInv, Knows
  <1>4. AccountInv'
    BY <1>1, <1>3 DEF IInv, AccountInv, GrantRecords, SessionsAreCurrent
  <1>5. GrantsInv'
    BY <1>1, <1>3 DEF IInv, GrantsInv, AccountInv, Of
  <1>6. ASSUME NEW q \in Requests \ {r} PROVE Knows(request[q])'
    <2>1. Knows(request[q]) /\ request'[q] = request[q] /\ Shape(request[q])
      BY <1>1, EndKeeps DEF IInv, KnowledgeInv, Local, RequestsInv
    <2>2. request[q].op \in {"authorize", "exchange"} => request[q].grant \in Grants \ {g}
      BY <1>2, <1>3, <2>1 DEF IInv, KnowledgeInv, Knows, Shape, Idle
    <2> QED BY <1>1, <2>1, <2>2 DEF Knows, IInv, AccountInv
  <1> QED BY <1>1, <1>4, <1>5, <1>6, EndKnows, EndKeeps, CodesKept DEF IInv

LEMMA ExchangeKeeps ==
  ASSUME IInv, NEW r \in Requests, Exchange(r)
  PROVE  IInv'
  <1> DEFINE o == request[r]
             g == o.grant
             new == Opened(password, g)
  <1>1. End(r) /\ UNCHANGED <<password, code, latest>> /\ o.op # "none" /\ o.pc = "exchange"
    BY DEF Exchange, At
  <1>2. o.op = "exchange" /\ g \in Grants /\ password > 0
    BY <1>1, OperationsAre DEF IInv, Local, RequestsInv, Shape, Path, Idle, KnowledgeInv, Knows
  <1>3. CASE UNCHANGED <<grant, session>>
    BY <1>1, <1>3, QuietEnd, CodesKept DEF IInv, Rest
  <1>4. CASE /\ Unused(g)
             /\ grant' = [grant EXCEPT ![g].status = "used"]
             /\ session' = [session EXCEPT ![o.new] = new]
    <2>1. session' \in [Sessions -> SessionRecords]
          /\ \A s \in Sessions : session'[s] = session[s] \/ (s = o.new /\ session'[s] = new)
      BY <1>2, <1>4 DEF IInv, AccountInv, SessionRecords, Opened
    <2>2. /\ grant' \in [Grants -> GrantRecords]
          /\ grant'[g].status = "used"
          /\ \A h \in Grants : /\ grant'[h].session = grant[h].session
                               /\ h # g => grant'[h].status = grant[h].status
      BY <1>2, <1>4 DEF IInv, AccountInv, GrantRecords
    <2>3. AccountInv'
      BY <1>1, <1>2, <2>1, <2>2 DEF IInv, AccountInv, SessionsAreCurrent, Opened
    <2>4. GrantsInv'
      <3> SUFFICES ASSUME NEW h \in Grants
                   PROVE  /\ grant'[h].status # "none" => grant'[h].session \in Sessions
                          /\ grant'[h].status # "used" => Of(h)' = {}
                          /\ \A s, t \in Of(h)' : s = t
        BY DEF GrantsInv
      <3>1. CASE h = g
        <4>1. Of(g) = {} /\ grant[g].status = "issued"
          BY <1>2, <1>4 DEF IInv, GrantsInv, Unused
        <4>2. ASSUME NEW s \in Of(h)' PROVE s = o.new
          <5>1. s \in Sessions /\ session'[s].status # "none" /\ session'[s].grant = h
            BY <4>2 DEF Of
          <5>2. ~(session[s].status # "none" /\ session[s].grant = h)
            BY <3>1, <4>1, <5>1 DEF Of
          <5> QED BY <2>1, <5>1, <5>2
        <4>3. grant[h].session \in Sessions /\ grant'[h].session = grant[h].session
              /\ grant'[h].status = "used"
          BY <1>2, <2>2, <3>1, <4>1 DEF IInv, GrantsInv
        <4>4. \A s, t \in Of(h)' : s = t
          BY <4>2
        <4> QED BY <4>3, <4>4
      <3>2. CASE h # g
        <4>1. Of(h)' \subseteq Of(h)
          BY <2>1, <3>2 DEF Of, Opened
        <4> QED BY <2>2, <3>2, <4>1 DEF IInv, GrantsInv
      <3> QED BY <3>1, <3>2
    <2>5. ASSUME NEW q \in Requests \ {r} PROVE Knows(request[q])'
      <3>1. Knows(request[q]) /\ request'[q] = request[q] /\ Shape(request[q])
        BY <1>1, EndKeeps DEF IInv, KnowledgeInv, Local, RequestsInv
      <3>2. /\ request[q].op \in {"authorize", "exchange"} => request[q].grant \in Grants
            /\ request[q].op = "exchange" => request[q].session \in Sessions
        BY <3>1 DEF Shape, Idle
      <3>3. grant[g].status = "issued"
        BY <1>4 DEF Unused
      <3> QED BY <1>1, <2>1, <2>2, <3>1, <3>2, <3>3 DEF Knows, Opened
    <2> QED BY <1>1, <2>3, <2>4, <2>5, EndKnows, EndKeeps, CodesKept DEF IInv
  <1> QED BY <1>3, <1>4 DEF Exchange

-----------------------------------------------------------------------------
LEMMA StepKeeps == IInv /\ [Next]_vars => IInv'
  <1> SUFFICES ASSUME IInv, [Next]_vars PROVE IInv'
    OBVIOUS
  <1>1. CASE \E r \in Requests : Begin(r)
    <2>1. PICK r \in Requests : Begin(r)
      BY <1>1
    <2>2. CodesInv' /\ AccountInv' /\ GrantsInv'
      BY <2>1, CodesKept, TablesKept DEF IInv, Begin, tables
    <2> QED BY <2>1, <2>2, BeginKeeps DEF IInv
  <1>2. CASE \E r \in Requests : Fails(r) \/ Step(r)
    BY <1>2, FailsKeeps, LockKeeps, LockCodeKeeps, IdentityKeeps, RegisterKeeps, OpenKeeps,
       ConfirmKeeps, ReplaceKeeps, AuthorizeKeeps, ExchangeKeeps DEF Step
  <1>3. CASE UNCHANGED vars
    <2>1. CodesInv' /\ AccountInv' /\ GrantsInv'
      BY <1>3, CodesKept, TablesKept DEF IInv, vars
    <2> QED BY <1>3, <2>1 DEF vars, IInv, Local, RequestsInv, LocksInv, KnowledgeInv, Knows
  <1> QED BY <1>1, <1>2, <1>3, RequestKeeps, RevokeSessionKeeps DEF Next

LEMMA Invariance == Spec => []IInv
  BY InitInv, StepKeeps, PTL DEF Spec

\* The state keeps its types: a code is looked up by its purpose, and a request
\* is on the path that its operation takes through the handlers.
THEOREM AccountTypes == Spec => []TypeOK
  <1>1. IInv => TypeOK
    BY DEF IInv, TypeOK, CodesInv, Local, RequestsInv, LocksInv, AccountInv, CodeRecords,
           SessionRecords, GrantRecords, RequestRecords
  <1> QED BY <1>1, Invariance, PTL

\* After RecoverPassword and ChangePassword no Session is live that was opened
\* under an older password, however logins and exchanges ran beside them.
THEOREM CurrentSessions == Spec => []SessionsAreCurrent
  <1>1. IInv => SessionsAreCurrent
    BY DEF IInv, AccountInv
  <1> QED BY <1>1, Invariance, PTL

\* ConsumeVerificationCode takes a code at most once, and never one that
\* MaxGuesses wrong guesses have revoked.
THEOREM CodesDoOneThing == Spec => []CodeDoesOneThing
  <1>1. IInv => CodeDoesOneThing
    BY DEF IInv, CodesInv
  <1> QED BY <1>1, Invariance, PTL

\* An authorization code becomes at most one Session, even when the Redis lock
\* on it has run out under the request that exchanges it.
ExchangedOnce ==
  \A g \in Grants : Cardinality({s \in Sessions : session[s].status # "none" /\ session[s].grant = g}) <= 1

\* CreateExchangeSession opens at most one Session for an authorization code.
THEOREM OneExchange == Spec => []ExchangedOnce
  <1>1. ASSUME IInv PROVE ExchangedOnce
    <2> SUFFICES ASSUME NEW g \in Grants PROVE Cardinality(Of(g)) <= 1
      BY DEF ExchangedOnce, Of
    <2>1. \A s, t \in Of(g) : s = t
      BY <1>1 DEF IInv, GrantsInv
    <2>2. CASE Of(g) = {}
      BY <2>2, FS_EmptySet
    <2>3. CASE Of(g) # {}
      <3>1. PICK s : s \in Of(g)
        BY <2>3
      <3>2. Of(g) = {s}
        BY <2>1, <3>1
      <3> QED BY <3>2, FS_Singleton
    <2> QED BY <2>2, <2>3
  <1> QED BY <1>1, Invariance, PTL

-----------------------------------------------------------------------------
(* Waiting.                                                                *)

LEMMA IdleWantsNothing ==
  ASSUME IInv, NEW r \in Requests, request[r].op = "none"
  PROVE  Wanted(r) = {}
  <1>1. request[r].pc = "start"
    BY OperationsAre DEF IInv, Local, RequestsInv, Shape, Idle
  <1> QED BY <1>1 DEF Wanted

LEMMA FirstHoldsNothing ==
  ASSUME IInv, NEW r \in Requests,
         \/ request[r].op \in {"login", "recover", "change"} /\ request[r].pc = "scope"
         \/ request[r].op \in {"register", "verify", "confirm"} /\ request[r].pc = "code"
  PROVE  held[r] = {}
  <1>1. \A x : ~Holds(request[r], x)
    BY DEF Holds, PastCode
  <1> QED BY <1>1 DEF IInv, Local, LocksInv

\* The two that hold the credential scope would have to be one.
LEMMA ScopeKeepsApart ==
  ASSUME IInv, NEW r \in Requests, NEW q \in Requests, r # q,
         request[r].op \in {"login", "recover", "change"},
         request[q].op \in {"login", "recover", "change"}
  PROVE  held[r] = {} \/ held[q] = {}
  <1>1. CASE request[r].pc = "scope" \/ request[q].pc = "scope"
    BY <1>1, FirstHoldsNothing
  <1>2. CASE request[r].pc # "scope" /\ request[q].pc # "scope"
    <2>1. <<"scope">> \in held[r] /\ <<"scope">> \in held[q]
      BY <1>2 DEF IInv, Local, LocksInv, Holds
    <2> QED BY <2>1 DEF IInv, Local, LocksInv
  <1> QED BY <1>1, <1>2

\* A request of a verification code waits for nothing, once it has its code, but for
\* the user's row, which Verify takes last; and who waits for that code holds nothing.
LEMMA CodeRequestWaits ==
  ASSUME IInv, NEW r \in Requests, NEW q \in Requests,
         request[r].op \in {"register", "verify", "confirm"},
         request[q].op \notin {"authorize", "exchange"},
         Wanted(r) # {}, held[q] # {}, WaitsFor(q, r)
  PROVE  FALSE
  <1> DEFINE o == request[r]
             n == request[q]
  <1>1. o \in RequestRecords /\ n \in RequestRecords /\ Shape(o) /\ Shape(n)
    BY DEF IInv, Local, RequestsInv
  <1>2. held[r] # {} /\ Wanted(r) # {}
    BY DEF WaitsFor
  <1>3. o.op = "verify" /\ o.pc = "user"
    <2>1. o.pc # "code"
      BY <1>2, FirstHoldsNothing
    <2>2. o.pc \in Path[o.op]
      BY <1>1 DEF Shape, Idle
    <2>3. o.pc \notin {"identity", "register", "open", "consume"}
      BY <1>2 DEF Wanted
    <2> QED BY <2>1, <2>2, <2>3 DEF Path
  <1>4. \A x : x \in held[r] => x = <<"code", o.code>>
    <2>1. \A x : Holds(o, x) => x = <<"code", o.code>>
      BY <1>3 DEF Holds
    <2> QED BY <2>1 DEF IInv, Local, LocksInv
  <1>5. o.code # NoCode /\ PurposeOf(o.code) = "login"
    BY <1>1, <1>3 DEF Shape, PastCode, Asks, Idle
  <1>6. <<"code", o.code>> \in Wanted(q)
    BY <1>4 DEF WaitsFor
  <1>7. n.op # "none" /\ n.pc = "code" /\ n.code = o.code
    <2>1. n.op # "none"
      BY <1>6, IdleWantsNothing
    <2>2. n.pc \in {"scope", "user", "code", "session", "replace", "row"}
      BY <1>6 DEF Wanted
    <2>3. CASE n.pc \in {"scope", "user"}
      BY <1>6, <2>1, <2>3, RowsDiffer DEF Wanted
    <2>4. CASE n.pc = "code"
      BY <1>6, <2>1, <2>4, RowsDiffer DEF Wanted
    <2>5. CASE n.pc \in {"session", "replace", "row"}
      BY <1>6, <2>1, <2>5, RowsDiffer DEF Wanted
    <2> QED BY <2>1, <2>2, <2>3, <2>4, <2>5
  <1>8. Asks(n.op) = "login"
    BY <1>1, <1>5, <1>7 DEF Shape, Idle
  <1>9. n.op = "verify"
    BY <1>8 DEF Asks
  <1>10. held[q] = {}
    BY <1>7, <1>9, FirstHoldsNothing
  <1> QED BY <1>10

\* Register, PasswordLogin, Verify, RecoverPassword and ChangePassword never lock
\* each other out, however many they are: lockCredentialScope comes first, and a
\* mailed code before the user only where its purpose is one that nobody takes
\* after the user.  Of three in a row that wait, the last two would hold the scope.
THEOREM LocksInOrder == Spec => []OneLockOrder
  <1>1. ASSUME IInv PROVE OneLockOrder
    <2> SUFFICES ASSUME NEW R \in SUBSET {r \in Requests : request[r].op \notin {"authorize", "exchange"}},
                        R # {}, \A r \in R : \E q \in R : WaitsFor(r, q)
                 PROVE  FALSE
      BY DEF OneLockOrder
    <2> DEFINE scoped == {"login", "recover", "change"}
               coded == {"register", "verify", "confirm"}
    <2>1. PICK r \in R, q \in R, p \in R, o \in R : WaitsFor(r, q) /\ WaitsFor(q, p) /\ WaitsFor(p, o)
      <3>1. PICK r \in R : TRUE
        OBVIOUS
      <3>2. PICK q \in R : WaitsFor(r, q)
        OBVIOUS
      <3>3. PICK p \in R : WaitsFor(q, p)
        OBVIOUS
      <3>4. PICK o \in R : WaitsFor(p, o)
        OBVIOUS
      <3> QED BY <3>2, <3>3, <3>4
    <2>2. held[q] # {} /\ held[p] # {} /\ held[o] # {} /\ p # o
      BY <2>1 DEF WaitsFor
    <2>3. \A n \in R : Wanted(n) # {} /\ request[n].op \in scoped \cup coded
      <3> SUFFICES ASSUME NEW n \in R
                   PROVE  Wanted(n) # {} /\ request[n].op \in scoped \cup coded
        OBVIOUS
      <3>1. Wanted(n) # {}
        BY DEF WaitsFor
      <3>2. request[n].op \in Operations \cup {"none"} /\ request[n].op \notin {"authorize", "exchange"}
        BY <1>1 DEF IInv, Local, RequestsInv, RequestRecords
      <3>3. request[n].op # "none"
        BY <1>1, <3>1, IdleWantsNothing
      <3> QED BY <3>1, <3>2, <3>3, OperationsAre
    <2>4. request[p].op \notin coded
      BY <1>1, <2>1, <2>2, <2>3, CodeRequestWaits
    <2>5. request[o].op \notin coded
      BY <1>1, <2>1, <2>2, <2>3, CodeRequestWaits
    <2> QED BY <1>1, <2>2, <2>3, <2>4, <2>5, ScopeKeepsApart
  <1> QED BY <1>1, Invariance, PTL

\* No Session is handed on once it is revoked, by its user or by an operator.
RevokedIsNotExchanged ==
  [][\A s \in Sessions :
       session[s].status = "none" /\ session'[s].status = "live" /\ session'[s].grant # NoGrant
         => session[grant[session'[s].grant].session].status = "live"]_vars

\* Exchange hands a Session on only while that Session is live: it locks the row,
\* and neither a password change nor an operator revokes it before the commit.
THEOREM RevokedStaysOut == Spec => RevokedIsNotExchanged
  <1> DEFINE Good ==
        \A s \in Sessions :
          session[s].status = "none" /\ session'[s].status = "live" /\ session'[s].grant # NoGrant
            => session[grant[session'[s].grant].session].status = "live"
  <1>1. ASSUME IInv, [Next]_vars PROVE Good
    <2> SUFFICES ASSUME NEW s \in Sessions, session[s].status = "none",
                        session'[s].status = "live", session'[s].grant # NoGrant
                 PROVE  session[grant[session'[s].grant].session].status = "live"
      OBVIOUS
    <2> USE <1>1
    <2>1. session' # session
      OBVIOUS
    <2>2. session \in [Sessions -> SessionRecords]
      BY DEF IInv, AccountInv
    <2>3. ASSUME NEW r \in Requests, Exchange(r)
          PROVE  session[grant[session'[s].grant].session].status = "live"
      <3> DEFINE o == request[r]
      <3>1. o.op = "exchange" /\ o.pc = "exchange"
        BY <2>3, OperationsAre DEF Exchange, At, IInv, Local, RequestsInv, Shape, Path, Idle
      <3>2. session' = [session EXCEPT ![o.new] = Opened(password, o.grant)]
        BY <2>1, <2>3 DEF Exchange
      <3>3. session'[s].grant = o.grant
        BY <2>2, <3>2 DEF Opened
      <3> QED BY <3>1, <3>3 DEF IInv, KnowledgeInv, Knows
    <2>4. ASSUME NEW r \in Requests, Register(r) \/ Open(r) PROVE FALSE
      <3>1. PICK n, p : session' = [session EXCEPT ![n] = Opened(p, NoGrant)]
        BY <2>1, <2>4 DEF Register, Open
      <3> QED BY <2>2, <3>1 DEF Opened
    <2>5. ASSUME NEW r \in Requests, Replace(r) PROVE FALSE
      <3>1. session'[s] = Opened(password', NoGrant) \/ session'[s] = session[s]
        BY <2>5 DEF Replace
      <3> QED BY <3>1 DEF Opened
    <2>6. ASSUME NEW x \in Sessions, RevokeSession(x) PROVE FALSE
      <3>1. session[x].status = "live" /\ session' = [session EXCEPT ![x] = Revoked(session[x])]
        BY <2>6 DEF RevokeSession
      <3> QED BY <2>2, <3>1
    <2>7. ASSUME NEW r \in Requests,
                 Begin(r) \/ Fails(r) \/ Lock(r) \/ LockCode(r) \/ Identity(r) \/ Confirm(r)
                 \/ Authorize(r)
          PROVE  FALSE
      BY <2>1, <2>7 DEF Begin, Fails, Lock, LockCode, Identity, Confirm, Authorize, tables
    <2>8. ASSUME NEW c \in Codes, Request(c) PROVE FALSE
      BY <2>1, <2>8 DEF Request
    <2>9. ~UNCHANGED vars
      BY <2>1 DEF vars
    <2> QED BY <2>3, <2>4, <2>5, <2>6, <2>7, <2>8, <2>9 DEF Next, Step
  <1>2. IInv /\ [Next]_vars => [Good]_vars
    BY <1>1
  <1> QED BY <1>2, Invariance, PTL DEF Spec, RevokedIsNotExchanged

-----------------------------------------------------------------------------
(* One moment for each operation.                                          *)

\* The Session that a request counts on, and so keeps locked.
Trusts(q) ==
  \/ q.op = "change" /\ q.pc \in {"code", "replace"}
  \/ q.op = "authorize" /\ q.pc \in {"user", "grant"}
  \/ q.op = "exchange" /\ q.pc \in {"user", "exchange"}

Moment(q) ==
  /\ Trusts(q) => session[q.session].status = "live"
  /\ q.op \in {"recover", "change"} /\ q.pc \notin {"scope", "user"} => password > 0
  /\ q.op \in Opening => q.new \in Sessions /\ session[q.new].status = "none"
  /\ q.op \notin Opening => q.new = NoSession

\* Nobody opens the Session of another, and what a request needs is true until it commits.
MomentInv ==
  /\ \A r \in Requests : Moment(request[r])
  /\ \A r, q \in Requests : r # q /\ request[r].new # NoSession => request[r].new # request[q].new

LEMMA TrustedIsHeld ==
  ASSUME IInv, NEW q \in Requests, Trusts(request[q])
  PROVE  request[q].session \in Sessions /\ <<"session", request[q].session>> \in held[q]
  <1>1. Shape(request[q]) /\ \A x : x \in held[q] <=> Holds(request[q], x)
    BY DEF IInv, Local, RequestsInv, LocksInv
  <1>2. request[q].session \in Sessions
    BY <1>1 DEF Trusts, Shape, Idle
  <1>3. Holds(request[q], <<"session", request[q].session>>)
    BY DEF Trusts, Holds
  <1> QED BY <1>1, <1>2, <1>3

LEMMA IdleMoment == Moment(Idle)' /\ Idle.new = NoSession
  BY DEF Moment, Trusts, Idle, Opening

\* What a step of another must leave alone.
LEMMA MomentStays ==
  ASSUME NEW q \in Requests, Moment(request[q]), request'[q] = request[q],
         password > 0 => password' > 0,
         request[q].op \in Opening => session'[request[q].new].status = "none",
         Trusts(request[q]) => session'[request[q].session].status = "live"
  PROVE  Moment(request[q])'
  BY DEF Moment

LEMMA EndMoment ==
  ASSUME IInv, MomentInv, NEW r \in Requests, End(r),
         \A q \in Requests \ {r} : Moment(request[q])'
  PROVE  MomentInv'
  <1>1. request'[r] = Idle /\ \A q \in Requests \ {r} : request'[q] = request[q]
    BY EndKeeps DEF IInv
  <1>2. Moment(request[r])'
    BY <1>1, IdleMoment DEF Moment
  <1>3. \A p, q \in Requests : p # q /\ request'[p].new # NoSession => request'[p].new # request'[q].new
    BY <1>1, IdleMoment DEF MomentInv
  <1> QED BY <1>1, <1>2, <1>3 DEF MomentInv

LEMMA QuietEndMoment ==
  ASSUME IInv, MomentInv, NEW r \in Requests, End(r), UNCHANGED <<password, session>>
  PROVE  MomentInv'
  <1>1. \A q \in Requests \ {r} : request'[q] = request[q]
    BY EndKeeps DEF IInv
  <1>2. \A q \in Requests \ {r} : Moment(request[q])'
    BY <1>1 DEF MomentInv, Moment
  <1> QED BY <1>2, EndMoment

LEMMA ProceedMoment ==
  ASSUME IInv, MomentInv, NEW r \in Requests, request[r].op # "none",
         request[r].pc \in {"scope", "user", "session", "row", "code", "identity"},
         Proceed(r),
         request[r].pc \in {"scope", "user", "session", "row"} => Stands(r),
         UNCHANGED <<password, session>>
  PROVE  MomentInv'
  <1> DEFINE o == request[r]
             next == After[o.op][o.pc]
  <1>1. o \in RequestRecords /\ o.op \in Operations /\ o.pc \in Path[o.op] /\ Moment(o)
    BY DEF IInv, Local, RequestsInv, Shape, Idle, MomentInv
  <1>2. request' = [request EXCEPT ![r] = Goto(o, next)]
    BY DEF Proceed
  <1>3. /\ \A q \in Requests \ {r} : request'[q] = request[q]
        /\ request'[r].op = o.op /\ request'[r].pc = next /\ request'[r].session = o.session
        /\ request'[r].new = o.new
    BY <1>1, <1>2 DEF IInv, Local, RequestsInv, Goto, RequestRecords
  <1>4. /\ o.op = "change" /\ next = "code" => o.pc = "session"
        /\ o.op = "change" /\ next = "replace" => o.pc = "code"
        /\ o.op = "authorize" /\ next = "user" => o.pc = "session"
        /\ o.op = "authorize" /\ next = "grant" => o.pc = "user"
        /\ o.op = "exchange" /\ next = "user" => o.pc = "session"
        /\ o.op = "exchange" /\ next = "exchange" => o.pc = "user"
        /\ o.op \in {"recover", "change"} /\ next \notin {"scope", "user"} => o.pc # "scope"
    BY <1>1, OperationsAre DEF Path, After
  <1>5. o.pc = "session" => session[o.session].status = "live"
    BY DEF Stands
  <1>6. o.pc = "user" => password > 0
    BY DEF Stands
  <1>7. Moment(request[r])'
    <2>1. Trusts(request'[r]) => session[o.session].status = "live"
      BY <1>1, <1>3, <1>4, <1>5 DEF Trusts, Moment
    <2>2. o.op \in {"recover", "change"} /\ next \notin {"scope", "user"} => password > 0
      BY <1>1, <1>4, <1>6 DEF Moment
    <2> QED BY <1>1, <1>3, <2>1, <2>2 DEF Moment
  <1>8. \A q \in Requests \ {r} : Moment(request[q])'
    BY <1>3 DEF MomentInv, Moment
  <1> QED BY <1>3, <1>7, <1>8 DEF MomentInv

\* One Session opens, that of the request.
LEMMA OpenMoment ==
  ASSUME IInv, MomentInv, NEW r \in Requests, End(r), request[r].op \in Opening,
         NEW x \in SessionRecords, session' = [session EXCEPT ![request[r].new] = x],
         password > 0 => password' > 0
  PROVE  MomentInv'
  <1>1. request[r].new \in Sessions /\ session[request[r].new].status = "none" /\ request[r].new # NoSession
    BY DEF MomentInv, Moment, Sessions, NoSession
  <1>2. session \in [Sessions -> SessionRecords]
    BY DEF IInv, AccountInv
  <1>3. ASSUME NEW q \in Requests \ {r} PROVE Moment(request[q])'
    <2>1. request'[q] = request[q] /\ Moment(request[q])
      BY EndKeeps DEF IInv, MomentInv
    <2>2. request[q].op \in Opening => session'[request[q].new].status = "none"
      BY <1>1, <1>2, <2>1 DEF MomentInv, Moment
    <2>3. Trusts(request[q]) => session'[request[q].session].status = "live"
      BY <1>1, <1>2, <2>1, TrustedIsHeld DEF Moment
    <2> QED BY <2>1, <2>2, <2>3, MomentStays
  <1> QED BY <1>3, EndMoment

LEMMA OpeningOps == Opening \subseteq Operations /\ {"change", "authorize", "confirm"} \cap Opening = {}
  BY OperationsAre DEF Opening

\* Nobody whose Session a replacement ends counts on it: its row would be locked.
LEMMA ReplaceMoment ==
  ASSUME IInv, MomentInv, NEW r \in Requests, Replace(r)
  PROVE  MomentInv'
  <1> DEFINE o == request[r]
  <1>1. End(r) /\ Granted(r) /\ o.pc = "replace" /\ o.op # "none" /\ password' = password + 1
    BY DEF Replace, At
  <1>2. ASSUME NEW q \in Requests \ {r} PROVE Moment(request[q])'
    <2>1. request'[q] = request[q] /\ Moment(request[q])
      BY <1>1, EndKeeps DEF IInv, MomentInv
    <2>2. ~Trusts(request[q])
      <3>1. \A s \in Sessions : <<"session", s>> \notin held[q]
        BY <1>1 DEF Granted, WaitsFor, Wanted
      <3> QED BY <3>1, TrustedIsHeld
    <2>3. request[q].op \in Opening => session'[request[q].new].status = "none"
      <3> SUFFICES ASSUME request[q].op \in Opening PROVE session'[request[q].new].status = "none"
        OBVIOUS
      <3>1. request[q].new \in Sessions /\ session[request[q].new].status = "none" /\ request[q].new # NoSession
        BY <2>1 DEF Moment, Sessions, NoSession
      <3>2. request[q].new # o.new
        BY <3>1 DEF MomentInv
      <3> QED BY <3>1, <3>2 DEF Replace
    <2>4. password > 0 => password' > 0
      BY <1>1 DEF IInv, AccountInv
    <2> QED BY <2>1, <2>2, <2>3, <2>4, MomentStays
  <1> QED BY <1>1, <1>2, EndMoment

LEMMA RevokeSessionMoment ==
  ASSUME IInv, MomentInv, NEW s \in Sessions, RevokeSession(s)
  PROVE  MomentInv'
  <1>1. /\ session[s].status = "live" /\ session' = [session EXCEPT ![s] = Revoked(@)]
        /\ UNCHANGED <<password, request>>
        /\ \A q \in Requests : <<"session", s>> \notin held[q]
    BY DEF RevokeSession
  <1>2. \A t \in Sessions \ {s} : session'[t] = session[t]
    BY <1>1 DEF IInv, AccountInv
  <1>3. ASSUME NEW q \in Requests PROVE Moment(request[q])'
    <2>1. Moment(request[q]) /\ request'[q] = request[q]
      BY <1>1 DEF MomentInv
    <2>2. Trusts(request[q]) => session'[request[q].session].status = "live"
      BY <1>1, <1>2, <2>1, TrustedIsHeld DEF Moment
    <2>3. request[q].op \in Opening => session'[request[q].new].status = "none"
      BY <1>1, <1>2, <2>1 DEF Moment
    <2> QED BY <1>1, <2>1, <2>2, <2>3, MomentStays
  <1> QED BY <1>1, <1>3 DEF MomentInv

\* A request that opens a Session takes one that nobody has.
LEMMA BeginMoment ==
  ASSUME IInv, MomentInv, NEW r \in Requests, Begin(r)
  PROVE  MomentInv'
  <1>1. PICK op \in Operations, m \in Sessions \cup {NoSession} :
          /\ op \in Opening <=> m # NoSession
          /\ m # NoSession => m \in Fresh
          /\ request'[r].op = op /\ request'[r].new = m /\ request'[r].pc = After[op].start
          /\ \A q \in Requests \ {r} : request'[q] = request[q]
    <2>1. PICK op \in Operations, t \in 0..password, s \in Sessions \cup {NoSession},
               m \in Sessions \cup {NoSession}, g \in Grants \cup {NoGrant} :
         /\ op \in {"login", "change"} <=> t # 0
         /\ op \in {"change", "authorize"} <=> s # NoSession
         /\ s # NoSession => session[s].status # "none" /\ session[s].grant = NoGrant
         /\ op \in Opening <=> m # NoSession
         /\ m # NoSession => m \in Fresh /\ \A x \in Fresh : m <= x
         /\ op \in {"authorize", "exchange"} <=> g # NoGrant
         /\ op = "authorize" => grant[g].status = "none" /\ \A q \in Requests : request[q].grant # g
         /\ op = "exchange" => grant[g].status # "none"
         /\ op \in {"recover", "change"} => password < MaxPasswords
         /\ request' = [request EXCEPT ![r] =
              Goto([Idle EXCEPT !.op = op, !.typed = t, !.new = m, !.grant = g,
                                !.session = IF op = "exchange" THEN grant[g].session ELSE s],
                   After[op].start)]
      BY Zenon DEF Begin
    <2> DEFINE o == [Idle EXCEPT !.op = op, !.typed = t, !.new = m, !.grant = g,
                                 !.session = IF op = "exchange" THEN grant[g].session ELSE s]
    <2>2. request'[r] = Goto(o, After[op].start) /\ \A q \in Requests \ {r} : request'[q] = request[q]
      BY <2>1 DEF IInv, Local, RequestsInv
    <2>3. request'[r].op = op /\ request'[r].new = m /\ request'[r].pc = After[op].start
      BY <2>2 DEF Goto, Idle
    <2> QED BY <2>1, <2>2, <2>3
  <1>2. UNCHANGED <<password, session>>
    BY DEF Begin, tables
  <1>3. ~Trusts(request'[r]) /\ (op \in {"recover", "change"} => After[op].start = "scope")
    BY <1>1, OperationsAre DEF After, Trusts
  <1>4. m # NoSession => m \in Sessions /\ session[m].status = "none"
                         /\ \A q \in Requests : request[q].new # m
    BY <1>1 DEF Fresh, Reserved
  <1>5. Moment(request[r])'
    BY <1>1, <1>2, <1>3, <1>4 DEF Moment
  <1>6. \A q \in Requests \ {r} : Moment(request[q])'
    BY <1>1, <1>2 DEF MomentInv, Moment
  <1> QED BY <1>1, <1>4, <1>5, <1>6 DEF MomentInv

LEMMA OpensOf ==
  ASSUME IInv, NEW r \in Requests
  PROVE  /\ At(r, "register") => request[r].op = "register"
         /\ At(r, "open") => request[r].op \in {"login", "verify"}
         /\ At(r, "consume") => request[r].op = "confirm"
         /\ At(r, "replace") => request[r].op \in {"recover", "change"}
         /\ At(r, "grant") => request[r].op = "authorize"
         /\ At(r, "exchange") => request[r].op = "exchange"
  <1>1. Shape(request[r])
    BY DEF IInv, Local, RequestsInv
  <1> QED BY <1>1, OperationsAre DEF At, Shape, Path, Idle

LEMMA OpenedRecord ==
  ASSUME NEW p \in Nat, NEW g \in Grants \cup {NoGrant}
  PROVE  Opened(p, g) \in SessionRecords
  BY DEF Opened, SessionRecords

LEMMA MomentStep == IInv /\ MomentInv /\ [Next]_vars => MomentInv'
  <1> SUFFICES ASSUME IInv, MomentInv, [Next]_vars PROVE MomentInv'
    OBVIOUS
  <1>1. ASSUME NEW r \in Requests, Begin(r) PROVE MomentInv'
    BY <1>1, BeginMoment
  <1>2. ASSUME NEW r \in Requests, Fails(r) \/ Confirm(r) \/ Authorize(r) PROVE MomentInv'
    BY <1>2, QuietEndMoment DEF Fails, Confirm, Authorize, tables
  <1>3. ASSUME NEW r \in Requests, Lock(r) \/ LockCode(r) \/ Identity(r) PROVE MomentInv'
    <2>1. UNCHANGED <<password, session>> /\ (End(r) \/ Proceed(r)) /\ request[r].op # "none"
          /\ request[r].pc \in {"scope", "user", "session", "row", "code", "identity"}
          /\ (Proceed(r) /\ ~End(r) /\ request[r].pc \in {"scope", "user", "session", "row"} => Stands(r))
      BY <1>3 DEF Lock, LockCode, Identity, At, tables
    <2> QED BY <2>1, QuietEndMoment, ProceedMoment
  <1>4. ASSUME NEW r \in Requests, Register(r) PROVE MomentInv'
    <2>1. End(r) /\ request[r].op \in Opening
      BY <1>4, OpensOf DEF Register, Opening
    <2>2. CASE UNCHANGED <<password, session>>
      BY <2>1, <2>2, QuietEndMoment
    <2>3. CASE password' = 1 /\ session' = [session EXCEPT ![request[r].new] = Opened(1, NoGrant)]
      <3>1. Opened(1, NoGrant) \in SessionRecords /\ (password > 0 => password' > 0)
        BY <2>3, OpenedRecord
      <3> QED BY <2>1, <2>3, <3>1, OpenMoment
    <2> QED BY <1>4, <2>2, <2>3 DEF Register
  <1>5. ASSUME NEW r \in Requests, Open(r) PROVE MomentInv'
    <2> DEFINE p == IF request[r].op = "login" THEN request[r].typed ELSE password
    <2>1. End(r) /\ request[r].op \in Opening /\ UNCHANGED password
          /\ session' = [session EXCEPT ![request[r].new] = Opened(p, NoGrant)]
      BY <1>5, OpensOf DEF Open, Opening
    <2>2. p \in Nat
      BY DEF IInv, Local, RequestsInv, RequestRecords, AccountInv
    <2> QED BY <2>1, <2>2, OpenMoment, OpenedRecord
  <1>6. ASSUME NEW r \in Requests, Exchange(r) PROVE MomentInv'
    <2>1. End(r) /\ request[r].op \in Opening /\ UNCHANGED password
      BY <1>6, OpensOf DEF Exchange, Opening
    <2>2. CASE UNCHANGED session
      BY <2>1, <2>2, QuietEndMoment
    <2>3. CASE session' = [session EXCEPT ![request[r].new] = Opened(password, request[r].grant)]
      <3>1. password \in Nat /\ request[r].grant \in Grants \cup {NoGrant}
        BY DEF IInv, Local, RequestsInv, RequestRecords, AccountInv
      <3> QED BY <2>1, <2>3, <3>1, OpenMoment, OpenedRecord
    <2> QED BY <1>6, <2>2, <2>3 DEF Exchange
  <1>7. ASSUME NEW c \in Codes, Request(c) PROVE MomentInv'
    BY <1>7 DEF Request, MomentInv, Moment
  <1>8. CASE UNCHANGED vars
    BY <1>8 DEF vars, MomentInv, Moment
  <1> QED BY <1>1, <1>2, <1>3, <1>4, <1>5, <1>6, <1>7, <1>8, ReplaceMoment, RevokeSessionMoment DEF Next, Step

LEMMA AlwaysMoment == Spec => []MomentInv
  <1>1. Init => MomentInv
    BY DEF Init, MomentInv, Moment, Trusts, Idle, Opening
  <1> QED BY <1>1, Invariance, MomentStep, PTL DEF Spec

-----------------------------------------------------------------------------
(* Operations that act atomically.                                         *)

LEMMA ConsumeSpends ==
  ASSUME IInv, NEW c, Consume(c)
  PROVE  c \in Codes => c \notin Spent /\ Spent' = Spent \cup {c}
  BY DEF IInv, CodesInv, CodeRecords, Consume, Consumable, Spent

LEMMA NothingSpent ==
  ASSUME \A c \in Codes : code'[c].uses = code[c].uses
  PROVE  Spent' = Spent
  BY DEF Spent

\* The code that a request has locked is one that was mailed for its purpose.
LEMMA CodeOfPurpose ==
  ASSUME IInv, NEW r \in Requests, request[r].op # "none", PastCode(request[r])
  PROVE  /\ request[r].code \in Codes
         /\ request[r].op = "register" => request[r].code \in RegisterCodes
         /\ request[r].op = "verify" => request[r].code \in LoginCodes
         /\ request[r].op \in {"confirm", "recover", "change"} => request[r].code \in SecurityCodes
  <1>1. request[r].code \in Codes /\ PurposeOf(request[r].code) = Asks(request[r].op)
    BY DEF IInv, Local, RequestsInv, Shape, Idle
  <1> QED BY <1>1 DEF PurposeOf, Asks, Codes

\* The Session that a request is about to open is there for it alone.
LEMMA NewIsFree ==
  ASSUME MomentInv, NEW r \in Requests, request[r].op \in Opening
  PROVE  request[r].new \in Sessions /\ session[request[r].new].status = "none"
  BY DEF MomentInv, Moment

LEMMA RegisterActs ==
  ASSUME IInv, MomentInv, NEW r \in Requests, Register(r)
  PROVE  Promise!Next \/ UNCHANGED <<password, Spent, session, grant>>
  <1> DEFINE o == request[r]
  <1>1. o.op = "register" /\ o.pc = "register" /\ o.op \in Opening /\ UNCHANGED grant
    BY OpensOf DEF Register, At, Opening
  <1>2. CASE UNCHANGED <<password, code, session>>
    BY <1>1, <1>2, NothingSpent
  <1>3. CASE /\ password = 0 /\ Consume(o.code) /\ password' = 1
             /\ session' = [session EXCEPT ![o.new] = Opened(1, NoGrant)]
    <2>1. o.code \in RegisterCodes /\ o.code \in Codes
      BY <1>1, CodeOfPurpose DEF PastCode
    <2>2. o.code \notin Spent /\ Spent' = Spent \cup {o.code}
      BY <1>3, <2>1, ConsumeSpends
    <2>3. o.new \in Sessions /\ session[o.new].status = "none"
      BY <1>1, NewIsFree
    <2>4. Promise!Register(o.code, o.new)
      BY <1>1, <1>3, <2>2, <2>3 DEF Promise!Register, Promise!Spend, Promise!Opens, Opened
    <2> QED BY <2>1, <2>3, <2>4 DEF Promise!Next
  <1> QED BY <1>2, <1>3 DEF Register

LEMMA OpenActs ==
  ASSUME IInv, MomentInv, NEW r \in Requests, Open(r)
  PROVE  Promise!Next
  <1> DEFINE o == request[r]
  <1>1. /\ o.op \in {"login", "verify"} /\ o.pc = "open" /\ o.op \in Opening
        /\ UNCHANGED <<password, grant>>
    BY OpensOf DEF Open, At, Opening
  <1>2. password > 0 /\ (o.op = "login" => o.typed = password)
    BY <1>1 DEF IInv, KnowledgeInv, Knows
  <1>3. session' = [session EXCEPT ![o.new] = Opened(password, NoGrant)]
    BY <1>2 DEF Open
  <1>4. o.new \in Sessions /\ session[o.new].status = "none"
    BY <1>1, NewIsFree
  <1>5. CASE o.op = "login"
    <2>1. Spent' = Spent
      BY <1>5, NothingSpent DEF Open
    <2>2. Promise!LogIn(o.new)
      BY <1>1, <1>2, <1>3, <1>4, <2>1 DEF Promise!LogIn, Promise!Opens, Opened
    <2> QED BY <1>4, <2>2 DEF Promise!Next
  <1>6. CASE o.op = "verify"
    <2>1. o.code \in LoginCodes /\ o.code \in Codes
      BY <1>1, <1>6, CodeOfPurpose DEF PastCode
    <2>2. o.code \notin Spent /\ Spent' = Spent \cup {o.code}
      BY <1>6, <2>1, ConsumeSpends DEF Open
    <2>3. Promise!LogInByCode(o.code, o.new)
      BY <1>1, <1>2, <1>3, <1>4, <2>2 DEF Promise!LogInByCode, Promise!Spend, Promise!Opens, Opened
    <2> QED BY <1>4, <2>1, <2>3 DEF Promise!Next
  <1> QED BY <1>1, <1>5, <1>6

LEMMA ConfirmActs ==
  ASSUME IInv, NEW r \in Requests, Confirm(r)
  PROVE  Promise!Next
  <1> DEFINE o == request[r]
  <1>1. o.op = "confirm" /\ o.pc = "consume"
    BY OpensOf DEF Confirm, At
  <1>2. o.code \in SecurityCodes /\ o.code \in Codes
    BY <1>1, CodeOfPurpose DEF PastCode
  <1>3. o.code \notin Spent /\ Spent' = Spent \cup {o.code}
    BY <1>2, ConsumeSpends DEF Confirm
  <1>4. Promise!Confirm(o.code)
    BY <1>3 DEF Confirm, Promise!Confirm, Promise!Spend
  <1> QED BY <1>2, <1>4 DEF Promise!Next

LEMMA ReplaceActs ==
  ASSUME IInv, MomentInv, NEW r \in Requests, Replace(r)
  PROVE  Promise!Next
  <1> DEFINE o == request[r]
  <1>1. /\ o.op \in {"recover", "change"} /\ o.pc = "replace" /\ Consume(o.code)
        /\ password' = password + 1 /\ UNCHANGED grant
    BY OpensOf DEF Replace, At
  <1>2. o.code \in SecurityCodes /\ o.code \in Codes
    BY <1>1, CodeOfPurpose DEF PastCode
  <1>3. o.code \notin Spent /\ Spent' = Spent \cup {o.code}
    BY <1>1, <1>2, ConsumeSpends
  <1>4. password > 0 /\ Moment(o)
    BY <1>1 DEF MomentInv, Moment
  <1>5. CASE o.op = "recover"
    <2>1. o.new \in Sessions /\ session[o.new].status = "none"
      BY <1>5, NewIsFree DEF Opening
    <2>2. session' = [s \in Sessions |->
            IF s = o.new THEN [status |-> "live", epoch |-> password', grant |-> NoGrant]
            ELSE IF session[s].status = "none" THEN session[s] ELSE Promise!Ended(session[s])]
      BY <1>5 DEF Replace, Opened, Revoked, Promise!Ended
    <2>3. Promise!Recover(o.code, o.new)
      BY <1>1, <1>3, <1>4, <2>1, <2>2 DEF Promise!Recover, Promise!Spend
    <2> QED BY <1>2, <2>1, <2>3 DEF Promise!Next
  <1>6. CASE o.op = "change"
    <2>1. o.session \in Sessions /\ session[o.session].status = "live"
      BY <1>1, <1>4, <1>6, TrustedIsHeld DEF Moment, Trusts
    <2>2. o.new \notin Sessions
      BY <1>4, <1>6 DEF Moment, Opening, NoSession, Sessions
    <2>3. ASSUME NEW s \in Sessions
          PROVE  (IF s = o.new THEN Opened(password', NoGrant)
                  ELSE IF session[s].status = "none" THEN session[s]
                  ELSE IF o.op = "change" /\ s = o.session THEN [session[s] EXCEPT !.epoch = password']
                  ELSE Revoked(session[s]))
                 = IF s = o.session THEN [session[o.session] EXCEPT !.epoch = password']
                   ELSE IF session[s].status = "none" THEN session[s] ELSE Promise!Ended(session[s])
      BY <1>6, <2>1, <2>2 DEF Revoked, Promise!Ended
    <2>4. session' = [s \in Sessions |->
            IF s = o.session THEN [session[o.session] EXCEPT !.epoch = password']
            ELSE IF session[s].status = "none" THEN session[s] ELSE Promise!Ended(session[s])]
      BY <2>3 DEF Replace
    <2>5. Promise!Change(o.code, o.session)
      BY <1>1, <1>3, <1>4, <2>1, <2>4 DEF Promise!Change, Promise!Spend, Promise!Live
    <2> QED BY <1>2, <2>1, <2>5 DEF Promise!Next
  <1> QED BY <1>1, <1>5, <1>6

LEMMA RevokeSessionActs ==
  ASSUME NEW s \in Sessions, RevokeSession(s)
  PROVE  Promise!Next
  <1>1. Spent' = Spent
    BY NothingSpent DEF RevokeSession
  <1>2. Promise!Revoke(s)
    BY <1>1 DEF RevokeSession, Revoked, Promise!Revoke, Promise!Ended, Promise!Live
  <1> QED BY <1>2 DEF Promise!Next

LEMMA AuthorizeActs ==
  ASSUME IInv, MomentInv, NEW r \in Requests, Authorize(r)
  PROVE  Promise!Next
  <1> DEFINE o == request[r]
  <1>1. o.op = "authorize" /\ o.pc = "grant"
    BY OpensOf DEF Authorize, At
  <1>2. o.session \in Sessions /\ session[o.session].status = "live"
    BY <1>1, TrustedIsHeld DEF MomentInv, Moment, Trusts
  <1>3. o.grant \in Grants /\ grant[o.grant].status = "none"
    BY <1>1 DEF IInv, Local, RequestsInv, Shape, Idle, KnowledgeInv, Knows
  <1>4. Spent' = Spent
    BY NothingSpent DEF Authorize
  <1>5. Promise!Authorize(o.session, o.grant)
    BY <1>2, <1>3, <1>4 DEF Authorize, Promise!Authorize, Promise!Live
  <1> QED BY <1>2, <1>3, <1>5 DEF Promise!Next

LEMMA ExchangeActs ==
  ASSUME IInv, MomentInv, NEW r \in Requests, Exchange(r)
  PROVE  Promise!Next \/ UNCHANGED <<password, Spent, session, grant>>
  <1> DEFINE o == request[r]
  <1>1. o.op = "exchange" /\ o.pc = "exchange" /\ o.op \in Opening
    BY OpensOf DEF Exchange, At, Opening
  <1>2. o.new \in Sessions /\ session[o.new].status = "none" /\ session[o.session].status = "live"
    BY <1>1, NewIsFree DEF MomentInv, Moment, Trusts
  <1>3. o.grant \in Grants /\ grant[o.grant].session = o.session /\ password > 0
    BY <1>1 DEF IInv, Local, RequestsInv, Shape, Idle, KnowledgeInv, Knows
  <1>4. Spent' = Spent /\ UNCHANGED password
    BY NothingSpent DEF Exchange
  <1>5. CASE UNCHANGED <<grant, session>>
    BY <1>4, <1>5
  <1>6. CASE /\ Unused(o.grant)
             /\ grant' = [grant EXCEPT ![o.grant].status = "used"]
             /\ session' = [session EXCEPT ![o.new] = Opened(password, o.grant)]
    <2>1. Promise!Exchange(o.grant, o.new)
      BY <1>2, <1>3, <1>4, <1>6
      DEF Promise!Exchange, Promise!Opens, Promise!Live, Opened, Unused
    <2> QED BY <1>2, <1>3, <2>1 DEF Promise!Next
  <1> QED BY <1>5, <1>6 DEF Exchange

LEMMA StepActs ==
  ASSUME IInv, MomentInv, [Next]_vars
  PROVE  Promise!Next \/ UNCHANGED <<password, Spent, session, grant>>
  <1>1. ASSUME NEW r \in Requests, Begin(r) \/ Fails(r) \/ Lock(r) \/ LockCode(r) \/ Identity(r)
        PROVE  UNCHANGED <<password, Spent, session, grant>>
    <2>1. UNCHANGED <<password, session, grant>>
      BY <1>1 DEF Begin, Fails, Lock, LockCode, Identity, tables
    <2>2. ASSUME NEW c \in Codes PROVE code'[c].uses = code[c].uses
      <3>1. code' = code \/ \E d : code' = [code EXCEPT ![d].failed = @ + 1]
        BY <1>1 DEF Begin, Fails, Lock, LockCode, Identity, tables
      <3>2. code \in [Codes -> CodeRecords] /\ code[c] \in CodeRecords
        BY DEF IInv, CodesInv
      <3> QED BY <3>1, <3>2 DEF CodeRecords
    <2> QED BY <2>1, <2>2, NothingSpent
  <1>2. ASSUME NEW c \in Codes, Request(c) PROVE UNCHANGED <<password, Spent, session, grant>>
    <2>1. \A d \in Codes : code'[d].uses = code[d].uses
      BY <1>2 DEF Request, IInv, CodesInv, CodeRecords
    <2> QED BY <1>2, <2>1, NothingSpent DEF Request
  <1>3. CASE UNCHANGED vars
    BY <1>3, NothingSpent DEF vars
  <1> QED
    BY <1>1, <1>2, <1>3, RegisterActs, OpenActs, ConfirmActs, ReplaceActs, AuthorizeActs, ExchangeActs,
       RevokeSessionActs DEF Next, Step

\* The handlers of verification and identity, with the rows they lock one after
\* another, do what the operations of AccountPromise do in one step each.
THEOREM OperationsAreAtomic == Spec => ActsAtomically
  <1>1. Init => Promise!Init
    <2> SUFFICES ASSUME Init PROVE Promise!Init
      OBVIOUS
    <2>1. Spent = {}
      BY DEF Init, Spent
    <2> QED BY <2>1 DEF Init, NoSession, Promise!Init
  <1>2. IInv /\ MomentInv /\ [Next]_vars => [Promise!Next]_(Promise!vars)
    BY StepActs DEF Promise!vars
  <1> QED BY <1>1, <1>2, Invariance, AlwaysMoment, PTL DEF Spec, ActsAtomically, Promise!Spec

=============================================================================
