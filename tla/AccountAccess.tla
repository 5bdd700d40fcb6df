------------------------------ MODULE AccountAccess ------------------------------
(***************************************************************************)
(* One account of platform-core: its password, the codes mailed to its     *)
(* address, its Sessions, and the authorization codes that hand a Session  *)
(* on to a product (internal/verification, internal/identity).             *)
(*                                                                         *)
(* A request is a transaction that takes row locks one after another and   *)
(* checks each row it locked.  It writes under locks it holds to its end,  *)
(* so its writes are modelled at its commit.                               *)
(*                                                                         *)
(* A request may be refused or die anywhere (Fails): that stands for every *)
(* refusal that writes nothing, such as a rate limit, a challenge, a wrong *)
(* password or something that expired, and for a failing database, which   *)
(* also ends one of two requests that wait for each other.  It stands for  *)
(* what Exchange does in Redis and with its idempotency keys as well: the  *)
(* locks may run out under their holder, and a key that was answered is    *)
(* refused, for the token is not kept.                                     *)
(***************************************************************************)
EXTENDS Naturals, FiniteSets

CONSTANTS
  Requests,       \* handlers that run at once
  RegisterCodes, LoginCodes, SecurityCodes,   \* verification_codes by purpose
  Grants,         \* authorization_codes
  MaxGuesses,     \* wrong guesses that revoke a verification code (5)
  MaxSessions,    \* Sessions ever opened (a bound of the model)
  MaxPasswords,   \* no password is replaced once this many were set (a bound)
  NoCode, NoGrant

Codes == RegisterCodes \cup LoginCodes \cup SecurityCodes

ASSUME GuessesAssumption == MaxGuesses \in Nat \ {0}
ASSUME BoundsAssumption == MaxSessions \in Nat /\ MaxPasswords \in Nat
ASSUME NamesAssumption == NoCode \notin Codes /\ NoGrant \notin Grants

VARIABLES
  password,  \* how many passwords the account has had; 0: it does not exist
  code,      \* verification_codes
  latest,    \* the newest code of each purpose
  session,   \* sessions: a core Session, or one exchanged for a grant
  grant,     \* authorization_codes
  request,   \* the requests
  held       \* the database locks of each

vars == <<password, code, latest, session, grant, request, held>>
tables == <<password, code, latest, session, grant>>

Sessions == 1..MaxSessions
NoSession == 0
Purposes == {"register", "login", "security"}
PurposeOf(c) ==
  IF c \in RegisterCodes THEN "register" ELSE IF c \in LoginCodes THEN "login" ELSE "security"

\* Mutant: ChangePassword looks at its Session first.
SessionFirst ==
  [register  |-> [start |-> "code", code |-> "identity", identity |-> "register"],
   login     |-> [start |-> "scope", scope |-> "user", user |-> "open"],
   verify    |-> [start |-> "code", code |-> "user", user |-> "open"],
   confirm   |-> [start |-> "code", code |-> "consume"],
   recover   |-> [start |-> "scope", scope |-> "user", user |-> "code", code |-> "replace"],
   change    |-> [start |-> "session", session |-> "scope", scope |-> "user", user |-> "code",
                  code |-> "replace"],
   authorize |-> [start |-> "session", session |-> "user", user |-> "grant"],
   exchange  |-> [start |-> "row", row |-> "session", session |-> "user", user |-> "exchange"]]

\* The steps of each operation.  Verify logs in; Confirm is Verify for the purpose
\* that RecoverPassword and ChangePassword ask for, and opens nothing.
After ==
  [register  |-> [start |-> "code", code |-> "identity", identity |-> "register"],
   login     |-> [start |-> "scope", scope |-> "user", user |-> "open"],
   verify    |-> [start |-> "code", code |-> "user", user |-> "open"],
   confirm   |-> [start |-> "code", code |-> "consume"],
   recover   |-> [start |-> "scope", scope |-> "user", user |-> "code", code |-> "replace"],
   change    |-> [start |-> "scope", scope |-> "user", user |-> "session", session |-> "code",
                  code |-> "replace"],
   authorize |-> [start |-> "session", session |-> "user", user |-> "grant"],
   exchange  |-> [start |-> "row", row |-> "session", session |-> "user", user |-> "exchange"]]

Operations == DOMAIN After

\* The purpose of the code that an operation asks for.
Asks(op) == IF op = "register" THEN "register" ELSE IF op = "verify" THEN "login" ELSE "security"

Opening == {"register", "login", "verify", "recover", "exchange"}

Idle == [op |-> "none", pc |-> "start", typed |-> 0, code |-> NoCode, session |-> NoSession,
         grant |-> NoGrant, new |-> NoSession]

Init ==
  /\ password = 0
  /\ code = [c \in Codes |-> [issued |-> FALSE, failed |-> 0, uses |-> 0]]
  /\ latest = [p \in Purposes |-> NoCode]
  /\ session = [s \in Sessions |-> [status |-> "none", epoch |-> 0, grant |-> NoGrant]]
  /\ grant = [g \in Grants |-> [status |-> "none", session |-> NoSession]]
  /\ request = [r \in Requests |-> Idle]
  /\ held = [r \in Requests |-> {}]

-----------------------------------------------------------------------------
(* Requests, and the rows they lock.                                       *)

At(r, pc) == request[r].op # "none" /\ request[r].pc = pc

\* The request's next statement.  A statement that locks a code looks the row
\* up first: should it have to wait, that is the row it waits for.
Goto(q, pc) ==
  [q EXCEPT !.pc = pc, !.code = IF pc = "code" THEN latest[Asks(q.op)] ELSE @]

Proceed(r) ==
  request' = [request EXCEPT ![r] = Goto(@, After[@.op][@.pc])]

\* The transaction ends, and the locks go.
End(r) ==
  /\ request' = [request EXCEPT ![r] = Idle]
  /\ held' = [held EXCEPT ![r] = {}]

\* The rows that a request's next statement locks.
Wanted(r) ==
  LET q == request[r]
  IN CASE q.op = "none" -> {}
       [] q.pc \in {"scope", "user"} -> {<<q.pc>>}
       [] q.pc = "code" -> {<<"code", q.code>>}
       [] q.pc = "session" -> {<<"session", q.session>>}
       [] q.pc = "replace" -> {<<"session", s>> : s \in Sessions}
       [] q.pc = "row" -> {<<"grant", q.grant>>}
       [] OTHER -> {}

WaitsFor(r, q) == r # q /\ Wanted(r) \cap held[q] # {}
Granted(r) == \A q \in Requests : ~WaitsFor(r, q)

\* Mutant: a password login reads the credential without a lock.
TakeUnlessLogin(r) ==
  held' = IF request[r].op = "login" THEN held ELSE [held EXCEPT ![r] = @ \cup Wanted(r)]

\* Mutant: an exchange reads its Session without a lock.
TakeUnlessExchange(r) ==
  held' = IF request[r].op = "exchange" /\ request[r].pc \in {"session", "user"}
          THEN held ELSE [held EXCEPT ![r] = @ \cup Wanted(r)]

Take(r) == held' = [held EXCEPT ![r] = @ \cup Wanted(r)]

Reserved == {request[q].new : q \in Requests}
Fresh == {s \in Sessions : session[s].status = "none"} \ Reserved

\* A request arrives: with a password that is or once was right, in one of the
\* account's core Sessions, for a grant that was issued, as its operation needs.
Begin(r) ==
  /\ request[r] = Idle
  /\ \E op \in Operations, t \in 0..password, s, n \in Sessions \cup {NoSession},
        g \in Grants \cup {NoGrant} :
       /\ op \in {"login", "change"} <=> t # 0
       /\ op \in {"change", "authorize"} <=> s # NoSession
       /\ s # NoSession => session[s].status # "none" /\ session[s].grant = NoGrant
       /\ op \in Opening <=> n # NoSession
       /\ n # NoSession => n \in Fresh /\ \A x \in Fresh : n <= x
       /\ op \in {"authorize", "exchange"} <=> g # NoGrant
       /\ op = "authorize" => grant[g].status = "none" /\ \A q \in Requests : request[q].grant # g
       /\ op = "exchange" => grant[g].status # "none"
       /\ op \in {"recover", "change"} => password < MaxPasswords
       /\ request' = [request EXCEPT ![r] =
            Goto([Idle EXCEPT !.op = op, !.typed = t, !.new = n, !.grant = g,
                              !.session = IF op = "exchange" THEN grant[g].session ELSE s],
                 After[op].start)]
  /\ UNCHANGED <<tables, held>>

Fails(r) ==
  /\ request[r] # Idle
  /\ End(r)
  /\ UNCHANGED tables

\* Mutant: nobody looks whether an authorization code was used.
UnusedOrNot(g) == TRUE

Unused(g) == grant[g].status = "issued"

\* What the request finds in the rows that it has just locked.
Stands(r) ==
  LET q == request[r]
  IN /\ q.pc = "user" => password > 0
     /\ q.pc = "user" /\ q.op = "login" => q.typed = password
     /\ q.pc = "session" => session[q.session].status = "live"
     /\ q.pc = "session" /\ q.op = "change" => q.typed = password
     /\ q.pc = "row" => Unused(q.grant)

\* lockCredentialScope, and the statements that lock rows FOR UPDATE.
Lock(r) ==
  /\ \E pc \in {"scope", "user", "session", "row"} : At(r, pc)
  /\ Granted(r)
  /\ \/ Stands(r) /\ Take(r) /\ Proceed(r)
     \/ ~Stands(r) /\ End(r)
  /\ UNCHANGED tables

\* RequestCode: the newest code of its purpose is the only one looked up.
Request(c) ==
  /\ ~code[c].issued
  /\ code' = [code EXCEPT ![c].issued = TRUE]
  /\ latest' = [latest EXCEPT ![PurposeOf(c)] = c]
  /\ UNCHANGED <<password, session, grant, request, held>>

\* Mutant: a code is never revoked.
NotUsed(c) == c # NoCode /\ code[c].uses = 0

\* There is a code, neither used nor revoked.
Consumable(c) == c # NoCode /\ code[c].uses = 0 /\ code[c].failed < MaxGuesses

\* GetVerificationCodeForUpdate and the checks after it: a wrong guess is counted and committed.
LockCode(r) ==
  LET c == request[r].code
  IN /\ At(r, "code")
     /\ Granted(r)
     /\ \/ /\ Consumable(c)
           /\ Take(r) /\ Proceed(r)
           /\ UNCHANGED code
        \/ /\ Consumable(c)
           /\ code' = [code EXCEPT ![c].failed = @ + 1]
           /\ End(r)
        \/ /\ ~Consumable(c)
           /\ End(r)
           /\ UNCHANGED code
     /\ UNCHANGED <<password, latest, session, grant>>

-----------------------------------------------------------------------------
(* Commits of the verification service.                                    *)

\* ConsumeVerificationCode.
Consume(c) ==
  /\ Consumable(c)
  /\ code' = [code EXCEPT ![c].uses = @ + 1]

\* A Session, with the password it was opened under.
Opened(p, g) == [status |-> "live", epoch |-> p, grant |-> g]
Revoked(x) == [x EXCEPT !.status = "revoked", !.epoch = 0]

\* Register looks for the address, and then inserts it under a unique index.
Identity(r) ==
  /\ At(r, "identity")
  /\ \/ password = 0 /\ Proceed(r) /\ UNCHANGED held
     \/ password > 0 /\ End(r)
  /\ UNCHANGED tables

Register(r) ==
  /\ At(r, "register")
  /\ \/ /\ password = 0
        /\ Consume(request[r].code)
        /\ password' = 1
        /\ session' = [session EXCEPT ![request[r].new] = Opened(1, NoGrant)]
     \/ /\ password > 0
        /\ UNCHANGED <<password, code, session>>
  /\ End(r)
  /\ UNCHANGED <<latest, grant>>

\* PasswordLogin and Verify open a core Session.
Open(r) ==
  LET q == request[r]
  IN /\ At(r, "open")
     /\ IF q.op = "verify" THEN Consume(q.code) ELSE UNCHANGED code
     /\ session' = [session EXCEPT ![q.new] = Opened(IF q.op = "login" THEN q.typed ELSE password, NoGrant)]
     /\ End(r)
     /\ UNCHANGED <<password, latest, grant>>

Confirm(r) ==
  /\ At(r, "consume")
  /\ Consume(request[r].code)
  /\ End(r)
  /\ UNCHANGED <<password, latest, session, grant>>

\* RecoverPassword revokes every Session and opens one; ChangePassword revokes
\* every other Session than the one it was asked in.
Replace(r) ==
  LET q == request[r]
      kept(s) == q.op = "change" /\ s = q.session
  IN /\ At(r, "replace")
     /\ Granted(r)
     /\ Consume(q.code)
     /\ password' = password + 1
     /\ session' = [s \in Sessions |->
          IF s = q.new THEN Opened(password', NoGrant)
          ELSE IF session[s].status = "none" THEN session[s]
          ELSE IF kept(s) THEN [session[s] EXCEPT !.epoch = password']
          ELSE Revoked(session[s])]
     /\ End(r)
     /\ UNCHANGED <<latest, grant>>

\* An operator revokes a Session (RevokePlatformOperationSession); the Sessions
\* that were exchanged for it are left as they are.
RevokeSession(s) ==
  /\ session[s].status = "live"
  /\ \A q \in Requests : <<"session", s>> \notin held[q]
  /\ session' = [session EXCEPT ![s] = Revoked(@)]
  /\ UNCHANGED <<password, code, latest, grant, request, held>>

-----------------------------------------------------------------------------
(* Authorize and Exchange.                                                 *)

Authorize(r) ==
  /\ At(r, "grant")
  /\ grant' = [grant EXCEPT ![request[r].grant] = [status |-> "issued", session |-> request[r].session]]
  /\ End(r)
  /\ UNCHANGED <<password, code, latest, session>>

\* MarkAuthorizationCodeUsed and CreateExchangeSession.
Exchange(r) ==
  LET q == request[r]
  IN /\ At(r, "exchange")
     /\ \/ /\ Unused(q.grant)
           /\ grant' = [grant EXCEPT ![q.grant].status = "used"]
           /\ session' = [session EXCEPT ![q.new] = Opened(password, q.grant)]
        \/ /\ ~Unused(q.grant)
           /\ UNCHANGED <<grant, session>>
     /\ End(r)
     /\ UNCHANGED <<password, code, latest>>

-----------------------------------------------------------------------------
Step(r) ==
  \/ Lock(r) \/ LockCode(r) \/ Identity(r)
  \/ Register(r) \/ Open(r) \/ Confirm(r) \/ Replace(r) \/ Authorize(r)
  \/ Exchange(r)

Next ==
  \/ \E r \in Requests : Begin(r) \/ Fails(r) \/ Step(r)
  \/ \E c \in Codes : Request(c)
  \/ \E s \in Sessions : RevokeSession(s)

Spec == Init /\ [][Next]_vars

-----------------------------------------------------------------------------
(* Properties.                                                             *)

Rows ==
  {<<"scope">>, <<"user">>} \cup {<<"code", c>> : c \in Codes}
    \cup {<<"session", s>> : s \in Sessions} \cup {<<"grant", g>> : g \in Grants}

Points == {"start", "code", "identity", "register", "scope", "user", "open",
           "consume", "session", "replace", "grant", "row", "exchange"}

TypeOK ==
  /\ password \in Nat
  /\ code \in [Codes -> [issued : BOOLEAN, failed : 0..MaxGuesses, uses : Nat]]
  /\ latest \in [Purposes -> Codes \cup {NoCode}]
  /\ session \in [Sessions -> [status : {"none", "live", "revoked"}, epoch : Nat, grant : Grants \cup {NoGrant}]]
  /\ grant \in [Grants -> [status : {"none", "issued", "used"}, session : Sessions \cup {NoSession}]]
  /\ request \in [Requests -> [op : Operations \cup {"none"}, pc : Points, typed : Nat,
                               code : Codes \cup {NoCode}, session : Sessions \cup {NoSession},
                               grant : Grants \cup {NoGrant},
                               new : Sessions \cup {NoSession}]]
  /\ held \in [Requests -> SUBSET Rows]

\* Every Session that still opens a door was opened, or kept, under the password
\* of today: a login with the old one, or an exchange, that ran while the password
\* was reset leaves no Session behind.
SessionsAreCurrent ==
  \A s \in Sessions : session[s].status = "live" => session[s].epoch = password

\* A verification code does one thing once, however many requests bring it; and one
\* that was guessed at MaxGuesses times does nothing, even for the request that was
\* on its way with the right one (the table's lifecycle check).
CodeDoesOneThing ==
  \A c \in Codes : code[c].uses <= 1 /\ (code[c].failed >= MaxGuesses => code[c].uses = 0)

\* Of the requests that open Sessions or set passwords, no number of them wait for
\* each other, in a pair or in a circle: they lock in one order.  (Authorize and
\* Exchange, which lock a Session before its user, may meet one of them the other
\* way round.)
OneLockOrder ==
  \A R \in SUBSET {r \in Requests : request[r].op \notin {"authorize", "exchange"}} :
    R # {} => \E r \in R : \A q \in R : ~WaitsFor(r, q)

\* The verification codes that did what they were mailed for.
Spent == {c \in Codes : code[c].uses > 0}

Promise == INSTANCE AccountPromise WITH spent <- Spent

\* However requests overlap, wait for each other's locks, die or are refused, each
\* operation that succeeds does so at one moment in which all it asks for is true:
\* a login has the password of that moment, a password change runs in a live
\* Session, a grant is handed on while its Session is live, every code is unspent.
ActsAtomically == Promise!Spec
=============================================================================
