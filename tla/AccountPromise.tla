----------------------------- MODULE AccountPromise -----------------------------
(***************************************************************************)
(* What platform-core promises the owner of an account, with no requests,  *)
(* locks, wrong guesses or failures in it: every operation happens at one  *)
(* moment, and in that moment all that it asks for is true.                *)
(***************************************************************************)
EXTENDS Naturals

CONSTANTS RegisterCodes, LoginCodes, SecurityCodes, Sessions, Grants, NoGrant

VARIABLES
  password,  \* how many passwords the account has had
  spent,     \* codes that did what they were mailed for
  session,   \* Sessions: what became of each, its password, and its grant
  grant      \* authorization codes, and the Session that each hands on

vars == <<password, spent, session, grant>>

Init ==
  /\ password = 0
  /\ spent = {}
  /\ session = [s \in Sessions |-> [status |-> "none", epoch |-> 0, grant |-> NoGrant]]
  /\ grant = [g \in Grants |-> [status |-> "none", session |-> 0]]

Live(s) == session[s].status = "live"

Spend(c) == c \notin spent /\ spent' = spent \cup {c}

\* A Session opens under the password of this moment.
Opens(n, g) ==
  /\ session[n].status = "none"
  /\ session' = [session EXCEPT ![n] = [status |-> "live", epoch |-> password', grant |-> g]]

Register(c, n) ==
  /\ password = 0 /\ password' = 1
  /\ Spend(c) /\ Opens(n, NoGrant)
  /\ UNCHANGED grant

LogIn(n) ==
  /\ password > 0
  /\ Opens(n, NoGrant)
  /\ UNCHANGED <<password, spent, grant>>

LogInByCode(c, n) ==
  /\ password > 0
  /\ Spend(c) /\ Opens(n, NoGrant)
  /\ UNCHANGED <<password, grant>>

Confirm(c) == Spend(c) /\ UNCHANGED <<password, session, grant>>

Ended(x) == [x EXCEPT !.status = "revoked", !.epoch = 0]

\* With a new password every Session ends, but for the one where it was asked
\* for, or the new one of whoever had forgotten the old one.
Recover(c, n) ==
  /\ password > 0 /\ password' = password + 1
  /\ session[n].status = "none"
  /\ Spend(c)
  /\ session' = [s \in Sessions |->
       IF s = n THEN [status |-> "live", epoch |-> password', grant |-> NoGrant]
       ELSE IF session[s].status = "none" THEN session[s] ELSE Ended(session[s])]
  /\ UNCHANGED grant

Change(c, k) ==
  /\ password > 0 /\ password' = password + 1
  /\ Live(k)
  /\ Spend(c)
  /\ session' = [s \in Sessions |->
       IF s = k THEN [session[k] EXCEPT !.epoch = password']
       ELSE IF session[s].status = "none" THEN session[s] ELSE Ended(session[s])]
  /\ UNCHANGED grant

Revoke(s) ==
  /\ Live(s)
  /\ session' = [session EXCEPT ![s] = Ended(@)]
  /\ UNCHANGED <<password, spent, grant>>

Authorize(s, g) ==
  /\ Live(s)
  /\ grant[g].status = "none"
  /\ grant' = [grant EXCEPT ![g] = [status |-> "issued", session |-> s]]
  /\ UNCHANGED <<password, spent, session>>

\* A grant is exchanged once, and only for a Session that is still live.
Exchange(g, n) ==
  /\ password > 0
  /\ grant[g].status = "issued" /\ Live(grant[g].session)
  /\ grant' = [grant EXCEPT ![g].status = "used"]
  /\ Opens(n, g)
  /\ UNCHANGED <<password, spent>>

Next ==
  \/ \E n \in Sessions :
       \/ LogIn(n) \/ Revoke(n)
       \/ \E c \in RegisterCodes : Register(c, n)
       \/ \E c \in LoginCodes : LogInByCode(c, n)
       \/ \E c \in SecurityCodes : Recover(c, n) \/ Change(c, n)
       \/ \E g \in Grants : Authorize(n, g) \/ Exchange(g, n)
  \/ \E c \in SecurityCodes : Confirm(c)

Spec == Init /\ [][Next]_vars
=============================================================================
