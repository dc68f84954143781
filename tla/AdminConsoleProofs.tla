------------------------- MODULE AdminConsoleProofs ------------------------
(***************************************************************************)
(* Proofs about AdminConsole, for any number of tabs, sessions, requests   *)
(* on their way, losses and switches: a session that was signed out in a   *)
(* tab does not come back to it.                                           *)
(***************************************************************************)
EXTENDS AdminConsole, TLAPS

Flights == [tab : Tabs, op : {"load", "save", "login", "me", "logout"},
            token : Tokens, st : {"sent", "ok", "refused"}]

\* A token about is none of a session yet to be issued.
Known(token) == token \in Sessions => token \in issued

AllKnown ==
  /\ Known(stored)
  /\ \A t \in Tabs : Known(mem[t])
  /\ \A r \in net : Known(r.token)
  /\ closed \in [Tabs -> SUBSET issued]

\* The answer to a login that has not been read is the only place its session is in.
Pending(r) == r.op = "login" /\ r.st = "ok"

Unread ==
  \A r \in net : Pending(r) =>
    /\ r.token \in Sessions /\ stored # r.token
    /\ \A t \in Tabs : mem[t] # r.token /\ r.token \notin closed[t]
    /\ \A q \in net \ {r} : q.token # r.token

SignedOut == \A t \in Tabs : \A s \in closed[t] : mem[t] # s /\ stored # s

Inv == TypeOK /\ AllKnown /\ Unread /\ SignedOut

USE ConsoleAssumption

\* The tokens that are no answer to a login: in the storage, in a tab, in another
\* request, or no session's at all.
Abroad ==
  {stored, None, Typed} \cup {mem[t] : t \in Tabs} \cup {r.token : r \in {q \in net : ~Pending(q)}}

LEMMA AbroadKnown ==
  ASSUME Inv, NEW token \in Abroad
  PROVE  /\ token \in Tokens /\ Known(token)
         /\ \A r \in net : Pending(r) => token # r.token
BY DEF Inv, TypeOK, AllKnown, Unread, Known, Abroad, Tokens

\* A step that moves only such tokens about keeps the invariant, unless it brings a
\* token to a tab that has signed it out.
LEMMA Moving ==
  ASSUME Inv, UNCHANGED <<issued, closed>>, valid' \subseteq valid,
         stored' \in {stored, None, Typed},
         mem' \in [Tabs -> Tokens],
         \A t \in Tabs : mem'[t] \in {mem[t], stored, None, Typed},
         at' \in [Tabs -> Pages \cup {"login"}],
         net' \subseteq Flights,
         \A r \in net' : r \in net \/ (~Pending(r) /\ r.token \in Abroad)
  PROVE  Inv'
<1>1. TypeOK'
  BY DEF Inv, TypeOK, Flights, Tokens
<1>2. stored' \in Abroad /\ \A t \in Tabs : mem'[t] \in Abroad
  BY DEF Abroad
<1>3. AllKnown'
  <2>1. Known(stored)' /\ \A t \in Tabs : Known(mem[t])'
    BY <1>2, AbroadKnown DEF Known
  <2>2. \A r \in net' : Known(r.token)
    BY AbroadKnown DEF Inv, AllKnown
  <2> QED BY <2>1, <2>2 DEF Inv, AllKnown, Known
<1>4. Unread'
  <2> SUFFICES ASSUME NEW r \in net', Pending(r)
               PROVE  /\ r.token \in Sessions /\ stored' # r.token
                      /\ \A t \in Tabs : mem'[t] # r.token /\ r.token \notin closed[t]
                      /\ \A q \in net' \ {r} : q.token # r.token
    BY DEF Unread, Pending
  <2>1. r \in net /\ r \in Flights
    OBVIOUS
  <2> QED BY <2>1, <1>2, AbroadKnown DEF Inv, Unread
<1>5. SignedOut'
  BY DEF Inv, SignedOut, AllKnown, TypeOK
<1> QED BY <1>1, <1>3, <1>4, <1>5 DEF Inv

\* What a tab has once it has looked is about, and nothing else changes.
LEMMA Adopting ==
  ASSUME Inv, NEW t \in Tabs
  PROVE  /\ Held(t) \in Abroad /\ Held(t) \in Tokens
         /\ Adopt(t) => /\ stored' = stored /\ mem' \in [Tabs -> Tokens]
                        /\ \A u \in Tabs : mem'[u] \in {mem[u], stored, None, Typed}
<1>1. Held(t) \in {mem[t], stored}
  BY DEF Held
<1>2. Held(t) \in Abroad /\ Held(t) \in Tokens
  BY <1>1 DEF Abroad, Inv, TypeOK
<1>3. ASSUME Adopt(t)
      PROVE  /\ stored' = stored /\ mem' \in [Tabs -> Tokens]
             /\ \A u \in Tabs : mem'[u] \in {mem[u], stored, None, Typed}
  BY <1>1, <1>2, <1>3 DEF Adopt, Inv, TypeOK
<1> QED BY <1>2, <1>3

\* A request with such a token is none whose answer is a session.
LEMMA NewFlight ==
  ASSUME Inv, NEW t \in Tabs, NEW op \in {"load", "save", "login", "me", "logout"},
         NEW token \in Abroad
  PROVE  /\ Flight(t, op, token) \in Flights /\ ~Pending(Flight(t, op, token))
         /\ Flight(t, op, token).token \in Abroad
BY AbroadKnown DEF Flight, Flights, Pending

LEMMA Abroads == None \in Abroad /\ Typed \in Abroad /\ stored \in Abroad
BY DEF Abroad

LEMMA InitInv == Init => Inv
BY DEF Init, Inv, TypeOK, AllKnown, Known, Unread, SignedOut, Tokens, Pages

-----------------------------------------------------------------------------
\* What the user and the timer do.
LEMMA UserInv ==
  ASSUME Inv, NEW t \in Tabs, User(t) \/ Interval(t)
  PROVE  Inv'
<1> USE Abroads
<1>1. /\ mem \in [Tabs -> Tokens] /\ at \in [Tabs -> Pages \cup {"login"}] /\ net \subseteq Flights
      /\ stored \in Tokens /\ None \in Tokens /\ Typed \in Tokens
  BY DEF Inv, TypeOK, Flights, Tokens
<1>2. ASSUME NEW p \in Pages \cup {"login"}, Boot(t, p) PROVE Inv'
  <2>1. at' \in [Tabs -> Pages \cup {"login"}] /\ mem' \in [Tabs -> Tokens]
    BY <1>1, <1>2 DEF Boot
  <2>2. \A u \in Tabs : mem'[u] \in {mem[u], stored, None, Typed}
    BY <1>1, <1>2 DEF Boot
  <2>3. \A r \in net' : r \in net \/ r = Flight(t, "load", stored)
    BY <1>2 DEF Boot
  <2>4. net' \subseteq Flights /\ \A r \in net' : r \in net \/ (~Pending(r) /\ r.token \in Abroad)
    BY <1>1, <2>3, NewFlight
  <2> QED BY <1>2, <2>1, <2>2, <2>4, Moving DEF Boot, serverVars
<1>3. ASSUME NEW op \in {"load", "save", "logout"}, Request(t, op),
             at' \in [Tabs -> Pages \cup {"login"}], UNCHANGED <<serverVars, closed>>
      PROVE  Inv'
  <2>1. net' \subseteq Flights /\ \A r \in net' : r \in net \/ (~Pending(r) /\ r.token \in Abroad)
    BY <1>1, <1>3, Adopting, NewFlight DEF Request
  <2>2. /\ stored' = stored /\ mem' \in [Tabs -> Tokens]
        /\ \A u \in Tabs : mem'[u] \in {mem[u], stored, None, Typed}
    BY <1>3, Adopting DEF Request
  <2> QED BY <1>3, <2>1, <2>2, Moving DEF serverVars
<1>4. ASSUME NEW p \in Pages, Visit(t, p) PROVE Inv'
  <2>1. at' \in [Tabs -> Pages \cup {"login"}]
    BY <1>1, <1>4 DEF Visit, Gated
  <2> QED BY <1>3, <1>4, <2>1 DEF Visit
<1>5. ASSUME NEW op \in {"load", "save"}, Act(t, op) PROVE Inv'
  BY <1>1, <1>3, <1>5 DEF Act
<1>6. ASSUME Interval(t) PROVE Inv'
  BY <1>1, <1>3, <1>6 DEF Interval
<1>7. ASSUME SwitchAccount(t) PROVE Inv'
  <2>1. at' \in [Tabs -> Pages \cup {"login"}]
    BY <1>1, <1>7 DEF SwitchAccount, GoLogin
  <2> QED BY <1>1, <1>7, <2>1, Adopting, Moving DEF SwitchAccount, GoLogin, serverVars
<1>8. ASSUME NEW token \in {None, Typed}, SetToken(t, token)
      PROVE  /\ stored' \in {stored, None, Typed} /\ mem' \in [Tabs -> Tokens]
             /\ \A u \in Tabs : mem'[u] \in {mem[u], stored, None, Typed}
  BY <1>1, <1>8 DEF SetToken
<1>9. ASSUME Logout(t) PROVE Inv'
  <2>1. CASE mem[t] = None
    <3>1. ClearToken(t) /\ at' \in [Tabs -> Pages \cup {"login"}] /\ UNCHANGED <<net, serverVars, closed>>
      BY <1>1, <1>9, <2>1 DEF Logout
    <3> QED BY <1>1, <1>8, <3>1, Moving DEF ClearToken, serverVars
  <2>2. CASE mem[t] # None
    BY <1>1, <1>3, <1>9, <2>2 DEF Logout
  <2> QED BY <2>1, <2>2
<1>10. ASSUME SubmitPassword(t) PROVE Inv'
  <2>1. net' \subseteq Flights /\ \A r \in net' : r \in net \/ (~Pending(r) /\ r.token \in Abroad)
    BY <1>1, <1>10, NewFlight DEF SubmitPassword
  <2> QED BY <1>1, <1>10, <2>1, Moving DEF SubmitPassword, serverVars
<1>11. ASSUME SubmitToken(t) PROVE Inv'
  <2>1. net' \subseteq Flights /\ \A r \in net' : r \in net \/ (~Pending(r) /\ r.token \in Abroad)
    BY <1>1, <1>11, NewFlight DEF SubmitToken
  <2> QED BY <1>1, <1>8, <1>11, <2>1, Moving DEF SubmitToken, serverVars
<1> QED BY <1>2, <1>4, <1>5, <1>6, <1>7, <1>9, <1>10, <1>11 DEF User

-----------------------------------------------------------------------------
\* The server issues a session that nobody knows, and forgets others.
LEMMA ServerInv ==
  ASSUME Inv, NEW r \in net, Handle(r)
  PROVE  Inv'
<1> USE Abroads
<1>1. /\ mem \in [Tabs -> Tokens] /\ at \in [Tabs -> Pages \cup {"login"}] /\ net \subseteq Flights
      /\ r \in Flights
  BY DEF Inv, TypeOK, Flights
<1>2. CASE ServeLogin(r)
  <2>1. PICK s \in Sessions \ issued :
          /\ issued' = issued \cup {s} /\ valid' = valid \cup {s}
          /\ net' = (net \ {r}) \cup {[r EXCEPT !.st = "ok", !.token = s]}
    BY <1>2 DEF ServeLogin
  <2> DEFINE q == [r EXCEPT !.st = "ok", !.token = s]
  <2>2. q \in Flights /\ q.token = s /\ Pending(q) /\ net' = (net \ {r}) \cup {q}
    BY <1>1, <1>2, <2>1 DEF Flights, Tokens, Pending, ServeLogin
  <2> HIDE DEF q
  <2>3. TypeOK'
    BY <1>2, <2>1, <2>2 DEF ServeLogin, Inv, TypeOK, Flights, Tokens
  <2>4. AllKnown'
    BY <1>2, <2>1, <2>2 DEF ServeLogin, Inv, AllKnown, Known
  <2>5. Unread'
    <3> SUFFICES ASSUME NEW p \in net', Pending(p)
                 PROVE  /\ p.token \in Sessions /\ stored # p.token
                        /\ \A t \in Tabs : mem[t] # p.token /\ p.token \notin closed[t]
                        /\ \A o \in net' \ {p} : o.token # p.token
      BY <1>2 DEF Unread, Pending, ServeLogin
    <3>1. \A o \in net : o.token # s
      BY <2>1 DEF Inv, AllKnown, Known
    <3>2. CASE p = q
      BY <3>1, <3>2, <2>1, <2>2 DEF Inv, AllKnown, Known
    <3>3. CASE p # q
      BY <3>1, <3>3, <2>1, <2>2 DEF Inv, Unread
    <3> QED BY <3>2, <3>3
  <2>6. SignedOut'
    BY <1>2 DEF ServeLogin, Inv, SignedOut
  <2> QED BY <2>3, <2>4, <2>5, <2>6 DEF Inv
<1>3. CASE RefuseLogin(r)
  <2> DEFINE q == [r EXCEPT !.st = "refused"]
  <2>1. q \in Flights /\ ~Pending(q) /\ q.token = r.token /\ net' = (net \ {r}) \cup {q}
    BY <1>1, <1>3 DEF Flights, Pending, RefuseLogin, Becomes
  <2>2. r.token \in Abroad
    BY <1>3 DEF RefuseLogin, Pending, Abroad
  <2> HIDE DEF q
  <2>3. net' \subseteq Flights /\ \A o \in net' : o \in net \/ (~Pending(o) /\ o.token \in Abroad)
    BY <1>1, <2>1, <2>2
  <2> QED BY <1>1, <1>3, <2>3, Moving DEF RefuseLogin, serverVars
<1>4. CASE ServeLogout(r)
  <2> DEFINE q == [r EXCEPT !.st = "ok"]
  <2>1. q \in Flights /\ ~Pending(q) /\ q.token = r.token /\ net' = (net \ {r}) \cup {q}
    BY <1>1, <1>4 DEF Flights, Pending, ServeLogout, Becomes
  <2>2. r.token \in Abroad
    BY <1>4 DEF ServeLogout, Pending, Abroad
  <2> HIDE DEF q
  <2>3. net' \subseteq Flights /\ \A o \in net' : o \in net \/ (~Pending(o) /\ o.token \in Abroad)
    BY <1>1, <2>1, <2>2
  <2> QED BY <1>1, <1>4, <2>3, Moving DEF ServeLogout, serverVars
<1> QED BY <1>2, <1>3, <1>4 DEF Handle

-----------------------------------------------------------------------------
\* The answers.  A login hands over a session nobody has had; a logout clears what the
\* tab and the storage have.
LEMMA AnswerInv ==
  ASSUME Inv, NEW r \in net, NEW st \in {"ok", "refused", "failed"}, Conclude(r, st),
         r.op = "login" /\ st = "ok" => r.st = "ok"
  PROVE  Inv'
<1> USE Abroads
<1>1. /\ mem \in [Tabs -> Tokens] /\ at \in [Tabs -> Pages \cup {"login"}] /\ net \subseteq Flights
      /\ r.tab \in Tabs /\ r.token \in Tokens /\ None \in Tokens /\ UNCHANGED serverVars
  BY DEF Inv, TypeOK, Flights, Conclude, Tokens
<1>2. r.op # "logout" => UNCHANGED closed
  BY DEF Conclude
<1>3. CASE Loaded(r, st)
  <2>1. net' = net \ {r} /\ UNCHANGED closed
    BY <1>2, <1>3 DEF Loaded
  <2>2. CASE GoLogin(r.tab)
    <3>1. at' \in [Tabs -> Pages \cup {"login"}]
      BY <1>1, <2>2 DEF GoLogin
    <3> QED BY <1>1, <2>1, <2>2, <3>1, Adopting, Moving DEF GoLogin, serverVars
  <2>3. CASE UNCHANGED <<at, mem, stored>>
    BY <1>1, <2>1, <2>3, Moving DEF serverVars
  <2> QED BY <1>3, <2>2, <2>3 DEF Loaded, HandleError
<1>4. CASE Saved(r, st)
  <2>1. UNCHANGED closed
    BY <1>2, <1>4 DEF Saved
  <2>2. CASE st = "ok"
    <3>1. net' = (net \ {r}) \cup {Flight(r.tab, "load", Held(r.tab))} /\ Adopt(r.tab) /\ UNCHANGED at
      BY <1>4, <2>2 DEF Saved
    <3>2. net' \subseteq Flights /\ \A q \in net' : q \in net \/ (~Pending(q) /\ q.token \in Abroad)
      BY <1>1, <3>1, Adopting, NewFlight
    <3> QED BY <1>1, <2>1, <3>1, <3>2, Adopting, Moving DEF serverVars
  <2>3. CASE st # "ok" /\ GoLogin(r.tab)
    <3>1. at' \in [Tabs -> Pages \cup {"login"}] /\ net' = net \ {r}
      BY <1>1, <1>4, <2>3 DEF GoLogin, Saved
    <3> QED BY <1>1, <2>1, <2>3, <3>1, Adopting, Moving DEF GoLogin, serverVars
  <2>4. CASE st # "ok" /\ UNCHANGED <<at, mem, stored>>
    <3>1. net' = net \ {r}
      BY <1>4, <2>4 DEF Saved
    <3> QED BY <1>1, <2>1, <2>4, <3>1, Moving DEF serverVars
  <2> QED BY <1>4, <2>2, <2>3, <2>4 DEF Saved, HandleError
<1>5. CASE Verified(r, st)
  <2>1. UNCHANGED closed
    BY <1>2, <1>5 DEF Verified
  <2>2. CASE st = "ok"
    <3>1. Adopt(r.tab) /\ Enter(r, Held(r.tab))
      BY <1>5, <2>2 DEF Verified
    <3>2. at' \in [Tabs -> Pages \cup {"login"}]
      BY <1>1, <3>1 DEF Enter
    <3>3. net' \subseteq Flights /\ \A q \in net' : q \in net \/ (~Pending(q) /\ q.token \in Abroad)
      BY <1>1, <3>1, Adopting, NewFlight DEF Enter
    <3> QED BY <1>1, <2>1, <3>1, <3>2, <3>3, Adopting, Moving DEF serverVars
  <2>3. CASE st # "ok"
    <3>1. net' = net \ {r} /\ ClearToken(r.tab) /\ UNCHANGED at
      BY <1>5, <2>3 DEF Verified
    <3>2. /\ stored' = None /\ mem' \in [Tabs -> Tokens]
          /\ \A u \in Tabs : mem'[u] \in {mem[u], stored, None, Typed}
      BY <1>1, <3>1 DEF ClearToken, SetToken
    <3> QED BY <1>1, <2>1, <3>1, <3>2, Moving DEF serverVars
  <2> QED BY <2>2, <2>3
<1>6. CASE LoggedIn(r, st)
  <2>1. UNCHANGED closed
    BY <1>2, <1>6 DEF LoggedIn
  <2>2. CASE st # "ok"
    BY <1>1, <1>6, <2>1, <2>2, Moving DEF LoggedIn, serverVars
  <2>3. CASE st = "ok"
    <3> DEFINE s == r.token
               f == Flight(r.tab, "load", s)
    <3>1. /\ mem' = [mem EXCEPT ![r.tab] = s] /\ stored' = s
          /\ net' = (net \ {r}) \cup {f}
          /\ at' \in [Tabs -> Pages \cup {"login"}]
      BY <1>1, <1>6, <2>3 DEF LoggedIn, SetToken, Enter
    <3>2. Pending(r)
      BY <1>6, <2>3 DEF LoggedIn, Pending
    <3>3. f \in Flights /\ ~Pending(f) /\ f.token = s
      BY <1>1 DEF Flight, Flights, Pending
    <3>4. /\ s \in Sessions /\ s \in issued
          /\ \A q \in net \ {r} : q.token # s
          /\ \A t \in Tabs : s \notin closed[t]
      BY <3>2 DEF Inv, Unread, AllKnown, Known
    <3> HIDE DEF s, f
    <3>5. TypeOK'
      BY <1>1, <3>1, <3>3, <3>4 DEF Inv, TypeOK, Flights, Tokens, serverVars
    <3>6. mem' \in [Tabs -> Tokens] /\ \A t \in Tabs : mem'[t] \in {mem[t], s}
      BY <1>1, <3>1, <3>4 DEF Tokens
    <3>7. AllKnown'
      BY <1>1, <2>1, <3>1, <3>3, <3>4, <3>6 DEF Inv, AllKnown, Known, serverVars
    <3>8. Unread'
      <4> SUFFICES ASSUME NEW p \in net', Pending(p)
                   PROVE  /\ p.token \in Sessions /\ stored' # p.token
                          /\ \A t \in Tabs : mem'[t] # p.token /\ p.token \notin closed[t]
                          /\ \A q \in net' \ {p} : q.token # p.token
        BY <2>1 DEF Unread, Pending
      <4>1. p \in net \ {r} /\ p.token # s
        BY <3>1, <3>3, <3>4
      <4> QED BY <4>1, <3>1, <3>3, <3>6 DEF Inv, Unread
    <3>9. SignedOut'
      BY <2>1, <3>1, <3>4, <3>6 DEF Inv, SignedOut
    <3> QED BY <3>5, <3>7, <3>8, <3>9 DEF Inv
  <2> QED BY <2>2, <2>3
<1>7. CASE LoggedOut(r, st)
  <2>1. /\ mem' = [mem EXCEPT ![r.tab] = None] /\ stored' = None /\ net' = net \ {r}
        /\ at' \in [Tabs -> Pages \cup {"login"}] /\ r.op = "logout"
        /\ closed' = [closed EXCEPT ![r.tab] = @ \cup ({r.token} \cap Sessions)]
    BY <1>1, <1>7 DEF LoggedOut, ClearToken, SetToken, Conclude
  <2>2. /\ closed \in [Tabs -> SUBSET issued] /\ Known(r.token) /\ issued \subseteq Sessions
    BY DEF Inv, AllKnown, TypeOK
  <2>3. mem' \in [Tabs -> Tokens] /\ mem'[r.tab] = None /\ \A t \in Tabs \ {r.tab} : mem'[t] = mem[t]
    BY <1>1, <2>1
  <2>4. /\ closed' \in [Tabs -> SUBSET issued]
        /\ closed'[r.tab] = closed[r.tab] \cup ({r.token} \cap Sessions)
        /\ \A t \in Tabs \ {r.tab} : closed'[t] = closed[t]
    BY <1>1, <2>1, <2>2 DEF Known
  <2>5. TypeOK'
    BY <1>1, <2>1, <2>3 DEF Inv, TypeOK, Flights, Tokens, serverVars
  <2>6. AllKnown'
    BY <1>1, <2>1, <2>3, <2>4 DEF Inv, AllKnown, Known, serverVars
  <2>7. Unread'
    <3> SUFFICES ASSUME NEW p \in net', Pending(p)
                 PROVE  /\ p.token \in Sessions /\ stored' # p.token
                        /\ \A t \in Tabs : mem'[t] # p.token /\ p.token \notin closed'[t]
                        /\ \A q \in net' \ {p} : q.token # p.token
      BY DEF Unread, Pending
    <3>1. p \in net /\ r \in net \ {p}
      BY <2>1 DEF Pending
    <3>2. p.token # r.token /\ p.token \in Sessions
      BY <3>1 DEF Inv, Unread
    <3> QED BY <3>1, <3>2, <2>1, <2>3, <2>4 DEF Inv, Unread
  <2>8. SignedOut'
    BY <2>1, <2>2, <2>3, <2>4 DEF Inv, SignedOut
  <2> QED BY <2>5, <2>6, <2>7, <2>8 DEF Inv
<1> QED BY <1>3, <1>4, <1>5, <1>6, <1>7 DEF Conclude

-----------------------------------------------------------------------------
LEMMA StepInv == Inv /\ [Next]_vars => Inv'
<1> SUFFICES ASSUME Inv, [Next]_vars PROVE Inv'
  OBVIOUS
<1>1. CASE \E t \in Tabs : User(t) \/ Interval(t)
  BY <1>1, UserInv
<1>2. CASE \E r \in net : Handle(r)
  BY <1>2, ServerInv
<1>3. ASSUME NEW r \in net, Lose(r) PROVE Inv'
  BY <1>3, AnswerInv DEF Lose
<1>4. ASSUME NEW r \in net, Answer(r) PROVE Inv'
  BY <1>4, AnswerInv DEF Answer, Served
<1>5. ASSUME NEW s \in Sessions, Expire(s) PROVE Inv'
  BY <1>5, Moving DEF Expire, Inv, TypeOK, Flights
<1>6. CASE SwitchLogin
  BY <1>6, Moving DEF SwitchLogin, Inv, TypeOK, Flights
<1>7. CASE UNCHANGED vars
  BY <1>7, Moving DEF vars, serverVars, Inv, TypeOK, Flights
<1> QED BY <1>1, <1>2, <1>3, <1>4, <1>5, <1>6, <1>7 DEF Next

\* The types hold, and a session whose logout a tab has seen through is never in that
\* tab's memory again, nor in the storage.
THEOREM SessionsStayOut == Spec => []SignedOutStaysOut
<1>1. Inv => SignedOutStaysOut
  BY DEF Inv, SignedOut, SignedOutStaysOut
<1> QED BY <1>1, InitInv, StepInv, PTL DEF Spec
=============================================================================
