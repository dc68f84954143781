---------------------------- MODULE AdminConsole ---------------------------
(***************************************************************************)
(* Signing in to the admin web interface (web/app): the composables useApi *)
(* and useUi, the login page, the layout with its gate and its logout      *)
(* button, and what the other pages send, in several tabs of one browser.  *)
(*                                                                         *)
(* A tab keeps its token in memory and all tabs share one in local         *)
(* storage; a tab looks there only when its own is empty.  The server      *)
(* accepts any caller while login is off and a live session while it is    *)
(* on (module AdminAuth has that side in full).                            *)
(***************************************************************************)
EXTENDS Naturals, FiniteSets

CONSTANTS
  Tabs,
  Sessions,    \* session tokens, each issued at most once
  Typed,       \* whatever is typed into the box for a token
  None,        \* the empty token
  MaxNet,      \* bound: requests on their way when the user sends one
  MaxFails,    \* bound: requests the network loses
  MaxSwitches  \* bound: times login is switched on or off

ASSUME ConsoleAssumption ==
  /\ Typed \notin Sessions /\ None \notin Sessions /\ Typed # None
  /\ MaxNet \in Nat /\ MaxFails \in Nat /\ MaxSwitches \in Nat

VARIABLES
  loginOn,   \* server: LoginAllowed()
  valid,     \* server: the live sessions
  issued,    \* server: the sessions ever issued
  stored,    \* local storage, liapi_admin_token
  mem,       \* per tab, the token in memory
  at,        \* per tab, the page
  net,       \* the requests on their way
  fails, switches,
  closed     \* history, per tab: the sessions whose logout it has finished

serverVars == <<loginOn, valid, issued>>
vars == <<serverVars, stored, mem, at, net, fails, switches, closed>>

Tokens == Sessions \cup {Typed, None}

\* "list" stands for the pages that load a list and change it.
Pages == {"overview", "list"}

Flight(t, op, token) == [tab |-> t, op |-> op, token |-> token, st |-> "sent"]

TypeOK ==
  /\ valid \subseteq issued /\ issued \subseteq Sessions
  /\ stored \in Tokens /\ mem \in [Tabs -> Tokens]
  /\ at \in [Tabs -> Pages \cup {"login"}]
  /\ net \subseteq [tab : Tabs, op : {"load", "save", "login", "me", "logout"},
                    token : Tokens, st : {"sent", "ok", "refused"}]

Init ==
  /\ loginOn \in BOOLEAN /\ valid = {} /\ issued = {}
  /\ stored = None /\ mem = [t \in Tabs |-> None] /\ at = [t \in Tabs |-> "login"]
  /\ net = {} /\ fails = 0 /\ switches = 0
  /\ closed = [t \in Tabs |-> {}]

-----------------------------------------------------------------------------
\* Tokens in the browser.

\* loadToken: what the tab has once it has looked.
Held(t) == IF mem[t] # None THEN mem[t] ELSE stored

Adopt(t) == mem' = [mem EXCEPT ![t] = Held(t)] /\ UNCHANGED stored

\* setToken and clearToken; clearing drops the stored token, whoever put it there.
SetToken(t, token) == mem' = [mem EXCEPT ![t] = token] /\ stored' = token
ClearMemory(t) == mem' = [mem EXCEPT ![t] = None] /\ UNCHANGED stored
ClearToken(t) == SetToken(t, None)

HasRoom == Cardinality(net) < MaxNet

\* raw looks for a token first; two equal requests at once are not told apart.
Request(t, op) ==
  /\ Flight(t, op, Held(t)) \notin net
  /\ net' = net \cup {Flight(t, op, Held(t))}
  /\ Adopt(t)

\* The login page asks for login-info as it comes, and so adopts a stored token.
GoLogin(t) == at' = [at EXCEPT ![t] = "login"] /\ Adopt(t)

\* The gate of the layout, where the layout is mounted.
Gated(t, p) == at' = [at EXCEPT ![t] = IF Held(t) = None THEN "login" ELSE p]

-----------------------------------------------------------------------------
\* The user.

\* The document is loaded anew: what was on its way is dropped, and the page
\* mounts, and asks, before the gate of the layout.
Boot(t, p) ==
  /\ mem' = [mem EXCEPT ![t] = stored]
  /\ at' = [at EXCEPT ![t] = IF stored = None THEN "login" ELSE p]
  /\ net' = {r \in net : r.tab # t}
            \cup (IF p = "login" THEN {} ELSE {Flight(t, "load", stored)})
  /\ Cardinality(net') <= MaxNet
  /\ UNCHANGED <<serverVars, stored, fails, switches, closed>>

\* Another page, by the sidebar, where the layout stays; from the login page by
\* the browser's history, where it is mounted.
Visit(t, p) ==
  /\ at[t] # p
  /\ IF at[t] = "login" THEN Gated(t, p) ELSE at' = [at EXCEPT ![t] = p]
  /\ HasRoom /\ Request(t, "load")
  /\ UNCHANGED <<serverVars, fails, switches, closed>>

SwitchAccount(t) ==
  /\ at[t] # "login" /\ GoLogin(t)
  /\ UNCHANGED <<serverVars, net, fails, switches, closed>>

\* Every 4 seconds on the overview.
Interval(t) ==
  /\ at[t] = "overview" /\ Request(t, "load")
  /\ UNCHANGED <<serverVars, at, fails, switches, closed>>

\* A reload, a filter, or a change that has been confirmed.
Act(t, op) ==
  /\ at[t] = "list" /\ HasRoom /\ Request(t, op)
  /\ UNCHANGED <<serverVars, at, fails, switches, closed>>

\* Enter in a box submits the form while it is busy, too.
SubmitPassword(t) ==
  /\ at[t] = "login" /\ HasRoom
  /\ Flight(t, "login", None) \notin net
  /\ net' = net \cup {Flight(t, "login", None)}
  /\ UNCHANGED <<serverVars, stored, mem, at, fails, switches, closed>>

\* The text is stored first and tried against /me then.
SubmitToken(t) ==
  /\ at[t] = "login" /\ HasRoom
  /\ Flight(t, "me", Typed) \notin net
  /\ SetToken(t, Typed)
  /\ net' = net \cup {Flight(t, "me", Typed)}
  /\ UNCHANGED <<serverVars, at, fails, switches, closed>>

\* The server is told first, when there is anything to tell it.
Logout(t) ==
  /\ at[t] # "login"
  /\ IF mem[t] = None
     THEN ClearToken(t) /\ at' = [at EXCEPT ![t] = "login"] /\ UNCHANGED net
     ELSE HasRoom /\ Request(t, "logout") /\ UNCHANGED at
  /\ UNCHANGED <<serverVars, fails, switches, closed>>

-----------------------------------------------------------------------------
\* The server, and the way to it.

Authentic(token) == ~loginOn \/ token \in valid

Becomes(r, st) == net' = (net \ {r}) \cup {[r EXCEPT !.st = st]}

\* Requests that only depend on the token are served as they are answered: a token
\* that is refused is refused later, too, unless login is switched off.
Served(r, st) ==
  IF r.op \in {"login", "logout"} THEN r.st = st
  ELSE st = IF Authentic(r.token) THEN "ok" ELSE "refused"

ServeLogin(r) ==
  /\ r.st = "sent" /\ r.op = "login" /\ loginOn
  /\ \E s \in Sessions \ issued :
       /\ issued' = issued \cup {s} /\ valid' = valid \cup {s}
       /\ net' = (net \ {r}) \cup {[r EXCEPT !.st = "ok", !.token = s]}
  /\ UNCHANGED <<loginOn, stored, mem, at, fails, switches, closed>>

RefuseLogin(r) ==
  /\ r.st = "sent" /\ r.op = "login" /\ Becomes(r, "refused")
  /\ UNCHANGED <<serverVars, stored, mem, at, fails, switches, closed>>

ServeLogout(r) ==
  /\ r.st = "sent" /\ r.op = "logout" /\ Becomes(r, "ok")
  /\ valid' = valid \ {r.token}
  /\ UNCHANGED <<loginOn, issued, stored, mem, at, fails, switches, closed>>

Handle(r) == ServeLogin(r) \/ RefuseLogin(r) \/ ServeLogout(r)

\* Sessions expire, and are gone when the server restarts.
Expire(s) ==
  /\ s \in valid /\ valid' = valid \ {s}
  /\ UNCHANGED <<loginOn, issued, stored, mem, at, net, fails, switches, closed>>

SwitchLogin ==
  /\ switches < MaxSwitches /\ switches' = switches + 1
  /\ loginOn' = ~loginOn
  /\ UNCHANGED <<valid, issued, stored, mem, at, net, fails, closed>>

-----------------------------------------------------------------------------
\* The answers, wherever the tab is by then; st is "failed" when the request or
\* its answer was lost.

\* Mutant: every error is only a message.
HandleErrorQuietly(r, st) == UNCHANGED <<at, mem, stored>>

\* handleError: unauthorized goes to the login page, the rest is a message.
HandleError(r, st) == IF st = "refused" THEN GoLogin(r.tab) ELSE UNCHANGED <<at, mem, stored>>

Loaded(r, st) ==
  /\ r.op = "load" /\ net' = net \ {r}
  /\ HandleError(r, st)

\* Done, the page asks for its list again.
Saved(r, st) ==
  /\ r.op = "save"
  /\ IF st = "ok"
     THEN /\ net' = (net \ {r}) \cup {Flight(r.tab, "load", Held(r.tab))}
          /\ Adopt(r.tab) /\ UNCHANGED at
     ELSE net' = net \ {r} /\ HandleError(r, st)

\* On to the page that sent the user here, which asks for what it shows.
Enter(r, token) ==
  \E p \in Pages :
    /\ at' = [at EXCEPT ![r.tab] = IF token = None THEN "login" ELSE p]
    /\ net' = (net \ {r}) \cup {Flight(r.tab, "load", token)}

LoggedIn(r, st) ==
  /\ r.op = "login"
  /\ IF st = "ok"
     THEN SetToken(r.tab, r.token) /\ Enter(r, r.token)
     ELSE net' = net \ {r} /\ UNCHANGED <<at, mem, stored>>

\* A token that was not confirmed is cleared, whatever the reason.
Verified(r, st) ==
  /\ r.op = "me"
  /\ IF st = "ok"
     THEN Adopt(r.tab) /\ Enter(r, Held(r.tab))
     ELSE net' = net \ {r} /\ ClearToken(r.tab) /\ UNCHANGED at

\* Mutant: the storage keeps the token.
LoggedOutInMemory(r, st) ==
  /\ r.op = "logout" /\ net' = net \ {r}
  /\ ClearMemory(r.tab) /\ at' = [at EXCEPT ![r.tab] = "login"]

\* The logout has been answered or has failed: the token is cleared, the one the
\* tab has by now.
LoggedOut(r, st) ==
  /\ r.op = "logout" /\ net' = net \ {r}
  /\ ClearToken(r.tab) /\ at' = [at EXCEPT ![r.tab] = "login"]

Conclude(r, st) ==
  /\ \/ Loaded(r, st) \/ Saved(r, st)
     \/ LoggedIn(r, st) \/ Verified(r, st) \/ LoggedOut(r, st)
  /\ closed' = IF r.op = "logout"
               THEN [closed EXCEPT ![r.tab] = @ \cup ({r.token} \cap Sessions)] ELSE closed
  /\ UNCHANGED <<serverVars, switches>>

Answer(r) ==
  \E st \in {"ok", "refused"} : Served(r, st) /\ Conclude(r, st) /\ UNCHANGED fails
Lose(r) == fails < MaxFails /\ fails' = fails + 1 /\ Conclude(r, "failed")

-----------------------------------------------------------------------------
User(t) ==
  \/ \E p \in Pages \cup {"login"} : Boot(t, p)
  \/ \E p \in Pages : Visit(t, p)
  \/ \E op \in {"load", "save"} : Act(t, op)
  \/ SwitchAccount(t) \/ Logout(t)
  \/ SubmitPassword(t) \/ SubmitToken(t)

Next ==
  \/ \E t \in Tabs : User(t) \/ Interval(t)
  \/ \E r \in net : Handle(r) \/ Lose(r) \/ Answer(r)
  \/ \E s \in Sessions : Expire(s)
  \/ SwitchLogin

\* The timer fires again, and requests are answered or fail; strong, since loading
\* the document anew drops what is on its way, and nobody does so forever before
\* the answers come.
Fairness ==
  \A t \in Tabs :
    /\ WF_vars(Interval(t))
    /\ SF_vars(\E r \in net : r.tab = t /\ Answer(r))

Spec == Init /\ [][Next]_vars /\ Fairness

-----------------------------------------------------------------------------
\* A session whose logout a tab has seen through never comes back to it: not in
\* its memory and not through the storage it would adopt a token from, whatever
\* other tabs and late answers do in between (useApi.ts:97, "Invalidate the current
\* session server-side, then clear it locally").
SignedOutStaysOut ==
  TypeOK /\ \A t \in Tabs : \A s \in closed[t] : mem[t] # s /\ stored # s

\* A tab left on the overview without a token the server accepts does not stay
\* there: one of its timed loads is refused, and handleError takes it to the login
\* page (useUi.ts:33, index.vue:20), unless it becomes accepted again first.
RefusedTabsLeave ==
  \A t \in Tabs :
    (at[t] = "overview" /\ ~Authentic(Held(t)))
      ~> (at[t] # "overview" \/ Authentic(Held(t)))
=============================================================================
