-------------------------- MODULE AdminAuthProofs --------------------------
(***************************************************************************)
(* Proofs about AdminAuth, for any number of addresses, handlers and       *)
(* sessions and any limits and times: a lock is earned, only requests      *)
(* already past the check slip by one, and sessions last exactly their     *)
(* time.                                                                   *)
(***************************************************************************)
EXTENDS AdminAuth, FiniteSetTheorems, TLAPS

Kinds == {"login", "api", "logout", "metrics"}
Places == {"idle", "check", "verify", "issue", "auth", "session", "fail", "clear", "logout"}
Locks == [fails : Nat, start : 0 .. MaxTime, until : 0 .. MaxTime + LockTime]
Reqs == [pc : Places, kind : Kinds, ip : IPs, cred : Sessions \cup {NoSession}, seen : Nat]

\* TypeOK, but for the count.
Types ==
  /\ now \in 0 .. MaxTime /\ loginOn \in BOOLEAN
  /\ locks \in [IPs -> Locks]
  /\ expires \in [Sessions -> 0 .. Gone]
  /\ req \in [Requests -> Reqs]
  /\ arrivals \in 0 .. MaxArrivals
  /\ failures \in [IPs -> Seq(0 .. MaxTime)]
  /\ imposed \in [IPs -> Nat]
  /\ granted \in [Sessions -> [at : 0 .. Gone, out : BOOLEAN]]

\* The failures that count, the last locks[ip].fails of them, lie in one window.
Counted(L, F) ==
  /\ L.fails <= Len(F)
  /\ \A i \in Len(F) - L.fails + 1 .. Len(F) : L.start <= F[i] /\ F[i] <= L.start + FailWindow

Earned(L, F) ==
  L.until > 0 =>
    \E j \in MaxFails .. Len(F) :
      F[j] + LockTime = L.until /\ F[j - MaxFails + 1] + FailWindow >= F[j]

\* What the counter of each address stands for.
LockInv ==
  \A ip \in IPs :
    /\ locks[ip].start <= now
    /\ Counted(locks[ip], failures[ip]) /\ Earned(locks[ip], failures[ip])

\* Where a request can be: a credential that is looked up is a session's, and a
\* scrape of /metrics never reaches the counter.
ReqInv ==
  \A r \in Requests :
    /\ req[r].pc \in {"session", "logout"} => req[r].cred \in Sessions
    /\ req[r].pc \in {"verify", "issue"} => req[r].kind = "login"
    /\ req[r].pc \in {"check", "fail", "clear"} => req[r].kind # "metrics"

\* A request past the check knows how many locks there had been, and there has been
\* another one since if its address is locked.
SlipInv ==
  \A r \in Requests :
    req[r].pc \in {"verify", "issue", "auth", "session", "fail", "clear"}
      /\ req[r].kind # "metrics" =>
      /\ req[r].seen <= imposed[req[r].ip]
      /\ Locked(req[r].ip) => req[r].seen < imposed[req[r].ip]

\* An entry is kept while its session lasts, with the right time, and only of sessions
\* that are not logged out.
SessionInv ==
  \A s \in Sessions :
    /\ granted[s] # Never /\ ~granted[s].out => granted[s].at <= now
    /\ expires[s] # Gone =>
         granted[s] # Never /\ ~granted[s].out /\ expires[s] = granted[s].at + TTL
    /\ granted[s] # Never /\ ~granted[s].out /\ now <= granted[s].at + TTL =>
         expires[s] = granted[s].at + TTL

Inv == Types /\ LockInv /\ ReqInv /\ SlipInv /\ SessionInv

USE AuthAssumption, ClockAssumption

-----------------------------------------------------------------------------
LEMMA Earlier ==
  ASSUME NEW a \in Nat, NEW k \in Nat, k <= a, NEW i \in Int,
         i >= a + 1 - (k + 1) + 1, i <= a + 1, i # a + 1
  PROVE  i \in a - k + 1 .. a /\ i \in 1 .. a
OBVIOUS

\* A failure keeps the counter true to the failures recorded, in a window that goes
\* on or a new one.
LEMMA CounterKeeps ==
  ASSUME NEW L \in Locks, NEW F \in Seq(0 .. MaxTime), NEW time \in 0 .. MaxTime,
         NEW M \in Locks, NEW n \in Nat, NEW fresh \in BOOLEAN,
         Counted(L, F), Earned(L, F),
         fresh <=> (L.fails = 0 \/ time - L.start > FailWindow),
         L.start <= time,
         n = IF fresh THEN 1 ELSE L.fails + 1,
         M.fails = n, M.start = IF fresh THEN time ELSE L.start,
         M.until = IF n >= MaxFails THEN time + LockTime ELSE L.until
  PROVE  Counted(M, Append(F, time)) /\ Earned(M, Append(F, time))
<1> DEFINE G == Append(F, time)
<1>1. /\ Len(G) = Len(F) + 1 /\ G[Len(F) + 1] = time
      /\ \A i \in 1 .. Len(F) : G[i] = F[i]
  OBVIOUS
<1>2. Len(F) \in Nat /\ \A i \in 1 .. Len(F) : F[i] \in Nat
  OBVIOUS
<1> HIDE DEF G
<1>3. time \in Nat /\ Len(G) \in Nat
  BY <1>2, <1>1
<1>4. \A i \in 1 .. Len(G) : G[i] \in Nat
  <2> SUFFICES ASSUME NEW i \in 1 .. Len(G) PROVE G[i] \in Nat
    OBVIOUS
  <2>1. CASE i = Len(F) + 1
    BY <2>1, <1>1, <1>3
  <2>2. CASE i # Len(F) + 1
    BY <2>2, <1>2, <1>1, <1>3
  <2> QED BY <2>1, <2>2
<1>5. L.fails \in Nat /\ L.start \in 0 .. MaxTime /\ L.until \in 0 .. MaxTime + LockTime
      /\ MaxTime \in Nat /\ LockTime \in Nat /\ FailWindow \in Nat /\ MaxFails \in Nat /\ MaxFails > 1
  BY DEF Locks
<1>6. /\ M.fails = n /\ M.start = IF fresh THEN time ELSE L.start
      /\ M.until = IF n >= MaxFails THEN time + LockTime ELSE L.until
  OBVIOUS
<1>7. Counted(M, G)
  <2>1. CASE fresh
    BY <2>1, <1>1, <1>5, <1>6 DEF Counted
  <2>2. CASE ~fresh
    <3>1. n = L.fails + 1 /\ M.start = L.start /\ time <= L.start + FailWindow
      BY <2>2, <1>5, <1>6
    <3>2. L.fails <= Len(F) /\ M.fails = L.fails + 1
      BY <3>1, <1>6 DEF Counted
    <3>3. ASSUME NEW i \in Len(G) - M.fails + 1 .. Len(G)
          PROVE  M.start <= G[i] /\ G[i] <= M.start + FailWindow
      <4>1. CASE i = Len(F) + 1
        BY <4>1, <3>1, <1>1, <1>5
      <4>2. CASE i # Len(F) + 1
        <5>1. i \in Len(F) - L.fails + 1 .. Len(F) /\ i \in 1 .. Len(F)
          <6>1. Len(G) = Len(F) + 1 /\ Len(F) \in Nat
            BY <1>1, <1>2
          <6>2. i \in Int /\ i >= Len(F) + 1 - (L.fails + 1) + 1 /\ i <= Len(F) + 1
            BY <6>1, <3>2, <1>5
          <6> QED BY <6>1, <6>2, <4>2, <3>2, <1>5, Earlier
        <5> QED BY <5>1, <3>1, <1>1 DEF Counted
      <4> QED BY <4>1, <4>2
    <3>4. M.fails <= Len(G)
      BY <3>2, <1>1, <1>2, <1>5
    <3> QED BY <3>3, <3>4 DEF Counted
  <2> QED BY <2>1, <2>2
<1>8. Earned(M, G)
  <2>1. CASE n >= MaxFails
    <3>1. ~fresh /\ n = L.fails + 1 /\ time <= L.start + FailWindow
      BY <2>1, <1>5
    <3>2. /\ MaxFails <= Len(G) /\ Len(G) - MaxFails + 1 \in Len(G) - M.fails + 1 .. Len(G)
          /\ Len(G) - MaxFails + 1 \in 1 .. Len(G)
      <4>1. L.fails <= Len(F) /\ M.fails = n
        BY <1>6 DEF Counted
      <4>2. Len(G) = Len(F) + 1 /\ Len(F) \in Nat
        BY <1>1, <1>2
      <4>3. n <= Len(G) /\ MaxFails <= n /\ MaxFails > 1 /\ Len(G) \in Nat /\ MaxFails \in Nat
        BY <4>1, <4>2, <2>1, <3>1, <1>5
      <4> QED BY <4>1, <4>3
    <3>3. G[Len(G)] + LockTime = M.until
      BY <2>1, <1>1, <1>6
    <3>4. G[Len(G) - MaxFails + 1] >= L.start
      BY <3>1, <3>2, <1>1, <1>5, <1>6, <1>7 DEF Counted
    <3>5. G[Len(G) - MaxFails + 1] \in Nat
      BY <3>2, <1>4
    <3>6. Len(G) \in MaxFails .. Len(G) /\ G[Len(G)] = time
      BY <3>2, <1>1, <1>2, <1>5
    <3>7. G[Len(G) - MaxFails + 1] + FailWindow >= G[Len(G)]
      BY <3>1, <3>4, <3>5, <3>6, <1>5
    <3> QED BY <3>3, <3>6, <3>7 DEF Earned
  <2>2. CASE ~(n >= MaxFails)
    <3>1. M.until = L.until
      BY <2>2, <1>6
    <3>2. SUFFICES ASSUME L.until > 0
                   PROVE  \E j \in MaxFails .. Len(G) :
                            G[j] + LockTime = L.until /\ G[j - MaxFails + 1] + FailWindow >= G[j]
      BY <3>1 DEF Earned
    <3>3. PICK j \in MaxFails .. Len(F) :
             F[j] + LockTime = L.until /\ F[j - MaxFails + 1] + FailWindow >= F[j]
      BY <3>2 DEF Earned
    <3>4. j \in MaxFails .. Len(G) /\ j \in 1 .. Len(F) /\ j - MaxFails + 1 \in 1 .. Len(F)
      BY <1>1, <1>5
    <3> QED BY <3>3, <3>4, <1>1
  <2> QED BY <2>1, <2>2
<1> QED BY <1>7, <1>8 DEF G

-----------------------------------------------------------------------------
LEMMA InitInv == Init => Inv
<1> SUFFICES ASSUME Init PROVE Inv
  OBVIOUS
<1>1. Rest \in Reqs /\ Unlocked \in Locks /\ Never \in [at : 0 .. Gone, out : BOOLEAN]
  BY DEF Rest, Reqs, Places, Kinds, Unlocked, Locks, Never, Gone
<1>2. Types
  BY <1>1 DEF Init, Types, Gone
<1>3. LockInv
  BY DEF Init, LockInv, Counted, Earned, Unlocked
<1>4. ReqInv /\ SlipInv
  BY DEF Init, ReqInv, SlipInv, Rest
<1>5. SessionInv
  BY DEF Init, SessionInv
<1> QED BY <1>2, <1>3, <1>4, <1>5 DEF Inv

\* What a step leaves alone stays true.
LEMMA SessionsRest ==
  ASSUME SessionInv, UNCHANGED <<now, sessionVars>>
  PROVE  SessionInv'
BY DEF SessionInv, sessionVars, Gone, Never

LEMMA LocksRest ==
  ASSUME LockInv, UNCHANGED <<now, lockVars>>
  PROVE  LockInv'
BY DEF LockInv, lockVars, Counted, Earned

\* One request moves; it was past the check before, or it is not now.
LEMMA Moves ==
  ASSUME Types, ReqInv, SlipInv, NEW r \in Requests, NEW q \in Reqs,
         req' = [req EXCEPT ![r] = q], UNCHANGED <<now, locks, imposed>>,
         q.pc \in {"session", "logout"} => q.cred \in Sessions,
         q.pc \in {"verify", "issue"} => q.kind = "login",
         q.pc \in {"check", "fail", "clear"} => q.kind # "metrics",
         \/ q.pc \in {"idle", "check", "logout"} \/ q.kind = "metrics"
         \/ q.seen = imposed[q.ip] /\ ~Locked(q.ip)
         \/ /\ req[r].pc \in {"verify", "issue", "auth", "session", "fail", "clear"}
            /\ q.kind = req[r].kind /\ q.ip = req[r].ip /\ q.seen = req[r].seen
  PROVE  req' \in [Requests -> Reqs] /\ ReqInv' /\ SlipInv'
<1>1. req \in [Requests -> Reqs] /\ req' \in [Requests -> Reqs]
  BY DEF Types
<1>2. req'[r] = q /\ \A x \in Requests \ {r} : req'[x] = req[x]
  BY <1>1
<1>3. ReqInv'
  BY <1>2 DEF ReqInv
<1>4. q.ip \in IPs /\ imposed[q.ip] \in Nat
  BY DEF Types, Reqs
<1>5. SlipInv'
  <2> SUFFICES ASSUME NEW x \in Requests,
                      req'[x].pc \in {"verify", "issue", "auth", "session", "fail", "clear"},
                      req'[x].kind # "metrics"
               PROVE  /\ req'[x].seen <= imposed[req'[x].ip]
                      /\ locks[req'[x].ip].until > now => req'[x].seen < imposed[req'[x].ip]
    BY DEF SlipInv, Locked
  <2>1. CASE x # r
    BY <2>1, <1>2 DEF SlipInv, Locked
  <2>2. CASE x = r
    BY <2>2, <1>2, <1>4 DEF SlipInv, Locked
  <2> QED BY <2>1, <2>2
<1> QED BY <1>1, <1>3, <1>5

\* The record of a handler that is free.
LEMMA Resting == Rest \in Reqs /\ Rest.pc = "idle"
BY DEF Reqs, Rest, Places, Kinds

-----------------------------------------------------------------------------
LEMMA StepInv == Inv /\ [Next]_vars => Inv'
<1> SUFFICES ASSUME Inv, [Next]_vars PROVE Inv'
  OBVIOUS
<1> USE DEF Inv
<1>1. ASSUME NEW r \in Requests, NEW kind \in Kinds, NEW ip \in IPs,
             NEW cred \in Sessions \cup {NoSession}, Arrive(r, kind, ip, cred)
      PROVE  Inv'
  <2> DEFINE q == [pc |-> IF kind = "metrics" THEN "auth" ELSE "check",
                   kind |-> kind, ip |-> ip, cred |-> cred, seen |-> 0]
  <2>1. q \in Reqs /\ req' = [req EXCEPT ![r] = q] /\ arrivals' \in 0 .. MaxArrivals
    BY <1>1 DEF Arrive, Reqs, Places, Types
  <2>2. /\ q.pc \notin {"session", "logout", "verify", "issue", "fail", "clear"}
        /\ q.pc = "check" => q.kind # "metrics"
        /\ q.pc = "check" \/ q.kind = "metrics"
    OBVIOUS
  <2> HIDE DEF q
  <2>3. req' \in [Requests -> Reqs] /\ ReqInv' /\ SlipInv'
    BY <2>1, <2>2, <1>1, Moves DEF Arrive, lockVars
  <2>4. LockInv' /\ SessionInv'
    BY <1>1, LocksRest, SessionsRest DEF Arrive
  <2> QED BY <1>1, <2>1, <2>3, <2>4 DEF Arrive, Types, lockVars, sessionVars, Gone
<1>2. ASSUME NEW r \in Requests, Check(r) PROVE Inv'
  <2>1. LockInv' /\ SessionInv'
    BY <1>2, LocksRest, SessionsRest DEF Check
  <2>2. req' \in [Requests -> Reqs] /\ ReqInv' /\ SlipInv'
    <3>1. CASE Finish(r)
      BY <3>1, <1>2, Moves, Resting DEF Check, Finish, lockVars, Places
    <3>2. CASE ~Finish(r)
      <4> DEFINE q == [req[r] EXCEPT !.pc = IF req[r].kind = "login" THEN "verify" ELSE "auth",
                                     !.seen = imposed[req[r].ip]]
      <4>1. req' = [req EXCEPT ![r] = q] /\ ~Locked(req[r].ip)
        BY <1>2, <3>2 DEF Check, Types
      <4>2. /\ q \in Reqs /\ q.ip = req[r].ip /\ q.kind = req[r].kind
            /\ q.seen = imposed[req[r].ip]
            /\ q.pc = IF req[r].kind = "login" THEN "verify" ELSE "auth"
        BY DEF Types, Reqs, Places
      <4> HIDE DEF q
      <4> QED BY <4>1, <4>2, <1>2, Moves DEF Check, lockVars
    <3> QED BY <3>1, <3>2
  <2> QED BY <1>2, <2>1, <2>2 DEF Check, Types, lockVars, sessionVars, Gone
<1>3. ASSUME NEW r \in Requests, Verify(r) PROVE Inv'
  <2>1. LockInv' /\ SessionInv'
    BY <1>3, LocksRest, SessionsRest DEF Verify
  <2>2. PICK place \in {"fail", "issue"} : Goto(r, place)
    BY <1>3 DEF Verify
  <2> DEFINE q == [req[r] EXCEPT !.pc = place]
  <2>3. /\ q \in Reqs /\ q.pc = place /\ q.ip = req[r].ip /\ q.kind = req[r].kind
        /\ q.seen = req[r].seen /\ req' = [req EXCEPT ![r] = q]
    BY <2>2 DEF Types, Reqs, Places, Goto
  <2>4. req[r].pc = "verify" /\ q.kind = "login"
    BY <1>3, <2>3 DEF Verify, ReqInv
  <2> HIDE DEF q
  <2>5. req' \in [Requests -> Reqs] /\ ReqInv' /\ SlipInv'
    BY <1>3, <2>3, <2>4, Moves DEF Verify, lockVars
  <2> QED BY <1>3, <2>1, <2>5 DEF Verify, Types, lockVars, sessionVars, Gone
<1>4. ASSUME NEW r \in Requests, NEW s \in Sessions, Issue(r, s) PROVE Inv'
  <2>1. LockInv'
    BY <1>4, LocksRest DEF Issue
  <2>2. req' \in [Requests -> Reqs] /\ ReqInv' /\ SlipInv'
    <3>1. req[r].pc = "issue" /\ req[r].kind = "login"
      BY <1>4 DEF Issue, ReqInv
    <3> DEFINE q == [req[r] EXCEPT !.pc = "clear"]
    <3>2. /\ q \in Reqs /\ q.pc = "clear" /\ q.ip = req[r].ip /\ q.kind = req[r].kind
          /\ q.seen = req[r].seen /\ req' = [req EXCEPT ![r] = q]
      BY <1>4 DEF Types, Reqs, Places, Goto, Issue
    <3> HIDE DEF q
    <3> QED BY <3>1, <3>2, <1>4, Moves DEF Issue, lockVars
  <2>3. now \in 0 .. MaxTime /\ now + TTL \in 0 .. Gone /\ now + TTL # Gone /\ now # Gone
        /\ Gone \in Nat /\ TTL \in Nat
    BY DEF Types, Gone
  <2>4. /\ granted'[s] = [at |-> now, out |-> FALSE] /\ expires'[s] = now + TTL
        /\ \A x \in Sessions \ {s} :
             /\ granted'[x] = granted[x]
             /\ expires'[x] = IF Expired(x) THEN Gone ELSE expires[x]
    <3>1. granted \in [Sessions -> [at : 0 .. Gone, out : BOOLEAN]] /\ granted[s] = Never
      BY <1>4 DEF Issue, Types
    <3>2. granted'[s] = [Never EXCEPT !.at = now]
      BY <1>4, <3>1 DEF Issue
    <3> QED BY <1>4, <3>1, <3>2 DEF Issue, Types, Never
  <2>5. /\ expires' \in [Sessions -> 0 .. Gone]
        /\ granted' \in [Sessions -> [at : 0 .. Gone, out : BOOLEAN]]
    <3>1. \A x \in Sessions : expires[x] \in 0 .. Gone
      BY DEF Types
    <3>2. expires' \in [Sessions -> 0 .. Gone]
      BY <1>4, <2>3, <3>1 DEF Issue
    <3>3. granted' \in [Sessions -> [at : 0 .. Gone, out : BOOLEAN]]
      <4>1. [granted[s] EXCEPT !.at = now] \in [at : 0 .. Gone, out : BOOLEAN]
        <5>1. granted[s] \in [at : 0 .. Gone, out : BOOLEAN] /\ now \in 0 .. Gone
          BY <2>3 DEF Types
        <5> QED BY <5>1
      <4>2. granted' = [granted EXCEPT ![s] = [granted[s] EXCEPT !.at = now]]
        BY <1>4 DEF Issue
      <4> QED BY <4>1, <4>2 DEF Types
    <3> QED BY <3>2, <3>3
  <2>6. SessionInv'
    <3> SUFFICES ASSUME NEW x \in Sessions
                 PROVE  /\ granted'[x] # Never /\ ~granted'[x].out => granted'[x].at <= now
                        /\ expires'[x] # Gone =>
                             granted'[x] # Never /\ ~granted'[x].out /\ expires'[x] = granted'[x].at + TTL
                        /\ granted'[x] # Never /\ ~granted'[x].out /\ now <= granted'[x].at + TTL =>
                             expires'[x] = granted'[x].at + TTL
      BY <1>4 DEF Issue, SessionInv, Never, Gone
    <3>1. CASE x = s
      BY <3>1, <2>3, <2>4 DEF Never
    <3>2. CASE x # s
      <4>1. expires[x] \in Nat /\ granted[x].at \in Nat
        BY <2>3 DEF Types
      <4> QED BY <3>2, <4>1, <2>3, <2>4 DEF SessionInv, Expired
    <3> QED BY <3>1, <3>2
  <2> QED BY <1>4, <2>1, <2>2, <2>5, <2>6 DEF Issue, Types, lockVars, Gone
<1>5. ASSUME NEW r \in Requests, Authenticate(r) PROVE Inv'
  <2>1. LockInv' /\ SessionInv'
    BY <1>5, LocksRest, SessionsRest DEF Authenticate
  <2>2. req' \in [Requests -> Reqs] /\ ReqInv' /\ SlipInv'
    <3>1. req[r].pc = "auth"
      BY <1>5 DEF Authenticate
    <3>2. CASE Finish(r)
      BY <3>2, <1>5, Moves, Resting DEF Authenticate, Finish, lockVars, Places
    <3>3. CASE ~Finish(r)
      <4>1. PICK place \in {"session", "fail", "clear"} :
              /\ Goto(r, place)
              /\ place = "session" => req[r].cred # NoSession
              /\ place # "session" => req[r].kind # "metrics"
        BY <3>3, <1>5 DEF Authenticate, Accept, Refuse
      <4> DEFINE q == [req[r] EXCEPT !.pc = place]
      <4>2. /\ q \in Reqs /\ q.pc = place /\ q.ip = req[r].ip /\ q.kind = req[r].kind
            /\ q.seen = req[r].seen /\ req' = [req EXCEPT ![r] = q]
            /\ q.cred = req[r].cred /\ q.cred \in Sessions \cup {NoSession}
        BY <4>1 DEF Types, Reqs, Places, Goto
      <4> HIDE DEF q
      <4> QED BY <3>1, <4>1, <4>2, <1>5, Moves DEF Authenticate, lockVars
    <3> QED BY <3>2, <3>3
  <2> QED BY <1>5, <2>1, <2>2 DEF Authenticate, Types, lockVars, sessionVars, Gone
<1>6. ASSUME NEW r \in Requests, SessionValid(r) PROVE Inv'
  <2> DEFINE s == req[r].cred
  <2>1. s \in Sessions /\ req[r].pc = "session"
    BY <1>6 DEF SessionValid, ReqInv
  <2>2. LockInv'
    BY <1>6, LocksRest DEF SessionValid
  <2>3. req' \in [Requests -> Reqs] /\ ReqInv' /\ SlipInv'
    <3>1. CASE Finish(r)
      BY <3>1, <1>6, Moves, Resting DEF SessionValid, Finish, lockVars, Places
    <3>2. CASE ~Finish(r)
      <4>1. PICK place \in {"fail", "clear"} : Goto(r, place) /\ req[r].kind # "metrics"
        BY <3>2, <1>6 DEF SessionValid, Accept, Refuse
      <4> DEFINE q == [req[r] EXCEPT !.pc = place]
      <4>2. /\ q \in Reqs /\ q.pc = place /\ q.ip = req[r].ip /\ q.kind = req[r].kind
            /\ q.seen = req[r].seen /\ req' = [req EXCEPT ![r] = q]
        BY <4>1 DEF Types, Reqs, Places, Goto
      <4> HIDE DEF q
      <4> QED BY <2>1, <4>1, <4>2, <1>6, Moves DEF SessionValid, lockVars
    <3> QED BY <3>1, <3>2
  <2>4. \/ UNCHANGED expires
        \/ expires' = [expires EXCEPT ![s] = Gone] /\ (expires[s] = Gone \/ Expired(s))
    BY <1>6 DEF SessionValid
  <2> HIDE DEF s
  <2>5. expires' \in [Sessions -> 0 .. Gone]
    BY <2>4 DEF Types, Gone
  <2>6. SessionInv'
    <3>1. CASE UNCHANGED expires
      BY <3>1, <1>6, SessionsRest DEF SessionValid, sessionVars
    <3>2. CASE expires' = [expires EXCEPT ![s] = Gone] /\ (expires[s] = Gone \/ Expired(s))
      <4> SUFFICES ASSUME NEW x \in Sessions
                   PROVE  /\ granted[x] # Never /\ ~granted[x].out => granted[x].at <= now
                          /\ expires'[x] # Gone =>
                               granted[x] # Never /\ ~granted[x].out /\ expires'[x] = granted[x].at + TTL
                          /\ granted[x] # Never /\ ~granted[x].out /\ now <= granted[x].at + TTL =>
                               expires'[x] = granted[x].at + TTL
        BY <1>6 DEF SessionValid, SessionInv, Never, Gone
      <4>1. CASE x # s
        BY <4>1, <3>2 DEF SessionInv, Types
      <4>2. CASE x = s
        <5>1. expires[x] \in Nat /\ granted[x].at \in Nat /\ now \in Nat /\ TTL \in Nat
          BY DEF Types, Gone
        <5>2. expires'[x] = Gone
          BY <4>2, <3>2 DEF Types
        <5> QED BY <4>2, <3>2, <5>1, <5>2 DEF SessionInv, Expired
      <4> QED BY <4>1, <4>2
    <3> QED BY <2>4, <3>1, <3>2
  <2> QED BY <1>6, <2>2, <2>3, <2>5, <2>6 DEF SessionValid, Types, lockVars, Gone
<1>7. ASSUME NEW r \in Requests, RecordFailure(r) PROVE Inv'
  <2> DEFINE ip == req[r].ip
             n == IF NewWindow(ip) THEN 1 ELSE locks[ip].fails + 1
             M == [fails |-> n,
                   start |-> IF NewWindow(ip) THEN now ELSE locks[ip].start,
                   until |-> IF n >= MaxFails THEN now + LockTime ELSE locks[ip].until]
  <2>1. /\ ip \in IPs /\ locks[ip] \in Locks /\ failures[ip] \in Seq(0 .. MaxTime)
        /\ now \in 0 .. MaxTime /\ imposed[ip] \in Nat
        /\ MaxTime \in Nat /\ LockTime \in Nat \ {0} /\ MaxFails \in Nat
    BY DEF Types, Reqs
  <2>2. /\ locks' = [locks EXCEPT ![ip] = M]
        /\ failures' = [failures EXCEPT ![ip] = Append(@, now)]
        /\ imposed' = [imposed EXCEPT ![ip] =
             IF n >= MaxFails /\ locks[ip].until <= now THEN @ + 1 ELSE @]
    BY <1>7 DEF RecordFailure, ReachesLimit
  <2>3. n \in Nat /\ M \in Locks
    BY <2>1 DEF Locks
  <2>4. /\ locks' \in [IPs -> Locks] /\ failures' \in [IPs -> Seq(0 .. MaxTime)]
        /\ imposed' \in [IPs -> Nat]
    BY <2>1, <2>2, <2>3 DEF Types
  <2>5. /\ locks'[ip] = M /\ failures'[ip] = Append(failures[ip], now)
        /\ imposed'[ip] = IF n >= MaxFails /\ locks[ip].until <= now THEN imposed[ip] + 1 ELSE imposed[ip]
        /\ \A a \in IPs \ {ip} :
             locks'[a] = locks[a] /\ failures'[a] = failures[a] /\ imposed'[a] = imposed[a]
    BY <2>1, <2>2 DEF Types
  <2>6. M.until = (IF n >= MaxFails THEN now + LockTime ELSE locks[ip].until) /\ M.start <= now
    BY <2>1 DEF LockInv
  <2>7. Counted(M, Append(failures[ip], now)) /\ Earned(M, Append(failures[ip], now))
    <3>1. NewWindow(ip) <=> (locks[ip].fails = 0 \/ now - locks[ip].start > FailWindow)
      BY DEF NewWindow
    <3>2. NewWindow(ip) \in BOOLEAN
      BY DEF NewWindow
    <3>3. Counted(locks[ip], failures[ip]) /\ Earned(locks[ip], failures[ip]) /\ locks[ip].start <= now
      BY <2>1 DEF LockInv
    <3> QED BY <2>1, <2>3, <3>1, <3>2, <3>3, CounterKeeps
  <2>8. req' = [req EXCEPT ![r] = Rest] /\ req' \in [Requests -> Reqs]
    BY <1>7, Resting DEF RecordFailure, Finish, Types, Places
  <2>9. req'[r] = Rest /\ \A x \in Requests \ {r} : req'[x] = req[x]
    BY <2>8 DEF Types
  <2> HIDE DEF M, n, ip
  <2>10. LockInv'
    BY <1>7, <2>5, <2>6, <2>7 DEF LockInv, RecordFailure
  <2>11. ReqInv'
    BY <2>9 DEF ReqInv, Rest
  <2>12. SlipInv'
    <3> SUFFICES ASSUME NEW x \in Requests,
                        req'[x].pc \in {"verify", "issue", "auth", "session", "fail", "clear"},
                        req'[x].kind # "metrics"
                 PROVE  /\ req'[x].seen <= imposed'[req'[x].ip]
                        /\ locks'[req'[x].ip].until > now => req'[x].seen < imposed'[req'[x].ip]
      BY <1>7 DEF SlipInv, Locked, RecordFailure
    <3>1. req'[x] = req[x] /\ req[x].ip \in IPs /\ req[x].seen \in Nat /\ imposed[req[x].ip] \in Nat
      BY <2>9 DEF Rest, Types, Reqs
    <3>2. /\ req[x].seen <= imposed[req[x].ip]
          /\ locks[req[x].ip].until > now => req[x].seen < imposed[req[x].ip]
      BY <3>1 DEF SlipInv, Locked
    <3>3. CASE req[x].ip # ip
      BY <3>1, <3>2, <3>3, <2>5
    <3>4. CASE req[x].ip = ip
      <4>1. locks[ip].until \in Nat
        BY <2>1 DEF Locks
      <4> QED BY <3>1, <3>2, <3>4, <4>1, <2>1, <2>5, <2>6
    <3> QED BY <3>3, <3>4
  <2>13. SessionInv'
    BY <1>7, SessionsRest DEF RecordFailure
  <2> QED BY <1>7, <2>4, <2>8, <2>10, <2>11, <2>12, <2>13 DEF RecordFailure, Types, sessionVars, Gone
<1>8. ASSUME NEW r \in Requests, ClearFailures(r) PROVE Inv'
  <2> DEFINE ip == req[r].ip
  <2>1. /\ locks' = [locks EXCEPT ![ip] = Unlocked] /\ failures' = [failures EXCEPT ![ip] = <<>>]
        /\ ip \in IPs /\ Unlocked \in Locks
    BY <1>8 DEF ClearFailures, Forget, Types, Reqs, Unlocked, Locks
  <2>2. locks' \in [IPs -> Locks] /\ failures' \in [IPs -> Seq(0 .. MaxTime)]
    BY <2>1 DEF Types
  <2>3. /\ locks'[ip] = Unlocked /\ failures'[ip] = <<>>
        /\ \A a \in IPs \ {ip} : locks'[a] = locks[a] /\ failures'[a] = failures[a]
    BY <2>1 DEF Types
  <2>4. PICK q \in Reqs : /\ req' = [req EXCEPT ![r] = q]
                          /\ q.pc \in {"idle", "logout"}
                          /\ q.pc = "logout" => q.cred \in Sessions
    <3>1. CASE Finish(r)
      BY <3>1, Resting DEF Finish, Places
    <3>2. CASE Goto(r, "logout") /\ req[r].cred # NoSession
      <4> DEFINE q == [req[r] EXCEPT !.pc = "logout"]
      <4>1. /\ q \in Reqs /\ q.pc = "logout" /\ q.cred \in Sessions
            /\ req' = [req EXCEPT ![r] = q]
        BY <3>2 DEF Types, Reqs, Places, Goto
      <4> HIDE DEF q
      <4> QED BY <4>1
    <3> QED BY <1>8, <3>1, <3>2 DEF ClearFailures
  <2>5. /\ req' \in [Requests -> Reqs] /\ req'[r] = q
        /\ \A x \in Requests \ {r} : req'[x] = req[x]
    BY <2>4 DEF Types
  <2> HIDE DEF ip
  <2>6. LockInv'
    <3>1. now \in Nat /\ now' = now
      BY <1>8 DEF ClearFailures, Types
    <3>2. \A a \in IPs \ {ip} : locks'[a].start <= now /\ Counted(locks'[a], failures'[a]) /\ Earned(locks'[a], failures'[a])
      BY <2>3 DEF LockInv
    <3>3. Unlocked.start <= now /\ Counted(Unlocked, <<>>) /\ Earned(Unlocked, <<>>)
      BY <3>1 DEF Counted, Earned, Unlocked
    <3> QED BY <3>1, <3>2, <3>3, <2>3 DEF LockInv
  <2>7. ReqInv'
    BY <2>4, <2>5 DEF ReqInv
  <2>8. SlipInv'
    <3> SUFFICES ASSUME NEW x \in Requests,
                        req'[x].pc \in {"verify", "issue", "auth", "session", "fail", "clear"},
                        req'[x].kind # "metrics"
                 PROVE  /\ req'[x].seen <= imposed[req'[x].ip]
                        /\ locks'[req'[x].ip].until > now => req'[x].seen < imposed[req'[x].ip]
      BY <1>8 DEF SlipInv, Locked, ClearFailures
    <3>1. req'[x] = req[x] /\ req[x].ip \in IPs
      BY <2>4, <2>5 DEF Types, Reqs
    <3>2. /\ req[x].seen <= imposed[req[x].ip]
          /\ locks[req[x].ip].until > now => req[x].seen < imposed[req[x].ip]
      BY <3>1 DEF SlipInv, Locked
    <3>3. now \in Nat /\ Unlocked.until = 0
      BY DEF Types, Unlocked
    <3>4. CASE req[x].ip = ip
      BY <3>1, <3>2, <3>3, <3>4, <2>3
    <3>5. CASE req[x].ip # ip
      BY <3>1, <3>2, <3>5, <2>3
    <3> QED BY <3>4, <3>5
  <2>9. SessionInv'
    BY <1>8, SessionsRest DEF ClearFailures
  <2> QED BY <1>8, <2>2, <2>5, <2>6, <2>7, <2>8, <2>9 DEF ClearFailures, Types, sessionVars, Gone
<1>9. ASSUME NEW r \in Requests, Logout(r) PROVE Inv'
  <2> DEFINE s == req[r].cred
  <2>1. s \in Sessions
    BY <1>9 DEF Logout, ReqInv
  <2>2. LockInv'
    BY <1>9, LocksRest DEF Logout
  <2>3. req' \in [Requests -> Reqs] /\ ReqInv' /\ SlipInv'
    BY <1>9, Moves, Resting DEF Logout, Finish, lockVars, Places
  <2>4. expires' = [expires EXCEPT ![s] = Gone] /\ granted' = [granted EXCEPT ![s].out = TRUE]
    BY <1>9 DEF Logout
  <2> HIDE DEF s
  <2>5. /\ expires' \in [Sessions -> 0 .. Gone]
        /\ granted' \in [Sessions -> [at : 0 .. Gone, out : BOOLEAN]]
        /\ expires'[s] = Gone /\ granted'[s].out /\ granted'[s].at = granted[s].at
        /\ \A x \in Sessions \ {s} : expires'[x] = expires[x] /\ granted'[x] = granted[x]
    <3>1. Gone \in 0 .. Gone
      BY DEF Gone
    <3> QED BY <2>1, <2>4, <3>1 DEF Types
  <2>6. SessionInv'
    <3> SUFFICES ASSUME NEW x \in Sessions
                 PROVE  /\ granted'[x] # Never /\ ~granted'[x].out => granted'[x].at <= now
                        /\ expires'[x] # Gone =>
                             granted'[x] # Never /\ ~granted'[x].out /\ expires'[x] = granted'[x].at + TTL
                        /\ granted'[x] # Never /\ ~granted'[x].out /\ now <= granted'[x].at + TTL =>
                             expires'[x] = granted'[x].at + TTL
      BY <1>9 DEF SessionInv, Logout, Never, Gone
    <3>1. CASE x # s
      BY <3>1, <2>5 DEF SessionInv
    <3>2. CASE x = s
      BY <3>2, <2>5
    <3> QED BY <3>1, <3>2
  <2> QED BY <1>9, <2>2, <2>3, <2>5, <2>6 DEF Logout, Types, lockVars, Gone
<1>10. CASE Switch
  <2>1. ReqInv' /\ SlipInv'
    BY <1>10 DEF Switch, ReqInv, SlipInv, Locked, lockVars
  <2>2. LockInv' /\ SessionInv'
    BY <1>10, LocksRest, SessionsRest DEF Switch
  <2> QED BY <1>10, <2>1, <2>2 DEF Switch, Types, lockVars, sessionVars, Gone
<1>11. CASE TimePasses
  <2>1. now \in Nat /\ now' = now + 1 /\ now' \in 0 .. MaxTime
    BY <1>11 DEF TimePasses, Tick, Types
  <2>2. ReqInv'
    BY <1>11 DEF TimePasses, ReqInv
  <2>3. SlipInv'
    <3>1. \A ip \in IPs : locks[ip].until \in Nat
      BY DEF Types, Locks
    <3>2. \A r \in Requests : req[r].ip \in IPs
      BY DEF Types, Reqs
    <3> QED BY <1>11, <2>1, <3>1, <3>2 DEF TimePasses, SlipInv, Locked, lockVars
  <2>4. LockInv'
    <3>1. \A ip \in IPs : locks[ip].start \in Nat
      BY DEF Types, Locks
    <3>2. \A ip \in IPs : locks[ip].start <= now'
      BY <2>1, <3>1 DEF LockInv
    <3> QED BY <1>11, <3>2 DEF TimePasses, LockInv, lockVars, Counted, Earned
  <2>5. SessionInv'
    <3>1. \A s \in Sessions : granted[s].at \in Nat /\ TTL \in Nat
      BY DEF Types, Gone
    <3> SUFFICES ASSUME NEW s \in Sessions
                 PROVE  /\ granted[s] # Never /\ ~granted[s].out => granted[s].at <= now'
                        /\ expires[s] # Gone =>
                             granted[s] # Never /\ ~granted[s].out /\ expires[s] = granted[s].at + TTL
                        /\ granted[s] # Never /\ ~granted[s].out /\ now' <= granted[s].at + TTL =>
                             expires[s] = granted[s].at + TTL
      BY <1>11 DEF TimePasses, SessionInv, sessionVars, Gone, Never
    <3> QED BY <2>1, <3>1 DEF SessionInv
  <2> QED BY <1>11, <2>1, <2>2, <2>3, <2>4, <2>5 DEF TimePasses, Types, lockVars, sessionVars, Gone
<1>12. CASE UNCHANGED vars
  <2>1. ReqInv' /\ SlipInv'
    BY <1>12 DEF vars, ReqInv, SlipInv, Locked, lockVars
  <2>2. LockInv' /\ SessionInv'
    BY <1>12, LocksRest, SessionsRest DEF vars
  <2> QED BY <1>12, <2>1, <2>2 DEF vars, Types, lockVars, sessionVars, Gone
<1> QED
  BY <1>1, <1>2, <1>3, <1>4, <1>5, <1>6, <1>7, <1>8, <1>9, <1>10, <1>11, <1>12
  DEF Next, Handle, Kinds

LEMMA Invariance == Spec => []Inv
BY InitInv, StepInv, PTL DEF Spec

-----------------------------------------------------------------------------
\* The types hold, and every lock was earned by as many failures in a row as the limit
\* asks for, in one window.
THEOREM LocksAreEarned == Spec => []LockJustified
<1>1. Inv => LockJustified
  <2> SUFFICES ASSUME Inv PROVE LockJustified
    OBVIOUS
  <2>1. TypeOK
    BY DEF Inv, Types, TypeOK, Locks, Reqs, Places, Kinds, LockInv, Counted
  <2> QED BY <2>1 DEF Inv, LockInv, Earned, LockJustified
<1> QED BY <1>1, Invariance, PTL

\* A session is honoured from its login to its logout or the end of its time.
THEOREM SessionsLast == Spec => []SessionsExact
<1>1. Inv => SessionsExact
  <2> SUFFICES ASSUME Inv, NEW s \in Sessions
               PROVE  (expires[s] # Gone /\ now <= expires[s])
                        <=> (granted[s] # Never /\ ~granted[s].out /\ now <= granted[s].at + TTL)
    BY DEF SessionsExact
  <2>1. now \in 0 .. MaxTime /\ MaxTime \in Nat /\ TTL \in Nat /\ granted[s].at \in Nat
    BY DEF Inv, Types, Gone
  <2>2. granted[s] # Never /\ ~granted[s].out => granted[s].at + TTL # Gone
    BY <2>1 DEF Inv, SessionInv, Gone
  <2> QED BY <2>1, <2>2 DEF Inv, SessionInv
<1> QED BY <1>1, Invariance, PTL

\* While an address is locked, only requests past the check before it was still count.
THEOREM OnlyEarlierCount == Spec => OnlyEarlierSlip
<1>1. Inv /\ [Next]_vars =>
        [\A r \in Requests :
          (RecordFailure(r) \/ ClearFailures(r)) /\ locks[req[r].ip].until > now
            => req[r].seen < imposed[req[r].ip]]_vars
  <2> SUFFICES ASSUME Inv, NEW r \in Requests,
                      RecordFailure(r) \/ ClearFailures(r), locks[req[r].ip].until > now
               PROVE  req[r].seen < imposed[req[r].ip]
    OBVIOUS
  <2>1. req[r].pc \in {"fail", "clear"}
    BY DEF RecordFailure, ClearFailures
  <2> QED BY <2>1 DEF Inv, ReqInv, SlipInv, Locked
<1> QED BY <1>1, Invariance, PTL DEF Spec, OnlyEarlierSlip

-----------------------------------------------------------------------------
(* How many failures an address that is not locked can have had of late.  *)
(* The failures since the counter was cleared fall into windows, of which  *)
(* the last fails of them make the present one.  What is older than the    *)
(* window before it no longer counts; and a window that reached the limit  *)
(* leaves a lock that outlasts all failures up to then.                    *)

Outlasted(L, F, n) == \A j \in 1 .. n : F[j] + LockTime <= L.until

Segments(L, F, time) ==
  /\ L.fails = 0 => Len(F) = 0
  /\ \A j \in 1 .. Len(F) : F[j] <= time
  /\ L.fails >= MaxFails => Outlasted(L, F, Len(F))
  /\ \A j \in 1 .. Len(F) - L.fails : F[j] <= L.start
  /\ \E m \in 0 .. Len(F) - L.fails :
       /\ \A j \in 1 .. m : F[j] + FailWindow < L.start
       /\ Len(F) - L.fails - m < MaxFails \/ Outlasted(L, F, Len(F) - L.fails)

GuessInv == \A ip \in IPs : Segments(locks[ip], failures[ip], now)

\* A failure goes into the present window, or into a new one that makes it the one
\* before.
LEMMA SegmentsKeep ==
  ASSUME NEW L \in Locks, NEW F \in Seq(0 .. MaxTime), NEW time \in 0 .. MaxTime,
         NEW M \in Locks, NEW n \in Nat, NEW fresh \in BOOLEAN,
         Segments(L, F, time), L.fails <= Len(F),
         fresh <=> (L.fails = 0 \/ time - L.start > FailWindow),
         L.start <= time,
         n = IF fresh THEN 1 ELSE L.fails + 1,
         M.fails = n, M.start = IF fresh THEN time ELSE L.start,
         M.until = IF n >= MaxFails THEN time + LockTime ELSE L.until
  PROVE  Segments(M, Append(F, time), time)
<1> SUFFICES ASSUME NEW a, a = Len(F), NEW G, G = Append(F, time)
             PROVE  Segments(M, G, time)
  OBVIOUS
<1>1. /\ Len(G) = a + 1 /\ G[a + 1] = time
      /\ \A i \in 1 .. a : G[i] = F[i]
  OBVIOUS
<1>2. a \in Nat /\ \A i \in 1 .. a : F[i] \in Nat /\ F[i] <= time
  BY DEF Segments
<1>3. /\ L.fails \in Nat /\ L.start \in Nat /\ L.until \in Nat /\ time \in Nat
      /\ LockTime \in Nat /\ FailWindow \in Nat /\ MaxFails \in Nat /\ MaxFails > 1
  BY DEF Locks
<1>4. /\ L.fails = 0 => a = 0
      /\ L.fails >= MaxFails => Outlasted(L, F, a)
      /\ \A j \in 1 .. a - L.fails : F[j] <= L.start
  BY DEF Segments
<1>5. PICK m \in 0 .. a - L.fails :
        /\ \A j \in 1 .. m : F[j] + FailWindow < L.start
        /\ a - L.fails - m < MaxFails \/ Outlasted(L, F, a - L.fails)
  BY DEF Segments
<1>6. /\ M.fails = n /\ M.start = IF fresh THEN time ELSE L.start
      /\ M.until = IF n >= MaxFails THEN time + LockTime ELSE L.until
      /\ L.fails <= a
  OBVIOUS
<1>7. \A j \in 1 .. Len(G) : G[j] <= time
  <2> SUFFICES ASSUME NEW j \in 1 .. Len(G) PROVE G[j] <= time
    OBVIOUS
  <2>1. CASE j = a + 1
    BY <2>1, <1>1, <1>3
  <2>2. CASE j # a + 1
    <3>1. j \in 1 .. a
      BY <2>2, <1>1, <1>2
    <3> QED BY <3>1, <1>1, <1>2
  <2> QED BY <2>1, <2>2
<1>8. \A j \in 1 .. Len(G) : G[j] \in Nat
  <2> SUFFICES ASSUME NEW j \in 1 .. Len(G) PROVE G[j] \in Nat
    OBVIOUS
  <2>1. CASE j = a + 1
    BY <2>1, <1>1, <1>3
  <2>2. CASE j # a + 1
    <3>1. j \in 1 .. a
      BY <2>2, <1>1, <1>2
    <3> QED BY <3>1, <1>1, <1>2
  <2> QED BY <2>1, <2>2
<1>9. M.fails >= MaxFails => Outlasted(M, G, Len(G))
  BY <1>3, <1>6, <1>7, <1>8 DEF Outlasted
<1>10. CASE fresh
  <2>1. n = 1 /\ M.start = time /\ M.until = L.until /\ Len(G) - M.fails = a
    BY <1>1, <1>2, <1>3, <1>6, <1>10
  <2>2. \A j \in 1 .. a : G[j] <= time
    BY <1>1, <1>2
  <2>3. CASE L.fails = 0
    <3>1. 0 \in 0 .. a /\ a - 0 < MaxFails
      BY <2>3, <1>3, <1>4
    <3>2. M.fails # 0 /\ 0 \in 0 .. Len(G) - M.fails /\ \A j \in 1 .. 0 : G[j] + FailWindow < M.start
      BY <1>6, <2>1, <3>1
    <3>3. Len(G) - M.fails - 0 < MaxFails
      BY <2>1, <3>1
    <3> QED BY <1>7, <1>9, <2>1, <2>2, <3>2, <3>3 DEF Segments
  <2>4. CASE L.fails # 0
    <3> DEFINE k == a - L.fails
    <3>1. k \in 0 .. a /\ L.start + FailWindow < time
      BY <1>2, <1>3, <1>6, <1>10, <2>4
    <3>2. \A j \in 1 .. k : G[j] + FailWindow < time
      <4> SUFFICES ASSUME NEW j \in 1 .. k PROVE G[j] + FailWindow < time
        OBVIOUS
      <4>1. j \in 1 .. a /\ G[j] = F[j] /\ F[j] \in Nat
        BY <1>1, <1>2, <3>1
      <4> QED BY <4>1, <1>3, <1>4, <3>1
    <3>3. a - k < MaxFails \/ Outlasted(M, G, a)
      <4>1. a - k = L.fails
        BY <1>2, <1>3
      <4>2. CASE L.fails >= MaxFails
        BY <4>2, <1>1, <1>4, <2>1 DEF Outlasted
      <4>3. CASE ~(L.fails >= MaxFails)
        BY <4>1, <4>3, <1>3
      <4> QED BY <4>2, <4>3
    <3> HIDE DEF k
    <3>4. M.fails # 0 /\ k \in 0 .. Len(G) - M.fails /\ \A j \in 1 .. k : G[j] + FailWindow < M.start
      BY <1>6, <2>1, <3>1, <3>2
    <3>5. Len(G) - M.fails - k < MaxFails \/ Outlasted(M, G, Len(G) - M.fails)
      BY <2>1, <3>3
    <3> QED BY <1>7, <1>9, <2>1, <2>2, <3>4, <3>5 DEF Segments
  <2> QED BY <2>3, <2>4
<1>11. CASE ~fresh
  <2>1. n = L.fails + 1 /\ M.start = L.start /\ Len(G) - M.fails = a - L.fails
    <3>1. n = L.fails + 1 /\ M.fails = n /\ M.start = L.start
      BY <1>6, <1>11
    <3>2. a \in Nat /\ L.fails \in Nat /\ Len(G) = a + 1
      BY <1>1, <1>2, <1>3
    <3> QED BY ONLY <3>1, <3>2
  <2>2. \A j \in 1 .. a - L.fails : j \in 1 .. a /\ G[j] = F[j] /\ G[j] \in Nat
    BY <1>1, <1>2, <1>3, <1>6
  <2>3. \A j \in 1 .. m : G[j] + FailWindow < L.start
    BY <2>2, <1>2, <1>3, <1>5
  <2>4. a - L.fails - m < MaxFails \/ Outlasted(M, G, a - L.fails)
    <3>1. CASE n >= MaxFails
      BY <3>1, <1>2, <1>3, <1>6, <2>2 DEF Outlasted
    <3>2. CASE ~(n >= MaxFails)
      BY <3>2, <1>5, <1>6, <2>2 DEF Outlasted
    <3> QED BY <3>1, <3>2
  <2>5. \A j \in 1 .. a - L.fails : G[j] <= M.start
    BY <1>4, <2>1, <2>2
  <2>6. M.fails # 0 /\ m \in 0 .. Len(G) - M.fails
    BY <1>3, <1>6, <2>1
  <2> QED BY <1>7, <1>9, <2>1, <2>3, <2>4, <2>5, <2>6 DEF Segments
<1> QED BY <1>10, <1>11

\* What only the failures after the first k can bound.
LEMMA FewAfter ==
  ASSUME NEW a \in Nat, NEW k \in 0 .. a, NEW S \in SUBSET (1 .. a),
         \A j \in S : j > k
  PROVE  Cardinality(S) \in Nat /\ Cardinality(S) <= a - k
<1>1. S \subseteq k + 1 .. a
  OBVIOUS
<1>2. IsFiniteSet(k + 1 .. a) /\ Cardinality(k + 1 .. a) = a - k
  <2>1. k + 1 \in Int /\ a \in Int
    OBVIOUS
  <2>2. /\ IsFiniteSet(k + 1 .. a)
        /\ Cardinality(k + 1 .. a) = IF k + 1 > a THEN 0 ELSE a - (k + 1) + 1
    BY ONLY <2>1, FS_Interval
  <2> QED BY <2>2
<1>3. Cardinality(S) <= Cardinality(k + 1 .. a) /\ IsFiniteSet(S)
  BY <1>1, <1>2, FS_Subset
<1> QED BY <1>2, <1>3, FS_CardinalityType

\* Of the failures of an address that is not locked, those too old to count come first.
LEMMA SegmentsBound ==
  ASSUME NEW L \in Locks, NEW F \in Seq(0 .. MaxTime), NEW time \in 0 .. MaxTime,
         Segments(L, F, time), L.fails <= Len(F), L.start <= time, L.until <= time
  PROVE  Cardinality({j \in 1 .. Len(F) : F[j] + FailWindow >= time}) <= 2 * (MaxFails - 1)
<1> DEFINE a == Len(F)
           S == {j \in 1 .. a : F[j] + FailWindow >= time}
<1>1. a \in Nat /\ \A i \in 1 .. a : F[i] \in Nat
  OBVIOUS
<1>2. /\ L.fails \in Nat /\ L.start \in Nat /\ L.until \in Nat /\ time \in Nat
      /\ LockTime \in Nat /\ FailWindow \in Nat /\ MaxFails \in Nat /\ MaxFails > 1
      /\ LockTime > FailWindow
  BY DEF Locks
<1>3. ASSUME NEW k \in 0 .. a, Outlasted(L, F, k) PROVE \A j \in S : j > k
  <2> SUFFICES ASSUME NEW j \in 1 .. a, j <= k PROVE F[j] + FailWindow < time
    BY <1>1, <1>2
  <2>1. F[j] + LockTime <= L.until
    BY <1>3 DEF Outlasted
  <2> QED BY <1>1, <1>2, <2>1
<1>4. PICK m \in 0 .. a - L.fails :
        /\ \A j \in 1 .. m : F[j] + FailWindow < L.start
        /\ a - L.fails - m < MaxFails \/ Outlasted(L, F, a - L.fails)
  BY DEF Segments
<1>5. L.fails >= MaxFails => Outlasted(L, F, a)
  BY DEF Segments
<1>6. \A j \in S : j > m
  <2> SUFFICES ASSUME NEW j \in 1 .. a, j <= m PROVE F[j] + FailWindow < time
    BY <1>1, <1>2, <1>4
  <2>1. F[j] + FailWindow < L.start
    BY <1>4
  <2> QED BY <1>1, <1>2, <2>1
<1>7. L.fails <= a /\ S \in SUBSET (1 .. a)
  OBVIOUS
<1> HIDE DEF a, S
<1>8. CASE L.fails >= MaxFails
  <2>1. a \in 0 .. a /\ \A j \in S : j > a
    BY <1>1, <1>3, <1>5, <1>8
  <2>2. Cardinality(S) \in Nat /\ Cardinality(S) <= a - a
    BY <1>1, <1>7, <2>1, FewAfter
  <2> QED BY <1>1, <1>2, <2>2 DEF S, a
<1>9. CASE ~(L.fails >= MaxFails)
  <2>1. CASE Outlasted(L, F, a - L.fails)
    <3>1. a - L.fails \in 0 .. a
      BY <1>1, <1>2, <1>7
    <3>2. Cardinality(S) \in Nat /\ Cardinality(S) <= a - (a - L.fails)
      BY <1>1, <1>3, <1>7, <2>1, <3>1, FewAfter
    <3> QED BY <1>1, <1>2, <1>9, <3>2 DEF S, a
  <2>2. CASE a - L.fails - m < MaxFails
    <3>1. m \in 0 .. a
      BY <1>1, <1>2, <1>4, <1>7
    <3>2. Cardinality(S) \in Nat /\ Cardinality(S) <= a - m
      BY <1>1, <1>6, <1>7, <3>1, FewAfter
    <3>3. a - m <= 2 * (MaxFails - 1)
      BY <1>1, <1>2, <1>9, <2>2, <3>1
    <3>4. Cardinality(S) <= 2 * (MaxFails - 1)
      BY <1>1, <1>2, <3>1, <3>2, <3>3
    <3> QED BY <3>4 DEF S, a
  <2> QED BY <1>4, <2>1, <2>2
<1> QED BY <1>8, <1>9

LEMMA GuessInit == Init => GuessInv
<1> SUFFICES ASSUME Init, NEW ip \in IPs PROVE Segments(Unlocked, <<>>, 0)
  BY DEF Init, GuessInv
<1>1. 0 \in 0 .. Len(<<>>) - Unlocked.fails /\ Len(<<>>) = 0 /\ Unlocked.fails = 0
  BY DEF Unlocked
<1> QED BY <1>1 DEF Segments, Outlasted

\* Time only makes failures older.
LEMMA SegmentsAge ==
  ASSUME NEW L \in Locks, NEW F \in Seq(0 .. MaxTime), NEW time \in Nat, NEW later \in Nat,
         Segments(L, F, time), time <= later
  PROVE  Segments(L, F, later)
<1>1. \A j \in 1 .. Len(F) : F[j] \in Nat
  OBVIOUS
<1> QED BY <1>1 DEF Segments

LEMMA GuessStep == Inv /\ GuessInv /\ [Next]_vars => GuessInv'
<1> SUFFICES ASSUME Inv, GuessInv, [Next]_vars PROVE GuessInv'
  OBVIOUS
<1>0. /\ now \in 0 .. MaxTime /\ locks \in [IPs -> Locks]
      /\ failures \in [IPs -> Seq(0 .. MaxTime)] /\ req \in [Requests -> Reqs]
  BY DEF Inv, Types
<1>1. ASSUME UNCHANGED <<now, locks, failures>> PROVE GuessInv'
  BY <1>1 DEF GuessInv, Segments, Outlasted
<1>2. ASSUME NEW r \in Requests, Handle(r), ~RecordFailure(r), ~ClearFailures(r)
      PROVE  UNCHANGED <<now, locks, failures>>
  BY <1>2 DEF Handle, Arrive, Check, Verify, Issue, Authenticate, SessionValid, Logout, lockVars
<1>3. ASSUME NEW r \in Requests, RecordFailure(r) PROVE GuessInv'
  <2> DEFINE ip == req[r].ip
             fresh == locks[ip].fails = 0 \/ now - locks[ip].start > FailWindow
             n == IF fresh THEN 1 ELSE locks[ip].fails + 1
             M == [fails |-> n,
                   start |-> IF fresh THEN now ELSE locks[ip].start,
                   until |-> IF n >= MaxFails THEN now + LockTime ELSE locks[ip].until]
  <2>1. ip \in IPs /\ locks[ip] \in Locks /\ failures[ip] \in Seq(0 .. MaxTime)
    BY <1>0 DEF Reqs
  <2>2. /\ locks' = [locks EXCEPT ![ip] = M] /\ now' = now
        /\ failures' = [failures EXCEPT ![ip] = Append(failures[ip], now)]
    BY <1>0, <1>3 DEF RecordFailure, NewWindow, ReachesLimit
  <2>3. n \in Nat /\ M \in Locks /\ fresh \in BOOLEAN
    BY <1>0, <2>1 DEF Locks
  <2>4. /\ M.fails = n /\ M.start = IF fresh THEN now ELSE locks[ip].start
        /\ M.until = IF n >= MaxFails THEN now + LockTime ELSE locks[ip].until
        /\ fresh <=> (locks[ip].fails = 0 \/ now - locks[ip].start > FailWindow)
        /\ n = IF fresh THEN 1 ELSE locks[ip].fails + 1
    OBVIOUS
  <2>5. /\ Segments(locks[ip], failures[ip], now)
        /\ locks[ip].start <= now /\ locks[ip].fails <= Len(failures[ip])
    BY <2>1 DEF GuessInv, Inv, LockInv, Counted
  <2> HIDE DEF fresh, n, M, ip
  <2>6. Segments(M, Append(failures[ip], now), now)
    BY <1>0, <2>1, <2>3, <2>4, <2>5, SegmentsKeep
  <2>7. \A a \in IPs \ {ip} : locks'[a] = locks[a] /\ failures'[a] = failures[a]
    BY <1>0, <2>2
  <2>8. locks'[ip] = M /\ failures'[ip] = Append(failures[ip], now)
    BY <1>0, <2>1, <2>2
  <2> QED BY <2>2, <2>6, <2>7, <2>8 DEF GuessInv
<1>4. ASSUME NEW r \in Requests, ClearFailures(r) PROVE GuessInv'
  <2> DEFINE ip == req[r].ip
  <2>1. ip \in IPs /\ now' = now /\ now \in Nat
    BY <1>0, <1>4 DEF Reqs, ClearFailures
  <2>2. /\ locks' = [locks EXCEPT ![ip] = Unlocked]
        /\ failures' = [failures EXCEPT ![ip] = <<>>]
    BY <1>4 DEF ClearFailures, Forget
  <2> HIDE DEF ip
  <2>3. Segments(Unlocked, <<>>, now)
    <3>1. 0 \in 0 .. Len(<<>>) - Unlocked.fails /\ Len(<<>>) = 0 /\ Unlocked.fails = 0
      BY DEF Unlocked
    <3> QED BY <3>1, <2>1 DEF Segments, Outlasted
  <2>4. \A a \in IPs \ {ip} : locks'[a] = locks[a] /\ failures'[a] = failures[a]
    BY <1>0, <2>2
  <2>5. locks'[ip] = Unlocked /\ failures'[ip] = <<>>
    BY <1>0, <2>1, <2>2
  <2> QED BY <2>1, <2>3, <2>4, <2>5 DEF GuessInv
<1>5. CASE Switch
  BY <1>5, <1>1 DEF Switch, lockVars
<1>6. CASE TimePasses
  <2>1. /\ now \in Nat /\ now' \in Nat /\ now <= now'
        /\ locks' = locks /\ failures' = failures
    BY <1>0, <1>6 DEF TimePasses, Tick, lockVars
  <2> SUFFICES ASSUME NEW ip \in IPs PROVE Segments(locks[ip], failures[ip], now')
    BY <2>1 DEF GuessInv
  <2>2. locks[ip] \in Locks /\ failures[ip] \in Seq(0 .. MaxTime)
        /\ Segments(locks[ip], failures[ip], now)
    BY <1>0 DEF GuessInv
  <2> QED BY <2>1, <2>2, SegmentsAge
<1>7. CASE UNCHANGED vars
  BY <1>7, <1>1 DEF vars, lockVars
<1> QED BY <1>1, <1>2, <1>3, <1>4, <1>5, <1>6, <1>7 DEF Next

\* An address that is not locked has failed at most 2 * (MaxFails - 1) times of late
\* since its last success: one less than the limit for each of the two windows that the
\* time can span.
THEOREM GuessesAreBounded == Spec => []GuessesBounded
<1>1. Inv /\ GuessInv => GuessesBounded
  <2> SUFFICES ASSUME Inv, GuessInv, NEW ip \in IPs, ~Locked(ip)
               PROVE  Cardinality({j \in 1 .. Len(failures[ip]) : failures[ip][j] + FailWindow >= now})
                        <= 2 * (MaxFails - 1)
    BY DEF GuessesBounded
  <2>1. /\ now \in 0 .. MaxTime /\ locks[ip] \in Locks /\ failures[ip] \in Seq(0 .. MaxTime)
        /\ Segments(locks[ip], failures[ip], now)
        /\ locks[ip].start <= now /\ locks[ip].fails <= Len(failures[ip])
    BY DEF Inv, Types, GuessInv, LockInv, Counted
  <2>2. locks[ip].until <= now
    BY <2>1 DEF Locked, Locks
  <2> QED BY <2>1, <2>2, SegmentsBound
<1> QED BY <1>1, Invariance, GuessInit, GuessStep, PTL DEF Spec
=============================================================================
