----------------------------- MODULE AdminAuth -----------------------------
(***************************************************************************)
(* The gate in front of the admin API: requireAdmin and adminLogin         *)
(* (server/server.go, server/handler_admin.go) over the sessions and the   *)
(* per-address lockout of auth/admin.go.                                   *)
(*                                                                         *)
(* Each request asks whether its address is locked, examines its           *)
(* credential, and then records the failure or clears the counter, each a  *)
(* critical section of its own; many requests of one address do so at the  *)
(* same time while time passes and the configuration switches login on     *)
(* and off.  The address allowlist and the admin rate limiter (a Limiter)  *)
(* only drop requests, which a request here may do at any moment.          *)
(***************************************************************************)
EXTENDS Clock, Sequences, FiniteSets

CONSTANTS
  IPs,
  Requests,    \* handler goroutines, reused
  Sessions,    \* session tokens, each issued at most once
  NoSession,   \* any other credential, or none
  MaxFails,    \* 5 failures ...
  FailWindow,  \* ... counted for 5 minutes ...
  LockTime,    \* ... lock for 15 minutes
  TTL,         \* a session lasts 12 hours
  MaxArrivals  \* bound: requests considered

ASSUME AuthAssumption ==
  /\ IPs # {} /\ NoSession \notin Sessions
  /\ MaxFails \in Nat \ {0, 1} /\ FailWindow \in Nat /\ TTL \in Nat
  /\ LockTime \in Nat /\ LockTime > FailWindow
  /\ MaxArrivals \in Nat

VARIABLES
  loginOn,   \* the live configuration: LoginAllowed()
  locks,     \* per address: [fails, start, until]; fails 0 stands for no entry
  expires,   \* per session: when its entry expires, or Gone
  req,       \* per request: [pc, kind, ip, cred, seen]
  arrivals,
  failures,  \* history: when failures were recorded since the counter was cleared
  imposed,   \* history: how often an unlocked address became locked
  granted    \* history: per session, [at, out]: when it was issued, logged out or not

lockVars == <<locks, failures, imposed>>
sessionVars == <<expires, granted>>
vars == <<now, loginOn, lockVars, sessionVars, req, arrivals>>

Gone == MaxTime + TTL + 1 \* no expiry time of an entry
Unlocked == [fails |-> 0, start |-> 0, until |-> 0]
Never == [at |-> Gone, out |-> FALSE]
Rest == [pc |-> "idle", kind |-> "api", ip |-> CHOOSE ip \in IPs : TRUE,
         cred |-> NoSession, seen |-> 0]

-----------------------------------------------------------------------------
Init ==
  /\ now = 0 /\ loginOn \in BOOLEAN
  /\ locks = [ip \in IPs |-> Unlocked]
  /\ expires = [s \in Sessions |-> Gone]
  /\ req = [r \in Requests |-> Rest] /\ arrivals = 0
  /\ failures = [ip \in IPs |-> <<>>]
  /\ imposed = [ip \in IPs |-> 0]
  /\ granted = [s \in Sessions |-> Never]

Goto(r, place) == req' = [req EXCEPT ![r].pc = place]
Finish(r) == req' = [req EXCEPT ![r] = Rest]

\* adminLogin refuses outright while login is off; /metrics skips the lockout.
Arrive(r, kind, ip, cred) ==
  /\ req[r].pc = "idle" /\ arrivals < MaxArrivals
  /\ kind = "login" => loginOn /\ cred = NoSession
  /\ req' = [req EXCEPT ![r] =
       [pc |-> IF kind = "metrics" THEN "auth" ELSE "check",
        kind |-> kind, ip |-> ip, cred |-> cred, seen |-> 0]]
  /\ arrivals' = arrivals + 1
  /\ UNCHANGED <<now, loginOn, lockVars, sessionVars>>

LockedFromStart(ip) == locks[ip].until > now + 1 \* Mutant: ends a tick early

Locked(ip) == locks[ip].until > now

\* Locked, then the rate limiter.
Check(r) ==
  /\ req[r].pc = "check"
  /\ \/ Finish(r)
     \/ /\ ~Locked(req[r].ip)
        /\ req' = [req EXCEPT ![r].pc = IF req[r].kind = "login" THEN "verify" ELSE "auth",
                              ![r].seen = imposed[req[r].ip]]
  /\ UNCHANGED <<now, loginOn, lockVars, sessionVars, arrivals>>

\* Login up to the verified password.
Verify(r) ==
  /\ req[r].pc = "verify"
  /\ \/ Goto(r, "fail")
     \/ loginOn /\ Goto(r, "issue")
  /\ UNCHANGED <<now, loginOn, lockVars, sessionVars, arrivals>>

ExpiredNow(s) == now >= expires[s] \* Mutant: a tick early

Expired(s) == expires[s] # Gone /\ now > expires[s]

\* The rest of Login: sweep the expired sessions and add one.
Issue(r, s) ==
  /\ req[r].pc = "issue" /\ granted[s] = Never
  /\ expires' = [x \in Sessions |-> IF x = s THEN now + TTL
                                    ELSE IF Expired(x) THEN Gone ELSE expires[x]]
  /\ granted' = [granted EXCEPT ![s].at = now]
  /\ Goto(r, "clear")
  /\ UNCHANGED <<now, loginOn, lockVars, arrivals>>

\* Where a refused credential leads: /metrics only answers 401.
Refuse(r) == IF req[r].kind = "metrics" THEN Finish(r) ELSE Goto(r, "fail")
Accept(r) == IF req[r].kind = "metrics" THEN Finish(r) ELSE Goto(r, "clear")

\* Authenticate: the console is open while login is off ...
Authenticate(r) ==
  /\ req[r].pc = "auth"
  /\ IF ~loginOn THEN Accept(r)
     ELSE IF req[r].cred = NoSession THEN Refuse(r)
     ELSE Goto(r, "session")
  /\ UNCHANGED <<now, loginOn, lockVars, sessionVars, arrivals>>

\* ... else sessionValid decides, and forgets an expired session.
SessionValid(r) ==
  /\ req[r].pc = "session"
  /\ LET s == req[r].cred IN
     IF expires[s] = Gone \/ Expired(s)
       THEN Refuse(r) /\ expires' = [expires EXCEPT ![s] = Gone]
       ELSE Accept(r) /\ UNCHANGED expires
  /\ UNCHANGED <<now, loginOn, lockVars, granted, arrivals>>

NewWindowNever(ip) == locks[ip].fails = 0 \* Mutant: the count is never restarted

NewWindow(ip) == locks[ip].fails = 0 \/ now - locks[ip].start > FailWindow

ReachesLimitLate(n) == n > MaxFails \* Mutant: off by one

ReachesLimit(n) == n >= MaxFails

\* RecordFailure.
RecordFailure(r) ==
  /\ req[r].pc = "fail"
  /\ LET ip == req[r].ip
         n == IF NewWindow(ip) THEN 1 ELSE locks[ip].fails + 1
     IN
     /\ locks' = [locks EXCEPT ![ip] =
          [fails |-> n,
           start |-> IF NewWindow(ip) THEN now ELSE @.start,
           until |-> IF ReachesLimit(n) THEN now + LockTime ELSE @.until]]
     /\ failures' = [failures EXCEPT ![ip] = Append(@, now)]
     /\ imposed' = [imposed EXCEPT ![ip] =
          IF ReachesLimit(n) /\ locks[ip].until <= now THEN @ + 1 ELSE @]
  /\ Finish(r)
  /\ UNCHANGED <<now, loginOn, sessionVars, arrivals>>

Forget(ip) == locks' = [locks EXCEPT ![ip] = Unlocked]

\* ClearFailures; the handler then runs, of which adminLogout matters here.
ClearFailures(r) ==
  /\ req[r].pc = "clear"
  /\ LET ip == req[r].ip IN
     Forget(ip) /\ failures' = [failures EXCEPT ![ip] = <<>>]
  /\ IF req[r].kind = "logout" /\ req[r].cred # NoSession THEN Goto(r, "logout") ELSE Finish(r)
  /\ UNCHANGED <<now, loginOn, imposed, sessionVars, arrivals>>

Logout(r) ==
  /\ req[r].pc = "logout"
  /\ expires' = [expires EXCEPT ![req[r].cred] = Gone]
  /\ granted' = [granted EXCEPT ![req[r].cred].out = TRUE]
  /\ Finish(r)
  /\ UNCHANGED <<now, loginOn, lockVars, arrivals>>

\* The environment: a save that switches login, and time.
Switch ==
  /\ loginOn' = ~loginOn
  /\ UNCHANGED <<now, lockVars, sessionVars, req, arrivals>>

TimePasses == Tick /\ UNCHANGED <<loginOn, lockVars, sessionVars, req, arrivals>>

Handle(r) ==
  \/ \E kind \in {"login", "api", "logout", "metrics"}, ip \in IPs,
        cred \in Sessions \cup {NoSession} : Arrive(r, kind, ip, cred)
  \/ Check(r) \/ Verify(r) \/ (\E s \in Sessions : Issue(r, s))
  \/ Authenticate(r) \/ SessionValid(r)
  \/ RecordFailure(r) \/ ClearFailures(r) \/ Logout(r)

Next == (\E r \in Requests : Handle(r)) \/ Switch \/ TimePasses

Spec == Init /\ [][Next]_vars

-----------------------------------------------------------------------------
TypeOK ==
  /\ now \in 0 .. MaxTime /\ loginOn \in BOOLEAN
  /\ locks \in [IPs -> [fails : Nat, start : 0 .. MaxTime, until : 0 .. MaxTime + LockTime]]
  /\ expires \in [Sessions -> 0 .. Gone]
  /\ req \in [Requests ->
       [pc : {"idle", "check", "verify", "issue", "auth", "session", "fail", "clear", "logout"},
        kind : {"login", "api", "logout", "metrics"}, ip : IPs,
        cred : Sessions \cup {NoSession}, seen : Nat]]
  /\ arrivals \in 0 .. MaxArrivals
  /\ failures \in [IPs -> Seq(0 .. MaxTime)]
  /\ imposed \in [IPs -> Nat]
  /\ granted \in [Sessions -> [at : 0 .. Gone, out : BOOLEAN]]
  /\ \A ip \in IPs : locks[ip].fails <= Len(failures[ip])

\* A lock is earned: it began at a failure that was at least the fifth, with no success
\* between, inside five minutes.
LockJustified ==
  TypeOK /\ \A ip \in IPs : locks[ip].until > 0 =>
    \E j \in MaxFails .. Len(failures[ip]) :
      /\ failures[ip][j] + LockTime = locks[ip].until
      /\ failures[ip][j - MaxFails + 1] + FailWindow >= failures[ip][j]

\* The other direction: an address that is not locked has failed at most eight times in
\* the last five minutes (four at the end of one counting window, four in the next)
\* since its last success, which clears the count, however its requests overlap.
GuessesBounded ==
  \A ip \in IPs : ~Locked(ip) =>
    Cardinality({j \in 1 .. Len(failures[ip]) : failures[ip][j] + FailWindow >= now})
      <= 2 * (MaxFails - 1)

\* While an address is locked, only requests that were past the check when the lock was
\* imposed still fail or succeed.
OnlyEarlierSlip ==
  [][\A r \in Requests :
       (RecordFailure(r) \/ ClearFailures(r)) /\ locks[req[r].ip].until > now
         => req[r].seen < imposed[req[r].ip]]_vars

\* A session is honoured exactly from its login until its logout or its twelve hours,
\* though expired ones are only dropped now and then.
SessionsExact ==
  \A s \in Sessions :
    (expires[s] # Gone /\ now <= expires[s])
      <=> (granted[s] # Never /\ ~granted[s].out /\ now <= granted[s].at + TTL)
=============================================================================
