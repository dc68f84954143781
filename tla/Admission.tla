----------------------------- MODULE Admission -----------------------------
(***************************************************************************)
(* How handleModelEndpoint (server/handler_v1.go) admits a request: the    *)
(* policy of the token, the rate limiter, then the daily quota, each a     *)
(* critical section of its own.  The limits come from the configuration    *)
(* the handler read first, while administrators' saves swap the            *)
(* configuration and then push their limits into the limiter and the quota *)
(* one call at a time (syncLimiters), with no lock around the two: saves   *)
(* may overtake each other.  syncLimiters also sets the limit of the admin *)
(* API, a limiter of its own, and two settings of the logger; no request   *)
(* of this module meets those.                                             *)
(***************************************************************************)
EXTENDS Limiter, Quota

CONSTANTS
  Nobody,       \* the caller of a request that has not arrived
  Requests,     \* request goroutines, each used once
  Devices,      \* callers with a device record
  Tokens,       \* callers with a legacy client token
  DeviceRPM, DeviceDaily, \* per device; 0 = no override
  PolicyRPM,    \* rpm of the caller's token policy; 0 = none
  Saves,        \* goroutines that save, each used once
  Configs       \* the configurations they publish: [rpm, daily, warn, raw]

Callers == Devices \cup Tokens
PolicyKey(c) == <<"tok", c>>

ASSUME AdmissionAssumption ==
  /\ Nobody \notin Callers
  /\ Devices \cap Tokens = {}
  /\ DeviceRPM \in [Devices -> 0 .. MaxLimit]
  /\ DeviceDaily \in [Devices -> 0 .. MaxDaily]
  /\ PolicyRPM \in [Callers -> 0 .. MaxLimit]
  /\ Configs \subseteq [rpm : 0 .. MaxLimit, daily : 0 .. MaxDaily,
                        warn : WarnPercents, raw : BOOLEAN]
  /\ Callers \cup {PolicyKey(c) : c \in {x \in Callers : PolicyRPM[x] > 0}} \subseteq Keys
  /\ {<<"dev", d>> : d \in Devices} \subseteq QKeys
  /\ {"raw", "mask"} \X Tokens \subseteq QKeys

VARIABLES
  cfg,    \* the live configuration
  save,   \* per save: its next step, and the configuration it publishes
  req     \* per request: where it stands, its caller, the configuration it
          \* read, and the daily limit AllowN settled on

saveVars == <<cfg, save>>
vars == <<now, limiterVars, quotaVars, saveVars, req>>

Request(place, c, config, d) == [pc |-> place, who |-> c, snap |-> config, daily |-> d]
Absent(place) == Request(place, Nobody, Nobody, 0)

\* A device's quota key is its id; a token's is whatever the log would show.
QuotaKey(q) ==
  IF q.who \in Devices THEN <<"dev", q.who>>
  ELSE IF q.snap.raw THEN <<"raw", q.who>> ELSE <<"mask", q.who>>

\* The limit the handler passes to AllowN: the device's own, else the global one
\* of the configuration it read.
RPM(q) == IF q.who \in Devices /\ DeviceRPM[q.who] > 0 THEN DeviceRPM[q.who]
          ELSE q.snap.rpm
Daily(q) == IF q.who \in Devices /\ DeviceDaily[q.who] > 0 THEN DeviceDaily[q.who]
            ELSE q.snap.daily

\* New: the limiter and the quota start from the configuration.
Init ==
  /\ now = 0 /\ LimiterInit /\ QuotaInit
  /\ cfg \in Configs
  /\ limit = cfg.rpm /\ qlimit = cfg.daily /\ warnPercent = cfg.warn
  /\ save \in [Saves -> {[step |-> "publish", next |-> c] : c \in Configs}]
  /\ req = [r \in Requests |-> Absent("idle")]

Goto(r, place) == req' = [req EXCEPT ![r].pc = place]

\* The handler identifies the caller and reads the configuration.
Arrive(r, c) ==
  /\ req[r].pc = "idle"
  /\ req' = [req EXCEPT ![r] = Request("policy", c, cfg, 0)]
  /\ UNCHANGED <<now, limiterVars, quotaVars, saveVars>>

\* The request leaves the model: refused with 429, or on to body and routing.
Leave(r) == req' = [req EXCEPT ![r] = Absent("done")]

\* AllowN(k, n): the request goes on, or is refused.
Allow(r, k, n, place) ==
  \/ Effective(n) = 0 /\ Goto(r, place) /\ UNCHANGED limiterVars
  \/ Grant(k, Effective(n)) /\ Goto(r, place)
  \/ Deny(k, Effective(n)) /\ Leave(r)

\* enforceTokenPolicy: the token has expired or comes from a forbidden address,
\* or its own rpm is counted.
Policy(r) ==
  /\ req[r].pc = "policy"
  /\ LET c == req[r].who IN
     \/ Leave(r) /\ UNCHANGED limiterVars
     \/ PolicyRPM[c] = 0 /\ Goto(r, "limit") /\ UNCHANGED limiterVars
     \/ PolicyRPM[c] > 0 /\ Allow(r, PolicyKey(c), PolicyRPM[c], "limit")
  /\ UNCHANGED <<now, quotaVars, saveVars>>

RateLimit(r) ==
  /\ req[r].pc = "limit"
  /\ Allow(r, req[r].who, RPM(req[r]), "quota")
  /\ UNCHANGED <<now, quotaVars, saveVars>>

Uncapped(d) == d = 0

\* Quota.AllowN: without a limit of its own it reads the global one, in a
\* critical section before the one that counts.
QuotaLimit(r) ==
  /\ req[r].pc = "quota"
  /\ LET d == IF Daily(req[r]) = 0 THEN qlimit ELSE Daily(req[r]) IN
     IF Uncapped(d) THEN Leave(r)
     ELSE req' = [req EXCEPT ![r].pc = "count", ![r].daily = d]
  /\ UNCHANGED <<now, limiterVars, quotaVars, saveVars>>

QuotaCount(r) ==
  /\ req[r].pc = "count"
  /\ LET k == QuotaKey(req[r]) IN Consume(k, req[r].daily) \/ Exhausted(k, req[r].daily)
  /\ Leave(r)
  /\ UNCHANGED <<now, limiterVars, saveVars>>

\* A save: the holder is swapped, then syncLimiters runs call by call, from the
\* configuration of this save whatever is live by then.
Then(s, step) == save' = [save EXCEPT ![s].step = step]

Publish(s) ==
  /\ save[s].step = "publish" /\ Then(s, "limiter")
  /\ cfg' = save[s].next
  /\ UNCHANGED <<now, limiterVars, quotaVars, req>>

SyncLimiter(s) ==
  /\ save[s].step = "limiter" /\ Then(s, "quota")
  /\ SetLimit(save[s].next.rpm)
  /\ UNCHANGED <<now, quotaVars, cfg, req>>

SyncQuota(s) ==
  /\ save[s].step = "quota" /\ Then(s, "warn")
  /\ SetDaily(save[s].next.daily)
  /\ UNCHANGED <<now, limiterVars, cfg, req>>

SyncWarn(s) ==
  /\ save[s].step = "warn" /\ Then(s, "done")
  /\ SetWarnPercent(save[s].next.warn)
  /\ UNCHANGED <<now, limiterVars, cfg, req>>

Sweep ==
  /\ \/ SweepHits /\ UNCHANGED quotaVars
     \/ SweepDays /\ UNCHANGED limiterVars
  /\ UNCHANGED <<now, saveVars, req>>

TimePasses == Tick /\ UNCHANGED <<limiterVars, quotaVars, saveVars, req>>

Next ==
  \/ \E r \in Requests : \/ \E c \in Callers : Arrive(r, c)
                         \/ Policy(r) \/ RateLimit(r) \/ QuotaLimit(r) \/ QuotaCount(r)
  \/ \E s \in Saves : Publish(s) \/ SyncLimiter(s) \/ SyncQuota(s) \/ SyncWarn(s)
  \/ Sweep \/ TimePasses

Spec == Init /\ [][Next]_vars

-----------------------------------------------------------------------------
TypeOK ==
  /\ LimiterTypeOK /\ QuotaTypeOK
  /\ cfg \in Configs
  /\ save \in [Saves -> [step : {"publish", "limiter", "quota", "warn", "done"}, next : Configs]]
  /\ req \in [Requests ->
       [pc : {"policy", "limit", "quota"}, who : Callers, snap : Configs, daily : {0}]
       \cup [pc : {"count"}, who : Callers, snap : Configs, daily : 1 .. MaxDaily]
       \cup {Absent("idle"), Absent("done")}]
=============================================================================
