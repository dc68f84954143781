------------------------------ MODULE Limiter ------------------------------
(***************************************************************************)
(* The sliding-window rate limiter of stats/limiter.go.                    *)
(*                                                                         *)
(* The code keeps, per key, a slice of the admission times and re-slices   *)
(* its expired prefix away.  Here log[k] is the array behind that slice,   *)
(* with every admission ever appended, and head[k] the number of entries   *)
(* re-sliced or deleted away: the code's hits[k] is                        *)
(* SubSeq(log[k], head[k] + 1, Len(log[k])).  Each entry also remembers    *)
(* the limit it was admitted under, and floor[k] is where the last wipe of *)
(* SetLimit left the key; the code has neither.                            *)
(***************************************************************************)
EXTENDS Clock, Integers, Sequences

CONSTANTS
  Keys,      \* rate-limit keys: a token, or "tok:" and a policy key
  Window,    \* one minute
  MaxLimit,  \* the largest limit considered
  MaxLog     \* bound: admissions per key

ASSUME LimiterAssumption ==
  Window \in Nat \ {0} /\ MaxLimit \in Nat \ {0} /\ MaxLog \in Nat

VARIABLES
  limit,  \* the global limit; 0 disables
  log, head, floor

limiterVars == <<limit, log, head, floor>>

Entry == [at : Nat, lim : 1 .. MaxLimit]

LimiterInit ==
  /\ limit \in 0 .. MaxLimit
  /\ log = [k \in Keys |-> <<>>]
  /\ head = [k \in Keys |-> 0]
  /\ floor = [k \in Keys |-> 0]

\* Mutant: an entry is dropped one tick early.
ExpiredEarly(e) == e.at + Window <= now + 1

\* Mutant: an entry is kept one tick too long.
ExpiredLate(e) == e.at + Window < now

\* A hit counts until it is a whole window old: !hits[i].After(cutoff).
Expired(e) == e.at + Window <= now

\* Dropping the expired prefix of hits[k] leaves the slice at offset h.
PrunesTo(k, h) ==
  /\ h \in head[k] .. Len(log[k])
  /\ \A j \in head[k] + 1 .. h : Expired(log[k][j])
  /\ h < Len(log[k]) => ~Expired(log[k][h + 1])

\* allowLocked under a positive limit, when the window has room ...
Grant(k, lim) ==
  /\ lim > 0
  /\ Len(log[k]) < MaxLog
  /\ \E h \in 0 .. MaxLog :
       /\ PrunesTo(k, h)
       /\ Len(log[k]) - h < lim
       /\ head' = [head EXCEPT ![k] = h]
       /\ log' = [log EXCEPT ![k] = Append(@, [at |-> now, lim |-> lim])]
  /\ UNCHANGED <<limit, floor>>

\* ... and when it is full.
Full(k, lim, h) == PrunesTo(k, h) /\ Len(log[k]) - h >= lim

Deny(k, lim) ==
  /\ lim > 0
  /\ \E h \in 0 .. MaxLog :
       /\ Full(k, lim, h)
       /\ head' = [head EXCEPT ![k] = h]
  /\ UNCHANGED <<limit, log, floor>>

\* The limit AllowN(key, n) counts under (n is never negative in the server).
Effective(n) == IF n = 0 THEN limit ELSE n

\* SetLimit: disabling the global limit forgets the hits of every key.
SetLimit(v) ==
  /\ limit' = v
  /\ IF v = 0
       THEN /\ head' = [k \in Keys |-> Len(log[k])]
            /\ floor' = [k \in Keys |-> Len(log[k])]
       ELSE UNCHANGED <<head, floor>>
  /\ UNCHANGED log

\* One pass of cleanLoop over every key, under the lock.
SweepHits ==
  /\ head' \in [Keys -> 0 .. MaxLog]
  /\ \A k \in Keys : PrunesTo(k, head'[k])
  /\ UNCHANGED <<limit, log, floor>>

\* The limiter under any client.
LimiterNext ==
  \/ \E k \in Keys, lim \in 1 .. MaxLimit : Grant(k, lim) /\ UNCHANGED now
  \/ \E k \in Keys, lim \in 1 .. MaxLimit : Deny(k, lim) /\ UNCHANGED now
  \/ \E v \in 0 .. MaxLimit : SetLimit(v) /\ UNCHANGED now
  \/ SweepHits /\ UNCHANGED now
  \/ Tick /\ UNCHANGED limiterVars

LimiterSpec == now = 0 /\ LimiterInit /\ [][LimiterNext]_<<now, limiterVars>>

-----------------------------------------------------------------------------
LimiterTypeOK ==
  /\ now \in Nat
  /\ limit \in 0 .. MaxLimit
  /\ log \in [Keys -> Seq(Entry)]
  /\ head \in [Keys -> Nat]
  /\ floor \in [Keys -> Nat]
  /\ \A k \in Keys : floor[k] <= head[k] /\ head[k] <= Len(log[k]) /\ Len(log[k]) <= MaxLog

\* Every admission under a limit of L finds the admission L places before it at
\* least one window old: no key gets more than its limit in any minute, however
\* accesses and sweeps interleave.  Only SetLimit(0) may interrupt the count.
WindowBound ==
  \A k \in Keys : \A j \in 1 .. Len(log[k]) :
    LET p == j - log[k][j].lim IN
    p > floor[k] => log[k][p].at + Window <= log[k][j].at

\* A key is refused only when its last `lim` admissions really are within the
\* last minute: neither pruning nor the sweeper leaves stale hits that count.
NoFalseDenial ==
  \A k \in Keys, lim \in 1 .. MaxLimit, h \in 0 .. MaxLog :
    Full(k, lim, h) => /\ lim <= Len(log[k])
                       /\ log[k][Len(log[k]) - lim + 1].at + Window > now
=============================================================================
