--------------------------- MODULE PipelineProofs --------------------------
(***************************************************************************)
(* Proofs about the request pipeline: the limiter and the quota, for every *)
(* window, day, limit and set of keys; Admission, which runs them for      *)
(* concurrent requests, saves, sweeps and ticks; Relay, for candidate      *)
(* lists and retry budgets of every length; and Logger, which keeps the    *)
(* log of the requests, for any sizes, retentions and faults.              *)
(***************************************************************************)
EXTENDS Admission, Relay, Logger, TLAPS

(***************************************************************************)
(* Limiter: no key gets more than its limit within a window.               *)
(*                                                                         *)
(* WindowBound compares an admission with one further back in the log than *)
(* the slice the code still holds.  What was cut off the slice must        *)
(* therefore be known to be old: Past and Cut below.                       *)
(***************************************************************************)
\* Every hit was recorded in the past ...
Past == \A k \in Keys : \A j \in 1 .. Len(log[k]) : log[k][j].at <= now

\* ... and what was cut off the slice, other than by SetLimit, had expired.
Cut ==
  \A k \in Keys : \A j \in 1 .. Len(log[k]) :
    floor[k] < j /\ j <= head[k] => log[k][j].at + Window <= now

\* The log is chronological: the first hit left in the slice is its oldest.
Chronological ==
  \A k \in Keys : \A p, j \in 1 .. Len(log[k]) : p <= j => log[k][p].at <= log[k][j].at

LInv == LimiterTypeOK /\ Past /\ Cut /\ Chronological /\ WindowBound

\* The limiter starts within the invariant.
LEMMA LimiterInitInv == now = 0 /\ LimiterInit => LInv
PROOF
<1> SUFFICES ASSUME now = 0, LimiterInit PROVE LInv
  OBVIOUS
<1>1. \A k \in Keys : log[k] = <<>> /\ Len(log[k]) = 0 /\ head[k] = 0 /\ floor[k] = 0
  BY DEF LimiterInit
<1>2. LimiterTypeOK
  BY <1>1, ClockAssumption, LimiterAssumption DEF LimiterInit, LimiterTypeOK
<1>3. QED
  BY <1>1, <1>2 DEF LInv, Past, Cut, Chronological, WindowBound

\* What pruning to h says of the entries between the old offset and h.
LEMMA PruneCut ==
  ASSUME LInv, NEW k \in Keys, NEW h, PrunesTo(k, h),
         NEW j \in 1 .. Len(log[k]), floor[k] < j, j <= h
  PROVE  log[k][j].at + Window <= now
PROOF
<1>1. /\ head[k] \in Nat /\ floor[k] \in Nat /\ Len(log[k]) \in Nat
      /\ h \in head[k] .. Len(log[k])
  BY DEF LInv, LimiterTypeOK, PrunesTo
<1>2. CASE j <= head[k]
  BY <1>2 DEF LInv, Cut
<1>3. CASE j > head[k]
  BY <1>1, <1>3 DEF PrunesTo, Expired
<1>4. QED
  BY <1>1, <1>2, <1>3

\* An admission under any positive limit preserves the invariant.
LEMMA GrantInv ==
  ASSUME LInv, NEW k \in Keys, NEW lim \in 1 .. MaxLimit, Grant(k, lim), now' = now
  PROVE  LInv'
PROOF
<1> USE LimiterAssumption
<1>1. PICK h \in 0 .. MaxLog :
        /\ PrunesTo(k, h)
        /\ Len(log[k]) - h < lim
        /\ head' = [head EXCEPT ![k] = h]
        /\ log' = [log EXCEPT ![k] = Append(@, [at |-> now, lim |-> lim])]
  BY DEF Grant
<1> DEFINE e == [at |-> now, lim |-> lim]
           L == Len(log[k])
<1>2. /\ log \in [Keys -> Seq(Entry)] /\ head \in [Keys -> Nat] /\ floor \in [Keys -> Nat]
      /\ now \in Nat /\ L \in Nat /\ h \in head[k] .. L /\ floor' = floor /\ L < MaxLog
      /\ floor[k] <= head[k]
  BY <1>1 DEF LInv, LimiterTypeOK, Grant, PrunesTo
<1>3. e \in Entry
  BY <1>2 DEF Entry
<1>4. \A x \in Keys \ {k} : log'[x] = log[x] /\ head'[x] = head[x]
  BY <1>1, <1>2
<1>5. /\ log'[k] = Append(log[k], e) /\ Len(log'[k]) = L + 1 /\ head'[k] = h
      /\ log'[k][L + 1] = e
      /\ \A j \in 1 .. L : log'[k][j] = log[k][j]
  BY <1>1, <1>2, <1>3
<1>6. LimiterTypeOK'
  <2>1. log' \in [Keys -> Seq(Entry)]
    BY <1>1, <1>2, <1>3
  <2>2. head' \in [Keys -> Nat]
    BY <1>1, <1>2
  <2>3. limit' \in 0 .. MaxLimit /\ now' \in Nat /\ floor' \in [Keys -> Nat]
    BY DEF Grant, LInv, LimiterTypeOK
  <2>4. ASSUME NEW x \in Keys
        PROVE floor'[x] <= head'[x] /\ head'[x] <= Len(log'[x]) /\ Len(log'[x]) <= MaxLog
    <3>1. CASE x = k
      BY <3>1, <1>2, <1>5
    <3>2. CASE x # k
      BY <3>2, <1>2, <1>4 DEF LInv, LimiterTypeOK
    <3>3. QED
      BY <3>1, <3>2
  <2>5. QED
    BY <2>1, <2>2, <2>3, <2>4 DEF LimiterTypeOK
<1>7. Past'
  <2> SUFFICES ASSUME NEW x \in Keys, NEW j \in 1 .. Len(log'[x])
               PROVE log'[x][j].at <= now
    BY DEF Past
  <2>1. CASE x # k
    BY <2>1, <1>4 DEF LInv, Past
  <2>2. CASE x = k /\ j = L + 1
    BY <2>2, <1>2, <1>5
  <2>3. CASE x = k /\ j # L + 1
    <3>1. j \in 1 .. L
      BY <2>3, <1>2, <1>5
    <3>2. QED
      BY <2>3, <3>1, <1>5 DEF LInv, Past
  <2>4. QED
    BY <2>1, <2>2, <2>3
<1>8. Cut'
  <2> SUFFICES ASSUME NEW x \in Keys, NEW j \in 1 .. Len(log'[x]),
                      floor[x] < j, j <= head'[x]
               PROVE log'[x][j].at + Window <= now
    BY <1>2 DEF Cut
  <2>1. CASE x # k
    BY <2>1, <1>4 DEF LInv, Cut
  <2>2. CASE x = k
    <3>1. j \in 1 .. L
      BY <2>2, <1>2, <1>5
    <3>2. QED
      BY <2>2, <3>1, <1>1, <1>5, PruneCut
  <2>3. QED
    BY <2>1, <2>2
<1>9. WindowBound'
  <2> SUFFICES ASSUME NEW x \in Keys, NEW j \in 1 .. Len(log'[x]),
                      j - log'[x][j].lim > floor[x]
               PROVE log'[x][j - log'[x][j].lim].at + Window <= log'[x][j].at
    BY <1>2 DEF WindowBound
  <2>1. CASE x # k
    BY <2>1, <1>4 DEF LInv, WindowBound
  <2>2. CASE x = k /\ j = L + 1
    <3>1. log'[x][j].lim = lim /\ log'[x][j].at = now
      BY <2>2, <1>5
    <3>2. j - lim \in 1 .. L /\ j - lim <= h /\ floor[k] < j - lim
      BY <2>2, <3>1, <1>1, <1>2
    <3>3. log[k][j - lim].at + Window <= now
      BY <3>2, <1>1, PruneCut
    <3>4. QED
      BY <2>2, <3>1, <3>2, <3>3, <1>5
  <2>3. CASE x = k /\ j # L + 1
    <3>1. j \in 1 .. L
      BY <2>3, <1>2, <1>5
    <3>2. log[k][j] \in Entry /\ log'[x][j] = log[k][j]
      BY <2>3, <3>1, <1>2, <1>5
    <3>3. j - log[k][j].lim \in 1 .. L
      <4>1. log[k][j].lim \in Nat /\ log[k][j].lim > 0
        BY <3>2 DEF Entry
      <4>2. j - log[k][j].lim > floor[k]
        BY <2>3, <3>2
      <4>3. QED
        BY <3>1, <4>1, <4>2, <1>2
    <3>4. log'[x][j - log'[x][j].lim] = log[k][j - log[k][j].lim]
      BY <2>3, <3>2, <3>3, <1>5
    <3>5. QED
      BY <2>3, <3>1, <3>2, <3>4 DEF LInv, WindowBound
  <2>4. QED
    BY <2>1, <2>2, <2>3
<1>10. Chronological'
  <2> SUFFICES ASSUME NEW x \in Keys, NEW p \in 1 .. Len(log'[x]),
                      NEW j \in 1 .. Len(log'[x]), p <= j
               PROVE log'[x][p].at <= log'[x][j].at
    BY DEF Chronological
  <2>1. CASE x # k
    BY <2>1, <1>4 DEF LInv, Chronological
  <2>2. CASE x = k /\ j = L + 1
    BY <2>2, <1>5, <1>7 DEF Past, Grant
  <2>3. CASE x = k /\ j # L + 1
    <3>1. p \in 1 .. L /\ j \in 1 .. L
      BY <2>3, <1>2, <1>5
    <3>2. QED
      BY <2>3, <3>1, <1>5 DEF LInv, Chronological
  <2>4. QED
    BY <2>1, <2>2, <2>3
<1>11. QED
  BY <1>6, <1>7, <1>8, <1>9, <1>10 DEF LInv

\* A refusal or a sweep, which only move offsets past expired hits, preserves it.
LEMMA PruneInv ==
  ASSUME LInv, head' \in [Keys -> Nat],
         \A k \in Keys : head'[k] = head[k] \/ PrunesTo(k, head'[k]),
         UNCHANGED <<now, limit, log, floor>>
  PROVE  LInv'
PROOF
<1>1. \A k \in Keys : head[k] <= head'[k] /\ head'[k] <= Len(log[k])
  BY DEF LInv, LimiterTypeOK, PrunesTo
<1>2. LimiterTypeOK'
  BY <1>1 DEF LInv, LimiterTypeOK
<1>3. Cut'
  <2> SUFFICES ASSUME NEW k \in Keys, NEW j \in 1 .. Len(log[k]),
                      floor[k] < j, j <= head'[k]
               PROVE log[k][j].at + Window <= now
    BY DEF Cut
  <2>1. CASE head'[k] = head[k]
    BY <2>1 DEF LInv, Cut
  <2>2. CASE PrunesTo(k, head'[k])
    BY <2>2, PruneCut
  <2>3. QED
    BY <2>1, <2>2
<1>4. QED
  BY <1>2, <1>3 DEF LInv, Past, Chronological, WindowBound

LEMMA LimiterNextInv == LInv /\ [LimiterNext]_<<now, limiterVars>> => LInv'
PROOF
<1> SUFFICES ASSUME LInv, [LimiterNext]_<<now, limiterVars>> PROVE LInv'
  OBVIOUS
<1>1. ASSUME NEW k \in Keys, NEW lim \in 1 .. MaxLimit, Grant(k, lim), now' = now
      PROVE LInv'
  BY <1>1, GrantInv
<1>2. ASSUME NEW k \in Keys, NEW lim \in 1 .. MaxLimit, Deny(k, lim), now' = now
      PROVE LInv'
  <2>1. PICK h \in 0 .. MaxLog : PrunesTo(k, h) /\ head' = [head EXCEPT ![k] = h]
    BY <1>2 DEF Deny, Full
  <2>2. head' \in [Keys -> Nat] /\ head'[k] = h
    BY <2>1 DEF LInv, LimiterTypeOK
  <2>3. \A x \in Keys : head'[x] = head[x] \/ PrunesTo(x, head'[x])
    BY <2>1, <2>2 DEF LInv, LimiterTypeOK
  <2>4. QED
    BY <1>2, <2>2, <2>3, PruneInv DEF Deny
<1>3. ASSUME NEW v \in 0 .. MaxLimit, SetLimit(v), now' = now
      PROVE LInv'
  <2>1. limit' \in 0 .. MaxLimit /\ log' = log
    BY <1>3 DEF SetLimit
  <2>2. CASE v = 0
    <3>1. \A k \in Keys : Len(log[k]) \in Nat /\ Len(log[k]) <= MaxLog
                          /\ floor[k] <= Len(log[k]) /\ floor[k] \in Nat
      BY DEF LInv, LimiterTypeOK
    <3>2. /\ head' = [k \in Keys |-> Len(log[k])]
          /\ floor' = [k \in Keys |-> Len(log[k])]
      BY <1>3, <2>2 DEF SetLimit
    <3>3. head' \in [Keys -> Nat] /\ floor' \in [Keys -> Nat]
      BY <3>1, <3>2
    <3>4. \A k \in Keys : head'[k] = Len(log[k]) /\ floor'[k] = Len(log[k])
      BY <3>2
    <3>5. LimiterTypeOK'
      BY <1>3, <2>1, <3>1, <3>3, <3>4 DEF LInv, LimiterTypeOK
    <3>6. Past' /\ Cut' /\ Chronological'
      BY <1>3, <2>1, <3>1, <3>4 DEF LInv, Past, Cut, Chronological
    <3>7. WindowBound'
      <4> SUFFICES ASSUME NEW k \in Keys, NEW j \in 1 .. Len(log[k]),
                          j - log[k][j].lim > floor'[k]
                   PROVE FALSE
        BY <2>1 DEF WindowBound
      <4>1. log[k][j] \in Entry
        BY DEF LInv, LimiterTypeOK
      <4>2. log[k][j].lim \in Nat
        BY <4>1 DEF Entry
      <4>3. QED
        BY <3>1, <3>4, <4>2
    <3>8. QED
      BY <3>5, <3>6, <3>7 DEF LInv
  <2>3. CASE v # 0
    <3>1. UNCHANGED <<head, floor>>
      BY <1>3, <2>3 DEF SetLimit
    <3>2. QED
      BY <1>3, <2>1, <3>1 DEF LInv, LimiterTypeOK, Past, Cut, Chronological, WindowBound
  <2>4. QED
    BY <2>2, <2>3
<1>4. ASSUME SweepHits, now' = now PROVE LInv'
  <2>1. head' \in [Keys -> Nat] /\ \A k \in Keys : PrunesTo(k, head'[k])
    BY <1>4 DEF SweepHits
  <2>2. QED
    BY <1>4, <2>1, PruneInv DEF SweepHits
<1>5. ASSUME Tick, UNCHANGED limiterVars PROVE LInv'
  <2>1. now \in Nat /\ now' = now + 1
    BY <1>5 DEF Tick, LInv, LimiterTypeOK
  <2>2. \A k \in Keys : \A j \in 1 .. Len(log[k]) : log[k][j] \in Entry
    BY DEF LInv, LimiterTypeOK
  <2>3. \A k \in Keys : \A j \in 1 .. Len(log[k]) : log[k][j].at \in Nat
    BY <2>2 DEF Entry
  <2>4. LimiterTypeOK' /\ Chronological' /\ WindowBound'
    BY <1>5, <2>1 DEF limiterVars, LInv, LimiterTypeOK, Chronological, WindowBound
  <2>5. Past' /\ Cut'
    BY <1>5, <2>1, <2>3, LimiterAssumption DEF limiterVars, LInv, Past, Cut
  <2>6. QED
    BY <2>4, <2>5 DEF LInv
<1>6. CASE UNCHANGED <<now, limiterVars>>
  BY <1>6 DEF limiterVars, LInv, LimiterTypeOK, Past, Cut, Chronological, WindowBound
<1>7. QED
  BY <1>1, <1>2, <1>3, <1>4, <1>5, <1>6 DEF LimiterNext

\* Under any client, at any rate, no key gets more than its limit within a window,
\* unless SetLimit(0) forgets its hits in between.
THEOREM LimiterWindow == LimiterSpec => [](LimiterTypeOK /\ WindowBound)
PROOF
<1>1. LInv => LimiterTypeOK /\ WindowBound
  BY DEF LInv
<1>2. QED
  BY LimiterInitInv, LimiterNextInv, <1>1, PTL DEF LimiterSpec

\* A key is refused only when its last `lim` admissions all lie within the window.
THEOREM DenialsJustified == LimiterSpec => []NoFalseDenial
PROOF
<1>1. LInv => NoFalseDenial
  <2> SUFFICES ASSUME LInv, NEW k \in Keys, NEW lim \in 1 .. MaxLimit,
                      NEW h \in 0 .. MaxLog, Full(k, lim, h)
               PROVE /\ lim <= Len(log[k])
                     /\ log[k][Len(log[k]) - lim + 1].at + Window > now
    BY DEF NoFalseDenial
  <2>1. PrunesTo(k, h) /\ Len(log[k]) - h >= lim
    BY DEF Full
  <2>2. Len(log[k]) \in Nat /\ h \in Nat /\ h < Len(log[k]) /\ now \in Nat
    BY <2>1, LimiterAssumption DEF LInv, LimiterTypeOK
  <2> DEFINE m == Len(log[k]) - lim + 1
  <2>3. m \in h + 1 .. Len(log[k]) /\ h + 1 \in 1 .. Len(log[k]) /\ lim <= Len(log[k])
    BY <2>1, <2>2, LimiterAssumption
  <2>4. log[k][h + 1] \in Entry /\ log[k][m] \in Entry
    BY <2>2, <2>3 DEF LInv, LimiterTypeOK
  <2>5. log[k][h + 1].at + Window > now
    <3>1. ~(log[k][h + 1].at + Window <= now)
      BY <2>1, <2>2 DEF PrunesTo, Expired
    <3>2. log[k][h + 1].at \in Nat
      BY <2>4 DEF Entry
    <3>3. QED
      BY <3>1, <3>2, <2>2, LimiterAssumption
  <2>6. log[k][h + 1].at <= log[k][m].at
    BY <2>2, <2>3 DEF LInv, Chronological
  <2>7. QED
    BY <2>2, <2>3, <2>4, <2>5, <2>6, LimiterAssumption DEF Entry
<1>2. QED
  BY LimiterInitInv, LimiterNextInv, <1>1, PTL DEF LimiterSpec

-----------------------------------------------------------------------------
(***************************************************************************)
(* Quota.  DayBound speaks of history variables only; what ties them to    *)
(* the code's counters is Accounts: today's grants are what the counter    *)
(* holds plus what SetLimit(0) forgot.                                     *)
(***************************************************************************)
\* No entry is dated in the future, so a new day starts from nothing.
NotInFuture == \A k \in QKeys : used[k].day <= Today /\ granted[k].day <= Today

Accounts ==
  \A k \in QKeys : GrantedToday(k) = WipedToday(k) + Count(k) /\ Count(k) <= CeilingToday(k)

\* The counter of warnings and the code's own record agree.
WarningsTold ==
  \A k \in QKeys : warnings[k].day = warned[k] /\ warnings[k].count <= 1

QInv == QuotaTypeOK /\ NotInFuture /\ Accounts /\ WarningsTold

\* Days are numbered from 1, and a later instant lies on the same day or a later one.
LEMMA Days == ASSUME now \in Nat
              PROVE  /\ Today \in Nat /\ Today > 0
                     /\ Tick => Today' \in Nat /\ Today <= Today'
PROOF
<1>1. now \div DayLen \in Nat
  BY QuotaAssumption
<1>2. ASSUME Tick PROVE now' \div DayLen \in Nat /\ now \div DayLen <= now' \div DayLen
  BY <1>2, QuotaAssumption DEF Tick
<1>3. QED
  BY <1>1, <1>2 DEF Today

\* What the counters of a key can be.
LEMMA CountsNat ==
  ASSUME QuotaTypeOK, NEW k \in QKeys
  PROVE  /\ Count(k) \in Nat /\ GrantedToday(k) \in Nat
         /\ WipedToday(k) \in Nat /\ CeilingToday(k) \in Nat
PROOF
  BY DEF QuotaTypeOK, DayCount, Count, GrantedToday, WipedToday, CeilingToday

LEMMA QuotaInitInv == now = 0 /\ QuotaInit => QInv
PROOF
<1> SUFFICES ASSUME now = 0, QuotaInit PROVE QInv
  OBVIOUS
<1> USE DEF NoEntry
<1>1. Today \in Nat /\ Today > 0
  BY Days
<1>2. NoEntry \in DayCount
  BY DEF DayCount
<1>3. QuotaTypeOK
  BY <1>2, QuotaAssumption DEF QuotaInit, QuotaTypeOK
<1>4. \A k \in QKeys : /\ used[k].day = 0 /\ granted[k].day = 0 /\ warned[k] = 0
                       /\ warnings[k].day = 0 /\ warnings[k].count = 0
  BY DEF QuotaInit
<1>5. Accounts
  BY <1>1, <1>4 DEF Accounts, GrantedToday, WipedToday, Count, CeilingToday
<1>6. QED
  BY <1>1, <1>3, <1>4, <1>5 DEF QInv, NotInFuture, WarningsTold

\* Counting one unit, with or without a warning, preserves the invariant.
LEMMA ConsumeInv ==
  ASSUME QInv, NEW k \in QKeys, NEW lim \in 1 .. MaxDaily, Consume(k, lim), now' = now
  PROVE  QInv'
PROOF
<1>1. Today \in Nat /\ Today > 0 /\ Today' = Today
  BY Days DEF QInv, QuotaTypeOK, Today
<1>2. \A x \in QKeys : /\ Count(x) \in Nat /\ GrantedToday(x) \in Nat
                       /\ WipedToday(x) \in Nat /\ CeilingToday(x) \in Nat
  BY CountsNat DEF QInv
<1>3. lim \in Nat /\ Count(k) < lim
  BY DEF Consume
<1>4. Larger(CeilingToday(k), lim) \in Nat /\ Larger(CeilingToday(k), lim) >= lim
  BY <1>2, <1>3 DEF Larger
<1>5. /\ used' = [used EXCEPT ![k] = [day |-> Today, count |-> Count(k) + 1]]
      /\ granted' = [granted EXCEPT ![k] = [day |-> Today, count |-> GrantedToday(k) + 1]]
      /\ wiped' = [wiped EXCEPT ![k] = WipedToday(k)]
      /\ ceiling' = [ceiling EXCEPT ![k] = Larger(CeilingToday(k), lim)]
  BY DEF Consume
<1>6. /\ used \in [QKeys -> DayCount] /\ granted \in [QKeys -> DayCount]
      /\ wiped \in [QKeys -> Nat] /\ ceiling \in [QKeys -> Nat]
      /\ warned \in [QKeys -> Nat] /\ warnings \in [QKeys -> DayCount]
  BY DEF QInv, QuotaTypeOK
<1>7. \/ UNCHANGED <<warned, warnings>>
      \/ warned[k] # Today /\ Fire(k)
  BY DEF Consume, WarnDue
<1>8. WarningsTold' /\ warned' \in [QKeys -> Nat] /\ warnings' \in [QKeys -> DayCount]
  <2>1. CASE UNCHANGED <<warned, warnings>>
    BY <2>1, <1>6 DEF QInv, WarningsTold
  <2>2. CASE warned[k] # Today /\ Fire(k)
    <3>1. warnings[k].day # Today
      BY <2>2 DEF QInv, WarningsTold
    <3>2. /\ warned' = [warned EXCEPT ![k] = Today]
          /\ warnings' = [warnings EXCEPT ![k] = [day |-> Today, count |-> 1]]
      BY <2>2, <3>1 DEF Fire
    <3>3. [day |-> Today, count |-> 1] \in DayCount
      BY <1>1 DEF DayCount
    <3>4. QED
      BY <3>2, <3>3, <1>1, <1>6 DEF QInv, WarningsTold
  <2>3. QED
    BY <1>7, <2>1, <2>2
<1>9. QuotaTypeOK'
  <2>1. /\ [day |-> Today, count |-> Count(k) + 1] \in DayCount
        /\ [day |-> Today, count |-> GrantedToday(k) + 1] \in DayCount
    BY <1>1, <1>2 DEF DayCount
  <2>2. /\ used' \in [QKeys -> DayCount] /\ granted' \in [QKeys -> DayCount]
        /\ wiped' \in [QKeys -> Nat] /\ ceiling' \in [QKeys -> Nat]
    BY <2>1, <1>2, <1>4, <1>5, <1>6
  <2>3. QED
    BY <2>2, <1>8 DEF QInv, QuotaTypeOK, Consume
<1>10. NotInFuture'
  BY <1>1, <1>5, <1>6 DEF QInv, NotInFuture
<1>11. Accounts'
  <2> SUFFICES ASSUME NEW x \in QKeys
               PROVE (GrantedToday(x) = WipedToday(x) + Count(x) /\ Count(x) <= CeilingToday(x))'
    BY DEF Accounts
  <2>1. CASE x # k
    <3>1. /\ used'[x] = used[x] /\ granted'[x] = granted[x]
          /\ wiped'[x] = wiped[x] /\ ceiling'[x] = ceiling[x]
      BY <2>1, <1>5, <1>6
    <3>2. QED
      BY <3>1, <1>1 DEF QInv, Accounts, GrantedToday, WipedToday, Count, CeilingToday
  <2>2. CASE x = k
    <3>1. /\ GrantedToday(k)' = GrantedToday(k) + 1 /\ Count(k)' = Count(k) + 1
          /\ WipedToday(k)' = WipedToday(k)
          /\ CeilingToday(k)' = Larger(CeilingToday(k), lim)
      <4>1. /\ used'[k].day = Today /\ used'[k].count = Count(k) + 1
            /\ granted'[k].day = Today /\ granted'[k].count = GrantedToday(k) + 1
            /\ wiped'[k] = WipedToday(k) /\ ceiling'[k] = Larger(CeilingToday(k), lim)
        BY <1>5, <1>6
      <4>2. QED
        BY <4>1, <1>1 DEF GrantedToday, WipedToday, Count, CeilingToday
    <3>2. GrantedToday(k) = WipedToday(k) + Count(k)
      BY DEF QInv, Accounts
    <3>3. QED
      BY <2>2, <3>1, <3>2, <1>2, <1>3, <1>4
  <2>3. QED
    BY <2>1, <2>2
<1>12. QED
  BY <1>8, <1>9, <1>10, <1>11 DEF QInv

LEMMA QuotaNextInv == QInv /\ [QuotaNext]_<<now, quotaVars>> => QInv'
PROOF
<1> SUFFICES ASSUME QInv, [QuotaNext]_<<now, quotaVars>> PROVE QInv'
  OBVIOUS
<1> USE DEF history
<1>0. Today \in Nat /\ Today > 0 /\ (now' = now => Today' = Today)
  BY Days DEF QInv, QuotaTypeOK, Today
<1>1. ASSUME NEW k \in QKeys, NEW lim \in 1 .. MaxDaily, Consume(k, lim), now' = now
      PROVE QInv'
  BY <1>1, ConsumeInv
<1>2. ASSUME NEW v \in 0 .. MaxDaily, SetDaily(v), now' = now PROVE QInv'
  <2>1. CASE v = 0
    <3>1. /\ used' = [k \in QKeys |-> NoEntry]
          /\ wiped' = [k \in QKeys |-> GrantedToday(k)]
          /\ UNCHANGED <<warnPercent, warned, warnings, granted, ceiling>>
          /\ qlimit' \in 0 .. MaxDaily /\ Today' = Today
      BY <1>0, <1>2, <2>1 DEF SetDaily
    <3>2. \A k \in QKeys : GrantedToday(k) \in Nat /\ CeilingToday(k) \in Nat
      BY CountsNat DEF QInv
    <3>3. \A k \in QKeys : /\ used'[k].day = 0 /\ used'[k].count = 0
                           /\ wiped'[k] = GrantedToday(k)
      BY <3>1 DEF NoEntry
    <3>4. NoEntry \in DayCount
      BY DEF NoEntry, DayCount
    <3>5. used' \in [QKeys -> DayCount] /\ wiped' \in [QKeys -> Nat]
      BY <3>1, <3>2, <3>4
    <3>6. QuotaTypeOK'
      BY <1>2, <3>1, <3>5 DEF QInv, QuotaTypeOK
    <3>7. NotInFuture' /\ WarningsTold'
      BY <1>0, <3>1, <3>3 DEF QInv, NotInFuture, WarningsTold
    <3>8. ASSUME NEW k \in QKeys
          PROVE (GrantedToday(k) = WipedToday(k) + Count(k) /\ Count(k) <= CeilingToday(k))'
      <4>1. Count(k)' = 0
        BY <1>0, <3>1, <3>3 DEF Count
      <4>2. GrantedToday(k)' = GrantedToday(k) /\ CeilingToday(k)' = CeilingToday(k)
        BY <3>1 DEF GrantedToday, CeilingToday
      <4>3. WipedToday(k)' = GrantedToday(k)
        BY <3>1, <3>3 DEF WipedToday, GrantedToday
      <4>4. QED
        BY <4>1, <4>2, <4>3, <3>2
    <3>9. QED
      BY <3>6, <3>7, <3>8 DEF QInv, Accounts
  <2>2. CASE v # 0
    <3>1. UNCHANGED <<now, used, wiped, warnPercent, warned, warnings, granted, ceiling>>
          /\ qlimit' \in 0 .. MaxDaily
      BY <1>2, <2>2 DEF SetDaily
    <3>2. QED
      BY <3>1, <1>0 DEF QInv, QuotaTypeOK, NotInFuture, Accounts, WarningsTold,
         GrantedToday, WipedToday, Count, CeilingToday
  <2>3. QED
    BY <2>1, <2>2
<1>3. ASSUME NEW p \in WarnPercents, SetWarnPercent(p), now' = now PROVE QInv'
  BY <1>3, <1>0 DEF SetWarnPercent, QInv, QuotaTypeOK, NotInFuture, Accounts, WarningsTold,
     GrantedToday, WipedToday, Count, CeilingToday
<1>4. ASSUME SweepDays, now' = now PROVE QInv'
  <2>1. /\ used' = [k \in QKeys |-> IF Sweeps(k) THEN NoEntry ELSE used[k]]
        /\ UNCHANGED <<qlimit, warnPercent, warned, warnings, granted, wiped, ceiling>>
        /\ Today' = Today
    BY <1>0, <1>4 DEF SweepDays
  <2>2. \A k \in QKeys : \/ used'[k] = used[k]
                         \/ used[k].day < Today /\ used'[k] = NoEntry
    BY <2>1 DEF Sweeps
  <2>3. NoEntry \in DayCount /\ NoEntry.day = 0
    BY DEF NoEntry, DayCount
  <2>4. used' \in [QKeys -> DayCount]
    BY <2>1, <2>3 DEF QInv, QuotaTypeOK
  <2>5. QuotaTypeOK' /\ NotInFuture' /\ WarningsTold'
    BY <1>0, <1>4, <2>1, <2>2, <2>3, <2>4 DEF QInv, QuotaTypeOK, NotInFuture, WarningsTold
  <2>6. ASSUME NEW k \in QKeys
        PROVE (GrantedToday(k) = WipedToday(k) + Count(k) /\ Count(k) <= CeilingToday(k))'
    <3>1. used[k].day \in Nat
      BY DEF QInv, QuotaTypeOK, DayCount
    <3>2. Count(k)' = Count(k)
      BY <1>0, <2>1, <2>2, <2>3, <3>1 DEF Count
    <3>3. QED
      BY <2>1, <3>2 DEF QInv, Accounts, GrantedToday, WipedToday, CeilingToday
  <2>7. QED
    BY <2>5, <2>6 DEF QInv, Accounts
<1>5. ASSUME Tick, UNCHANGED quotaVars PROVE QInv'
  <2>1. Today' \in Nat /\ Today <= Today' /\ now' \in Nat
    BY <1>5, Days DEF QInv, QuotaTypeOK, Tick
  <2>2. /\ \A k \in QKeys : used[k].day \in Nat /\ granted[k].day \in Nat
        /\ UNCHANGED quotaVars
    BY <1>5 DEF QInv, QuotaTypeOK, DayCount
  <2>3. QuotaTypeOK' /\ NotInFuture' /\ WarningsTold'
    BY <2>1, <2>2, <1>0 DEF quotaVars, QInv, QuotaTypeOK, NotInFuture, WarningsTold
  <2>4. CASE Today' = Today
    BY <2>2, <2>3, <2>4 DEF quotaVars, QInv, Accounts, GrantedToday, WipedToday, Count, CeilingToday
  <2>5. CASE Today' # Today
    <3>1. \A k \in QKeys : used'[k].day # Today' /\ granted'[k].day # Today'
      BY <2>1, <2>2, <2>5, <1>0 DEF quotaVars, QInv, NotInFuture
    <3>2. Accounts'
      BY <3>1 DEF Accounts, GrantedToday, WipedToday, Count, CeilingToday
    <3>3. QED
      BY <2>3, <3>2 DEF QInv
  <2>6. QED
    BY <2>4, <2>5
<1>6. CASE UNCHANGED <<now, quotaVars>>
  BY <1>6, <1>0 DEF quotaVars, QInv, QuotaTypeOK, NotInFuture, Accounts, WarningsTold,
     GrantedToday, WipedToday, Count, CeilingToday
<1>7. QED
  BY <1>1, <1>2, <1>3, <1>4, <1>5, <1>6 DEF QuotaNext

\* No client can be given more units in a UTC day than the most generous limit it
\* was counted under, plus what SetLimit(0) forgot, and none is warned twice.
THEOREM QuotaBound == QuotaSpec => [](QuotaTypeOK /\ DayBound /\ WarnsOncePerDay)
PROOF
<1>1. QInv => QuotaTypeOK /\ DayBound /\ WarnsOncePerDay
  BY CountsNat DEF QInv, Accounts, DayBound, WarningsTold, WarnsOncePerDay
<1>2. QED
  BY QuotaInitInv, QuotaNextInv, <1>1, PTL DEF QuotaSpec

-----------------------------------------------------------------------------
(***************************************************************************)
(* Admission: every interleaving of requests, saves, sweeps and ticks is a *)
(* behaviour of the limiter and of the quota alone, so their lemmas hold   *)
(* of the whole.                                                           *)
(***************************************************************************)
\* The requests and the saves are where the code puts them.
Steps == {"publish", "limiter", "quota", "warn", "done"}
Stages ==
  /\ cfg \in Configs
  /\ save \in [Saves -> [step : Steps, next : Configs]]
  /\ req \in [Requests ->
       [pc : {"policy", "limit", "quota"}, who : Callers, snap : Configs, daily : {0}]
       \cup [pc : {"count"}, who : Callers, snap : Configs, daily : 1 .. MaxDaily]
       \cup {Absent("idle"), Absent("done")}]

\* The fields of a request that is being admitted.
LEMMA RequestFields ==
  ASSUME Stages, NEW r \in Requests, req[r].pc \in {"policy", "limit", "quota", "count"}
  PROVE  /\ req[r].who \in Callers /\ req[r].snap \in Configs
         /\ req[r].pc \in {"policy", "limit", "quota"} =>
              req[r] \in [pc : {"policy", "limit", "quota"}, who : Callers,
                         snap : Configs, daily : {0}]
         /\ req[r].pc = "count" => req[r].daily \in 1 .. MaxDaily
PROOF
<1>1. req[r] \in [pc : {"policy", "limit", "quota"}, who : Callers, snap : Configs, daily : {0}]
        \cup [pc : {"count"}, who : Callers, snap : Configs, daily : 1 .. MaxDaily]
        \cup {Absent("idle"), Absent("done")}
  BY DEF Stages
<1>2. req[r] # Absent("idle") /\ req[r] # Absent("done")
  BY DEF Absent, Request
<1>3. CASE req[r] \in [pc : {"policy", "limit", "quota"}, who : Callers,
                       snap : Configs, daily : {0}]
  BY <1>3
<1>4. CASE req[r] \in [pc : {"count"}, who : Callers, snap : Configs, daily : 1 .. MaxDaily]
  BY <1>4
<1>5. QED
  BY <1>1, <1>2, <1>3, <1>4

AInv == Stages /\ LInv /\ QInv

LimiterSteps == [LimiterNext]_<<now, limiterVars>>
QuotaSteps == [QuotaNext]_<<now, quotaVars>>

\* The limits a request is counted under are in range.
LEMMA LimitsInRange ==
  ASSUME Stages, NEW r \in Requests, req[r].pc \in {"policy", "limit", "quota", "count"}
  PROVE  /\ RPM(req[r]) \in 0 .. MaxLimit /\ Daily(req[r]) \in 0 .. MaxDaily
         /\ PolicyRPM[req[r].who] \in 0 .. MaxLimit /\ req[r].who \in Keys
         /\ PolicyRPM[req[r].who] > 0 => PolicyKey(req[r].who) \in Keys
         /\ QuotaKey(req[r]) \in QKeys
PROOF
<1>1. req[r].who \in Callers /\ req[r].snap \in Configs
  BY RequestFields
<1>2. /\ req[r].snap.rpm \in 0 .. MaxLimit /\ req[r].snap.daily \in 0 .. MaxDaily
  BY <1>1, AdmissionAssumption
<1>3. /\ PolicyRPM[req[r].who] \in 0 .. MaxLimit /\ req[r].who \in Keys
      /\ PolicyRPM[req[r].who] > 0 => PolicyKey(req[r].who) \in Keys
  BY <1>1, AdmissionAssumption
<1>4. RPM(req[r]) \in 0 .. MaxLimit /\ Daily(req[r]) \in 0 .. MaxDaily
  BY <1>1, <1>2, AdmissionAssumption DEF RPM, Daily
<1>5. QuotaKey(req[r]) \in QKeys
  <2>1. CASE req[r].who \in Devices
    BY <2>1, AdmissionAssumption DEF QuotaKey
  <2>2. CASE req[r].who \in Tokens
    BY <2>2, AdmissionAssumption DEF QuotaKey
  <2>3. QED
    BY <1>1, <2>1, <2>2 DEF Callers
<1>6. QED
  BY <1>3, <1>4, <1>5

\* Moving an admitted request on keeps every request in its place.
LEMMA GotoStages ==
  ASSUME Stages, NEW r \in Requests, req[r].pc \in {"policy", "limit", "quota"},
         NEW place \in {"policy", "limit", "quota"}, Goto(r, place),
         UNCHANGED saveVars
  PROVE  Stages'
PROOF
<1>1. [req[r] EXCEPT !.pc = place]
        \in [pc : {"policy", "limit", "quota"}, who : Callers, snap : Configs, daily : {0}]
  <2>1. req[r] \in [pc : {"policy", "limit", "quota"}, who : Callers, snap : Configs, daily : {0}]
    BY RequestFields
  <2>2. QED
    BY <2>1
<1>2. QED
  BY <1>1 DEF Stages, Goto, saveVars

LEMMA LeaveStages ==
  ASSUME Stages, NEW r \in Requests, Leave(r), UNCHANGED saveVars
  PROVE  Stages'
PROOF
  BY DEF Stages, Leave, saveVars

\* A save moves on, and publishes what it always would.
LEMMA ThenStages ==
  ASSUME Stages, NEW s \in Saves, NEW step \in Steps, Then(s, step),
         cfg' \in Configs, UNCHANGED req
  PROVE  Stages'
PROOF
<1>1. [save[s] EXCEPT !.step = step] \in [step : Steps, next : Configs]
  <2>1. save[s] \in [step : Steps, next : Configs]
    BY DEF Stages
  <2>2. QED
    BY <2>1
<1>2. QED
  BY <1>1 DEF Stages, Then

\* AllowN is a step of the limiter, and a request it admits or refuses stays in place.
LEMMA AllowStep ==
  ASSUME AInv, NEW r \in Requests, req[r].pc \in {"policy", "limit", "quota"},
         NEW k \in Keys, NEW m \in 0 .. MaxLimit,
         NEW place \in {"policy", "limit", "quota"}, Allow(r, k, m, place),
         UNCHANGED <<now, saveVars>>
  PROVE  LimiterSteps /\ Stages'
PROOF
<1>1. CASE Effective(m) = 0 /\ Goto(r, place) /\ UNCHANGED limiterVars
  BY <1>1, GotoStages DEF AInv, LimiterSteps
<1>2. Effective(m) \in 0 .. MaxLimit
  BY DEF AInv, LInv, LimiterTypeOK, Effective
<1>3. CASE Grant(k, Effective(m)) /\ Goto(r, place)
  <2>1. Effective(m) \in 1 .. MaxLimit
    BY <1>2, <1>3, LimiterAssumption DEF Grant
  <2>2. QED
    BY <1>3, <2>1, GotoStages DEF AInv, LimiterSteps, LimiterNext
<1>4. CASE Deny(k, Effective(m)) /\ Leave(r)
  <2>1. Effective(m) \in 1 .. MaxLimit
    BY <1>2, <1>4, LimiterAssumption DEF Deny
  <2>2. QED
    BY <1>4, <2>1, LeaveStages DEF AInv, LimiterSteps, LimiterNext
<1>5. QED
  BY <1>1, <1>3, <1>4 DEF Allow

\* Every step of the composition is a step, or a stutter, of both components.
LEMMA AdmissionStep == AInv /\ [Next]_vars => LimiterSteps /\ QuotaSteps /\ Stages'
PROOF
<1> SUFFICES ASSUME AInv, [Next]_vars PROVE LimiterSteps /\ QuotaSteps /\ Stages'
  OBVIOUS
<1>1. ASSUME NEW r \in Requests, NEW c \in Callers, Arrive(r, c)
      PROVE LimiterSteps /\ QuotaSteps /\ Stages'
  <2>1. LimiterSteps /\ QuotaSteps
    BY <1>1 DEF Arrive, LimiterSteps, QuotaSteps
  <2>2. Request("policy", c, cfg, 0)
          \in [pc : {"policy", "limit", "quota"}, who : Callers, snap : Configs, daily : {0}]
    BY DEF AInv, Stages, Request
  <2>3. QED
    BY <1>1, <2>1, <2>2 DEF Arrive, AInv, Stages, saveVars
<1>2. ASSUME NEW r \in Requests, Policy(r) PROVE LimiterSteps /\ QuotaSteps /\ Stages'
  <2>1. QuotaSteps
    BY <1>2 DEF Policy, QuotaSteps
  <2>2. CASE Leave(r) /\ UNCHANGED limiterVars
    BY <1>2, <2>1, <2>2, LeaveStages DEF Policy, AInv, LimiterSteps
  <2>3. CASE Goto(r, "limit") /\ UNCHANGED limiterVars
    BY <1>2, <2>1, <2>3, GotoStages DEF Policy, AInv, LimiterSteps
  <2>4. CASE /\ PolicyRPM[req[r].who] > 0
             /\ Allow(r, PolicyKey(req[r].who), PolicyRPM[req[r].who], "limit")
    <3>1. PolicyRPM[req[r].who] \in 0 .. MaxLimit /\ PolicyKey(req[r].who) \in Keys
      BY <1>2, <2>4, LimitsInRange, LimiterAssumption DEF Policy, AInv
    <3>2. QED
      BY <1>2, <2>1, <2>4, <3>1, AllowStep DEF Policy
  <2>5. QED
    BY <1>2, <2>2, <2>3, <2>4 DEF Policy
<1>3. ASSUME NEW r \in Requests, RateLimit(r) PROVE LimiterSteps /\ QuotaSteps /\ Stages'
  <2>1. RPM(req[r]) \in 0 .. MaxLimit /\ req[r].who \in Keys
    BY <1>3, LimitsInRange DEF RateLimit, AInv
  <2>2. QED
    BY <1>3, <2>1, AllowStep DEF RateLimit, QuotaSteps
<1>4. ASSUME NEW r \in Requests, QuotaLimit(r) PROVE LimiterSteps /\ QuotaSteps /\ Stages'
  <2>1. LimiterSteps /\ QuotaSteps
    BY <1>4 DEF QuotaLimit, LimiterSteps, QuotaSteps
  <2> DEFINE d == IF Daily(req[r]) = 0 THEN qlimit ELSE Daily(req[r])
  <2>2. d \in 0 .. MaxDaily
    BY <1>4, LimitsInRange DEF QuotaLimit, AInv, QInv, QuotaTypeOK
  <2>3. CASE Leave(r)
    BY <1>4, <2>1, <2>3, LeaveStages DEF QuotaLimit, AInv
  <2>4. CASE d # 0 /\ req' = [req EXCEPT ![r].pc = "count", ![r].daily = d]
    <3>1. d \in 1 .. MaxDaily
      BY <2>2, <2>4, QuotaAssumption
    <3> HIDE DEF d
    <3>2. [[req[r] EXCEPT !.pc = "count"] EXCEPT !.daily = d]
            \in [pc : {"count"}, who : Callers, snap : Configs, daily : 1 .. MaxDaily]
      <4>1. req[r] \in [pc : {"policy", "limit", "quota"}, who : Callers,
                        snap : Configs, daily : {0}]
        BY <1>4, RequestFields DEF QuotaLimit, AInv
      <4>2. QED
        BY <4>1, <3>1
    <3>3. req' = [req EXCEPT ![r] = [[req[r] EXCEPT !.pc = "count"] EXCEPT !.daily = d]]
      BY <2>4 DEF AInv, Stages
    <3>4. QED
      BY <1>4, <2>1, <3>2, <3>3 DEF QuotaLimit, AInv, Stages, saveVars
  <2>5. QED
    BY <1>4, <2>3, <2>4 DEF QuotaLimit, Uncapped
<1>5. ASSUME NEW r \in Requests, QuotaCount(r) PROVE LimiterSteps /\ QuotaSteps /\ Stages'
  <2>1. QuotaKey(req[r]) \in QKeys /\ req[r].daily \in 1 .. MaxDaily
    BY <1>5, LimitsInRange, RequestFields DEF QuotaCount, AInv
  <2>2. LimiterSteps /\ Stages'
    BY <1>5, LeaveStages DEF QuotaCount, LimiterSteps, AInv
  <2>3. QuotaSteps
    BY <1>5, <2>1 DEF QuotaCount, QuotaSteps, QuotaNext, Exhausted
  <2>4. QED
    BY <2>2, <2>3
<1>6. ASSUME NEW s \in Saves, Publish(s) PROVE LimiterSteps /\ QuotaSteps /\ Stages'
  <2>1. save[s].next \in Configs /\ Stages'
    BY <1>6, ThenStages DEF Publish, AInv, Stages, Steps
  <2>2. QED
    BY <1>6, <2>1 DEF Publish, LimiterSteps, QuotaSteps
<1>7. ASSUME NEW s \in Saves, SyncLimiter(s) PROVE LimiterSteps /\ QuotaSteps /\ Stages'
  <2>1. save[s].next.rpm \in 0 .. MaxLimit
    BY AdmissionAssumption DEF AInv, Stages
  <2>2. Stages'
    BY <1>7, ThenStages DEF SyncLimiter, AInv, Stages, Steps
  <2>3. QED
    BY <1>7, <2>1, <2>2 DEF SyncLimiter, LimiterSteps, LimiterNext, QuotaSteps
<1>8. ASSUME NEW s \in Saves, SyncQuota(s) PROVE LimiterSteps /\ QuotaSteps /\ Stages'
  <2>1. save[s].next.daily \in 0 .. MaxDaily
    BY AdmissionAssumption DEF AInv, Stages
  <2>2. Stages'
    BY <1>8, ThenStages DEF SyncQuota, AInv, Stages, Steps
  <2>3. QED
    BY <1>8, <2>1, <2>2 DEF SyncQuota, LimiterSteps, QuotaNext, QuotaSteps
<1>9. ASSUME NEW s \in Saves, SyncWarn(s) PROVE LimiterSteps /\ QuotaSteps /\ Stages'
  <2>1. save[s].next.warn \in WarnPercents
    BY AdmissionAssumption DEF AInv, Stages
  <2>2. Stages'
    BY <1>9, ThenStages DEF SyncWarn, AInv, Stages, Steps
  <2>3. QED
    BY <1>9, <2>1, <2>2 DEF SyncWarn, LimiterSteps, QuotaNext, QuotaSteps
<1>10. CASE Sweep
  BY <1>10 DEF Sweep, LimiterSteps, LimiterNext, QuotaSteps, QuotaNext, AInv, Stages, saveVars
<1>11. CASE TimePasses
  BY <1>11 DEF TimePasses, LimiterSteps, LimiterNext, QuotaSteps, QuotaNext, AInv, Stages, saveVars
<1>12. CASE UNCHANGED vars
  BY <1>12 DEF vars, LimiterSteps, QuotaSteps, AInv, Stages, saveVars
<1>13. QED
  BY <1>1, <1>2, <1>3, <1>4, <1>5, <1>6, <1>7, <1>8, <1>9, <1>10, <1>11, <1>12 DEF Next

LEMMA AdmissionInit == Init => AInv
PROOF
<1> SUFFICES ASSUME Init PROVE AInv
  OBVIOUS
<1>1. LInv /\ QInv
  BY LimiterInitInv, QuotaInitInv DEF Init
<1>2. Stages
  <2>1. save \in [Saves -> [step : Steps, next : Configs]]
    <3>1. {[step |-> "publish", next |-> c] : c \in Configs} \subseteq [step : Steps, next : Configs]
      BY DEF Steps
    <3>2. QED
      BY <3>1 DEF Init
  <2>2. QED
    BY <2>1, AdmissionAssumption DEF Init, Stages
<1>3. QED
  BY <1>1, <1>2 DEF AInv

LEMMA AdmissionInv == AInv /\ [Next]_vars => AInv'
PROOF
  BY AdmissionStep, LimiterNextInv, QuotaNextInv DEF AInv, LimiterSteps, QuotaSteps

\* The admission pipeline, under any interleaving with saves, sweeps and ticks, uses
\* the limiter and the quota as their specifications allow: it implements both.
THEOREM ImplementsParts == Spec => LimiterSpec /\ QuotaSpec
PROOF
<1>1. Init => now = 0 /\ LimiterInit /\ QuotaInit
  BY DEF Init
<1>2. QED
  BY AdmissionInit, AdmissionInv, AdmissionStep, <1>1, PTL
     DEF Spec, LimiterSpec, QuotaSpec, LimiterSteps, QuotaSteps

\* The pipeline's state always has its type.
THEOREM AdmissionTypes == Spec => []TypeOK
PROOF
<1>1. AInv => TypeOK
  BY DEF AInv, LInv, QInv, Stages, Steps, TypeOK
<1>2. QED
  BY AdmissionInit, AdmissionInv, <1>1, PTL DEF Spec

\* Whatever requests, saves and sweeps interleave, no key is admitted more often
\* within a window than the limit it was counted under.
THEOREM AdmissionWindow == Spec => []WindowBound
PROOF
<1>1. AInv => WindowBound
  BY DEF AInv, LInv
<1>2. QED
  BY AdmissionInit, AdmissionInv, <1>1, PTL DEF Spec

\* ... and refused only when that many admissions lie within the last window.
THEOREM AdmissionDenials == Spec => []NoFalseDenial
PROOF
  BY ImplementsParts, DenialsJustified

\* ... no key gets more units in a day than its most generous limit, and what
\* SetLimit(0) forgot.
THEOREM AdmissionDay == Spec => []DayBound
PROOF
<1>1. AInv => DayBound
  BY CountsNat DEF AInv, QInv, Accounts, DayBound
<1>2. QED
  BY AdmissionInit, AdmissionInv, <1>1, PTL DEF Spec

\* ... and no key is warned twice in a day.
THEOREM AdmissionWarnings == Spec => []WarnsOncePerDay
PROOF
<1>1. AInv => WarnsOncePerDay
  BY DEF AInv, QInv, WarningsTold, WarnsOncePerDay
<1>2. QED
  BY AdmissionInit, AdmissionInv, <1>1, PTL DEF Spec

-----------------------------------------------------------------------------
(***************************************************************************)
(* Relay.  No property of it is inductive by itself: a bound on tried[i]   *)
(* only survives because the attempt number `a` keeps step with it, and    *)
(* that step depends on pc.  RInv below records, per place of the loop,    *)
(* how a, tried, ended and the observed events of the current candidate    *)
(* relate.                                                                 *)
(***************************************************************************)
Working == {"attempt", "flight", "judge", "resend", "backoff", "failover"}
Retryable == {"network", "timeout", "r429", "s5xx", "other"}

\* Candidates after the current one are untouched ...
Later ==
  \A k \in Slots : k > i =>
    tried[k] = 0 /\ retryEvents[k] = 0 /\ failoverEvents[k] = 0

\* ... those before it are finished and were left by a failover ...
Earlier ==
  \A k \in Slots : k < i =>
    /\ tried[k] \in 1 .. retry[k] + 1
    /\ retryEvents[k] = tried[k] - 1 /\ failoverEvents[k] = 1
    /\ tried[k] = retry[k] + 1 \/ ended[k] = "timeout"

\* ... and the current one is where pc says.
Current ==
  /\ pc = "enter" => i = 0 /\ last = "none"
  /\ i = 0 => pc \in {"enter", "done"} /\ result # "failure"
  /\ i > 0 => failoverEvents[i] = 0
  /\ pc = "attempt" => a \in 1 .. retry[i] + 1 /\ tried[i] = a - 1 /\ retryEvents[i] = a - 1
  /\ pc \in {"flight", "judge"} =>
       a \in 1 .. retry[i] + 1 /\ tried[i] = a /\ retryEvents[i] = a - 1
  /\ pc \in {"resend", "backoff"} =>
       a \in 2 .. retry[i] + 1 /\ tried[i] = a - 1 /\ retryEvents[i] = a - 2
  /\ pc \in {"failover", "done"} /\ i > 0 =>
       tried[i] \in 1 .. retry[i] + 1 /\ retryEvents[i] = tried[i] - 1

\* A failure worth another look, and what it says of the current candidate.
Judged ==
  /\ pc \in {"judge", "resend", "backoff", "failover"} =>
       last \in Retryable /\ ended[i] = last
  /\ pc = "failover" /\ last # "timeout" => tried[i] = retry[i] + 1
  /\ result # "pending" => pc = "done"
  /\ result = "failure" /\ last # "timeout" => i = n /\ tried[i] = retry[i] + 1

\* retry_on_timeout was on when a timed-out request was sent on its way again.
Permission ==
  last = "timeout" =>
    /\ retryOnTimeout => permitted
    /\ pc \in {"attempt", "resend", "backoff"} => permitted

RInv == RelayTypeOK /\ Later /\ Earlier /\ Current /\ Judged /\ Permission

\* The initial states satisfy the invariant.
LEMMA RelayInitInv == RelayInit => RInv
PROOF
<1> SUFFICES ASSUME RelayInit PROVE RInv
  OBVIOUS
<1> USE RelayAssumption DEF RelayInit, Slots
<1>1. RelayTypeOK
  <2>1. n \in 0 .. MaxCands /\ i \in 0 .. n /\ a \in 0 .. MaxRetry + 1
    OBVIOUS
  <2>2. retry \in [Slots -> 0 .. MaxRetry] /\ tried \in [Slots -> Nat]
    OBVIOUS
  <2>3. ended \in [Slots -> Verdicts \cup {"none"}]
    OBVIOUS
  <2>4. retryEvents \in [Slots -> Nat] /\ failoverEvents \in [Slots -> Nat]
    OBVIOUS
  <2>5. armed \in BOOLEAN /\ permitted \in BOOLEAN /\ ctxDone \in BOOLEAN
    OBVIOUS
  <2>6. QED
    BY <2>1, <2>2, <2>3, <2>4, <2>5 DEF RelayTypeOK, Places, Results
<1>2. Later
  BY DEF Later
<1>3. Earlier
  BY DEF Earlier
<1>4. Current
  BY DEF Current
<1>5. Judged
  BY DEF Judged
<1>6. Permission
  BY DEF Permission
<1>7. QED
  BY <1>1, <1>2, <1>3, <1>4, <1>5, <1>6 DEF RInv

\* Every step of the loop, and of its environment, preserves the invariant.
LEMMA RelayNextInv == RInv /\ [RelayNext]_relayVars => RInv'
PROOF
<1> SUFFICES ASSUME RInv, [RelayNext]_relayVars PROVE RInv'
  OBVIOUS
<1>0. /\ Slots \subseteq Nat /\ 0 \notin Slots
      /\ \A k \in 1 .. n : k \in Slots
  BY RelayAssumption DEF RInv, RelayTypeOK, Slots
<1> USE <1>0 DEF RInv, request, config, events
<1>1. CASE Enter
  <2> USE <1>1 DEF Enter, Return
  <2>1. RelayTypeOK'
    <3>1. i' \in 0 .. n' /\ a' \in 0 .. MaxRetry + 1
      BY RelayAssumption DEF RelayTypeOK, Current
    <3>2. QED
      BY <3>1 DEF RelayTypeOK, Places, Results, Verdicts
  <2>2. Later'
    BY DEF RelayTypeOK, Later, Current
  <2>3. Earlier'
    BY DEF RelayTypeOK, Later, Earlier, Current, Judged
  <2>4. Current'
    BY DEF RelayTypeOK, Later, Current, Judged, Retryable, Places
  <2>5. Judged'
    BY DEF RelayTypeOK, Current, Judged, Retryable
  <2>6. Permission'
    BY DEF RelayTypeOK, Current, Judged, Permission
  <2>7. QED
    BY <2>1, <2>2, <2>3, <2>4, <2>5, <2>6
<1>2. CASE Attempt
  <2> USE <1>2 DEF Attempt, Return, Deadline
  <2>0. i \in 1 .. n /\ i \in Slots
    BY DEF RelayTypeOK, Current
  <2> USE <2>0
  <2>1. RelayTypeOK'
    <3>1. i' \in 0 .. n' /\ a' \in 0 .. MaxRetry + 1
      BY RelayAssumption DEF RelayTypeOK, Current
    <3>2. tried' \in [Slots -> Nat]
      BY DEF RelayTypeOK
    <3>3. ended' \in [Slots -> Verdicts \cup {"none"}]
      BY DEF RelayTypeOK, Verdicts, Errors
    <3>4. last' \in Verdicts \cup {"none"}
      BY DEF RelayTypeOK, Verdicts, Errors
    <3>5. pc' \in Places /\ result' \in Results
      BY DEF RelayTypeOK, Places, Results
    <3>6. armed' \in BOOLEAN
      BY DEF RelayTypeOK
    <3>7. QED
      BY <3>1, <3>2, <3>3, <3>4, <3>5, <3>6 DEF RelayTypeOK
  <2>2. Later'
    BY DEF RelayTypeOK, Later, Current
  <2>3. Earlier'
    BY DEF RelayTypeOK, Later, Earlier, Current, Judged
  <2>4. Current'
    BY DEF RelayTypeOK, Later, Current, Judged, Retryable, Places
  <2>5. Judged'
    BY DEF RelayTypeOK, Current, Judged, Retryable
  <2>6. Permission'
    BY DEF RelayTypeOK, Current, Judged, Permission
  <2>7. QED
    BY <2>1, <2>2, <2>3, <2>4, <2>5, <2>6
<1>3. CASE Judge
  <2> USE <1>3 DEF Judge, CanRetrySame, Budget
  <2>0. i \in 1 .. n /\ i \in Slots
    BY DEF RelayTypeOK, Current
  <2> USE <2>0
  <2>1. RelayTypeOK'
    <3>1. retry[i] \in 0 .. MaxRetry
      BY DEF RelayTypeOK
    <3>2. a' \in 0 .. MaxRetry + 1
      BY <3>1, RelayAssumption DEF RelayTypeOK
    <3>3. QED
      BY <3>2 DEF RelayTypeOK, Places
  <2>2. Later'
    BY DEF RelayTypeOK, Later, Current
  <2>3. Earlier'
    BY DEF RelayTypeOK, Later, Earlier, Current, Judged
  <2>4. Current'
    BY DEF RelayTypeOK, Later, Current, Judged, Retryable, Places
  <2>5. Judged'
    BY DEF RelayTypeOK, Current, Judged, Retryable
  <2>6. Permission'
    BY DEF RelayTypeOK, Current, Judged, Permission
  <2>7. QED
    BY <2>1, <2>2, <2>3, <2>4, <2>5, <2>6
<1>4. CASE Resend
  <2> USE <1>4 DEF Resend, CanRetrySame
  <2>0. i \in 1 .. n /\ i \in Slots
    BY DEF RelayTypeOK, Current
  <2> USE <2>0
  <2>1. RelayTypeOK'
    BY DEF RelayTypeOK, Current, Places, Results, Verdicts, Answers, Errors
  <2>2. Later'
    BY DEF RelayTypeOK, Later, Current
  <2>3. Earlier'
    BY DEF RelayTypeOK, Later, Earlier, Current, Judged
  <2>4. Current'
    BY DEF RelayTypeOK, Later, Current, Judged, Retryable, Places
  <2>5. Judged'
    BY DEF RelayTypeOK, Current, Judged, Retryable
  <2>6. Permission'
    BY DEF RelayTypeOK, Current, Judged, Permission
  <2>7. QED
    BY <2>1, <2>2, <2>3, <2>4, <2>5, <2>6
<1>5. CASE Backoff
  <2> USE <1>5 DEF Backoff, Return, EmitRetry
  <2>0. i \in 1 .. n /\ i \in Slots
    BY DEF RelayTypeOK, Current
  <2> USE <2>0
  <2>1. RelayTypeOK'
    <3>1. i' \in 0 .. n' /\ a' \in 0 .. MaxRetry + 1
      BY RelayAssumption DEF RelayTypeOK, Current
    <3>2. retryEvents' \in [Slots -> Nat]
      BY DEF RelayTypeOK
    <3>3. QED
      BY <3>1, <3>2 DEF RelayTypeOK, Places, Results, Verdicts
  <2>2. Later'
    BY DEF RelayTypeOK, Later, Current
  <2>3. Earlier'
    BY DEF RelayTypeOK, Later, Earlier, Current, Judged
  <2>4. Current'
    BY DEF RelayTypeOK, Later, Current, Judged, Retryable, Places
  <2>5. Judged'
    BY DEF RelayTypeOK, Current, Judged, Retryable
  <2>6. Permission'
    BY DEF RelayTypeOK, Current, Judged, Permission
  <2>7. QED
    BY <2>1, <2>2, <2>3, <2>4, <2>5, <2>6
<1>6. CASE Failover
  <2> USE <1>6 DEF Failover, Return, CanFailover, CanRetrySame, HasNext
  <2>0. i \in 1 .. n /\ i \in Slots
    BY DEF RelayTypeOK, Current
  <2> USE <2>0
  <2>1. RelayTypeOK'
    <3>1. i' \in 0 .. n' /\ a' \in 0 .. MaxRetry + 1
      BY RelayAssumption DEF RelayTypeOK, Current
    <3>2. failoverEvents' \in [Slots -> Nat]
      BY DEF RelayTypeOK
    <3>3. QED
      BY <3>1, <3>2 DEF RelayTypeOK, Places, Results, Verdicts
  <2>2. Later'
    BY DEF RelayTypeOK, Later, Current
  <2>3. Earlier'
    BY DEF RelayTypeOK, Later, Earlier, Current, Judged
  <2>4. Current'
    BY DEF RelayTypeOK, Later, Current, Judged, Retryable, Places
  <2>5. Judged'
    BY DEF RelayTypeOK, Current, Judged, Retryable
  <2>6. Permission'
    BY DEF RelayTypeOK, Current, Judged, Permission
  <2>7. QED
    BY <2>1, <2>2, <2>3, <2>4, <2>5, <2>6
<1>7. ASSUME NEW v \in Answers, Answer(v) PROVE RInv'
  <2> USE <1>7 DEF Answer, Return, Answers
  <2>0. i \in 1 .. n /\ i \in Slots
    BY DEF RelayTypeOK, Current
  <2> USE <2>0
  <2>1. RelayTypeOK'
    BY DEF RelayTypeOK, Current, Places, Results, Verdicts, Answers, Errors
  <2>2. Later'
    BY DEF RelayTypeOK, Later, Current
  <2>3. Earlier'
    BY DEF RelayTypeOK, Later, Earlier, Current, Judged
  <2>4. Current'
    BY DEF RelayTypeOK, Later, Current, Judged, Retryable, Places
  <2>5. Judged'
    BY DEF RelayTypeOK, Current, Judged, Retryable
  <2>6. Permission'
    BY DEF RelayTypeOK, Current, Judged, Permission
  <2>7. QED
    BY <2>1, <2>2, <2>3, <2>4, <2>5, <2>6
<1>8. ASSUME NEW kind \in Errors, CallError(kind) PROVE RInv'
  <2> USE <1>8 DEF CallError, Return, Errors
  <2>0. i \in 1 .. n /\ i \in Slots
    BY DEF RelayTypeOK, Current
  <2> USE <2>0
  <2>1. RelayTypeOK'
    BY DEF RelayTypeOK, Current, Places, Results, Verdicts, Answers, Errors
  <2>2. Later'
    BY DEF RelayTypeOK, Later, Current
  <2>3. Earlier'
    BY DEF RelayTypeOK, Later, Earlier, Current, Judged
  <2>4. Current'
    BY DEF RelayTypeOK, Later, Current, Judged, Retryable, Places
  <2>5. Judged'
    BY DEF RelayTypeOK, Current, Judged, Retryable
  <2>6. Permission'
    BY DEF RelayTypeOK, Current, Judged, Permission
  <2>7. QED
    BY <2>1, <2>2, <2>3, <2>4, <2>5, <2>6
<1>9. CASE Disconnect
  <2> USE <1>9 DEF Disconnect
  <2>1. RelayTypeOK'
    BY DEF RelayTypeOK, Current, Places, Results, Verdicts, Answers, Errors
  <2>2. Later'
    BY DEF RelayTypeOK, Later, Current
  <2>3. Earlier'
    BY DEF RelayTypeOK, Later, Earlier, Current, Judged
  <2>4. Current'
    BY DEF RelayTypeOK, Later, Current, Judged, Retryable, Places
  <2>5. Judged'
    BY DEF RelayTypeOK, Current, Judged, Retryable
  <2>6. Permission'
    BY DEF RelayTypeOK, Current, Judged, Permission
  <2>7. QED
    BY <2>1, <2>2, <2>3, <2>4, <2>5, <2>6
<1>10. CASE Reconfigure
  <2> USE <1>10 DEF Reconfigure
  <2>1. RelayTypeOK'
    BY DEF RelayTypeOK, Current, Places, Results, Verdicts, Answers, Errors
  <2>2. Later'
    BY DEF RelayTypeOK, Later, Current
  <2>3. Earlier'
    BY DEF RelayTypeOK, Later, Earlier, Current, Judged
  <2>4. Current'
    BY DEF RelayTypeOK, Later, Current, Judged, Retryable, Places
  <2>5. Judged'
    BY DEF RelayTypeOK, Current, Judged, Retryable
  <2>6. Permission'
    BY DEF RelayTypeOK, Current, Judged, Permission
  <2>7. QED
    BY <2>1, <2>2, <2>3, <2>4, <2>5, <2>6
<1>11. CASE UNCHANGED relayVars
  <2> USE <1>11 DEF relayVars
  <2>1. RelayTypeOK'
    BY DEF RelayTypeOK, Current, Places, Results, Verdicts, Answers, Errors
  <2>2. Later'
    BY DEF RelayTypeOK, Later, Current
  <2>3. Earlier'
    BY DEF RelayTypeOK, Later, Earlier, Current, Judged
  <2>4. Current'
    BY DEF RelayTypeOK, Later, Current, Judged, Retryable, Places
  <2>5. Judged'
    BY DEF RelayTypeOK, Current, Judged, Retryable
  <2>6. Permission'
    BY DEF RelayTypeOK, Current, Judged, Permission
  <2>7. QED
    BY <2>1, <2>2, <2>3, <2>4, <2>5, <2>6
<1>12. QED
  BY <1>1, <1>2, <1>3, <1>4, <1>5, <1>6, <1>7, <1>8, <1>9, <1>10, <1>11 DEF RelayNext, Step

\* The state of the loop always has its type.
THEOREM RelayTypeCorrect == RelaySpec => []RelayTypeOK
PROOF
<1>1. RInv => RelayTypeOK
  BY DEF RInv
<1>2. QED
  BY RelayInitInv, RelayNextInv, <1>1, PTL DEF RelaySpec

\* Upstreams are tried in list order, each at most 1 + retry times, for every list
\* and every budget: the loop of Do cannot skip or repeat a candidate.
THEOREM AttemptsBoundedInOrder == RelaySpec => []BoundedInOrder
PROOF
<1>1. RInv => BoundedInOrder
  <2> SUFFICES ASSUME RInv, NEW k \in Slots
               PROVE /\ tried[k] <= retry[k] + 1
                     /\ k > i => tried[k] = 0
                     /\ k < i => tried[k] > 0
    BY DEF BoundedInOrder
  <2>1. /\ i \in Nat /\ k \in Nat /\ k > 0 /\ retry[k] \in Nat /\ tried[k] \in Nat
        /\ pc \in Places
    BY RelayAssumption DEF RInv, RelayTypeOK, Slots
  <2>2. CASE k # i
    BY <2>1, <2>2 DEF RInv, Later, Earlier
  <2>3. CASE k = i
    BY <2>1, <2>3 DEF RInv, Current, Places
  <2>4. QED
    BY <2>2, <2>3
<1>2. QED
  BY RelayInitInv, RelayNextInv, <1>1, PTL DEF RelaySpec

\* Do returns a failure other than a timeout only when every candidate was tried
\* 1 + retry times or ended in a timeout: no upstream is given up on early.
THEOREM NoEarlySurrender == RelaySpec => []GivesUpOnlyWhenExhausted
PROOF
<1>1. RInv => GivesUpOnlyWhenExhausted
  <2> SUFFICES ASSUME RInv, pc = "done", result = "failure", last # "timeout",
                      NEW k \in 1 .. n
               PROVE tried[k] = retry[k] + 1 \/ ended[k] = "timeout"
    BY DEF GivesUpOnlyWhenExhausted
  <2>1. i = n /\ i \in Nat /\ k \in Slots /\ k \in Nat
    BY RelayAssumption DEF RInv, RelayTypeOK, Judged, Slots
  <2>2. CASE k < i
    BY <2>1, <2>2 DEF RInv, Earlier
  <2>3. CASE k = i
    BY <2>3 DEF RInv, Judged
  <2>4. QED
    BY <2>1, <2>2, <2>3
<1>2. QED
  BY RelayInitInv, RelayNextInv, <1>1, PTL DEF RelaySpec

\* The retry and failover events tell exactly the attempts that were made.
THEOREM EventsFaithful == RelaySpec => []EventsMatchAttempts
PROOF
<1>1. RInv => EventsMatchAttempts
  <2> SUFFICES ASSUME RInv, pc = "done", NEW k \in Slots
               PROVE /\ tried[k] > 0 => retryEvents[k] = tried[k] - 1
                     /\ tried[k] = 0 => retryEvents[k] = 0
                     /\ failoverEvents[k] = IF k < i THEN 1 ELSE 0
    BY DEF EventsMatchAttempts
  <2>1. i \in Nat /\ k \in Nat /\ k > 0 /\ retry[k] \in Nat /\ tried[k] \in Nat
    BY RelayAssumption DEF RInv, RelayTypeOK, Slots
  <2>2. CASE k # i
    BY <2>1, <2>2 DEF RInv, Later, Earlier
  <2>3. CASE k = i
    BY <2>1, <2>3 DEF RInv, Current
  <2>4. QED
    BY <2>2, <2>3
<1>2. QED
  BY RelayInitInv, RelayNextInv, <1>1, PTL DEF RelaySpec

\* No request is sent again after a timeout unless retry_on_timeout was on since,
\* however often the live configuration flips the flag between the three looks.
THEOREM TimedOutRequestsStay == RelaySpec => TimeoutNotResent
PROOF
<1>1. RInv /\ [RelayNext]_relayVars => [tried' # tried /\ last = "timeout" => permitted]_relayVars
  <2> SUFFICES ASSUME RInv, RelayNext, tried' # tried, last = "timeout" PROVE permitted
    BY DEF relayVars
  <2>1. Attempt
    BY DEF RelayNext, Step, Enter, Judge, Resend, Backoff, Failover, Answer, CallError,
       Disconnect, Reconfigure
  <2>2. QED
    BY <2>1 DEF RInv, Permission, Attempt
<1>2. QED
  BY RelayInitInv, RelayNextInv, <1>1, PTL DEF RelaySpec, TimeoutNotResent

(***************************************************************************)
(* Logger: the ring shows exactly the last entries written, Close leaves   *)
(* nothing queued unwritten, and the files stay as the rotations promise.  *)
(***************************************************************************)

LogCalls == {"idle", "open", "ignored", "queued", "dropped", "panicked", "over"}
LogFiles == [handle : Handles, there : BOOLEAN, size : Nat, written : Nat]

\* An entry waits in a queue, or was shown.
In(q, e) == \E p \in 1 .. Len(q) : q[p] = e

\* The writer holds an entry while it works on it, and is gone only when the channel
\* is closed and empty; a call that queued its entry finds it in the channel, with
\* the writer, or shown.
QueueInv ==
  /\ writer \in {"write", "show"} => item \in Entries
  /\ writer = "gone" => sealed /\ queue = <<>>
  /\ closer = "closed" => writer = "gone"
  /\ \A e \in Entries : call[e] = "queued" =>
       In(queue, e) \/ (writer \in {"write", "show"} /\ item = e) \/ In(seen, e)

\* The slot written j entries ago, without arithmetic modulo the size.
Slot(h, j) == IF j <= h THEN h - j ELSE h - j + RingSize

RingOf(d, h, c, s) ==
  /\ c = IF Len(s) < RingSize THEN Len(s) ELSE RingSize
  /\ \A j \in 1 .. c : d[Slot(h, j)] = s[Len(s) - j + 1]

RingInv == RingOf(data, ringHead, count, seen)

\* While the logger has the file, or failed to reopen it, it knows its size.
FileInv == file.handle \in {"file", "nil"} => file.size = file.written

DayInv == curDay <= today /\ BackupsBeforeToday

LogInv == LoggerTypeOK /\ QueueInv /\ RingInv /\ FileInv /\ SizeBound /\ DayInv

USE LoggerAssumption

-----------------------------------------------------------------------------
\* The remainder of a number that is a multiple of w and less than w more.
LEMMA Remainder ==
  ASSUME NEW w \in Nat \ {0}, NEW q \in Int, NEW r \in 0 .. w - 1
  PROVE  (r + w * q) % w = r
OBVIOUS

LEMMA Wraps ==
  ASSUME NEW w \in Nat \ {0}, NEW h \in 0 .. w - 1
  PROVE  /\ (h + 1) % w = IF h + 1 < w THEN h + 1 ELSE 0
         /\ (h - 1 + w) % w = IF h = 0 THEN w - 1 ELSE h - 1
<1>1. (h + 1) % w = IF h + 1 < w THEN h + 1 ELSE 0
  <2>1. CASE h + 1 < w
    <3>1. h + 1 \in 0 .. w - 1 /\ (h + 1) + w * 0 = h + 1
      BY <2>1
    <3> QED BY <2>1, <3>1, Remainder
  <2>2. CASE ~(h + 1 < w)
    <3>1. h + 1 = 0 + w * 1 /\ 0 \in 0 .. w - 1
      BY <2>2
    <3> QED BY <2>2, <3>1, Remainder
  <2> QED BY <2>1, <2>2
<1>2. (h - 1 + w) % w = IF h = 0 THEN w - 1 ELSE h - 1
  <2>1. CASE h = 0
    <3>1. w - 1 \in 0 .. w - 1 /\ h - 1 + w = (w - 1) + w * 0
      BY <2>1
    <3> QED BY <2>1, <3>1, Remainder
  <2>2. CASE h # 0
    <3>1. h - 1 \in 0 .. w - 1 /\ h - 1 + w = (h - 1) + w * 1
      BY <2>2
    <3> QED BY <2>2, <3>1, Remainder
  <2> QED BY <2>1, <2>2
<1> QED BY <1>1, <1>2

\* Where Recent looks for the entry written j entries ago.
LEMMA RecentSlot ==
  ASSUME NEW h \in 0 .. RingSize - 1, NEW j \in 1 .. RingSize
  PROVE  /\ Slot(h, j) \in 0 .. RingSize - 1
         /\ (((h - 1 + RingSize) % RingSize) - (j - 1) + RingSize * j) % RingSize = Slot(h, j)
<1> DEFINE w == RingSize
           s == (h - 1 + w) % w
<1>1. w \in Nat \ {0} /\ s = IF h = 0 THEN w - 1 ELSE h - 1
  BY Wraps
<1>2. Slot(h, j) \in 0 .. w - 1
  BY DEF Slot
<1> HIDE DEF s
<1>3. \E q \in Int : s - (j - 1) + w * j = Slot(h, j) + w * q
  <2>1. CASE h # 0 /\ j > h
    <3>1. s - (j - 1) = Slot(h, j) - w
      BY <1>1, <2>1 DEF Slot
    <3>2. w * j = w + w * (j - 1)
      BY <1>1
    <3>3. s - (j - 1) + w * j = Slot(h, j) + w * (j - 1)
      BY <1>1, <1>2, <3>1, <3>2
    <3>4. j - 1 \in Int
      OBVIOUS
    <3> WITNESS j - 1 \in Int
    <3> QED BY <3>3
  <2>2. CASE ~(h # 0 /\ j > h)
    <3>1. s - (j - 1) = Slot(h, j)
      BY <1>1, <2>2 DEF Slot
    <3>2. s - (j - 1) + w * j = Slot(h, j) + w * j
      BY <3>1
    <3> QED BY <3>2
  <2> QED BY <2>1, <2>2
<1>4. PICK q \in Int : s - (j - 1) + w * j = Slot(h, j) + w * q
  BY <1>3
<1>5. (Slot(h, j) + w * q) % w = Slot(h, j)
  BY <1>1, <1>2, Remainder
<1> QED BY <1>2, <1>4, <1>5 DEF s

\* Add overwrites the oldest slot, which is not one of the last that are kept.
LEMMA RingAdds ==
  ASSUME NEW d \in [0 .. RingSize - 1 -> Entries \cup {Unused}],
         NEW h \in 0 .. RingSize - 1, NEW c \in 0 .. RingSize, NEW s \in Seq(Entries),
         NEW e \in Entries, RingOf(d, h, c, s)
  PROVE  RingOf([d EXCEPT ![h] = e], (h + 1) % RingSize,
                IF c < RingSize THEN c + 1 ELSE c, Append(s, e))
<1> SUFFICES ASSUME NEW g, g = (h + 1) % RingSize,
                    NEW b, b = IF c < RingSize THEN c + 1 ELSE c,
                    NEW t, t = Append(s, e), NEW f, f = [d EXCEPT ![h] = e],
                    NEW m, m = Len(s)
             PROVE  RingOf(f, g, b, t)
  OBVIOUS
<1>1. g = IF h + 1 < RingSize THEN h + 1 ELSE 0
  BY Wraps
<1>2. /\ m \in Nat /\ Len(t) = m + 1 /\ t[m + 1] = e
      /\ \A p \in 1 .. m : t[p] = s[p]
  OBVIOUS
<1>3. c = IF m < RingSize THEN m ELSE RingSize
  BY DEF RingOf
<1>4. b = IF Len(t) < RingSize THEN Len(t) ELSE RingSize
  BY <1>2, <1>3
<1>5. f[h] = e /\ \A p \in 0 .. RingSize - 1 : p # h => f[p] = d[p]
  OBVIOUS
<1>6. ASSUME NEW j \in 1 .. b PROVE f[Slot(g, j)] = t[Len(t) - j + 1]
  <2>1. CASE j = 1
    <3>1. Slot(g, 1) = h
      BY <1>1 DEF Slot
    <3>2. Len(t) - 1 + 1 = m + 1
      BY <1>2
    <3> QED BY <1>2, <1>5, <2>1, <3>1, <3>2
  <2>2. CASE j # 1
    <3>1. j - 1 \in 1 .. c /\ j - 1 < RingSize /\ c <= m
      BY <1>2, <1>3, <1>6, <2>2
    <3>2. Slot(g, j) = Slot(h, j - 1) /\ Slot(h, j - 1) # h /\ Slot(h, j - 1) \in 0 .. RingSize - 1
      BY <1>1, <2>2, <3>1 DEF Slot
    <3>3. d[Slot(h, j - 1)] = s[m - (j - 1) + 1]
      BY <3>1 DEF RingOf
    <3>4. m - (j - 1) + 1 \in 1 .. m /\ Len(t) - j + 1 = m - (j - 1) + 1
      BY <1>2, <3>1
    <3> QED BY <1>2, <1>5, <3>2, <3>3, <3>4
  <2> QED BY <2>1, <2>2
<1> QED BY <1>4, <1>6 DEF RingOf

LEMMA Joins ==
  ASSUME NEW q \in Seq(Entries), NEW e \in Entries
  PROVE  /\ Append(q, e) \in Seq(Entries) /\ Len(Append(q, e)) = Len(q) + 1
         /\ In(Append(q, e), e)
         /\ \A x \in Entries : In(q, x) => In(Append(q, e), x)
<1> SUFFICES ASSUME NEW t, t = Append(q, e), NEW m, m = Len(q)
             PROVE  /\ t \in Seq(Entries) /\ Len(t) = m + 1 /\ In(t, e)
                    /\ \A x \in Entries : In(q, x) => In(t, x)
  OBVIOUS
<1>1. /\ t \in Seq(Entries) /\ m \in Nat /\ Len(t) = m + 1 /\ t[m + 1] = e
      /\ \A p \in 1 .. m : t[p] = q[p]
  OBVIOUS
<1>2. \A p \in 1 .. m : p \in 1 .. m + 1
  BY <1>1
<1>3. m + 1 \in 1 .. Len(t)
  BY <1>1
<1> QED BY <1>1, <1>2, <1>3 DEF In

LEMMA Leaves ==
  ASSUME NEW q \in Seq(Entries), q # <<>>
  PROVE  /\ Head(q) \in Entries /\ Tail(q) \in Seq(Entries) /\ Len(Tail(q)) = Len(q) - 1
         /\ Len(q) \in Nat
         /\ \A x \in Entries : In(q, x) => x = Head(q) \/ In(Tail(q), x)
<1> SUFFICES ASSUME NEW t, t = Tail(q), NEW m, m = Len(q)
             PROVE  /\ Head(q) \in Entries /\ t \in Seq(Entries) /\ Len(t) = m - 1 /\ m \in Nat
                    /\ \A x \in Entries : In(q, x) => x = Head(q) \/ In(t, x)
  OBVIOUS
<1>1. /\ t \in Seq(Entries) /\ m \in Nat /\ m > 0 /\ Len(t) = m - 1 /\ Head(q) = q[1]
      /\ Head(q) \in Entries /\ \A p \in 1 .. m - 1 : t[p] = q[p + 1]
  OBVIOUS
<1>2. ASSUME NEW x \in Entries, In(q, x), x # q[1] PROVE In(t, x)
  <2>1. PICK p \in 1 .. m : q[p] = x
    BY <1>2 DEF In
  <2>2. p - 1 \in 1 .. m - 1 /\ p = (p - 1) + 1
    BY <1>1, <1>2, <2>1
  <2>3. t[p - 1] = x
    BY <1>1, <2>1, <2>2
  <2> QED BY <1>1, <2>2, <2>3 DEF In
<1> QED BY <1>1, <1>2

-----------------------------------------------------------------------------
LEMMA LogInitInv == LoggerInit => LogInv
<1> SUFFICES ASSUME LoggerInit PROVE LogInv
  OBVIOUS
<1>1. LoggerTypeOK
  <2>1. call \in [Entries -> {"idle", "open", "ignored", "queued", "dropped", "panicked", "over"}]
    BY DEF LoggerInit
  <2>2. data \in [0 .. RingSize - 1 -> Entries \cup {Unused}] /\ ringHead \in 0 .. RingSize - 1
        /\ count \in 0 .. RingSize
    BY DEF LoggerInit
  <2>3. closed \in BOOLEAN /\ sealed \in BOOLEAN
    BY DEF LoggerInit
  <2>4. /\ queue \in Seq(Entries) /\ seen \in Seq(Entries) /\ Len(queue) <= QueueCap
        /\ backups \subseteq 0 .. LastDay
    BY DEF LoggerInit
  <2>5. file \in LogFiles
    BY DEF LoggerInit, Opened, LogFiles, Handles
  <2>6. curDay \in 0 .. LastDay /\ today \in 0 .. LastDay /\ faults \in 0 .. MaxFaults
        /\ restarts \in 0 .. MaxRestarts /\ retention \in Retentions
    BY DEF LoggerInit
  <2> QED BY <2>1, <2>2, <2>3, <2>4, <2>5, <2>6 DEF LoggerInit, LoggerTypeOK, FileOK, LogFiles
<1>2. QueueInv
  BY DEF LoggerInit, QueueInv
<1>3. RingInv
  BY DEF LoggerInit, RingInv, RingOf
<1>4. FileInv /\ SizeBound
  BY DEF LoggerInit, FileInv, SizeBound, Opened
<1>5. DayInv
  BY DEF LoggerInit, DayInv, BackupsBeforeToday
<1> QED BY <1>1, <1>2, <1>3, <1>4, <1>5 DEF LogInv

\* What a step does not touch.
LEMMA FilesRest ==
  ASSUME FileInv, SizeBound, DayInv, UNCHANGED <<file, curDay, backups, today>>
  PROVE  FileInv' /\ SizeBound' /\ DayInv'
BY DEF FileInv, SizeBound, DayInv, BackupsBeforeToday

\* The size and the handle a rotation leaves, the write that follows, and the reopening
\* after a failed one.
LEMMA FileStep ==
  ASSUME LoggerTypeOK, FileInv, SizeBound, item \in Entries, Write
  PROVE  file' \in LogFiles /\ FileInv' /\ SizeBound'
<1>1. PICK bad \in {"none", "rename", "open", "write", "reopen"} :
       LET rolls == today # curDay
           turns == rolls \/ OverSize
           moved == turns /\ file.there /\ bad # "rename"
           f == IF ~turns THEN file
                ELSE [Rotated(bad # "open")
                        EXCEPT !.there = @ \/ (file.there /\ ~moved)]
       IN IF f.handle = "nil" \/ (f.handle = "file" /\ bad \in {"write", "reopen"})
            THEN \E w \in 0 .. IF f.handle = "file" THEN Bytes[item] - 1 ELSE 0 :
                   file' = Broken(f, w, bad # "reopen")
            ELSE file' = Written(f, Bytes[item])
  BY DEF Write
<1> DEFINE turns == today # curDay \/ OverSize
           moved == turns /\ file.there /\ bad # "rename"
           f == IF ~turns THEN file
                ELSE [Rotated(bad # "open") EXCEPT !.there = @ \/ (file.there /\ ~moved)]
           b == Bytes[item]
<1>2. \/ /\ f.handle \in {"nil", "file"}
         /\ \E w \in 0 .. IF f.handle = "file" THEN b - 1 ELSE 0 :
              file' = Broken(f, w, bad # "reopen")
      \/ f.handle # "nil" /\ file' = Written(f, b)
  BY <1>1
<1>3. file \in LogFiles /\ b \in Nat \ {0}
  BY DEF LoggerTypeOK, FileOK, LogFiles
<1>4. /\ f \in LogFiles /\ (f.handle \in {"file", "nil"} => f.size = f.written)
      /\ MaxSize > 0 => f.size <= MaxSize \/ \E e \in Entries : f.size <= Bytes[e]
      /\ MaxSize > 0 /\ f.handle = "file" => f.size = 0 \/ f.size + b <= MaxSize
  <2>1. CASE turns
    <3>1. /\ f.handle = IF bad # "open" THEN "file" ELSE "null"
          /\ f.size = 0 /\ f.written = 0 /\ f \in LogFiles
      BY <2>1 DEF Rotated, LogFiles, Handles
    <3> QED BY <3>1
  <2>2. CASE ~turns
    <3>1. f = file /\ ~OverSize
      BY <2>2
    <3>2. file.size \in Nat /\ file.written \in Nat
      BY <1>3 DEF LogFiles
    <3> HIDE DEF f
    <3> QED BY <1>3, <3>1, <3>2 DEF FileInv, SizeBound, OverSize
  <2> QED BY <2>1, <2>2
<1> HIDE DEF f, turns
<1>5. f.size \in Nat /\ f.written \in Nat /\ f.there \in BOOLEAN /\ f.handle \in Handles
  BY <1>4 DEF LogFiles
<1>6. ASSUME NEW size \in Nat,
             size = f.size \/ (f.handle = "file" /\ size <= f.size + b)
      PROVE  MaxSize > 0 => size <= MaxSize \/ \E e \in Entries : size <= Bytes[e]
  <2>1. CASE size = f.size
    BY <1>4, <2>1
  <2>2. CASE f.handle = "file" /\ size <= f.size + b
    <3>1. MaxSize > 0 /\ f.size = 0 => size <= Bytes[item]
      BY <1>3, <1>5, <2>2
    <3>2. MaxSize > 0 /\ f.size # 0 => size <= MaxSize
      BY <1>3, <1>4, <1>5, <2>2
    <3> QED BY <3>1, <3>2
  <2> QED BY <1>6, <2>1, <2>2
<1>7. CASE f.handle # "nil" /\ file' = Written(f, b)
  <2>1. /\ file'.handle = f.handle /\ file'.written = f.written + b
        /\ file'.size = f.size + IF f.handle = "file" THEN b ELSE 0
        /\ file' = [f EXCEPT !.size = file'.size, !.written = file'.written]
    BY <1>4, <1>7 DEF Written, LogFiles
  <2>2. file'.size \in Nat /\ file'.written \in Nat
    BY <1>3, <1>5, <2>1
  <2>3. file' \in LogFiles
    BY <1>4, <2>1, <2>2 DEF LogFiles
  <2>4. SizeBound'
    BY <1>3, <1>5, <1>6, <2>1, <2>2 DEF SizeBound
  <2>5. FileInv'
    BY <1>3, <1>4, <1>5, <1>7, <2>1 DEF FileInv
  <2> QED BY <2>3, <2>4, <2>5
<1>8. ASSUME f.handle \in {"nil", "file"},
             NEW w \in 0 .. IF f.handle = "file" THEN b - 1 ELSE 0,
             file' = Broken(f, w, bad # "reopen")
      PROVE  file' \in LogFiles /\ FileInv' /\ SizeBound'
  <2>1. /\ file'.written = f.written + w /\ file'.size = f.size + w
        /\ file' \in LogFiles
    <3>1. w \in Nat
      BY <1>3
    <3>2. \E h \in Handles, t \in BOOLEAN :
            file' = [f EXCEPT !.size = f.size + w, !.written = f.written + w, !.handle = h, !.there = t]
      BY <1>4, <1>8 DEF Broken, LogFiles, Handles
    <3>3. f.size + w \in Nat /\ f.written + w \in Nat
      BY <1>5, <3>1
    <3> QED BY <1>4, <3>2, <3>3 DEF LogFiles
  <2>2. SizeBound'
    <3>1. file'.size \in Nat /\ (file'.size = f.size \/ (f.handle = "file" /\ file'.size <= f.size + b))
      BY <1>3, <1>5, <1>8, <2>1
    <3> QED BY <1>6, <3>1 DEF SizeBound
  <2>3. FileInv'
    BY <1>4, <1>5, <1>8, <2>1 DEF FileInv
  <2> QED BY <2>1, <2>2, <2>3
<1> QED BY <1>2, <1>7, <1>8

LEMMA LogStepInv == LogInv /\ [LoggerNext]_loggerVars => LogInv'
<1> SUFFICES ASSUME LogInv, [LoggerNext]_loggerVars PROVE LogInv'
  OBVIOUS
<1> USE DEF LogInv
<1>1. ASSUME NEW e \in Entries, Check(e) PROVE LogInv'
  <2>1. /\ call' \in [Entries -> LogCalls]
        /\ \A x \in Entries : call'[x] = "queued" => call[x] = "queued"
    BY <1>1 DEF Check, LoggerTypeOK, LogCalls
  <2>2. FileInv' /\ SizeBound' /\ DayInv'
    BY <1>1, FilesRest DEF Check, diskVars, dayVars
  <2>3. QueueInv'
    BY <1>1, <2>1 DEF Check, QueueInv, chanVars, ringVars
  <2>4. LoggerTypeOK' /\ RingInv'
    BY <1>1, <2>1 DEF Check, LoggerTypeOK, LogCalls, FileOK, RingInv, chanVars, ringVars, diskVars, dayVars
  <2> QED BY <2>2, <2>3, <2>4
<1>2. ASSUME NEW e \in Entries, Send(e) PROVE LogInv'
  <2>1. call' \in [Entries -> LogCalls]
    BY <1>2 DEF Send, LoggerTypeOK, LogCalls
  <2>2. queue' \in Seq(Entries) /\ Len(queue') <= QueueCap
    <3>1. CASE queue' = queue
      BY <3>1 DEF LoggerTypeOK
    <3>2. CASE queue' = Append(queue, e) /\ HasRoom
      <4>1. Len(queue) < QueueCap /\ Len(queue) \in Nat /\ queue \in Seq(Entries)
        BY <3>2 DEF HasRoom, LoggerTypeOK
      <4> QED BY <3>2, <4>1, Joins
    <3> QED BY <1>2, <3>1, <3>2 DEF Send
  <2>3. FileInv' /\ SizeBound' /\ DayInv'
    BY <1>2, FilesRest DEF Send, diskVars, dayVars
  <2>4. QueueInv'
    <3>1. /\ writer = "gone" => queue' = queue
          /\ \A x \in Entries : In(queue, x) => In(queue', x)
          /\ \A x \in Entries : call'[x] = "queued" => call[x] = "queued" \/ In(queue', x)
      <4>1. CASE queue' = queue
        <5>1. \A x \in Entries : call'[x] = "queued" => call[x] = "queued"
          <6>1. CASE sealed
            BY <1>2, <6>1 DEF Send, LoggerTypeOK
          <6>2. CASE ~sealed /\ ~HasRoom
            BY <1>2, <6>2 DEF Send, LoggerTypeOK
          <6>3. CASE ~sealed /\ HasRoom
            <7>1. Len(queue') = Len(queue) + 1 /\ Len(queue) \in Nat
              BY <1>2, <6>3, Joins DEF Send, LoggerTypeOK
            <7> QED BY <4>1, <7>1
          <6> QED BY <6>1, <6>2, <6>3
        <5> QED BY <4>1, <5>1
      <4>2. CASE queue' # queue
        <5>1. ~sealed /\ queue' = Append(queue, e) /\ call' = [call EXCEPT ![e] = "queued"]
          BY <1>2, <4>2 DEF Send
        <5>2. queue \in Seq(Entries)
          BY DEF LoggerTypeOK
        <5>3. In(queue', e) /\ \A x \in Entries : In(queue, x) => In(queue', x)
          BY <5>1, <5>2, Joins
        <5>4. \A x \in Entries \ {e} : call'[x] = call[x]
          BY <5>1 DEF LoggerTypeOK
        <5> QED BY <5>1, <5>3, <5>4 DEF QueueInv
      <4> QED BY <4>1, <4>2
    <3> QED BY <1>2, <3>1 DEF Send, QueueInv, ringVars
  <2>5. LoggerTypeOK' /\ RingInv'
    BY <1>2, <2>1, <2>2
    DEF Send, LoggerTypeOK, LogCalls, FileOK, RingInv, ringVars, diskVars, dayVars
  <2> QED BY <2>3, <2>4, <2>5
<1>3. CASE Receive
  <2>1. FileInv' /\ SizeBound' /\ DayInv'
    BY <1>3, FilesRest DEF Receive, diskVars, dayVars
  <2>2. CASE queue # <<>> /\ writer' = "write" /\ item' = Head(queue) /\ queue' = Tail(queue)
    <3>1. queue \in Seq(Entries) /\ Len(queue) <= QueueCap
      BY DEF LoggerTypeOK
    <3>2. /\ item' \in Entries /\ queue' \in Seq(Entries) /\ Len(queue') <= QueueCap
          /\ \A x \in Entries : In(queue, x) => x = item' \/ In(queue', x)
      BY <2>2, <3>1, Leaves
    <3>3. QueueInv'
      BY <1>3, <2>2, <3>2 DEF Receive, QueueInv, ringVars
    <3>4. LoggerTypeOK' /\ RingInv'
      BY <1>3, <2>2, <3>2 DEF Receive, LoggerTypeOK, FileOK, RingInv, ringVars, diskVars, dayVars
    <3> QED BY <2>1, <3>3, <3>4
  <2>3. CASE Drained /\ writer' = "gone" /\ UNCHANGED <<item, queue>>
    <3>1. QueueInv'
      BY <1>3, <2>3 DEF Receive, QueueInv, ringVars, Drained
    <3>2. LoggerTypeOK' /\ RingInv'
      BY <1>3, <2>3 DEF Receive, LoggerTypeOK, FileOK, RingInv, ringVars, diskVars, dayVars
    <3> QED BY <2>1, <3>1, <3>2
  <2> QED BY <1>3, <2>2, <2>3 DEF Receive
<1>4. CASE Write
  <2>1. writer = "write" /\ writer' = "show" /\ item \in Entries
    BY <1>4 DEF Write, QueueInv
  <2>2. file' \in LogFiles /\ FileInv' /\ SizeBound'
    BY <1>4, <2>1, FileStep
  <2>3. /\ curDay' = today /\ backups' \subseteq backups \cup {curDay}
        /\ today = curDay => backups' = backups
        /\ UNCHANGED <<call, chanVars, item, closer, ringVars, dayVars>>
    BY <1>4 DEF Write, Purged, BackupDay
  <2>4. faults' \in 0 .. MaxFaults
    BY <1>4 DEF Write, LoggerTypeOK
  <2>5. curDay \in 0 .. LastDay /\ today \in 0 .. LastDay /\ backups \subseteq 0 .. LastDay
    BY DEF LoggerTypeOK
  <2>6. DayInv'
    <3>1. \A d \in backups' : d < today
      <4>1. CASE today = curDay
        BY <2>3, <4>1 DEF DayInv, BackupsBeforeToday
      <4>2. CASE today # curDay
        BY <2>3, <2>5, <4>2 DEF DayInv, BackupsBeforeToday
      <4> QED BY <4>1, <4>2
    <3> QED BY <2>3, <2>5, <3>1 DEF DayInv, BackupsBeforeToday, dayVars
  <2>7. QueueInv'
    BY <2>1, <2>3 DEF QueueInv, chanVars, ringVars
  <2>8. LoggerTypeOK' /\ RingInv'
    BY <2>1, <2>2, <2>3, <2>4, <2>5
    DEF LoggerTypeOK, FileOK, LogFiles, RingInv, chanVars, ringVars, dayVars
  <2> QED BY <2>2, <2>6, <2>7, <2>8
<1>5. CASE Show
  <2>1. item \in Entries /\ writer = "show" /\ writer' = "receive"
    BY <1>5 DEF Show, QueueInv
  <2>2. /\ data \in [0 .. RingSize - 1 -> Entries \cup {Unused}] /\ ringHead \in 0 .. RingSize - 1
        /\ count \in 0 .. RingSize /\ seen \in Seq(Entries)
    BY DEF LoggerTypeOK
  <2>3. /\ data' = [data EXCEPT ![ringHead] = item] /\ ringHead' = (ringHead + 1) % RingSize
        /\ count' = IF count < RingSize THEN count + 1 ELSE count
        /\ seen' = Append(seen, item) /\ item' = Unused
        /\ UNCHANGED <<call, chanVars, closer, diskVars, dayVars>>
    BY <1>5 DEF Show
  <2>4. RingInv'
    <3>1. RingOf([data EXCEPT ![ringHead] = item], (ringHead + 1) % RingSize,
                 IF count < RingSize THEN count + 1 ELSE count, Append(seen, item))
      BY <2>1, <2>2, RingAdds DEF RingInv
    <3> QED BY <2>3, <3>1 DEF RingInv
  <2>5. /\ data' \in [0 .. RingSize - 1 -> Entries \cup {Unused}]
        /\ ringHead' \in 0 .. RingSize - 1 /\ count' \in 0 .. RingSize
    <3>1. (ringHead + 1) % RingSize \in 0 .. RingSize - 1
      BY <2>2, Wraps
    <3> QED BY <2>1, <2>2, <2>3, <3>1
  <2>6. /\ seen' \in Seq(Entries) /\ In(seen', item)
        /\ \A x \in Entries : In(seen, x) => In(seen', x)
    BY <2>1, <2>2, <2>3, Joins
  <2>7. QueueInv'
    BY <2>1, <2>3, <2>6 DEF QueueInv, chanVars
  <2>8. FileInv' /\ SizeBound' /\ DayInv'
    BY <2>3, FilesRest DEF diskVars, dayVars
  <2>9. LoggerTypeOK'
    BY <2>1, <2>3, <2>5, <2>6 DEF LoggerTypeOK, FileOK, chanVars, diskVars, dayVars
  <2> QED BY <2>4, <2>7, <2>8, <2>9
<1>6. CASE Purge
  <2>1. backups' \subseteq backups /\ UNCHANGED <<call, chanVars, writer, item, closer, ringVars, file, curDay, faults, dayVars>>
    BY <1>6 DEF Purge, Purged
  <2>2. LoggerTypeOK' /\ RingInv' /\ QueueInv'
    BY <2>1 DEF LoggerTypeOK, FileOK, RingInv, QueueInv, chanVars, ringVars, dayVars
  <2>3. FileInv' /\ SizeBound' /\ DayInv'
    BY <2>1 DEF FileInv, SizeBound, DayInv, BackupsBeforeToday, dayVars
  <2> QED BY <2>2, <2>3
<1>7. ASSUME NEW d \in Retentions, SetRetentionDays(d) PROVE LogInv'
  <2>1. FileInv' /\ SizeBound' /\ DayInv'
    BY <1>7, FilesRest DEF SetRetentionDays, diskVars
  <2>2. LoggerTypeOK' /\ RingInv' /\ QueueInv'
    BY <1>7 DEF SetRetentionDays, LoggerTypeOK, FileOK, RingInv, QueueInv, chanVars, ringVars, diskVars
  <2> QED BY <2>1, <2>2
<1>8. CASE Swap \/ Seal
  <2>1. UNCHANGED <<call, queue, writer, item, ringVars, diskVars, dayVars>>
    BY <1>8 DEF Swap, Seal
  <2>2. FileInv' /\ SizeBound' /\ DayInv'
    BY <2>1, FilesRest DEF diskVars, dayVars
  <2>3. closed' \in BOOLEAN /\ sealed' \in BOOLEAN /\ (sealed => sealed')
    BY <1>8 DEF Swap, Seal, LoggerTypeOK
  <2>4. closer' \in {"swapped", "waiting"}
    BY <1>8 DEF Swap, Seal
  <2>5. QueueInv'
    BY <2>1, <2>3, <2>4 DEF QueueInv, ringVars
  <2>6. LoggerTypeOK' /\ RingInv'
    BY <2>1, <2>3, <2>4 DEF LoggerTypeOK, FileOK, RingInv, ringVars, diskVars, dayVars
  <2> QED BY <2>2, <2>5, <2>6
<1>9. CASE Join
  <2>1. /\ writer = "gone" /\ closer' = "closed" /\ file' = [file EXCEPT !.handle = "closed"]
        /\ UNCHANGED <<call, chanVars, writer, item, ringVars, curDay, backups, faults, dayVars>>
    BY <1>9 DEF Join
  <2>2. file' \in LogFiles /\ file'.handle = "closed" /\ file'.size = file.size
    BY <2>1 DEF LoggerTypeOK, FileOK, LogFiles, Handles
  <2>3. FileInv' /\ SizeBound' /\ DayInv'
    BY <2>1, <2>2 DEF FileInv, SizeBound, DayInv, BackupsBeforeToday, dayVars
  <2>4. QueueInv'
    BY <2>1 DEF QueueInv, chanVars, ringVars
  <2>5. LoggerTypeOK' /\ RingInv'
    BY <2>1, <2>2 DEF LoggerTypeOK, FileOK, LogFiles, RingInv, chanVars, ringVars, dayVars
  <2> QED BY <2>3, <2>4, <2>5
<1>10. CASE Midnight
  <2>1. today \in 0 .. LastDay /\ curDay \in 0 .. LastDay /\ today' = today + 1 /\ today' \in 0 .. LastDay
    BY <1>10 DEF Midnight, LoggerTypeOK
  <2>2. FileInv' /\ SizeBound' /\ DayInv'
    BY <1>10, <2>1 DEF Midnight, FileInv, SizeBound, DayInv, BackupsBeforeToday, diskVars
  <2>3. QueueInv' /\ RingInv' /\ LoggerTypeOK'
    BY <1>10, <2>1 DEF Midnight, LoggerTypeOK, FileOK, QueueInv, RingInv, chanVars, ringVars, diskVars
  <2> QED BY <2>2, <2>3
<1>11. CASE Restart
  <2>1. /\ \A e \in Entries : call'[e] # "queued"
        /\ call' \in [Entries -> LogCalls]
    BY <1>11 DEF Restart, LogCalls
  <2>2. file.size \in Nat /\ file' = Opened(file.size)
    BY <1>11 DEF Restart, LoggerTypeOK, FileOK
  <2>3. file' \in LogFiles /\ file'.size = file.size /\ file'.written = file.size
    BY <2>2 DEF Opened, LogFiles, Handles
  <2>4. FileInv' /\ SizeBound'
    BY <2>3 DEF FileInv, SizeBound
  <2>5. curDay' = today /\ today' = today /\ backups' = backups
        /\ today \in 0 .. LastDay /\ curDay \in 0 .. LastDay /\ backups \subseteq 0 .. LastDay
    BY <1>11 DEF Restart, LoggerTypeOK
  <2>6. DayInv'
    BY <2>5 DEF DayInv, BackupsBeforeToday
  <2>7. QueueInv'
    BY <1>11, <2>1 DEF Restart, QueueInv
  <2>8. RingInv'
    <3>1. seen' = <<>> /\ count' = 0
      BY <1>11 DEF Restart
    <3> QED BY <3>1 DEF RingInv, RingOf
  <2>9. /\ data' \in [0 .. RingSize - 1 -> Entries \cup {Unused}]
        /\ ringHead' \in 0 .. RingSize - 1 /\ count' \in 0 .. RingSize
        /\ queue' \in Seq(Entries) /\ Len(queue') <= QueueCap /\ seen' \in Seq(Entries)
    BY <1>11 DEF Restart
  <2>10. closed' \in BOOLEAN /\ sealed' \in BOOLEAN
    BY <1>11 DEF Restart
  <2>11. restarts' \in 0 .. MaxRestarts /\ faults' \in 0 .. MaxFaults /\ retention' \in Retentions
    BY <1>11 DEF Restart, LoggerTypeOK
  <2>12. /\ writer' = "receive" /\ item' = Unused /\ closer' = "running"
    BY <1>11 DEF Restart
  <2>13. LoggerTypeOK'
    BY <2>1, <2>3, <2>5, <2>9, <2>10, <2>11, <2>12 DEF LoggerTypeOK, FileOK, LogFiles, LogCalls
  <2> QED BY <2>4, <2>6, <2>7, <2>8, <2>13
<1>12. CASE UNCHANGED loggerVars
  <2>1. FileInv' /\ SizeBound' /\ DayInv'
    BY <1>12, FilesRest DEF loggerVars, diskVars, dayVars
  <2>2. LoggerTypeOK' /\ QueueInv' /\ RingInv'
    BY <1>12 DEF loggerVars, LoggerTypeOK, FileOK, QueueInv, RingInv, chanVars, ringVars, diskVars, dayVars
  <2> QED BY <2>1, <2>2
<1> QED
  BY <1>1, <1>2, <1>3, <1>4, <1>5, <1>6, <1>7, <1>8, <1>9, <1>10, <1>11, <1>12 DEF LoggerNext

LEMMA LogInvariance == LoggerSpec => []LogInv
BY LogInitInv, LogStepInv, PTL DEF LoggerSpec

-----------------------------------------------------------------------------
\* Both readers of the queue see all of it: Recent shows exactly the last entries
\* written, and after Close nothing that was queued is missing.
THEOREM NothingIsMissing == LoggerSpec => []NothingMissing
<1>1. LogInv => RingShowsLatest
  <2> SUFFICES ASSUME LogInv, NEW w \in 0 .. RingSize + 1
               PROVE  LET shown == IF w > RingSize THEN RingSize ELSE w
                          m == IF shown > Len(seen) THEN Len(seen) ELSE shown
                      IN Recent(w) = [j \in 1 .. m |-> seen[Len(seen) - j + 1]]
    BY DEF RingShowsLatest
  <2> DEFINE shown == IF w > RingSize THEN RingSize ELSE w
             m == IF shown > Len(seen) THEN Len(seen) ELSE shown
             k == IF w > count THEN count ELSE w
  <2>1. /\ ringHead \in 0 .. RingSize - 1 /\ count \in 0 .. RingSize /\ Len(seen) \in Nat
        /\ RingOf(data, ringHead, count, seen)
    BY DEF LogInv, LoggerTypeOK, RingInv
  <2>2. m = k /\ k \in 0 .. count
    BY <2>1 DEF RingOf
  <2>3. ASSUME NEW j \in 1 .. k
        PROVE  data[(Start - (j - 1) + RingSize * j) % RingSize] = seen[Len(seen) - j + 1]
    <3>1. j \in 1 .. RingSize /\ j \in 1 .. count
      BY <2>1, <2>2
    <3>2. (Start - (j - 1) + RingSize * j) % RingSize = Slot(ringHead, j)
      BY <2>1, <3>1, RecentSlot DEF Start
    <3> QED BY <2>1, <3>1, <3>2 DEF RingOf
  <2>4. Recent(w) = [j \in 1 .. k |-> seen[Len(seen) - j + 1]]
    BY <2>3 DEF Recent
  <2> QED BY <2>2, <2>4
<1>2. LogInv => CloseFlushes
  <2> SUFFICES ASSUME LogInv, closer = "closed", NEW e \in Entries, call[e] = "queued"
               PROVE  \E j \in 1 .. Len(seen) : seen[j] = e
    BY DEF CloseFlushes
  <2>1. writer = "gone" /\ queue = <<>>
    BY DEF LogInv, QueueInv
  <2>2. ~In(queue, e)
    BY <2>1 DEF In
  <2> QED BY <2>1, <2>2 DEF LogInv, QueueInv, In
<1> QED BY <1>1, <1>2, LogInvariance, PTL DEF NothingMissing

\* The types hold, the active file stays in its bound, and backups are of days before.
THEOREM FilesStaySane == LoggerSpec => []FilesSane
<1>1. LogInv => FilesSane
  BY DEF LogInv, DayInv, FilesSane
<1> QED BY <1>1, LogInvariance, PTL

\* Neither a rotation nor a purge removes a backup before its time.
THEOREM BackupsAreKept == LoggerSpec => BackupsOnlyExpire
<1>1. LogInv /\ [LoggerNext]_loggerVars =>
        [\A d \in backups \ backups' : retention > 0 /\ d < today - retention]_loggerVars
  <2> SUFFICES ASSUME LogInv, LoggerNext, NEW d \in backups, d \notin backups'
               PROVE  retention > 0 /\ d < today - retention
    OBVIOUS
  <2>1. /\ retention \in Nat /\ today \in Nat /\ curDay \in Nat /\ d \in Nat /\ d < curDay
    BY DEF LogInv, LoggerTypeOK, DayInv, BackupsBeforeToday
  <2>2. ASSUME NEW days, d \in days, d \notin Purged(days)
        PROVE  retention > 0 /\ d < today - retention
    BY <2>1, <2>2 DEF Purged, Kept
  <2>3. CASE Purge
    BY <2>2, <2>3 DEF Purge
  <2>4. CASE Write
    <3>1. backups' = backups
            \/ backups' = Purged(backups \ {curDay}) \/ backups' = Purged((backups \ {curDay}) \cup {curDay})
      BY <2>4 DEF Write, BackupDay
    <3>2. d \in backups \ {curDay} /\ d \in (backups \ {curDay}) \cup {curDay}
      BY <2>1
    <3> QED BY <2>2, <3>1, <3>2
  <2>5. ASSUME ~Purge, ~Write PROVE backups' = backups
    <3>1. ASSUME NEW e \in Entries, Check(e) \/ Send(e) PROVE backups' = backups
      BY <3>1 DEF Check, Send, diskVars
    <3>2. ASSUME NEW r \in Retentions, SetRetentionDays(r) PROVE backups' = backups
      BY <3>2 DEF SetRetentionDays, diskVars
    <3>3. ASSUME Receive \/ Show \/ Swap \/ Seal \/ Join \/ Midnight \/ Restart
          PROVE  backups' = backups
      BY <3>3 DEF Receive, Show, Swap, Seal, Join, Midnight, Restart, diskVars
    <3> QED BY <2>5, <3>1, <3>2, <3>3 DEF LoggerNext
  <2> QED BY <2>3, <2>4, <2>5
<1> QED BY <1>1, LogInvariance, PTL DEF LoggerSpec, BackupsOnlyExpire
=============================================================================
