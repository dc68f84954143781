------------------------------- MODULE Quota -------------------------------
(***************************************************************************)
(* The daily quota of stats/quota.go: a count per key and UTC day, with a  *)
(* one-off warning when usage crosses a percentage of the limit.           *)
(*                                                                         *)
(* granted, wiped, ceiling and warnings are history: the units a key was   *)
(* given today, how many of them SetLimit forgot, the most generous limit  *)
(* one of them was counted under, and the warnings fired.                  *)
(***************************************************************************)
EXTENDS Clock

CONSTANTS
  QKeys,        \* quota keys: "dev:" and a device id, or the token as logged
  DayLen,       \* ticks in a UTC day
  MaxDaily,     \* the largest daily limit considered
  WarnPercents  \* the values of alerts.quota_warn_percent considered

ASSUME QuotaAssumption ==
  /\ DayLen \in Nat \ {0} /\ MaxDaily \in Nat \ {0}
  /\ WarnPercents \subseteq Nat

VARIABLES
  qlimit,       \* the global daily limit; 0 disables
  warnPercent,  \* 0 disables the warning
  used,         \* key -> [day, count]; day 0 stands for no entry
  warned,       \* key -> day of the last warning, 0 for none
  warnings, granted, wiped, ceiling

quotaVars == <<qlimit, warnPercent, used, warned, warnings, granted, wiped, ceiling>>
history == <<granted, wiped, ceiling>>

Today == now \div DayLen + 1
NoEntry == [day |-> 0, count |-> 0]

QuotaInit ==
  /\ qlimit \in 0 .. MaxDaily
  /\ warnPercent \in WarnPercents
  /\ used = [k \in QKeys |-> NoEntry]
  /\ warned = [k \in QKeys |-> 0]
  /\ warnings = [k \in QKeys |-> NoEntry]
  /\ granted = [k \in QKeys |-> NoEntry]
  /\ wiped = [k \in QKeys |-> 0]
  /\ ceiling = [k \in QKeys |-> 0]

\* The count of k's entry, which restarts at 0 on a new day.
Count(k) == IF used[k].day = Today THEN used[k].count ELSE 0

\* What the history says of today.
GrantedToday(k) == IF granted[k].day = Today THEN granted[k].count ELSE 0
WipedToday(k) == IF granted[k].day = Today THEN wiped[k] ELSE 0
CeilingToday(k) == IF granted[k].day = Today THEN ceiling[k] ELSE 0

Larger(x, y) == IF x >= y THEN x ELSE y

\* Usage after this grant has reached the percentage: used * 100 / limit.
Crossed(k, lim) == ((Count(k) + 1) * 100) \div lim >= warnPercent

\* OnWarn is called for k.
Fire(k) ==
  /\ warned' = [warned EXCEPT ![k] = Today]
  /\ warnings' = [warnings EXCEPT ![k] =
       [day |-> Today, count |-> 1 + IF @.day = Today THEN @.count ELSE 0]]

\* Mutant: the day of the warning is not looked at.
WarnDueAgain(k, lim) == warnPercent > 0 /\ Crossed(k, lim)

WarnDue(k, lim) == warnPercent > 0 /\ warned[k] # Today /\ Crossed(k, lim)

\* The counting section of AllowN under a positive limit: one unit ...
Consume(k, lim) ==
  /\ lim > 0 /\ Count(k) < lim
  /\ used' = [used EXCEPT ![k] = [day |-> Today, count |-> Count(k) + 1]]
  /\ IF WarnDue(k, lim) THEN Fire(k) ELSE UNCHANGED <<warned, warnings>>
  /\ granted' = [granted EXCEPT ![k] = [day |-> Today, count |-> GrantedToday(k) + 1]]
  /\ wiped' = [wiped EXCEPT ![k] = WipedToday(k)]
  /\ ceiling' = [ceiling EXCEPT ![k] = Larger(CeilingToday(k), lim)]
  /\ UNCHANGED <<qlimit, warnPercent>>

\* ... or none left today.
Exhausted(k, lim) ==
  /\ lim > 0 /\ Count(k) >= lim
  /\ UNCHANGED quotaVars

\* SetLimit: disabling the global quota forgets the counts of every key.
SetDaily(v) ==
  /\ qlimit' = v
  /\ IF v = 0
       THEN /\ used' = [k \in QKeys |-> NoEntry]
            /\ wiped' = [k \in QKeys |-> GrantedToday(k)]
       ELSE UNCHANGED <<used, wiped>>
  /\ UNCHANGED <<warnPercent, warned, warnings, granted, ceiling>>

SetWarnPercent(p) ==
  /\ warnPercent' = p
  /\ UNCHANGED <<qlimit, used, warned, warnings, history>>

\* Mutant: entries of the current day are swept too.
SweepsAll(k) == used[k].day <= Today

Sweeps(k) == used[k].day < Today

\* One pass of cleanLoop: drop the entries of earlier days.
SweepDays ==
  /\ used' = [k \in QKeys |-> IF Sweeps(k) THEN NoEntry ELSE used[k]]
  /\ UNCHANGED <<qlimit, warnPercent, warned, warnings, history>>

QuotaNext ==
  \/ \E k \in QKeys, lim \in 1 .. MaxDaily : Consume(k, lim) /\ UNCHANGED now
  \/ \E v \in 0 .. MaxDaily : SetDaily(v) /\ UNCHANGED now
  \/ \E p \in WarnPercents : SetWarnPercent(p) /\ UNCHANGED now
  \/ SweepDays /\ UNCHANGED now
  \/ Tick /\ UNCHANGED quotaVars

QuotaSpec == now = 0 /\ QuotaInit /\ [][QuotaNext]_<<now, quotaVars>>

-----------------------------------------------------------------------------
DayCount == [day : Nat, count : Nat]

QuotaTypeOK ==
  /\ now \in Nat
  /\ qlimit \in 0 .. MaxDaily /\ warnPercent \in WarnPercents
  /\ used \in [QKeys -> DayCount] /\ granted \in [QKeys -> DayCount]
  /\ warned \in [QKeys -> Nat] /\ warnings \in [QKeys -> DayCount]
  /\ wiped \in [QKeys -> Nat] /\ ceiling \in [QKeys -> Nat]

\* Not counting what SetLimit(0) forgot, a key gets no more units in a UTC day
\* than the most generous limit it was counted under: neither the sweeper nor
\* the day change nor a limit change gives units back.
DayBound == \A k \in QKeys : GrantedToday(k) <= WipedToday(k) + CeilingToday(k)

\* OnWarn fires at most once per key and UTC day, even across a SetLimit(0)
\* that restarts the count and a new warning percentage.
WarnsOncePerDay == \A k \in QKeys : warnings[k].count <= 1
=============================================================================
