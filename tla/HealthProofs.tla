---------------------------- MODULE HealthProofs ----------------------------
(***************************************************************************)
(* Proofs about Health, for any upstreams, passes, thresholds and          *)
(* concurrency: each crossing of the threshold is reported once, the       *)
(* counter is the failures in a row while probes do not overlap, and a     *)
(* save never brings an older state back.                                  *)
(***************************************************************************)
EXTENDS Health, FiniteSetTheorems, TLAPS

Places == {"none", "wait", "probe", "record", "set", "notify", "post", "done"}
Held == {"probe", "record", "set", "notify", "post"}
Jobs == [at : Places, ok : BOOLEAN, fails : Nat]
Passes == [pc : {"idle", "probing", "saving"}, snap : Configs \cup {NoOne}]
Status == [ok : BOOLEAN, fails : Nat, ver : Nat]

\* TypeOK, but for the slots.
Types ==
  /\ cfg \in Configs /\ states \in Statuses /\ disk \in Statuses
  /\ pass \in [Probers -> Passes]
  /\ job \in [Probers -> [Ups -> Jobs]]
  /\ saving \in Probers \cup {NoOne} /\ copy \in [Probers -> Statuses]
  /\ quiet \subseteq BOOLEAN \X Ups /\ hung \in BOOLEAN
  /\ passes \in 0 .. MaxPasses /\ restarts \in 0 .. MaxRestarts
  /\ results \in [Ups -> Seq(BOOLEAN)] /\ base \in [Ups -> Nat] /\ told \in [Ups -> Int]
  /\ steady \in BOOLEAN /\ overlapped \in BOOLEAN

Slots == \A p \in Probers : IsFiniteSet(Holding(p)) /\ Cardinality(Holding(p)) <= MaxConc

\* A pass that runs knows a configuration, only such a pass has jobs, and it
\* saves when they are done.
PassInv ==
  \A p \in Probers :
    /\ pass[p].pc # "idle" => pass[p].snap \in Configs
    /\ pass[p].pc = "idle" => \A u \in Ups : job[p][u].at = "none"
    /\ pass[p].pc = "saving" => \A u \in Ups : job[p][u].at \in {"none", "done"}

\* One pass saves at a time, and what it is about to write lies between the file and
\* the states.
SaveInv ==
  /\ \A u \in Ups : disk[u].ver <= states[u].ver
  /\ \A p \in Probers : pass[p].pc = "saving" =>
       /\ saving = p
       /\ \A u \in Ups : disk[u].ver <= copy[p][u].ver /\ copy[p][u].ver <= states[u].ver

\* While the threshold stays the same, all passes judge by it.
ToldInv ==
  steady =>
    /\ \A p \in Probers : pass[p].pc # "idle" => pass[p].snap.threshold = cfg.threshold
    /\ \A u \in Ups : told[u] = IF Bad(states[u], cfg.threshold) THEN 1 ELSE 0

Busy(p, u) == job[p][u].at \in {"record", "set"}

\* One job at most is between the probe and the set.  It carries the new count: what
\* its own result makes of the last one, and with that result recorded the failures
\* in a row.
Counts(u) ==
  /\ \A p, q \in Probers : Busy(p, u) /\ Busy(q, u) => p = q
  /\ \A p \in Probers :
       /\ job[p][u].at = "record" => job[p][u].fails = NewFails(u, job[p][u].ok)
       /\ job[p][u].at = "set" => job[p][u].fails = Trailing(u)
  /\ Settled(u) => states[u].fails = Trailing(u)

CountInv == ~overlapped => \A u \in Ups : Counts(u)

\* If a probe succeeded since the start there was a last one.
Oks(R) == {j \in 1 .. Len(R) : R[j]}
HasLast(R) == Oks(R) = {} \/ \E j \in Oks(R) : \A x \in Oks(R) : x <= j
LastInv == \A u \in Ups : HasLast(results[u])

Inv == Types /\ Slots /\ PassInv /\ SaveInv /\ ToldInv /\ CountInv /\ LastInv

USE HealthAssumption

-----------------------------------------------------------------------------
\* The failures at the end of a recorded sequence, and what one more result does.
Tail0(R, b) ==
  IF Oks(R) = {} THEN b + Len(R)
  ELSE Len(R) - CHOOSE j \in Oks(R) : \A x \in Oks(R) : x <= j

LEMMA OneMore ==
  ASSUME NEW R \in Seq(BOOLEAN), HasLast(R), NEW b \in Nat, NEW ok \in BOOLEAN
  PROVE  /\ HasLast(Append(R, ok))
         /\ Tail0(Append(R, ok), b) = IF ok THEN 0 ELSE Tail0(R, b) + 1
<1> SUFFICES ASSUME NEW G, G = Append(R, ok), NEW n, n = Len(R)
             PROVE  HasLast(G) /\ Tail0(G, b) = IF ok THEN 0 ELSE Tail0(R, b) + 1
  OBVIOUS
<1>1. /\ n \in Nat /\ Len(G) = n + 1 /\ G[n + 1] = ok
      /\ \A i \in 1 .. n : G[i] = R[i]
  OBVIOUS
<1>2. Oks(R) \subseteq 1 .. n
  BY DEF Oks
<1>3. CASE ok
  <2>1. n + 1 \in Oks(G) /\ \A x \in Oks(G) : x <= n + 1
    BY <1>1, <1>3 DEF Oks
  <2>2. \A j \in Oks(G) : (\A x \in Oks(G) : x <= j) => j = n + 1
    BY <2>1, <1>1 DEF Oks
  <2> DEFINE c == CHOOSE j \in Oks(G) : \A x \in Oks(G) : x <= j
  <2>3. c = n + 1
    BY <2>1, <2>2
  <2>4. Oks(G) # {}
    BY <2>1
  <2>5. Tail0(G, b) = Len(G) - c
    BY <2>4 DEF Tail0
  <2> HIDE DEF c
  <2>6. Tail0(G, b) = 0
    BY <1>1, <2>3, <2>5
  <2>7. HasLast(G)
    BY <2>1 DEF HasLast
  <2> QED BY <1>3, <2>6, <2>7
<1>4. CASE ~ok
  <2>1. Oks(G) = Oks(R)
    <3>1. ASSUME NEW j \in Oks(G) PROVE j \in Oks(R)
      BY <3>1, <1>1, <1>4 DEF Oks
    <3>2. ASSUME NEW j \in Oks(R) PROVE j \in Oks(G)
      BY <3>2, <1>1 DEF Oks
    <3> QED BY <3>1, <3>2
  <2>2. CASE Oks(R) = {}
    BY <2>1, <2>2, <1>1, <1>4 DEF Tail0, HasLast
  <2>3. CASE Oks(R) # {}
    <3> DEFINE c == CHOOSE j \in Oks(R) : \A x \in Oks(R) : x <= j
    <3>1. c \in Oks(R)
      BY <2>3 DEF HasLast
    <3>2. c \in Int
      BY <3>1, <1>2, <1>1
    <3>3. Tail0(G, b) = Len(G) - c /\ Tail0(R, b) = n - c
      BY <2>1, <2>3 DEF Tail0
    <3>4. HasLast(G)
      BY <2>1 DEF HasLast
    <3> HIDE DEF c
    <3> QED BY <3>2, <3>3, <3>4, <1>1, <1>4
  <2> QED BY <2>2, <2>3
<1> QED BY <1>3, <1>4

LEMMA TrailingIs == \A u : Trailing(u) = Tail0(results[u], base[u])
BY DEF Trailing, Tail0, Oks

-----------------------------------------------------------------------------
LEMMA InitInv == Init => Inv
<1> SUFFICES ASSUME Init PROVE Inv
  OBVIOUS
<1>1. /\ Unknown \in Status /\ NoJob \in Jobs /\ Resting \in Passes
      /\ Statuses = [Ups -> Status]
  BY DEF Unknown, Status, NoJob, Jobs, Places, Resting, Passes, Statuses
<1>2. states \in Statuses /\ disk = states
  BY <1>1 DEF Init
<1>3. Types
  <2>1. job \in [Probers -> [Ups -> Jobs]] /\ pass \in [Probers -> Passes]
    BY <1>1 DEF Init
  <2>2. copy \in [Probers -> Statuses]
    BY <1>2 DEF Init
  <2>3. results \in [Ups -> Seq(BOOLEAN)] /\ base \in [Ups -> Nat] /\ told \in [Ups -> Int]
    BY DEF Init
  <2>4. passes \in 0 .. MaxPasses /\ restarts \in 0 .. MaxRestarts
    BY DEF Init
  <2>7. hung \in BOOLEAN
    BY DEF Init
  <2>6. quiet \subseteq BOOLEAN \X Ups
    BY DEF Init
  <2>5. cfg \in Configs /\ saving \in Probers \cup {NoOne} /\ steady \in BOOLEAN /\ overlapped \in BOOLEAN
    BY DEF Init
  <2> QED BY <1>2, <2>1, <2>2, <2>3, <2>4, <2>5, <2>6, <2>7 DEF Types
<1>4. Slots
  <2>1. \A p \in Probers : Holding(p) = {}
    BY DEF Init, Holding, NoJob
  <2> QED BY <2>1, FS_EmptySet DEF Slots
<1>5. PassInv /\ SaveInv
  BY DEF Init, PassInv, SaveInv, NoJob, Resting, Unknown
<1>6. ToldInv
  BY DEF Init, ToldInv, Resting, Bad, Unknown
<1>7. LastInv /\ \A u \in Ups : Trailing(u) = 0
  <2>1. \A u \in Ups : results[u] = <<>> /\ base[u] = 0
    BY DEF Init
  <2>2. Oks(<<>>) = {}
    BY DEF Oks
  <2>3. LastInv
    BY <2>1, <2>2 DEF LastInv, HasLast
  <2>4. Tail0(<<>>, 0) = 0
    BY <2>2 DEF Tail0
  <2> QED BY <2>1, <2>3, <2>4, TrailingIs
<1>8. CountInv
  BY <1>7 DEF Init, CountInv, Counts, Busy, NoJob, Unknown
<1> QED BY <1>3, <1>4, <1>5, <1>6, <1>7, <1>8 DEF Inv

LEMMA StatusType ==
  ASSUME Types, NEW u \in Ups
  PROVE  /\ states[u] \in Status /\ disk[u] \in Status
         /\ states[u].ver \in Nat /\ disk[u].ver \in Nat
         /\ \A p \in Probers : copy[p][u].ver \in Nat
<1>1. Statuses = [Ups -> Status]
  BY DEF Statuses, Status
<1>2. states[u] \in Status /\ disk[u] \in Status /\ \A p \in Probers : copy[p][u] \in Status
  BY <1>1 DEF Types
<1> QED BY <1>2 DEF Status

\* One job goes to j, and the others stay.
Becomes(p, u, j) ==
  /\ job' \in [Probers -> [Ups -> Jobs]] /\ job'[p][u] = j
  /\ \A q \in Probers, v \in Ups : q # p \/ v # u => job'[q][v] = job[q][v]

LEMMA JobTo ==
  ASSUME Types, NEW p \in Probers, NEW u \in Ups, NEW j \in Jobs,
         job' = [job EXCEPT ![p][u] = j]
  PROVE  Becomes(p, u, j)
BY DEF Types, Becomes

LEMMA MoveTo ==
  ASSUME Types, NEW p \in Probers, NEW u \in Ups, NEW place \in Places, Move(p, u, place)
  PROVE  LET j == [job[p][u] EXCEPT !.at = place] IN
         /\ Becomes(p, u, j) /\ j \in Jobs /\ j.at = place
         /\ j.ok = job[p][u].ok /\ j.fails = job[p][u].fails
<1> DEFINE j == [job[p][u] EXCEPT !.at = place]
<1>1. job[p][u] \in Jobs
  BY DEF Types
<1>2. j \in Jobs /\ j.at = place /\ j.ok = job[p][u].ok /\ j.fails = job[p][u].fails
  BY <1>1 DEF Jobs
<1>3. job' = [job EXCEPT ![p][u] = j]
  BY DEF Move
<1> HIDE DEF j
<1>4. Becomes(p, u, j)
  BY <1>2, <1>3, JobTo
<1> QED BY <1>2, <1>4 DEF j

\* A job moves on in its pass, with the slot it holds or one that is free.
LEMMA SlotsKept ==
  ASSUME Types, Slots, PassInv, NEW p \in Probers, NEW u \in Ups, NEW j \in Jobs,
         Becomes(p, u, j), pass' = pass, job[p][u].at \notin {"none", "done"},
         j.at \in Held => job[p][u].at \in Held \/ HasSlot(p)
  PROVE  Slots' /\ PassInv'
<1>1. PassInv'
  <2>1. pass[p].pc \notin {"idle", "saving"}
    BY DEF PassInv
  <2> SUFFICES ASSUME NEW q \in Probers
               PROVE  /\ pass[q].pc # "idle" => pass[q].snap \in Configs
                      /\ pass[q].pc = "idle" => \A v \in Ups : job'[q][v].at = "none"
                      /\ pass[q].pc = "saving" =>
                           \A v \in Ups : job'[q][v].at \in {"none", "done"}
    BY DEF PassInv
  <2> QED BY <2>1 DEF PassInv, Becomes
<1>2. \A q \in Probers \ {p} : Holding(q)' = Holding(q)
  BY DEF Becomes, Holding
<1>3. Holding(p)' \subseteq Holding(p) \cup {u}
  BY DEF Becomes, Holding, Types
<1>4. CASE j.at \notin Held \/ job[p][u].at \in Held
  <2>1. Holding(p)' \subseteq Holding(p)
    BY <1>4 DEF Becomes, Holding, Held, Types
  <2>2. IsFiniteSet(Holding(p)) /\ Cardinality(Holding(p)) <= MaxConc
    BY DEF Slots
  <2>3. IsFiniteSet(Holding(p)') /\ Cardinality(Holding(p)') <= Cardinality(Holding(p))
    BY <2>1, <2>2, FS_Subset
  <2>4. Cardinality(Holding(p)') \in Nat /\ Cardinality(Holding(p)) \in Nat
    BY <2>2, <2>3, FS_CardinalityType
  <2>5. Cardinality(Holding(p)') <= MaxConc
    BY <2>2, <2>3, <2>4
  <2> QED BY <1>1, <1>2, <2>3, <2>5 DEF Slots
<1>5. CASE j.at \in Held /\ HasSlot(p)
  <2>1. IsFiniteSet(Holding(p)) /\ Cardinality(Holding(p)) < MaxConc
    BY <1>5 DEF Slots, HasSlot
  <2>2. /\ IsFiniteSet(Holding(p) \cup {u})
        /\ Cardinality(Holding(p) \cup {u}) =
             IF u \in Holding(p) THEN Cardinality(Holding(p)) ELSE Cardinality(Holding(p)) + 1
    BY <2>1, FS_AddElement
  <2>3. IsFiniteSet(Holding(p)') /\ Cardinality(Holding(p)') <= Cardinality(Holding(p) \cup {u})
    BY <1>3, <2>2, FS_Subset
  <2>4. Cardinality(Holding(p)') \in Nat /\ Cardinality(Holding(p)) \in Nat
    BY <2>1, <2>3, FS_CardinalityType
  <2>5. Cardinality(Holding(p)') <= MaxConc
    BY <2>1, <2>2, <2>3, <2>4
  <2> QED BY <1>1, <1>2, <2>3, <2>5 DEF Slots
<1> QED BY <1>4, <1>5

\* A job that is not between its probe and its set, before and after, does not matter
\* to the counters.
LEMMA CountsKept ==
  ASSUME CountInv, LastInv, NEW p \in Probers, NEW u \in Ups, NEW j \in Jobs,
         Becomes(p, u, j), ~Busy(p, u), j.at \notin {"record", "set"},
         UNCHANGED <<states, history>>
  PROVE  CountInv' /\ LastInv'
<1>1. LastInv' /\ \A v \in Ups : Trailing(v)' = Trailing(v)
  <2>1. results' = results /\ base' = base
    BY DEF history
  <2> QED BY <2>1 DEF LastInv, Trailing
<1>2. \A q \in Probers, v \in Ups :
        Busy(q, v)' <=> Busy(q, v)
  BY DEF Becomes, Busy
<1>3. \A q \in Probers, v \in Ups : Busy(q, v) => job'[q][v] = job[q][v]
  BY DEF Becomes, Busy
<1>4. ASSUME ~overlapped, NEW v \in Ups PROVE Counts(v)'
  <2>1. Counts(v)
    BY <1>4 DEF CountInv
  <2>2. Settled(v)' => Settled(v)
    BY <1>3 DEF Settled, Busy
  <2>3. NewFails(v, TRUE)' = NewFails(v, TRUE) /\ \A ok : NewFails(v, ok)' = NewFails(v, ok)
    BY DEF NewFails
  <2> QED BY <1>1, <1>2, <1>3, <2>1, <2>2, <2>3 DEF Counts, Busy
<1> QED BY <1>1, <1>4 DEF CountInv, history

\* The save and the callbacks do not look at jobs.
LEMMA JobsOnly ==
  ASSUME Types, SaveInv, ToldInv, UNCHANGED <<cfg, states, pass, saveVars, told, steady>>
  PROVE  SaveInv' /\ ToldInv'
BY DEF SaveInv, ToldInv, saveVars, Bad

\* The step of a job that neither probes, records nor sets.
LEMMA PlainMove ==
  ASSUME Inv, NEW p \in Probers, NEW u \in Ups, NEW place \in Places, Move(p, u, place),
         UNCHANGED <<cfg, states, pass, saveVars, history>>,
         job[p][u].at \notin {"none", "record", "set", "done"}, place \notin {"record", "set"},
         place \in Held => job[p][u].at \in Held \/ HasSlot(p)
  PROVE  /\ job' \in [Probers -> [Ups -> Jobs]]
         /\ Slots' /\ PassInv' /\ SaveInv' /\ ToldInv' /\ CountInv' /\ LastInv'
<1> DEFINE j == [job[p][u] EXCEPT !.at = place]
<1>1. Becomes(p, u, j) /\ j \in Jobs /\ j.at = place
  BY MoveTo DEF Inv
<1> HIDE DEF j
<1>2. job' \in [Probers -> [Ups -> Jobs]]
  BY <1>1 DEF Becomes
<1>3. Slots' /\ PassInv'
  BY <1>1, SlotsKept DEF Inv
<1>4. SaveInv' /\ ToldInv'
  BY JobsOnly DEF Inv, history
<1>5. CountInv' /\ LastInv'
  <2>1. ~Busy(p, u) /\ j.at \notin {"record", "set"}
    BY <1>1 DEF Busy
  <2> QED BY <1>1, <2>1, CountsKept DEF Inv
<1> QED BY <1>2, <1>3, <1>4, <1>5

\* A step that leaves states, jobs and counters alone.
LEMMA CountsRest ==
  ASSUME CountInv, LastInv, UNCHANGED <<states, job, results, base, overlapped>>
  PROVE  CountInv' /\ LastInv'
<1>1. LastInv' /\ \A v \in Ups : Trailing(v)' = Trailing(v)
  BY DEF LastInv, Trailing
<1>2. \A v \in Ups, ok \in BOOLEAN : NewFails(v, ok)' = NewFails(v, ok)
  BY DEF NewFails
<1>3. ASSUME ~overlapped, NEW v \in Ups PROVE Counts(v)'
  <2>1. Counts(v)
    BY <1>3 DEF CountInv
  <2> QED BY <1>1, <2>1 DEF Counts, Busy, Settled, NewFails
<1> QED BY <1>1, <1>3 DEF CountInv

\* When all jobs of a pass appear or go at once, none of them is past its probe.
LEMMA CountsReset ==
  ASSUME Types, CountInv, LastInv, NEW p \in Probers,
         \A q \in Probers \ {p}, u \in Ups : job'[q][u] = job[q][u],
         \A u \in Ups : ~Busy(p, u) /\ job'[p][u].at \notin {"record", "set"},
         UNCHANGED <<states, history>>
  PROVE  CountInv' /\ LastInv'
<1>1. LastInv' /\ \A v \in Ups : Trailing(v)' = Trailing(v)
  <2>1. results' = results /\ base' = base
    BY DEF history
  <2> QED BY <2>1 DEF LastInv, Trailing
<1>2. ASSUME ~overlapped, NEW v \in Ups PROVE Counts(v)'
  <2>1. Counts(v)
    BY <1>2 DEF CountInv
  <2>2. \A q \in Probers : Busy(q, v)' <=> Busy(q, v)
    BY DEF Busy
  <2>3. \A q \in Probers : Busy(q, v) => job'[q][v] = job[q][v]
    BY DEF Busy
  <2>4. Settled(v)' => Settled(v)
    BY <2>3 DEF Settled, Busy
  <2> QED BY <1>1, <2>1, <2>2, <2>3, <2>4 DEF Counts, Busy, NewFails
<1> QED BY <1>1, <1>2 DEF CountInv, history

\* What the passes hold does not depend on anything but their jobs.
LEMMA SlotsRest ==
  ASSUME Slots, PassInv, UNCHANGED jobVars
  PROVE  Slots' /\ PassInv'
BY DEF Slots, PassInv, Holding, jobVars

-----------------------------------------------------------------------------
LEMMA StepInv == Inv /\ [Next]_vars => Inv'
<1> SUFFICES ASSUME Inv, [Next]_vars PROVE Inv'
  OBVIOUS
<1> USE DEF Inv
<1>1. ASSUME NEW p \in Probers, Begin(p) PROVE Inv'
  <2>1. /\ pass[p].pc = "idle" /\ \A u \in Ups : job[p][u].at = "none"
        /\ cfg \in Configs
    BY <1>1 DEF Begin, PassInv, Types
  <2> DEFINE start(u) == IF u \in cfg.ups THEN [NoJob EXCEPT !.at = "wait"] ELSE NoJob
  <2>2. \A u \in Ups : start(u) \in Jobs /\ start(u).at \in {"wait", "none"}
    BY DEF NoJob, Jobs, Places
  <2>3. /\ job' \in [Probers -> [Ups -> Jobs]]
        /\ \A u \in Ups : job'[p][u] = start(u)
        /\ \A q \in Probers \ {p} : job'[q] = job[q]
    <3>1. job' = [job EXCEPT ![p] = [u \in Ups |-> start(u)]]
      BY <1>1 DEF Begin
    <3> HIDE DEF start
    <3> QED BY <2>2, <3>1 DEF Types
  <2> HIDE DEF start
  <2>4. /\ pass' \in [Probers -> Passes]
        /\ pass'[p] = [pc |-> "probing", snap |-> cfg]
        /\ \A q \in Probers \ {p} : pass'[q] = pass[q]
    BY <1>1, <2>1 DEF Begin, Types, Passes
  <2>5. Slots'
    <3>1. Holding(p)' = {}
      BY <2>2, <2>3 DEF Holding
    <3>2. \A q \in Probers \ {p} : Holding(q)' = Holding(q)
      BY <2>3 DEF Holding
    <3> QED BY <3>1, <3>2, FS_EmptySet DEF Slots
  <2>6. PassInv'
    BY <2>1, <2>3, <2>4 DEF PassInv
  <2>7. SaveInv'
    BY <1>1, <2>4 DEF SaveInv, Begin, saveVars
  <2>8. ToldInv'
    BY <1>1, <2>4 DEF ToldInv, Begin, history, Bad
  <2>9. CountInv' /\ LastInv'
    <3>1. \A u \in Ups : ~Busy(p, u) /\ job'[p][u].at \notin {"record", "set"}
      BY <2>1, <2>2, <2>3 DEF Busy
    <3> QED BY <1>1, <2>3, <3>1, CountsReset DEF Begin
  <2>10. Types'
    <3>1. passes' \in 0 .. MaxPasses
      BY <1>1 DEF Begin, Types
    <3> QED BY <1>1, <2>3, <2>4, <3>1 DEF Begin, Types, saveVars, alertVars, history
  <2> QED BY <2>5, <2>6, <2>7, <2>8, <2>9, <2>10
<1>2. ASSUME NEW p \in Probers, NEW u \in Ups, Acquire(p, u) PROVE Inv'
  <2>1. /\ Move(p, u, "probe") /\ "probe" \in Places /\ job[p][u].at = "wait" /\ HasSlot(p)
    BY <1>2 DEF Acquire, Places
  <2>2. /\ job' \in [Probers -> [Ups -> Jobs]]
        /\ Slots' /\ PassInv' /\ SaveInv' /\ ToldInv' /\ CountInv' /\ LastInv'
    BY <1>2, <2>1, PlainMove DEF Acquire
  <2> QED BY <1>2, <2>2 DEF Acquire, Types, saveVars, alertVars, bounds, history
<1>3. ASSUME NEW p \in Probers, NEW u \in Ups, Probe(p, u) PROVE Inv'
  <2>1. PICK ok \in BOOLEAN :
          job' = [job EXCEPT ![p][u] = [at |-> "record", ok |-> ok, fails |-> NewFails(u, ok)]]
    BY <1>3 DEF Probe
  <2> DEFINE j == [at |-> "record", ok |-> ok, fails |-> NewFails(u, ok)]
  <2>2. NewFails(u, ok) \in Nat
    BY DEF NewFails, Types, Statuses
  <2>3. j \in Jobs /\ j.at = "record" /\ j.ok = ok /\ j.fails = NewFails(u, ok)
    BY <2>2 DEF Jobs, Places
  <2>4. job' = [job EXCEPT ![p][u] = j]
    BY <2>1
  <2> HIDE DEF j
  <2>5. Becomes(p, u, j)
    BY <2>3, <2>4, JobTo
  <2>6. Slots' /\ PassInv'
    BY <1>3, <2>3, <2>5, SlotsKept DEF Probe, Held
  <2>7. SaveInv' /\ ToldInv'
    BY <1>3, JobsOnly DEF Probe
  <2>8. LastInv' /\ \A v \in Ups : Trailing(v)' = Trailing(v)
    BY <1>3 DEF Probe, LastInv, Trailing
  <2>9. CountInv'
    <3> SUFFICES ASSUME ~overlapped', NEW v \in Ups PROVE Counts(v)'
      BY DEF CountInv
    <3>1. ~overlapped /\ \A q \in Probers \ {p} : ~Busy(q, u)
      BY <1>3 DEF Probe, Busy
    <3>2. Counts(v)
      BY <3>1 DEF CountInv
    <3>3. states' = states
      BY <1>3 DEF Probe
    <3>4. CASE v # u
      BY <2>5, <2>8, <3>2, <3>3, <3>4 DEF Counts, Busy, Settled, NewFails, Becomes
    <3>5. CASE v = u
      <4>1. \A q \in Probers \ {p} : ~Busy(q, u)' /\ job'[q][u].at \notin {"record", "set"}
        BY <2>5, <3>1 DEF Becomes, Busy
      <4>2. Settled(u)
        BY <1>3, <3>1 DEF Settled, Busy, Probe
      <4>3. states[u].fails = Trailing(u)
        BY <3>2, <3>5, <4>2 DEF Counts
      <4>4. \A x, y \in Probers : Busy(x, u)' /\ Busy(y, u)' => x = y
        BY <4>1
      <4>5. job'[p][u] = j
        BY <2>5 DEF Becomes
      <4> QED BY <2>3, <2>8, <3>3, <3>5, <4>1, <4>3, <4>4, <4>5 DEF Counts, NewFails
    <3> QED BY <3>4, <3>5
  <2>10. Types'
    <3>1. overlapped' \in BOOLEAN
      BY <1>3 DEF Probe, Types
    <3> QED BY <1>3, <2>5, <3>1 DEF Probe, Types, Becomes, saveVars, alertVars, bounds
  <2> QED BY <2>6, <2>7, <2>8, <2>9, <2>10
<1>4. ASSUME NEW p \in Probers, NEW u \in Ups, Record(p, u) PROVE Inv'
  <2> DEFINE j == [job[p][u] EXCEPT !.at = "set"]
  <2>1. Becomes(p, u, j) /\ j \in Jobs /\ j.at = "set" /\ j.ok = job[p][u].ok /\ j.fails = job[p][u].fails
    <3>1. Move(p, u, "set") /\ "set" \in Places
      BY <1>4 DEF Record, Places
    <3> QED BY <3>1, MoveTo
  <2> HIDE DEF j
  <2>2. Slots' /\ PassInv'
    BY <1>4, <2>1, SlotsKept DEF Record, Held
  <2>3. SaveInv' /\ ToldInv'
    BY <1>4, JobsOnly DEF Record
  <2>4. j.ok \in BOOLEAN /\ results[u] \in Seq(BOOLEAN) /\ base[u] \in Nat
    BY <2>1 DEF Types, Jobs
  <2>5. /\ results' \in [Ups -> Seq(BOOLEAN)] /\ results'[u] = Append(results[u], j.ok)
        /\ \A v \in Ups \ {u} : results'[v] = results[v]
    BY <1>4, <2>1, <2>4 DEF Record, Types
  <2>6. base' = base /\ states' = states /\ overlapped' = overlapped
    BY <1>4 DEF Record
  <2>7. /\ HasLast(Append(results[u], j.ok))
        /\ Tail0(Append(results[u], j.ok), base[u]) = IF j.ok THEN 0 ELSE Tail0(results[u], base[u]) + 1
    BY <2>4, OneMore DEF LastInv
  <2>8. LastInv'
    BY <2>5, <2>7 DEF LastInv
  <2>9. /\ \A v \in Ups \ {u} : Trailing(v)' = Trailing(v)
        /\ Trailing(u)' = IF j.ok THEN 0 ELSE Trailing(u) + 1
    <3>1. \A v \in Ups : Trailing(v)' = Tail0(results'[v], base[v])
      BY <2>6 DEF Trailing, Tail0, Oks
    <3> QED BY <2>5, <2>7, <3>1, TrailingIs
  <2>10. CountInv'
    <3> SUFFICES ASSUME ~overlapped, NEW v \in Ups PROVE Counts(v)'
      BY <2>6 DEF CountInv
    <3>1. Counts(v)
      BY DEF CountInv
    <3>2. CASE v # u
      BY <2>1, <2>6, <2>9, <3>1, <3>2 DEF Counts, Busy, Settled, NewFails, Becomes
    <3>3. CASE v = u
      <4>1. job[p][u].at = "record" /\ Busy(p, u)
        BY <1>4 DEF Record, Busy
      <4>2. \A q \in Probers \ {p} : ~Busy(q, u)
        BY <3>1, <3>3, <4>1 DEF Counts
      <4>3. \A q \in Probers \ {p} : ~Busy(q, u)' /\ job'[q][u].at \notin {"record", "set"}
        BY <2>1, <4>2 DEF Becomes, Busy
      <4>4. Settled(u)
        BY <4>1, <4>2 DEF Settled, Busy
      <4>5. states[u].fails = Trailing(u) /\ job[p][u].fails = NewFails(u, job[p][u].ok)
        BY <3>1, <3>3, <4>1, <4>4 DEF Counts
      <4>6. j.fails = Trailing(u)'
        BY <2>1, <2>9, <4>5 DEF NewFails
      <4>7. job'[p][u] = j /\ ~Settled(u)'
        BY <2>1 DEF Becomes, Settled
      <4>8. \A x, y \in Probers : Busy(x, u)' /\ Busy(y, u)' => x = y
        BY <4>3
      <4> QED BY <2>1, <3>3, <4>3, <4>6, <4>7, <4>8 DEF Counts
    <3> QED BY <3>2, <3>3
  <2>11. Types'
    BY <1>4, <2>1, <2>5 DEF Record, Types, Becomes, saveVars, alertVars, bounds
  <2> QED BY <2>2, <2>3, <2>8, <2>10, <2>11
<1>5. ASSUME NEW p \in Probers, NEW u \in Ups, Set(p, u) PROVE Inv'
  <2> DEFINE c == pass[p].snap.threshold
             new == [ok |-> job[p][u].ok, fails |-> job[p][u].fails, ver |-> states[u].ver + 1]
             place == IF WasBad(p, u) = Bad(new, c) THEN "done" ELSE "notify"
             j == [job[p][u] EXCEPT !.at = place]
  <2>1. /\ job[p][u].at = "set" /\ Move(p, u, place) /\ place \in Places /\ place # "set"
        /\ states' = [states EXCEPT ![u] = new]
        /\ told' = [told EXCEPT ![u] =
             IF WasBad(p, u) = Bad(new, c) THEN @ ELSE IF Bad(new, c) THEN @ + 1 ELSE @ - 1]
        /\ UNCHANGED <<cfg, pass, saveVars, alertVars, bounds, results, base, steady, overlapped>>
    BY <1>5 DEF Set, Places
  <2>2. /\ Becomes(p, u, j) /\ j \in Jobs /\ j.at = place
        /\ j.ok = job[p][u].ok /\ j.fails = job[p][u].fails
    BY <2>1, MoveTo
  <2>3. /\ new \in Status /\ new.ok = job[p][u].ok /\ new.fails = job[p][u].fails
        /\ new.ver = states[u].ver + 1 /\ states[u].ver \in Nat
    BY DEF Types, Statuses, Status, Jobs
  <2>4. place \in {"done", "notify"}
    OBVIOUS
  <2> HIDE DEF j, new, place
  <2>5. /\ states' \in Statuses /\ states'[u] = new
        /\ \A v \in Ups \ {u} : states'[v] = states[v]
    BY <2>1, <2>3 DEF Types, Statuses, Status
  <2>6. Slots' /\ PassInv'
    BY <2>1, <2>2, <2>4, SlotsKept DEF Held
  <2>7. SaveInv'
    <3>1. \A v \in Ups : states[v].ver <= states'[v].ver /\ states[v].ver \in Nat /\ states'[v].ver \in Nat
      <4>1. \A v \in Ups : states[v].ver \in Nat
        BY StatusType
      <4> QED BY <2>3, <2>5, <4>1
    <3>2. /\ \A v \in Ups : disk[v].ver \in Nat
          /\ \A q \in Probers, v \in Ups : copy[q][v].ver \in Nat
      BY StatusType
    <3> QED BY <2>1, <3>1, <3>2 DEF SaveInv, saveVars
  <2>8. told' \in [Ups -> Int] /\ \A v \in Ups \ {u} : told'[v] = told[v]
    BY <2>1 DEF Types
  <2>9. ToldInv'
    <3> SUFFICES ASSUME steady
                 PROVE  /\ \A q \in Probers : pass[q].pc # "idle" => pass[q].snap.threshold = cfg.threshold
                        /\ \A v \in Ups : told'[v] = IF Bad(states'[v], cfg.threshold) THEN 1 ELSE 0
      BY <2>1 DEF ToldInv
    <3>1. c = cfg.threshold
      <4>1. pass[p].pc # "idle"
        BY <2>1 DEF PassInv
      <4> QED BY <4>1 DEF ToldInv
    <3>2. told[u] = IF Bad(states[u], c) THEN 1 ELSE 0
      BY <3>1 DEF ToldInv
    <3>3. told'[u] = IF WasBad(p, u) = Bad(new, c) THEN told[u]
                     ELSE IF Bad(new, c) THEN told[u] + 1 ELSE told[u] - 1
      BY <2>1 DEF Types
    <3>4. WasBad(p, u) \in BOOLEAN /\ Bad(new, c) \in BOOLEAN /\ WasBad(p, u) = Bad(states[u], c)
      BY DEF WasBad, Bad
    <3>5. told'[u] = IF Bad(new, c) THEN 1 ELSE 0
      <4>1. CASE Bad(new, c)
        <5>1. CASE WasBad(p, u)
          BY <3>2, <3>3, <3>4, <4>1, <5>1
        <5>2. CASE ~WasBad(p, u)
          <6>1. told[u] = 0 /\ WasBad(p, u) # Bad(new, c)
            BY <3>2, <3>4, <4>1, <5>2
          <6> QED BY <3>3, <4>1, <6>1
        <5> QED BY <5>1, <5>2
      <4>2. CASE ~Bad(new, c)
        BY <3>2, <3>3, <3>4, <4>2
      <4> QED BY <4>1, <4>2
    <3> QED BY <2>5, <2>8, <3>1, <3>5 DEF ToldInv
  <2>10. LastInv' /\ \A v \in Ups : Trailing(v)' = Trailing(v)
    BY <2>1 DEF LastInv, Trailing
  <2>11. CountInv'
    <3> SUFFICES ASSUME ~overlapped, NEW v \in Ups PROVE Counts(v)'
      BY <2>1 DEF CountInv
    <3>1. Counts(v)
      BY DEF CountInv
    <3>2. CASE v # u
      BY <2>2, <2>5, <2>10, <3>1, <3>2 DEF Counts, Busy, Settled, NewFails, Becomes
    <3>3. CASE v = u
      <4>1. \A q \in Probers : ~Busy(q, u)'
        BY <2>1, <2>2, <2>4, <3>1, <3>3 DEF Counts, Busy, Becomes
      <4>2. states'[u].fails = Trailing(u)'
        BY <2>1, <2>3, <2>5, <2>10, <3>1, <3>3 DEF Counts
      <4> QED BY <3>3, <4>1, <4>2 DEF Counts, Busy
    <3> QED BY <3>2, <3>3
  <2>12. Types'
    BY <2>1, <2>2, <2>5, <2>8 DEF Types, Becomes, saveVars, alertVars, bounds
  <2> QED BY <2>6, <2>7, <2>9, <2>10, <2>11, <2>12
<1>6. ASSUME NEW p \in Probers, NEW u \in Ups, Notify(p, u) PROVE Inv'
  <2>1. PICK place \in {"post", "done"} : Move(p, u, place)
    BY <1>6 DEF Notify
  <2>2. /\ job' \in [Probers -> [Ups -> Jobs]]
        /\ Slots' /\ PassInv' /\ SaveInv' /\ ToldInv' /\ CountInv' /\ LastInv'
    <3>1. place \in Places /\ place \notin {"record", "set"} /\ job[p][u].at = "notify"
      BY <1>6, <2>1 DEF Notify, Places
    <3> QED BY <1>6, <2>1, <3>1, PlainMove DEF Notify, Held
  <2>3. quiet' \subseteq BOOLEAN \X Ups
    <3>1. job[p][u].ok \in BOOLEAN
      BY DEF Types, Jobs
    <3>2. quiet' \subseteq quiet \cup {<<job[p][u].ok, u>>}
      BY <1>6 DEF Notify
    <3> QED BY <3>1, <3>2 DEF Types
  <2> QED BY <1>6, <2>2, <2>3 DEF Notify, Types, saveVars, bounds, history
<1>7. ASSUME NEW p \in Probers, NEW u \in Ups, Post(p, u) PROVE Inv'
  <2>1. /\ job' \in [Probers -> [Ups -> Jobs]]
        /\ Slots' /\ PassInv' /\ SaveInv' /\ ToldInv' /\ CountInv' /\ LastInv'
    <3>1. Move(p, u, "done") /\ "done" \in Places /\ job[p][u].at = "post"
      BY <1>7 DEF Post, Places
    <3> QED BY <1>7, <3>1, PlainMove DEF Post, Held
  <2> QED BY <1>7, <2>1 DEF Post, Types, saveVars, alertVars, bounds, history
<1>8. ASSUME NEW p \in Probers, SaveBegin(p) PROVE Inv'
  <2>1. /\ pass[p].pc = "probing" /\ \A u \in Ups : job[p][u].at \in {"none", "done"}
        /\ saving = NoOne /\ saving' = p
        /\ copy' = [copy EXCEPT ![p] = states] /\ pass' = [pass EXCEPT ![p].pc = "saving"]
        /\ UNCHANGED <<cfg, states, job, disk, alertVars, bounds, history>>
    BY <1>8 DEF SaveBegin, CanSave
  <2>2. /\ pass' \in [Probers -> Passes] /\ pass'[p].pc = "saving" /\ pass'[p].snap = pass[p].snap
        /\ \A q \in Probers \ {p} : pass'[q] = pass[q]
    BY <2>1 DEF Types, Passes
  <2>3. /\ copy' \in [Probers -> Statuses] /\ copy'[p] = states
        /\ \A q \in Probers \ {p} : copy'[q] = copy[q]
    BY <2>1 DEF Types
  <2>4. Slots' /\ PassInv'
    BY <2>1, <2>2 DEF Slots, PassInv, Holding
  <2>5. SaveInv'
    <3>1. \A q \in Probers \ {p} : pass'[q].pc # "saving"
      BY <2>1, <2>2 DEF SaveInv
    <3>2. \A v \in Ups : states[v].ver \in Nat
      BY DEF Types, Statuses
    <3> QED BY <2>1, <2>3, <3>1, <3>2 DEF SaveInv
  <2>6. ToldInv'
    BY <2>1, <2>2 DEF ToldInv, history, Bad
  <2>7. CountInv' /\ LastInv'
    BY <2>1, CountsRest DEF history
  <2> QED BY <2>1, <2>2, <2>3, <2>4, <2>5, <2>6, <2>7 DEF Types, alertVars, bounds, history
<1>9. ASSUME NEW p \in Probers, SaveEnd(p) PROVE Inv'
  <2>1. /\ pass[p].pc = "saving" /\ disk' \in {disk, copy[p]} /\ saving' = NoOne
        /\ pass' = [pass EXCEPT ![p] = Resting]
        /\ job' = [job EXCEPT ![p] = [u \in Ups |-> NoJob]]
        /\ UNCHANGED <<cfg, states, copy, alertVars, bounds, history>>
    BY <1>9 DEF SaveEnd
  <2>2. /\ pass' \in [Probers -> Passes] /\ pass'[p].pc = "idle"
        /\ \A q \in Probers \ {p} : pass'[q] = pass[q]
    BY <2>1 DEF Types, Passes, Resting
  <2>3. /\ job' \in [Probers -> [Ups -> Jobs]]
        /\ \A u \in Ups : job'[p][u] = NoJob
        /\ \A q \in Probers \ {p} : job'[q] = job[q]
    BY <2>1 DEF Types, NoJob, Jobs, Places
  <2>4. Slots'
    <3>1. Holding(p)' = {}
      BY <2>3 DEF Holding, NoJob
    <3>2. \A q \in Probers \ {p} : Holding(q)' = Holding(q)
      BY <2>3 DEF Holding
    <3> QED BY <3>1, <3>2, FS_EmptySet DEF Slots
  <2>5. PassInv'
    BY <2>2, <2>3 DEF PassInv, NoJob
  <2>6. SaveInv'
    <3>1. \A q \in Probers : pass'[q].pc # "saving"
      BY <2>1, <2>2 DEF SaveInv
    <3>2. \A u \in Ups : disk'[u].ver <= states[u].ver
      <4>1. CASE disk' = disk
        BY <4>1 DEF SaveInv
      <4>2. CASE disk' = copy[p]
        BY <4>2, <2>1 DEF SaveInv
      <4> QED BY <4>1, <4>2, <2>1
    <3> QED BY <2>1, <3>1, <3>2 DEF SaveInv
  <2>7. ToldInv'
    BY <2>1, <2>2 DEF ToldInv, history, Bad
  <2>8. CountInv' /\ LastInv'
    <3>1. \A u \in Ups : ~Busy(p, u) /\ job'[p][u].at \notin {"record", "set"}
      BY <2>1, <2>3 DEF NoJob, Busy, PassInv
    <3> QED BY <2>1, <2>3, <3>1, CountsReset
  <2>9. disk' \in Statuses
    BY <2>1 DEF Types
  <2> QED BY <2>1, <2>2, <2>3, <2>4, <2>5, <2>6, <2>7, <2>8, <2>9 DEF Types, alertVars, bounds, history
<1>10. ASSUME NEW d \in Configs, Reconfigure(d) PROVE Inv'
  <2>1. Slots' /\ PassInv'
    BY <1>10, SlotsRest DEF Reconfigure
  <2>2. SaveInv'
    BY <1>10 DEF Reconfigure, SaveInv, jobVars, saveVars
  <2>3. ToldInv'
    BY <1>10 DEF Reconfigure, ToldInv, jobVars, Types
  <2>4. CountInv' /\ LastInv'
    BY <1>10, CountsRest DEF Reconfigure, jobVars
  <2>5. Types'
    BY <1>10 DEF Reconfigure, Types, jobVars, saveVars, alertVars, bounds
  <2> QED BY <2>1, <2>2, <2>3, <2>4, <2>5
<1>11. ASSUME Webhooks \/ (\E key \in BOOLEAN \X Ups : WindowEnds(key)) \/ UNCHANGED vars
       PROVE  Inv'
  <2>1. UNCHANGED <<cfg, states, jobVars, saveVars, bounds, history>>
    BY <1>11 DEF Webhooks, WindowEnds, vars
  <2>2. quiet' \subseteq BOOLEAN \X Ups /\ hung' \in BOOLEAN
    BY <1>11 DEF Webhooks, WindowEnds, vars, alertVars, Types
  <2>3. Slots' /\ PassInv'
    BY <2>1, SlotsRest
  <2>4. SaveInv' /\ ToldInv'
    BY <2>1, JobsOnly DEF jobVars, history
  <2>5. CountInv' /\ LastInv'
    BY <2>1, CountsRest DEF jobVars, history
  <2> QED BY <2>1, <2>2, <2>3, <2>4, <2>5 DEF Types, jobVars, saveVars, bounds, history
<1>12. CASE Restart
  <2>1. /\ states' = disk /\ base' = [u \in Ups |-> disk[u].fails]
        /\ told' = [u \in Ups |-> IF Bad(disk[u], cfg.threshold) THEN 1 ELSE 0]
        /\ results' = [u \in Ups |-> <<>>] /\ steady' = TRUE /\ overlapped' = FALSE
        /\ pass' = [p \in Probers |-> Resting]
        /\ job' = [p \in Probers |-> [u \in Ups |-> NoJob]]
        /\ saving' = NoOne /\ quiet' = {} /\ restarts' \in 0 .. MaxRestarts
        /\ UNCHANGED <<cfg, copy, disk, hung, passes>>
    BY <1>12 DEF Restart, Types
  <2>2. Resting \in Passes /\ NoJob \in Jobs
    BY DEF Resting, Passes, NoJob, Jobs, Places
  <2>3. /\ job' \in [Probers -> [Ups -> Jobs]]
        /\ \A p \in Probers, u \in Ups : job'[p][u] = NoJob
    BY <2>1, <2>2
  <2>4. Types'
    <3>1. pass' \in [Probers -> Passes] /\ states' \in Statuses
      BY <2>1, <2>2 DEF Types
    <3>2. results' \in [Ups -> Seq(BOOLEAN)] /\ base' \in [Ups -> Nat] /\ told' \in [Ups -> Int]
      BY <2>1 DEF Types, Statuses
    <3>3. cfg' \in Configs /\ disk' \in Statuses /\ copy' \in [Probers -> Statuses]
          /\ saving' \in Probers \cup {NoOne} /\ quiet' \subseteq BOOLEAN \X Ups /\ hung' \in BOOLEAN
      BY <2>1 DEF Types
    <3>4. /\ passes' \in 0 .. MaxPasses /\ restarts' \in 0 .. MaxRestarts
          /\ steady' \in BOOLEAN /\ overlapped' \in BOOLEAN
      BY <2>1 DEF Types
    <3> QED BY <2>3, <3>1, <3>2, <3>3, <3>4 DEF Types
  <2>5. Slots'
    <3>1. \A p \in Probers : Holding(p)' = {}
      BY <2>3 DEF Holding, NoJob
    <3>2. IsFiniteSet({}) /\ Cardinality({}) = 0
      BY FS_EmptySet
    <3>3. \A p \in Probers : IsFiniteSet(Holding(p)') /\ Cardinality(Holding(p)') <= MaxConc
      BY <3>1, <3>2
    <3> QED BY <3>3 DEF Slots
  <2>6. PassInv' /\ ToldInv'
    BY <2>1, <2>3 DEF PassInv, ToldInv, Resting, NoJob
  <2>7. SaveInv'
    <3>1. \A u \in Ups : disk[u].ver \in Nat
      BY DEF Types, Statuses
    <3> QED BY <2>1, <3>1 DEF SaveInv, Resting
  <2>8. LastInv' /\ \A u \in Ups : Trailing(u)' = states'[u].fails
    <3>1. Oks(<<>>) = {}
      BY DEF Oks
    <3>2. \A u \in Ups : results'[u] = <<>> /\ base'[u] = states'[u].fails /\ base'[u] \in Nat
      BY <2>1 DEF Types, Statuses
    <3>3. LastInv'
      BY <3>1, <3>2 DEF LastInv, HasLast
    <3>4. \A b \in Nat : Tail0(<<>>, b) = b
      BY <3>1 DEF Tail0
    <3>5. \A u \in Ups : Trailing(u)' = Tail0(results'[u], base'[u])
      BY DEF Trailing, Tail0, Oks
    <3> QED BY <3>2, <3>3, <3>4, <3>5
  <2>9. CountInv'
    BY <2>3, <2>8 DEF CountInv, Counts, Busy, NoJob
  <2> QED BY <2>4, <2>5, <2>6, <2>7, <2>8, <2>9
<1> QED
  BY <1>1, <1>2, <1>3, <1>4, <1>5, <1>6, <1>7, <1>8, <1>9, <1>10, <1>11, <1>12 DEF Next, Job

LEMMA Invariance == Spec => []Inv
BY InitInv, StepInv, PTL DEF Spec

-----------------------------------------------------------------------------
\* Each crossing of the threshold is told once, whichever passes see it.
THEOREM CrossingsTold == Spec => []TransitionsTold
<1>1. Inv => TransitionsTold
  BY DEF Inv, ToldInv, TransitionsTold
<1> QED BY <1>1, Invariance, PTL

\* The types hold, and the counter is the failures in a row while the probes of an
\* upstream do not overlap.
THEOREM FailuresInARow == Spec => []CountsInARow
<1>1. Inv => CountsInARow
  <2> SUFFICES ASSUME Inv PROVE CountsInARow
    OBVIOUS
  <2>1. TypeOK
    BY DEF Inv, Types, TypeOK, Slots, Passes, Jobs, Places
  <2> QED BY <2>1 DEF Inv, CountInv, Counts, CountsInARow
<1> QED BY <1>1, Invariance, PTL

\* The file never goes back to an older state, though passes save at the same time.
THEOREM SavesGoForward == Spec => SavedForward
<1>1. Inv /\ [Next]_vars => [\A u \in Ups : disk'[u].ver >= disk[u].ver]_vars
  <2> SUFFICES ASSUME Inv, Next PROVE \A u \in Ups : disk'[u].ver >= disk[u].ver
    OBVIOUS
  <2>1. \A u \in Ups : disk[u].ver \in Nat
    BY DEF Inv, Types, Statuses
  <2>2. ASSUME disk' = disk PROVE \A u \in Ups : disk'[u].ver >= disk[u].ver
    BY <2>1, <2>2
  <2>3. ASSUME NEW p \in Probers, SaveEnd(p) PROVE \A u \in Ups : disk'[u].ver >= disk[u].ver
    <3>1. CASE disk' = copy[p]
      BY <2>1, <2>3, <3>1 DEF SaveEnd, Inv, SaveInv, Types, Statuses
    <3> QED BY <2>2, <2>3, <3>1 DEF SaveEnd
  <2>4. (\E p \in Probers : SaveEnd(p)) \/ disk' = disk
    <3>1. ASSUME NEW p \in Probers, Begin(p) \/ SaveBegin(p) PROVE disk' = disk
      BY <3>1 DEF Begin, SaveBegin, saveVars
    <3>2. ASSUME NEW p \in Probers, NEW u \in Ups, Job(p, u) \/ Post(p, u) PROVE disk' = disk
      BY <3>2 DEF Job, Acquire, Probe, Record, Set, Notify, Post, saveVars
    <3>3. ASSUME NEW d \in Configs, Reconfigure(d) PROVE disk' = disk
      BY <3>3 DEF Reconfigure, saveVars
    <3>4. ASSUME NEW key \in BOOLEAN \X Ups, WindowEnds(key) PROVE disk' = disk
      BY <3>4 DEF WindowEnds, saveVars
    <3>5. ASSUME Webhooks \/ Restart PROVE disk' = disk
      BY <3>5 DEF Webhooks, Restart, saveVars
    <3> QED BY <3>1, <3>2, <3>3, <3>4, <3>5 DEF Next
  <2> QED BY <2>2, <2>3, <2>4
<1> QED BY <1>1, Invariance, PTL DEF Spec, SavedForward
=============================================================================
