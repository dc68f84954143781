--------------------------- MODULE GatewayUiProofs -------------------------
(***************************************************************************)
(* Proofs about gateway-ui: its server (UiServer), for any clients,        *)
(* limits, window and edits, and the pages that keep a long conversation   *)
(* with it (UiApp), for any number of messages, settings and requests.     *)
(***************************************************************************)
EXTENDS UiServer, UiApp, SequenceTheorems, FiniteSetTheorems, TLAPS

(***************************************************************************)
(* UiServer.  RpmOvershoot needs to know that a row just inserted has no   *)
(* past in the log (KnownDevices) and that the limit in force is at most   *)
(* the largest one (CapCovers).                                            *)
(***************************************************************************)

KnownDevices ==
  /\ \A i \in DOMAIN log : log[i].dev \in 1 .. Len(devs)
  /\ \A c \in Calls : call[c] \in 0 .. Len(devs)

CapCovers ==
  \A d \in Rows(devs) : devs[d].cap > 0 => devs[d].rpm > 0 /\ devs[d].rpm <= devs[d].cap

CallInv == TypeOK /\ KnownDevices /\ CapCovers /\ RpmOvershoot

-----------------------------------------------------------------------------
(* Counting. *)

\* What Finished and Recent pick out of a log.
FinishedIn(rows, d) ==
  {i \in DOMAIN rows : rows[i].dev = d /\ rows[i].at + Window > now /\ ~ rows[i].again}

\* The counts the limit compares are numbers, and the rows it counts are at
\* least those of the calls that finished.
LEMMA RecentFinite ==
  ASSUME TypeOK, NEW d
  PROVE  /\ IsFiniteSet(Recent(d)) /\ Cardinality(Recent(d)) \in Nat
         /\ IsFiniteSet(Finished(d)) /\ Cardinality(Finished(d)) \in Nat
         /\ Cardinality(Finished(d)) <= Cardinality(Recent(d))
PROOF
<1>1. Len(log) \in Nat /\ DOMAIN log = 1 .. Len(log)
  BY LenProperties DEF TypeOK
<1>2. IsFiniteSet(1 .. Len(log))
  BY <1>1, FS_Interval
<1>3. Recent(d) \subseteq 1 .. Len(log)
  BY <1>1 DEF Recent
<1>4. IsFiniteSet(Recent(d)) /\ Cardinality(Recent(d)) \in Nat
  BY <1>2, <1>3, FS_Subset, FS_CardinalityType
<1>5. Finished(d) \subseteq Recent(d)
  BY DEF Finished
<1>6. QED
  BY <1>4, <1>5, FS_Subset, FS_CardinalityType

\* The calls of a device in flight that will be logged.
Due(d) == InFlight(d) \ hollow

LEMMA DueFinite ==
  ASSUME NEW d
  PROVE  /\ IsFiniteSet(Due(d)) /\ Cardinality(Due(d)) \in Nat
         /\ Cardinality(Calls) \in Nat /\ Cardinality(Due(d)) <= Cardinality(Calls)
PROOF
<1>1. IsFiniteSet(Calls) /\ Due(d) \subseteq Calls
  BY ServerAssumption DEF InFlight, Due
<1>2. QED
  BY <1>1, FS_Subset, FS_CardinalityType

Added(rows, d, again) == Append(rows, Logged(d, again))

\* A row adds one to the finished calls of its own device, or none when it is
\* the second of its call, and none to those of another.
Grown(rows, t, e, again) ==
  /\ t \in Seq(LogRow) /\ Len(rows) \in Nat /\ Len(t) = Len(rows) + 1
  /\ \A i \in DOMAIN t : \/ t[i].dev = e
                         \/ i \in DOMAIN rows /\ t[i] = rows[i]
  /\ \A d : /\ Cardinality(FinishedIn(t, d)) \in Nat
            /\ Cardinality(FinishedIn(rows, d)) \in Nat
            /\ Cardinality(FinishedIn(t, d)) <= Cardinality(FinishedIn(rows, d)) + 1
            /\ d # e \/ again = TRUE => FinishedIn(t, d) = FinishedIn(rows, d)

LEMMA RowAdded ==
  ASSUME NEW rows \in Seq(LogRow), NEW e \in Nat, NEW again \in BOOLEAN, now \in Nat
  PROVE  Grown(rows, Added(rows, e, again), e, again)
PROOF
<1> DEFINE n == Len(rows) + 1
           row == Logged(e, again)
           t == Added(rows, e, again)
<1>1. Len(rows) \in Nat /\ DOMAIN rows = 1 .. Len(rows) /\ row \in LogRow
  BY LenProperties DEF Logged, LogRow
<1>r. row.dev = e /\ row.again = again
  BY DEF Logged
<1> HIDE DEF row, t
<1>2. /\ t \in Seq(LogRow) /\ Len(t) = n /\ DOMAIN t = 1 .. n
      /\ \A i \in 1 .. Len(rows) : t[i] = rows[i]
      /\ t[n] = row
  BY <1>1, AppendProperties, LenProperties DEF row, t, Added
<1>3. ASSUME NEW i \in DOMAIN t
      PROVE  t[i].dev = e \/ (i \in DOMAIN rows /\ t[i] = rows[i])
  <2>1. i = n \/ i \in 1 .. Len(rows)
    BY <1>1, <1>2, <1>3
  <2>2. QED
    BY <1>1, <1>2, <1>r, <2>1
<1>4. ASSUME NEW d
      PROVE  /\ Cardinality(FinishedIn(t, d)) \in Nat
             /\ Cardinality(FinishedIn(rows, d)) \in Nat
             /\ Cardinality(FinishedIn(t, d)) <= Cardinality(FinishedIn(rows, d)) + 1
             /\ d # e \/ again = TRUE => FinishedIn(t, d) = FinishedIn(rows, d)
  <2> DEFINE F == FinishedIn(rows, d)
             G == FinishedIn(t, d)
  <2>1. G \subseteq F \cup {n} /\ F \subseteq G
    BY <1>1, <1>2 DEF FinishedIn
  <2>2. d # e \/ again = TRUE => n \notin G
    BY <1>2, <1>r DEF FinishedIn
  <2>3. IsFiniteSet(F) /\ Cardinality(F) \in Nat
    <3>1. F \subseteq 1 .. Len(rows) /\ IsFiniteSet(1 .. Len(rows))
      BY <1>1, FS_Interval DEF FinishedIn
    <3>2. QED
      BY <3>1, FS_Subset, FS_CardinalityType
  <2> HIDE DEF F, G, n
  <2>4. /\ IsFiniteSet(F \cup {n})
        /\ \/ Cardinality(F \cup {n}) = Cardinality(F)
           \/ Cardinality(F \cup {n}) = Cardinality(F) + 1
    BY <2>3, FS_AddElement, Zenon
  <2>5. IsFiniteSet(G) /\ Cardinality(G) <= Cardinality(F \cup {n})
    BY <2>1, <2>4, FS_Subset
  <2>6. Cardinality(G) \in Nat /\ Cardinality(F \cup {n}) \in Nat
    BY <2>4, <2>5, FS_CardinalityType
  <2>7. Cardinality(G) <= Cardinality(F) + 1
    BY <2>3, <2>4, <2>5, <2>6
  <2>8. d # e \/ again = TRUE => G = F
    BY <2>1, <2>2
  <2>9. QED
    BY <2>3, <2>6, <2>7, <2>8 DEF F, G
<1>5. QED
  BY <1>1, <1>2, <1>3, <1>4 DEF Grown, t

\* The end of a call, whether it leaves one row, two, or none.
LEMMA EndLogs ==
  ASSUME TypeOK, NEW c \in Calls, End(c)
  PROVE  /\ log' \in Seq(LogRow) /\ Len(log) \in Nat
         /\ c \in hollow => log' = log
         /\ c \notin hollow => Len(log') \in Len(log) + 1 .. Len(log) + 2
         /\ \A i \in DOMAIN log' : \/ log'[i].dev = call[c]
                                   \/ i \in DOMAIN log /\ log'[i] = log[i]
         /\ \A d : /\ Cardinality(Finished(d)') \in Nat
                   /\ Cardinality(Finished(d)') <= Cardinality(Finished(d)) + 1
                   /\ d # call[c] \/ c \in hollow => Finished(d)' = Finished(d)
PROOF
<1>0. /\ log \in Seq(LogRow) /\ now \in Nat /\ now' = now /\ call[c] \in Nat
      /\ Len(log) \in Nat
  BY LenProperties DEF TypeOK, End
<1>f. \A d : Finished(d) = FinishedIn(log, d) /\ Finished(d)' = FinishedIn(log', d)
  BY <1>0 DEF Finished, FinishedIn, Recent
<1>1. CASE c \in hollow
  <2>1. log' = log
    BY <1>1 DEF End, Settled
  <2>2. \A d : Cardinality(Finished(d)) \in Nat
    BY RecentFinite
  <2>3. QED
    BY <1>0, <1>1, <1>f, <2>1, <2>2
<1>2. CASE c \notin hollow
  <2> DEFINE once == Added(log, call[c], FALSE)
             twice == Added(once, call[c], TRUE)
  <2>a. Grown(log, once, call[c], FALSE)
    BY <1>0, RowAdded
  <2>1. /\ once \in Seq(LogRow) /\ Len(once) = Len(log) + 1
        /\ \A i \in DOMAIN once : \/ once[i].dev = call[c]
                                  \/ i \in DOMAIN log /\ once[i] = log[i]
        /\ \A d : /\ Cardinality(FinishedIn(once, d)) \in Nat
                  /\ Cardinality(FinishedIn(once, d)) <= Cardinality(FinishedIn(log, d)) + 1
                  /\ d # call[c] => FinishedIn(once, d) = FinishedIn(log, d)
    BY <2>a DEF Grown
  <2>2. log' = once \/ log' = twice
    BY <1>2 DEF End, Settled, Added
  <2> HIDE DEF once
  <2>b. Grown(once, twice, call[c], TRUE)
    BY <1>0, <2>1, RowAdded
  <2>3. /\ twice \in Seq(LogRow) /\ Len(twice) = Len(once) + 1
        /\ \A i \in DOMAIN twice : \/ twice[i].dev = call[c]
                                   \/ i \in DOMAIN once /\ twice[i] = once[i]
        /\ \A d : FinishedIn(twice, d) = FinishedIn(once, d)
    BY <2>b DEF Grown
  <2> HIDE DEF twice
  <2>4. CASE log' = once
    BY <1>0, <1>2, <1>f, <2>1, <2>4
  <2>5. CASE log' = twice
    BY <1>0, <1>2, <1>f, <2>1, <2>3, <2>5
  <2>6. QED
    BY <2>2, <2>4, <2>5
<1>3. QED
  BY <1>1, <1>2

-----------------------------------------------------------------------------
(* Type correctness. *)

\* A row of a table is one of its records, and changing or deleting one
\* leaves the others alone.
LEMMA RowTypes ==
  ASSUME TypeOK
  PROVE  /\ \A u \in Rows(ups) : ups[u] \in UpRow /\ u \in 1 .. Len(ups)
         /\ \A d \in Rows(devs) : devs[d] \in DevRow /\ d \in 1 .. Len(devs)
         /\ Len(devs) \in Nat /\ DOMAIN devs = 1 .. Len(devs)
         /\ Len(ups) \in Nat /\ DOMAIN ups = 1 .. Len(ups)
         /\ \A d \in 1 .. Len(devs) : devs[d] \in DevRow \cup {Gone}
         /\ \A u \in 1 .. Len(ups) : ups[u] \in UpRow \cup {Gone}
PROOF
<1>1. ups \in Seq(UpRow \cup {Gone}) /\ devs \in Seq(DevRow \cup {Gone})
  BY DEF TypeOK, StoreTypeOK
<1>2. /\ Len(devs) \in Nat /\ DOMAIN devs = 1 .. Len(devs)
      /\ Len(ups) \in Nat /\ DOMAIN ups = 1 .. Len(ups)
      /\ \A d \in 1 .. Len(devs) : devs[d] \in DevRow \cup {Gone}
      /\ \A u \in 1 .. Len(ups) : ups[u] \in UpRow \cup {Gone}
  BY <1>1, LenProperties, ElementOfSeq
<1>3. QED
  BY <1>2 DEF Rows

\* A row rewritten in place, whatever its new value, and a row appended.
LEMMA Rewritten ==
  ASSUME NEW R, NEW s \in Seq(R), NEW i \in 1 .. Len(s), NEW e \in R, NEW t,
         t = [s EXCEPT ![i] = e]
  PROVE  t \in Seq(R) /\ Len(t) = Len(s) /\ \A j \in 1 .. Len(s) : t[j] = IF j = i THEN e ELSE s[j]
PROOF
  BY ExceptSeq

LEMMA UpstreamPatched ==
  ASSUME TypeOK, NEW u \in Rows(ups),
         NEW name \in Addresses \cup {Keep}, NEW secret \in Secrets \cup {NoSecret, Keep},
         NEW enabled \in BOOLEAN \cup {Keep}, UpdateUpstream(u, name, secret, enabled)
  PROVE  \E e \in UpRow : ups' = [ups EXCEPT ![u] = e] /\ e.name = Patched(name, ups[u].name)
PROOF
<1> DEFINE e == [ups[u] EXCEPT !.name = Patched(name, @), !.key = Patched(secret, @),
                               !.enabled = Patched(enabled, @)]
<1>1. ups[u] \in UpRow /\ ups \in [1 .. Len(ups) -> UpRow \cup {Gone}] /\ u \in 1 .. Len(ups)
  BY RowTypes, LenProperties DEF TypeOK, StoreTypeOK
<1>2. /\ Patched(name, ups[u].name) \in Addresses
      /\ Patched(secret, ups[u].key) \in Secrets \cup {NoSecret}
      /\ Patched(enabled, ups[u].enabled) \in BOOLEAN
  BY <1>1 DEF Patched, UpRow
<1>3. e \in UpRow /\ e.name = Patched(name, ups[u].name)
  BY <1>1, <1>2 DEF UpRow
<1>4. ups' = [ups EXCEPT ![u] = e]
  BY <1>1 DEF UpdateUpstream
<1>5. QED
  BY <1>3, <1>4

LEMMA DeviceUpdated ==
  ASSUME TypeOK, NEW d \in Rows(devs), NEW rpm \in Limits, NEW enabled \in BOOLEAN,
         UpdateDevice(d, rpm, enabled)
  PROVE  \E e \in DevRow : /\ devs' = [devs EXCEPT ![d] = e]
                           /\ e.rpm = rpm /\ e.cap = Raised(devs[d].cap, rpm)
PROOF
<1> DEFINE e == [devs[d] EXCEPT !.rpm = rpm, !.enabled = enabled, !.cap = Raised(@, rpm)]
<1>1. devs[d] \in DevRow /\ devs \in [1 .. Len(devs) -> DevRow \cup {Gone}] /\ d \in 1 .. Len(devs)
  BY RowTypes, LenProperties DEF TypeOK
<1>2. devs[d].cap \in Limits /\ Raised(devs[d].cap, rpm) \in Limits
  BY <1>1, ServerAssumption DEF DevRow, Raised
<1>3. e \in DevRow /\ e.rpm = rpm /\ e.cap = Raised(devs[d].cap, rpm)
  BY <1>1, <1>2 DEF DevRow
<1>4. devs' = [devs EXCEPT ![d] = e]
  BY <1>1 DEF UpdateDevice
<1>5. QED
  BY <1>3, <1>4

LEMMA DeviceRotated ==
  ASSUME TypeOK, NEW d \in Rows(devs), Rotate(d)
  PROVE  \E e \in DevRow : /\ devs' = [devs EXCEPT ![d] = e]
                           /\ e.rpm = devs[d].rpm /\ e.cap = devs[d].cap
PROOF
<1> DEFINE e == [devs[d] EXCEPT !.key = issued']
<1>1. devs[d] \in DevRow /\ devs \in [1 .. Len(devs) -> DevRow \cup {Gone}] /\ d \in 1 .. Len(devs)
  BY RowTypes, LenProperties DEF TypeOK
<1>2. issued' \in Nat
  BY DEF TypeOK, Rotate, Issue
<1>3. e \in DevRow /\ e.rpm = devs[d].rpm /\ e.cap = devs[d].cap
  BY <1>1, <1>2 DEF DevRow
<1>4. devs' = [devs EXCEPT ![d] = e]
  BY <1>1 DEF Rotate
<1>5. QED
  BY <1>3, <1>4

LEMMA SeedRowsType ==
  ASSUME TypeOK
  PROVE  SeedRows \in Seq(DevRow \cup {Gone}) /\ Len(SeedRows) = Len(SeedDevs)
         /\ \A i \in 1 .. Len(SeedDevs) : SeedRows[i].cap = SeedRows[i].rpm
PROOF
<1>1. /\ Len(SeedDevs) \in Nat /\ DOMAIN SeedDevs = 1 .. Len(SeedDevs)
      /\ \A i \in 1 .. Len(SeedDevs) : SeedDevs[i] \in [rpm : Limits, enabled : BOOLEAN]
  BY ServerAssumption, LenProperties, ElementOfSeq
<1>2. \A i \in 1 .. Len(SeedDevs) :
        NewRow(issued + i, SeedDevs[i].rpm, SeedDevs[i].enabled) \in DevRow \cup {Gone}
  BY <1>1 DEF NewRow, DevRow, TypeOK
<1>3. SeedRows \in Seq(DevRow \cup {Gone}) /\ Len(SeedRows) = Len(SeedDevs)
  BY <1>1, <1>2 DEF SeedRows
<1>4. QED
  BY <1>1, <1>3 DEF SeedRows, NewRow

\* What every route of the store leaves of the types and of the bindings.
LEMMA StoreStep ==
  ASSUME TypeOK, BindingsResolve, StoreNext
  PROVE  StoreTypeOK' /\ BindingsResolve'
PROOF
<1> USE DEF StoreTypeOK, BindingsResolve, Binding, Rows
<1>0. /\ ups \in Seq(UpRow \cup {Gone}) /\ models \in [ModelIds -> Nat \cup {Gone}]
      /\ probe \in [Probes -> Nat] /\ edits \in 0 .. MaxEdits /\ now \in Nat
      /\ Len(ups) \in Nat /\ DOMAIN ups = 1 .. Len(ups)
      /\ \A u \in 1 .. Len(ups) : ups[u] \in UpRow \cup {Gone}
      /\ Null \in Nat /\ Gone \notin UpRow /\ Gone \notin Nat
  BY RowTypes, StoreAssumption DEF TypeOK, Null
<1>e. ASSUME Edit PROVE edits' \in 0 .. MaxEdits
  BY <1>0, <1>e, StoreAssumption DEF Edit
<1>1. ASSUME NEW name \in Addresses, NEW secret \in Secrets \cup {NoSecret}, CreateUpstream(name, secret)
      PROVE  StoreTypeOK' /\ BindingsResolve'
  <2>1. Seeded(name, secret) \in UpRow /\ Seeded(name, secret).name = name
    BY <1>0 DEF Seeded, UpRow
  <2>2. /\ ups' \in Seq(UpRow \cup {Gone}) /\ DOMAIN ups' = 1 .. Len(ups) + 1
        /\ \A i \in 1 .. Len(ups) : ups'[i] = ups[i]
        /\ ups'[Len(ups) + 1] = Seeded(name, secret)
    BY <1>0, <1>1, <2>1, AppendProperties, LenProperties DEF CreateUpstream
  <2>3. QED
    BY <1>0, <1>1, <1>e, <2>1, <2>2 DEF CreateUpstream
<1>2. ASSUME NEW u \in Rows(ups), NEW name \in Addresses \cup {Keep},
             NEW secret \in Secrets \cup {NoSecret, Keep}, NEW enabled \in BOOLEAN \cup {Keep},
             UpdateUpstream(u, name, secret, enabled)
      PROVE  StoreTypeOK' /\ BindingsResolve'
  <2>1. PICK e \in UpRow : ups' = [ups EXCEPT ![u] = e] /\ e.name = Patched(name, ups[u].name)
    BY <1>2, UpstreamPatched
  <2>2. /\ ups' \in Seq(UpRow \cup {Gone}) /\ DOMAIN ups' = DOMAIN ups
        /\ \A i \in 1 .. Len(ups) : ups'[i] = IF i = u THEN e ELSE ups[i]
    BY <1>0, <2>1, ExceptSeq
  <2>3. \A v \in Rows(ups) \ {u} : ups[v].name # e.name
    BY <1>0, <1>2, <2>1 DEF UpdateUpstream, Patched
  <2>4. QED
    BY <1>0, <1>2, <1>e, <2>1, <2>2, <2>3 DEF UpdateUpstream
<1>3. ASSUME NEW u \in Rows(ups), DeleteUpstream(u)
      PROVE  StoreTypeOK' /\ BindingsResolve'
  <2>1. /\ ups' \in Seq(UpRow \cup {Gone}) /\ DOMAIN ups' = DOMAIN ups
        /\ \A i \in 1 .. Len(ups) : ups'[i] = IF i = u THEN Gone ELSE ups[i]
    BY <1>0, <1>3, ExceptSeq DEF DeleteUpstream
  <2>2. QED
    BY <1>0, <1>3, <1>e, <2>1 DEF DeleteUpstream
<1>4. ASSUME NEW p \in Probes, NEW u \in Rows(ups), ProbeStart(p, u)
      PROVE  StoreTypeOK' /\ BindingsResolve'
  BY <1>0, <1>4 DEF ProbeStart
<1>5. ASSUME NEW p \in Probes, NEW status \in {"normal", "error"}, ProbeEnd(p, status)
      PROVE  StoreTypeOK' /\ BindingsResolve'
  <2>1. \/ ups' = ups
        \/ /\ ups' \in Seq(UpRow \cup {Gone}) /\ DOMAIN ups' = DOMAIN ups
           /\ \A i \in DOMAIN ups : /\ ups'[i] # Gone <=> ups[i] # Gone
                                    /\ ups'[i] # Gone => ups'[i].name = ups[i].name
    <3>1. CASE probe[p] \in Rows(ups)
      <4> DEFINE u == probe[p]
                 e == [ups[u] EXCEPT !.status = status]
      <4>1. e \in UpRow /\ e.name = ups[u].name
        BY <1>0, <3>1 DEF UpRow
      <4>2. ups' = [ups EXCEPT ![u] = e]
        BY <1>5, <3>1 DEF ProbeEnd
      <4>3. /\ ups' \in Seq(UpRow \cup {Gone}) /\ DOMAIN ups' = DOMAIN ups
            /\ \A i \in 1 .. Len(ups) : ups'[i] = IF i = u THEN e ELSE ups[i]
        BY <1>0, <3>1, <4>1, <4>2, ExceptSeq
      <4>4. QED
        BY <1>0, <3>1, <4>1, <4>3
    <3>2. CASE probe[p] \notin Rows(ups)
      BY <1>5, <3>2 DEF ProbeEnd
    <3>3. QED
      BY <3>1, <3>2
  <2>2. probe' \in [Probes -> Nat] /\ models' = models /\ edits' = edits
    BY <1>0, <1>5 DEF ProbeEnd
  <2>3. StoreTypeOK'
    BY <1>0, <2>1, <2>2
  <2>4. Rows(ups)' = Rows(ups) /\ \A u \in Rows(ups) : ups'[u].name = ups[u].name
    BY <2>1
  <2>5. BindingsResolve'
    BY <2>2, <2>4
  <2>6. QED
    BY <2>3, <2>5
<1>6. ASSUME NEW m \in ModelIds, NEW to \in Binding, CreateModel(m, to) \/ UpdateModel(m, to)
      PROVE  StoreTypeOK' /\ BindingsResolve'
  <2>1. /\ ups' = ups /\ probe' = probe /\ edits' \in 0 .. MaxEdits
        /\ models' = [models EXCEPT ![m] = to] /\ to \in Binding
    BY <1>6, <1>e DEF CreateModel, UpdateModel
  <2>2. models' \in [ModelIds -> Nat \cup {Gone}]
    BY <1>0, <2>1
  <2>3. \A k \in ModelIds : models'[k] = IF k = m THEN to ELSE models[k]
    BY <1>0, <2>1
  <2>4. BindingsResolve'
    BY <1>0, <2>1, <2>2, <2>3
  <2>5. QED
    BY <1>0, <2>1, <2>2, <2>4
<1>7. ASSUME NEW m \in ModelIds, DeleteModel(m)
      PROVE  StoreTypeOK' /\ BindingsResolve'
  BY <1>0, <1>7, <1>e DEF DeleteModel
<1>8. QED
  BY <1>1, <1>2, <1>3, <1>4, <1>5, <1>6, <1>7 DEF StoreNext

\* A start, with or without rows to seed.
LEMMA RestartStep ==
  ASSUME TypeOK, BindingsResolve, Restart
  PROVE  TypeOK' /\ BindingsResolve'
PROOF
<1> USE DEF Rows, Binding, BindingsResolve
<1>0. /\ ups \in Seq(UpRow \cup {Gone}) /\ models \in [ModelIds -> Nat \cup {Gone}]
      /\ devs \in Seq(DevRow \cup {Gone}) /\ Len(devs) \in Nat /\ issued \in Nat
      /\ Len(ups) \in Nat /\ DOMAIN ups = 1 .. Len(ups)
      /\ Null \in Nat /\ Gone \notin UpRow /\ Gone \notin Nat
  BY RowTypes, StoreAssumption DEF TypeOK, StoreTypeOK, Null
<1>1. /\ ups' \in Seq(UpRow \cup {Gone}) /\ Len(ups') \in Nat /\ DOMAIN ups' = 1 .. Len(ups')
      /\ \/ ups' = ups
         \/ /\ \A u \in DOMAIN ups : ups[u] = Gone
            /\ \A u, v \in Rows(ups') : u = v
  <2>1. CASE Rows(ups) = {}
    <3>1. ups' = Append(ups, Seeded(EnvBase, EnvKey)) /\ Seeded(EnvBase, EnvKey) \in UpRow
      BY <2>1, StoreAssumption DEF Restart, SeedUpstreams, Seeded, UpRow, TypeOK
    <3>2. /\ ups' \in Seq(UpRow \cup {Gone}) /\ Len(ups') = Len(ups) + 1
          /\ DOMAIN ups' = 1 .. Len(ups') /\ \A i \in 1 .. Len(ups) : ups'[i] = ups[i]
      BY <1>0, <3>1, AppendProperties, LenProperties
    <3>3. \A u \in Rows(ups') : u = Len(ups) + 1
      BY <1>0, <2>1, <3>2
    <3>4. QED
      BY <1>0, <2>1, <3>2, <3>3
  <2>2. CASE Rows(ups) # {}
    BY <1>0, <2>2 DEF Restart, SeedUpstreams
  <2>3. QED
    BY <2>1, <2>2
<1>2. /\ models' \in [ModelIds -> Nat \cup {Gone}]
      /\ \/ models' = models
         \/ \A m \in ModelIds : models'[m] \in Rows(ups')
  BY <1>0, <1>1 DEF Restart, SeedModels
<1>3. /\ devs' \in Seq(DevRow \cup {Gone}) /\ issued' \in Nat
  <2>1. /\ SeedRows \in Seq(DevRow \cup {Gone}) /\ Len(SeedDevs) \in Nat
        /\ devs \o SeedRows \in Seq(DevRow \cup {Gone})
    BY <1>0, SeedRowsType, ConcatProperties, ServerAssumption, LenProperties
  <2>2. CASE Rows(devs) = {}
    <3>1. devs' = devs \o SeedRows /\ issued' = issued + Len(SeedDevs)
      BY <2>2 DEF Restart, SeedDevices
    <3>2. QED
      BY <1>0, <2>1, <3>1
  <2>3. CASE Rows(devs) # {}
    BY <1>0, <2>3 DEF Restart, SeedDevices
  <2>4. QED
    BY <2>2, <2>3
<1>4. TypeOK'
  BY <1>0, <1>1, <1>2, <1>3 DEF TypeOK, StoreTypeOK, Restart, Null
<1>5. BindingsResolve'
  BY <1>0, <1>1, <1>2
<1>6. QED
  BY <1>4, <1>5

\* The device routes and the proxy.
LEMMA ServerStep ==
  ASSUME TypeOK, [Next]_vars, BindingsResolve
  PROVE  TypeOK' /\ BindingsResolve'
PROOF
<1>0. /\ devs \in Seq(DevRow \cup {Gone}) /\ issued \in Nat /\ now \in Nat
      /\ call \in [Calls -> Nat] /\ log \in Seq(LogRow) /\ StoreTypeOK
      /\ hollow \in SUBSET Calls
      /\ \A d \in Rows(devs) : d \in 1 .. Len(devs)
  BY RowTypes DEF TypeOK
<1>e. ASSUME Edit PROVE edits' \in 0 .. MaxEdits
  BY <1>0, <1>e, StoreAssumption DEF Edit, StoreTypeOK
<1>s. ASSUME UNCHANGED <<ups, models, probe>>, edits' = edits \/ Edit
      PROVE  StoreTypeOK' /\ BindingsResolve'
  BY <1>0, <1>s, <1>e DEF StoreTypeOK, BindingsResolve, Binding, Rows
<1>1. CASE Restart
  BY <1>1, RestartStep
<1>2. CASE TimePasses
  BY <1>0, <1>2, <1>s DEF TimePasses, Tick, TypeOK
<1>3. CASE StoreNext /\ UNCHANGED <<now, devs, issued, call, hollow, log>>
  BY <1>0, <1>3, StoreStep DEF TypeOK
<1>4. ASSUME NEW rpm \in Limits, CreateDevice(rpm) PROVE TypeOK' /\ BindingsResolve'
  <2>1. issued' \in Nat /\ NewRow(issued', rpm, TRUE) \in DevRow
    BY <1>0, <1>4 DEF CreateDevice, Issue, NewRow, DevRow
  <2>2. devs' \in Seq(DevRow \cup {Gone})
    BY <1>0, <1>4, <2>1, AppendProperties DEF CreateDevice
  <2>3. QED
    BY <1>0, <1>4, <1>s, <2>1, <2>2 DEF CreateDevice, TypeOK
<1>5. ASSUME NEW d \in Rows(devs), NEW rpm \in Limits, NEW enabled \in BOOLEAN,
             UpdateDevice(d, rpm, enabled)
      PROVE  TypeOK' /\ BindingsResolve'
  <2>1. PICK e \in DevRow : devs' = [devs EXCEPT ![d] = e]
    BY <1>5, DeviceUpdated
  <2>2. devs' \in Seq(DevRow \cup {Gone})
    BY <1>0, <2>1, ExceptSeq
  <2>3. QED
    BY <1>0, <1>5, <1>s, <2>2 DEF UpdateDevice, TypeOK
<1>6. ASSUME NEW d \in Rows(devs), DeleteDevice(d) PROVE TypeOK' /\ BindingsResolve'
  <2>1. devs' \in Seq(DevRow \cup {Gone})
    BY <1>0, <1>6, ExceptSeq DEF DeleteDevice
  <2>2. QED
    BY <1>0, <1>6, <1>s, <2>1 DEF DeleteDevice, TypeOK
<1>7. ASSUME NEW d \in Rows(devs), Rotate(d) PROVE TypeOK' /\ BindingsResolve'
  <2>1. PICK e \in DevRow : devs' = [devs EXCEPT ![d] = e]
    BY <1>7, DeviceRotated
  <2>2. devs' \in Seq(DevRow \cup {Gone})
    BY <1>0, <2>1, ExceptSeq
  <2>3. issued' \in Nat
    BY <1>0, <1>7 DEF Rotate, Issue
  <2>4. QED
    BY <1>0, <1>7, <1>s, <2>2, <2>3 DEF Rotate, TypeOK
<1>8. ASSUME NEW c \in Calls, NEW secret \in 1 .. issued, NEW d \in LetIn(secret),
             \/ \E empty \in BOOLEAN : Begin(c, d, empty)
             \/ Misconfigured(c, d)
      PROVE  TypeOK' /\ BindingsResolve'
  <2>1. d \in Nat
    BY <1>0, RowTypes DEF LetIn
  <2>2. /\ call' = call \/ call' = [call EXCEPT ![c] = d]
        /\ hollow' \in SUBSET Calls
        /\ log' = log \/ log' = Added(log, d, FALSE)
    BY <1>0, <1>8 DEF Begin, Misconfigured, Added
  <2>3. call' \in [Calls -> Nat]
    BY <1>0, <2>1, <2>2
  <2>4. log' \in Seq(LogRow)
    <3>1. Grown(log, Added(log, d, FALSE), d, FALSE)
      BY <1>0, <2>1, RowAdded
    <3>2. QED
      BY <1>0, <2>2, <3>1 DEF Grown
  <2>5. QED
    BY <1>0, <1>8, <1>s, <2>2, <2>3, <2>4 DEF Begin, Misconfigured, TypeOK
<1>9. ASSUME NEW c \in Calls, End(c) PROVE TypeOK' /\ BindingsResolve'
  <2>1. call' \in [Calls -> Nat] /\ hollow' \in SUBSET Calls /\ log' \in Seq(LogRow)
    BY <1>0, <1>9, EndLogs DEF End, Null
  <2>2. QED
    BY <1>0, <1>9, <1>s, <2>1 DEF End, TypeOK
<1>10. CASE UNCHANGED vars
  BY <1>0, <1>10, <1>s DEF vars, TypeOK
<1>11. QED
  BY <1>1, <1>2, <1>3, <1>4, <1>5, <1>6, <1>7, <1>8, <1>9, <1>10 DEF Next

\* At the very start there is nothing.
LEMMA ServerInit ==
  ASSUME Init
  PROVE  TypeOK /\ BindingsResolve
PROOF
  BY StoreAssumption, EmptySeq
     DEF Init, TypeOK, StoreTypeOK, BindingsResolve, Binding, Rows, Null

\* Every model is bound to an upstream that is there and no address has two
\* rows, whatever is created, renamed, deleted, probed or seeded (db.js:69-88,
\* routes.js:37-157).
THEOREM Bindings == Spec => [](TypeOK /\ BindingsResolve)
PROOF
<1>1. Init => TypeOK /\ BindingsResolve
  BY ServerInit
<1>2. TypeOK /\ BindingsResolve /\ [Next]_vars => (TypeOK /\ BindingsResolve)'
  BY ServerStep
<1>3. QED
  BY <1>1, <1>2, PTL DEF Spec

-----------------------------------------------------------------------------
(* The limit. *)

\* No step takes a limit off a device that had none once, or lowers its cap,
\* and a device a step adds has an id of its own.
DevicesGrow ==
  /\ Len(devs) <= Len(devs')
  /\ \A d \in Rows(devs') :
       \/ d > Len(devs) /\ devs'[d].rpm = devs'[d].cap
       \/ /\ d \in Rows(devs)
          /\ \/ devs'[d].rpm = devs[d].rpm /\ devs'[d].cap = devs[d].cap
             \/ devs'[d].cap = Raised(devs[d].cap, devs'[d].rpm)

LEMMA DevicesStep ==
  ASSUME TypeOK, [Next]_vars
  PROVE  DevicesGrow
PROOF
<1>0. /\ devs \in Seq(DevRow \cup {Gone}) /\ Len(devs) \in Nat /\ DOMAIN devs = 1 .. Len(devs)
      /\ \A d \in Rows(devs) : d \in 1 .. Len(devs)
      /\ issued \in Nat /\ Gone \notin DevRow
  BY RowTypes, ServerAssumption DEF TypeOK
<1>k. ASSUME devs' = devs PROVE DevicesGrow
  BY <1>0, <1>k DEF DevicesGrow, Rows
<1>1. ASSUME Restart, Rows(devs) = {} PROVE DevicesGrow
  <2>1. devs' = devs \o SeedRows
    BY <1>1 DEF Restart, SeedDevices
  <2>2. /\ SeedRows \in Seq(DevRow \cup {Gone}) /\ Len(SeedRows) \in Nat
        /\ \A i \in 1 .. Len(SeedRows) : SeedRows[i].cap = SeedRows[i].rpm
    BY SeedRowsType, LenProperties
  <2>3. /\ Len(devs') = Len(devs) + Len(SeedRows) /\ DOMAIN devs' = 1 .. Len(devs')
        /\ \A i \in 1 .. Len(devs') :
             devs'[i] = IF i <= Len(devs) THEN devs[i] ELSE SeedRows[i - Len(devs)]
    BY <1>0, <2>1, <2>2, ConcatProperties, LenProperties
  <2>4. ASSUME NEW d \in Rows(devs') PROVE d > Len(devs) /\ devs'[d].rpm = devs'[d].cap
    <3>1. d \in 1 .. Len(devs) + Len(SeedRows) /\ devs'[d] # Gone
      BY <2>3 DEF Rows
    <3>2. d > Len(devs)
      BY <1>0, <1>1, <2>2, <2>3, <3>1 DEF Rows
    <3>3. d - Len(devs) \in 1 .. Len(SeedRows) /\ devs'[d] = SeedRows[d - Len(devs)]
      BY <1>0, <2>2, <2>3, <3>1, <3>2
    <3>4. QED
      BY <2>2, <3>2, <3>3
  <2>5. QED
    BY <1>0, <2>2, <2>3, <2>4 DEF DevicesGrow
<1>2. ASSUME Restart, Rows(devs) # {} PROVE DevicesGrow
  BY <1>k, <1>2 DEF Restart, SeedDevices
<1>3. CASE TimePasses \/ UNCHANGED vars \/ UNCHANGED devs
  BY <1>k, <1>3 DEF TimePasses, vars
<1>4. ASSUME NEW rpm \in Limits, CreateDevice(rpm) PROVE DevicesGrow
  <2> DEFINE row == NewRow(issued', rpm, TRUE)
  <2>1. row \in DevRow /\ row.rpm = row.cap /\ devs' = Append(devs, row)
    BY <1>0, <1>4 DEF CreateDevice, Issue, NewRow, DevRow
  <2> HIDE DEF row
  <2>2. /\ Len(devs') = Len(devs) + 1 /\ DOMAIN devs' = 1 .. Len(devs) + 1
        /\ \A i \in 1 .. Len(devs) : devs'[i] = devs[i]
        /\ devs'[Len(devs) + 1] = row
    BY <1>0, <2>1, AppendProperties, LenProperties
  <2>3. \A d \in Rows(devs') : \/ d = Len(devs) + 1
                               \/ d \in Rows(devs) /\ devs'[d] = devs[d]
    BY <1>0, <2>2 DEF Rows
  <2>4. QED
    BY <1>0, <2>1, <2>2, <2>3 DEF DevicesGrow
<1>r. ASSUME NEW d \in Rows(devs), NEW e \in DevRow \cup {Gone}, devs' = [devs EXCEPT ![d] = e],
             \/ e = Gone
             \/ e.rpm = devs[d].rpm /\ e.cap = devs[d].cap
             \/ e.cap = Raised(devs[d].cap, e.rpm)
      PROVE  DevicesGrow
  <2>1. /\ Len(devs') = Len(devs) /\ DOMAIN devs' = DOMAIN devs
        /\ \A i \in 1 .. Len(devs) : devs'[i] = IF i = d THEN e ELSE devs[i]
    BY <1>0, <1>r, ExceptSeq
  <2>2. \A i \in Rows(devs') : i \in Rows(devs) /\ devs'[i] = IF i = d THEN e ELSE devs[i]
    BY <1>0, <2>1 DEF Rows
  <2>3. d \in Rows(devs') => e # Gone
    BY <1>0, <2>1 DEF Rows
  <2>4. ASSUME NEW i \in Rows(devs')
        PROVE  /\ i \in Rows(devs)
               /\ \/ devs'[i].rpm = devs[i].rpm /\ devs'[i].cap = devs[i].cap
                  \/ devs'[i].cap = Raised(devs[i].cap, devs'[i].rpm)
    <3>1. CASE i = d
      BY <1>r, <2>2, <2>3, <3>1
    <3>2. CASE i # d
      BY <2>2, <3>2
    <3>3. QED
      BY <3>1, <3>2
  <2>5. QED
    BY <1>0, <2>1, <2>4 DEF DevicesGrow
<1>5. ASSUME NEW d \in Rows(devs), NEW rpm \in Limits, NEW enabled \in BOOLEAN,
             UpdateDevice(d, rpm, enabled)
      PROVE  DevicesGrow
  <2>1. PICK e \in DevRow : /\ devs' = [devs EXCEPT ![d] = e]
                            /\ e.rpm = rpm /\ e.cap = Raised(devs[d].cap, rpm)
    BY <1>5, DeviceUpdated
  <2>2. QED
    BY <1>r, <2>1
<1>6. ASSUME NEW d \in Rows(devs), DeleteDevice(d) PROVE DevicesGrow
  BY <1>r, <1>6 DEF DeleteDevice
<1>7. ASSUME NEW d \in Rows(devs), Rotate(d) PROVE DevicesGrow
  <2>1. PICK e \in DevRow : /\ devs' = [devs EXCEPT ![d] = e]
                            /\ e.rpm = devs[d].rpm /\ e.cap = devs[d].cap
    BY <1>7, DeviceRotated
  <2>2. QED
    BY <1>r, <2>1
<1>8. ASSUME NEW c \in Calls, NEW d,
             \/ \E empty \in BOOLEAN : Begin(c, d, empty)
             \/ Misconfigured(c, d) \/ End(c)
      PROVE  DevicesGrow
  BY <1>k, <1>8 DEF Begin, Misconfigured, End
<1>9. QED
  BY <1>1, <1>2, <1>3, <1>4, <1>5, <1>6, <1>7, <1>8 DEF Next

\* The limit in force stays below the cap, and the cap of a device that has
\* always had a limit only rises.
LEMMA CapStep ==
  ASSUME TypeOK, TypeOK', CapCovers, DevicesGrow
  PROVE  /\ CapCovers'
         /\ \A d \in Rows(devs') : devs'[d].cap > 0 =>
              \/ d > Len(devs)
              \/ d \in Rows(devs) /\ devs[d].cap > 0 /\ devs[d].cap <= devs'[d].cap
PROOF
<1>1. /\ \A d \in Rows(devs) : devs[d].rpm \in Nat /\ devs[d].cap \in Nat
      /\ \A d \in Rows(devs') : devs'[d].rpm \in Nat /\ devs'[d].cap \in Nat /\ d \in Nat
  <2>1. /\ \A d \in Rows(devs) : devs[d] \in DevRow
        /\ \A d \in Rows(devs') : devs'[d] \in DevRow /\ d \in Nat
    <3>1. devs \in Seq(DevRow \cup {Gone}) /\ devs' \in Seq(DevRow \cup {Gone})
      BY DEF TypeOK
    <3>2. QED
      BY <3>1, LenProperties, ElementOfSeq DEF Rows
  <2>2. QED
    BY <2>1, ServerAssumption DEF DevRow
<1>2. ASSUME NEW d \in Rows(devs'), devs'[d].cap > 0
      PROVE  /\ devs'[d].rpm > 0 /\ devs'[d].rpm <= devs'[d].cap
             /\ \/ d > Len(devs)
                \/ d \in Rows(devs) /\ devs[d].cap > 0 /\ devs[d].cap <= devs'[d].cap
  <2>1. CASE d > Len(devs) /\ devs'[d].rpm = devs'[d].cap
    BY <1>1, <1>2, <2>1
  <2>2. CASE d \in Rows(devs) /\ devs'[d].rpm = devs[d].rpm /\ devs'[d].cap = devs[d].cap
    BY <1>1, <1>2, <2>2 DEF CapCovers
  <2>3. CASE d \in Rows(devs) /\ devs'[d].cap = Raised(devs[d].cap, devs'[d].rpm)
    BY <1>1, <1>2, <2>3 DEF Raised
  <2>4. QED
    BY <2>1, <2>2, <2>3 DEF DevicesGrow
<1>3. QED
  BY <1>2 DEF CapCovers

\* Rows and calls only name devices that have been inserted.
LEMMA KnownStep ==
  ASSUME TypeOK, KnownDevices, [Next]_vars, DevicesGrow, Len(devs) \in Nat, Len(devs') \in Nat
  PROVE  KnownDevices'
PROOF
<1>0. /\ log \in Seq(LogRow) /\ Len(log) \in Nat /\ DOMAIN log = 1 .. Len(log)
      /\ Len(devs) <= Len(devs') /\ now \in Nat /\ call \in [Calls -> Nat]
  BY LenProperties DEF TypeOK, DevicesGrow
<1>k. ASSUME log' = log, \A c \in Calls : call'[c] \in {call[c], Null} PROVE KnownDevices'
  BY <1>0, <1>k DEF KnownDevices, Null
<1>a. ASSUME NEW d \in 1 .. Len(devs), log' = Append(log, Logged(d, FALSE)),
             \A c \in Calls : call'[c] \in {call[c], Null}
      PROVE  KnownDevices'
  <2> DEFINE row == Logged(d, FALSE)
  <2>1. row \in LogRow /\ row.dev = d /\ log' = Append(log, row)
    BY <1>0, <1>a DEF Logged, LogRow
  <2> HIDE DEF row
  <2>2. /\ DOMAIN log' = 1 .. Len(log) + 1 /\ log'[Len(log) + 1] = row
        /\ \A i \in 1 .. Len(log) : log'[i] = log[i]
    BY <1>0, <2>1, AppendProperties, LenProperties
  <2>3. \A i \in DOMAIN log' : log'[i].dev \in 1 .. Len(devs)
    BY <1>0, <2>1, <2>2 DEF KnownDevices
  <2>4. \A i \in DOMAIN log' : log'[i].dev \in 1 .. Len(devs')
    BY <1>0, <2>3
  <2>5. \A c \in Calls : call'[c] \in 0 .. Len(devs')
    BY <1>0, <1>a DEF KnownDevices, Null
  <2>6. QED
    BY <2>4, <2>5 DEF KnownDevices
<1>1. CASE Restart
  BY <1>k, <1>1 DEF Restart
<1>2. CASE TimePasses \/ UNCHANGED vars \/ UNCHANGED <<call, log>>
  BY <1>k, <1>2 DEF TimePasses, vars
<1>3. ASSUME NEW c \in Calls, NEW d \in Rows(devs), NEW empty \in BOOLEAN, Begin(c, d, empty)
      PROVE  KnownDevices'
  <2>1. d \in 1 .. Len(devs) /\ log' = log /\ call' = [call EXCEPT ![c] = d]
    BY <1>3, RowTypes DEF Begin
  <2>2. \A i \in DOMAIN log' : log'[i].dev \in 1 .. Len(devs')
    BY <1>0, <2>1 DEF KnownDevices
  <2>3. \A k \in Calls : call'[k] \in 0 .. Len(devs')
    BY <1>0, <2>1 DEF KnownDevices
  <2>4. QED
    BY <2>2, <2>3 DEF KnownDevices
<1>4. ASSUME NEW c \in Calls, NEW d \in Rows(devs), Misconfigured(c, d) PROVE KnownDevices'
  BY <1>a, <1>4, RowTypes DEF Misconfigured
<1>5. ASSUME NEW c \in Calls, End(c) PROVE KnownDevices'
  <2>1. call[c] \in 1 .. Len(devs)
    BY <1>0, <1>5 DEF End, KnownDevices, Null
  <2>2. \A k \in Calls : call'[k] \in {call[k], Null}
    BY <1>0, <1>5 DEF End
  <2>3. \A i \in DOMAIN log' : log'[i].dev \in 1 .. Len(devs)
    BY <1>5, <2>1, EndLogs DEF KnownDevices
  <2>4. \A i \in DOMAIN log' : log'[i].dev \in 1 .. Len(devs')
    BY <1>0, <2>3
  <2>5. \A k \in Calls : call'[k] \in 0 .. Len(devs')
    BY <1>0, <2>2 DEF KnownDevices, Null
  <2>6. QED
    BY <2>4, <2>5 DEF KnownDevices
<1>6. CASE \E d \in Rows(devs) :
             \/ \E rpm \in Limits, enabled \in BOOLEAN : UpdateDevice(d, rpm, enabled)
             \/ DeleteDevice(d) \/ Rotate(d)
  BY <1>2, <1>6 DEF UpdateDevice, DeleteDevice, Rotate
<1>7. CASE \E rpm \in Limits : CreateDevice(rpm)
  BY <1>2, <1>7 DEF CreateDevice
<1>8. QED
  BY <1>1, <1>2, <1>3, <1>4, <1>5, <1>6, <1>7 DEF Next, LetIn

\* A step that admits or finishes no call of a device adds nothing to its count.
LEMMA CountKept ==
  ASSUME TypeOK, NEW d, Due(d)' \subseteq Due(d), Finished(d)' \subseteq Finished(d)
  PROVE  Counted(d)' <= Counted(d) /\ Counted(d)' \in Nat
PROOF
<1>1. /\ IsFiniteSet(Finished(d)) /\ IsFiniteSet(Due(d))
      /\ Cardinality(Finished(d)) \in Nat /\ Cardinality(Due(d)) \in Nat
  BY RecentFinite, DueFinite
<1>2. /\ IsFiniteSet(Finished(d)') /\ IsFiniteSet(Due(d)')
      /\ Cardinality(Finished(d)') <= Cardinality(Finished(d))
      /\ Cardinality(Due(d)') <= Cardinality(Due(d))
  BY <1>1, FS_Subset
<1>3. Cardinality(Finished(d)') \in Nat /\ Cardinality(Due(d)') \in Nat
  BY <1>2, FS_CardinalityType
<1>4. QED
  BY <1>1, <1>2, <1>3 DEF Counted, Due

\* How a step changes the count of a device: it keeps it, or the device had
\* room for it.
LEMMA CountStep ==
  ASSUME TypeOK, [Next]_vars, NEW d \in Rows(devs)
  PROVE  /\ Counted(d)' \in Nat
         /\ \/ Counted(d)' <= Counted(d)
            \/ /\ devs[d].rpm # 0 => Cardinality(Finished(d)) < devs[d].rpm
               /\ Counted(d)' <= Cardinality(Finished(d)) + Cardinality(Calls)
PROOF
<1>0. /\ call \in [Calls -> Nat] /\ log \in Seq(LogRow) /\ now \in Nat
      /\ d \in 1 .. Len(devs) /\ Len(devs) \in Nat /\ Window \in Nat
      /\ Len(log) \in Nat /\ DOMAIN log = 1 .. Len(log)
      /\ \A i \in 1 .. Len(log) : log[i].at \in Nat
      /\ devs[d].rpm \in Nat
  <2>1. log \in Seq(LogRow) /\ devs[d] \in DevRow
    BY RowTypes DEF TypeOK
  <2>2. \A i \in 1 .. Len(log) : log[i] \in LogRow
    BY <2>1, LenProperties, ElementOfSeq
  <2>3. QED
    BY <2>1, <2>2, RowTypes, ServerAssumption, LenProperties DEF TypeOK, LogRow, DevRow
<1>f. /\ IsFiniteSet(Calls) /\ Cardinality(Calls) \in Nat
      /\ IsFiniteSet(Due(d)) /\ Cardinality(Due(d)) \in Nat
      /\ IsFiniteSet(Finished(d)) /\ Cardinality(Finished(d)) \in Nat
  BY ServerAssumption, RecentFinite, DueFinite
<1>h. HasRoom(d) => (devs[d].rpm # 0 => Cardinality(Finished(d)) < devs[d].rpm)
  BY <1>0, RecentFinite DEF HasRoom
<1>g. /\ IsFiniteSet(Due(d)') /\ Cardinality(Due(d)') \in Nat
      /\ Cardinality(Due(d)') <= Cardinality(Calls)
  <2>1. Due(d)' \subseteq Calls
    BY DEF InFlight, Due
  <2>2. QED
    BY <1>f, <2>1, FS_Subset, FS_CardinalityType
<1>1. ASSUME log' = log, now' >= now, now' \in Nat,
             hollow' = hollow \/ call' = [c \in Calls |-> Null],
             \A c \in Calls : call'[c] \in {call[c], Null}
      PROVE  Counted(d)' <= Counted(d) /\ Counted(d)' \in Nat
  <2>1. Finished(d)' \subseteq Finished(d)
    BY <1>0, <1>1 DEF Finished, Recent
  <2>2. Due(d)' \subseteq Due(d)
    BY <1>0, <1>1 DEF InFlight, Due, Null
  <2>3. QED
    BY <2>1, <2>2, CountKept
<1>2. CASE Restart \/ TimePasses \/ UNCHANGED vars \/ UNCHANGED <<now, call, hollow, log>>
  BY <1>0, <1>1, <1>2 DEF Restart, TimePasses, Tick, vars, Null
<1>3. ASSUME NEW c \in Calls, NEW b \in Rows(devs), NEW empty \in BOOLEAN, Begin(c, b, empty)
      PROVE  /\ Counted(d)' \in Nat
             /\ \/ Counted(d)' <= Counted(d)
                \/ /\ devs[d].rpm # 0 => Cardinality(Finished(d)) < devs[d].rpm
                   /\ Counted(d)' <= Cardinality(Finished(d)) + Cardinality(Calls)
  <2>1. Finished(d)' = Finished(d)
    BY <1>3 DEF Begin, Finished, Recent
  <2>2. CASE b = d
    BY <1>f, <1>g, <1>h, <1>3, <2>1, <2>2 DEF Begin, Counted, Due
  <2>3. CASE b # d
    <3>1. Due(d)' \subseteq Due(d)
      BY <1>0, <1>3, <2>3 DEF Begin, InFlight, Due
    <3>2. QED
      BY <2>1, <3>1, CountKept
  <2>4. QED
    BY <2>2, <2>3
<1>4. ASSUME NEW c \in Calls, NEW b \in Rows(devs), Misconfigured(c, b)
      PROVE  /\ Counted(d)' \in Nat
             /\ \/ Counted(d)' <= Counted(d)
                \/ /\ devs[d].rpm # 0 => Cardinality(Finished(d)) < devs[d].rpm
                   /\ Counted(d)' <= Cardinality(Finished(d)) + Cardinality(Calls)
  <2>1. /\ Cardinality(Finished(d)') \in Nat
        /\ Cardinality(Finished(d)') <= Cardinality(Finished(d)) + 1
        /\ d # b => Finished(d)' = Finished(d)
    <3>1. b \in Nat /\ now' = now /\ log' = Added(log, b, FALSE)
      BY <1>4, RowTypes DEF Misconfigured, Added
    <3>2. Finished(d) = FinishedIn(log, d) /\ Finished(d)' = FinishedIn(log', d)
      BY <3>1 DEF Finished, FinishedIn, Recent
    <3>3. Grown(log, log', b, FALSE)
      BY <1>0, <3>1, RowAdded
    <3>4. QED
      BY <3>2, <3>3 DEF Grown
  <2>2. Due(d)' = Due(d)
    BY <1>4 DEF Misconfigured, InFlight, Due
  <2>3. CASE b = d
    <3>1. Due(d) \subseteq Calls \ {c}
      BY <1>0, <1>4 DEF Misconfigured, InFlight, Due, Null
    <3>2. IsFiniteSet(Calls \ {c}) /\ Cardinality(Calls \ {c}) = Cardinality(Calls) - 1
      BY <1>f, FS_RemoveElement
    <3>3. Cardinality(Due(d)) <= Cardinality(Calls) - 1
      BY <3>1, <3>2, FS_Subset
    <3>4. HasRoom(d)
      BY <1>4, <2>3 DEF Misconfigured
    <3>5. Counted(d)' = Cardinality(Finished(d)') + Cardinality(Due(d))
      BY <2>2 DEF Counted, Due
    <3>6. QED
      BY <1>f, <1>h, <2>1, <3>3, <3>4, <3>5
  <2>4. CASE b # d
    BY <1>f, <2>1, <2>2, <2>4 DEF Counted, Due
  <2>5. QED
    BY <2>3, <2>4
<1>5. ASSUME NEW c \in Calls, End(c)
      PROVE  Counted(d)' \in Nat /\ Counted(d)' <= Counted(d)
  <2>1. /\ Cardinality(Finished(d)') \in Nat
        /\ Cardinality(Finished(d)') <= Cardinality(Finished(d)) + 1
        /\ d # call[c] \/ c \in hollow => Finished(d)' = Finished(d)
    BY <1>5, EndLogs
  <2>2. CASE call[c] = d /\ c \notin hollow
    <3>1. Due(d)' = Due(d) \ {c} /\ c \in Due(d)
      BY <1>0, <1>5, <2>2 DEF End, InFlight, Due, Null
    <3>2. Cardinality(Due(d)') = Cardinality(Due(d)) - 1
      BY <1>f, <3>1, FS_RemoveElement
    <3>3. QED
      BY <1>f, <1>g, <2>1, <3>2 DEF Counted, Due
  <2>3. CASE d # call[c] \/ c \in hollow
    <3>1. Due(d)' \subseteq Due(d) /\ Finished(d)' \subseteq Finished(d)
      BY <1>0, <1>5, <2>1, <2>3 DEF End, InFlight, Due, Null
    <3>2. QED
      BY <3>1, CountKept
  <2>4. QED
    BY <2>2, <2>3
<1>6. CASE \E b \in Rows(devs) :
             \/ \E rpm \in Limits, enabled \in BOOLEAN : UpdateDevice(b, rpm, enabled)
             \/ DeleteDevice(b) \/ Rotate(b)
  BY <1>2, <1>6 DEF UpdateDevice, DeleteDevice, Rotate
<1>7. CASE \E rpm \in Limits : CreateDevice(rpm)
  BY <1>2, <1>7 DEF CreateDevice
<1>8. QED
  BY <1>2, <1>3, <1>4, <1>5, <1>6, <1>7 DEF Next, LetIn

\* With the clients there are, the count of a limited device stays below its
\* largest limit plus their number.
LEMMA OvershootStep ==
  ASSUME CallInv, TypeOK', [Next]_vars
  PROVE  CallInv'
PROOF
<1>1. DevicesGrow /\ CapCovers'
      /\ \A d \in Rows(devs') : devs'[d].cap > 0 =>
           \/ d > Len(devs)
           \/ d \in Rows(devs) /\ devs[d].cap > 0 /\ devs[d].cap <= devs'[d].cap
  BY DevicesStep, CapStep DEF CallInv
<1>2. /\ Len(devs) \in Nat /\ Len(devs') \in Nat /\ Len(devs) <= Len(devs')
      /\ \A d \in Rows(devs') : d \in Nat /\ devs'[d].cap \in Nat
      /\ \A d \in Rows(devs) : devs[d].cap \in Nat /\ devs[d].rpm \in Nat
  <2>1. devs \in Seq(DevRow \cup {Gone}) /\ devs' \in Seq(DevRow \cup {Gone})
    BY DEF CallInv, TypeOK
  <2>2. /\ Len(devs) \in Nat /\ Len(devs') \in Nat
        /\ \A d \in Rows(devs') : d \in Nat /\ devs'[d] \in DevRow
        /\ \A d \in Rows(devs) : devs[d] \in DevRow
    BY <2>1, LenProperties, ElementOfSeq DEF Rows
  <2>3. QED
    BY <1>1, <2>2, ServerAssumption DEF DevRow, DevicesGrow
<1>3. KnownDevices'
  BY <1>1, <1>2, KnownStep DEF CallInv
<1>4. ASSUME NEW d \in Rows(devs'), devs'[d].cap > 0
      PROVE  Counted(d)' < devs'[d].cap + Cardinality(Calls)
  <2>1. Cardinality(Calls) \in Nat
    BY ServerAssumption, FS_CardinalityType
  <2>2. CASE d \in Rows(devs) /\ devs[d].cap > 0 /\ devs[d].cap <= devs'[d].cap
    <3>1. Counted(d) < devs[d].cap + Cardinality(Calls) /\ devs[d].rpm > 0 /\ devs[d].rpm <= devs[d].cap
      BY <2>2 DEF CallInv, RpmOvershoot, CapCovers
    <3>2. Cardinality(Finished(d)) \in Nat /\ Cardinality(Due(d)) \in Nat
      BY RecentFinite, DueFinite DEF CallInv
    <3>3. /\ Counted(d)' \in Nat
          /\ \/ Counted(d)' <= Counted(d)
             \/ /\ devs[d].rpm # 0 => Cardinality(Finished(d)) < devs[d].rpm
                /\ Counted(d)' <= Cardinality(Finished(d)) + Cardinality(Calls)
      BY <2>2, CountStep DEF CallInv
    <3>4. Counted(d) \in Nat
      BY <3>2 DEF Counted, Due
    <3>5. QED
      BY <1>2, <2>1, <2>2, <3>1, <3>2, <3>3, <3>4
  <2>3. CASE d > Len(devs)
    <3>1. CASE UNCHANGED devs
      BY <1>2, <2>3, <3>1 DEF Rows, CallInv, TypeOK
    <3>2. CASE devs' # devs
      <4>1. call' = [c \in Calls |-> Null] \/ call' = call
        BY <3>2 DEF Next, Restart, TimePasses, CreateDevice, UpdateDevice, DeleteDevice, Rotate,
                    Begin, Misconfigured, End, vars
      <4>2. log' = log
        BY <3>2 DEF Next, Restart, TimePasses, CreateDevice, UpdateDevice, DeleteDevice, Rotate,
                    Begin, Misconfigured, End, vars
      <4>3. Due(d)' = {} /\ Finished(d)' = {}
        BY <1>2, <2>3, <4>1, <4>2 DEF Due, InFlight, Finished, Recent, CallInv, KnownDevices, Null
      <4>4. Counted(d)' = 0
        BY <4>3, FS_EmptySet DEF Counted, Due
      <4>5. QED
        BY <1>2, <1>4, <2>1, <4>4
    <3>3. QED
      BY <3>1, <3>2
  <2>4. QED
    BY <1>1, <1>4, <2>2, <2>3
<1>5. QED
  BY <1>1, <1>3, <1>4 DEF CallInv, RpmOvershoot

\* However the calls of a device overlap, whatever the admin does to its limit
\* and whenever the process restarts, its calls of the last minute that are
\* logged, finished or on their way, stay below its largest limit plus the
\* number of clients (index.js:170-258).
THEOREM Overshoot == Spec => []RpmOvershoot
PROOF
<1>1. Init => CallInv
  <2>1. ASSUME Init PROVE CallInv
    BY <2>1, ServerInit, LenProperties, EmptySeq
       DEF Init, CallInv, KnownDevices, CapCovers, RpmOvershoot, Rows, Null
  <2>2. QED
    BY <2>1
<1>2. CallInv /\ TypeOK' /\ [Next]_vars => CallInv'
  BY OvershootStep
<1>3. CallInv => RpmOvershoot
  BY DEF CallInv
<1>4. QED
  BY <1>1, <1>2, <1>3, Bindings, PTL DEF Spec

-----------------------------------------------------------------------------
(* The calls and their rows. *)

LEMMA LedgerStep ==
  ASSUME TypeOK, [Next]_vars
  PROVE  [L!LedgerNext]_<<Named, Unnamed, Len(log)>>
PROOF
<1>0. call \in [Calls -> Nat] /\ log \in Seq(LogRow) /\ Len(log) \in Nat /\ hollow \in SUBSET Calls
  BY LenProperties DEF TypeOK
<1> USE DEF L!LedgerNext, L!Admit, L!Settle, L!Vanish, L!Reject, L!Crash, L!Free,
            Active, Named, Unnamed
<1>a. ASSUME NEW r, log' = Append(log, r) PROVE Len(log') = Len(log) + 1
  BY <1>0, <1>a
<1>1. CASE Restart
  BY <1>1 DEF Restart
<1>2. CASE UNCHANGED <<call, hollow, log>>
  BY <1>2
<1>3. ASSUME NEW c \in Calls, NEW d \in Rows(devs), NEW empty \in BOOLEAN, Begin(c, d, empty)
      PROVE  L!Admit(c)
  <2>1. d # Null
    BY <1>3, RowTypes DEF Null
  <2>2. QED
    BY <1>0, <1>3, <2>1 DEF Begin
<1>4. ASSUME NEW c \in Calls, NEW d \in Rows(devs), Misconfigured(c, d)
      PROVE  L!Reject(c)
  BY <1>0, <1>a, <1>4 DEF Misconfigured
<1>5. ASSUME NEW c \in Calls, End(c)
      PROVE  L!Settle(c) \/ L!Vanish(c)
  <2>1. /\ call[c] # Null /\ call' = [call EXCEPT ![c] = Null] /\ hollow' = hollow \ {c}
        /\ c \in hollow => log' = log
        /\ c \notin hollow => Len(log') \in Len(log) + 1 .. Len(log) + 2
    BY <1>5, EndLogs DEF End
  <2>2. CASE c \in hollow
    BY <1>0, <2>1, <2>2
  <2>3. CASE c \notin hollow
    BY <1>0, <2>1, <2>3
  <2>4. QED
    BY <2>2, <2>3
<1>6. CASE \E d \in Rows(devs) :
             \/ \E rpm \in Limits, enabled \in BOOLEAN : UpdateDevice(d, rpm, enabled)
             \/ DeleteDevice(d) \/ Rotate(d)
  BY <1>2, <1>6 DEF UpdateDevice, DeleteDevice, Rotate
<1>7. CASE TimePasses \/ UNCHANGED vars \/ \E rpm \in Limits : CreateDevice(rpm)
  BY <1>2, <1>7 DEF TimePasses, CreateDevice, vars
<1>8. QED
  BY <1>1, <1>2, <1>3, <1>4, <1>5, <1>6, <1>7 DEF Next, LetIn

\* The server keeps the promise of Ledger: a call it admits and can log is
\* settled by one row or two, one it cannot log by none, no row is written for a
\* call that was not admitted or answered at once, and none is taken back.
THEOREM KeepsLedger == Spec => Accounted
PROOF
<1>1. Init => L!LedgerInit
  BY EmptySeq DEF Init, Active, Named, Unnamed, L!LedgerInit
<1>2. TypeOK /\ [Next]_vars => [L!LedgerNext]_<<Named, Unnamed, Len(log)>>
  BY LedgerStep
<1>3. QED
  BY <1>1, <1>2, Bindings, PTL DEF Spec, Accounted, L!LedgerSpec

-----------------------------------------------------------------------------
(* The tables and the admin. *)

\* What a step that is no request of the admin does to the three tables.
TablesKept ==
  edits' = edits =>
    /\ Rows(devs) # {} => devs' = devs
    /\ Rows(models) # {} => models' = models
    /\ Rows(ups) # {} =>
         /\ Rows(ups') = Rows(ups)
         /\ \A u \in Rows(ups) : ups'[u] = [ups[u] EXCEPT !.status = ups'[u].status]

LEMMA EditsStep ==
  ASSUME TypeOK, [Next]_vars
  PROVE  TablesKept
PROOF
<1>0. /\ \A u \in Rows(ups) : ups[u] \in UpRow /\ u \in 1 .. Len(ups)
      /\ DOMAIN ups = 1 .. Len(ups) /\ Gone \notin UpRow
      /\ ups \in Seq(UpRow \cup {Gone}) /\ edits \in Nat
  BY RowTypes, StoreAssumption DEF TypeOK, StoreTypeOK
<1>u. \A u \in Rows(ups) : ups[u] = [ups[u] EXCEPT !.status = ups[u].status]
  BY <1>0 DEF UpRow
<1>k. ASSUME ups' = ups, Rows(models) # {} => models' = models, Rows(devs) # {} => devs' = devs
      PROVE  TablesKept
  BY <1>k, <1>u DEF TablesKept
<1>e. ASSUME Edit PROVE TablesKept
  BY <1>0, <1>e DEF Edit, TablesKept
<1>1. CASE Restart
  <2>1. /\ Rows(ups) # {} => ups' = ups
        /\ Rows(models) # {} => models' = models
        /\ Rows(devs) # {} => devs' = devs
    BY <1>1 DEF Restart, SeedUpstreams, SeedModels, SeedDevices
  <2>2. QED
    BY <1>u, <2>1 DEF TablesKept
<1>2. CASE UNCHANGED <<ups, models, devs>>
  BY <1>k, <1>2
<1>3. ASSUME NEW p \in Probes, NEW status \in {"normal", "error"}, ProbeEnd(p, status),
             UNCHANGED <<now, devs, issued, call, hollow, log>>
      PROVE  TablesKept
  <2>1. CASE probe[p] \in Rows(ups)
    <3> DEFINE e == [ups[probe[p]] EXCEPT !.status = status]
    <3>1. e \in UpRow /\ e = [ups[probe[p]] EXCEPT !.status = e.status]
      BY <1>0, <1>3, <2>1 DEF UpRow
    <3>2. ups' = [ups EXCEPT ![probe[p]] = e]
      BY <1>3, <2>1 DEF ProbeEnd
    <3> HIDE DEF e
    <3>3. /\ DOMAIN ups' = DOMAIN ups
          /\ \A i \in DOMAIN ups : ups'[i] = IF i = probe[p] THEN e ELSE ups[i]
      BY <1>0, <2>1, <3>1, <3>2, ExceptSeq
    <3>4. Rows(ups') = Rows(ups)
      BY <1>0, <2>1, <3>1, <3>3 DEF Rows
    <3>5. \A u \in Rows(ups) : ups'[u] = [ups[u] EXCEPT !.status = ups'[u].status]
      BY <1>0, <1>u, <3>1, <3>3
    <3>6. QED
      BY <1>3, <3>4, <3>5 DEF TablesKept, ProbeEnd
  <2>2. CASE probe[p] \notin Rows(ups)
    BY <1>k, <1>3, <2>2 DEF ProbeEnd
  <2>3. QED
    BY <2>1, <2>2
<1>4. CASE StoreNext /\ UNCHANGED <<now, devs, issued, call, hollow, log>>
  BY <1>2, <1>3, <1>4, <1>e
     DEF StoreNext, CreateUpstream, UpdateUpstream, DeleteUpstream, ProbeStart,
         CreateModel, UpdateModel, DeleteModel
<1>5. CASE \/ \E rpm \in Limits : CreateDevice(rpm)
           \/ \E d \in Rows(devs) :
                \/ \E rpm \in Limits, enabled \in BOOLEAN : UpdateDevice(d, rpm, enabled)
                \/ DeleteDevice(d) \/ Rotate(d)
  BY <1>5, <1>e DEF CreateDevice, UpdateDevice, DeleteDevice, Rotate
<1>6. CASE \/ TimePasses \/ UNCHANGED vars \/ \E c \in Calls : End(c)
           \/ \E c \in Calls, d \in Rows(devs) :
                \/ \E empty \in BOOLEAN : Begin(c, d, empty)
                \/ Misconfigured(c, d)
  BY <1>2, <1>6 DEF TimePasses, vars, End, Begin, Misconfigured
<1>7. QED
  BY <1>1, <1>4, <1>5, <1>6 DEF Next, LetIn

\* A probe that answers late, a call, a restart: none of them changes what the
\* admin entered, but for the status of an upstream (routes.js:77-99,
\* db.js:109-139).
THEOREM EditsAreTheAdmins == Spec => OnlyTheAdminEdits
PROOF
<1>1. TypeOK /\ [Next]_vars => [TablesKept]_vars
  BY EditsStep
<1>2. Spec => [][TablesKept]_vars
  BY <1>1, Bindings, PTL DEF Spec
<1>3. QED
  BY <1>2 DEF OnlyTheAdminEdits, TablesKept

(***************************************************************************)
(* UiApp, the playground.  No reply stays half typed: unless a chat was    *)
(* cleared under a reply still awaited, there is one handler at most, and  *)
(* it holds the timer (Replying).                                          *)
(***************************************************************************)

\* While no chat was cleared under an awaited reply, one handler is about at
\* most, the reference names its interval, and it has ticks to go.
Replying ==
  /\ typing = (P!Running # {}) /\ \A s, u \in P!Running : s = u
  /\ \A s \in P!Messages : answer[s] = "part" => s \in P!Running
  /\ \A s \in P!Running : send[s].left >= 1 /\ (send[s].pc = "typing" => timer = s)

ChatInv == P!PlaygroundTypeOK /\ (~torn => Replying)

-----------------------------------------------------------------------------
LEMMA ChatInit == AppInit => ChatInv
PROOF
<1> SUFFICES ASSUME AppInit PROVE ChatInv
  OBVIOUS
<1>1. P!PlaygroundInit
  BY DEF AppInit
<1>2. P!Running = {}
  BY <1>1 DEF P!PlaygroundInit, P!Running, P!NoSend
<1>3. P!PlaygroundTypeOK
  <2>1. /\ key \in Nat /\ stray \in Nat /\ boot \in {"off", "listing", "rotating", "rotated"}
        /\ fresh \in 0 .. key /\ token \in 0 .. key /\ sent \in 0 .. MaxSends /\ timer \in 0 .. MaxSends
    BY <1>1, PlaygroundAssumption DEF P!PlaygroundInit
  <2>2. typing \in BOOLEAN /\ stream \in BOOLEAN /\ torn \in BOOLEAN
    BY <1>1 DEF P!PlaygroundInit
  <2>3. /\ asked \subseteq P!Messages /\ answer \in [P!Messages -> {"none", "part", "whole"}]
        /\ send \in [P!Messages -> P!Handlers \cup {Idle}]
    BY <1>1 DEF P!PlaygroundInit, P!NoAnswer, P!NoSend
  <2>4. QED
    BY <2>1, <2>2, <2>3 DEF P!PlaygroundTypeOK
<1>4. Replying
  BY <1>1, <1>2 DEF Replying, P!PlaygroundInit, P!NoAnswer
<1>5. QED
  BY <1>3, <1>4 DEF ChatInv

LEMMA ChatRemount ==
  ASSUME ChatInv, NEW mounting, P!Remount(mounting)
  PROVE  ChatInv'
PROOF
<1>1. P!Running' = {}
  BY DEF P!Remount, P!Running, P!NoSend
<1>2. P!PlaygroundTypeOK'
  <2>1. /\ key' \in Nat /\ stray' \in Nat /\ boot' \in {"off", "listing", "rotating", "rotated"}
        /\ fresh' \in 0 .. key' /\ token' \in 0 .. key' /\ sent' \in 0 .. MaxSends
        /\ timer' \in 0 .. MaxSends
    BY PlaygroundAssumption DEF P!Remount, ChatInv, P!PlaygroundTypeOK
  <2>2. typing' \in BOOLEAN /\ stream' \in BOOLEAN /\ torn' \in BOOLEAN
    BY DEF P!Remount
  <2>3. /\ asked' \subseteq P!Messages /\ answer' \in [P!Messages -> {"none", "part", "whole"}]
        /\ send' \in [P!Messages -> P!Handlers \cup {Idle}]
    BY DEF P!Remount, P!NoAnswer, P!NoSend
  <2>4. QED
    BY <2>1, <2>2, <2>3 DEF P!PlaygroundTypeOK
<1>3. Replying'
  BY <1>1 DEF Replying, P!Remount, P!NoAnswer
<1>4. QED
  BY <1>2, <1>3 DEF ChatInv

\* The mount effect, the switch and what leaves the chat alone.
LEMMA ChatSame ==
  ASSUME ChatInv, UNCHANGED <<asked, answer, typing, timer, sent, send, torn>>,
         stray' \in Nat, key' \in Nat, boot' \in {"off", "listing", "rotating", "rotated"},
         fresh' \in 0 .. key', token' \in 0 .. key', stream' \in BOOLEAN
  PROVE  ChatInv'
PROOF
<1>1. P!PlaygroundTypeOK'
  BY DEF ChatInv, P!PlaygroundTypeOK
<1>2. P!Running' = P!Running
  BY DEF P!Running
<1>3. QED
  BY <1>1, <1>2 DEF ChatInv, Replying

LEMMA BootStep ==
  ASSUME ChatInv, P!Listed \/ P!RotateKey \/ P!Rotated \/ P!BootFails \/ P!ToggleStream
  PROVE  ChatInv'
PROOF
<1>1. UNCHANGED <<asked, answer, typing, timer, sent, send, torn>>
  BY DEF P!Listed, P!RotateKey, P!Rotated, P!BootFails, P!ToggleStream, P!chat
<1>2. /\ key \in Nat /\ stray \in Nat /\ boot \in {"off", "listing", "rotating", "rotated"}
      /\ fresh \in 0 .. key /\ token \in 0 .. key /\ stream \in BOOLEAN
  BY DEF ChatInv, P!PlaygroundTypeOK
<1>3. stream' \in BOOLEAN
  BY <1>2 DEF P!Listed, P!RotateKey, P!Rotated, P!BootFails, P!ToggleStream, P!chat
<1>4. /\ stray' \in Nat /\ key' \in Nat /\ boot' \in {"off", "listing", "rotating", "rotated"}
      /\ fresh' \in 0 .. key' /\ token' \in 0 .. key'
  <2>1. CASE P!RotateKey
    BY <1>2, <2>1 DEF P!RotateKey, P!chat
  <2>2. CASE P!Listed \/ P!Rotated \/ P!BootFails \/ P!ToggleStream
    BY <1>2, <2>2 DEF P!Listed, P!Rotated, P!BootFails, P!ToggleStream, P!chat
  <2>3. QED
    BY <2>1, <2>2
<1>5. QED
  BY <1>1, <1>3, <1>4, ChatSame

\* A message is sent while no other is about.
LEMMA SendStep ==
  ASSUME ChatInv, NEW n \in 1 .. MaxTicks, P!Send(n)
  PROVE  ChatInv'
PROOF
<1> DEFINE x == [pc |-> "sent", token |-> token, stream |-> stream, left |-> n]
<1>1. /\ ~typing /\ sent' = sent + 1 /\ typing' = TRUE /\ send' = [send EXCEPT ![sent'] = x]
      /\ asked' = asked \cup {sent'}
      /\ UNCHANGED <<page, key, stray, boot, fresh, token, answer, stream, timer, torn>>
  BY DEF P!Send
<1>2. /\ sent' \in P!Messages /\ sent' \in 0 .. MaxSends /\ token \in Nat /\ stream \in BOOLEAN
      /\ send \in [P!Messages -> P!Handlers \cup {Idle}] /\ n \in 0 .. MaxTicks
  BY PlaygroundAssumption DEF P!Send, ChatInv, P!PlaygroundTypeOK, P!Messages
<1>3. x \in P!Handlers
  BY <1>2 DEF P!Handlers
<1>4. x # Idle /\ x.pc = "sent" /\ x.left = n
  BY <1>3, IdleAssumption
<1> HIDE DEF x
<1>5. P!PlaygroundTypeOK'
  <2>1. send' \in [P!Messages -> P!Handlers \cup {Idle}]
    BY <1>1, <1>2, <1>3
  <2>2. typing' \in BOOLEAN
    BY <1>1
  <2>3. QED
    BY <1>1, <1>2, <2>1, <2>2 DEF ChatInv, P!PlaygroundTypeOK
<1>6. ASSUME ~torn PROVE Replying'
  <2>1. Replying /\ P!Running = {}
    BY <1>1, <1>6 DEF ChatInv, Replying
  <2>2. P!Running' = {sent'} /\ send'[sent'] = x
    BY <1>1, <1>2, <1>4, <2>1 DEF P!Running
  <2>3. typing' = (P!Running' # {})
    BY <1>1, <2>2
  <2>4. \A u \in P!Messages : answer'[u] # "part"
    BY <1>1, <2>1 DEF Replying
  <2>5. \A u \in P!Running' : u = sent' /\ send'[u].left >= 1 /\ send'[u].pc = "sent"
    BY <1>2, <1>4, <2>2
  <2>6. QED
    BY <2>3, <2>4, <2>5 DEF Replying
<1>7. QED
  BY <1>1, <1>5, <1>6 DEF ChatInv

\* A handler is let in, types, or is told to wait for its next tick.
LEMMA HandlerGoesOn ==
  ASSUME ChatInv, NEW s \in P!Running, P!Accept(s) \/ P!StartTyping(s) \/ P!Tick(s)
  PROVE  ChatInv'
PROOF
<1>1. /\ s \in P!Messages /\ send[s] \in P!Handlers /\ send \in [P!Messages -> P!Handlers \cup {Idle}]
      /\ MaxSends \in Nat /\ MaxTicks \in Nat
  BY PlaygroundAssumption DEF P!Running, ChatInv, P!PlaygroundTypeOK
<1>2. PICK x \in P!Handlers : send' = [send EXCEPT ![s] = x] /\ (send[s].left >= 1 => x.left >= 1)
                              /\ (x.pc = "typing" => timer' = s \/ (send[s].pc = "typing" /\ timer' = timer))
  <2>1. CASE P!Accept(s)
    <3>1. [send[s] EXCEPT !.pc = "accepted"] \in P!Handlers
      BY <1>1 DEF P!Handlers
    <3>2. send' = [send EXCEPT ![s] = [send[s] EXCEPT !.pc = "accepted"]]
      BY <2>1 DEF P!Accept
    <3>3. [send[s] EXCEPT !.pc = "accepted"].left = send[s].left
          /\ [send[s] EXCEPT !.pc = "accepted"].pc = "accepted"
      BY <1>1 DEF P!Handlers
    <3>4. QED
      BY <3>1, <3>2, <3>3
  <2>2. CASE P!StartTyping(s)
    <3> DEFINE y == [send[s] EXCEPT !.pc = "typing"]
    <3>1. y \in P!Handlers
      BY <1>1 DEF P!Handlers
    <3>2. send' = [send EXCEPT ![s] = y] /\ timer' = s
      BY <2>2 DEF P!StartTyping
    <3>3. y.left = send[s].left
      BY <1>1 DEF P!Handlers
    <3> HIDE DEF y
    <3>4. QED
      BY <3>1, <3>2, <3>3
  <2>3. CASE P!Tick(s)
    <3> DEFINE y == [send[s] EXCEPT !.left = send[s].left - 1]
    <3>1. y \in P!Handlers
      BY <1>1, <2>3 DEF P!Handlers, P!Tick
    <3>2. send' = [send EXCEPT ![s] = y]
          /\ send[s].pc = "typing" /\ timer' = timer /\ send[s].left > 1
      BY <2>3 DEF P!Tick
    <3>3. y.left >= 1
      <4>1. y.left = send[s].left - 1 /\ send[s].left \in Nat
        BY <1>1 DEF P!Handlers
      <4>2. QED
        BY <3>2, <4>1
    <3> HIDE DEF y
    <3>4. QED
      BY <3>1, <3>2, <3>3
  <2>4. QED
    BY <2>1, <2>2, <2>3
<1>3. x # Idle
  BY IdleAssumption
<1>4. /\ send' \in [P!Messages -> P!Handlers \cup {Idle}] /\ send'[s] = x
      /\ \A u \in P!Messages \ {s} : send'[u] = send[u]
  BY <1>1, <1>2
<1>5. P!Running' = P!Running
  BY <1>3, <1>4 DEF P!Running
<1>6. /\ UNCHANGED <<key, stray, boot, fresh, token, asked, typing, stream, sent, torn>>
      /\ answer' \in {answer, [answer EXCEPT ![s] = "part"]} /\ timer' \in {timer, s}
  BY DEF P!Accept, P!StartTyping, P!Tick
<1>7. P!PlaygroundTypeOK'
  <2>1. answer' \in [P!Messages -> {"none", "part", "whole"}]
    BY <1>1, <1>6 DEF ChatInv, P!PlaygroundTypeOK
  <2>2. timer' \in 0 .. MaxSends
    BY <1>1, <1>6 DEF ChatInv, P!PlaygroundTypeOK, P!Messages
  <2>3. QED
    BY <1>4, <1>6, <2>1, <2>2 DEF ChatInv, P!PlaygroundTypeOK
<1>8. ASSUME ~torn PROVE Replying'
  <2>1. Replying /\ P!Running = {s}
    BY <1>8 DEF ChatInv, Replying
  <2>2. \A u \in P!Messages : answer'[u] = "part" => u = s
    BY <1>6, <2>1 DEF Replying, ChatInv, P!PlaygroundTypeOK
  <2>3. send'[s].left >= 1 /\ (send'[s].pc = "typing" => timer' = s)
    BY <1>2, <1>4, <2>1 DEF Replying
  <2>4. QED
    BY <1>5, <1>6, <2>1, <2>2, <2>3 DEF Replying
<1>9. QED
  BY <1>6, <1>7, <1>8 DEF ChatInv

\* A reply is shown, typed to its end, or replaced by a failure.
LEMMA HandlerEnds ==
  ASSUME ChatInv, NEW s \in P!Running, P!Reply(s) \/ P!LastTick(s) \/ P!Refused(s)
  PROVE  ChatInv'
PROOF
<1>1. /\ s \in P!Messages /\ send[s] \in P!Handlers /\ send \in [P!Messages -> P!Handlers \cup {Idle}]
      /\ answer \in [P!Messages -> {"none", "part", "whole"}]
  BY DEF P!Running, ChatInv, P!PlaygroundTypeOK
<1>2. UNCHANGED <<key, stray, boot, fresh, token, asked, stream, sent, torn>>
  BY DEF P!Reply, P!LastTick, P!Refused
<1>3. /\ answer' \in [P!Messages -> {"none", "part", "whole"}] /\ answer'[s] # "part"
      /\ \A u \in P!Messages \ {s} : answer'[u] = answer[u]
  BY <1>1 DEF P!Reply, P!LastTick, P!Refused
<1>4. timer' \in 0 .. MaxSends
  BY PlaygroundAssumption DEF P!Reply, P!LastTick, P!Refused, ChatInv, P!PlaygroundTypeOK
<1>5. P!Stopped \in [P!Messages -> P!Handlers \cup {Idle}]
  BY <1>1 DEF P!Stopped
<1>6. send' \in [P!Messages -> P!Handlers \cup {Idle}]
  <2>1. CASE P!Reply(s) \/ P!Refused(s)
    BY <1>1, <2>1 DEF P!Reply, P!Refused
  <2>2. CASE P!LastTick(s)
    <3>1. send' \in {P!Stopped, [P!Stopped EXCEPT ![s].left = 0]}
      BY <2>2 DEF P!LastTick
    <3>2. CASE send' = [P!Stopped EXCEPT ![s].left = 0] /\ timer # s
      <4>1. P!Stopped[s] = send[s]
        BY <1>1, <3>2 DEF P!Stopped
      <4>2. [P!Stopped[s] EXCEPT !.left = 0] \in P!Handlers
        BY <1>1, <4>1, PlaygroundAssumption DEF P!Handlers
      <4>3. QED
        BY <1>5, <3>2, <4>2
    <3>3. QED
      BY <1>5, <3>1, <3>2, <2>2 DEF P!LastTick
  <2>3. QED
    BY <2>1, <2>2
<1>7. typing' \in BOOLEAN
  BY DEF P!Reply, P!LastTick, P!Refused
<1>8. P!PlaygroundTypeOK'
  BY <1>2, <1>3, <1>4, <1>6, <1>7 DEF ChatInv, P!PlaygroundTypeOK
<1>9. ASSUME ~torn PROVE Replying'
  <2>1. Replying /\ P!Running = {s}
    BY <1>9 DEF ChatInv, Replying
  <2>2. send[s].left >= 1 /\ (send[s].pc = "typing" => timer = s)
    BY <2>1 DEF Replying
  <2>3. \A u \in P!Messages \ {s} : send[u] = Idle
    BY <2>1 DEF P!Running
  <2>4. typing' = FALSE
    <3>1. send[s].left \in Nat
      BY <1>1 DEF P!Handlers
    <3>2. P!LastTick(s) => send[s].left # 0 /\ typing' = (typing /\ send[s].left = 0)
      BY <2>2, <3>1 DEF P!LastTick
    <3>3. P!Reply(s) \/ P!Refused(s) => typing' = FALSE
      BY DEF P!Reply, P!Refused
    <3>4. QED
      BY <3>2, <3>3
  <2>5. send'[s] = Idle /\ \A u \in P!Messages \ {s} : send'[u] = Idle
    BY <1>1, <2>2, <2>3 DEF P!Reply, P!LastTick, P!Refused, P!Stopped
  <2>6. P!Running' = {}
    BY <2>5 DEF P!Running
  <2>7. \A u \in P!Messages : answer'[u] # "part"
    BY <1>3, <2>1 DEF Replying
  <2>8. QED
    BY <2>4, <2>6, <2>7 DEF Replying
<1>10. QED
  BY <1>2, <1>8, <1>9 DEF ChatInv

\* The chat is cleared.
LEMMA ClearStep ==
  ASSUME ChatInv, P!ClearChat
  PROVE  ChatInv'
PROOF
<1>1. /\ send' = P!Stopped /\ asked' = {} /\ answer' = P!NoAnswer /\ typing' = FALSE
      /\ torn' = (torn \/ \E s \in P!Running : send[s].pc # "typing")
      /\ UNCHANGED <<key, stray, boot, fresh, token, stream, timer, sent>>
  BY DEF P!ClearChat
<1>2. send \in [P!Messages -> P!Handlers \cup {Idle}]
  BY DEF ChatInv, P!PlaygroundTypeOK
<1>3. P!PlaygroundTypeOK'
  <2>1. send' \in [P!Messages -> P!Handlers \cup {Idle}]
    BY <1>1, <1>2 DEF P!Stopped
  <2>2. answer' \in [P!Messages -> {"none", "part", "whole"}]
    BY <1>1 DEF P!NoAnswer
  <2>3. typing' \in BOOLEAN /\ torn' \in BOOLEAN
    BY <1>1
  <2>4. QED
    BY <1>1, <2>1, <2>2, <2>3 DEF ChatInv, P!PlaygroundTypeOK
<1>4. ASSUME ~torn' PROVE Replying'
  <2>1. Replying /\ \A s \in P!Running : send[s].pc = "typing" /\ timer = s
    BY <1>1, <1>4 DEF ChatInv, Replying
  <2>2. P!Running' = {}
    BY <1>1, <1>2, <2>1 DEF P!Running, P!Stopped
  <2>3. \A s \in P!Messages : answer'[s] # "part"
    BY <1>1 DEF P!NoAnswer
  <2>4. QED
    BY <1>1, <2>2, <2>3 DEF Replying
<1>5. QED
  BY <1>3, <1>4 DEF ChatInv

LEMMA ChatNext ==
  ASSUME ChatInv, P!PlaygroundNext
  PROVE  ChatInv'
PROOF
  BY BootStep, SendStep, HandlerGoesOn, HandlerEnds, ClearStep DEF P!PlaygroundNext, P!Goes

LEMMA ChatStep == ChatInv /\ [AppNext]_appVars => ChatInv'
PROOF
<1> SUFFICES ASSUME ChatInv, [AppNext]_appVars PROVE ChatInv'
  OBVIOUS
<1>1. ASSUME UNCHANGED playgroundPart PROVE ChatInv'
  BY <1>1, ChatSame DEF playgroundPart, ChatInv, P!PlaygroundTypeOK
<1>2. ASSUME NEW to \in {"playground", "settings", "usage", "elsewhere"}, Navigate(to) PROVE ChatInv'
  <2>1. P!Remount(to = "playground") \/ UNCHANGED playgroundPart
    BY <1>2 DEF Navigate
  <2>2. QED
    BY <1>1, <2>1, ChatRemount
<1>3. QED
  BY <1>1, <1>2, ChatNext DEF AppNext, appVars

\* The playground leaves no reply half typed, whatever is sent, cleared and mounted
\* anew, unless the chat was cleared under a reply still awaited
\* (Playground.tsx:100-176).
THEOREM RepliesAreWhole == AppSpec => []RepliesWhole
PROOF
<1>1. ChatInv => RepliesWhole
  BY DEF ChatInv, Replying, RepliesWhole, P!RepliesWhole
<1>2. QED
  BY <1>1, ChatInit, ChatStep, PTL DEF AppSpec

(***************************************************************************)
(* UiApp, the settings page.  What is wanted of a setting is with its last *)
(* write as long as that is on its way, and then in the table (Brought):   *)
(* so it is however many writes are on their way, as long as they are      *)
(* handled and answered in the order they were sent.  The rest of Calm is  *)
(* what the controls go by: where the slider was seized, and that a number *)
(* box nobody typed in shows what is wanted.                               *)
(***************************************************************************)

Setting == {c \in [S!Fields -> Values \cup SUBSET Ips] : S!IsStore(c)}
Requests ==
  {r \in [op : {"load", "save"}, no : Nat, field : S!Fields \cup {"none"},
          value : Values \cup (SUBSET Ips) \cup {Unset}, done : BOOLEAN, got : Setting \cup {Unset}] :
     /\ r.op = "save" => r.field \in S!Fields /\ r.value \in S!Of(r.field)
     /\ r.done => r.got \in Setting}

SettingsTypes ==
  /\ store \in Setting /\ (wanted # Unset => wanted \in Setting)
  /\ DOMAIN cfg = S!Fields /\ \A f \in S!Fields : cfg[f] \in S!Of(f) \cup {Unset}
  /\ writes \in Nat
  /\ hook \in Values \cup {Unset} /\ drag \in Values \cup {Unset}
  /\ drag # Unset => cfg["budget_threshold"] # Unset
  /\ typed \in [Numbers -> Values \cup {Unset}] /\ saving \in BOOLEAN
  /\ net \in Seq(Requests) /\ Len(net) <= MaxNet
  /\ orphans \subseteq Requests /\ \A r \in orphans : r.op = "save"

\* Which requests write a setting, and which is the last to.
Writes(i, f) == net[i].op = "save" /\ net[i].field = f
NoneAfter(i, f) == \A j \in DOMAIN net : j > i => ~Writes(j, f)
Unwritten(f) == \A j \in DOMAIN net : ~Writes(j, f)

\* The requests are handled as they were sent ...
InOrder == \A i, j \in DOMAIN net : i < j /\ net[j].done => net[i].done

\* ... the last write of a setting brings what is wanted, so does an answer that
\* came after it, and where there is none on its way the page shows it.
Brought(f) ==
  /\ (\A i \in DOMAIN net : Writes(i, f) => net[i].done) => store[f] = wanted[f]
  /\ \A i \in DOMAIN net : NoneAfter(i, f) =>
       /\ Writes(i, f) /\ ~net[i].done => net[i].value = wanted[f]
       /\ net[i].done => net[i].got[f] = wanted[f]
  /\ (f = "budget_threshold" => drag = Unset) /\ Unwritten(f) => cfg[f] \in {Unset, wanted[f]}

\* The slider was seized where it is wanted.
Seized == drag # Unset => drag = wanted["budget_threshold"] /\ Unwritten("budget_threshold")

Loaded == S!Present /\ net = <<>> => \A f \in S!Fields : cfg[f] # Unset

\* A number that was not typed is what it was, wherever it is.
Untouched(f) ==
  typed[f] = Unset =>
    /\ cfg[f] \in {Unset, wanted[f]} /\ store[f] = wanted[f]
    /\ \A i \in DOMAIN net : /\ Writes(i, f) => net[i].value = wanted[f]
                             /\ net[i].done => net[i].got[f] = wanted[f]

Calm ==
  /\ orphans = {} /\ InOrder /\ Seized /\ Loaded
  /\ \A f \in S!Fields : Brought(f)
  /\ \A f \in Numbers : Untouched(f)

SettingsInv == SettingsTypes /\ (wanted # Unset => Calm)

-----------------------------------------------------------------------------
(* What becomes of the requests. *)

LEMMA NetIs ==
  ASSUME SettingsTypes
  PROVE  Len(net) \in Nat /\ DOMAIN net = 1 .. Len(net) /\ \A i \in DOMAIN net : net[i] \in Requests
PROOF
<1>1. net \in Seq(Requests)
  BY DEF SettingsTypes
<1>2. QED
  BY <1>1, LenProperties, ElementOfSeq

\* One more is sent ...
LEMMA Sent ==
  ASSUME SettingsTypes, NEW r \in Requests, net' = Append(net, r)
  PROVE  /\ net' \in Seq(Requests) /\ Len(net') = Len(net) + 1 /\ DOMAIN net' = 1 .. Len(net) + 1
         /\ \A i \in DOMAIN net : net'[i] = net[i]
         /\ net'[Len(net) + 1] = r
PROOF
<1>1. net \in Seq(Requests)
  BY DEF SettingsTypes
<1>2. /\ net' \in Seq(Requests) /\ Len(net') = Len(net) + 1
      /\ \A i \in 1 .. Len(net) : net'[i] = net[i] /\ net'[Len(net) + 1] = r
  BY <1>1, AppendProperties
<1>3. net'[Len(net) + 1] = r
  BY <1>1, AppendProperties
<1>4. QED
  BY <1>1, <1>2, <1>3, LenProperties

\* ... or one comes to its end.
LEMMA Ended ==
  ASSUME SettingsTypes, NEW i \in DOMAIN net, net' = S!Without(i)
  PROVE  /\ net' \in Seq(Requests) /\ Len(net') = Len(net) - 1 /\ DOMAIN net' = 1 .. Len(net) - 1
         /\ \A j \in DOMAIN net' : net'[j] = net[IF j < i THEN j ELSE j + 1]
         /\ Len(net) = 1 => net' = <<>>
PROOF
<1>1. Len(net) \in Nat /\ DOMAIN net = 1 .. Len(net) /\ \A k \in DOMAIN net : net[k] \in Requests
  BY NetIs
<1>2. net' = [j \in 1 .. Len(net) - 1 |-> net[IF j < i THEN j ELSE j + 1]]
  BY DEF S!Without
<1>3. Len(net) - 1 \in Nat /\ \A j \in 1 .. Len(net) - 1 : (IF j < i THEN j ELSE j + 1) \in DOMAIN net
  BY <1>1
<1>4. net' \in [1 .. Len(net) - 1 -> Requests]
  BY <1>1, <1>2, <1>3
<1>5. net' \in Seq(Requests)
  BY <1>3, <1>4, SeqDef
<1>6. DOMAIN net' = 1 .. Len(net) - 1 /\ DOMAIN net' = 1 .. Len(net') /\ Len(net') \in Nat
  BY <1>4, <1>5, LenProperties
<1>7. Len(net') = Len(net) - 1
  BY <1>3, <1>6
<1>8. Len(net) = 1 => net' = <<>>
  BY <1>5, <1>7, EmptySeq
<1>9. QED
  BY <1>2, <1>5, <1>6, <1>7, <1>8

\* The requests there are.
LEMMA RequestShape ==
  ASSUME NEW r \in Requests
  PROVE  /\ r.op \in {"load", "save"} /\ r.done \in BOOLEAN
         /\ r.op = "save" => r.field \in S!Fields /\ r.value \in S!Of(r.field)
         /\ r.done => r.got \in Setting
PROOF
  BY DEF Requests

LEMMA GetIs == S!Get \in Requests /\ S!Get.op = "load" /\ ~S!Get.done
PROOF
<1> DEFINE r == [op |-> "load", no |-> 0, field |-> "none", value |-> Unset, done |-> FALSE, got |-> Unset]
<1>1. S!Get = r
  BY DEF S!Get, S!Request
<1>2. r \in [op : {"load", "save"}, no : Nat, field : S!Fields \cup {"none"},
            value : Values \cup (SUBSET Ips) \cup {Unset}, done : BOOLEAN, got : Setting \cup {Unset}]
  <2>1. "load" \in {"load", "save"} /\ 0 \in Nat /\ "none" \in S!Fields \cup {"none"}
    OBVIOUS
  <2>2. Unset \in Values \cup (SUBSET Ips) \cup {Unset} /\ Unset \in Setting \cup {Unset}
    OBVIOUS
  <2>3. FALSE \in BOOLEAN
    OBVIOUS
  <2>4. QED
    BY <2>1, <2>2, <2>3
<1>3. r.op = "load" /\ ~r.done
  OBVIOUS
<1> HIDE DEF r
<1>4. r \in Requests
  BY <1>2, <1>3 DEF Requests
<1>5. QED
  BY <1>1, <1>3, <1>4

LEMMA SaveIs ==
  ASSUME NEW n \in Nat, NEW f \in S!Fields, NEW v \in S!Of(f)
  PROVE  LET r == S!Request("save", n, f, v)
         IN  /\ r \in Requests /\ r.op = "save" /\ r.field = f /\ r.value = v /\ r.done = FALSE
PROOF
<1>1. v \in Values \cup SUBSET Ips
  BY DEF S!Of
<1>2. QED
  BY <1>1 DEF S!Request, Requests

LEMMA FieldNames ==
  /\ "budget_threshold" \in S!Fields /\ "ip_whitelist" \in S!Fields /\ "webhook_url" \in S!Fields
  /\ Switches \subseteq S!Fields /\ Numbers \subseteq S!Fields
  /\ \A f \in Switches : f \notin Numbers /\ f # "budget_threshold" /\ f # "ip_whitelist"
  /\ \A f \in Numbers : f # "budget_threshold" /\ f # "ip_whitelist" /\ f # "webhook_url"
  /\ S!Of("ip_whitelist") = SUBSET Ips
  /\ \A f : f # "ip_whitelist" => S!Of(f) = Values
  /\ \A f : Unset \notin S!Of(f)
PROOF
  BY SettingsAssumption DEF S!Fields, S!Of

\* A setting written into a whole.
LEMMA SettingWith ==
  ASSUME NEW c \in Setting, NEW f \in S!Fields, NEW v \in S!Of(f)
  PROVE  /\ [c EXCEPT ![f] = v] \in Setting /\ [c EXCEPT ![f] = v][f] = v
         /\ \A g \in S!Fields \ {f} : [c EXCEPT ![f] = v][g] = c[g]
PROOF
<1>1. v \in Values \cup SUBSET Ips
  BY DEF S!Of
<1>2. QED
  BY <1>1 DEF Setting, S!IsStore

LEMMA SettingsStart == AppInit => SettingsInv
PROOF
<1> SUFFICES ASSUME AppInit PROVE SettingsInv
  OBVIOUS
<1>1. S!SettingsInit /\ ~S!Present
  BY DEF AppInit, S!Present
<1>2. PICK ips \in SUBSET Ips :
        store = [f \in S!Fields |-> IF f = "ip_whitelist" THEN ips ELSE Default]
  BY <1>1 DEF S!SettingsInit
<1>3. store \in Setting
  BY <1>2, SettingsAssumption DEF Setting, S!IsStore, S!Of
<1>4. net \in Seq(Requests) /\ Len(net) = 0 /\ DOMAIN net = {}
  BY <1>1, EmptySeq DEF S!SettingsInit
<1>5. SettingsTypes
  <2>1. DOMAIN cfg = S!Fields /\ \A f \in S!Fields : cfg[f] = Unset
    BY <1>1 DEF S!SettingsInit, S!Unloaded
  <2>2. typed \in [Numbers -> Values \cup {Unset}]
    BY <1>1 DEF S!SettingsInit, S!Untyped
  <2>3. writes \in Nat /\ hook = Unset /\ drag = Unset /\ orphans = {} /\ wanted = store
    BY <1>1 DEF S!SettingsInit
  <2>4. saving \in BOOLEAN
    BY <1>1 DEF S!SettingsInit
  <2>5. Len(net) <= MaxNet
    BY <1>4, SettingsAssumption
  <2>6. QED
    BY <1>3, <1>4, <2>1, <2>2, <2>3, <2>4, <2>5 DEF SettingsTypes
<1>6. Calm
  <2>1. \A f \in S!Fields : cfg[f] = Unset
    BY <1>1 DEF S!SettingsInit, S!Unloaded
  <2>2. orphans = {} /\ wanted = store /\ drag = Unset
    BY <1>1 DEF S!SettingsInit
  <2>3. \A f \in S!Fields : Brought(f)
    BY <1>4, <2>1, <2>2 DEF Brought
  <2>4. \A f \in Numbers : Untouched(f)
    BY <1>4, <2>1, <2>2, FieldNames DEF Untouched
  <2>5. QED
    BY <1>1, <1>4, <2>2, <2>3, <2>4 DEF Calm, InOrder, Seized, Loaded
<1>7. QED
  BY <1>5, <1>6 DEF SettingsInv

\* What leaves the requests and what the page shows alone, and forgets no
\* text that was typed.
LEMMA SettingsSame ==
  ASSUME SettingsInv, SettingsTypes', UNCHANGED <<store, net, cfg, drag, orphans, wanted>>,
         S!Present' => S!Present, \A f \in Numbers : typed'[f] = Unset => typed[f] = Unset
  PROVE  SettingsInv'
PROOF
<1> SUFFICES ASSUME wanted' # Unset PROVE Calm'
  BY DEF SettingsInv
<1>1. Calm
  BY DEF SettingsInv
<1>2. \A f \in S!Fields : Brought(f)'
  BY <1>1 DEF Calm, Brought, Writes, NoneAfter, Unwritten
<1>3. \A f \in Numbers : Untouched(f)'
  BY <1>1 DEF Calm, Untouched, Writes
<1>4. InOrder' /\ Seized' /\ Loaded' /\ orphans' = {}
  BY <1>1 DEF Calm, InOrder, Seized, Loaded, Unwritten, Writes
<1>5. QED
  BY <1>2, <1>3, <1>4 DEF Calm

-----------------------------------------------------------------------------
(* The page writes and loads. *)

\* patch: a value is shown and sent.  A number that was not typed is sent as it was.
LEMMA PatchStep ==
  ASSUME SettingsInv, NEW f \in S!Fields, NEW v \in S!Of(f), S!Patch(f, v),
         wanted' # Unset => wanted # Unset /\ wanted' = [wanted EXCEPT ![f] = v],
         wanted' # Unset /\ f \in Numbers => typed[f] # Unset \/ v = wanted[f],
         drag' = IF f = "budget_threshold" THEN Unset ELSE drag,
         UNCHANGED <<page, store, hook, typed, orphans>>
  PROVE  SettingsInv'
PROOF
<1> DEFINE r == S!Request("save", writes', f, v)
<1>1. /\ SettingsTypes /\ writes' = writes + 1 /\ cfg' = [cfg EXCEPT ![f] = v] /\ saving' = TRUE
      /\ net' = Append(net, r) /\ Len(net) < MaxNet
  BY DEF SettingsInv, S!Patch
<1>2. writes' \in Nat
  BY <1>1 DEF SettingsTypes
<1>3. r \in Requests /\ r.op = "save" /\ r.field = f /\ r.value = v /\ ~r.done
  BY <1>2, SaveIs
<1> HIDE DEF r
<1>4. Len(net) \in Nat /\ DOMAIN net = 1 .. Len(net)
  BY <1>1, NetIs
<1>0. PICK n \in Nat : n = Len(net) + 1
  BY <1>4
<1>5. /\ net' \in Seq(Requests) /\ Len(net') = n /\ DOMAIN net' = 1 .. n
      /\ \A i \in DOMAIN net : net'[i] = net[i]
      /\ net'[n] = r
  BY <1>0, <1>1, <1>3, Sent
<1>6. /\ DOMAIN cfg' = S!Fields /\ cfg'[f] = v /\ \A g \in S!Fields \ {f} : cfg'[g] = cfg[g]
  BY <1>1 DEF SettingsTypes
<1>7. wanted' # Unset => /\ wanted \in Setting /\ wanted' \in Setting /\ wanted'[f] = v
                         /\ \A g \in S!Fields \ {f} : wanted'[g] = wanted[g]
  <2>1. wanted' # Unset => wanted \in Setting
    BY <1>1 DEF SettingsTypes
  <2>2. ASSUME NEW c \in Setting, wanted = c, wanted' # Unset
        PROVE  /\ wanted' \in Setting /\ wanted'[f] = v
               /\ \A g \in S!Fields \ {f} : wanted'[g] = c[g]
    <3>1. wanted' = [c EXCEPT ![f] = v]
      BY <2>2
    <3>2. /\ [c EXCEPT ![f] = v] \in Setting /\ [c EXCEPT ![f] = v][f] = v
          /\ \A g \in S!Fields \ {f} : [c EXCEPT ![f] = v][g] = c[g]
      BY SettingWith
    <3>3. QED
      BY <3>1, <3>2
  <2>3. QED
    BY <2>1, <2>2
<1>8. SettingsTypes'
  <2>1. saving' \in BOOLEAN
    BY <1>1
  <2>2. Len(net') <= MaxNet
    BY <1>0, <1>1, <1>4, <1>5, SettingsAssumption
  <2>3. \A g \in S!Fields : cfg'[g] \in S!Of(g) \cup {Unset}
    BY <1>1, <1>6 DEF SettingsTypes
  <2>4. drag' # Unset => cfg'["budget_threshold"] # Unset
    BY <1>1, <1>6, FieldNames DEF SettingsTypes
  <2>5. drag' \in Values \cup {Unset}
    BY <1>1 DEF SettingsTypes
  <2>6. QED
    BY <1>1, <1>2, <1>5, <1>6, <1>7, <2>1, <2>2, <2>3, <2>4, <2>5 DEF SettingsTypes
<1>9. ASSUME wanted' # Unset PROVE Calm'
  <2>1. Calm /\ wanted # Unset
    BY <1>9 DEF SettingsInv
  <2>2. \A i \in DOMAIN net, g \in S!Fields : Writes(i, g)' <=> Writes(i, g)
    BY <1>5 DEF Writes
  <2>3. \A g \in S!Fields : Writes(n, g)' <=> g = f
    BY <1>3, <1>5 DEF Writes
  <2>4. \A i \in DOMAIN net' : i \in DOMAIN net \/ i = n
    BY <1>0, <1>4, <1>5
  <2>5. DOMAIN net \subseteq DOMAIN net' /\ n \in DOMAIN net'
    BY <1>0, <1>4, <1>5
  <2>6. InOrder'
    BY <1>0, <1>3, <1>4, <1>5, <2>1, <2>4 DEF InOrder, Calm
  <2>7. Seized'
    BY <1>7, <1>9, <2>1, <2>2, <2>3, <2>4, FieldNames DEF Seized, Calm, Unwritten
  <2>8. Loaded'
    <3>1. net' # <<>>
      BY <2>5
    <3>2. QED
      BY <3>1 DEF Loaded
  <2>9. ASSUME NEW g \in S!Fields PROVE Brought(g)'
    <3>1. CASE g = f
      <4>1. ~Unwritten(g)' /\ Writes(n, g)' /\ ~net'[n].done
        BY <1>3, <1>5, <2>3, <2>5, <3>1 DEF Unwritten
      <4>2. \A i \in DOMAIN net' : NoneAfter(i, g)' => i = n
        BY <1>0, <1>4, <2>4, <2>5, <4>1 DEF NoneAfter
      <4>3. net'[n].value = wanted'[g]
        BY <1>3, <1>5, <1>7, <1>9, <3>1
      <4>4. QED
        BY <2>5, <4>1, <4>2, <4>3 DEF Brought
    <3>2. CASE g # f
      <4>1. Brought(g) /\ wanted'[g] = wanted[g] /\ cfg'[g] = cfg[g]
        BY <1>6, <1>7, <1>9, <2>1, <3>2 DEF Calm
      <4>2. ~Writes(n, g)' /\ ~net'[n].done
        BY <1>3, <1>5, <2>3, <3>2
      <4>3. (\A i \in DOMAIN net' : Writes(i, g)' => net'[i].done) => store'[g] = wanted'[g]
        BY <1>5, <2>2, <2>5, <4>1 DEF Brought
      <4>4. ASSUME NEW i \in DOMAIN net', NoneAfter(i, g)'
            PROVE  /\ Writes(i, g)' /\ ~net'[i].done => net'[i].value = wanted'[g]
                   /\ net'[i].done => net'[i].got[g] = wanted'[g]
        <5>1. CASE i \in DOMAIN net
          <6>1. NoneAfter(i, g)
            BY <2>2, <2>5, <4>4 DEF NoneAfter
          <6>2. QED
            BY <1>5, <2>2, <4>1, <5>1, <6>1 DEF Brought
        <5>2. QED
          BY <2>4, <4>2, <5>1
      <4>5. Unwritten(g)' => Unwritten(g)
        BY <2>2, <2>5 DEF Unwritten
      <4>6. (g = "budget_threshold" => drag' = Unset) => (g = "budget_threshold" => drag = Unset)
        BY <3>2
      <4>7. (g = "budget_threshold" => drag' = Unset) /\ Unwritten(g)' => cfg'[g] \in {Unset, wanted'[g]}
        BY <4>1, <4>5, <4>6 DEF Brought
      <4>8. QED
        BY <4>3, <4>4, <4>7 DEF Brought
    <3>3. QED
      BY <3>1, <3>2
  <2>10. ASSUME NEW g \in Numbers, typed'[g] = Unset
         PROVE  /\ cfg'[g] \in {Unset, wanted'[g]} /\ store'[g] = wanted'[g]
                /\ \A i \in DOMAIN net' : /\ Writes(i, g)' => net'[i].value = wanted'[g]
                                          /\ net'[i].done => net'[i].got[g] = wanted'[g]
    <3>1. Untouched(g) /\ typed[g] = Unset /\ g \in S!Fields
      BY <2>1, <2>10, FieldNames DEF Calm
    <3>2. wanted'[g] = wanted[g]
      BY <1>7, <1>9, <2>10, <3>1
    <3>3. cfg'[g] \in {Unset, wanted'[g]} /\ store'[g] = wanted'[g]
      BY <1>6, <1>7, <1>9, <3>1, <3>2 DEF Untouched
    <3>4. \A i \in DOMAIN net : /\ Writes(i, g)' => net'[i].value = wanted'[g]
                                /\ net'[i].done => net'[i].got[g] = wanted'[g]
      BY <1>5, <2>2, <3>1, <3>2 DEF Untouched
    <3>5. Writes(n, g)' => net'[n].value = wanted'[g]
      BY <1>3, <1>5, <1>7, <1>9, <2>3, <3>1
    <3>6. QED
      BY <1>3, <1>5, <2>4, <3>3, <3>4, <3>5
  <2>11. \A g \in Numbers : Untouched(g)'
    BY <2>10 DEF Untouched
  <2>12. orphans' = {}
    BY <2>1 DEF Calm
  <2>13. QED
    BY <2>6, <2>7, <2>8, <2>9, <2>11, <2>12 DEF Calm
<1>10. QED
  BY <1>8, <1>9 DEF SettingsInv

\* A control writes what the admin has set.
LEMMA ControlStep ==
  ASSUME SettingsInv, NEW f \in S!Fields, NEW v \in S!Of(f), S!Patch(f, v), S!Wants(f, v),
         drag' = IF f = "budget_threshold" THEN Unset ELSE drag,
         f \in Numbers => typed[f] # Unset, UNCHANGED <<page, store, hook, typed, orphans>>
  PROVE  SettingsInv'
PROOF
<1>1. wanted' # Unset => wanted # Unset /\ wanted' = [wanted EXCEPT ![f] = v]
  BY DEF S!Wants, S!WantsUnless
<1>2. QED
  BY <1>1, PatchStep

LEMMA SwitchStep ==
  ASSUME SettingsInv, NEW f \in Switches, NEW v \in Values, S!Switch(f, v)
  PROVE  SettingsInv'
PROOF
<1>1. f \in S!Fields /\ f \notin Numbers /\ f # "budget_threshold" /\ v \in S!Of(f)
  BY FieldNames
<1>2. /\ S!Patch(f, v) /\ S!Wants(f, v) /\ drag' = drag
      /\ UNCHANGED <<page, store, hook, typed, orphans>>
  BY DEF S!Switch
<1>3. QED
  BY <1>1, <1>2, ControlStep

LEMMA LeaveTypedStep ==
  ASSUME SettingsInv, NEW f \in Numbers, S!LeaveTyped(f)
  PROVE  SettingsInv'
PROOF
<1>1. /\ S!Patch(f, typed[f]) /\ S!Wants(f, typed[f]) /\ drag' = drag /\ typed[f] # Unset
      /\ UNCHANGED <<page, store, hook, typed, orphans>>
  BY DEF S!LeaveTyped
<1>2. f \in S!Fields /\ f # "budget_threshold" /\ typed[f] \in S!Of(f)
  <2>1. typed[f] \in Values
    BY <1>1 DEF SettingsInv, SettingsTypes
  <2>2. QED
    BY <2>1, FieldNames
<1>3. QED
  BY <1>1, <1>2, ControlStep

LEMMA SaveHookStep ==
  ASSUME SettingsInv, S!SaveHook
  PROVE  SettingsInv'
PROOF
<1>1. /\ S!Patch("webhook_url", hook) /\ S!Wants("webhook_url", hook) /\ drag' = drag
      /\ hook # Unset /\ UNCHANGED <<page, store, hook, typed, orphans>>
  BY DEF S!SaveHook
<1>2. hook \in S!Of("webhook_url")
  BY <1>1, FieldNames DEF SettingsInv, SettingsTypes
<1>3. "webhook_url" \notin Numbers
  BY FieldNames
<1>4. QED
  BY <1>1, <1>2, <1>3, FieldNames, ControlStep

\* The slider is let go.
LEMMA ReleaseStep ==
  ASSUME SettingsInv, S!Release
  PROVE  SettingsInv'
PROOF
<1> DEFINE b == "budget_threshold"
<1>1. /\ drag # Unset /\ drag' = Unset /\ UNCHANGED <<page, store, hook, typed, orphans>>
      /\ IF cfg[b] = drag THEN UNCHANGED <<writes, cfg, saving, net, wanted>>
                          ELSE S!Patch(b, cfg[b]) /\ S!Wants(b, cfg[b])
  BY DEF S!Release
<1>2. cfg[b] \in S!Of(b) /\ b \in S!Fields /\ b \notin Numbers
  BY <1>1, FieldNames DEF SettingsInv, SettingsTypes
<1>3. CASE cfg[b] # drag
  BY <1>1, <1>2, <1>3, ControlStep
<1>4. CASE cfg[b] = drag
  <2>1. UNCHANGED <<page, store, writes, cfg, hook, typed, saving, net, orphans, wanted>>
    BY <1>1, <1>4
  <2>2. SettingsTypes'
    BY <1>1, <2>1 DEF SettingsInv, SettingsTypes
  <2>3. ASSUME wanted' # Unset PROVE Calm'
    <3>1. Calm /\ drag = wanted[b]
      BY <1>1, <2>1, <2>3 DEF SettingsInv, Calm, Seized
    <3>2. \A f \in S!Fields : Brought(f)'
      BY <1>4, <2>1, <3>1 DEF Calm, Brought, Writes, NoneAfter, Unwritten
    <3>3. \A f \in Numbers : Untouched(f)'
      BY <2>1, <3>1 DEF Calm, Untouched, Writes
    <3>4. InOrder' /\ Seized' /\ Loaded' /\ orphans' = {}
      BY <1>1, <2>1, <3>1 DEF Calm, InOrder, Seized, Loaded, Unwritten, Writes, S!Present
    <3>5. QED
      BY <3>2, <3>3, <3>4 DEF Calm
  <2>4. QED
    BY <2>2, <2>3 DEF SettingsInv
<1>5. QED
  BY <1>3, <1>4

\* What was loaded and is not being written is shown as it is wanted.
LEMMA NotStale ==
  ASSUME SettingsInv, wanted # Unset, NEW f \in S!Fields, ~S!Stale(f),
         f = "budget_threshold" => drag = Unset
  PROVE  cfg[f] # Unset /\ cfg[f] = wanted[f] /\ Unwritten(f)
PROOF
<1>1. cfg[f] # Unset /\ Unwritten(f)
  BY DEF S!Stale, Unwritten, Writes
<1>2. Brought(f)
  BY DEF SettingsInv, Calm
<1>3. QED
  BY <1>1, <1>2 DEF Brought

\* The list is written as a whole.
LEMMA ListStep ==
  ASSUME SettingsInv, NEW ip \in Ips, S!AddIp(ip) \/ S!RemoveIp(ip)
  PROVE  SettingsInv'
PROOF
<1> DEFINE l == "ip_whitelist"
<1>1. l \in S!Fields /\ l \notin Numbers /\ l # "budget_threshold" /\ S!Of(l) = SUBSET Ips
  BY FieldNames
<1>2. S!Listed \in SUBSET Ips
  BY <1>1 DEF S!Listed, SettingsInv, SettingsTypes
<1>3. ASSUME NEW v \in SUBSET Ips, NEW w, S!Patch(l, v), S!WantsUnless(S!Stale(l), l, w),
             wanted # Unset /\ S!Listed = wanted[l] => v = w,
             drag' = drag, UNCHANGED <<page, store, hook, typed, orphans>>
      PROVE  SettingsInv'
  <2>1. wanted' # Unset => wanted # Unset /\ wanted' = [wanted EXCEPT ![l] = w] /\ ~S!Stale(l)
    BY <1>3 DEF S!WantsUnless
  <2>2. wanted' # Unset => S!Listed = wanted[l]
    BY <1>1, <2>1, NotStale DEF S!Listed
  <2>3. wanted' # Unset => wanted # Unset /\ wanted' = [wanted EXCEPT ![l] = v]
    BY <1>3, <2>1, <2>2
  <2>4. v \in S!Of(l)
    BY <1>1
  <2>5. QED
    BY <1>1, <1>3, <2>3, <2>4, PatchStep
<1>4. CASE S!AddIp(ip)
  <2>1. /\ S!Patch(l, S!Listed \cup {ip}) /\ S!WantsUnless(S!Stale(l), l, wanted[l] \cup {ip})
        /\ drag' = drag /\ UNCHANGED <<page, store, hook, typed, orphans>>
    BY <1>4 DEF S!AddIp
  <2>2. S!Listed \cup {ip} \in SUBSET Ips
    BY <1>2
  <2>3. QED
    BY <1>3, <2>1, <2>2
<1>5. CASE S!RemoveIp(ip)
  <2>1. /\ S!Patch(l, S!Listed \ {ip}) /\ S!WantsUnless(S!Stale(l), l, wanted[l] \ {ip})
        /\ drag' = drag /\ UNCHANGED <<page, store, hook, typed, orphans>>
    BY <1>5 DEF S!RemoveIp
  <2>2. S!Listed \ {ip} \in SUBSET Ips
    BY <1>2
  <2>3. QED
    BY <1>3, <2>1, <2>2
<1>6. QED
  BY <1>4, <1>5

\* A number box is left without a text of its own.
LEMMA LeaveUntouchedStep ==
  ASSUME SettingsInv, NEW f \in Numbers, S!LeaveUntouched(f)
  PROVE  SettingsInv'
PROOF
<1>1. /\ typed[f] = Unset /\ wanted' = (IF cfg[f] = Unset THEN Unset ELSE wanted) /\ drag' = drag
      /\ UNCHANGED <<page, store, hook, typed, orphans>>
  BY DEF S!LeaveUntouched
<1>2. PICK v \in S!Shown(f) : S!Patch(f, v)
  BY DEF S!LeaveUntouched
<1>3. f \in S!Fields /\ f # "budget_threshold" /\ f \notin {"ip_whitelist"} /\ S!Of(f) = Values
  BY FieldNames
<1>4. v \in S!Of(f)
  BY <1>2, <1>3 DEF S!Shown, SettingsInv, SettingsTypes
<1>5. ASSUME wanted' # Unset
      PROVE  wanted # Unset /\ v = wanted[f] /\ wanted' = [wanted EXCEPT ![f] = v]
  <2>1. wanted # Unset /\ wanted' = wanted /\ cfg[f] # Unset
    BY <1>1, <1>5
  <2>2. v = cfg[f] /\ Untouched(f)
    BY <1>2, <2>1 DEF S!Shown, SettingsInv, Calm
  <2>3. v = wanted[f]
    BY <1>1, <2>1, <2>2 DEF Untouched
  <2>4. [wanted EXCEPT ![f] = v] = wanted
    <3>1. wanted \in Setting
      BY <2>1 DEF SettingsInv, SettingsTypes
    <3>2. QED
      BY <2>3, <3>1 DEF Setting
  <2>5. QED
    BY <2>1, <2>3, <2>4
<1>6. QED
  BY <1>1, <1>2, <1>3, <1>4, <1>5, PatchStep

\* The slider is dragged.
LEMMA SlideStep ==
  ASSUME SettingsInv, NEW v \in Values, S!Slide(v)
  PROVE  SettingsInv'
PROOF
<1> DEFINE b == "budget_threshold"
<1>1. PICK old \in S!Shown(b) : v # old /\ drag' = IF drag = Unset THEN old ELSE drag
  BY DEF S!Slide
<1>2. /\ cfg' = [cfg EXCEPT ![b] = v]
      /\ wanted' = IF drag = Unset /\ S!Stale(b) THEN Unset ELSE wanted
      /\ UNCHANGED <<page, store, writes, hook, typed, saving, net, orphans>>
  BY DEF S!Slide
<1>3. b \in S!Fields /\ b \notin Numbers /\ S!Of(b) = Values /\ Unset \notin Values
  BY FieldNames, SettingsAssumption
<1>4. /\ DOMAIN cfg' = S!Fields /\ cfg'[b] = v /\ \A g \in S!Fields \ {b} : cfg'[g] = cfg[g]
  BY <1>2, <1>3 DEF SettingsInv, SettingsTypes
<1>5. drag' \in Values
  BY <1>1, <1>3 DEF S!Shown, SettingsInv, SettingsTypes
<1>6. SettingsTypes'
  <2>1. \A g \in S!Fields : cfg'[g] \in S!Of(g) \cup {Unset}
    BY <1>3, <1>4 DEF SettingsInv, SettingsTypes
  <2>2. cfg'[b] # Unset
    BY <1>3, <1>4
  <2>3. wanted' # Unset => wanted' \in Setting
    BY <1>2 DEF SettingsInv, SettingsTypes
  <2>4. QED
    BY <1>2, <1>4, <1>5, <2>1, <2>2, <2>3 DEF SettingsInv, SettingsTypes
<1>7. ASSUME wanted' # Unset PROVE Calm'
  <2>1. Calm /\ wanted' = wanted /\ (drag = Unset => ~S!Stale(b))
    BY <1>2, <1>7 DEF SettingsInv
  <2>2. drag' = wanted[b] /\ Unwritten(b)
    <3>1. CASE drag = Unset
      <4>1. cfg[b] # Unset /\ cfg[b] = wanted[b] /\ Unwritten(b)
        BY <1>3, <1>7, <2>1, <3>1, NotStale
      <4>2. QED
        BY <1>1, <3>1, <4>1 DEF S!Shown
    <3>2. CASE drag # Unset
      BY <1>1, <2>1, <3>2 DEF Calm, Seized
    <3>3. QED
      BY <3>1, <3>2
  <2>3. ASSUME NEW f \in S!Fields PROVE Brought(f)'
    <3>1. Brought(f)
      BY <2>1 DEF Calm
    <3>2. f = b => drag' # Unset
      BY <1>3, <1>5
    <3>3. f # b => cfg'[f] = cfg[f]
      BY <1>4
    <3>4. (f = b => drag' = Unset) /\ Unwritten(f)' => cfg'[f] \in {Unset, wanted'[f]}
      BY <1>2, <2>1, <3>1, <3>2, <3>3 DEF Brought, Unwritten, Writes
    <3>5. QED
      BY <1>2, <2>1, <3>1, <3>4 DEF Brought, Unwritten, Writes, NoneAfter
  <2>4. ASSUME NEW f \in Numbers PROVE Untouched(f)'
    <3>1. Untouched(f) /\ cfg'[f] = cfg[f]
      BY <1>3, <1>4, <2>1, FieldNames DEF Calm
    <3>2. QED
      BY <1>2, <2>1, <3>1 DEF Untouched, Writes
  <2>5. InOrder' /\ orphans' = {}
    BY <1>2, <2>1 DEF Calm, InOrder
  <2>6. Seized'
    BY <1>2, <2>1, <2>2 DEF Seized, Unwritten, Writes
  <2>7. Loaded'
    BY <1>2, <1>3, <1>4, <2>1 DEF Calm, Loaded, S!Present
  <2>8. QED
    BY <2>3, <2>4, <2>5, <2>6, <2>7 DEF Calm
<1>8. QED
  BY <1>6, <1>7 DEF SettingsInv

\* A text is typed.
LEMMA TypeNumberStep ==
  ASSUME SettingsInv, NEW f \in Numbers, NEW v \in Texts, S!TypeNumber(f, v)
  PROVE  SettingsInv'
PROOF
<1>1. v \in Values /\ v # Unset
  BY SettingsAssumption
<1>2. /\ UNCHANGED <<page, store, writes, cfg, hook, drag, saving, net, orphans, wanted>>
      /\ typed' = [typed EXCEPT ![f] = v]
  BY DEF S!TypeNumber
<1>3. SettingsTypes'
  BY <1>1, <1>2 DEF SettingsInv, SettingsTypes
<1>4. \A g \in Numbers : typed'[g] = Unset => typed[g] = Unset
  BY <1>1, <1>2 DEF SettingsInv, SettingsTypes
<1>5. QED
  BY <1>2, <1>3, <1>4, SettingsSame DEF S!Present

LEMMA TypeHookStep ==
  ASSUME SettingsInv, NEW v \in Texts, S!TypeHook(v)
  PROVE  SettingsInv'
PROOF
<1>1. UNCHANGED <<page, store, writes, cfg, drag, typed, saving, net, orphans, wanted>> /\ hook' = v
  BY DEF S!TypeHook
<1>2. SettingsTypes'
  BY <1>1, SettingsAssumption DEF SettingsInv, SettingsTypes
<1>3. QED
  BY <1>1, <1>2, SettingsSame DEF S!Present

\* One more load is sent.
LEMMA LoadStep ==
  ASSUME SettingsInv, S!Load
  PROVE  SettingsInv'
PROOF
<1>1. /\ SettingsTypes /\ net' = Append(net, S!Get) /\ Len(net) < MaxNet
      /\ UNCHANGED <<page, store, writes, cfg, hook, typed, drag, saving, orphans, wanted>>
  BY DEF SettingsInv, S!Load
<1>2. Len(net) \in Nat /\ DOMAIN net = 1 .. Len(net)
  BY <1>1, NetIs
<1>3. PICK n \in Nat : n = Len(net) + 1
  BY <1>2
<1>4. /\ net' \in Seq(Requests) /\ Len(net') = n /\ DOMAIN net' = 1 .. n
      /\ \A i \in DOMAIN net : net'[i] = net[i]
      /\ net'[n].op = "load" /\ ~net'[n].done
  BY <1>1, <1>3, GetIs, Sent
<1>5. SettingsTypes'
  <2>1. Len(net') <= MaxNet
    BY <1>1, <1>2, <1>3, <1>4, SettingsAssumption
  <2>2. QED
    BY <1>1, <1>4, <2>1 DEF SettingsTypes
<1>6. ASSUME wanted' # Unset PROVE Calm'
  <2>1. Calm
    BY <1>1, <1>6 DEF SettingsInv
  <2>2. \A i \in DOMAIN net, g \in S!Fields : Writes(i, g)' <=> Writes(i, g)
    BY <1>4 DEF Writes
  <2>3. \A g \in S!Fields : ~Writes(n, g)'
    BY <1>4 DEF Writes
  <2>4. \A i \in DOMAIN net' : i \in DOMAIN net \/ i = n
    BY <1>2, <1>3, <1>4
  <2>5. DOMAIN net \subseteq DOMAIN net' /\ n \in DOMAIN net'
    BY <1>2, <1>3, <1>4
  <2>6. InOrder'
    BY <1>2, <1>3, <1>4, <2>1, <2>4 DEF InOrder, Calm
  <2>7. \A g \in S!Fields : Unwritten(g)' <=> Unwritten(g)
    BY <2>2, <2>3, <2>4, <2>5 DEF Unwritten
  <2>8. Seized' /\ Loaded'
    <3>1. net' # <<>>
      BY <2>5
    <3>2. QED
      BY <1>1, <2>1, <2>7, <3>1, FieldNames DEF Seized, Loaded, Calm
  <2>9. ASSUME NEW g \in S!Fields PROVE Brought(g)'
    <3>1. Brought(g)
      BY <2>1 DEF Calm
    <3>2. (\A i \in DOMAIN net' : Writes(i, g)' => net'[i].done) => store'[g] = wanted'[g]
      BY <1>1, <1>4, <2>2, <2>5, <3>1 DEF Brought
    <3>3. ASSUME NEW i \in DOMAIN net', NoneAfter(i, g)'
          PROVE  /\ Writes(i, g)' /\ ~net'[i].done => net'[i].value = wanted'[g]
                 /\ net'[i].done => net'[i].got[g] = wanted'[g]
      <4>1. CASE i \in DOMAIN net
        <5>1. NoneAfter(i, g)
          BY <2>2, <2>5, <3>3 DEF NoneAfter
        <5>2. QED
          BY <1>1, <1>4, <2>2, <3>1, <4>1, <5>1 DEF Brought
      <4>2. QED
        BY <1>4, <2>3, <2>4, <4>1
    <3>4. (g = "budget_threshold" => drag' = Unset) /\ Unwritten(g)' => cfg'[g] \in {Unset, wanted'[g]}
      BY <1>1, <2>7, <3>1 DEF Brought
    <3>5. QED
      BY <3>2, <3>3, <3>4 DEF Brought
  <2>10. ASSUME NEW g \in Numbers, typed'[g] = Unset
         PROVE  /\ cfg'[g] \in {Unset, wanted'[g]} /\ store'[g] = wanted'[g]
                /\ \A i \in DOMAIN net' : /\ Writes(i, g)' => net'[i].value = wanted'[g]
                                          /\ net'[i].done => net'[i].got[g] = wanted'[g]
    <3>1. Untouched(g) /\ typed[g] = Unset /\ g \in S!Fields
      BY <1>1, <2>1, <2>10, FieldNames DEF Calm
    <3>2. cfg'[g] \in {Unset, wanted'[g]} /\ store'[g] = wanted'[g]
      BY <1>1, <3>1 DEF Untouched
    <3>3. \A i \in DOMAIN net : /\ Writes(i, g)' => net'[i].value = wanted'[g]
                                /\ net'[i].done => net'[i].got[g] = wanted'[g]
      BY <1>1, <1>4, <2>2, <3>1 DEF Untouched
    <3>4. QED
      BY <1>4, <2>3, <2>4, <3>1, <3>2, <3>3
  <2>11. \A g \in Numbers : Untouched(g)'
    BY <2>10 DEF Untouched
  <2>12. orphans' = {}
    BY <1>1, <2>1 DEF Calm
  <2>13. QED
    BY <2>6, <2>8, <2>9, <2>11, <2>12 DEF Calm
<1>7. QED
  BY <1>5, <1>6 DEF SettingsInv

-----------------------------------------------------------------------------
(* The server answers, and the page goes. *)

\* A request is handled: the first of those that are not.
LEMMA HandleStep ==
  ASSUME SettingsInv, NEW i \in DOMAIN net, S!Handle(i)
  PROVE  SettingsInv'
PROOF
<1> DEFINE r == [net[i] EXCEPT !.done = TRUE, !.got = store']
<1>1. /\ SettingsTypes /\ ~net[i].done /\ wanted' = (IF S!Crossed(i) THEN Unset ELSE wanted)
      /\ store' = IF net[i].op = "save" THEN [store EXCEPT ![net[i].field] = net[i].value] ELSE store
      /\ net' = [net EXCEPT ![i] = r]
      /\ UNCHANGED <<page, writes, cfg, hook, typed, drag, saving, orphans>>
  BY DEF SettingsInv, S!Handle
<1>2. Len(net) \in Nat /\ DOMAIN net = 1 .. Len(net) /\ \A k \in DOMAIN net : net[k] \in Requests
  BY <1>1, NetIs
<1>3. /\ net[i].op \in {"load", "save"} /\ store \in Setting
      /\ net[i].op = "save" => net[i].field \in S!Fields /\ net[i].value \in S!Of(net[i].field)
  BY <1>1, <1>2, RequestShape DEF SettingsTypes
<1>4. store' \in Setting
  BY <1>1, <1>3, SettingWith
<1>5. \A g \in S!Fields : store'[g] = IF Writes(i, g) THEN net[i].value ELSE store[g]
  BY <1>1, <1>3, SettingWith DEF Writes
<1>6. /\ r \in Requests /\ r.op = net[i].op /\ r.field = net[i].field /\ r.value = net[i].value
      /\ r.done /\ r.got = store'
  BY <1>2, <1>4 DEF Requests
<1> HIDE DEF r
<1>7. /\ DOMAIN net' = DOMAIN net /\ net'[i] = r
      /\ \A k \in DOMAIN net \ {i} : net'[k] = net[k]
  BY <1>1
<1>8. net' \in Seq(Requests) /\ Len(net') = Len(net)
  <2>1. net \in Seq(Requests)
    BY <1>1 DEF SettingsTypes
  <2>2. QED
    BY <1>1, <1>6, <2>1, ExceptSeq
<1>9. SettingsTypes'
  BY <1>1, <1>4, <1>8 DEF SettingsTypes
<1>10. ASSUME wanted' # Unset PROVE Calm'
  <2>1. Calm /\ wanted' = wanted /\ ~S!Crossed(i)
    BY <1>1, <1>10 DEF SettingsInv
  <2>2. \A k \in DOMAIN net : k < i => net[k].done
    <3>1. \A k \in DOMAIN net : net[k].done \in BOOLEAN
      BY <1>2, RequestShape
    <3>2. \A k \in 1 .. i - 1 : net[k].done # net[i].done
      BY <2>1 DEF S!Crossed
    <3>3. \A k \in DOMAIN net : k < i => k \in 1 .. i - 1
      BY <1>2
    <3>4. QED
      BY <1>1, <3>1, <3>2, <3>3
  <2>3. \A k \in DOMAIN net : k > i => ~net[k].done
    BY <1>1, <1>2, <2>1 DEF Calm, InOrder
  <2>4. \A k \in DOMAIN net, g \in S!Fields : Writes(k, g)' <=> Writes(k, g)
    BY <1>6, <1>7 DEF Writes
  <2>5. \A k \in DOMAIN net, g \in S!Fields : NoneAfter(k, g)' <=> NoneAfter(k, g)
    BY <1>7, <2>4 DEF NoneAfter
  <2>6. \A g \in S!Fields : Unwritten(g)' <=> Unwritten(g)
    BY <1>7, <2>4 DEF Unwritten
  <2>7. InOrder'
    BY <1>2, <1>6, <1>7, <2>1, <2>2, <2>3 DEF InOrder, Calm
  <2>8. Seized' /\ Loaded'
    <3>1. net' # <<>>
      BY <1>7
    <3>2. QED
      BY <1>1, <2>1, <2>6, <3>1, FieldNames DEF Seized, Loaded, Calm
  <2>9. ASSUME NEW g \in S!Fields, \A k \in DOMAIN net : k > i => ~Writes(k, g)
        PROVE  store'[g] = wanted[g]
    <3>1. Brought(g)
      BY <2>1 DEF Calm
    <3>2. CASE Writes(i, g)
      <4>1. NoneAfter(i, g)
        BY <2>9 DEF NoneAfter
      <4>2. net[i].value = wanted[g]
        BY <1>1, <3>1, <3>2, <4>1 DEF Brought
      <4>3. QED
        BY <1>5, <3>2, <4>2
    <3>3. CASE ~Writes(i, g)
      <4>1. \A k \in DOMAIN net : Writes(k, g) => net[k].done
        BY <1>2, <2>2, <2>9, <3>3
      <4>2. QED
        BY <1>5, <3>1, <3>3, <4>1 DEF Brought
    <3>4. QED
      BY <3>2, <3>3
  <2>10. ASSUME NEW g \in S!Fields PROVE Brought(g)'
    <3>1. Brought(g)
      BY <2>1 DEF Calm
    <3>2. (\A k \in DOMAIN net' : Writes(k, g)' => net'[k].done) => store'[g] = wanted'[g]
      BY <1>2, <1>7, <2>1, <2>3, <2>4, <2>9
    <3>3. ASSUME NEW k \in DOMAIN net, NoneAfter(k, g)
          PROVE  /\ Writes(k, g)' /\ ~net'[k].done => net'[k].value = wanted'[g]
                 /\ net'[k].done => net'[k].got[g] = wanted'[g]
      <4>1. CASE k # i
        BY <1>7, <2>1, <2>4, <3>1, <3>3, <4>1 DEF Brought
      <4>2. CASE k = i
        <5>1. store'[g] = wanted[g]
          BY <2>9, <3>3, <4>2 DEF NoneAfter
        <5>2. QED
          BY <1>6, <1>7, <2>1, <4>2, <5>1
      <4>3. QED
        BY <4>1, <4>2
    <3>4. (g = "budget_threshold" => drag' = Unset) /\ Unwritten(g)' => cfg'[g] \in {Unset, wanted'[g]}
      BY <1>1, <2>1, <2>6, <3>1 DEF Brought
    <3>5. QED
      BY <1>7, <2>5, <3>2, <3>3, <3>4 DEF Brought
  <2>11. ASSUME NEW g \in Numbers PROVE Untouched(g)'
    <3>1. Untouched(g) /\ g \in S!Fields
      BY <2>1, FieldNames DEF Calm
    <3>2. SUFFICES ASSUME typed[g] = Unset
                   PROVE  /\ cfg'[g] \in {Unset, wanted'[g]} /\ store'[g] = wanted'[g]
                          /\ \A k \in DOMAIN net' : /\ Writes(k, g)' => net'[k].value = wanted'[g]
                                                    /\ net'[k].done => net'[k].got[g] = wanted'[g]
      BY <1>1 DEF Untouched
    <3>3. store'[g] = wanted[g]
      BY <1>5, <3>1, <3>2 DEF Untouched
    <3>4. \A k \in DOMAIN net \ {i} : /\ Writes(k, g)' => net'[k].value = wanted'[g]
                                      /\ net'[k].done => net'[k].got[g] = wanted'[g]
      BY <1>7, <2>1, <2>4, <3>1, <3>2 DEF Untouched
    <3>5. Writes(i, g)' => net'[i].value = wanted'[g]
      BY <1>6, <1>7, <2>1, <2>4, <3>1, <3>2 DEF Untouched
    <3>6. net'[i].got[g] = wanted'[g]
      BY <1>6, <1>7, <2>1, <3>3
    <3>7. QED
      BY <1>1, <1>7, <2>1, <3>1, <3>2, <3>3, <3>4, <3>5, <3>6 DEF Untouched
  <2>12. orphans' = {}
    BY <1>1, <2>1 DEF Calm
  <2>13. QED
    BY <2>7, <2>8, <2>10, <2>11, <2>12 DEF Calm
<1>11. QED
  BY <1>9, <1>10 DEF SettingsInv

\* A request is answered: the first, or all is read anew.
LEMMA AnswerStep ==
  ASSUME SettingsInv, NEW i \in DOMAIN net, S!Answer(i)
  PROVE  SettingsInv'
PROOF
<1> DEFINE settled == /\ net[i].op = "load" /\ Len(net) = 1 /\ orphans = {} /\ net[i].got = store
                      /\ drag \in {Unset, store["budget_threshold"]}
           got == net[i].got
<1>1. /\ SettingsTypes /\ net[i].done /\ cfg' = got /\ net' = S!Without(i)
      /\ hook' = IF net[i].op = "load" THEN got["webhook_url"] ELSE hook
      /\ saving' = (saving /\ net[i].op # "save")
      /\ wanted' = IF settled THEN got ELSE IF i > 1 THEN Unset ELSE wanted
      /\ UNCHANGED <<page, store, writes, typed, drag, orphans>>
  BY DEF SettingsInv, S!Answer, S!Lowered
<1>2. Len(net) \in Nat /\ DOMAIN net = 1 .. Len(net) /\ \A k \in DOMAIN net : net[k] \in Requests
  BY <1>1, NetIs
<1>3. got \in Setting
  BY <1>1, <1>2, RequestShape
<1>4. \A g \in S!Fields : got[g] \in S!Of(g) /\ got[g] # Unset
  BY <1>3, FieldNames DEF Setting, S!IsStore
<1>5. /\ net' \in Seq(Requests) /\ Len(net') = Len(net) - 1 /\ DOMAIN net' = 1 .. Len(net) - 1
      /\ \A j \in DOMAIN net' : net'[j] = net[IF j < i THEN j ELSE j + 1]
      /\ Len(net) = 1 => net' = <<>>
  BY <1>1, Ended
<1>6. SettingsTypes'
  <2>1. DOMAIN cfg' = S!Fields /\ \A g \in S!Fields : cfg'[g] \in S!Of(g) \cup {Unset}
    BY <1>1, <1>3, <1>4 DEF Setting
  <2>2. hook' \in Values \cup {Unset}
    BY <1>1, <1>4, FieldNames DEF SettingsTypes
  <2>3. cfg'["budget_threshold"] # Unset
    BY <1>1, <1>4, FieldNames
  <2>4. saving' \in BOOLEAN
    BY <1>1
  <2>5. wanted' # Unset => wanted' \in Setting
    BY <1>1, <1>3 DEF SettingsTypes
  <2>6. Len(net') <= MaxNet
    BY <1>1, <1>2, <1>5, SettingsAssumption DEF SettingsTypes
  <2>7. QED
    BY <1>1, <1>5, <2>1, <2>2, <2>3, <2>4, <2>5, <2>6 DEF SettingsTypes
<1>7. Loaded'
  BY <1>1, <1>4 DEF Loaded
<1>8. CASE settled
  <2>1. /\ wanted' = store /\ cfg' = store /\ store' = store /\ orphans' = {} /\ DOMAIN net' = {}
        /\ drag' \in {Unset, store["budget_threshold"]}
    BY <1>1, <1>2, <1>5, <1>8
  <2>2. \A g \in S!Fields : Brought(g)'
    BY <2>1 DEF Brought
  <2>3. \A g \in Numbers : Untouched(g)'
    BY <2>1 DEF Untouched
  <2>4. InOrder' /\ Seized'
    BY <2>1 DEF InOrder, Seized, Unwritten
  <2>5. QED
    BY <1>6, <1>7, <2>1, <2>2, <2>3, <2>4 DEF SettingsInv, Calm
<1>9. ASSUME ~settled, wanted' # Unset PROVE Calm'
  <2>1. i = 1 /\ wanted' = wanted /\ Calm
    BY <1>1, <1>2, <1>9 DEF SettingsInv
  <2>2. \A j \in DOMAIN net' : j + 1 \in DOMAIN net /\ net'[j] = net[j + 1]
    BY <1>2, <1>5, <2>1
  <2>3. \A k \in DOMAIN net : k = 1 \/ (k - 1 \in DOMAIN net' /\ k = (k - 1) + 1)
    BY <1>2, <1>5
  <2>4. \A j \in DOMAIN net', g \in S!Fields : Writes(j, g)' <=> Writes(j + 1, g)
    BY <2>2 DEF Writes
  <2>5. InOrder'
    BY <1>5, <2>1, <2>2 DEF InOrder, Calm
  <2>6. \A j \in DOMAIN net', g \in S!Fields : NoneAfter(j, g)' => NoneAfter(j + 1, g)
    <3>1. SUFFICES ASSUME NEW j \in DOMAIN net', NEW g \in S!Fields, NoneAfter(j, g)',
                          NEW k \in DOMAIN net, k > j + 1
                   PROVE  ~Writes(k, g)
      BY DEF NoneAfter
    <3>2. k - 1 \in DOMAIN net' /\ k - 1 > j /\ k = (k - 1) + 1
      BY <1>2, <1>5, <2>3, <3>1
    <3>3. QED
      BY <2>4, <3>1, <3>2 DEF NoneAfter
  <2>7. Seized'
    BY <1>1, <2>1, <2>2, <2>4, FieldNames DEF Seized, Calm, Unwritten
  <2>8. ASSUME NEW g \in S!Fields PROVE Brought(g)'
    <3>1. Brought(g)
      BY <2>1 DEF Calm
    <3>2. ASSUME \A j \in DOMAIN net' : Writes(j, g)' => net'[j].done
          PROVE  store'[g] = wanted'[g]
      <4>1. \A k \in DOMAIN net : Writes(k, g) => net[k].done
        BY <1>1, <2>1, <2>2, <2>3, <2>4, <3>2
      <4>2. QED
        BY <1>1, <2>1, <3>1, <4>1 DEF Brought
    <3>3. ASSUME NEW j \in DOMAIN net', NoneAfter(j, g)'
          PROVE  /\ Writes(j, g)' /\ ~net'[j].done => net'[j].value = wanted'[g]
                 /\ net'[j].done => net'[j].got[g] = wanted'[g]
      <4>1. NoneAfter(j + 1, g) /\ j + 1 \in DOMAIN net /\ net'[j] = net[j + 1]
        BY <2>2, <2>6, <3>3
      <4>2. QED
        BY <2>1, <2>4, <3>1, <4>1 DEF Brought
    <3>4. ASSUME Unwritten(g)' PROVE cfg'[g] = wanted'[g]
      <4>1. NoneAfter(1, g)
        <5>1. SUFFICES ASSUME NEW k \in DOMAIN net, k > 1 PROVE ~Writes(k, g)
          BY DEF NoneAfter
        <5>2. k - 1 \in DOMAIN net' /\ k = (k - 1) + 1
          BY <1>2, <2>3, <5>1
        <5>3. QED
          BY <2>4, <3>4, <5>2 DEF Unwritten
      <4>2. QED
        BY <1>1, <2>1, <3>1, <4>1 DEF Brought
    <3>5. QED
      BY <3>2, <3>3, <3>4 DEF Brought
  <2>9. ASSUME NEW g \in Numbers, typed'[g] = Unset
        PROVE  /\ cfg'[g] \in {Unset, wanted'[g]} /\ store'[g] = wanted'[g]
               /\ \A j \in DOMAIN net' : /\ Writes(j, g)' => net'[j].value = wanted'[g]
                                         /\ net'[j].done => net'[j].got[g] = wanted'[g]
    <3>1. Untouched(g) /\ typed[g] = Unset /\ g \in S!Fields
      BY <1>1, <2>1, <2>9, FieldNames DEF Calm
    <3>2. cfg'[g] = wanted'[g] /\ store'[g] = wanted'[g]
      BY <1>1, <2>1, <3>1 DEF Untouched
    <3>3. \A k \in DOMAIN net : /\ Writes(k, g) => net[k].value = wanted[g]
                                /\ net[k].done => net[k].got[g] = wanted[g]
      BY <3>1 DEF Untouched
    <3>4. QED
      BY <2>1, <2>2, <2>4, <3>1, <3>2, <3>3
  <2>10. \A g \in Numbers : Untouched(g)'
    BY <2>9 DEF Untouched
  <2>11. orphans' = {}
    BY <1>1, <2>1 DEF Calm
  <2>12. QED
    BY <1>7, <2>5, <2>7, <2>8, <2>10, <2>11 DEF Calm
<1>10. QED
  BY <1>6, <1>8, <1>9 DEF SettingsInv

\* A request fails, or a write of a mount now gone comes to its end.
LEMMA MuddledStep ==
  ASSUME SettingsInv, (\E i \in DOMAIN net : S!Fail(i)) \/ (\E r \in orphans : S!Orphaned(r))
  PROVE  SettingsInv'
PROOF
<1>1. SettingsTypes
  BY DEF SettingsInv
<1>2. ASSUME NEW i \in DOMAIN net, S!Fail(i) PROVE SettingsInv'
  <2>1. /\ net' = S!Without(i) /\ wanted' = Unset /\ saving' = (saving /\ net[i].op # "save")
        /\ UNCHANGED <<page, store, writes, cfg, hook, typed, drag, orphans>>
    BY <1>2 DEF S!Fail, S!Lowered
  <2>2. net' \in Seq(Requests) /\ Len(net') = Len(net) - 1 /\ Len(net) \in Nat
    BY <1>1, <2>1, Ended, NetIs
  <2>3. Len(net') <= MaxNet /\ saving' \in BOOLEAN
    BY <1>1, <2>1, <2>2, SettingsAssumption DEF SettingsTypes
  <2>4. QED
    BY <1>1, <2>1, <2>2, <2>3 DEF SettingsInv, SettingsTypes
<1>3. ASSUME NEW r \in orphans, S!Orphaned(r) PROVE SettingsInv'
  <2>1. /\ orphans' = orphans \ {r} /\ store' \in {store, [store EXCEPT ![r.field] = r.value]}
        /\ UNCHANGED <<page, writes, cfg, hook, typed, drag, saving, net, wanted>>
    BY <1>3 DEF S!Orphaned
  <2>2. r \in Requests /\ r.op = "save" /\ store \in Setting
    BY <1>1 DEF SettingsTypes
  <2>3. store' \in Setting
    BY <2>1, <2>2, RequestShape, SettingWith
  <2>4. wanted' = Unset
    BY <2>1 DEF SettingsInv, Calm
  <2>5. QED
    BY <1>1, <2>1, <2>3, <2>4 DEF SettingsInv, SettingsTypes
<1>4. QED
  BY <1>2, <1>3

\* The page goes, or comes.
LEMMA SettingsRemount ==
  ASSUME SettingsInv, S!Remount(page' = "settings")
  PROVE  SettingsInv'
PROOF
<1> DEFINE left == {net[i] : i \in {j \in DOMAIN net : net[j].op = "save" /\ ~net[j].done}}
<1>1. /\ SettingsTypes /\ orphans' = orphans \cup left /\ UNCHANGED <<store, writes>>
      /\ net' = (IF page' = "settings" THEN <<S!Get>> ELSE <<>>)
      /\ wanted' = IF orphans' # {} THEN Unset ELSE wanted
      /\ cfg' = S!Unloaded /\ hook' = Unset /\ drag' = Unset /\ typed' = S!Untyped /\ saving' = FALSE
  BY DEF SettingsInv, S!Remount
<1>2. left \subseteq Requests /\ \A r \in left : r.op = "save"
  BY <1>1, NetIs
<1>3. /\ net' \in Seq(Requests) /\ Len(net') <= 1
      /\ \A i \in DOMAIN net' : net'[i].op = "load" /\ ~net'[i].done
      /\ net' = <<>> \/ page' = "settings"
  <2>1. CASE page' = "settings"
    <3>1. net' = <<S!Get>>
      BY <1>1, <2>1
    <3>2. net' \in Seq(Requests) /\ Len(net') = 1 /\ DOMAIN net' = {1} /\ net'[1] = S!Get
      BY <3>1, GetIs
    <3>3. QED
      BY <2>1, <3>2, GetIs
  <2>2. CASE page' # "settings"
    BY <1>1, <2>2, EmptySeq
  <2>3. QED
    BY <2>1, <2>2
<1>4. DOMAIN cfg' = S!Fields /\ \A f \in S!Fields : cfg'[f] = Unset
  BY <1>1 DEF S!Unloaded
<1>5. SettingsTypes'
  <2>1. Len(net') <= MaxNet
    BY <1>3, SettingsAssumption
  <2>2. typed' \in [Numbers -> Values \cup {Unset}] /\ saving' \in BOOLEAN
    BY <1>1 DEF S!Untyped
  <2>3. orphans' \subseteq Requests /\ \A r \in orphans' : r.op = "save"
    BY <1>1, <1>2 DEF SettingsTypes
  <2>4. QED
    BY <1>1, <1>3, <1>4, <2>1, <2>2, <2>3 DEF SettingsTypes
<1>6. ASSUME wanted' # Unset PROVE Calm'
  <2>1. orphans' = {} /\ wanted' = wanted /\ Calm
    BY <1>1, <1>6 DEF SettingsInv
  <2>2. \A i \in DOMAIN net : net[i].op = "save" => net[i].done
    BY <1>1, <2>1
  <2>3. \A g \in S!Fields : store'[g] = wanted'[g]
    BY <1>1, <2>1, <2>2 DEF Calm, Brought, Writes
  <2>4. \A g \in S!Fields : Brought(g)'
    BY <1>3, <1>4, <2>3 DEF Brought, Writes
  <2>5. \A g \in Numbers : Untouched(g)'
    BY <1>3, <1>4, <2>3, FieldNames DEF Untouched, Writes
  <2>6. InOrder' /\ Seized'
    BY <1>1, <1>3 DEF InOrder, Seized
  <2>7. Loaded'
    <3>1. S!Present' => net' # <<>>
      BY <1>1 DEF S!Present
    <3>2. QED
      BY <3>1 DEF Loaded
  <2>8. QED
    BY <2>1, <2>4, <2>5, <2>6, <2>7 DEF Calm
<1>7. QED
  BY <1>5, <1>6 DEF SettingsInv

-----------------------------------------------------------------------------
LEMMA SettingsStep == SettingsInv /\ [AppNext]_appVars => SettingsInv'
PROOF
<1> SUFFICES ASSUME SettingsInv, [AppNext]_appVars PROVE SettingsInv'
  OBVIOUS
<1>1. ASSUME UNCHANGED settingsPart, S!Present' => S!Present PROVE SettingsInv'
  <2>1. SettingsTypes'
    BY <1>1 DEF settingsPart, SettingsInv, SettingsTypes
  <2>2. QED
    BY <1>1, <2>1, SettingsSame DEF settingsPart
<1>2. ASSUME NEW to \in {"playground", "settings", "usage", "elsewhere"}, Navigate(to) PROVE SettingsInv'
  <2>1. page' = to
    BY <1>2 DEF Navigate
  <2>2. CASE "settings" \in {page, to}
    <3>1. S!Remount(page' = "settings")
      BY <1>2, <2>1, <2>2 DEF Navigate
    <3>2. QED
      BY <3>1, SettingsRemount
  <2>3. CASE "settings" \notin {page, to}
    <3>1. UNCHANGED settingsPart /\ ~S!Present'
      BY <1>2, <2>1, <2>3 DEF Navigate, S!Present
    <3>2. QED
      BY <1>1, <3>1
  <2>4. QED
    BY <2>2, <2>3
<1>3. ASSUME S!SettingsNext PROVE SettingsInv'
  BY <1>3, LoadStep, SwitchStep, ListStep, LeaveTypedStep, LeaveUntouchedStep, TypeNumberStep,
     ReleaseStep, SaveHookStep, SlideStep, TypeHookStep, HandleStep, AnswerStep, MuddledStep
     DEF S!SettingsNext
<1>4. ASSUME P!PlaygroundNext, UNCHANGED settingsPart PROVE page' = page
  BY <1>4 DEF P!PlaygroundNext, P!Listed, P!RotateKey, P!Rotated, P!BootFails, P!ToggleStream,
     P!Send, P!Goes, P!Accept, P!StartTyping, P!Tick, P!Reply, P!LastTick, P!Refused, P!ClearChat
<1>5. ASSUME U!UsageNext PROVE page' = page
  BY <1>5 DEF U!UsageNext, U!Select, U!Loaded, U!LoadFails, U!RunEffects, U!IntervalFires, U!LoadNow
<1>6. QED
  BY <1>1, <1>2, <1>3, <1>4, <1>5 DEF AppNext, appVars, S!Present

\* What was set on the settings page is what the server has and the page shows once
\* nothing is on its way, unless requests crossed or failed: each control writes
\* at once and each answer brings the whole back (Settings.tsx:29-59,
\* routes.js:161-189).
THEOREM SavesStick == AppSpec => []CalmSavesStick
PROOF
<1>1. ASSUME SettingsInv PROVE CalmSavesStick
  <2>1. SettingsTypes
    BY <1>1 DEF SettingsInv
  <2>2. S!SettingsTypeOK
    BY <2>1 DEF SettingsTypes, S!SettingsTypeOK, Setting
  <2>3. ASSUME S!Present, wanted # Unset, net = <<>>
        PROVE  /\ store = wanted
               /\ \A f \in S!Fields : f # "budget_threshold" \/ drag = Unset => cfg[f] = store[f]
    <3>1. Calm /\ DOMAIN net = {}
      BY <1>1, <2>3 DEF SettingsInv
    <3>2. \A f \in S!Fields : store[f] = wanted[f]
      BY <3>1 DEF Calm, Brought
    <3>3. store = wanted
      BY <2>1, <2>3, <3>2 DEF SettingsTypes, Setting
    <3>4. ASSUME NEW f \in S!Fields, f # "budget_threshold" \/ drag = Unset PROVE cfg[f] = store[f]
      BY <2>3, <3>1, <3>2, <3>4 DEF Calm, Loaded, Brought, Unwritten
    <3>5. QED
      BY <3>3, <3>4
  <2>4. QED
    BY <2>2, <2>3 DEF CalmSavesStick, S!CalmSavesStick
<1>2. QED
  BY <1>1, SettingsStart, SettingsStep, PTL DEF AppSpec
=============================================================================
