------------------------- MODULE ConfigStoreProofs -------------------------
(***************************************************************************)
(* Proofs about ConfigStore, for any administrators, upstreams, devices,   *)
(* secrets and limits: the live configuration is always a valid one, and   *)
(* while no two handlers apply at the same time acknowledged edits stick   *)
(* and rotated tokens stay dead.                                           *)
(***************************************************************************)
EXTENDS ConfigStore, Integers, FiniteSetTheorems, TLAPS

Values == Keys \cup {Empty, Absent, Stars}
Tokens == Clients \cup {Stars}
KeyMaps == [Ups -> Secret(Values)]
TokMaps == [Devs -> Secret(Nat)]
Offs == SUBSET (Ups \cup Devs)
Admin == [pc : {"idle", "viewing", "resolve", "save", "swap", "sync"}, next : Config, dies : Nat]

\* A configuration with n tokens issued; only long keys are ever masked.
KeysOK(c) == \A u \in Ups : c.key[u].masked => c.key[u].is \in Keys \ Short
ToksOK(c, n) == \A d \in Devs : c.tok[d].is <= n
Good(c, n) == c \in Config /\ KeysOK(c) /\ ToksOK(c, n)

Types ==
  /\ Good(live, serial) /\ Good(disk, serial) /\ want \in Config /\ limits \in Limits
  /\ admin \in [Admins -> Admin]
  /\ \A a \in Admins : Good(admin[a].next, serial) /\ admin[a].dies <= serial
  /\ serial \in Nat /\ dead \subseteq 1 .. serial /\ overlap \in BOOLEAN
  /\ edits \in 0 .. MaxEdits /\ faults \in 0 .. MaxFaults /\ restarts \in 0 .. MaxRestarts

USE ConfigAssumption

-----------------------------------------------------------------------------
LEMMA Distinct == Empty # Absent /\ Empty # Stars /\ Absent # Stars
<1>1. \A x : IsFiniteSet({x}) /\ Cardinality({x}) = 1
  BY FS_Singleton
<1>2. \A x, y : Cardinality({x, y}) <= 2
  <2> TAKE x, y
  <2>1. /\ Cardinality({x} \cup {y}) =
             IF y \in {x} THEN Cardinality({x}) ELSE Cardinality({x}) + 1
    BY <1>1, FS_AddElement
  <2>2. {x} \cup {y} = {x, y}
    OBVIOUS
  <2>3. Cardinality({x}) = 1
    BY <1>1
  <2>4. Cardinality({x, y}) = IF y \in {x} THEN 1 ELSE 1 + 1
    BY <2>1, <2>2, <2>3
  <2> QED BY <2>4
<1>3. ASSUME NEW x, NEW y, {Empty, Absent, Stars} = {x, y} PROVE FALSE
  <2>1. Cardinality({x, y}) = 3
    BY <1>3
  <2>2. Cardinality({x, y}) <= 2
    BY <1>2
  <2> QED BY <2>1, <2>2
<1>4. Empty = Absent => {Empty, Absent, Stars} = {Empty, Stars}
  OBVIOUS
<1>5. Empty = Stars => {Empty, Absent, Stars} = {Empty, Absent}
  OBVIOUS
<1>6. Absent = Stars => {Empty, Absent, Stars} = {Empty, Absent}
  OBVIOUS
<1> QED BY <1>3, <1>4, <1>5, <1>6

LEMMA Secrets ==
  /\ \A k \in Values : Plain(k) \in Secret(Values) /\ Plain(k).is = k /\ ~Plain(k).masked
  /\ \A n \in Nat : Plain(n) \in Secret(Nat) /\ Plain(n).is = n /\ ~Plain(n).masked
  /\ NoKey \in Secret(Values) /\ NoTok \in Secret(Nat) /\ NoTok.is = 0
  /\ ~NoKey.masked /\ ~NoTok.masked /\ NoKey.is = Absent
  /\ Plain(Empty) # NoKey
BY Distinct DEF Plain, Secret, Values, NoKey, NoTok

LEMMA MaskOfKey ==
  ASSUME NEW x \in Secret(Values), x.masked => x.is \in Keys \ Short
  PROVE  /\ Mask(x) \in Secret(Values)
         /\ Mask(x).masked => Mask(x).is \in Keys \ Short
         /\ Mask(x) = Plain(Empty) => x = Plain(Empty)
BY Distinct DEF Mask, Secret, Values, Plain

LEMMA MaskOfClient ==
  ASSUME NEW x \in Secret(Tokens)
  PROVE  Mask(x) \in Secret(Tokens)
BY DEF Mask, Secret, Plain, Tokens

\* The fields of a configuration, and the changes the handlers make to them.
LEMMA Fields ==
  ASSUME NEW c \in Config
  PROVE  /\ c.key \in KeyMaps /\ c.off \in Offs /\ c.tok \in TokMaps
         /\ c.clients \in SUBSET Secret(Tokens) /\ c.rpm \in Limits /\ c.idle \in BOOLEAN
         /\ \A u \in Ups : c.key[u] \in Secret(Values)
         /\ \A d \in Devs : c.tok[d] \in Secret(Nat)
BY DEF Config, KeyMaps, Offs, TokMaps, Values, Tokens

LEMMA Made ==
  ASSUME NEW K \in KeyMaps, NEW O \in Offs, NEW T \in TokMaps,
         NEW C \in SUBSET Secret(Tokens), NEW r \in Limits, NEW i, i \in BOOLEAN,
         NEW n, n = [key |-> K, off |-> O, tok |-> T, clients |-> C, rpm |-> r, idle |-> i]
  PROVE  n \in Config /\ n.key = K /\ n.tok = T /\ n.off = O
BY DEF Config, KeyMaps, TokMaps, Offs, Values, Tokens

WithKeys(c, K, O) == [c EXCEPT !.key = K, !.off = O]
WithToks(c, T, O) == [c EXCEPT !.tok = T, !.off = O]
WithRest(c, C, r, i) == [c EXCEPT !.clients = C, !.rpm = r, !.idle = i]

LEMMA NewKeys ==
  ASSUME NEW c \in Config, NEW K \in KeyMaps, NEW O \in Offs, NEW n, n = WithKeys(c, K, O)
  PROVE  n \in Config /\ n.key = K /\ n.off = O /\ n.tok = c.tok
BY DEF Config, KeyMaps, Offs, Values, WithKeys

LEMMA NewToks ==
  ASSUME NEW c \in Config, NEW T \in TokMaps, NEW O \in Offs, NEW n, n = WithToks(c, T, O)
  PROVE  n \in Config /\ n.tok = T /\ n.off = O /\ n.key = c.key
BY DEF Config, TokMaps, Offs, Values, WithToks

LEMMA NewRest ==
  ASSUME NEW c \in Config, NEW C \in SUBSET Secret(Tokens), NEW r \in Limits, NEW i \in BOOLEAN,
         NEW n, n = WithRest(c, C, r, i)
  PROVE  n \in Config /\ n.tok = c.tok /\ n.off = c.off /\ n.key = c.key /\ n.rpm = r
BY DEF Config, WithRest, Tokens

-----------------------------------------------------------------------------
\* What the edits of a configuration c keep: tokens only go, and a key that becomes
\* masked leaves no enabled upstream without one.
Keeps(c, next, n) ==
  /\ Good(next, n)
  /\ \A d \in Devs : next.tok[d] \in {c.tok[d], NoTok}
  /\ \A u \in Ups : next.key[u].masked /\ c.key[u] = Plain(Empty) /\ u \in c.off => u \in next.off

\* An edit of keys and disabled entries alone.
LEMMA KeysKeep ==
  ASSUME NEW c, NEW n \in Nat, Good(c, n), NEW K \in KeyMaps, NEW O \in Offs,
         \A u \in Ups : K[u].masked => K[u].is \in Keys \ Short,
         \A u \in Ups : K[u].masked /\ c.key[u] = Plain(Empty) /\ u \in c.off => u \in O
  PROVE  Keeps(c, WithKeys(c, K, O), n)
<1> SUFFICES ASSUME NEW next, next = WithKeys(c, K, O)
             PROVE  Keeps(c, next, n)
  OBVIOUS
<1>0. c \in Config
  BY DEF Good
<1>1. next \in Config /\ next.key = K /\ next.off = O /\ next.tok = c.tok
  BY <1>0, NewKeys
<1> QED BY <1>1 DEF Keeps, Good, KeysOK, ToksOK

LEMMA ToggleKeeps ==
  ASSUME NEW c, NEW n \in Nat, Good(c, n), NEW x \in Ups \cup Devs
  PROVE  Keeps(c, Toggle(c, x), n)
<1> DEFINE O == (c.off \ {x}) \cup ({x} \ c.off)
<1>1. c \in Config /\ c.off \in Offs /\ c.key \in KeyMaps
  BY Fields DEF Good
<1>2. O \in Offs
  BY <1>1 DEF Offs
<1>3. Toggle(c, x) = WithKeys(c, c.key, O)
  BY <1>1 DEF Toggle, Config, WithKeys
<1>4. \A u \in Ups : ~(c.key[u].masked /\ c.key[u] = Plain(Empty))
  BY DEF Plain
<1> HIDE DEF O
<1>5. Keeps(c, WithKeys(c, c.key, O), n)
  BY <1>1, <1>2, <1>4, KeysKeep DEF Good, KeysOK
<1> QED BY <1>3, <1>5

LEMMA DropUpstreamKeeps ==
  ASSUME NEW c, NEW n \in Nat, Good(c, n), NEW x \in Ups
  PROVE  Keeps(c, DropUpstream(c, x), n)
<1> DEFINE K == [c.key EXCEPT ![x] = NoKey]
           O == c.off \ {x}
<1>1. c \in Config /\ c.off \in Offs /\ c.key \in KeyMaps
  BY Fields DEF Good
<1>2. O \in Offs /\ K \in KeyMaps
  BY <1>1, Secrets DEF Offs, KeyMaps
<1>3. DropUpstream(c, x) = WithKeys(c, K, O)
  BY DEF DropUpstream, WithKeys
<1>4. \A u \in Ups : K[u].masked => K[u] = c.key[u] /\ u # x
  BY <1>1, Secrets DEF KeyMaps
<1>5. \A u \in Ups : ~(c.key[u].masked /\ c.key[u] = Plain(Empty))
  BY DEF Plain
<1> HIDE DEF O, K
<1>6. Keeps(c, WithKeys(c, K, O), n)
  BY <1>2, <1>4, <1>5, KeysKeep DEF Good, KeysOK
<1> QED BY <1>3, <1>6

LEMMA DropDeviceKeeps ==
  ASSUME NEW c, NEW n \in Nat, Good(c, n), NEW x \in Devs
  PROVE  Keeps(c, DropDevice(c, x), n)
<1> DEFINE T == [c.tok EXCEPT ![x] = NoTok]
           O == c.off \ {x}
<1> SUFFICES ASSUME NEW next, next = WithToks(c, T, O)
             PROVE  Keeps(c, next, n)
  BY DEF DropDevice, WithToks
<1>1. c \in Config /\ c.off \in Offs /\ c.tok \in TokMaps
  BY Fields DEF Good
<1>2. O \in Offs /\ T \in TokMaps
  BY <1>1, Secrets DEF Offs, TokMaps
<1>4. \A d \in Devs : T[d] = IF d = x THEN NoTok ELSE c.tok[d]
  BY <1>1 DEF TokMaps
<1> HIDE DEF O, T
<1>5. next \in Config /\ next.tok = T /\ next.off = O /\ next.key = c.key
  BY <1>1, <1>2, NewToks
<1>6. \A u \in Ups : ~(c.key[u].masked /\ c.key[u] = Plain(Empty))
  BY DEF Plain
<1> QED BY <1>4, <1>5, <1>6, Secrets DEF Keeps, Good, KeysOK, ToksOK

LEMMA RenameKeeps ==
  ASSUME NEW c, NEW n \in Nat, Good(c, n), NEW next \in Rename(c)
  PROVE  Keeps(c, next, n)
<1>1. PICK u \in Named(c), v \in Ups \ Named(c) : next = Renamed(c, u, v)
  BY DEF Rename
<1> DEFINE K == [c.key EXCEPT ![u] = NoKey, ![v] = c.key[u]]
           O == IF u \in c.off THEN (c.off \ {u}) \cup {v} ELSE c.off
<1>2. c \in Config /\ c.off \in Offs /\ c.key \in KeyMaps /\ u \in Ups /\ v \in Ups
      /\ c.key[v] = NoKey /\ c.key[u] \in Secret(Values) /\ u # v
  BY Fields DEF Good, Named, KeyMaps
<1>3. O \in Offs /\ K \in KeyMaps
  BY <1>2, Secrets DEF Offs, KeyMaps
<1>4. next = WithKeys(c, K, O)
  BY <1>1 DEF Renamed, WithKeys
<1>5. K[u] = NoKey /\ K[v] = c.key[u] /\ \A x \in Ups \ {u, v} : K[x] = c.key[x]
  BY <1>2 DEF KeyMaps
<1>6. \A x \in Ups : K[x].masked => K[x].is \in Keys \ Short
  BY <1>2, <1>5, Secrets DEF Good, KeysOK
<1>7. \A x \in Ups : K[x].masked => c.key[x] # Plain(Empty)
  BY <1>2, <1>5, Secrets DEF Plain
<1> HIDE DEF O, K
<1>8. Keeps(c, WithKeys(c, K, O), n)
  BY <1>3, <1>6, <1>7, KeysKeep
<1> QED BY <1>4, <1>8

LEMMA AddKeeps ==
  ASSUME NEW c, NEW n \in Nat, Good(c, n), NEW next \in AddUpstream(c)
  PROVE  Keeps(c, next, n)
<1>1. PICK u \in Ups \ Named(c), k \in Keys \cup {Empty} : next = Added(c, u, k)
  BY DEF AddUpstream
<1> DEFINE K == [c.key EXCEPT ![u] = Plain(k)]
           O == IF k = Empty THEN c.off \cup {u} ELSE c.off
<1>2. c \in Config /\ c.off \in Offs /\ c.key \in KeyMaps /\ u \in Ups /\ k \in Values
  BY Fields DEF Good, Values
<1>3. Plain(k) \in Secret(Values) /\ ~Plain(k).masked
  BY <1>2, Secrets
<1>4. O \in Offs /\ K \in KeyMaps
  BY <1>2, <1>3 DEF Offs, KeyMaps
<1>5. next = WithKeys(c, K, O)
  BY <1>1 DEF Added, WithKeys
<1>6. \A x \in Ups : K[x].masked => K[x] = c.key[x]
  BY <1>2, <1>3 DEF KeyMaps
<1>7. \A x \in Ups : ~(c.key[x].masked /\ c.key[x] = Plain(Empty))
  BY DEF Plain
<1> HIDE DEF O, K
<1>8. Keeps(c, WithKeys(c, K, O), n)
  BY <1>4, <1>6, <1>7, KeysKeep DEF Good, KeysOK
<1> QED BY <1>5, <1>8

LEMMA UpdateKeeps ==
  ASSUME NEW c, NEW n \in Nat, Good(c, n), NEW next \in UpdateUpstream(c)
  PROVE  Keeps(c, next, n)
<1>1. CASE next \in Rename(c)
  BY <1>1, RenameKeeps
<1>2. ASSUME NEW u \in Named(c), next = Toggle(c, u) PROVE Keeps(c, next, n)
  BY <1>2, ToggleKeeps DEF Named
<1>3. ASSUME NEW u \in Named(c),
             NEW k \in {Plain(x) : x \in Keys} \cup {Mask(c.key[x]) : x \in Named(c)},
             next = [c EXCEPT !.key[u] = Sent(@, k)]
      PROVE  Keeps(c, next, n)
  <2> DEFINE s == Sent(c.key[u], k)
             K == [c.key EXCEPT ![u] = s]
  <2>1. c \in Config /\ c.off \in Offs /\ c.key \in KeyMaps /\ u \in Ups
        /\ \A x \in Ups : c.key[x] \in Secret(Values) /\ (c.key[x].masked => c.key[x].is \in Keys \ Short)
    BY Fields DEF Good, Named, KeysOK
  <2>2. k \in Secret(Values) /\ (k.masked => k.is \in Keys \ Short)
    <3>1. ASSUME NEW x \in Keys, k = Plain(x) PROVE k \in Secret(Values) /\ ~k.masked
      BY <3>1, Secrets DEF Values
    <3>2. ASSUME NEW x \in Named(c), k = Mask(c.key[x])
          PROVE  k \in Secret(Values) /\ (k.masked => k.is \in Keys \ Short)
      <4>1. x \in Ups
        BY DEF Named
      <4> QED BY <2>1, <3>2, <4>1, MaskOfKey
    <3> QED BY <1>3, <3>1, <3>2
  <2>3. s \in {c.key[u], k}
    BY DEF Sent
  <2>4. next = WithKeys(c, K, c.off)
    BY <1>3, <2>1 DEF Config, WithKeys
  <2> HIDE DEF s
  <2>5. K \in KeyMaps /\ \A x \in Ups : K[x] = IF x = u THEN s ELSE c.key[x]
    BY <2>1, <2>2, <2>3 DEF KeyMaps
  <2> HIDE DEF K
  <2>6. \A x \in Ups : K[x].masked => K[x].is \in Keys \ Short
    BY <2>1, <2>2, <2>3, <2>5
  <2>7. Keeps(c, WithKeys(c, K, c.off), n)
    BY <2>1, <2>5, <2>6, KeysKeep
  <2> QED BY <2>4, <2>7
<1> QED BY <1>1, <1>2, <1>3 DEF UpdateUpstream

LEMMA ImportKeeps ==
  ASSUME NEW c, NEW n \in Nat, Good(c, n), NEW next \in ImportOneAPI(c)
  PROVE  Keeps(c, next, n)
<1>1. PICK keys \in [Ups -> Keys \cup {Absent}], off \in SUBSET Ups : next = Imported(c, keys, off)
  BY DEF ImportOneAPI, Imports, Channels
<1> DEFINE K == [u \in Ups |-> Plain(keys[u])]
           O == (c.off \ Ups) \cup off
<1>2. c \in Config /\ c.off \in Offs
  BY Fields DEF Good
<1>3. \A u \in Ups : Plain(keys[u]) \in Secret(Values) /\ ~Plain(keys[u]).masked
  <2>1. \A u \in Ups : keys[u] \in Values
    BY DEF Values
  <2> QED BY <2>1, Secrets
<1>4. O \in Offs /\ K \in KeyMaps /\ \A u \in Ups : ~K[u].masked
  BY <1>2, <1>3 DEF Offs, KeyMaps
<1>5. next = WithKeys(c, K, O)
  BY <1>1 DEF Imported, WithKeys
<1> HIDE DEF O, K
<1>6. Keeps(c, WithKeys(c, K, O), n)
  BY <1>4, KeysKeep
<1> QED BY <1>5, <1>6

\* The edits that touch neither keys nor tokens.
LEMMA RestKeeps ==
  ASSUME NEW c, NEW n \in Nat, Good(c, n),
         NEW C \in SUBSET Secret(Tokens), NEW r \in Limits, NEW i \in BOOLEAN
  PROVE  Keeps(c, WithRest(c, C, r, i), n)
<1> SUFFICES ASSUME NEW next, next = WithRest(c, C, r, i)
             PROVE  Keeps(c, next, n)
  OBVIOUS
<1>0. c \in Config
  BY DEF Good
<1>1. next \in Config /\ next.key = c.key /\ next.off = c.off /\ next.tok = c.tok
  BY <1>0, NewRest
<1> QED BY <1>1 DEF Keeps, Good, KeysOK, ToksOK

LEMMA ClientsKeep ==
  ASSUME NEW c, NEW n \in Nat, Good(c, n), NEW next \in ClientEdits(c)
  PROVE  Keeps(c, next, n)
<1>1. /\ c \in Config /\ c.clients \in SUBSET Secret(Tokens) /\ c.rpm \in Limits
      /\ c.idle \in BOOLEAN
  BY Fields DEF Good
<1>2. PICK C \in SUBSET Secret(Tokens) : next = [c EXCEPT !.clients = C]
  <2>1. ASSUME NEW x \in Clients, next = [c EXCEPT !.clients = @ \cup {Plain(x)}]
        PROVE  \E C \in SUBSET Secret(Tokens) : next = [c EXCEPT !.clients = C]
    <3>1. Plain(x) \in Secret(Tokens)
      BY DEF Plain, Secret, Tokens
    <3> QED BY <1>1, <2>1, <3>1
  <2>2. ASSUME NEW x \in c.clients, next = [c EXCEPT !.clients = @ \ {x}]
        PROVE  \E C \in SUBSET Secret(Tokens) : next = [c EXCEPT !.clients = C]
    BY <1>1, <2>2
  <2> QED BY <2>1, <2>2 DEF ClientEdits
<1>3. next = WithRest(c, C, c.rpm, c.idle)
  BY <1>1, <1>2 DEF Config, WithRest
<1> QED BY <1>1, <1>3, RestKeeps

\* Every edit that takes no fresh token.
LEMMA EditsKeep ==
  ASSUME NEW c, NEW n \in Nat, Good(c, n),
         NEW next \in AddUpstream(c) \cup UpdateUpstream(c) \cup DeleteUpstream(c)
                        \cup ImportOneAPI(c) \cup ClientEdits(c) \cup DeviceEdits(c)
  PROVE  Keeps(c, next, n)
<1>1. CASE next \in DeleteUpstream(c)
  BY <1>1, DropUpstreamKeeps DEF DeleteUpstream, Named
<1>2. CASE next \in DeviceEdits(c)
  BY <1>2, ToggleKeeps, DropDeviceKeeps DEF DeviceEdits, Known
<1> QED BY <1>1, <1>2, AddKeeps, UpdateKeeps, ImportKeeps, ClientsKeep

LEMMA PageKeeps ==
  ASSUME NEW c, NEW n \in Nat, Good(c, n), NEW next \in PageEdits(c)
  PROVE  Keeps(c, next, n)
<1>1. /\ c \in Config /\ c.clients \in SUBSET Secret(Tokens) /\ c.rpm \in Limits
      /\ c.idle \in BOOLEAN
  BY Fields DEF Good
<1>2. CASE next = c
  <2>1. next = WithRest(c, c.clients, c.rpm, c.idle)
    BY <1>1, <1>2 DEF Config, WithRest
  <2> QED BY <1>1, <2>1, RestKeeps
<1>3. ASSUME NEW r \in Limits, next = [c EXCEPT !.rpm = r] PROVE Keeps(c, next, n)
  <2>1. next = WithRest(c, c.clients, r, c.idle)
    BY <1>1, <1>3 DEF Config, WithRest
  <2> QED BY <1>1, <2>1, RestKeeps
<1>4. CASE next = [c EXCEPT !.idle = FALSE]
  <2>1. next = WithRest(c, c.clients, c.rpm, FALSE)
    BY <1>1, <1>4 DEF Config, WithRest
  <2> QED BY <1>1, <2>1, RestKeeps
<1>5. ASSUME NEW d \in Known(c), next = DropDevice(c, d) PROVE Keeps(c, next, n)
  BY <1>5, DropDeviceKeeps DEF Known
<1>6. CASE next \in Rename(c)
  BY <1>6, RenameKeeps
<1> QED BY <1>2, <1>3, <1>4, <1>5, <1>6 DEF PageEdits

-----------------------------------------------------------------------------
LEMMA CloneGood ==
  ASSUME NEW c, NEW n \in Nat, Good(c, n)
  PROVE  /\ Good(Clone(c), n) /\ Clone(c).key = c.key /\ Clone(c).tok = c.tok
         /\ Clone(c).off = c.off
<1> SUFFICES ASSUME NEW next, next = Clone(c)
             PROVE  /\ Good(next, n) /\ next.key = c.key /\ next.tok = c.tok
                    /\ next.off = c.off
  OBVIOUS
<1>1. c \in Config /\ c.clients \in SUBSET Secret(Tokens) /\ c.rpm \in Limits
  BY Fields DEF Good
<1>2. next = [c EXCEPT !.idle = TRUE]
  BY DEF Clone
<1>3. next \in Config /\ next.key = c.key /\ next.off = c.off /\ next.tok = c.tok
  BY <1>1, <1>2 DEF Config
<1> QED BY <1>3 DEF Good, KeysOK, ToksOK

\* The view has every token masked.
LEMMA ViewGood ==
  ASSUME NEW c, NEW n \in Nat, Good(c, n)
  PROVE  /\ Good(View(c), n)
         /\ \A d \in Devs : /\ View(c).tok[d].masked \/ View(c).tok[d] = NoTok
                            /\ View(c).tok[d].is = c.tok[d].is
<1> DEFINE K == [u \in Ups |-> Mask(c.key[u])]
           T == [d \in Devs |-> [is |-> c.tok[d].is, masked |-> c.tok[d] # NoTok]]
           C == {Mask(x) : x \in c.clients}
<1> SUFFICES ASSUME NEW next, next = View(c)
             PROVE  /\ Good(next, n)
                    /\ \A d \in Devs : /\ next.tok[d].masked \/ next.tok[d] = NoTok
                                       /\ next.tok[d].is = c.tok[d].is
  OBVIOUS
<1>1. /\ c \in Config /\ c.clients \in SUBSET Secret(Tokens) /\ c.rpm \in Limits
      /\ c.off \in Offs /\ c.tok \in TokMaps
      /\ \A u \in Ups : c.key[u] \in Secret(Values) /\ (c.key[u].masked => c.key[u].is \in Keys \ Short)
      /\ \A d \in Devs : c.tok[d] \in Secret(Nat)
  BY Fields DEF Good, KeysOK
<1>2. K \in KeyMaps /\ \A u \in Ups : K[u].masked => K[u].is \in Keys \ Short
  BY <1>1, MaskOfKey DEF KeyMaps
<1>3. \A d \in Devs : [is |-> c.tok[d].is, masked |-> c.tok[d] # NoTok] \in Secret(Nat)
  BY <1>1 DEF Secret
<1>4. T \in TokMaps /\ \A d \in Devs : T[d].is = c.tok[d].is /\ (T[d].masked <=> c.tok[d] # NoTok)
  BY <1>3 DEF TokMaps
<1>5. C \in SUBSET Secret(Tokens)
  BY <1>1, MaskOfClient
<1>6. next = [key |-> K, off |-> c.off, tok |-> T, clients |-> C, rpm |-> c.rpm, idle |-> TRUE]
  BY <1>1 DEF View, Clone, Config
<1>7. \A d \in Devs : T[d].masked \/ T[d] = NoTok
  <2> SUFFICES ASSUME NEW d \in Devs, c.tok[d] = NoTok PROVE T[d] = NoTok
    BY <1>4
  <2>1. T[d] \in Secret(Nat) /\ T[d].is = NoTok.is /\ ~T[d].masked
    BY <1>4 DEF TokMaps
  <2> QED BY <2>1 DEF Secret, NoTok, Plain
<1> HIDE DEF K, T, C
<1>8. next \in Config
  <2>1. PICK i \in BOOLEAN : i = TRUE
    OBVIOUS
  <2>2. next = [key |-> K, off |-> c.off, tok |-> T, clients |-> C, rpm |-> c.rpm, idle |-> i]
    BY <1>6, <2>1
  <2> QED BY <1>1, <1>2, <1>4, <1>5, <2>2, Made
<1>9. next.key = K /\ next.tok = T
  BY <1>6
<1> QED BY <1>2, <1>4, <1>7, <1>8, <1>9 DEF Good, KeysOK, ToksOK

\* What the restored secrets are.
LEMMA ResolveGood ==
  ASSUME NEW old, NEW c, NEW n \in Nat, Good(old, n), Good(c, n)
  PROVE  /\ Good(Resolve(old, c), n) /\ Resolve(old, c).off = c.off
         /\ \A u \in Ups : Resolve(old, c).key[u] =
              IF c.key[u].masked /\ old.key[u] # NoKey THEN old.key[u] ELSE c.key[u]
         /\ \A d \in Devs : Resolve(old, c).tok[d] = Hash(c.tok[d], old.tok[d])
<1> DEFINE K == [u \in Ups |-> IF c.key[u].masked /\ old.key[u] # NoKey THEN old.key[u] ELSE c.key[u]]
           T == [d \in Devs |-> Hash(c.tok[d], old.tok[d])]
           C == {IF x.masked /\ Plain(x.is) \in old.clients THEN Plain(x.is) ELSE x : x \in c.clients}
<1> SUFFICES ASSUME NEW next, next = Resolve(old, c)
             PROVE  /\ Good(next, n) /\ next.off = c.off
                    /\ \A u \in Ups : next.key[u] = K[u]
                    /\ \A d \in Devs : next.tok[d] = T[d]
  OBVIOUS
<1>1. /\ c \in Config /\ old \in Config
      /\ c.clients \in SUBSET Secret(Tokens) /\ c.rpm \in Limits /\ c.idle \in BOOLEAN /\ c.off \in Offs
      /\ \A u \in Ups : c.key[u] \in Secret(Values) /\ old.key[u] \in Secret(Values)
      /\ \A d \in Devs : c.tok[d] \in Secret(Nat) /\ old.tok[d] \in Secret(Nat)
  BY Fields DEF Good
<1>2. K \in KeyMaps /\ \A u \in Ups : K[u].masked => K[u].is \in Keys \ Short
  BY <1>1 DEF KeyMaps, Good, KeysOK
<1>3. \A d \in Devs : Hash(c.tok[d], old.tok[d]) \in {c.tok[d], old.tok[d]}
  BY DEF Hash
<1>4. T \in TokMaps /\ \A d \in Devs : T[d].is <= n
  BY <1>1, <1>3 DEF TokMaps, Good, ToksOK
<1>5. C \in SUBSET Secret(Tokens)
  <2> SUFFICES ASSUME NEW x \in c.clients
               PROVE  x \in Secret(Tokens) /\ Plain(x.is) \in Secret(Tokens)
    OBVIOUS
  <2>1. x \in Secret(Tokens) /\ x.is \in Tokens
    BY <1>1 DEF Secret
  <2> QED BY <2>1 DEF Plain, Secret
<1>6. next = [key |-> K, off |-> c.off, tok |-> T, clients |-> C, rpm |-> c.rpm, idle |-> c.idle]
  BY <1>1 DEF Resolve, Config
<1> HIDE DEF K, T, C
<1>7. next \in Config
  BY <1>1, <1>2, <1>4, <1>5, <1>6, Made
<1>8. next.key = K /\ next.tok = T /\ next.off = c.off
  BY <1>6
<1> QED BY <1>2, <1>4, <1>7, <1>8 DEF Good, KeysOK, ToksOK

LEMMA IssueGood ==
  ASSUME NEW c, serial \in Nat, Good(c, serial), NEW d \in Devs
  PROVE  /\ Good(Issue(c, d), serial + 1)
         /\ Issue(c, d).key = c.key /\ Issue(c, d).off = c.off
         /\ \A e \in Devs : Issue(c, d).tok[e] = IF e = d THEN Plain(serial + 1) ELSE c.tok[e]
<1> DEFINE T == [c.tok EXCEPT ![d] = Plain(serial + 1)]
<1> SUFFICES ASSUME NEW next, next = Issue(c, d)
             PROVE  /\ Good(next, serial + 1) /\ next.key = c.key /\ next.off = c.off
                    /\ \A e \in Devs : next.tok[e] = IF e = d THEN Plain(serial + 1) ELSE c.tok[e]
  OBVIOUS
<1>1. c \in Config /\ c.tok \in TokMaps /\ c.off \in Offs
  BY Fields DEF Good
<1>2. serial + 1 \in Nat /\ Plain(serial + 1) \in Secret(Nat) /\ Plain(serial + 1).is = serial + 1
  BY Secrets
<1>3. T \in TokMaps /\ \A e \in Devs : T[e] = IF e = d THEN Plain(serial + 1) ELSE c.tok[e]
  BY <1>1, <1>2 DEF TokMaps
<1>4. next = WithToks(c, T, c.off)
  BY <1>1 DEF Issue, WithToks, Config
<1> HIDE DEF T
<1>5. next \in Config /\ next.tok = T /\ next.off = c.off /\ next.key = c.key
  BY <1>1, <1>3, <1>4, NewToks
<1>6. \A e \in Devs : T[e].is <= serial + 1
  <2>1. \A e \in Devs : c.tok[e].is \in Nat /\ c.tok[e].is <= serial
    BY <1>1 DEF TokMaps, Secret, Good, ToksOK
  <2> QED BY <1>2, <1>3, <2>1
<1> QED BY <1>3, <1>5, <1>6 DEF Good, KeysOK, ToksOK

-----------------------------------------------------------------------------
\* A token is of the device that it was issued for, in every configuration there is.
Holds(own, c) == \A d \in Devs : c.tok[d].is # 0 => own[c.tok[d].is] = d
Owned(own) ==
  Holds(own, live) /\ Holds(own, disk) /\ \A a \in Admins : Holds(own, admin[a].next)
OwnInv == \E own : Owned(own)

\* The page holds no token in clear.
ViewInv ==
  \A a \in Admins : admin[a].pc = "viewing" =>
    \A d \in Devs : admin[a].next.tok[d].masked \/ admin[a].next.tok[d] = NoTok

\* Restoring the secrets of c from what is live will change no token and take no key
\* from an enabled upstream.
Ready(c) ==
  /\ \A d \in Devs : Hash(c.tok[d], live.tok[d]) = c.tok[d]
  /\ \A u \in Ups : c.key[u].masked /\ live.key[u] = Plain(Empty) => u \in c.off

\* While no two handlers applied at once, how far the one that applies has come says
\* which of the stores hold its configuration.
SerialInv ==
  ~overlap =>
    /\ \A a, b \in Admins : Applying(a) /\ Applying(b) => a = b
    /\ (\A a \in Admins : admin[a].pc \notin {"swap", "sync"}) =>
         live = want /\ disk = want /\ limits = want.rpm
    /\ \A a \in Admins :
         /\ admin[a].pc = "resolve" => Ready(admin[a].next)
         /\ admin[a].pc \in {"save", "swap"} => Valid(admin[a].next)
         /\ admin[a].pc \in {"swap", "sync"} => disk = admin[a].next
         /\ admin[a].pc = "sync" => live = admin[a].next

\* A dead token is in no store and in nothing about to be stored, and neither is the one
\* that a rotation under way replaces in what it is about to store.
Free(c) == \A t \in dead, d \in Devs : c.tok[d] # Plain(t)
DeadInv ==
  ~overlap =>
    /\ Free(live) /\ Free(disk)
    /\ \A a \in Admins : Applying(a) =>
         /\ Free(admin[a].next)
         /\ admin[a].dies # 0 => \A d \in Devs : admin[a].next.tok[d].is # admin[a].dies

Inv == Types /\ Valid(live) /\ OwnInv /\ ViewInv /\ SerialInv /\ DeadInv

LEMMA BlankGood ==
  /\ Good(Blank, 0) /\ Blank.key = [u \in Ups |-> NoKey] /\ Blank.off = {}
  /\ Blank.tok = [d \in Devs |-> NoTok] /\ Blank.rpm \in Limits
<1>1. Blank.key \in KeyMaps /\ Blank.tok \in TokMaps /\ Blank.rpm \in Limits
  BY Secrets DEF Blank, KeyMaps, TokMaps
<1>2. Blank \in Config
  BY <1>1 DEF Blank, Config, KeyMaps, TokMaps, Values
<1> QED BY <1>1, <1>2, Secrets DEF Blank, Good, KeysOK, ToksOK

LEMMA RestingGood ==
  /\ Resting \in Admin /\ Good(Resting.next, 0) /\ Resting.pc = "idle" /\ Resting.dies = 0
  /\ \A d \in Devs : Resting.next.tok[d] = NoTok
BY BlankGood DEF Resting, Admin, Good

LEMMA GoodGrows ==
  ASSUME NEW c, NEW n \in Nat, NEW m \in Nat, n <= m, Good(c, n)
  PROVE  Good(c, m)
<1>1. \A d \in Devs : c.tok[d].is \in Nat
  BY Fields DEF Good, Secret
<1> QED BY <1>1 DEF Good, ToksOK

LEMMA FirstGood ==
  ASSUME Init
  PROVE  /\ Good(live, 0) /\ Valid(live) /\ \A d \in Devs : live.tok[d] = NoTok
<1>1. ASSUME live = Blank
      PROVE  Good(live, 0) /\ Valid(live) /\ \A d \in Devs : live.tok[d] = NoTok
  BY <1>1, BlankGood, Secrets DEF Valid
<1>2. ASSUME NEW u \in Ups, NEW k \in Keys, live = [Blank EXCEPT !.key[u] = Plain(k)]
      PROVE  Good(live, 0) /\ Valid(live) /\ \A d \in Devs : live.tok[d] = NoTok
  <2> DEFINE K == [Blank.key EXCEPT ![u] = Plain(k)]
  <2>1. Plain(k) \in Secret(Values) /\ ~Plain(k).masked /\ Plain(k) # Plain(Empty)
    BY Secrets DEF Values, Plain
  <2>2. K \in KeyMaps /\ \A x \in Ups : ~K[x].masked /\ K[x] # Plain(Empty)
    BY <2>1, BlankGood, Secrets DEF KeyMaps
  <2>3. {} \in Offs /\ Blank \in Config
    BY BlankGood DEF Offs, Good
  <2>4. live = WithKeys(Blank, K, {})
    BY <1>2, <2>3, BlankGood DEF WithKeys, Blank
  <2> HIDE DEF K
  <2>5. live \in Config /\ live.key = K /\ live.off = {} /\ live.tok = Blank.tok
    BY <2>2, <2>3, <2>4, NewKeys
  <2> QED BY <2>2, <2>5, BlankGood, Secrets DEF Good, KeysOK, ToksOK, Valid
<1> QED BY <1>1, <1>2 DEF Init

LEMMA InitInv == Init => Inv
<1> SUFFICES ASSUME Init PROVE Inv
  OBVIOUS
<1>1. Good(live, 0) /\ Valid(live) /\ \A d \in Devs : live.tok[d] = NoTok
  BY FirstGood
<1>2. \A a \in Admins : admin[a] = Resting
  BY DEF Init
<1>3. live.rpm \in Limits /\ live \in Config
  BY <1>1, Fields DEF Good
<1>4. Types
  <2>1. admin \in [Admins -> Admin] /\ \A a \in Admins : Good(admin[a].next, 0) /\ admin[a].dies = 0
    BY <1>2, RestingGood DEF Init
  <2>2. serial = 0 /\ disk = live /\ want = live /\ limits = live.rpm /\ dead = {}
    BY DEF Init
  <2>3. /\ edits \in 0 .. MaxEdits /\ faults \in 0 .. MaxFaults
        /\ restarts \in 0 .. MaxRestarts
    BY DEF Init
  <2>5. overlap \in BOOLEAN
    BY DEF Init
  <2>4. /\ Good(live, serial) /\ Good(disk, serial)
        /\ \A a \in Admins : Good(admin[a].next, serial) /\ admin[a].dies <= serial
    BY <1>1, <2>1, <2>2
  <2> QED BY <1>3, <2>1, <2>2, <2>3, <2>4, <2>5 DEF Types
<1>5. OwnInv
  <2>1. \A own : Owned(own)
    BY <1>1, <1>2, RestingGood, Secrets DEF Owned, Holds, Init
  <2> QED BY <2>1 DEF OwnInv
<1>6. ViewInv /\ SerialInv
  BY <1>2, RestingGood DEF ViewInv, SerialInv, Applying, Init
<1>7. DeadInv
  BY <1>2, RestingGood DEF DeadInv, Applying, Init, Free
<1> QED BY <1>1, <1>4, <1>5, <1>6, <1>7 DEF Inv

-----------------------------------------------------------------------------
\* The configurations that change hands: c instead of what admin a had.
LEMMA TypesKeep ==
  ASSUME Types, NEW a \in Admins, NEW r \in Admin,
         admin' = [admin EXCEPT ![a] = r], serial' \in Nat, serial <= serial',
         Good(r.next, serial'), r.dies <= serial',
         Good(live', serial'), Good(disk', serial'), want' \in Config, limits' \in Limits,
         dead' \subseteq 1 .. serial', overlap' \in BOOLEAN,
         edits' \in 0 .. MaxEdits, faults' \in 0 .. MaxFaults, restarts' \in 0 .. MaxRestarts
  PROVE  Types'
<1>1. admin' \in [Admins -> Admin] /\ \A b \in Admins : admin'[b] = IF b = a THEN r ELSE admin[b]
  BY DEF Types
<1>2. ASSUME NEW b \in Admins PROVE Good(admin'[b].next, serial') /\ admin'[b].dies <= serial'
  <2>1. Good(admin[b].next, serial) /\ admin[b].dies \in Nat /\ admin[b].dies <= serial
        /\ serial \in Nat
    BY DEF Types, Admin
  <2>2. Good(admin[b].next, serial')
    BY <2>1, GoodGrows
  <2> QED BY <1>1, <2>1, <2>2
<1> QED BY <1>1, <1>2 DEF Types

\* What every handler owes when it applies c.
LEMMA ApplyInv ==
  ASSUME Inv, NEW a \in Admins, ~Applying(a), NEW c, NEW dies \in Nat, Apply(a, c, dies),
         serial' \in Nat, serial <= serial', Good(c, serial'), dies <= serial',
         NEW own, Holds(own, live), Holds(own, disk), Holds(own, c),
         \A b \in Admins : Holds(own, admin[b].next),
         Ready(c),
         ~overlap => Free(c) /\ (dies # 0 => \A d \in Devs : c.tok[d].is # dies)
  PROVE  Inv'
<1> DEFINE r == [pc |-> "resolve", next |-> c, dies |-> dies]
<1>1. r \in Admin /\ r.next = c /\ r.dies = dies /\ r.pc = "resolve"
  BY DEF Admin, Good
<1>2. /\ admin' = [admin EXCEPT ![a] = r] /\ edits' \in 0 .. MaxEdits
      /\ live' = live /\ disk' = disk /\ limits' = limits /\ want' = want /\ dead' = dead
      /\ faults' = faults /\ restarts' = restarts
      /\ overlap' = (overlap \/ \E b \in Admins \ {a} : Applying(b))
  BY DEF Apply, stores, Inv, Types
<1> HIDE DEF r
<1>3. \A b \in Admins : admin'[b] = IF b = a THEN r ELSE admin[b]
  BY <1>2 DEF Inv, Types
<1>4. Types'
  <2>1. Good(live, serial') /\ Good(disk, serial')
    BY GoodGrows DEF Inv, Types
  <2>2. dead \subseteq 1 .. serial'
    BY DEF Inv, Types
  <2>3. overlap' \in BOOLEAN
    BY <1>2
  <2> QED BY <1>1, <1>2, <2>1, <2>2, <2>3, TypesKeep DEF Inv, Types
<1>5. Valid(live)'
  BY <1>2 DEF Inv, Valid
<1>6. OwnInv'
  <2>1. Owned(own)'
    BY <1>1, <1>2, <1>3 DEF Owned, Holds
  <2> QED BY <2>1 DEF OwnInv
<1>7. ViewInv'
  BY <1>1, <1>3 DEF Inv, ViewInv
<1>8. ASSUME ~overlap' PROVE ~overlap /\ \A b \in Admins \ {a} : ~Applying(b) /\ ~Applying(b)'
  BY <1>2, <1>3, <1>8 DEF Applying
<1>9. SerialInv'
  <2> SUFFICES ASSUME ~overlap' PROVE SerialInv'
    BY DEF SerialInv
  <2>1. Ready(c)'
    BY <1>2 DEF Ready
  <2>2. \A b \in Admins : admin[b].pc \notin {"resolve", "save", "swap", "sync"}
    BY <1>8 DEF Applying, Inv, Types, Admin
  <2>3. live' = want' /\ disk' = want' /\ limits' = want'.rpm
    BY <1>2, <1>8, <2>2 DEF Inv, SerialInv
  <2>4. \A b \in Admins : b # a => admin'[b].pc \notin {"resolve", "save", "swap", "sync"}
    BY <1>3, <2>2
  <2> QED BY <1>1, <1>3, <1>8, <2>1, <2>3, <2>4 DEF SerialInv
<1>10. DeadInv'
  <2> SUFFICES ASSUME ~overlap' PROVE DeadInv'
    BY DEF DeadInv
  <2>1. Free(live)' /\ Free(disk)' /\ Free(c)'
    BY <1>2, <1>8 DEF Inv, DeadInv, Free
  <2>2. \A b \in Admins : Applying(b)' => b = a
    BY <1>8
  <2> QED BY <1>1, <1>3, <1>8, <2>1, <2>2 DEF DeadInv
<1> QED BY <1>4, <1>5, <1>6, <1>7, <1>9, <1>10 DEF Inv

LEMMA OwnedKeep ==
  ASSUME NEW own, NEW c, NEW next, Holds(own, c),
         \A d \in Devs : next.tok[d] \in {c.tok[d], NoTok}
  PROVE  Holds(own, next)
BY Secrets DEF Holds

LEMMA EditInv == ASSUME Inv, NEW a \in Admins, Edit(a) PROVE Inv'
<1> DEFINE c == Clone(live)
<1>1. PICK next \in AddUpstream(c) \cup UpdateUpstream(c) \cup DeleteUpstream(c)
                      \cup ImportOneAPI(c) \cup ClientEdits(c) \cup DeviceEdits(c) :
        Apply(a, next, 0)
  BY DEF Edit
<1>2. Good(c, serial) /\ c.key = live.key /\ c.tok = live.tok /\ c.off = live.off
  BY CloneGood DEF Inv, Types
<1>3. serial \in Nat /\ serial' = serial
  BY DEF Inv, Types, Edit
<1> HIDE DEF c
<1>4. Keeps(c, next, serial)
  BY <1>1, <1>2, <1>3, EditsKeep
<1>5. \A d \in Devs : next.tok[d] \in {live.tok[d], NoTok}
  BY <1>2, <1>4 DEF Keeps
<1>6. PICK own : Owned(own)
  BY DEF Inv, OwnInv
<1>7. Holds(own, next)
  BY <1>5, <1>6, OwnedKeep DEF Owned
<1>8. Ready(next)
  <2>1. \A d \in Devs : Hash(next.tok[d], live.tok[d]) = next.tok[d]
    BY <1>5, Secrets DEF Hash
  <2> QED BY <1>2, <1>4, <2>1 DEF Ready, Keeps, Inv, Valid
<1>9. ~overlap => Free(next)
  <2> SUFFICES ASSUME ~overlap, NEW t \in dead, NEW d \in Devs, next.tok[d] = Plain(t) PROVE FALSE
    BY DEF Free
  <2>1. t \in Nat /\ t # 0
    BY <1>3 DEF Inv, Types
  <2>2. next.tok[d] # NoTok
    BY <2>1, Secrets
  <2> QED BY <1>5, <2>2 DEF Inv, DeadInv, Free
<1>10. ~Applying(a)
  BY DEF Edit, Applying
<1> QED BY <1>1, <1>3, <1>4, <1>6, <1>7, <1>8, <1>9, <1>10, ApplyInv DEF Keeps, Owned

\* A fresh token for d, in the place of the one that dies.
LEMMA IssueInv ==
  ASSUME Inv, NEW a \in Admins, admin[a].pc = "idle", NEW d \in Devs, NEW dies \in Nat,
         dies \in {0, live.tok[d].is}, Apply(a, Issue(Clone(live), d), dies), serial' = serial + 1
  PROVE  Inv'
<1> DEFINE c == Clone(live)
           n == Issue(c, d)
<1>1. Good(c, serial) /\ c.key = live.key /\ c.tok = live.tok /\ c.off = live.off
  BY CloneGood DEF Inv, Types
<1>2. serial \in Nat /\ serial + 1 \in Nat /\ serial <= serial + 1
  BY DEF Inv, Types
<1> HIDE DEF c
<1>3. /\ Good(n, serial + 1) /\ n.key = live.key /\ n.off = live.off
      /\ \A e \in Devs : n.tok[e] = IF e = d THEN Plain(serial + 1) ELSE live.tok[e]
  BY <1>1, <1>2, IssueGood
<1>4. Plain(serial + 1).is = serial + 1 /\ ~Plain(serial + 1).masked
  BY <1>2, Secrets
<1>5. Apply(a, n, dies)
  BY DEF c
<1> HIDE DEF n
<1>6. PICK own : Owned(own)
  BY DEF Inv, OwnInv
<1> DEFINE new == [t \in 1 .. serial + 1 |-> IF t = serial + 1 THEN d ELSE own[t]]
<1>7. ASSUME NEW x, Holds(own, x), Good(x, serial) PROVE Holds(new, x)
  <2> SUFFICES ASSUME NEW e \in Devs, x.tok[e].is # 0 PROVE new[x.tok[e].is] = e
    BY DEF Holds
  <2>1. x.tok[e].is \in Nat /\ x.tok[e].is <= serial
    BY <1>7, Fields DEF Good, ToksOK, Secret
  <2>2. own[x.tok[e].is] = e
    BY <1>7 DEF Holds
  <2> QED BY <1>2, <2>1, <2>2
<1>8. new[serial + 1] = d
  BY <1>2
<1> HIDE DEF new
<1>9. Holds(new, live) /\ Holds(new, disk) /\ \A b \in Admins : Holds(new, admin[b].next)
  BY <1>6, <1>7 DEF Owned, Inv, Types
<1>10. Holds(new, n)
  BY <1>3, <1>4, <1>8, <1>9 DEF Holds
<1>11. Ready(n)
  <2>1. \A e \in Devs : Hash(n.tok[e], live.tok[e]) = n.tok[e]
    BY <1>3, <1>4 DEF Hash
  <2> QED BY <1>3, <2>1 DEF Ready, Inv, Valid
<1>12. ASSUME ~overlap PROVE Free(n)
  <2> SUFFICES ASSUME NEW t \in dead, NEW e \in Devs, n.tok[e] = Plain(t) PROVE FALSE
    BY DEF Free
  <2>1. t \in Nat /\ t <= serial
    BY <1>2 DEF Inv, Types
  <2>2. Plain(t).is = t
    BY <2>1, Secrets
  <2>3. e # d
    BY <1>2, <1>3, <1>4, <2>1, <2>2
  <2> QED BY <1>3, <1>12, <2>3 DEF Inv, DeadInv, Free
<1>13. live.tok[d].is \in Nat /\ live.tok[d].is <= serial
  BY Fields DEF Inv, Types, Good, ToksOK, Secret
<1>14. ASSUME dies # 0, NEW e \in Devs PROVE n.tok[e].is # dies
  <2>1. dies = live.tok[d].is /\ own[dies] = d
    BY <1>6, <1>14 DEF Owned, Holds
  <2>2. CASE e = d
    BY <1>2, <1>3, <1>4, <1>13, <2>1, <2>2
  <2>3. CASE e # d
    BY <1>3, <1>6, <1>14, <2>1, <2>3 DEF Owned, Holds
  <2> QED BY <2>2, <2>3
<1>15. dies <= serial'
  BY <1>2, <1>13
<1>16. ~Applying(a)
  BY DEF Applying
<1> QED BY <1>2, <1>3, <1>5, <1>9, <1>10, <1>11, <1>12, <1>14, <1>15, <1>16, ApplyInv

LEMMA CreateInv ==
  ASSUME Inv, NEW a \in Admins, NEW d \in Devs, CreateDevice(a, d) PROVE Inv'
BY IssueInv DEF CreateDevice

LEMMA RotateInv ==
  ASSUME Inv, NEW a \in Admins, NEW d \in Devs, RotateDevice(a, d) PROVE Inv'
<1>1. live.tok[d].is \in Nat
  BY Fields DEF Inv, Types, Good, Secret
<1> QED BY <1>1, IssueInv DEF RotateDevice

LEMMA ReplaceInv == ASSUME Inv, NEW a \in Admins, ReplaceConfig(a) PROVE Inv'
<1> DEFINE v == admin[a].next
<1>1. PICK c \in PageEdits(v) : Apply(a, Resolve(live, c), 0)
  BY DEF ReplaceConfig
<1>2. /\ serial \in Nat /\ serial' = serial /\ Good(live, serial) /\ Good(v, serial)
      /\ admin[a].pc = "viewing"
  BY DEF Inv, Types, ReplaceConfig
<1>3. \A d \in Devs : v.tok[d].masked \/ v.tok[d] = NoTok
  BY <1>2 DEF Inv, ViewInv
<1>4. PICK own : Owned(own)
  BY DEF Inv, OwnInv
<1>5. Holds(own, v)
  BY <1>4 DEF Owned
<1> HIDE DEF v
<1>6. Keeps(v, c, serial)
  BY <1>1, <1>2, PageKeeps
<1>7. Good(c, serial) /\ \A d \in Devs : c.tok[d].masked \/ c.tok[d] = NoTok
  BY <1>3, <1>6 DEF Keeps
<1>8. Holds(own, c)
  BY <1>5, <1>6, OwnedKeep DEF Keeps
<1> DEFINE n == Resolve(live, c)
<1>9. /\ Good(n, serial)
      /\ \A u \in Ups : n.key[u] =
           IF c.key[u].masked /\ live.key[u] # NoKey THEN live.key[u] ELSE c.key[u]
      /\ \A d \in Devs : n.tok[d] = Hash(c.tok[d], live.tok[d])
  BY <1>2, <1>7, ResolveGood
<1>10. Apply(a, n, 0)
  BY <1>1
<1> HIDE DEF n
<1>11. \A d \in Devs : \/ n.tok[d] = live.tok[d]
                       \/ n.tok[d] = c.tok[d] /\ (~c.tok[d].masked \/ live.tok[d] = NoTok)
  BY <1>9 DEF Hash
<1>12. Holds(own, n)
  BY <1>4, <1>8, <1>11 DEF Owned, Holds
<1>13. Ready(n)
  <2>1. \A d \in Devs : Hash(n.tok[d], live.tok[d]) = n.tok[d]
    BY <1>11 DEF Hash
  <2>2. \A u \in Ups : n.key[u].masked => live.key[u] # Plain(Empty)
    BY <1>9, Secrets DEF Plain
  <2> QED BY <2>1, <2>2 DEF Ready
<1>14. ASSUME ~overlap PROVE Free(n)
  <2> SUFFICES ASSUME NEW t \in dead, NEW d \in Devs, n.tok[d] = Plain(t) PROVE FALSE
    BY DEF Free
  <2>1. t \in Nat /\ t # 0
    BY <1>2 DEF Inv, Types
  <2>2. Plain(t) # NoTok /\ ~Plain(t).masked
    BY <2>1, Secrets
  <2> QED BY <1>7, <1>11, <1>14, <2>2 DEF Inv, DeadInv, Free
<1>15. ~Applying(a)
  BY <1>2 DEF Applying
<1> QED BY <1>2, <1>4, <1>9, <1>10, <1>12, <1>13, <1>14, <1>15, ApplyInv DEF Owned

-----------------------------------------------------------------------------
LEMMA GetInv == ASSUME Inv, NEW a \in Admins, GetConfig(a) PROVE Inv'
<1> DEFINE v == View(live)
           r == [pc |-> "viewing", next |-> v, dies |-> 0]
<1>1. /\ admin' = [admin EXCEPT ![a] = r]
      /\ live' = live /\ disk' = disk /\ limits' = limits /\ want' = want /\ dead' = dead
      /\ serial' = serial /\ edits' = edits /\ faults' = faults /\ restarts' = restarts
      /\ overlap' = overlap
  BY DEF GetConfig, stores, bounds, history
<1>2. /\ Good(v, serial)
      /\ \A d \in Devs : /\ v.tok[d].masked \/ v.tok[d] = NoTok
                         /\ v.tok[d].is = live.tok[d].is
  BY ViewGood DEF Inv, Types
<1> HIDE DEF v
<1>3. r \in Admin /\ r.next = v /\ r.pc = "viewing" /\ r.dies = 0
  BY <1>2 DEF Admin, Good
<1> HIDE DEF r
<1>4. \A b \in Admins : admin'[b] = IF b = a THEN r ELSE admin[b]
  BY <1>1 DEF Inv, Types
<1>5. Types'
  BY <1>1, <1>2, <1>3, TypesKeep DEF Inv, Types
<1>6. Valid(live)'
  BY <1>1 DEF Inv, Valid
<1>7. OwnInv'
  <2>1. PICK own : Owned(own)
    BY DEF Inv, OwnInv
  <2>2. Owned(own)'
    BY <1>1, <1>2, <1>3, <1>4, <2>1 DEF Owned, Holds
  <2> QED BY <2>2 DEF OwnInv
<1>8. ViewInv'
  BY <1>2, <1>3, <1>4 DEF Inv, ViewInv
<1>9. ~Applying(a)' /\ \A b \in Admins \ {a} : admin'[b] = admin[b] /\ Applying(b)' = Applying(b)
  BY <1>3, <1>4 DEF Applying
<1>10. admin[a].pc = "idle"
  BY DEF GetConfig
<1>11. SerialInv'
  <2> SUFFICES ASSUME ~overlap' PROVE SerialInv'
    BY DEF SerialInv
  <2>1. \A c : Ready(c)' = Ready(c)
    BY <1>1 DEF Ready
  <2>2. (\A b \in Admins : admin'[b].pc \notin {"swap", "sync"})
          => \A b \in Admins : admin[b].pc \notin {"swap", "sync"}
    BY <1>4, <1>10
  <2> QED BY <1>1, <1>3, <1>4, <1>9, <2>1, <2>2 DEF Inv, SerialInv, Valid
<1>12. DeadInv'
  BY <1>1, <1>9 DEF Inv, DeadInv, Free
<1> QED BY <1>5, <1>6, <1>7, <1>8, <1>11, <1>12 DEF Inv

\* Restoring the secrets of a configuration for which that changes nothing.
LEMMA ResolveReady ==
  ASSUME Inv, NEW c, Good(c, serial), Valid(c), Ready(c)
  PROVE  /\ Valid(Resolve(live, c))
         /\ \A d \in Devs : Resolve(live, c).tok[d] = c.tok[d]
<1> DEFINE n == Resolve(live, c)
<1>1. serial \in Nat /\ Good(live, serial)
  BY DEF Inv, Types
<1>2. /\ n.off = c.off
      /\ \A u \in Ups : n.key[u] =
           IF c.key[u].masked /\ live.key[u] # NoKey THEN live.key[u] ELSE c.key[u]
      /\ \A d \in Devs : n.tok[d] = Hash(c.tok[d], live.tok[d])
  BY <1>1, ResolveGood
<1> HIDE DEF n
<1>3. \A d \in Devs : n.tok[d] = c.tok[d]
  BY <1>2 DEF Ready
<1>4. \A u \in Ups : n.key[u] = Plain(Empty) => u \in n.off
  BY <1>2 DEF Ready, Valid
<1>5. Valid(n)
  BY <1>3, <1>4 DEF Valid
<1> QED BY <1>3, <1>5 DEF n

\* An administrator goes on from what it was applying to r, or gives up, and neither
\* store changes; the two conjuncts that say how far it is are left to the caller.
LEMMA GoesOn ==
  ASSUME Inv, NEW a \in Admins, Applying(a), NEW r \in Admin,
         admin' = [admin EXCEPT ![a] = r], r.pc # "viewing",
         UNCHANGED <<serial, edits, restarts, overlap>>, faults' \in 0 .. MaxFaults,
         dead' \subseteq 1 .. serial, want' \in Config, limits' \in Limits,
         Good(r.next, serial), r.dies <= serial,
         live' \in {live, admin[a].next}, disk' \in {disk, admin[a].next},
         Valid(live'),
         \A d \in Devs : r.next.tok[d] \in {NoTok, live.tok[d], admin[a].next.tok[d]}
  PROVE  /\ Types' /\ Valid(live)' /\ OwnInv' /\ ViewInv'
         /\ \A b \in Admins : admin'[b] = IF b = a THEN r ELSE admin[b]
         /\ ~overlap => \A b \in Admins : b # a => ~Applying(b) /\ ~Applying(b)'
<1>1. \A b \in Admins : admin'[b] = IF b = a THEN r ELSE admin[b]
  BY DEF Inv, Types
<1>2. Good(live', serial) /\ Good(disk', serial) /\ serial \in Nat
  BY DEF Inv, Types
<1>3. Types'
  BY <1>2, TypesKeep DEF Inv, Types
<1>4. OwnInv'
  <2>1. PICK own : Owned(own)
    BY DEF Inv, OwnInv
  <2>2. Holds(own, r.next)
    BY <2>1, Secrets DEF Owned, Holds
  <2>3. Holds(own, live') /\ Holds(own, disk')
    BY <2>1 DEF Owned
  <2>4. \A b \in Admins : Holds(own, admin'[b].next)
    BY <1>1, <2>1, <2>2 DEF Owned
  <2>5. Owned(own)'
    BY <2>3, <2>4 DEF Owned, Holds
  <2> QED BY <2>5 DEF OwnInv
<1>5. ViewInv'
  BY <1>1 DEF Inv, ViewInv
<1>6. ~overlap => \A b \in Admins : b # a => ~Applying(b) /\ ~Applying(b)'
  BY <1>1 DEF Inv, SerialInv, Applying
<1>7. Valid(live)'
  BY DEF Valid
<1> QED BY <1>1, <1>3, <1>4, <1>5, <1>6, <1>7

\* Giving up without a change.
LEMMA GivesUp ==
  ASSUME Inv, NEW a \in Admins, Applying(a), admin' = [admin EXCEPT ![a] = Resting],
         UNCHANGED <<serial, edits, restarts, overlap, live, disk, limits, want, dead>>,
         faults' \in 0 .. MaxFaults,
         ~overlap => admin[a].pc \notin {"swap", "sync"}
  PROVE  Inv'
<1>1. Resting \in Admin /\ Good(Resting.next, serial) /\ Resting.pc = "idle" /\ Resting.dies = 0
  BY RestingGood, GoodGrows DEF Inv, Types
<1>2. /\ Types' /\ Valid(live)' /\ OwnInv' /\ ViewInv'
      /\ \A b \in Admins : admin'[b] = IF b = a THEN Resting ELSE admin[b]
      /\ ~overlap => \A b \in Admins : b # a => ~Applying(b) /\ ~Applying(b)'
  <2>1. Valid(live') /\ live' \in {live, admin[a].next} /\ disk' \in {disk, admin[a].next}
    BY DEF Inv
  <2>2. dead' \subseteq 1 .. serial /\ want' \in Config /\ limits' \in Limits
    BY DEF Inv, Types
  <2>3. Resting.dies <= serial /\ Resting.pc # "viewing"
    BY <1>1 DEF Inv, Types
  <2>4. \A d \in Devs : Resting.next.tok[d] \in {NoTok, live.tok[d], admin[a].next.tok[d]}
    BY RestingGood
  <2> QED BY <1>1, <2>1, <2>2, <2>3, <2>4, GoesOn
<1>3. SerialInv'
  <2> SUFFICES ASSUME ~overlap' PROVE SerialInv'
    BY DEF SerialInv
  <2>1. \A b \in Admins : ~Applying(b)' /\ (b # a => ~Applying(b))
    BY <1>1, <1>2 DEF Applying
  <2>2. \A b \in Admins : admin[b].pc \notin {"swap", "sync"}
    BY <2>1 DEF Applying
  <2>3. live = want /\ disk = want /\ limits = want.rpm
    BY <2>2 DEF Inv, SerialInv
  <2>4. \A b \in Admins : admin'[b].pc \notin {"resolve", "save", "swap", "sync"}
    BY <2>1 DEF Applying
  <2> QED BY <2>1, <2>3, <2>4 DEF SerialInv
<1>4. DeadInv'
  BY <1>1, <1>2 DEF Inv, DeadInv, Free, Applying
<1> QED BY <1>2, <1>3, <1>4 DEF Inv

LEMMA ResolveInv == ASSUME Inv, NEW a \in Admins, ValidateAndResolve(a) PROVE Inv'
<1>0. PICK n : n = Resolve(live, admin[a].next)
  OBVIOUS
<1> DEFINE c == admin[a].next
           r == [admin[a] EXCEPT !.pc = "save", !.next = n]
<1>1. /\ admin[a].pc = "resolve" /\ Applying(a) /\ admin[a] \in Admin /\ Good(c, serial)
      /\ serial \in Nat /\ Good(live, serial)
      /\ live' = live /\ disk' = disk /\ limits' = limits /\ want' = want /\ dead' = dead
      /\ serial' = serial /\ edits' = edits /\ faults' = faults /\ restarts' = restarts
      /\ overlap' = overlap
  BY DEF ValidateAndResolve, Inv, Types, Applying, stores, bounds, history
<1>2. CASE ~Valid(c)
  <2>1. admin' = [admin EXCEPT ![a] = Resting]
    BY <1>2 DEF ValidateAndResolve, Inv, Types
  <2> QED BY <1>1, <2>1, GivesUp DEF Inv, Types
<1>3. CASE Valid(c)
  <2>1. /\ Good(n, serial)
        /\ \A d \in Devs : n.tok[d] = Hash(c.tok[d], live.tok[d])
    BY <1>0, <1>1, ResolveGood
  <2>2. ~overlap => Valid(n) /\ \A d \in Devs : n.tok[d] = c.tok[d]
    BY <1>0, <1>1, <1>3, ResolveReady DEF Inv, SerialInv
  <2>3. admin' = [admin EXCEPT ![a] = r]
    <3>1. admin' = [admin EXCEPT ![a] =
             IF Valid(c) THEN [admin[a] EXCEPT !.pc = "save", !.next = Resolve(live, c)]
             ELSE Resting]
      BY DEF ValidateAndResolve
    <3>2. [admin[a] EXCEPT !.pc = "save", !.next = Resolve(live, c)] = r
      BY <1>0
    <3> HIDE DEF r
    <3> QED BY <1>3, <3>1, <3>2
  <2>4. r \in Admin /\ r.next = n /\ r.dies = admin[a].dies /\ r.pc = "save"
    BY <1>1, <2>1 DEF Admin, Good
  <2> HIDE DEF r
  <2>5. \A d \in Devs : n.tok[d] \in {NoTok, live.tok[d], c.tok[d]}
    BY <2>1 DEF Hash
  <2>6. /\ Types' /\ Valid(live)' /\ OwnInv' /\ ViewInv'
        /\ \A b \in Admins : admin'[b] = IF b = a THEN r ELSE admin[b]
        /\ ~overlap => \A b \in Admins : b # a => ~Applying(b) /\ ~Applying(b)'
    BY <1>1, <2>1, <2>3, <2>4, <2>5, GoesOn DEF Inv, Types
  <2>7. SerialInv'
    <3> SUFFICES ASSUME ~overlap' PROVE SerialInv'
      BY DEF SerialInv
    <3>1. \A b \in Admins : b # a => ~Applying(b) /\ ~Applying(b)'
      BY <1>1, <2>6
    <3>2. \A b \in Admins : admin[b].pc \notin {"swap", "sync"}
      BY <1>1, <3>1 DEF Applying
    <3>3. live = want /\ disk = want /\ limits = want.rpm
      BY <1>1, <3>2 DEF Inv, SerialInv
    <3>4. \A b \in Admins : b # a => admin'[b].pc \notin {"resolve", "save", "swap", "sync"}
      BY <3>1 DEF Applying
    <3>5. admin'[a] = r /\ Valid(n)'
      BY <1>1, <2>2, <2>6 DEF Valid
    <3> QED BY <1>1, <2>4, <3>1, <3>3, <3>4, <3>5 DEF SerialInv, Valid
  <2>8. DeadInv'
    <3> SUFFICES ASSUME ~overlap' PROVE DeadInv'
      BY DEF DeadInv
    <3>1. \A b \in Admins : Applying(b)' => b = a
      BY <1>1, <2>6
    <3>2. Free(live) /\ Free(disk) /\ Free(c)
          /\ (admin[a].dies # 0 => \A d \in Devs : c.tok[d].is # admin[a].dies)
      BY <1>1 DEF Inv, DeadInv
    <3>3. Free(n)' /\ (r.dies # 0 => \A d \in Devs : n.tok[d].is # r.dies)
      BY <1>1, <2>2, <2>4, <3>2 DEF Free
    <3>4. Free(live)' /\ Free(disk)'
      BY <1>1, <3>2 DEF Free
    <3>5. admin'[a] = r
      BY <2>6
    <3>6. Free(admin[a].next)'
      BY <2>4, <3>3, <3>5 DEF Free
    <3> QED BY <2>4, <3>1, <3>3, <3>4, <3>5, <3>6 DEF DeadInv
  <2> QED BY <2>6, <2>7, <2>8 DEF Inv
<1> QED BY <1>2, <1>3

LEMMA SaveInv == ASSUME Inv, NEW a \in Admins, Save(a) PROVE Inv'
<1> DEFINE c == admin[a].next
           r == [admin[a] EXCEPT !.pc = "swap"]
<1>1. PICK ok \in BOOLEAN :
        /\ ~ok => faults < MaxFaults
        /\ faults' = IF ok THEN faults ELSE faults + 1
        /\ disk' = IF ok THEN c ELSE disk
        /\ admin' = [admin EXCEPT ![a] = IF ok THEN r ELSE Resting]
  BY DEF Save, Stored, Inv, Types
<1>2. /\ admin[a].pc = "save" /\ Applying(a) /\ admin[a] \in Admin /\ Good(c, serial)
      /\ live' = live /\ limits' = limits /\ want' = want /\ dead' = dead
      /\ serial' = serial /\ edits' = edits /\ restarts' = restarts /\ overlap' = overlap
  BY DEF Save, Inv, Types, Applying, bounds, history
<1>3. faults' \in 0 .. MaxFaults
  BY <1>1 DEF Inv, Types
<1>4. CASE ~ok
  <2>1. admin' = [admin EXCEPT ![a] = Resting] /\ disk' = disk
    BY <1>1, <1>4
  <2> QED BY <1>2, <1>3, <2>1, GivesUp
<1>5. CASE ok
  <2>1. admin' = [admin EXCEPT ![a] = r] /\ disk' = c
    BY <1>1, <1>5
  <2>2. r \in Admin /\ r.next = c /\ r.dies = admin[a].dies /\ r.pc = "swap"
    BY <1>2 DEF Admin
  <2> HIDE DEF r
  <2>3. /\ Types' /\ Valid(live)' /\ OwnInv' /\ ViewInv'
        /\ \A b \in Admins : admin'[b] = IF b = a THEN r ELSE admin[b]
        /\ ~overlap => \A b \in Admins : b # a => ~Applying(b) /\ ~Applying(b)'
    BY <1>2, <1>3, <2>1, <2>2, GoesOn DEF Inv, Types
  <2>4. SerialInv'
    <3> SUFFICES ASSUME ~overlap' PROVE SerialInv'
      BY DEF SerialInv
    <3>1. \A b \in Admins : b # a => ~Applying(b)'
      BY <1>2, <2>3
    <3>2. \A b \in Admins : b # a => admin'[b].pc \notin {"resolve", "save", "swap", "sync"}
      BY <3>1 DEF Applying
    <3>3. Valid(c)
      BY <1>2 DEF Inv, SerialInv
    <3>4. admin'[a] = r /\ Valid(c)'
      BY <2>1, <2>2, <2>3, <3>3 DEF Valid
    <3> QED BY <2>1, <2>2, <3>1, <3>2, <3>3, <3>4 DEF SerialInv, Valid
  <2>5. DeadInv'
    <3> SUFFICES ASSUME ~overlap' PROVE DeadInv'
      BY DEF DeadInv
    <3>1. \A b \in Admins : Applying(b)' => b = a
      BY <1>2, <2>3
    <3>2. Free(live) /\ Free(c)
          /\ (admin[a].dies # 0 => \A d \in Devs : c.tok[d].is # admin[a].dies)
      BY <1>2 DEF Inv, DeadInv
    <3>3. admin'[a] = r
      BY <2>3
    <3>4. Free(live)' /\ Free(disk)' /\ Free(admin[a].next)'
      BY <1>2, <2>1, <2>2, <3>2, <3>3 DEF Free
    <3> QED BY <2>2, <3>1, <3>2, <3>3, <3>4 DEF DeadInv
  <2> QED BY <2>3, <2>4, <2>5 DEF Inv
<1> QED BY <1>4, <1>5

LEMMA SwapInv == ASSUME Inv, NEW a \in Admins, Swap(a) PROVE Inv'
<1> DEFINE c == admin[a].next
           r == [admin[a] EXCEPT !.pc = "sync"]
<1>1. /\ admin[a].pc = "swap" /\ Applying(a) /\ admin[a] \in Admin /\ Good(c, serial)
      /\ disk' = disk /\ limits' = limits /\ want' = want /\ dead' = dead /\ faults' = faults
      /\ serial' = serial /\ edits' = edits /\ restarts' = restarts /\ overlap' = overlap
  BY DEF Swap, Inv, Types, Applying, bounds, history
<1>2. faults' \in 0 .. MaxFaults
  BY <1>1 DEF Inv, Types
<1>3. CASE ~Valid(c)
  <2>1. admin' = [admin EXCEPT ![a] = Resting] /\ live' = live
    BY <1>3 DEF Swap, Accepts
  <2>2. overlap
    BY <1>1, <1>3 DEF Inv, SerialInv
  <2> QED BY <1>1, <1>2, <2>1, <2>2, GivesUp
<1>4. CASE Valid(c)
  <2>1. admin' = [admin EXCEPT ![a] = r] /\ live' = c
    BY <1>4 DEF Swap, Accepts
  <2>2. r \in Admin /\ r.next = c /\ r.dies = admin[a].dies /\ r.pc = "sync"
    BY <1>1 DEF Admin
  <2> HIDE DEF r
  <2>3. Valid(live')
    BY <1>4, <2>1
  <2>4. /\ Types' /\ Valid(live)' /\ OwnInv' /\ ViewInv'
        /\ \A b \in Admins : admin'[b] = IF b = a THEN r ELSE admin[b]
        /\ ~overlap => \A b \in Admins : b # a => ~Applying(b) /\ ~Applying(b)'
    BY <1>1, <1>2, <2>1, <2>2, <2>3, GoesOn DEF Inv, Types
  <2>5. SerialInv'
    <3> SUFFICES ASSUME ~overlap' PROVE SerialInv'
      BY DEF SerialInv
    <3>1. \A b \in Admins : b # a => ~Applying(b)'
      BY <1>1, <2>4
    <3>2. \A b \in Admins : b # a => admin'[b].pc \notin {"resolve", "save", "swap", "sync"}
      BY <3>1 DEF Applying
    <3>3. disk = c
      BY <1>1 DEF Inv, SerialInv
    <3>4. admin'[a] = r
      BY <2>4
    <3> QED BY <1>1, <2>1, <2>2, <3>1, <3>2, <3>3, <3>4 DEF SerialInv
  <2>6. DeadInv'
    <3> SUFFICES ASSUME ~overlap' PROVE DeadInv'
      BY DEF DeadInv
    <3>1. \A b \in Admins : Applying(b)' => b = a
      BY <1>1, <2>4
    <3>2. Free(disk) /\ Free(c)
          /\ (admin[a].dies # 0 => \A d \in Devs : c.tok[d].is # admin[a].dies)
      BY <1>1 DEF Inv, DeadInv
    <3>3. admin'[a] = r
      BY <2>4
    <3>4. Free(live)' /\ Free(disk)' /\ Free(admin[a].next)'
      BY <1>1, <2>1, <2>2, <3>2, <3>3 DEF Free
    <3> QED BY <2>2, <3>1, <3>2, <3>3, <3>4 DEF DeadInv
  <2> QED BY <2>4, <2>5, <2>6 DEF Inv
<1> QED BY <1>3, <1>4

LEMMA SyncInv == ASSUME Inv, NEW a \in Admins, Sync(a) PROVE Inv'
<1> DEFINE c == admin[a].next
<1>1. /\ admin[a].pc = "sync" /\ Applying(a) /\ admin[a] \in Admin /\ Good(c, serial)
      /\ limits' = c.rpm /\ want' = c /\ dead' = dead \cup ({admin[a].dies} \ {0})
      /\ admin' = [admin EXCEPT ![a] = Resting]
      /\ live' = live /\ disk' = disk /\ faults' = faults
      /\ serial' = serial /\ edits' = edits /\ restarts' = restarts /\ overlap' = overlap
  BY DEF Sync, Inv, Types, Applying, bounds
<1>2. faults' \in 0 .. MaxFaults /\ want' \in Config /\ limits' \in Limits
  BY <1>1, Fields DEF Inv, Types, Good
<1>3. dead' \subseteq 1 .. serial
  <2>1. admin[a].dies \in Nat /\ admin[a].dies <= serial /\ serial \in Nat /\ dead \subseteq 1 .. serial
    BY <1>1 DEF Inv, Types, Admin
  <2>2. admin[a].dies # 0 => admin[a].dies \in 1 .. serial
    BY <2>1
  <2> QED BY <1>1, <2>1, <2>2
<1>4. Resting \in Admin /\ Good(Resting.next, serial) /\ Resting.pc = "idle" /\ Resting.dies = 0
  BY RestingGood, GoodGrows DEF Inv, Types
<1>5. /\ Types' /\ Valid(live)' /\ OwnInv' /\ ViewInv'
      /\ \A b \in Admins : admin'[b] = IF b = a THEN Resting ELSE admin[b]
      /\ ~overlap => \A b \in Admins : b # a => ~Applying(b) /\ ~Applying(b)'
  <2>1. Valid(live') /\ live' \in {live, admin[a].next} /\ disk' \in {disk, admin[a].next}
    BY <1>1 DEF Inv
  <2>2. Resting.dies <= serial /\ Resting.pc # "viewing"
    BY <1>4 DEF Inv, Types
  <2>3. \A d \in Devs : Resting.next.tok[d] \in {NoTok, live.tok[d], admin[a].next.tok[d]}
    BY RestingGood
  <2> QED BY <1>1, <1>2, <1>3, <1>4, <2>1, <2>2, <2>3, GoesOn
<1>6. ASSUME ~overlap' PROVE \A b \in Admins : ~Applying(b)'
  BY <1>1, <1>4, <1>5, <1>6 DEF Applying
<1>7. SerialInv'
  <2> SUFFICES ASSUME ~overlap' PROVE SerialInv'
    BY DEF SerialInv
  <2>1. live = c /\ disk = c
    BY <1>1 DEF Inv, SerialInv
  <2>2. \A b \in Admins : admin'[b].pc \notin {"resolve", "save", "swap", "sync"}
    BY <1>6 DEF Applying
  <2> QED BY <1>1, <1>6, <2>1, <2>2 DEF SerialInv
<1>8. DeadInv'
  <2> SUFFICES ASSUME ~overlap' PROVE Free(live)' /\ Free(disk)'
    BY <1>6 DEF DeadInv
  <2>1. /\ Free(c) /\ live = c /\ disk = c
        /\ admin[a].dies # 0 => \A d \in Devs : c.tok[d].is # admin[a].dies
    BY <1>1 DEF Inv, DeadInv, SerialInv
  <2>2. admin[a].dies \in Nat /\ Plain(admin[a].dies).is = admin[a].dies
    BY <1>1, Secrets DEF Admin
  <2>3. \A d \in Devs : admin[a].dies # 0 => c.tok[d] # Plain(admin[a].dies)
    BY <2>1, <2>2
  <2> QED BY <1>1, <2>1, <2>3 DEF Free
<1> QED BY <1>5, <1>7, <1>8 DEF Inv

LEMMA RestartInv == Inv /\ Restart => Inv'
<1> SUFFICES ASSUME Inv, Restart PROVE Inv'
  OBVIOUS
<1>1. /\ restarts' \in 0 .. MaxRestarts /\ Valid(disk)
      /\ live' = disk /\ limits' = disk.rpm /\ want' = disk /\ disk' = disk
      /\ serial' = serial /\ edits' = edits /\ faults' = faults /\ dead' = dead
      /\ overlap' = overlap /\ admin' = [a \in Admins |-> Resting]
  BY DEF Restart, Inv, Types
<1>2. \A a \in Admins : admin'[a] = Resting
  BY <1>1
<1>3. Resting \in Admin /\ Good(Resting.next, serial) /\ Resting.pc = "idle" /\ Resting.dies = 0
  BY RestingGood, GoodGrows DEF Inv, Types
<1>4. Types'
  <2>1. disk \in Config /\ disk.rpm \in Limits
    BY Fields DEF Inv, Types, Good
  <2> QED BY <1>1, <1>2, <1>3, <2>1 DEF Inv, Types
<1>5. Valid(live)'
  BY <1>1 DEF Valid
<1>6. OwnInv'
  <2>1. PICK own : Owned(own)
    BY DEF Inv, OwnInv
  <2>2. Holds(own, Resting.next)
    BY RestingGood, Secrets DEF Holds
  <2>3. Owned(own)'
    BY <1>1, <1>2, <2>1, <2>2 DEF Owned, Holds
  <2> QED BY <2>3 DEF OwnInv
<1>7. ViewInv' /\ \A a \in Admins : ~Applying(a)'
  BY <1>2, <1>3 DEF ViewInv, Applying
<1>8. SerialInv' /\ DeadInv'
  BY <1>1, <1>2, <1>3, <1>7 DEF SerialInv, Inv, DeadInv, Free
<1> QED BY <1>4, <1>5, <1>6, <1>7, <1>8 DEF Inv

LEMMA StepInv == Inv /\ [Next]_vars => Inv'
<1> SUFFICES ASSUME Inv, [Next]_vars PROVE Inv'
  OBVIOUS
<1>1. ASSUME NEW a \in Admins, Edit(a) PROVE Inv'
  BY <1>1, EditInv
<1>2. ASSUME NEW a \in Admins, GetConfig(a) PROVE Inv'
  BY <1>2, GetInv
<1>3. ASSUME NEW a \in Admins, ReplaceConfig(a) PROVE Inv'
  BY <1>3, ReplaceInv
<1>4. ASSUME NEW a \in Admins, NEW d \in Devs, CreateDevice(a, d) PROVE Inv'
  BY <1>4, CreateInv
<1>5. ASSUME NEW a \in Admins, NEW d \in Devs, RotateDevice(a, d) PROVE Inv'
  BY <1>5, RotateInv
<1>6. ASSUME NEW a \in Admins, ValidateAndResolve(a) PROVE Inv'
  BY <1>6, ResolveInv
<1>7. ASSUME NEW a \in Admins, Save(a) PROVE Inv'
  BY <1>7, SaveInv
<1>8. ASSUME NEW a \in Admins, Swap(a) PROVE Inv'
  BY <1>8, SwapInv
<1>9. ASSUME NEW a \in Admins, Sync(a) PROVE Inv'
  BY <1>9, SyncInv
<1>10. CASE Restart
  BY <1>10, RestartInv
<1>11. CASE UNCHANGED vars
  BY <1>11 DEF vars, stores, bounds, history, Inv, Types, Good, KeysOK, ToksOK, Valid, OwnInv,
               Owned, Holds, ViewInv, SerialInv, Ready, Applying, DeadInv, Free
<1> QED BY <1>1, <1>2, <1>3, <1>4, <1>5, <1>6, <1>7, <1>8, <1>9, <1>10, <1>11 DEF Next

LEMMA Always == Spec => []Inv
<1>1. Init => Inv
  BY InitInv
<1> QED BY <1>1, StepInv, PTL DEF Spec

-----------------------------------------------------------------------------
\* The holder's configuration is well-formed and passes the validation at all times,
\* though masked secrets are restored after it was validated, from whatever is live then
\* (applyConfig, Holder.Set).
THEOREM LiveIsValid == Spec => []LiveValid
<1>1. Inv => TypeOK
  <2> SUFFICES ASSUME Inv PROVE TypeOK
    OBVIOUS
  <2>1. \A a \in Admins : admin[a] \in Admin /\ admin[a].dies \in 0 .. serial
    BY DEF Inv, Types, Admin
  <2>2. admin \in [Admins -> [pc : {"idle", "viewing", "resolve", "save", "swap", "sync"},
                              next : Config, dies : 0 .. serial]]
    <3>1. \A a \in Admins : admin[a] \in [pc : {"idle", "viewing", "resolve", "save", "swap", "sync"},
                                          next : Config, dies : 0 .. serial]
      BY <2>1 DEF Admin
    <3>2. admin \in [Admins -> Admin]
      BY DEF Inv, Types
    <3> QED BY <3>1, <3>2
  <2>3. \A c \in {live, disk} \cup {admin[a].next : a \in Admins} : Good(c, serial)
    BY DEF Inv, Types
  <2> QED BY <2>2, <2>3 DEF TypeOK, Inv, Types, Good, KeysOK, ToksOK
<1>2. Inv => LiveValid
  BY <1>1 DEF LiveValid, Inv
<1> QED BY <1>2, Always, PTL

\* Handlers that apply one after the other lose nothing: when none is applying, the last
\* acknowledged configuration is live, in the file and in the limiter, whichever saves
\* failed and wherever the process crashed (applyConfig, syncLimiters).
THEOREM EditsStick == Spec => []SerialSavesStick
<1>1. Inv => SerialSavesStick
  BY DEF Inv, SerialInv, SerialSavesStick, Applying
<1> QED BY <1>1, Always, PTL

\* While handlers apply one after the other, the token that a rotation replaced never
\* works again: no page that still shows the old configuration, no failed save and no
\* restart brings its hash back (adminRotateDevice, resolveMaskedSecrets).
THEOREM RotatedStaysDead == Spec => []DeadStayDead
<1>1. Inv => DeadStayDead
  BY DEF Inv, DeadInv, Free, DeadStayDead, TokenLives
<1> QED BY <1>1, Always, PTL
=============================================================================
