---------------------------- MODULE ConfigStore ----------------------------
(***************************************************************************)
(* How the admin API changes the configuration (server/handler_admin.go,   *)
(* config/).  Every handler clones the live configuration, edits the       *)
(* clone and applies it: validate, restore masked secrets, save the file,  *)
(* swap the holder, push the limits.  The configuration page instead GETs  *)
(* a masked view, keeps it as long as it likes, and POSTs all of it back.  *)
(* Nothing serialises two handlers.                                        *)
(*                                                                         *)
(* A configuration is reduced to what these steps tell apart: upstream     *)
(* keys, device token hashes, client tokens, disabled entries, one limit   *)
(* that has to be pushed (rpm) and one of the settings that SetDefaults    *)
(* fills in (idle: the stream watchdog is on).  A secret is a value, or    *)
(* its masked form; short values all have the same mask, which nothing     *)
(* recognises.                                                             *)
(***************************************************************************)
EXTENDS Naturals, FiniteSets

CONSTANTS
  Admins,        \* goroutines of the admin API
  Ups, Devs,     \* upstream names, device ids
  Keys, Clients, \* upstream keys; client tokens
  Short,         \* those of them of at most eight characters
  Empty, Absent, Stars, \* no key; no such entry; the mask of a short secret
  Limits,        \* values of rate_limit_per_minute
  MaxEdits, MaxFaults, MaxRestarts \* bounds

ASSUME ConfigAssumption ==
  /\ Short \subseteq Keys \cup Clients
  /\ Limits \subseteq Nat /\ Limits # {}
  /\ Cardinality({Empty, Absent, Stars}) = 3
  /\ {Empty, Absent, Stars} \cap (Keys \cup Clients) = {}
  /\ MaxEdits \in Nat /\ MaxFaults \in Nat /\ MaxRestarts \in Nat

VARIABLES
  live,    \* the holder's configuration
  disk,    \* the file
  limits,  \* the limiter's limit
  admin,   \* per admin: [pc, next, dies]: what it is about to apply, and the token
           \* that its rotation replaces
  serial,  \* device tokens issued so far: the tokens 1 .. serial
  edits, faults, restarts,
  want,    \* history: the last configuration a handler acknowledged
  dead,    \* history: tokens whose rotation was acknowledged
  overlap  \* history: two handlers were applying at the same time

stores == <<live, disk, limits>>
bounds == <<edits, faults, restarts>>
history == <<want, dead, overlap>>
vars == <<stores, admin, serial, bounds, history>>

Plain(v) == [is |-> v, masked |-> FALSE]
NoKey == Plain(Absent)
NoTok == Plain(0)

\* MaskToken: masking twice changes nothing.
Mask(x) ==
  IF x.is \in {Absent, Empty} THEN x
  ELSE IF x.is \in Short \cup {Stars} THEN Plain(Stars)
  ELSE [x EXCEPT !.masked = TRUE]

-----------------------------------------------------------------------------
\* Clone is a JSON round trip followed by SetDefaults.
Clone(c) == [c EXCEPT !.idle = TRUE]

\* Validate, as far as these fields go.
Valid(c) ==
  /\ \A u \in Ups : c.key[u] = Plain(Empty) => u \in c.off
  /\ \A d, e \in Devs : d # e /\ c.tok[d] # NoTok => c.tok[d] # c.tok[e]

\* adminGetConfig: what the page sees.
View(c) ==
  [Clone(c) EXCEPT !.key = [u \in Ups |-> Mask(@[u])],
                   !.tok = [d \in Devs |-> [is |-> @[d].is, masked |-> @[d] # NoTok]],
                   !.clients = {Mask(x) : x \in @}]

\* Mutant: the hash comes back from what the page saw.
HashAsSeen(x, old) == IF x.masked THEN Plain(x.is) ELSE x

Hash(x, old) == IF x.masked /\ old # NoTok THEN old ELSE x

\* resolveMaskedSecrets: a masked secret is looked up under its name in old.
Resolve(old, c) ==
  [c EXCEPT
    !.key = [u \in Ups |-> IF @[u].masked /\ old.key[u] # NoKey THEN old.key[u] ELSE @[u]],
    !.tok = [d \in Devs |-> Hash(@[d], old.tok[d])],
    !.clients = {IF x.masked /\ Plain(x.is) \in old.clients THEN Plain(x.is) ELSE x : x \in @}]

-----------------------------------------------------------------------------
\* The edits of the handlers on a clone c, one operator per family of routes.
Named(c) == {u \in Ups : c.key[u] # NoKey}
Known(c) == {d \in Devs : c.tok[d] # NoTok}

Toggle(c, n) == [c EXCEPT !.off = (@ \ {n}) \cup ({n} \ @)]
DropUpstream(c, u) == [c EXCEPT !.key[u] = NoKey, !.off = @ \ {u}]
DropDevice(c, d) == [c EXCEPT !.tok[d] = NoTok, !.off = @ \ {d}]

Renamed(c, u, v) ==
  [c EXCEPT !.key = [@ EXCEPT ![u] = NoKey, ![v] = c.key[u]],
            !.off = IF u \in @ THEN (@ \ {u}) \cup {v} ELSE @]
Rename(c) == {Renamed(c, u, v) : u \in Named(c), v \in Ups \ Named(c)}

\* adminUpdateUpstream keeps the key when none, or its mask, is sent.
Sent(old, k) == IF k = Plain(Empty) \/ (old # Plain(Empty) /\ k = Mask(old)) THEN old ELSE k

Added(c, u, k) ==
  [c EXCEPT !.key[u] = Plain(k), !.off = IF k = Empty THEN @ \cup {u} ELSE @]
AddUpstream(c) == {Added(c, u, k) : u \in Ups \ Named(c), k \in Keys \cup {Empty}}

UpdateUpstream(c) ==
  {[c EXCEPT !.key[u] = Sent(@, k)] :
     u \in Named(c), k \in {Plain(x) : x \in Keys} \cup {Mask(c.key[x]) : x \in Named(c)}}
  \cup {Toggle(c, u) : u \in Named(c)} \cup Rename(c)

DeleteUpstream(c) == {DropUpstream(c, u) : u \in Named(c)}

\* adminImportConfig, format oneapi: all upstreams are replaced by the channels of the
\* file, at least one, each with its key; those that are off come in disabled.
Imported(c, keys, off) ==
  [c EXCEPT !.key = [u \in Ups |-> Plain(keys[u])], !.off = (@ \ Ups) \cup off]
Channels(keys) == {u \in Ups : keys[u] # Absent}
Imports(c, keys) == {Imported(c, keys, off) : off \in SUBSET Channels(keys)}
ImportOneAPI(c) ==
  UNION {Imports(c, keys) : keys \in {f \in [Ups -> Keys \cup {Absent}] : Channels(f) # {}}}

ClientEdits(c) ==
  {[c EXCEPT !.clients = @ \cup {Plain(x)}] : x \in Clients}
  \cup {[c EXCEPT !.clients = @ \ {x}] : x \in c.clients}

DeviceEdits(c) == {Toggle(c, d) : d \in Known(c)} \cup {DropDevice(c, d) : d \in Known(c)}

\* A device gets a fresh token.
Issue(c, d) == [c EXCEPT !.tok[d] = Plain(serial + 1)]

\* What the page may have changed before it posts the view back.
PageEdits(c) ==
  {c} \cup {[c EXCEPT !.rpm = n] : n \in Limits} \cup {[c EXCEPT !.idle = FALSE]}
  \cup {DropDevice(c, d) : d \in Known(c)} \cup Rename(c)

-----------------------------------------------------------------------------
Blank ==
  [key |-> [u \in Ups |-> NoKey], off |-> {}, tok |-> [d \in Devs |-> NoTok],
   clients |-> {}, rpm |-> CHOOSE n \in Limits : TRUE, idle |-> FALSE]

Resting == [pc |-> "idle", next |-> Blank, dies |-> 0]
Applying(a) == admin[a].pc \notin {"idle", "viewing"}

Init ==
  /\ live \in {Blank} \cup {[Blank EXCEPT !.key[u] = Plain(k)] : u \in Ups, k \in Keys}
  /\ disk = live /\ limits = live.rpm /\ want = live
  /\ admin = [a \in Admins |-> Resting]
  /\ serial = 0 /\ edits = 0 /\ faults = 0 /\ restarts = 0
  /\ dead = {} /\ overlap = FALSE

\* Admin a applies c; dies is the token a rotation replaces.
Apply(a, c, dies) ==
  /\ edits < MaxEdits /\ edits' = edits + 1
  /\ admin' = [admin EXCEPT ![a] = [pc |-> "resolve", next |-> c, dies |-> dies]]
  /\ overlap' = (overlap \/ \E b \in Admins \ {a} : Applying(b))
  /\ UNCHANGED <<stores, faults, restarts, want, dead>>

Edit(a) ==
  /\ admin[a].pc = "idle"
  /\ LET c == Clone(live) IN
     \E next \in AddUpstream(c) \cup UpdateUpstream(c) \cup DeleteUpstream(c)
                 \cup ImportOneAPI(c) \cup ClientEdits(c) \cup DeviceEdits(c) :
       Apply(a, next, 0)
  /\ UNCHANGED serial

CreateDevice(a, d) ==
  /\ admin[a].pc = "idle" /\ live.tok[d] = NoTok
  /\ Apply(a, Issue(Clone(live), d), 0)
  /\ serial' = serial + 1

RotateDevice(a, d) ==
  /\ admin[a].pc = "idle" /\ live.tok[d] # NoTok
  /\ Apply(a, Issue(Clone(live), d), live.tok[d].is)
  /\ serial' = serial + 1

\* The page: GET a view, POST it (Import, and the first look at the live secrets).
GetConfig(a) ==
  /\ admin[a].pc = "idle" /\ edits < MaxEdits
  /\ admin' = [admin EXCEPT ![a] = [pc |-> "viewing", next |-> View(live), dies |-> 0]]
  /\ UNCHANGED <<stores, serial, bounds, history>>

ReplaceConfig(a) ==
  /\ admin[a].pc = "viewing"
  /\ \E c \in PageEdits(admin[a].next) : Valid(c) /\ Apply(a, Resolve(live, c), 0)
  /\ UNCHANGED serial

\* applyConfig: refuse, or restore what is still masked.
ValidateAndResolve(a) ==
  /\ admin[a].pc = "resolve"
  /\ admin' = [admin EXCEPT ![a] =
       IF Valid(@.next) THEN [@ EXCEPT !.pc = "save", !.next = Resolve(live, admin[a].next)]
       ELSE Resting]
  /\ UNCHANGED <<stores, serial, bounds, history>>

\* config.Save into a temporary file and rename: all or nothing.
StoredInPlace(c, ok) == disk' = c \* Mutant: a failed save has overwritten the file

Stored(c, ok) == disk' = IF ok THEN c ELSE disk

Save(a) ==
  /\ admin[a].pc = "save"
  /\ \E ok \in BOOLEAN :
       /\ ~ok => faults < MaxFaults
       /\ faults' = IF ok THEN faults ELSE faults + 1
       /\ Stored(admin[a].next, ok)
       /\ admin' = [admin EXCEPT ![a] = IF ok THEN [@ EXCEPT !.pc = "swap"] ELSE Resting]
  /\ UNCHANGED <<live, limits, serial, edits, restarts, history>>

AcceptsAll(c) == TRUE \* Mutant: Set relies on the earlier validation

Accepts(c) == Valid(c)

\* Holder.Set validates once more.
Swap(a) ==
  /\ admin[a].pc = "swap"
  /\ IF Accepts(admin[a].next)
       THEN /\ live' = admin[a].next
            /\ admin' = [admin EXCEPT ![a].pc = "sync"]
       ELSE /\ admin' = [admin EXCEPT ![a] = Resting]
            /\ UNCHANGED live
  /\ UNCHANGED <<disk, limits, serial, bounds, history>>

\* syncLimiters, and the answer.
Sync(a) ==
  /\ admin[a].pc = "sync"
  /\ limits' = admin[a].next.rpm
  /\ want' = admin[a].next
  /\ dead' = dead \cup ({admin[a].dies} \ {0})
  /\ admin' = [admin EXCEPT ![a] = Resting]
  /\ UNCHANGED <<live, disk, serial, bounds, overlap>>

\* A crash and a restart, which loads the file; an invalid one ends the story.
Restart ==
  /\ restarts < MaxRestarts /\ restarts' = restarts + 1
  /\ Valid(disk)
  /\ live' = disk /\ limits' = disk.rpm /\ want' = disk
  /\ admin' = [a \in Admins |-> Resting]
  /\ UNCHANGED <<disk, serial, edits, faults, dead, overlap>>

Next ==
  \/ \E a \in Admins :
       \/ Edit(a) \/ GetConfig(a) \/ ReplaceConfig(a)
       \/ \E d \in Devs : CreateDevice(a, d) \/ RotateDevice(a, d)
       \/ ValidateAndResolve(a) \/ Save(a) \/ Swap(a) \/ Sync(a)
  \/ Restart

Spec == Init /\ [][Next]_vars
-----------------------------------------------------------------------------
Secret(V) == [is : V, masked : BOOLEAN]
Config ==
  [key : [Ups -> Secret(Keys \cup {Empty, Absent, Stars})], off : SUBSET (Ups \cup Devs),
   tok : [Devs -> Secret(Nat)], clients : SUBSET Secret(Clients \cup {Stars}),
   rpm : Limits, idle : BOOLEAN]

\* The handlers' values; only long secrets are ever masked.
TypeOK ==
  /\ live \in Config /\ disk \in Config /\ want \in Config /\ limits \in Limits
  /\ admin \in [Admins -> [pc : {"idle", "viewing", "resolve", "save", "swap", "sync"},
                           next : Config, dies : 0 .. serial]]
  /\ serial \in Nat /\ dead \subseteq 1 .. serial /\ overlap \in BOOLEAN
  /\ edits \in 0 .. MaxEdits /\ faults \in 0 .. MaxFaults /\ restarts \in 0 .. MaxRestarts
  /\ \A c \in {live, disk} \cup {admin[a].next : a \in Admins} :
       /\ \A u \in Ups : c.key[u].masked => c.key[u].is \in Keys \ Short
       /\ \A d \in Devs : c.tok[d].is <= serial

\* As long as no two handlers applied at the same time, the last acknowledged edit is
\* what is live, on disk and in the limiter, whichever saves failed, whichever edits
\* were refused and wherever the process crashed.
SerialSavesStick ==
  ~overlap /\ (\A a \in Admins : ~Applying(a)) =>
    live = want /\ disk = want /\ limits = want.rpm

\* The holder never has an invalid configuration, though secrets are restored between
\* the validation and the swap, from whatever is live then.
LiveValid == TypeOK /\ Valid(live)

TokenLives(t) == \E d \in Devs : live.tok[d] = Plain(t)

\* "Old token stops working immediately", and stays dead, as long as no two handlers
\* apply at the same time: a page that still holds a view from before the rotation
\* does not bring the old hash back.
DeadStayDead == ~overlap => \A t \in dead : ~TokenLives(t)

\* The same without the exception.
RotatedTokenDead == \A t \in dead : ~TokenLives(t)
=============================================================================
