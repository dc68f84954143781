------------------------------ MODULE UiServer -----------------------------
(***************************************************************************)
(* The gateway-ui server: its device tokens, its proxy for chat            *)
(* completions and its call log (gateway-ui/server/index.js), over the     *)
(* tables of UiStore.                                                      *)
(*                                                                         *)
(* The proxy reads the device, its limit and the upstream in one step, up  *)
(* to the fetch; when the fetch settles, however it does, the call is      *)
(* logged and the client answered.  Anything may happen in between.        *)
(*                                                                         *)
(* What of a call's body matters is its model.  Text or a number is looked *)
(* up, forwarded and logged.  An empty object or array is looked up as a   *)
(* set of named parameters, is forwarded, and cannot be stored: the INSERT *)
(* throws, in the catch as well, and Express answers 500.  Any other value *)
(* makes the lookup throw, before the fetch: nothing is done.              *)
(***************************************************************************)
EXTENDS UiStore

CONSTANTS
  Calls,     \* clients of the proxy at once
  SeedDevs,  \* the device rows of seed, as records of rpm and enabled
  Limits,    \* the rpm limits considered; 0 stands for none
  Window,    \* 60 seconds
  MaxCalls   \* bound: rows and calls in flight that a new call may find

\* cap is the largest limit the device has had, 0 once it had none: a record of
\* the past that the table does not keep.
DevRow == [key : Nat, rpm : Limits, enabled : BOOLEAN, cap : Limits]

ASSUME ServerAssumption ==
  /\ Limits \subseteq Nat /\ 0 \in Limits
  /\ SeedDevs \in Seq([rpm : Limits, enabled : BOOLEAN]) /\ SeedDevs # <<>>
  /\ Window \in Nat \ {0} /\ MaxCalls \in Nat
  /\ IsFiniteSet(Calls)
  /\ Gone \notin DevRow

VARIABLES
  devs,    \* the devices table
  issued,  \* keys generated so far; a key is its number
  call,    \* per client, the id of the device its call was admitted for
  hollow,  \* the clients whose call has an empty object for its model
  log      \* the logs table

vars == <<now, ups, models, probe, edits, devs, issued, call, hollow, log>>

\* again marks the second row of a call: a record of which row is whose that
\* the table does not keep.
LogRow == [dev : Nat, at : Nat, again : BOOLEAN]

TypeOK ==
  /\ StoreTypeOK
  /\ now \in Nat
  /\ devs \in Seq(DevRow \cup {Gone})
  /\ issued \in Nat
  /\ call \in [Calls -> Nat]
  /\ hollow \in SUBSET Calls
  /\ log \in Seq(LogRow)

InFlight(d) == {c \in Calls : call[c] = d}
Active == {c \in Calls : call[c] # Null}

\* The calls whose end is logged, and those whose end is not.
Named == Active \ hollow
Unnamed == Active \cap hollow

\* created_at > datetime('now', '-60 seconds')
Recent(d) == {i \in DOMAIN log : log[i].dev = d /\ log[i].at + Window > now}

-----------------------------------------------------------------------------
NewRow(key, rpm, enabled) ==
  [key |-> key, rpm |-> rpm, enabled |-> enabled, cap |-> rpm]

\* seed, of the devices
SeedRows ==
  [i \in DOMAIN SeedDevs |-> NewRow(issued + i, SeedDevs[i].rpm, SeedDevs[i].enabled)]

SeedDevices ==
  IF Rows(devs) = {}
    THEN devs' = devs \o SeedRows /\ issued' = issued + Len(SeedDevs)
    ELSE UNCHANGED <<devs, issued>>

\* A new database, before initDb seeds it.
Init ==
  /\ now = 0 /\ edits = 0 /\ issued = 0 /\ log = <<>>
  /\ ups = <<>> /\ devs = <<>>
  /\ models = [m \in ModelIds |-> Gone]
  /\ probe = [p \in Probes |-> Null]
  /\ call = [c \in Calls |-> Null]
  /\ hollow = {}

\* Mutant: seed refills the devices without looking whether any is left.
RestartReseeding ==
  /\ probe' = [p \in Probes |-> Null]
  /\ call' = [c \in Calls |-> Null]
  /\ hollow' = {}
  /\ devs' = devs \o SeedRows /\ issued' = issued + Len(SeedDevs)
  /\ SeedUpstreams
  /\ SeedModels
  /\ UNCHANGED <<now, edits, log>>

\* The process ends, with whatever it had in flight, and starts again: initDb.
Restart ==
  /\ probe' = [p \in Probes |-> Null]
  /\ call' = [c \in Calls |-> Null]
  /\ hollow' = {}
  /\ SeedDevices
  /\ SeedUpstreams
  /\ SeedModels
  /\ UNCHANGED <<now, edits, log>>

\* Nothing is served before the first start.
Up == issued > 0

-----------------------------------------------------------------------------
Issue == issued' = issued + 1

\* POST /api/tokens
CreateDevice(rpm) ==
  /\ Edit /\ Issue
  /\ devs' = Append(devs, NewRow(issued', rpm, TRUE))
  /\ UNCHANGED <<now, ups, models, probe, call, hollow, log>>

Raised(old, rpm) == IF rpm = 0 \/ old = 0 THEN 0 ELSE IF rpm < old THEN old ELSE rpm

\* PUT /api/tokens/:id
UpdateDevice(d, rpm, enabled) ==
  /\ Edit
  /\ devs' = [devs EXCEPT ![d].rpm = rpm, ![d].enabled = enabled, ![d].cap = Raised(@, rpm)]
  /\ UNCHANGED <<now, ups, models, probe, issued, call, hollow, log>>

\* DELETE /api/tokens/:id; its log rows stay, and so do its calls in flight.
DeleteDevice(d) ==
  /\ Edit
  /\ devs' = [devs EXCEPT ![d] = Gone]
  /\ UNCHANGED <<now, ups, models, probe, issued, call, hollow, log>>

\* POST /api/tokens/:id/rotate
Rotate(d) ==
  /\ Edit /\ Issue
  /\ devs' = [devs EXCEPT ![d].key = issued']
  /\ UNCHANGED <<now, ups, models, probe, call, hollow, log>>

-----------------------------------------------------------------------------
\* Mutant: the limit itself is let through.
HasRoomLate(d) == devs[d].rpm # 0 => Cardinality(Recent(d)) <= devs[d].rpm

\* The limit looks at the rows of the last minute only.
HasRoom(d) == devs[d].rpm # 0 => Cardinality(Recent(d)) < devs[d].rpm

\* The device a key lets in; a key that is unknown or whose device is disabled
\* is answered 401 or 403.
LetIn(key) == {d \in Rows(devs) : devs[d].key = key /\ devs[d].enabled}

Room == Len(log) + Cardinality(Active) < MaxCalls

Logged(d, again) == [dev |-> d, at |-> now, again |-> again]

\* POST /v1/chat/completions up to its fetch ...
Begin(c, d, empty) ==
  /\ Room
  /\ call[c] = Null
  /\ HasRoom(d)
  /\ \E key \in CallKeys : key # NoSecret
  /\ call' = [call EXCEPT ![c] = d]
  /\ hollow' = IF empty THEN hollow \cup {c} ELSE hollow \ {c}
  /\ UNCHANGED <<now, ups, models, probe, edits, devs, issued, log>>

\* ... or up to its 500 when no key is configured, which leaves a row too, but
\* for a call that cannot be logged.
Misconfigured(c, d) ==
  /\ Room
  /\ call[c] = Null
  /\ HasRoom(d)
  /\ NoSecret \in CallKeys
  /\ log' = Append(log, Logged(d, FALSE))
  /\ UNCHANGED <<now, ups, models, probe, edits, devs, issued, call, hollow>>

\* Mutant: a fetch that throws leaves no row.
SettledUnlogged(c) == {log, Append(log, Logged(call[c], FALSE))}

\* The log when the call of c has settled, with an answer, a refusal or an
\* error: one row; two when the upstream's Content-Type is malformed, for
\* res.send throws after the row is written and the catch logs a 502.
Settled(c) ==
  IF c \in hollow THEN {log}
  ELSE LET once == Append(log, Logged(call[c], FALSE))
       IN  {once, Append(once, Logged(call[c], TRUE))}

\* The rest of the call, once its fetch settles.
End(c) ==
  /\ call[c] # Null
  /\ log' \in Settled(c)
  /\ call' = [call EXCEPT ![c] = Null]
  /\ hollow' = hollow \ {c}
  /\ UNCHANGED <<now, ups, models, probe, edits, devs, issued>>

TimePasses ==
  /\ Tick
  /\ UNCHANGED <<ups, models, probe, edits, devs, issued, call, hollow, log>>

Next ==
  \/ Restart \/ TimePasses
  \/ Up /\ StoreNext /\ UNCHANGED <<now, devs, issued, call, hollow, log>>
  \/ Up /\ \E rpm \in Limits : CreateDevice(rpm)
  \/ \E d \in Rows(devs) :
       \/ \E rpm \in Limits, enabled \in BOOLEAN : UpdateDevice(d, rpm, enabled)
       \/ DeleteDevice(d) \/ Rotate(d)
  \/ \E c \in Calls, key \in 1 .. issued : \E d \in LetIn(key) :
       \/ \E empty \in BOOLEAN : Begin(c, d, empty)
       \/ Misconfigured(c, d)
  \/ \E c \in Calls : End(c)

\* No fairness: undici times out an upstream that falls silent, not one whose
\* body never ends, so a call need not settle.
Spec == Init /\ [][Next]_vars

-----------------------------------------------------------------------------
(* Properties. *)

\* The calls of d in the last minute, finished or in flight, those aside whose
\* model cannot be logged.
Finished(d) == {i \in Recent(d) : ~ log[i].again}
Counted(d) == Cardinality(Finished(d)) + Cardinality(InFlight(d) \ hollow)

\* The limit counts the rows of finished calls, so the calls of one device may
\* go over it, but by fewer than the clients there are: of those in flight,
\* all but one can have been admitted on the same count.  A call that leaves
\* two rows brings the limit nearer; one that leaves none is not bounded.
RpmOvershoot ==
  \A d \in Rows(devs) : devs[d].cap > 0 => Counted(d) < devs[d].cap + Cardinality(Calls)

\* No probe that comes back late, no call and no restart changes what the admin
\* entered: a table that is not empty keeps its rows, but for the status of an
\* upstream, until the next request of the admin.
OnlyTheAdminEdits ==
  [][edits' = edits =>
       /\ Rows(devs) # {} => devs' = devs
       /\ Rows(models) # {} => models' = models
       /\ Rows(ups) # {} =>
            /\ Rows(ups') = Rows(ups)
            /\ \A u \in Rows(ups) : ups'[u] = [ups[u] EXCEPT !.status = ups'[u].status]]_vars

\* A call that can be logged is settled by one row or two, never by none unless
\* the process stops first; a row belongs to one call, and once written stays.
L == INSTANCE Ledger WITH open <- Named, dark <- Unnamed, rows <- Len(log)

Accounted == L!LedgerSpec
=============================================================================
