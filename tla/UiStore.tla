------------------------------ MODULE UiStore ------------------------------
(***************************************************************************)
(* The upstream and model tables of the gateway-ui server, and the routes  *)
(* that change them (gateway-ui/server/routes.js, schema and seed in       *)
(* db.js).  A handler without an await is one step of the single-threaded  *)
(* process; the probe is two, around the fetch it awaits.                  *)
(*                                                                         *)
(* A row's id is drawn at random and not drawn again.  Here it is the      *)
(* number of the row in the order of insertion: a table is the sequence of *)
(* the rows ever inserted, Gone in the place of one that was deleted.      *)
(***************************************************************************)
EXTENDS Clock, FiniteSets, Sequences

CONSTANTS
  ModelIds,   \* ids of model rows
  Probes,     \* probe requests in flight at once
  Addresses,  \* base URLs, the name column of upstreams
  Secrets,    \* api keys
  NoSecret,   \* the empty api_key
  EnvBase,    \* UPSTREAM_BASE_URL or its default
  EnvKey,     \* UPSTREAM_API_KEY, possibly NoSecret
  Gone, Keep,
  MaxEdits    \* bound: requests of the admin that change a table

UpRow == [name : Addresses, key : Secrets \cup {NoSecret},
          status : {"normal", "error"}, enabled : BOOLEAN, born : Nat]

ASSUME StoreAssumption ==
  /\ EnvBase \in Addresses
  /\ NoSecret \notin Secrets
  /\ EnvKey \in Secrets \cup {NoSecret}
  /\ Gone \notin UpRow \cup Nat
  /\ Keep \notin Addresses \cup Secrets \cup {NoSecret} \cup BOOLEAN
  /\ MaxEdits \in Nat

VARIABLES
  ups,     \* the upstreams table
  models,  \* per model row, the upstream_id it is bound to
  probe,   \* per probe in flight, the id of the row it was started for
  edits    \* changes made so far; the code has no such count

storeVars == <<ups, models, probe, edits>>

Null == 0  \* no row has this id

StoreTypeOK ==
  /\ ups \in Seq(UpRow \cup {Gone})
  /\ models \in [ModelIds -> Nat \cup {Gone}]
  /\ probe \in [Probes -> Nat]
  /\ edits \in 0 .. MaxEdits

Rows(table) == {r \in DOMAIN table : table[r] # Gone}

Seeded(name, key) ==
  [name |-> name, key |-> key, status |-> "normal", enabled |-> TRUE, born |-> now]

Edit == edits < MaxEdits /\ edits' = edits + 1

-----------------------------------------------------------------------------
\* POST /api/upstreams: a name that is taken is refused with a 409.
CreateUpstream(name, key) ==
  /\ Edit
  /\ \A v \in Rows(ups) : ups[v].name # name
  /\ ups' = Append(ups, Seeded(name, key))
  /\ UNCHANGED <<models, probe>>

Patched(new, old) == IF new = Keep THEN old ELSE new

\* PUT /api/upstreams/:id: a field that is absent keeps its value, an empty
\* api_key clears the key.  Unlike the POST it looks for no duplicate: the
\* UNIQUE constraint makes the UPDATE throw, and nothing changes.
UpdateUpstream(u, name, key, enabled) ==
  /\ Edit
  /\ u \in Rows(ups)
  /\ \A v \in Rows(ups) \ {u} : ups[v].name # name
  /\ ups' = [ups EXCEPT ![u].name = Patched(name, @),
                        ![u].key = Patched(key, @),
                        ![u].enabled = Patched(enabled, @)]
  /\ UNCHANGED <<models, probe>>

\* Mutant: foreign keys are not enforced, as SQLite's default is.
DeleteLeavingModels(u) ==
  /\ Edit
  /\ u \in Rows(ups)
  /\ ups' = [ups EXCEPT ![u] = Gone]
  /\ UNCHANGED <<models, probe>>

\* DELETE /api/upstreams/:id: ON DELETE SET NULL unbinds its models.
DeleteUpstream(u) ==
  /\ Edit
  /\ u \in Rows(ups)
  /\ ups' = [ups EXCEPT ![u] = Gone]
  /\ models' = [m \in ModelIds |-> IF models[m] = u THEN Null ELSE models[m]]
  /\ UNCHANGED probe

-----------------------------------------------------------------------------
\* POST /api/upstreams/:id/probe, up to its fetch.
ProbeStart(p, u) ==
  /\ probe[p] = Null
  /\ u \in Rows(ups)
  /\ probe' = [probe EXCEPT ![p] = u]
  /\ UNCHANGED <<ups, models, edits>>

\* The answer, a refusal or the timeout of 8 s: the UPDATE changes the row as
\* it is by then, or no row when it is gone.
ProbeEnd(p, status) ==
  /\ probe[p] # Null
  /\ ups' = IF probe[p] \in Rows(ups)
              THEN [ups EXCEPT ![probe[p]].status = status] ELSE ups
  /\ probe' = [probe EXCEPT ![p] = Null]
  /\ UNCHANGED <<models, edits>>

-----------------------------------------------------------------------------
Binding == Rows(ups) \cup {Null}

\* POST /api/models; an upstream_id that names no row violates the foreign key.
CreateModel(m, to) ==
  /\ Edit
  /\ models[m] = Gone
  /\ to \in Binding
  /\ models' = [models EXCEPT ![m] = to]
  /\ UNCHANGED <<ups, probe>>

\* PUT /api/models/:id with an upstream_id.
UpdateModel(m, to) ==
  /\ Edit
  /\ m \in Rows(models)
  /\ to \in Binding
  /\ models' = [models EXCEPT ![m] = to]
  /\ UNCHANGED <<ups, probe>>

\* DELETE /api/models/:id
DeleteModel(m) ==
  /\ Edit
  /\ m \in Rows(models)
  /\ models' = [models EXCEPT ![m] = Gone]
  /\ UNCHANGED <<ups, probe>>

StoreNext ==
  \/ \E name \in Addresses, key \in Secrets \cup {NoSecret} : CreateUpstream(name, key)
  \/ \E u \in Rows(ups) :
       \/ \E name \in Addresses \cup {Keep}, key \in Secrets \cup {NoSecret, Keep},
             enabled \in BOOLEAN \cup {Keep} : UpdateUpstream(u, name, key, enabled)
       \/ DeleteUpstream(u)
       \/ \E p \in Probes : ProbeStart(p, u)
  \/ \E p \in Probes, status \in {"normal", "error"} : ProbeEnd(p, status)
  \/ \E m \in ModelIds :
       \/ \E to \in Binding : CreateModel(m, to) \/ UpdateModel(m, to)
       \/ DeleteModel(m)

-----------------------------------------------------------------------------
\* seed: an empty upstreams table gets the one row of the environment ...
SeedUpstreams ==
  ups' = IF Rows(ups) = {} THEN Append(ups, Seeded(EnvBase, EnvKey)) ELSE ups

\* ... and an empty models table its defaults, bound to some upstream there is.
SeedModels ==
  IF Rows(models) = {}
    THEN \E u \in Rows(ups') : models' = [m \in ModelIds |-> u]
    ELSE UNCHANGED models

\* What a call is forwarded to: the oldest enabled upstream that is normal,
\* failing that the oldest enabled one, failing that the environment.  Rows of
\* one second come in no particular order.
Oldest(S) == {u \in S : \A v \in S : ups[u].born <= ups[v].born}

Chosen ==
  LET enabled == {u \in Rows(ups) : ups[u].enabled}
      normal == {u \in enabled : ups[u].status = "normal"}
  IN  Oldest(IF normal # {} THEN normal ELSE enabled)

\* key = upstreamRow?.api_key || UPSTREAM_KEY
CallKeys ==
  IF Chosen = {} THEN {EnvKey}
  ELSE {IF ups[u].key = NoSecret THEN EnvKey ELSE ups[u].key : u \in Chosen}

\* Whatever is deleted, renamed, probed or seeded, a model is bound to an
\* upstream that is there, and no address has two rows.
BindingsResolve ==
  /\ \A m \in Rows(models) : models[m] \in Binding
  /\ \A u, v \in Rows(ups) : ups[u].name = ups[v].name => u = v
=============================================================================
