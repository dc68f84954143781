------------------------------- MODULE Health -------------------------------
(***************************************************************************)
(* The upstream prober of stats/health.go, with the alert it raises when   *)
(* an upstream crosses the failure threshold (stats/alerts.go).            *)
(*                                                                         *)
(* The ticker's goroutine and every press of "probe now" run passes that   *)
(* may overlap.  A pass probes the enabled upstreams of the configuration  *)
(* it read, at most MaxConc at once, waits for all of them and saves every *)
(* state to disk.  A job is one probe goroutine of a pass.                 *)
(***************************************************************************)
EXTENDS Integers, Sequences, FiniteSets

CONSTANTS
  Ups,       \* upstream names
  Probers,   \* goroutines that run passes: the ticker's and admin requests
  NoOne,     \* the save lock is free
  Configs,   \* the configurations considered: [ups, threshold, alerts]
  MaxConc,   \* probe_concurrency
  MaxPasses, MaxRestarts \* bounds

ASSUME HealthAssumption ==
  /\ NoOne \notin Probers
  /\ Configs \subseteq [ups : SUBSET Ups, threshold : Nat \ {0}, alerts : BOOLEAN]
  /\ MaxConc \in Nat \ {0} /\ MaxPasses \in Nat /\ MaxRestarts \in Nat

VARIABLES
  cfg,      \* the live configuration
  states,   \* h.states
  pass,     \* per prober: [pc, snap], snap being the configuration it read
  job,      \* per prober and upstream: [at, ok, fails]
  saving,   \* who holds saveMu
  copy,     \* per prober: the states it is about to write
  disk,     \* health_state_file
  quiet,    \* the alert keys inside their dedup window
  hung,     \* the webhooks do not answer
  passes, restarts,  \* counted against their bounds
  results, base,     \* history: probe results since the start, and fails then
  told,              \* history: unhealthy less recovered callbacks
  steady, overlapped \* history: same threshold since the start; two jobs of one
                     \* upstream were between their probe and their set

jobVars == <<pass, job>>
saveVars == <<saving, copy, disk>>
alertVars == <<quiet, hung>>
history == <<results, base, told, steady, overlapped>>
bounds == <<passes, restarts>>
vars == <<cfg, states, jobVars, saveVars, alertVars, bounds, history>>

\* No entry in h.states reads like a healthy one that never failed; the version
\* counts the sets, so that an older state can be told from a newer one.
Unknown == [ok |-> TRUE, fails |-> 0, ver |-> 0]
NoJob == [at |-> "none", ok |-> TRUE, fails |-> 0]
Resting == [pc |-> "idle", snap |-> NoOne]

Bad(s, threshold) == ~s.ok /\ s.fails >= threshold

\* What the router asks: the live threshold, and the last known state.
IsHealthy(u) == ~Bad(states[u], cfg.threshold)

-----------------------------------------------------------------------------
Init ==
  /\ cfg \in Configs
  /\ states = [u \in Ups |-> Unknown]
  /\ pass = [p \in Probers |-> Resting]
  /\ job = [p \in Probers |-> [u \in Ups |-> NoJob]]
  /\ saving = NoOne /\ copy = [p \in Probers |-> states] /\ disk = states
  /\ quiet = {} /\ hung = FALSE
  /\ passes = 0 /\ restarts = 0
  /\ results = [u \in Ups |-> <<>>] /\ base = [u \in Ups |-> 0]
  /\ told = [u \in Ups |-> 0] /\ steady = TRUE /\ overlapped = FALSE

\* probePass: read the configuration and start a goroutine per enabled upstream.
Begin(p) ==
  /\ pass[p].pc = "idle" /\ passes < MaxPasses
  /\ pass' = [pass EXCEPT ![p] = [pc |-> "probing", snap |-> cfg]]
  /\ job' = [job EXCEPT ![p] =
       [u \in Ups |-> IF u \in cfg.ups THEN [NoJob EXCEPT !.at = "wait"] ELSE NoJob]]
  /\ passes' = passes + 1
  /\ UNCHANGED <<cfg, states, saveVars, alertVars, restarts, history>>

Move(p, u, place) == job' = [job EXCEPT ![p][u].at = place]

\* Mutant: a finished job keeps its slot.
HoldingForever(p) == {u \in Ups : job[p][u].at \notin {"none", "wait"}}

\* The jobs of p that hold a slot of its semaphore.
Holding(p) == {u \in Ups : job[p][u].at \in {"probe", "record", "set", "notify", "post"}}

HasSlot(p) == Cardinality(Holding(p)) < MaxConc

Acquire(p, u) ==
  /\ job[p][u].at = "wait" /\ HasSlot(p)
  /\ Move(p, u, "probe")
  /\ UNCHANGED <<cfg, states, pass, saveVars, alertVars, bounds, history>>

FailsSticky(u, ok) == states[u].fails + IF ok THEN 0 ELSE 1 \* Mutant: no reset

NewFails(u, ok) == IF ok THEN 0 ELSE states[u].fails + 1

\* The probe answers, fails or times out, and the previous count is read.
Probe(p, u) ==
  /\ job[p][u].at = "probe"
  /\ \E ok \in BOOLEAN :
       job' = [job EXCEPT ![p][u] = [at |-> "record", ok |-> ok, fails |-> NewFails(u, ok)]]
  /\ overlapped' = (overlapped \/ \E q \in Probers \ {p} : job[q][u].at \in {"record", "set"})
  /\ UNCHANGED <<cfg, states, pass, saveVars, alertVars, bounds, results, base, told, steady>>

\* recordHistory, under a lock of its own.
Record(p, u) ==
  /\ job[p][u].at = "record"
  /\ results' = [results EXCEPT ![u] = Append(@, job[p][u].ok)]
  /\ Move(p, u, "set")
  /\ UNCHANGED <<cfg, states, pass, saveVars, alertVars, bounds, base, told, steady, overlapped>>

\* Mutant: the job judges the previous state by the count it read itself.
WasBadStale(p, u) == ~job[p][u].ok /\ job[p][u].fails > pass[p].snap.threshold

WasBad(p, u) == Bad(states[u], pass[p].snap.threshold)

\* set: swap the state, and call OnTransition when the threshold was crossed.
Set(p, u) ==
  /\ job[p][u].at = "set"
  /\ LET new == [ok |-> job[p][u].ok, fails |-> job[p][u].fails, ver |-> states[u].ver + 1]
         bad == Bad(new, pass[p].snap.threshold)
     IN
     /\ states' = [states EXCEPT ![u] = new]
     /\ told' = [told EXCEPT ![u] =
          IF WasBad(p, u) = bad THEN @ ELSE IF bad THEN @ + 1 ELSE @ - 1]
     /\ Move(p, u, IF WasBad(p, u) = bad THEN "done" ELSE "notify")
  /\ UNCHANGED <<cfg, pass, saveVars, alertVars, bounds, results, base, steady, overlapped>>

\* OnTransition ends in Notify, on the probe's goroutine: nothing when the kind is
\* off or kind and name are inside their dedup window ...
Notify(p, u) ==
  /\ job[p][u].at = "notify"
  /\ LET key == <<job[p][u].ok, u>>
         sends == cfg.alerts /\ key \notin quiet
     IN /\ quiet' = quiet \cup (IF sends THEN {key} ELSE {})
        /\ Move(p, u, IF sends THEN "post" ELSE "done")
  /\ UNCHANGED <<cfg, states, pass, saveVars, hung, bounds, history>>

\* ... else a post without a timeout.
Post(p, u) ==
  /\ job[p][u].at = "post" /\ ~hung
  /\ Move(p, u, "done")
  /\ UNCHANGED <<cfg, states, pass, saveVars, alertVars, bounds, history>>

\* wg.Wait, then save: under saveMu the states are copied ...
CanSaveAlways(p) == TRUE \* Mutant: without saveMu

CanSave(p) == saving = NoOne

SaveBegin(p) ==
  /\ pass[p].pc = "probing" /\ \A u \in Ups : job[p][u].at \in {"none", "done"}
  /\ CanSave(p)
  /\ saving' = p /\ copy' = [copy EXCEPT ![p] = states]
  /\ pass' = [pass EXCEPT ![p].pc = "saving"]
  /\ UNCHANGED <<cfg, states, job, disk, alertVars, bounds, history>>

\* ... and the file is replaced, unless writing the temporary one failed.
SaveEnd(p) ==
  /\ pass[p].pc = "saving"
  /\ disk' \in {disk, copy[p]}
  /\ saving' = NoOne
  /\ pass' = [pass EXCEPT ![p] = Resting]
  /\ job' = [job EXCEPT ![p] = [u \in Ups |-> NoJob]]
  /\ UNCHANGED <<cfg, states, copy, alertVars, bounds, history>>

\* The environment: a save of the configuration, a webhook that stops or starts
\* answering, the end of a dedup window, a restart.
Reconfigure(c) ==
  /\ cfg' = c
  /\ steady' = (steady /\ c.threshold = cfg.threshold)
  /\ UNCHANGED <<states, jobVars, saveVars, alertVars, bounds, results, base, told, overlapped>>

Webhooks ==
  /\ hung' = ~hung
  /\ UNCHANGED <<cfg, states, jobVars, saveVars, quiet, bounds, history>>

WindowEnds(key) ==
  /\ key \in quiet /\ quiet' = quiet \ {key}
  /\ UNCHANGED <<cfg, states, jobVars, saveVars, hung, bounds, history>>

Restart ==
  /\ restarts < MaxRestarts /\ restarts' = restarts + 1
  /\ states' = disk
  /\ base' = [u \in Ups |-> disk[u].fails]
  /\ told' = [u \in Ups |-> IF Bad(disk[u], cfg.threshold) THEN 1 ELSE 0]
  /\ results' = [u \in Ups |-> <<>>] /\ steady' = TRUE /\ overlapped' = FALSE
  /\ pass' = [p \in Probers |-> Resting]
  /\ job' = [p \in Probers |-> [u \in Ups |-> NoJob]]
  /\ saving' = NoOne /\ quiet' = {}
  /\ UNCHANGED <<cfg, copy, disk, hung, passes>>

Job(p, u) == Acquire(p, u) \/ Probe(p, u) \/ Record(p, u) \/ Set(p, u) \/ Notify(p, u)

Next ==
  \/ \E p \in Probers :
       \/ Begin(p) \/ SaveBegin(p) \/ SaveEnd(p)
       \/ \E u \in Ups : Job(p, u) \/ Post(p, u)
  \/ \E c \in Configs : Reconfigure(c)
  \/ \E key \in BOOLEAN \X Ups : WindowEnds(key)
  \/ Webhooks \/ Restart

Spec == Init /\ [][Next]_vars

\* Goroutines run, a probe has a timeout, and a waiting locker gets the mutex in the
\* end (Go's mutex hands over to a starving one).  A webhook owes an answer only
\* while it is not hung.
FairSpec ==
  /\ Spec
  /\ \A p \in Probers :
       /\ SF_vars(SaveBegin(p)) /\ WF_vars(SaveEnd(p))
       /\ \A u \in Ups : WF_vars(Job(p, u)) /\ WF_vars(Post(p, u))

-----------------------------------------------------------------------------
Statuses == [Ups -> [ok : BOOLEAN, fails : Nat, ver : Nat]]

TypeOK ==
  /\ cfg \in Configs /\ states \in Statuses /\ disk \in Statuses
  /\ pass \in [Probers -> [pc : {"idle", "probing", "saving"}, snap : Configs \cup {NoOne}]]
  /\ job \in [Probers -> [Ups ->
       [at : {"none", "wait", "probe", "record", "set", "notify", "post", "done"},
        ok : BOOLEAN, fails : Nat]]]
  /\ saving \in Probers \cup {NoOne} /\ copy \in [Probers -> Statuses]
  /\ quiet \subseteq BOOLEAN \X Ups /\ hung \in BOOLEAN
  /\ passes \in 0 .. MaxPasses /\ restarts \in 0 .. MaxRestarts
  /\ results \in [Ups -> Seq(BOOLEAN)] /\ base \in [Ups -> Nat] /\ told \in [Ups -> Int]
  /\ steady \in BOOLEAN /\ overlapped \in BOOLEAN
  /\ \A p \in Probers : Cardinality(Holding(p)) <= MaxConc

\* The callbacks tell the state: while the threshold stays the same, an upstream was
\* reported unhealthy once more than recovered exactly when it is bad, however the
\* passes overlap: no crossing is reported twice or never.
TransitionsTold ==
  steady => \A u \in Ups : told[u] = IF Bad(states[u], cfg.threshold) THEN 1 ELSE 0

\* The failures at the end of the recorded results, and those before the start if
\* nothing else was recorded.
Trailing(u) ==
  LET oks == {j \in 1 .. Len(results[u]) : results[u][j]} IN
  IF oks = {} THEN base[u] + Len(results[u])
  ELSE Len(results[u]) - CHOOSE j \in oks : \A x \in oks : x <= j

Settled(u) == \A p \in Probers : job[p][u].at # "set"

\* While jobs of one upstream do not overlap, the counter is the number of failures in
\* a row, across restarts and changes of the upstream list.
CountsInARow ==
  TypeOK /\ (~overlapped => \A u \in Ups : Settled(u) => states[u].fails = Trailing(u))

\* The saved state of an upstream never goes back to an older one, though passes
\* that end together save at the same time.
SavedForward == [][\A u \in Ups : disk'[u].ver >= disk[u].ver]_vars

\* A pass ends, as long as the webhooks answer.
PassesEnd == []~hung => \A p \in Probers : pass[p].pc # "idle" ~> pass[p].pc = "idle"
=============================================================================
