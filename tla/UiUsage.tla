------------------------------ MODULE UiUsage ------------------------------
(***************************************************************************)
(* The usage page of gateway-ui (Usage.tsx): its table is loaded for the   *)
(* range, model and source selected, when one of them changes, at a button *)
(* and every sixty seconds.  Loads overlap, and answer in any order.       *)
(***************************************************************************)
EXTENDS Naturals

CONSTANTS
  Filters,     \* what can be selected: a range, a model and a source
  NoFilter,
  MaxLoads,    \* bound: loads on their way for one filter
  MaxChanges   \* bound: selections made

VARIABLES
  page,     \* the page that is mounted
  filter,   \* what is selected
  changes,  \* selections made
  effects,  \* load has changed since its effects ran
  closure,  \* the filter of the load the interval calls
  shown,    \* what the table was loaded for
  loading, error,
  loads     \* per filter, its loads on their way

usageVars == <<page, filter, changes, effects, closure, shown, loading, error, loads>>

UsageTypeOK ==
  /\ filter \in Filters /\ changes \in 0 .. MaxChanges
  /\ closure \in Filters \cup {NoFilter} /\ shown \in Filters \cup {NoFilter}
  /\ effects \in BOOLEAN /\ loading \in BOOLEAN /\ error \in BOOLEAN
  /\ loads \in [Filters -> 0 .. MaxLoads]

Present == page = "usage"
NoLoads == [f \in Filters |-> 0]
First == CHOOSE f \in Filters : TRUE

UsageInit ==
  /\ filter = First /\ changes = 0 /\ effects = FALSE /\ closure = NoFilter
  /\ shown = NoFilter /\ loading = FALSE /\ error = FALSE /\ loads = NoLoads

\* The page comes anew, its effects still to be run; nothing is left of it when
\* it goes.
Remount(mounting) ==
  /\ filter' = First /\ changes' = 0 /\ effects' = mounting /\ closure' = NoFilter
  /\ shown' = NoFilter /\ loading' = mounting /\ error' = FALSE /\ loads' = NoLoads

\* load: overlapping ones of one filter are as one when there are too many.
Loads(f) ==
  /\ loads' = [loads EXCEPT ![f] = IF @ < MaxLoads THEN @ + 1 ELSE @]
  /\ loading' = TRUE /\ error' = FALSE

\* A range, a model or a source is selected; load is another function now.
Select(f) ==
  /\ Present /\ f # filter /\ changes < MaxChanges
  /\ filter' = f /\ changes' = changes + 1 /\ effects' = TRUE
  /\ UNCHANGED <<page, closure, shown, loading, error, loads>>

\* Mutant: the interval keeps the load it was made with.
RunEffectsOnce ==
  /\ Present /\ effects
  /\ effects' = FALSE
  /\ closure' = IF closure = NoFilter THEN filter ELSE closure
  /\ Loads(filter)
  /\ UNCHANGED <<page, filter, changes, shown>>

\* The effects on load: load, and make the interval anew.
RunEffects ==
  /\ Present /\ effects
  /\ effects' = FALSE
  /\ closure' = filter
  /\ Loads(filter)
  /\ UNCHANGED <<page, filter, changes, shown>>

\* The countdown reaches its end.
IntervalFires ==
  /\ Present /\ closure # NoFilter
  /\ Loads(closure)
  /\ UNCHANGED <<page, filter, changes, effects, closure, shown>>

\* The button.
LoadNow ==
  /\ Present /\ ~effects
  /\ Loads(filter)
  /\ UNCHANGED <<page, filter, changes, effects, closure, shown>>

\* The three answers of a load are shown together, whichever load it is.
Loaded(f) ==
  /\ loads[f] > 0
  /\ loads' = [loads EXCEPT ![f] = @ - 1]
  /\ shown' = f /\ loading' = FALSE
  /\ UNCHANGED <<page, filter, changes, effects, closure, error>>

LoadFails(f) ==
  /\ loads[f] > 0
  /\ loads' = [loads EXCEPT ![f] = @ - 1]
  /\ error' = TRUE /\ loading' = FALSE
  /\ UNCHANGED <<page, filter, changes, effects, closure, shown>>

UsageNext ==
  \/ \E f \in Filters : Select(f) \/ Loaded(f) \/ LoadFails(f)
  \/ RunEffects \/ IntervalFires \/ LoadNow

\* React runs effects, the interval goes on, and a load is answered or fails.
UsageFairness ==
  /\ WF_usageVars(RunEffects) /\ WF_usageVars(IntervalFires)
  /\ \A f \in Filters : WF_usageVars(Loaded(f) \/ LoadFails(f))

-----------------------------------------------------------------------------
\* A table for an earlier selection does not stay: again and again the page
\* shows what is selected, or that it could not be loaded, although an answer
\* to an earlier load may come last.
UsageConverges == []<>(UsageTypeOK /\ (Present => shown = filter \/ error))
=============================================================================
