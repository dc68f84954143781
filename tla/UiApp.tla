------------------------------- MODULE UiApp -------------------------------
(***************************************************************************)
(* The pages of gateway-ui that keep a conversation with the server over a *)
(* longer time, as App.tsx mounts them: one at a time, each afresh         *)
(* (key={page}).  What a page has sent before it goes is not called back.  *)
(***************************************************************************)
EXTENDS Naturals, FiniteSets, Sequences

CONSTANTS
  MaxSends, MaxTicks, MaxKeys, Idle,                             \* of UiPlayground
  Switches, Numbers, Ips, Values, Texts, Default, Unset, MaxWrites, MaxNet, \* of UiSettings
  Filters, NoFilter, MaxLoads, MaxChanges,                       \* of UiUsage
  MaxMounts  \* bound: pages mounted

ASSUME PlaygroundAssumption == MaxSends \in Nat /\ MaxTicks \in Nat \ {0} /\ MaxKeys \in Nat

ASSUME SettingsAssumption ==
  /\ \A v \in Values \cup SUBSET Ips : Unset # v
  /\ Default \in Values /\ Texts \subseteq Values
  /\ MaxWrites \in Nat /\ MaxNet \in Nat \ {0}
  /\ Switches \cap Numbers = {}
  /\ {"ip_whitelist", "budget_threshold", "webhook_url"} \cap (Switches \cup Numbers) = {}

ASSUME UsageAssumption == NoFilter \notin Filters /\ MaxLoads \in Nat \ {0} /\ MaxChanges \in Nat

VARIABLES
  page, mount,
  key, stray, boot, fresh, token, asked, answer, typing, stream, timer, sent, send, torn,
  store, writes, cfg, hook, typed, drag, saving, net, orphans, wanted,
  filter, changes, effects, closure, shown, loading, error, loads

P == INSTANCE UiPlayground
S == INSTANCE UiSettings
U == INSTANCE UiUsage

ASSUME IdleAssumption == Idle \notin P!Handlers

playgroundPart ==
  <<key, stray, boot, fresh, token, asked, answer, typing, stream, timer, sent, send, torn>>
settingsPart ==
  <<store, writes, cfg, hook, typed, drag, saving, net, orphans, wanted>>
usagePart == <<filter, changes, effects, closure, shown, loading, error, loads>>
appVars == <<page, mount, playgroundPart, settingsPart, usagePart>>

AppInit ==
  /\ page = "elsewhere" /\ mount = 0
  /\ P!PlaygroundInit
  /\ S!SettingsInit
  /\ U!UsageInit

\* setPage
Navigate(to) ==
  /\ to # page
  /\ page' = to
  /\ mount' = IF to = "elsewhere" THEN mount ELSE mount + 1
  /\ mount' <= MaxMounts
  /\ IF "playground" \in {page, to} THEN P!Remount(to = "playground") ELSE UNCHANGED playgroundPart
  /\ IF "settings" \in {page, to} THEN S!Remount(to = "settings") ELSE UNCHANGED settingsPart
  /\ IF "usage" \in {page, to} THEN U!Remount(to = "usage") ELSE UNCHANGED usagePart

AppNext ==
  \/ \E to \in {"playground", "settings", "usage", "elsewhere"} : Navigate(to)
  \/ P!PlaygroundNext /\ UNCHANGED <<mount, settingsPart, usagePart>>
  \/ S!SettingsNext /\ UNCHANGED <<mount, playgroundPart, usagePart>>
  \/ U!UsageNext /\ UNCHANGED <<mount, playgroundPart, settingsPart>>

\* A request is answered or fails, an interval ticks, and effects are run.
Fairness ==
  /\ \A s \in 1 .. MaxSends : WF_playgroundPart(s \in P!Running /\ P!Goes(s))
  /\ U!UsageFairness

AppSpec == AppInit /\ [][AppNext]_appVars /\ Fairness

-----------------------------------------------------------------------------
(* Properties, stated in the modules of the pages. *)

\* The playground leaves no reply half typed.
RepliesWhole == P!RepliesWhole

\* The playground can be used again, whatever becomes of a message.
TypingEnds == P!TypingEnds

\* What is set on the settings page is what the server has and the page shows.
CalmSavesStick == S!CalmSavesStick

\* The usage page does not stay on the table of an earlier selection.
UsageConverges == U!UsageConverges
=============================================================================
