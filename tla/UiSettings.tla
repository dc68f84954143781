----------------------------- MODULE UiSettings ----------------------------
(***************************************************************************)
(* The settings page of gateway-ui (Settings.tsx) over the routes that     *)
(* keep the settings (server/routes.js).  Every control writes its own     *)
(* setting at once: the page shows the new value, sends it alone, and      *)
(* takes over the whole of what the server answers.  The list of addresses *)
(* is written as a whole, as the page makes it out of what it shows.       *)
(***************************************************************************)
EXTENDS Naturals, Sequences

CONSTANTS
  Switches,   \* settings changed by a switch or a selection
  Numbers,    \* settings typed into a number box and written when it is left
  Ips,        \* addresses of the list ip_whitelist
  Values,     \* values of a setting but the list
  Texts,      \* those that are typed into a box
  Default,    \* the value a setting has at first
  Unset,      \* what the page shows of a setting it has not loaded
  MaxWrites,  \* bound: requests that write a setting
  MaxNet      \* bound: requests on their way

Fields == Switches \cup Numbers \cup {"ip_whitelist", "budget_threshold", "webhook_url"}
Of(f) == IF f = "ip_whitelist" THEN SUBSET Ips ELSE Values
IsStore(c) == \A f \in Fields : c[f] \in Of(f)

VARIABLES
  page,     \* the page that is mounted
  store,    \* the settings table
  writes,   \* requests written so far; the code has no such count
  cfg,      \* the settings as the page shows them
  hook,     \* the text of the webhook box
  typed,    \* per number box, the text typed, Unset while there is none
  drag,     \* the threshold when the slider was seized, Unset when it is not
  saving,   \* the badge that says so
  net,      \* the page's requests on their way, in the order sent
  orphans,  \* the writes on their way that a mount now gone has sent
  wanted    \* the settings as the admin last set or saw them; Unset when requests
            \* have crossed or failed, or something was written out of what the
            \* page had not loaded, since the page was last at rest

settingsVars == <<page, store, writes, cfg, hook, typed, drag, saving, net, orphans, wanted>>

SettingsTypeOK ==
  /\ IsStore(store) /\ (wanted # Unset => IsStore(wanted))
  /\ \A f \in Fields : cfg[f] \in Of(f) \cup {Unset}
  /\ hook \in Values \cup {Unset} /\ drag \in Values \cup {Unset}
  /\ typed \in [Numbers -> Values \cup {Unset}]
  /\ saving \in BOOLEAN
  /\ Len(net) <= MaxNet

Present == page = "settings"
MayWrite == Present /\ writes < MaxWrites

\* A write has its number, a load none.
Request(op, n, f, v) == [op |-> op, no |-> n, field |-> f, value |-> v, done |-> FALSE, got |-> Unset]
Get == Request("load", 0, "none", Unset)

Unloaded == [f \in Fields |-> Unset]
Untyped == [f \in Numbers |-> Unset]

\* Some list has been written before.
SettingsInit ==
  /\ \E ips \in SUBSET Ips :
       store = [f \in Fields |-> IF f = "ip_whitelist" THEN ips ELSE Default]
  /\ wanted = store /\ writes = 0 /\ net = <<>> /\ orphans = {}
  /\ cfg = Unloaded /\ hook = Unset /\ drag = Unset
  /\ typed = Untyped /\ saving = FALSE

\* The page goes and comes anew; the writes it has sent go on without it.
Remount(mounting) ==
  /\ orphans' = orphans \cup {net[i] : i \in {j \in DOMAIN net : net[j].op = "save" /\ ~net[j].done}}
  /\ net' = IF mounting THEN <<Get>> ELSE <<>>
  /\ wanted' = IF orphans' # {} THEN Unset ELSE wanted
  /\ cfg' = Unloaded /\ hook' = Unset /\ drag' = Unset
  /\ typed' = Untyped /\ saving' = FALSE
  /\ UNCHANGED <<store, writes>>

-----------------------------------------------------------------------------
\* load: the mount, the refresh button of the audit list, the clearing of the
\* cache and the test of the webhook, which both end in one.
Load ==
  /\ Present /\ Len(net) < MaxNet
  /\ net' = Append(net, Get)
  /\ UNCHANGED <<page, store, writes, cfg, hook, typed, drag, saving, orphans, wanted>>

\* patch: the value is shown at once, and sent.
Patch(f, v) ==
  /\ MayWrite /\ Len(net) < MaxNet
  /\ writes' = writes + 1
  /\ cfg' = [cfg EXCEPT ![f] = v]
  /\ saving' = TRUE
  /\ net' = Append(net, Request("save", writes', f, v))

\* The admin wants f to be v, unless that is lost in a muddle.
WantsUnless(muddle, f, v) ==
  wanted' = IF muddle \/ wanted = Unset THEN Unset ELSE [wanted EXCEPT ![f] = v]

Wants(f, v) == WantsUnless(FALSE, f, v)

\* A setting that was not loaded, or is being written: an answer may have put an
\* earlier value back on the page.
Stale(f) == cfg[f] = Unset \/ \E i \in DOMAIN net : net[i].field = f

\* A switch or a selection.
Switch(f, v) ==
  /\ cfg[f] # v
  /\ Patch(f, v) /\ Wants(f, v)
  /\ UNCHANGED <<page, store, hook, typed, drag, orphans>>

\* The list as the page has it; before a load, it has none.
Listed == IF cfg["ip_whitelist"] = Unset THEN {} ELSE cfg["ip_whitelist"]

\* What is written is the list shown, with one address more or less.
AddIp(ip) ==
  /\ ip \notin Listed
  /\ Patch("ip_whitelist", Listed \cup {ip})
  /\ WantsUnless(Stale("ip_whitelist"), "ip_whitelist", wanted["ip_whitelist"] \cup {ip})
  /\ UNCHANGED <<page, store, hook, typed, drag, orphans>>

RemoveIp(ip) ==
  /\ ip \in Listed
  /\ Patch("ip_whitelist", Listed \ {ip})
  /\ WantsUnless(Stale("ip_whitelist"), "ip_whitelist", wanted["ip_whitelist"] \ {ip})
  /\ UNCHANGED <<page, store, hook, typed, drag, orphans>>

TypeNumber(f, v) ==
  /\ MayWrite /\ typed[f] # v
  /\ typed' = [typed EXCEPT ![f] = v]
  /\ UNCHANGED <<page, store, writes, cfg, hook, drag, saving, net, orphans, wanted>>

\* What a control shows: before a load, some default of its own.
Shown(f) == IF cfg[f] = Unset THEN Values ELSE {cfg[f]}

\* Leaving a number box writes what is in it ...
LeaveTyped(f) ==
  /\ typed[f] # Unset
  /\ Patch(f, typed[f]) /\ Wants(f, typed[f])
  /\ UNCHANGED <<page, store, hook, typed, drag, orphans>>

\* ... also when it was not touched, and then nothing was meant to change.
LeaveUntouched(f) ==
  /\ typed[f] = Unset
  /\ \E v \in Shown(f) : Patch(f, v)
  /\ wanted' = IF cfg[f] = Unset THEN Unset ELSE wanted
  /\ UNCHANGED <<page, store, hook, typed, drag, orphans>>

\* The slider is dragged in the page alone ...
Slide(v) ==
  /\ MayWrite
  /\ \E old \in Shown("budget_threshold") :
       v # old /\ drag' = IF drag = Unset THEN old ELSE drag
  /\ cfg' = [cfg EXCEPT !["budget_threshold"] = v]
  /\ wanted' = IF drag = Unset /\ Stale("budget_threshold") THEN Unset ELSE wanted
  /\ UNCHANGED <<page, store, writes, hook, typed, saving, net, orphans>>

\* ... and written when it is let go elsewhere than it was seized.
Release ==
  LET v == cfg["budget_threshold"]
  IN  /\ drag # Unset
      /\ drag' = Unset
      /\ IF v = drag
           THEN UNCHANGED <<writes, cfg, saving, net, wanted>>
           ELSE Patch("budget_threshold", v) /\ Wants("budget_threshold", v)
      /\ UNCHANGED <<page, store, hook, typed, orphans>>

TypeHook(v) ==
  /\ MayWrite /\ v # hook
  /\ hook' = v
  /\ UNCHANGED <<page, store, writes, cfg, typed, drag, saving, net, orphans, wanted>>

SaveHook ==
  /\ hook # Unset
  /\ Patch("webhook_url", hook) /\ Wants("webhook_url", hook)
  /\ UNCHANGED <<page, store, hook, typed, drag, orphans>>

-----------------------------------------------------------------------------
Crossed(i) == \E j \in 1 .. i - 1 : net[j].done = net[i].done

\* Mutant: the answer is read before the write.
HandleReadingFirst(i) ==
  /\ ~net[i].done
  /\ store' = IF net[i].op = "save" THEN [store EXCEPT ![net[i].field] = net[i].value] ELSE store
  /\ net' = [net EXCEPT ![i].done = TRUE, ![i].got = store]
  /\ wanted' = IF Crossed(i) THEN Unset ELSE wanted
  /\ UNCHANGED <<page, writes, cfg, hook, typed, drag, saving, orphans>>

\* The server: PUT /api/settings writes the setting it is given and answers
\* with all of them, as GET /api/settings does.
Handle(i) ==
  /\ ~net[i].done
  /\ store' = IF net[i].op = "save" THEN [store EXCEPT ![net[i].field] = net[i].value] ELSE store
  /\ net' = [net EXCEPT ![i].done = TRUE, ![i].got = store']
  /\ wanted' = IF Crossed(i) THEN Unset ELSE wanted
  /\ UNCHANGED <<page, writes, cfg, hook, typed, drag, saving, orphans>>

Without(i) == [j \in 1 .. Len(net) - 1 |-> net[IF j < i THEN j ELSE j + 1]]

\* finally of patch: the badge goes with the first answer.
Lowered(i) == saving /\ net[i].op # "save"

\* An answer arrives: what it holds is shown.  A load sets the webhook box too.
\* A page that shows all the server has, with nothing on its way, is what the
\* admin goes on from.
Answer(i) ==
  LET r == net[i]
      settled == /\ r.op = "load" /\ Len(net) = 1 /\ orphans = {} /\ r.got = store
                 /\ drag \in {Unset, store["budget_threshold"]}
  IN  /\ r.done
      /\ cfg' = r.got
      /\ hook' = IF r.op = "load" THEN r.got["webhook_url"] ELSE hook
      /\ saving' = Lowered(i)
      /\ net' = Without(i)
      /\ wanted' = IF settled THEN r.got ELSE IF i > 1 THEN Unset ELSE wanted
      /\ UNCHANGED <<page, store, writes, typed, drag, orphans>>

\* A request that is lost or refused, or whose answer is lost: what the page
\* shows stays.
Fail(i) ==
  /\ saving' = Lowered(i)
  /\ net' = Without(i)
  /\ wanted' = Unset
  /\ UNCHANGED <<page, store, writes, cfg, hook, typed, drag, orphans>>

\* A write whose page is gone reaches the server, or is lost.
Orphaned(r) ==
  /\ orphans' = orphans \ {r}
  /\ store' \in {store, [store EXCEPT ![r.field] = r.value]}
  /\ UNCHANGED <<page, writes, cfg, hook, typed, drag, saving, net, wanted>>

SettingsNext ==
  \/ Load
  \/ \E f \in Switches, v \in Values : Switch(f, v)
  \/ \E ip \in Ips : AddIp(ip) \/ RemoveIp(ip)
  \/ \E f \in Numbers : LeaveTyped(f) \/ LeaveUntouched(f) \/ \E v \in Texts : TypeNumber(f, v)
  \/ Release \/ SaveHook
  \/ \E v \in Values : Slide(v)
  \/ \E v \in Texts : TypeHook(v)
  \/ \E i \in DOMAIN net : Handle(i) \/ Answer(i) \/ Fail(i)
  \/ \E r \in orphans : Orphaned(r)

-----------------------------------------------------------------------------
(* Properties. *)

\* Whatever the admin sets, with several writes on their way and answers that
\* bring back the whole: once they are through, the server has what was wanted
\* and the page shows it, but for a slider that is being dragged.  Writes and
\* answers that cross, fail, or are made out of what was not loaded excepted.
CalmSavesStick ==
  SettingsTypeOK /\ (Present /\ wanted # Unset /\ net = <<>> =>
    /\ store = wanted
    /\ \A f \in Fields : f # "budget_threshold" \/ drag = Unset => cfg[f] = store[f])
=============================================================================
