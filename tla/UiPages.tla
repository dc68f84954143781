------------------------------ MODULE UiPages ------------------------------
(***************************************************************************)
(* The table pages of the gateway-ui front end: Devices.tsx, Providers.tsx *)
(* and Models.tsx, over lib/useAsync.ts and lib/api.ts, mounted one at a   *)
(* time by App.tsx.                                                        *)
(*                                                                         *)
(* Every handler of these pages has one shape: raise a flag, send a        *)
(* request, on success change the dialogs and await a reload of the list,  *)
(* and finally lower the flag.  A task is such a handler on its way; the   *)
(* tasks of a page outlive it, and the server and the network finish them  *)
(* in any order, or fail them before or after the server has acted.        *)
(*                                                                         *)
(* A table is the number of changes made to it, a list the number of those *)
(* it shows; keys are numbered as they are issued.                         *)
(***************************************************************************)
EXTENDS Naturals, FiniteSets, Sequences

CONSTANTS
  Tasks,      \* bound: handlers on their way at once, numbered from 1
  RowCount,   \* rows of the providers list, probed one after the other
  MaxWrites,  \* bound: changes the server makes
  MaxMounts,  \* bound: pages mounted
  Idle

ASSUME PagesAssumption ==
  /\ Tasks \subseteq Nat /\ IsFiniteSet(Tasks)
  /\ RowCount \in Nat \ {0} /\ MaxWrites \in Nat /\ MaxMounts \in Nat

VARIABLES
  page,     \* the page that is mounted
  mount,    \* how many have been
  table,    \* per list, the changes made to the server's table
  keys,     \* keys the server has issued
  data, loading, error,  \* useAsync, per list of the page
  dialogs,  \* the dialogs that are open
  busy,     \* the busy flag of the page
  issued,   \* the key kept for display, 0 when none is
  probing,  \* the provider shown as being probed, 0 when none is
  task,     \* per task, what it does
  seen,     \* keys that have been displayed
  muddled   \* lists whose loads have overlapped or failed, or that were
            \* mounted upon a change still on its way

server == <<table, keys>>
local == <<data, loading, error, dialogs, busy, issued, probing>>
vars == <<page, mount, server, local, task, seen, muddled>>

Lists == {"devices", "providers", "models"}
Pages == {"devices", "providers", "models", "elsewhere"}

\* The useAsync hooks of a page; the first is the one its table shows.
ListsOf(p) ==
  CASE p = "devices" -> <<"devices">>
    [] p = "providers" -> <<"providers">>
    [] p = "models" -> <<"models", "providers">>
    [] p = "elsewhere" -> <<>>

-----------------------------------------------------------------------------
(* The handlers: the list each changes and reloads, whether it holds the   *)
(* busy flag, the dialog that success closes, and whether it is answered   *)
(* with a key.                                                             *)

Handler(list, flag, closes, issues) ==
  [list |-> list, flag |-> flag, closes |-> closes, issues |-> issues]

DevicesCreate == Handler("devices", TRUE, "none", TRUE)
DevicesSaveEdit == Handler("devices", TRUE, "edit", FALSE)
DevicesConfirmDelete == Handler("devices", TRUE, "delete", FALSE)
DevicesToggleStatus == Handler("devices", FALSE, "none", FALSE)
DevicesRotate == Handler("devices", FALSE, "none", TRUE)

ProvidersAdd == Handler("providers", TRUE, "create", FALSE)
ProvidersSaveEdit == Handler("providers", TRUE, "edit", FALSE)
ProvidersConfirmDelete == Handler("providers", TRUE, "delete", FALSE)
ProvidersToggle == Handler("providers", FALSE, "none", FALSE)
ProvidersProbe == Handler("providers", FALSE, "none", FALSE)

ModelsCreate == Handler("models", TRUE, "create", FALSE)
ModelsSaveEdit == Handler("models", TRUE, "edit", FALSE)
ModelsConfirmDelete == Handler("models", TRUE, "delete", FALSE)

\* A reload asked for by the page itself.
Reload(list) == Handler(list, FALSE, "none", FALSE)

(* Where they are sent from: a dialog, from its button that is disabled    *)
(* while busy, or a row of the list, which opens dialogs too.  (A probe is *)
(* sent from a row or for all of them: see Probe.)                         *)

Dialog(list, name, sends) == [list |-> list, name |-> name, sends |-> sends]

DevicesCreateDialog == Dialog("devices", "create", DevicesCreate)
DevicesEditDialog == Dialog("devices", "edit", DevicesSaveEdit)
DevicesDeleteDialog == Dialog("devices", "delete", DevicesConfirmDelete)
ProvidersAddDialog == Dialog("providers", "create", ProvidersAdd)
ProvidersEditDialog == Dialog("providers", "edit", ProvidersSaveEdit)
ProvidersDeleteDialog == Dialog("providers", "delete", ProvidersConfirmDelete)
ModelsAddDialog == Dialog("models", "create", ModelsCreate)
ModelsEditDialog == Dialog("models", "edit", ModelsSaveEdit)
ModelsDeleteDialog == Dialog("models", "delete", ModelsConfirmDelete)

Dialogs ==
  {DevicesCreateDialog, DevicesEditDialog, DevicesDeleteDialog,
   ProvidersAddDialog, ProvidersEditDialog, ProvidersDeleteDialog,
   ModelsAddDialog, ModelsEditDialog, ModelsDeleteDialog}

DevicesRow == [sends |-> {DevicesToggleStatus, DevicesRotate}, opens |-> {"edit", "delete"}]
ProvidersRow == [sends |-> {ProvidersToggle}, opens |-> {"edit", "delete"}]
ModelsRow == [sends |-> {}, opens |-> {"edit", "delete"}]

RowOf(p) ==
  CASE p = "devices" -> DevicesRow
    [] p = "providers" -> ProvidersRow
    [] p = "models" -> ModelsRow

Handlers ==
  {d.sends : d \in Dialogs}
    \cup UNION {RowOf(p).sends : p \in {"devices", "providers", "models"}}

\* pc is "sent", then "done" with what the server answered in got, then "load"
\* while it reloads the list, and "loaded" with what the list is.  rows are the
\* providers still to be probed, the present one first.  here tells whether the
\* page that started the task is still mounted.
Task(h, pc, rows) == [h |-> h, here |-> TRUE, pc |-> pc, got |-> 0, rows |-> rows]

Works ==
  [h : Handlers \cup {Reload(l) : l \in Lists}, here : BOOLEAN,
   pc : {"sent", "done", "load", "loaded"}, got : Nat, rows : Seq(1 .. RowCount)]

ASSUME IdleAssumption == Idle \notin Works

TypeOK ==
  /\ page \in Pages /\ mount \in Nat
  /\ table \in [Lists -> Nat] /\ keys \in Nat
  /\ data \in [Lists -> Nat] /\ loading \in [Lists -> BOOLEAN] /\ error \in [Lists -> BOOLEAN]
  /\ dialogs \subseteq {"create", "edit", "delete"}
  /\ busy \in BOOLEAN /\ issued \in 0 .. keys /\ probing \in 0 .. RowCount
  /\ task \in [Tasks -> Works \cup {Idle}]
  /\ seen \subseteq 1 .. keys /\ muddled \subseteq Lists

Probing(t) == task[t].rows # <<>>

\* What a change shows in: the models list names the provider of each model.
Affects(t) ==
  IF task[t].h.list = "providers" /\ ~Probing(t) THEN {"providers", "models"}
  ELSE {task[t].h.list}

Running == {t \in Tasks : task[t] # Idle}
Mounted(t) == task[t].here
Writing(t) == task[t].pc \in {"sent", "done"}
Reloading(l) == {t \in Running : Mounted(t) /\ task[t].h.list = l /\ task[t].pc \in {"load", "loaded"}}

\* The tasks started by one event take the first numbers that are free; was is
\* what the other tasks are by then.
StartsAmid(was, started) ==
  LET free == {t \in Tasks : was[t] = Idle}
      Rank(t) == Cardinality({s \in free : s <= t})
  IN  /\ Cardinality(free) >= Len(started)
      /\ task' = [t \in Tasks |-> IF t \in free /\ Rank(t) <= Len(started)
                                  THEN started[Rank(t)] ELSE was[t]]

Starts(started) == StartsAmid(task, started)

\* reload(): setLoading(true), setError(null), and the GET.
Marks(lists) ==
  /\ loading' = [l \in Lists |-> l \in lists \/ loading[l]]
  /\ error' = [l \in Lists |-> l \notin lists /\ error[l]]
  /\ muddled' = muddled \cup {l \in lists : Reloading(l) # {}}

-----------------------------------------------------------------------------
Init ==
  /\ page = "elsewhere" /\ mount = 0
  /\ table = [l \in Lists |-> 1] /\ keys = 0
  /\ data = [l \in Lists |-> 0]
  /\ loading = [l \in Lists |-> FALSE] /\ error = [l \in Lists |-> FALSE]
  /\ dialogs = {} /\ busy = FALSE /\ issued = 0 /\ probing = 0
  /\ task = [t \in Tasks |-> Idle]
  /\ seen = {} /\ muddled = {}

\* What a handler comes to when its page goes: it changes nothing any more but
\* through the requests it has sent or, in a loop over rows, will send.
Orphan(t) ==
  IF task[t] = Idle THEN Idle
  ELSE IF Writing(t) \/ Len(task[t].rows) > 1 THEN [task[t] EXCEPT !.here = FALSE]
  ELSE Idle

\* A page is mounted afresh (key={page}), and its hooks load their lists.
Navigate(p) ==
  /\ dialogs = {} /\ p # page /\ mount < MaxMounts
  /\ page' = p /\ mount' = mount + 1
  /\ StartsAmid([t \in Tasks |-> Orphan(t)],
                [i \in DOMAIN ListsOf(p) |-> Task(Reload(ListsOf(p)[i]), "load", <<>>)])
  /\ data' = [l \in Lists |-> 0]
  /\ loading' = [l \in Lists |-> \E i \in DOMAIN ListsOf(p) : ListsOf(p)[i] = l]
  /\ error' = [l \in Lists |-> FALSE]
  /\ busy' = FALSE /\ issued' = 0 /\ probing' = 0
  /\ muddled' = UNION {Affects(t) : t \in {s \in Running : Orphan(s) # Idle}}
  /\ UNCHANGED <<server, dialogs, seen>>

\* A button of a row can be clicked when there is a list to show rows of.
Listed(buttons, b) == b \in buttons /\ data[page] > 0

\* Mutant: a key that was shown is kept for the next opening.
OpenKeeping(d) ==
  /\ page # "elsewhere" /\ dialogs = {}
  /\ d # "create" => Listed(RowOf(page).opens, d)
  /\ dialogs' = {d}
  /\ seen' = IF d = "create" THEN seen \cup ({issued} \ {0}) ELSE seen
  /\ UNCHANGED <<page, mount, server, data, loading, error, busy, issued, probing, task, muddled>>

\* The buttons that open a dialog; a dialog is modal.  Opening the creation
\* dialog forgets the key shown before.
Open(d) ==
  /\ page # "elsewhere" /\ dialogs = {}
  /\ d # "create" => Listed(RowOf(page).opens, d)
  /\ dialogs' = {d}
  /\ issued' = IF d = "create" THEN 0 ELSE issued
  /\ UNCHANGED <<page, mount, server, data, loading, error, busy, probing, task, seen, muddled>>

\* The creation dialog comes on top when a rotation opens it over another.
OnTop(d) == d \in dialogs /\ (d = "create" \/ "create" \notin dialogs)

\* The cross or Escape forgets the key; the buttons of the dialog do not.
Close(d) ==
  /\ OnTop(d)
  /\ dialogs' = dialogs \ {d}
  /\ issued' \in IF d = "create" THEN {0, issued} ELSE {issued}
  /\ UNCHANGED <<page, mount, server, data, loading, error, busy, probing, task, seen, muddled>>

\* The button that sends h: of the dialog on top, or of a row when there is none.
Clickable(h) ==
  \/ \E d \in Dialogs : d.list = page /\ d.sends = h /\ OnTop(d.name)
  \/ dialogs = {} /\ Listed(RowOf(page).sends, h)

\* Mutant: the button of the dialog is not disabled while busy.
SubmitTwice(h) ==
  /\ h.list = page /\ Clickable(h)
  /\ h = DevicesCreate => issued = 0
  /\ Starts(<<Task(h, "sent", <<>>)>>)
  /\ busy' = (busy \/ h.flag)
  /\ UNCHANGED <<page, mount, server, data, loading, error, dialogs, issued, probing, seen, muddled>>

\* A handler up to its request: from its dialog and not while busy, or from a
\* row of the list, at any time.
Submit(h) ==
  /\ h.list = page /\ Clickable(h)
  /\ h.flag => ~busy
  /\ h = DevicesCreate => issued = 0
  /\ Starts(<<Task(h, "sent", <<>>)>>)
  /\ busy' = (busy \/ h.flag)
  /\ UNCHANGED <<page, mount, server, data, loading, error, dialogs, issued, probing, seen, muddled>>

\* probe(u) of a row, or probeAll: each row in turn.
Probe(rows) ==
  /\ page = "providers" /\ dialogs = {} /\ data[page] > 0
  /\ Starts(<<Task(ProvidersProbe, "sent", rows)>>)
  /\ probing' = rows[1]
  /\ UNCHANGED <<page, mount, server, data, loading, error, dialogs, busy, issued, seen, muddled>>

AllRows == [i \in 1 .. RowCount |-> i]

\* The refresh button, disabled while the main list loads.
Refresh ==
  /\ page # "elsewhere" /\ dialogs = {} /\ ~loading[page]
  /\ Starts([i \in DOMAIN ListsOf(page) |-> Task(Reload(ListsOf(page)[i]), "load", <<>>)])
  /\ Marks({ListsOf(page)[i] : i \in DOMAIN ListsOf(page)})
  /\ UNCHANGED <<page, mount, server, data, dialogs, busy, issued, probing, seen>>

\* The retry button of the error card, which is not.
Retry ==
  /\ page # "elsewhere" /\ dialogs = {} /\ error[page]
  /\ Starts(<<Task(Reload(page), "load", <<>>)>>)
  /\ Marks({page})
  /\ UNCHANGED <<page, mount, server, data, dialogs, busy, issued, probing, seen>>

-----------------------------------------------------------------------------
\* The server carries a request out.
Handle(t) ==
  /\ task[t].pc = "sent"
  /\ table["devices"] + table["providers"] + table["models"] < MaxWrites + 3
  /\ table' = [l \in Lists |-> table[l] + IF l \in Affects(t) THEN 1 ELSE 0]
  /\ keys' = keys + IF task[t].h.issues THEN 1 ELSE 0
  /\ task' = [task EXCEPT ![t].pc = "done", ![t].got = IF task[t].h.issues THEN keys' ELSE 0]
  /\ UNCHANGED <<page, mount, local, seen, muddled>>

\* The server answers a GET with the list as it is.
Serve(t) ==
  /\ task[t].pc = "load" /\ Mounted(t)
  /\ task' = [task EXCEPT ![t].pc = "loaded", ![t].got = table[task[t].h.list]]
  /\ UNCHANGED <<page, mount, server, local, seen, muddled>>

\* What the answer changes before the reload: a key is shown, a dialog closed,
\* or opened to show the key of a rotation.
Shows(t) ==
  LET h == task[t].h
  IN  /\ dialogs' = IF h = DevicesRotate THEN dialogs \cup {"create"}
                    ELSE dialogs \ {h.closes}
      /\ issued' = IF h.issues THEN task[t].got ELSE issued
      /\ seen' = IF h.issues /\ "create" \in dialogs' THEN seen \cup {issued'} ELSE seen

\* What is left of a handler: a loop over the rows takes the next one.
More(t) == Len(task[t].rows) > 1
Remains(t) ==
  IF More(t) THEN [task[t] EXCEPT !.pc = "sent", !.got = 0, !.rows = Tail(@)] ELSE Idle

\* finally: the flag is lowered.
Finish(t) ==
  /\ task' = [task EXCEPT ![t] = Remains(t)]
  /\ busy' = (busy /\ ~(Mounted(t) /\ task[t].h.flag))
  /\ probing' = IF Mounted(t) /\ Probing(t)
                  THEN IF More(t) THEN task[t].rows[2] ELSE 0 ELSE probing

\* Mutant: the list is not reloaded.
AnsweredOnly(t) ==
  /\ task[t].pc = "done" /\ Mounted(t)
  /\ Shows(t)
  /\ Finish(t)
  /\ UNCHANGED <<page, mount, server, data, loading, error, muddled>>

\* The answer of the server arrives, and the list is reloaded.
Answered(t) ==
  /\ task[t].pc = "done" /\ Mounted(t)
  /\ Shows(t)
  /\ task' = [task EXCEPT ![t].pc = "load", ![t].got = 0]
  /\ Marks({task[t].h.list})
  /\ UNCHANGED <<page, mount, server, data, busy, probing>>

\* Mutant: the flag is lowered on success only.
FailKeepingBusy(t) ==
  /\ Writing(t) \/ ~Mounted(t)
  /\ muddled' = IF task[t].pc = "done" THEN muddled \cup Affects(t) ELSE muddled
  /\ task' = [task EXCEPT ![t] = Idle]
  /\ UNCHANGED <<page, mount, server, local, seen>>

\* The handler's catch: the server refuses the request (the row is gone, the
\* name taken), or the network loses it, or loses its answer.  And the end of a
\* handler whose page is gone.
Fail(t) ==
  /\ Writing(t) \/ ~Mounted(t)
  /\ Finish(t)
  /\ muddled' = IF task[t].pc = "done" THEN muddled \cup Affects(t) ELSE muddled
  /\ UNCHANGED <<page, mount, server, data, loading, error, dialogs, issued, seen>>

\* The list arrives, or the GET fails: reload() never throws.
Reloaded(t) ==
  LET l == task[t].h.list
  IN  /\ task[t].pc \in {"load", "loaded"} /\ Mounted(t)
      /\ Finish(t)
      /\ loading' = [loading EXCEPT ![l] = FALSE]
      /\ \/ /\ task[t].pc = "loaded"
            /\ data' = [data EXCEPT ![l] = task[t].got]
            /\ UNCHANGED <<error, muddled>>
         \/ /\ error' = [error EXCEPT ![l] = TRUE]
            /\ muddled' = muddled \cup {l}
            /\ UNCHANGED data
      /\ UNCHANGED <<page, mount, server, dialogs, issued, seen>>

Progress(t) == Answered(t) \/ Fail(t) \/ Reloaded(t)

Next ==
  \/ \E p \in Pages : Navigate(p)
  \/ \E d \in {"create", "edit", "delete"} : Open(d) \/ Close(d)
  \/ \E h \in Handlers : Submit(h)
  \/ \E u \in 1 .. RowCount : Probe(<<u>>)
  \/ Probe(AllRows)
  \/ Refresh \/ Retry
  \/ \E t \in Running : Progress(t) \/ Handle(t) \/ Serve(t)

\* The server answers what reaches it, a request that does not reach it fails,
\* and a promise that settles runs its continuation.
Spec == Init /\ [][Next]_vars /\ \A t \in Tasks : WF_vars(t \in Running /\ Progress(t))

-----------------------------------------------------------------------------
(* Properties. *)

\* Once nothing is on its way, a list shows the table as it is, however the
\* handlers, their reloads and the refreshes were interleaved: unless loads of
\* it overlapped or failed, or its page was mounted upon a change under way.
FreshAtRest ==
  Running = {} =>
    \A i \in DOMAIN ListsOf(page) :
      ListsOf(page)[i] \notin muddled => data[ListsOf(page)[i]] = table[ListsOf(page)[i]]

\* The page is busy exactly while one handler that holds the flag is on its
\* way, and never two are: nothing is submitted twice, also when the dialog is
\* closed and opened again meanwhile.
BusyExact ==
  LET holders == {t \in Running : Mounted(t) /\ task[t].h.flag}
  IN  TypeOK /\ busy = (holders # {}) /\ Cardinality(holders) <= 1

\* Devices.tsx tells the user that a key is displayed only this once: one that
\* leaves the screen never comes back.
Shown == IF page = "devices" /\ "create" \in dialogs THEN issued ELSE 0

KeyShownOnce == [][Shown' # 0 /\ Shown' # Shown => Shown' \notin seen]_vars

\* The buttons come back: whatever fails, a busy page is not busy for ever.
BusyEnds == busy ~> ~busy

=============================================================================
