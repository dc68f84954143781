# liapi in TLA+

liapi is a self-hosted gateway in front of OpenAI-compatible upstreams. A Go
server authenticates callers, limits them, routes each request to an upstream
with retry and failover, streams the answer back and logs it; an admin API on
the same port edits the configuration while requests run, and a web interface
(`web/app`) drives it from a browser. `gateway-ui/` holds a second, smaller
gateway, a Node server over SQLite with a React front end. The modules in this
directory model the parts of all four whose correctness depends on
interleavings, failures, time and limits. TLC checks them on small instances,
and TLAPS proves the central results for every value of the constants.

Source paths below are relative to the repository. `PROJECT.json` maps every
definition to the lines it stands for, and lists runs, hazards, findings and
theorems.

## 1. The system

| Component | State it keeps | Operations | Talks to |
|---|---|---|---|
| Request pipeline (`server/handler_v1.go`) | none of its own, one goroutine per request | `handleModelEndpoint`: identify, token policy, rate limit, quota, body, route, forward, copy, record | everything below |
| Client authentication (`auth/auth.go`) | none | `Identify`: device hash, then token list | configuration |
| Rate limiter (`stats/limiter.go`) | admission times per key, a global limit | `AllowN`, `SetLimit`, a sweeper every minute | one instance for clients, one for admin addresses |
| Daily quota (`stats/quota.go`) | count per key and UTC day, day of the last warning | `AllowN`, `SetLimit`, `SetWarnPercent`, an hourly sweeper | alerts, through `OnWarn` |
| Routing (`routing/router.go`) | cached regular expressions | `ResolveAlias`, `Candidates` | configuration, health |
| Retry and failover (`relay/relay.go`) | locals of one call | `Do`, `tryOnce` | upstreams; an observer feeding metrics and alerts |
| Response copy (`relay/http.go`) | locals, and a watchdog goroutine | `copyStream`, `copyPlain` | upstream body, client connection |
| Health (`stats/health.go`) | last status per upstream, probe history, a state file | passes of a ticker and of "probe now", `IsHealthy` | upstreams, alerts, routing |
| Alerts (`stats/alerts.go`) | time of the last alert per kind and key | `Notify`, posting synchronously | webhooks |
| Request log (`stats/logger.go`) | channel, ring, file, rotated files | `Log`, the writer goroutine, rotation, purge, `Close` | file system |
| Aggregates, totals, metrics, audit (`stats/`) | counters and rings under one lock each | `Add`, `Observe...`, queries | admin pages, `/metrics` |
| Admin authentication (`auth/admin.go`, `server/server.go`) | failure counts and locks per address, sessions | `Locked`, `RecordFailure`, `ClearFailures`, `Login`, `Logout`, `Authenticate` | configuration |
| Configuration (`config/`) | the file and the holder's pointer | `Load`, `Save`, `Clone`, `Validate`, `Holder.Set` | read by every component at every use |
| Admin API (`server/handler_admin.go`) | none of its own | clone, edit, `applyConfig`, `syncLimiters` | configuration, limiter, quota, logger |
| Start and shutdown (`main.go`) | none | wiring, signal handling, deferred `Close` | logger, health, server |
| Admin web interface (`web/app/`) | a token per tab and one in local storage; the text and the form of the configuration page | sign in and out, loads and saves of the pages, import | admin API |
| gateway-ui server (`gateway-ui/server/`) | SQLite tables: devices, upstreams, models, settings, logs, audit | CRUD routes, probe, `/v1/chat/completions` with a limit per device, seeding | an upstream |
| gateway-ui pages (`gateway-ui/src/`) | React state of one mounted page: lists, dialogs, flags, a chat, settings as shown | handlers around awaited requests, intervals | gateway-ui server |

What makes it hard:

* **The configuration is read live.** A request sees the configuration of
  several moments: the relay asks for `retry_on_timeout` at every decision, the
  limiter's limits are pushed call by call after the holder was swapped.
* **Check and act are separate critical sections** in the lockout, in the
  quota, in the health counts, in the logger's `closed` flag and in the whole of
  the admin API.
* **Things fail one at a time:** rename without open, save without swap, a
  webhook that accepts and never answers, a request that times out but was
  processed.
* **Time:** one-minute windows, UTC days, five- and fifteen-minute lockouts,
  twelve-hour sessions, all swept lazily.
* **Awaits:** a handler of the Node server or of a page reads its state, awaits a
  request, and acts on what has become of that state; a page may be gone by then.

What makes each part correct is stated as properties in section 3; the lines
where it could go wrong are the hazards of `PROJECT.json`, each with the
properties that cover it or the reason why none does.

## 2. The modules

| Module | Models | Extends |
|---|---|---|
| `Clock` | the time a limiter, a quota or a lockout reads | |
| `Relay` | one run of `Relay.Do` | |
| `Limiter` | `stats/limiter.go` | `Clock` |
| `Quota` | `stats/quota.go` | `Clock` |
| `Admission` | the pipeline up to the quota, against overlapping saves | `Limiter`, `Quota` |
| `Logger` | `stats/logger.go` | |
| `Health` | `stats/health.go` with its alerts | |
| `AdminAuth` | `requireAdmin`, `adminLogin`, `adminLogout`, `/metrics` over `auth/admin.go` | `Clock` |
| `ConfigStore` | the admin API's way of changing the configuration | |
| `AdminConsole` | tokens of the admin web interface in several tabs | |
| `ConfigPage` | the configuration page of the admin web interface | |
| `UiStore` | upstreams and models of the gateway-ui server: routes, probe, seeding | `Clock` |
| `UiServer` | the whole gateway-ui server but settings and statistics | `UiStore`; `Ledger` as abstraction |
| `Ledger` | what that server promises of the calls it admits (abstract) | |
| `UiPages` | the devices, providers and models pages of gateway-ui | |
| `UiPlayground`, `UiSettings`, `UiUsage` | three more pages, the second with the settings routes | |
| `UiApp` | the three mounted one at a time, as `App.tsx` does | instantiates them |
| `PipelineProofs` | theorems about `Limiter`, `Quota`, `Admission`, `Relay` and `Logger` | `Admission`, `Relay`, `Logger`, `TLAPS` |
| `GatewayUiProofs` | theorems about `UiServer` and `UiApp` | `UiServer`, `UiApp`, `TLAPS` |
| the other `...Proofs` | theorems | the module they are named for, `TLAPS` |
| `MC...` | instances for TLC | the module they are named for |

In every module a variable whose comment says "history" is not in the code: it
remembers what happened so that a property can refer to it, and no guard of a
modelled step reads one. A definition whose comment says "Mutant" belongs to no
specification: it is a plausible mistake that takes the place of the definition
after it, to show that a property notices.

**Relay.** `pc` is the place in the loop, `i` the candidate, `a` the attempt,
`last` the kind of the last failure. `Attempt` is `tryOnce` up to the call,
`Answer` and `CallError` its two ways to return (a request that cannot be built returns
from `Attempt`); `Judge`, `Resend` and
`Failover` are the three places that ask the policy, each reading the flag
anew. `Disconnect` and `Reconfigure` are the environment. A status that is
neither 2xx, 4xx nor 5xx is `"other"` and is retried, as in the code. Bodies,
headers and model names are left out.

**Limiter.** The code re-slices `hits[k]`; the module keeps the whole array as
`log[k]` and the offset of the slice as `head[k]`, so that `hits[k]` is the rest
of `log[k]` after `head[k]`. Pruning in `AllowN` and in the sweeper is one
operator, `PrunesTo`. Each entry remembers the limit it was admitted under, and
`floor[k]` where `SetLimit(0)` last wiped the key.

**Quota.** `used[k]` is the map entry, day 0 standing for none. Reading the
global limit and counting are two steps, as in `AllowN`; the first belongs to
the caller's module.

**Admission.** A request goes through policy, limit, quota and count, each a
step of its own, with the configuration it read on arrival (`snap`). A save is
`Publish` (the swap) and then three steps of `syncLimiters`, all with the configuration
of that save; no lock spans them, so saves overlap and may end with the holder of one
and the limits of another. The admin limiter and the logger's settings, which
`syncLimiters` also pushes, are left out. The keys are as in
the code: a device counts under its id, a token under what the log would show.
The module extends its two components, so each of its steps is one of theirs or
none; `ImplementsParts` is the theorem that says so.

**Logger.** `Log` is `Check` and `Send`; the writer is `Receive`, `Write` (all
of `writeEntry` under the lock, rollover, rotation, write and reopening
included) and `Show`. `Close` is `Swap`, `Seal` and `Join`. A line is its length
and a day a number; `file.size` is what the file holds and `file.written` what
the logger believes. Any rename, open or write may fail. `Restart` may happen at
any moment and finds the file that is there.

**Health.** A job is one probe goroutine: `Acquire` a slot, `Probe` (and read
the previous count), `Record`, `Set`, and, when the threshold was crossed,
`Notify` and `Post`. `SaveBegin` and `SaveEnd` are the two halves of `save`.
`ver` numbers the states so that an older one can be told from a newer one.

**AdminAuth.** A request is `Check` (lockout and rate limiter), then `Verify`
and `Issue` for a login or `Authenticate` and `SessionValid` otherwise, then
`RecordFailure` or `ClearFailures`. `Switch` is a save that turns login on or
off. Sessions and locks live in memory; that a restart of the process forgets them is not
modelled. The rate limiter (another `Limiter`) and the address list can only drop a
request, which `Check` may do at any time.

**ConfigStore.** A configuration is reduced to what the save path tells apart:
upstream keys, device hashes, client tokens, disabled entries, one limit that has
to be pushed and one field that `SetDefaults` fills. A secret is a value with a
flag saying whether it is masked. Every handler is one edit on a `Clone`, then
`ValidateAndResolve`, `Save`, `Swap` and `Sync`, the steps of `applyConfig`; an import
of OneAPI channels brings at least one, each with its key, and those that are off come in
disabled;
the page is `GetConfig`, any delay, and `ReplaceConfig`.

**AdminConsole.** `mem[t]` is the token a tab holds in memory, `stored` the one
in local storage, `at[t]` its page; `Held` is `loadToken`. A request is a record
in `net`, with the token it was sent with; it is handled by the server (`Handle`,
for the ones that change its sessions) and then answered (`Answer`) or lost
(`Lose`), whatever the tab has done since. `Loaded`, `Saved`, `LoggedIn`,
`Verified` and `LoggedOut` are the continuations of the pages; `HandleError` is the
function of that name in `useUi.ts`. The server's side is reduced to which
sessions live; `AdminAuth` has it in full.

**ConfigPage.** `text` is the parsed text of the JSON view, `form` the form laid
over it, `dialog` the confirmation with the payload made before it, `net` the
requests on their way. A configuration is its form fields, the rows of its lists, the rest
that only the JSON view shows, and the key of one upstream. What happens to each on the
way is an operator of its own: `Clone` fills in defaults (also for an explicit 0, as
`SetDefaults` does), `View` masks the key after that, `Written` is what the form makes of
a field it read (a `login_enabled` that was not there is written out), `Kept` drops
the rows without a name, and `Restored` exchanges a mask for the live key, if it is one
with dots and the upstream can be found by its name. The conversions themselves (`Defaults`,
`Explicit`, `Trim`) are constants. Client tokens, which are found again by their mask,
are in `ConfigStore` only. `Leave` and a 401 unmount the page; what it has sent goes on
without it.

**UiStore, UiServer, Ledger.** The Node process is single-threaded, so a
handler without an await is one action; the probe and the proxy are two, around
their fetch (`ProbeStart` and `ProbeEnd`, `Begin` and `End`). A table is the
sequence of rows ever inserted with `Gone` for a deleted one, so that a late probe
or call can name a row that is gone. `Restart` drops what was in flight and runs
the seeding of `initDb`, which refills empty tables; a crash inside the seeding is not
modelled. `cap` is history: the largest limit a device has had.

Of a call's body only the model matters, and that only in one case: a model that is an
empty object (or array) is taken by the lookup for a set of named parameters and is
forwarded, but cannot be stored, so that the INSERT and then the one in the catch throw and
the call leaves no row (`hollow`). Any other model that is no text or number makes the
lookup itself throw, and nothing has happened. A call that can be logged leaves one row, or
two when the upstream's Content-Type is malformed: `res.send` throws after the row
was written and the catch logs again (`Settled`). `Ledger` says just this of the calls:
one that can be logged (`open`) is settled by one row or two, one that cannot (`dark`)
by none, and a row once written stays; `UiServer` maps its calls in flight to
`open` and `dark` and the length of its log to `rows`.

**UiPages.** Every handler of the three table pages has the same shape (flag,
request, dialogs, awaited reload, `finally`), so a task is one such handler with
its place `pc`, and the handlers of the code are constants of that shape:
`DevicesCreate`, `ProvidersSaveEdit` and so on, with the dialog or row they are
sent from. `Handle` and `Serve` are the server; `Answered`, `Fail` and `Reloaded`
the continuations. A table and a list are counts of changes, so that a list can
be compared with the table it shows. `Navigate` mounts another page and orphans
the tasks of this one.

**UiPlayground, UiSettings, UiUsage, UiApp.** The playground keeps one reference to an
interval (`timer`) while each message has a handler of its own (`send`). The
settings page writes each control at once and takes over the whole answer;
`net` holds its requests in the order they were sent, `orphans` the writes a mount
now gone has left on their way, and `wanted` is history, what the admin has set. The
usage page keeps the function of
its interval in `closure`. `UiApp` mounts one of them at a time; `Navigate` is
`setPage`.

## 3. The runs

Run them with `tlc -config <cfg> <module>`. A module's type invariant is no
statement of its own about the code, so it is a conjunct of one of the properties
below (of `LockJustified`, `SignedOutStaysOut`, `NeverBlanked`, `LiveValid`,
`CountsInARow`, `FilesSane`, `BusyExact`, `RepliesWhole`, `CalmSavesStick` and
`UsageConverges`); for `Relay`, `Limiter`, `Quota`, `Admission` and `UiServer` it is
proved instead (section 4).

| Run | Properties | What it shows |
|---|---|---|
| `relay` | `BoundedInOrder` `GivesUpOnlyWhenExhausted` `EventsMatchAttempts` `TimeoutNotResent` `Terminates` | Budgets and order hold, no candidate is given up without need, the observer hears exactly what happened, a timed-out request is only sent again with permission, the loop ends |
| `admission` | `WindowBound` `NoFalseDenial` `DayBound` `WarnsOncePerDay` | Never too many in a minute or a day, never refused wrongly, one warning a day, across sweeps, midnight and saves |
| `logger` | `NothingMissing` `FilesSane` `BackupsOnlyExpire` `Delivered` | What was queued reaches the ring in order, even through `Close`; the file stays within its bound and its day; backups are named after finished days and only expire |
| `health` | `TransitionsTold` `CountsInARow` `SavedForward` `PassesEnd` | Each crossing is told once, counts are exact while no two jobs of one upstream overlap, the state file never goes back, passes end |
| `adminauth` | `LockJustified` `GuessesBounded` `OnlyEarlierSlip` `SessionsExact` | Locks are earned, guesses since the last success are bounded by the limit alone, only requests already past the check slip by a lock, sessions last exactly their time |
| `configstore` | `SerialSavesStick` `LiveValid` `DeadStayDead` | Without overlap the last acknowledged edit is live, on disk and in the limiter; the live configuration is always valid; a stale page does not revive a rotated token |
| `adminconsole` | `SignedOutStaysOut` `RefusedTabsLeave` | A session that was signed out in a tab never comes back to it, whatever late answers and other tabs do; a tab the server refuses reaches the login page |
| `configpage` | `NeverBlanked` `CurrentSavesAreEdits` | The empty form the page starts with never reaches the server; a save from a current reading changes what was typed and, apart from the conversions on the way, nothing else; a key that is not short survives it |
| `uiserver` | `BindingsResolve` `RpmOvershoot` `OnlyTheAdminEdits` `Accounted` | Models stay bound to rows that are there; the limit is overshot by fewer calls than there are clients, those aside that cannot be logged; late probes, calls and restarts undo no edit; a call that can be logged is settled by one row or two, unless the process ends (the server implements `Ledger`) |
| `uipages` | `FreshAtRest` `BusyExact` `KeyShownOnce` `BusyEnds` | Lists are fresh at rest, nothing is submitted twice, a key that left the screen never comes back, the buttons come back |
| `uiapp` | `RepliesWhole` `TypingEnds` `CalmSavesStick` `UsageConverges` | No reply stays half typed and the chat can be used again; settings written without crossing stick; the usage table does not stay on an earlier selection |
| `config_rotate` | `RotatedTokenDead`, expected to be violated | `handler_admin.go:549` says the old token of a rotated device "stops working immediately"; an edit that cloned the configuration before the rotation puts the old hash back |

Where the code goes against its own documentation in a way a property would
otherwise have to contradict, the property says under which condition it holds
(`muddled`, `torn`, `wanted`, `hollow`, `overlap`, `overlapped`, `byHand` and
`r.seen = version` are such conditions)
and the disagreement is an entry under `findings` in `PROJECT.json`, most of them
without a run of their own. What such a condition sets aside is not covered by the property; the
hazard it belongs to says so. `byHand` is the exception: JSON typed by hand may
well be empty, and nothing says otherwise.

### Bounds

* `relay`: three candidates and a budget of one retry are the smallest instance
  with a first, a middle and a last candidate that each can be retried.
* `admission`: two requests, one device and one token, limits up to two, a window
  and a day of two ticks in a run of three instants, two saves that may overlap. The window and the day
  boundary are both crossed, by an access, a sweep and a save; `MaxLog` admits
  two hits per key, so that one can expire while the other counts.
* `logger`: three entries with a queue and a ring of two, so both overflow; lines of 1,
  1 and 3 bytes against a size of 2, so that a line can fit, fill and exceed;
  three days against a retention of one; one fault (a failed write may be
  followed by a failed reopening), one restart.
* `health`: two passes that may overlap, two upstreams with one slot, a
  threshold that may change, one restart.
* `adminauth`: a limit of two failures in place of five keeps every case of the
  counter (below, at and above the limit); time runs past a window, a lock and a
  session.
* `configstore`: two administrators, three edits, two upstream names (a rename
  needs a free one), one device, one client token, keys of which one is short (its mask is
  not recognised), one failed save, one crash.
* `adminconsole`: two tabs and two sessions, so that one tab can store a token
  another one adopts; two requests on their way, enough for a late answer to meet
  a new login. Of the second tab only signing in and out and the overview
  (`Narrow`), and two sessions issued, answers lost and switches in all (`Few`).
* `configpage`: values of the fields and of the rest for each conversion, a row with a name and
  one without, a short key and a longer one, two requests on their way, two changes of the
  configuration and one thing typed: a save needs one edit, and is crossed by at
  most one other reading or change.
* `uiserver`: two clients against a limit of one or two, so that calls in flight
  overshoot; two edits (delete and create, lower and raise), one probe whose row is
  deleted meanwhile, a minute of two ticks, three rows.
* `uipages`: two handlers at once, two mounts, two changes of the tables, two
  providers for the loop of "probe all".
* `uiapp`: three messages of one or two ticks (one cleared, one that takes over
  the timer, one more), two writes of settings on their way, two selections, two
  mounts; `Apart` lets a behaviour do things on one of the three pages, since
  they share nothing.

Deadlock is checked in `uiserver`, where time and restarts never end. The other
runs stop when their bounds are used up or the request is over. `admission`,
`adminauth`, `configstore` and `config_rotate` use symmetry; their properties are
safety properties and treat the permuted values alike.

### Fairness

* `Relay!FairSpec`: the goroutine is scheduled; a call in flight returns once its
  deadline is armed or the client has left. An upstream owes nothing, so
  `Terminates` is only promised while a timeout is configured.
* `Logger!LoggerFairSpec`: the writer goroutine runs. Neither `Close` nor the callers
  are owed any step, and `Delivered` allows for a restart.
* `Health!FairSpec`: jobs run and probes time out; a waiting locker gets
  `saveMu` in the end (strong fairness: Go's mutex hands over to a starving
  waiter). A post ends only while webhooks answer, because the client has no
  timeout, hence the premise of `PassesEnd`.
* `UiServer!Spec` has none: undici gives up on an upstream that falls silent, not on one
  whose body never ends, so nothing promises that a call settles.
* `UiPages!Spec`: a request is answered or fails, and its continuation runs. The
  server need not carry it out.
* `UiApp!AppSpec`: the same for messages and loads; in addition React runs pending
  effects, and intervals go on ticking.
* `AdminConsole!Spec`: the overview's timer fires again (weak), and requests of a
  tab are answered (strong, because loading the document anew drops what is on
  its way, and nobody does that forever before the answers come).

## 4. The proofs

TLAPS proves these for every number of candidates, requests, callers, clients,
tabs and keys, every limit, window, day length and percentage; `MaxTime`, `MaxLog`,
`MaxCalls` and their like only bound time and counters and are
arbitrary too.

* **`PipelineProofs`, of `Relay`.** The properties talk about the end of the loop or about one
  step; the invariant `RInv` says what is true at every place of it. `Later`: no
  candidate after the current one was tried. `Earlier`: each one before it used
  its budget or timed out, with its events. `Current`: attempts and retry
  events of the current candidate follow from `pc` and `a`. `Judged`: what the
  last verdict permits at this place. `Permission`: after a timeout the loop is
  past a look at the policy only if the flag was on since. From it follow
  `RelayTypeCorrect`, `AttemptsBoundedInOrder`, `NoEarlySurrender`, `EventsFaithful`
  and `TimedOutRequestsStay`.
* **`PipelineProofs`, of `Limiter`.** `LInv` adds to the types and the bound that the log is in
  time order and not in the future (`Chronological`, `Past`), and that whatever
  was cut off is either expired or was wiped (`Cut`). That is why the code may
  stop pruning at the first fresh hit, and it gives `LimiterWindow` and
  `DenialsJustified`. Both are about the limiter under any client.
* **`PipelineProofs`, of `Quota`.** `QInv` relates the entry to the history: today's count and
  what was wiped add up to what was granted, and no date lies in the future.
  `QuotaBound` follows for any client.
* **`PipelineProofs`, of `Admission`.** `AdmissionStep` shows every step of the pipeline to be
  a step or a stutter of each component; `ImplementsParts` is the temporal form,
  and through it the components' theorems hold in the pipeline
  (`AdmissionWindow`, `AdmissionDenials`, `AdmissionDay`, `AdmissionWarnings`).
  `AdmissionTypes` needs the places of the requests as well (`Stages`).
* **`ConfigStoreProofs`.** What a handler is about to store was derived from the live
  configuration of some earlier moment. `Keeps` is what every edit
  but the issue of a token leaves of it: tokens only go, and a disabled upstream without
  a key does not come to be enabled with a mask for one. `LiveIsValid` is inductive
  because the holder asks once more; it holds however handlers overlap. `EditsStick`
  needs `SerialInv`: while handlers applied one after the other, the place of the one
  that applies says which stores have its configuration, the one it is about to
  restore secrets in is `Ready` (that will change no token and leave no enabled
  upstream with an empty key), and so the holder never refuses what is already in the file. For
  `RotatedStaysDead`, `DeadInv` says that a dead token is in no store and in nothing about to be
  stored, and that the one a rotation replaces is in no part of what it stores. The second half
  needs `OwnInv`, that a token is only ever found with the device it was issued for; an
  old page may hold a dead token, but only masked (`ViewInv`), and a mask is exchanged for
  what is live.
* **`HealthProofs`.** `CountsInARow` holds while the probes of an upstream do not overlap,
  and a job works in three steps: `Counts` says what the one job between the probe
  and the set carries, the new count before its result is recorded and the trailing
  failures after. `CrossingsTold` needs that all passes judge by the present threshold
  while it is steady (`ToldInv`), and is then kept by `Set`, which judges and replaces at once.
  `SavesGoForward` needs that one pass saves at a time and that its copy lies
  between the file and the states (`SaveInv`).
* **`PipelineProofs`, of `Logger`.** `RingInv` describes the ring without the code's arithmetic: the slot
  written j entries ago holds the j-th last entry. The lemmas `Wraps` and
  `RecentSlot` show that stepping and reading backwards modulo the size find these
  slots. `QueueInv` follows an entry from the channel through the writer into
  the ring and says that a writer that is gone has left nothing behind. Together
  they give `NothingIsMissing`. `FilesStaySane` needs that the logger knows the size of the file while it
  has one (`FileInv`): through `os.DevNull` it counts on without the file. `BackupsAreKept`
  needs that all backups are of days before the file's own (`DayInv`), so that no rotation
  renames over one.
* **`GatewayUiProofs`, of `UiServer`.** `Bindings` is inductive with the types: what deletes an
  upstream unbinds its models in the same step, and what inserts or renames one
  looks for the name first. `Overshoot` is not inductive as it stands. A call
  is admitted on the limit of the moment, which may be lowered afterwards, so the
  bound is about `cap`, the largest limit so far, and `CapCovers` says that it is at
  least the present one (0 standing for none). And a device inserted later must
  not inherit rows or calls, so `KnownDevices` says that both only name rows of the
  table that have existed; a row's place is never used again. A call that is
  admitted adds one to what is counted while it is in flight and, when it ends,
  moves from the calls to the rows, which keeps the sum; time only takes rows out
  of the minute. Calls that cannot be logged are in neither part of the sum, and the
  second row of a call is not counted (`Counted`). `EditsAreTheAdmins` goes through the actions: what is no request of the admin
  changes a table only when it is empty. `KeepsLedger` is the step simulation:
  `Begin` admits, `End` settles or vanishes, `Misconfigured` rejects, `Restart` crashes, the
  rest stutters.
* **`GatewayUiProofs`, of `UiApp`.** `RepliesAreWhole` rests on `Replying`: unless the chat
  was cleared under a reply still awaited, one handler is about at most, the busy flag says
  whether one is, a reply that is partly typed has its handler, and the timer is that
  handler's. `SavesStick` is about a queue of writes whose answers bring back the
  whole. `Calm`, which holds as long as nothing crossed or failed, says for every setting
  where its wanted value is (`Brought`): with its last write while that is on its way,
  in the table and in every later answer once it was carried out, and on the page once
  no write of it is left. The rest of `Calm` is what the controls go by: the requests are
  carried out in the order they were sent (`InOrder`), the slider was seized where it is
  wanted (`Seized`), and a number box nobody typed in shows, and so writes, what is wanted
  (`Untouched`). A step that a control takes on what was not loaded or is being written
  forgets `wanted`, as the property says.
* **`UiPagesProofs`.** A list is fresh because every change of its table is followed by a
  load. `Covered` says so in the middle of things: a list that is not muddled is the
  table's, or an answer is on its way that will have it loaded, or the load itself is, and
  one that has been carried out has the table as it is now, unless such an answer is still
  on its way. `ListsAreFresh` is that with nothing on its way. `OneHolder` is the busy flag as the
  set of the handlers that hold it, which have to be handlers of this page (`Placed`);
  `BusyIsExact` follows. `KeysAreShownOnce` needs that the keys on their way to the page
  are new and different ones (`NewKeys`).
* **`AdminAuthProofs`.** `LocksAreEarned` is about the failures recorded for an
  address, the lock about a counter with the start of its window. `Counted` relates
  the two: the last `fails` failures recorded lie in one window from `start`. A
  failure adds to both or starts both anew (`CounterKeeps`), so that the one that reaches
  the limit finds the others within a window. For `OnlyEarlierCount` a request past
  the check remembers how many locks there had been, and `SlipInv` says that there
  has been another one if its address is locked by now. `SessionsLast` needs in
  addition that an entry is only removed by a logout or after its time (`SessionInv`).
  `GuessesAreBounded` speaks of the failures since the last success that lie one window's
  length back from now at most, which may
  straddle two counting windows: `Segments` cuts the recorded failures into those that
  are too old to count, those of the window before the present one and the last `fails` of
  them, and says that a part which reached the limit left a lock that outlasts it.
* **`AdminConsoleProofs`.** A token that was signed out can only come back through the
  storage, another tab, or an answer on its way. `Unread` says that the session of a
  login that has not been read is in no other place yet; every other step only moves
  tokens that are about (`Abroad`), and a tab adopts one from the storage only after
  the one it has signed out has left it. `SessionsStayOut` follows.
* **`ConfigPageProofs`.** The payload of a save is made long before the server takes
  it, so both properties have to hold of everything on its way: `Wholesome` says that
  every payload, reading and text is whole unless JSON was typed by hand, `Current`
  that whatever stems from the present version differs from it only in what was typed and
  by the conversions it has been through.
  The text may not parse for a while, so the form has a clause of its own (`Shows`).
  From them follow `ConfigurationStaysWhole` and `SavesAreEdits`.

The proofs assume only the named assumptions on the constants, which TLC
evaluates in the runs.

So every invariant and every action property of the passing runs is a theorem as well.
Checked by TLC only: the liveness properties
(`Terminates`, `Delivered`, `PassesEnd`, `BusyEnds`, `TypingEnds`, `UsageConverges`,
`RefusedTabsLeave`), since liveness under fairness needs
ENABLED, which the prover does not reason about, and the violation in `config_rotate`, which is a
behaviour to be found and not a theorem.

## 5. What is not modelled

* The response copy (`relay/http.go`): one loop against an idle watchdog in real
  time. The watchdog may cut off a line that arrives as it fires, which nothing in
  the repository speaks about.
* Routing (`routing/router.go`): a pure selection over one configuration. `Relay`
  starts from any list of candidates, which covers whatever is selected.
* Recording after the answer, aggregates, totals, metrics, audit: counters under
  one lock each, which are shown and decide nothing.
* Parsing and formatting: JSON bodies, usage extraction, masks as text,
  addresses, Prometheus output. Password hashing, a pure function.
* The log file's export, `adminTest`, listings and statistics: they read. So do
  the statistics queries of the gateway-ui server; its audit table is only
  written.
* Real-secret backups re-imported through `format=liapi`, and the field-by-field
  validation of the configuration.
* A restart of the Go process as far as sessions and locks go, which it forgets; a crash
  inside the seeding of the gateway-ui tables, which are seeded one row at a time.
* Clock steps backwards, and file system failures of truncating and removing.
* In the browser: the dashboard, which draws what it fetched once; the debug,
  statistics and log pages of the admin interface, whose requests change nothing;
  exports, filters, sorting, styling, components and the mock data. The edits
  of the upstream, device and token pages of the admin interface are single
  requests whose server side is `ConfigStore`; for the browser they are the
  "save" of `AdminConsole`.
* The HTTP libraries, SQLite and React are external: a request is carried out and
  answered, or lost before or after; a statement is atomic and its constraints hold;
  state set by a handler is there for the next one.
