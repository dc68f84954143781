----------------------------- MODULE ConfigPage ----------------------------
(***************************************************************************)
(* The configuration page of the admin web interface                       *)
(* (web/app/pages/config.vue) over the routes that read and replace the    *)
(* configuration.  A reading fills the text of the JSON view and the form; *)
(* a save lays the form over the text, asks for confirmation and posts the *)
(* whole; an import posts a file.  Other pages and tabs change the         *)
(* configuration meanwhile, and the page may be left and mounted again     *)
(* with requests on their way or the confirmation still open.              *)
(*                                                                         *)
(* A configuration is abstracted to the fields of the form, the names of   *)
(* the rows of its lists (aliases, fallbacks, prices, rules), the rest,    *)
(* which only the JSON view shows (upstreams, devices, token policies),    *)
(* and the key of one upstream, which the server masks when it is read and *)
(* restores when the mask comes back.  None of the conversions on the way  *)
(* is the identity: the server fills in defaults when it clones, the form  *)
(* writes out what was not written out, rows lose the spaces around their  *)
(* names or, without a name, vanish, and the mask of a short key is not    *)
(* recognised.  Client tokens, which are found again by their mask instead *)
(* of a name, are left to ConfigStore.                                     *)
(*                                                                         *)
(* The flags that show a spinner on a button are left out: what a click    *)
(* does depends on neither, and here a button can be clicked at any time.  *)
(***************************************************************************)
EXTENDS Naturals, FiniteSets

CONSTANTS
  Values,     \* values of the fields, and of the rest; 0 stands for none at all
  Defaults,   \* what SetDefaults makes of a value
  Explicit,   \* what the form makes of a value that is not written out
  Rows,       \* names of the rows of the lists, as they are written
  Trim,       \* what the form makes of a name, Nameless of one that is only spaces
  Nameless,
  Keys,       \* keys of the upstream
  Short,      \* those of at most eight characters
  Stars, Dots, \* the masks of a short key and of a longer one
  NoKey,
  Nothing,    \* no text that parses; no confirmation open
  Files,      \* configurations imported, or typed as JSON
  MaxEdits,   \* bound: times something is typed
  MaxNet,     \* bound: requests of the page on their way
  MaxWrites,  \* bound: changes of the configuration
  MaxFails    \* bound: requests lost or refused

ASSUME PageAssumption ==
  /\ Values \subseteq Nat \ {0} /\ IsFiniteSet(Values)
  /\ Defaults \in [Values -> Values] /\ Explicit \in [Values -> Values]
  /\ Trim \in [Rows -> Rows \cup {Nameless}]
  /\ Short \subseteq Keys /\ {Stars, Dots, NoKey} \cap Keys = {}
  /\ Cardinality({Stars, Dots, NoKey}) = 3
  /\ MaxEdits \in Nat /\ MaxNet \in Nat /\ MaxWrites \in Nat /\ MaxFails \in Nat

Config == [fields : Values \cup {0}, rows : SUBSET Rows, rest : Values \cup {0},
           key : Keys \cup {Stars, Dots, NoKey}]
Blank == [fields |-> 0, rows |-> {}, rest |-> 0, key |-> NoKey]
Whole == {c \in Config : c.fields # 0 /\ c.rest # 0}

ASSUME FilesAssumption == Files \subseteq Whole /\ Nothing \notin Config

VARIABLES
  config,   \* server: the live configuration
  version,  \* server: counts its changes; the code has no such count
  byHand,   \* history: one made of JSON typed by hand has been saved
  mounted,
  text,     \* the text of the JSON view, parsed
  form,     \* the form: its fields and rows, and what is typed into an extra row
  seen,     \* history: the version the page last read, 0 before
  edited,   \* history: what has been typed since: "fields", "rows", "json"
  edits,
  dialog,   \* the request that waits for its confirmation
  net,      \* the requests on their way
  fails

serverVars == <<config, version, byHand>>
pageVars == <<mounted, text, form, seen, edited, edits>>
vars == <<serverVars, pageVars, dialog, net, fails>>

\* SetDefaults, which Clone applies; a field that says how many, how long or where is
\* filled in when it is empty, and an explicit zero is empty too.
Defaulted(v) == IF v = 0 THEN 0 ELSE Defaults[v]
Clone(c) == [c EXCEPT !.fields = Defaulted(@), !.rest = Defaulted(@)]

\* MaskToken: masking twice changes nothing.
Mask(k) == CASE k = NoKey -> NoKey [] k \in Short \cup {Stars} -> Stars [] OTHER -> Dots

\* adminGetConfig: what is read is a clone with its secrets masked.
View(c) == [Clone(c) EXCEPT !.key = Mask(@)]

\* What the form writes for a field it read, login_enabled above all.
Written(v) == IF v = 0 THEN 0 ELSE Explicit[v]

\* What buildConfig leaves of the rows.
Kept(rows) == {Trim[row] : row \in rows} \ {Nameless}

EmptyForm == [fields |-> 0, rows |-> {}, extra |-> "none"]

\* here tells whether the mount that sent a request is still there; the last two
\* fields are history.
Request(op, cfg) ==
  [op |-> op, cfg |-> cfg, st |-> "sent", here |-> TRUE,
   seen |-> seen, edited |-> edited]
Plain(op, cfg) == [Request(op, cfg) EXCEPT !.seen = 0, !.edited = {}]
Load == Plain("load", Blank)

TypeOK ==
  /\ config \in Config /\ text \in Config \cup {Nothing}
  /\ form \in [fields : Values \cup {0}, rows : SUBSET Rows, extra : {"none", "unnamed", "broken"}]
  /\ seen \in 0 .. version /\ edited \subseteq {"fields", "rows", "json"}
  /\ mounted \in BOOLEAN

Init ==
  /\ config \in Whole /\ version = 1 /\ byHand = FALSE
  /\ mounted = FALSE /\ text = Nothing /\ form = EmptyForm
  /\ seen = 0 /\ edited = {} /\ edits = 0
  /\ dialog = Nothing /\ net = {} /\ fails = 0

-----------------------------------------------------------------------------
\* The page comes and goes.

\* A page that is not mounted has the state it will start with; as it comes the
\* first reading is sent.
Mount ==
  /\ ~mounted /\ Cardinality(net) < MaxNet
  /\ mounted' = TRUE /\ net' = net \cup {Load}
  /\ UNCHANGED <<serverVars, text, form, seen, edited, edits, dialog, fails>>

\* What the page has sent goes on without it, the readings and answers to no
\* effect, and its confirmation stays open.
Orphan(requests) ==
  {[r EXCEPT !.here = FALSE] : r \in {q \in requests : q.op # "load" /\ q.st = "sent"}}
Gone(requests) ==
  /\ mounted' = FALSE /\ net' = Orphan(requests)
  /\ dialog' = IF dialog = Nothing THEN Nothing ELSE [dialog EXCEPT !.here = FALSE]
  /\ text' = Nothing /\ form' = EmptyForm /\ seen' = 0 /\ edited' = {}
  /\ UNCHANGED edits

Leave ==
  /\ mounted /\ Gone(net)
  /\ UNCHANGED <<serverVars, fails>>

-----------------------------------------------------------------------------
\* What is typed.

Typing(what) ==
  /\ mounted /\ edits < MaxEdits
  /\ edits' = edits + 1 /\ edited' = edited \cup {what}
  /\ UNCHANGED <<serverVars, mounted, seen, dialog, net, fails>>

\* A field, the password and the destinations of alerts among them.
EditField(v) ==
  /\ v # form.fields /\ form' = [form EXCEPT !.fields = v]
  /\ Typing("fields") /\ UNCHANGED text

\* A row is removed, or added whole; one without its name; or one whose parameters
\* are no JSON.
EditRow(row) ==
  /\ form' = [form EXCEPT !.rows = IF row \in @ THEN @ \ {row} ELSE @ \cup {row}]
  /\ Typing("rows") /\ UNCHANGED text
DraftRow(kind) ==
  /\ kind # form.extra /\ form' = [form EXCEPT !.extra = kind]
  /\ Typing("rows") /\ UNCHANGED text

\* In the JSON view: another configuration, or text that does not parse.
EditJson(t) ==
  /\ t # text /\ text' = t
  /\ Typing("json") /\ UNCHANGED form

-----------------------------------------------------------------------------
\* Saving.

CanBuild == text # Nothing /\ form.extra # "broken"
ParsedOrEmpty == IF text = Nothing THEN Blank ELSE text

\* buildConfig: the form over the text.
Overlay(base) == [base EXCEPT !.fields = form.fields, !.rows = Kept(form.rows)]

\* Mutant: text that does not parse counts as empty.
SaveUnloaded ==
  /\ mounted /\ dialog = Nothing /\ form.extra # "broken"
  /\ dialog' = Request("save", Overlay(ParsedOrEmpty))
  /\ UNCHANGED <<serverVars, pageVars, net, fails>>

\* The payload is made before the confirmation; without one, or with text that
\* does not parse, there is only a message.
Save ==
  /\ mounted /\ dialog = Nothing /\ CanBuild
  /\ dialog' = Request("save", Overlay(text))
  /\ UNCHANGED <<serverVars, pageVars, net, fails>>

\* A file replaces the whole, or the upstreams alone.
Import(op, c) ==
  /\ mounted /\ dialog = Nothing
  /\ dialog' = Plain(op, c)
  /\ UNCHANGED <<serverVars, pageVars, net, fails>>

Confirm ==
  /\ dialog # Nothing /\ Cardinality(net) < MaxNet
  /\ dialog' = Nothing /\ net' = net \cup {dialog}
  /\ UNCHANGED <<serverVars, mounted, text, form, seen, edited, edits, fails>>

Cancel ==
  /\ dialog # Nothing /\ dialog' = Nothing
  /\ UNCHANGED <<serverVars, pageVars, net, fails>>

Reload ==
  /\ mounted /\ Cardinality(net) < MaxNet
  /\ Load \notin net
  /\ net' = net \cup {Load}
  /\ UNCHANGED <<serverVars, mounted, text, form, seen, edited, edits, dialog, fails>>

-----------------------------------------------------------------------------
\* The server.

Write(c) == version <= MaxWrites /\ version' = version + 1 /\ config' = c

Becomes(r, q) == net' = (net \ {r}) \cup {q}
Bare(r, st) == [r EXCEPT !.st = st, !.cfg = Blank, !.seen = 0, !.edited = {}]
\* An answer to a page that has gone is not heard.
Settles(r, st) == IF r.here THEN Becomes(r, Bare(r, st)) ELSE net' = net \ {r}

Read(r) ==
  /\ r.op = "load"
  /\ Becomes(r, [r EXCEPT !.st = "done", !.cfg = View(config), !.seen = version])
  /\ UNCHANGED serverVars

\* resolveMaskedSecrets: a mask that it recognises, the one with dots, becomes the
\* live key of the upstream of that name, if there is one: there is when the rest is
\* what the server would show, and may be or not when the rest has changed.
Restored(c) ==
  IF c.key # Dots THEN {c.key}
  ELSE IF c.rest \in {config.rest, Defaulted(config.rest)} THEN {config.key}
  ELSE {config.key, Dots}

Replace(r) ==
  /\ r.op \in {"save", "liapi"}
  /\ \E k \in Restored(r.cfg) : Write([r.cfg EXCEPT !.key = k])
  /\ Settles(r, "done")
  /\ byHand' = (byHand \/ (r.op = "save" /\ "json" \in r.edited))

ReplaceUpstreams(r) ==
  /\ r.op = "oneapi"
  /\ \E k \in Restored(r.cfg) : Write([Clone(config) EXCEPT !.rest = r.cfg.rest, !.key = k])
  /\ Settles(r, "done") /\ UNCHANGED byHand

Handle(r) ==
  /\ r.st = "sent"
  /\ Read(r) \/ Replace(r) \/ ReplaceUpstreams(r)
  /\ UNCHANGED <<pageVars, dialog, fails>>

\* The request or its answer is lost, or the configuration does not validate.
Lose(r) ==
  /\ r.st # "failed" /\ fails < MaxFails /\ fails' = fails + 1
  /\ Settles(r, "failed")
  /\ UNCHANGED <<serverVars, pageVars, dialog>>

\* Other pages and tabs: the handlers edit a clone, an import replaces the whole.
Elsewhere(c) ==
  /\ c # config /\ Write(c)
  /\ UNCHANGED <<byHand, pageVars, dialog, net, fails>>
ChangedElsewhere ==
  \/ \E v \in Values : Elsewhere([Clone(config) EXCEPT !.rest = v])
  \/ \E k \in Keys \cup {NoKey} : Elsewhere([Clone(config) EXCEPT !.key = k])
  \/ \E c \in Files : Elsewhere(c)

-----------------------------------------------------------------------------
\* The answers.

\* Mutant: rows of the previous reading stay.
ReadFormKeeping(c) == form' = [fields |-> Written(c.fields), rows |-> form.rows \cup c.rows, extra |-> "none"]

\* readForm, which goes with the text; the password box empties.
ReadForm(c) == form' = [fields |-> Written(c.fields), rows |-> c.rows, extra |-> "none"]

Loaded(r) ==
  /\ r.op = "load" /\ net' = net \ {r}
  /\ IF r.st = "done"
     THEN text' = r.cfg /\ ReadForm(r.cfg) /\ seen' = r.seen /\ edited' = {}
     ELSE UNCHANGED <<text, form, seen, edited>>
  /\ UNCHANGED <<mounted, edits, dialog>>

\* A save or an import reads anew; a save is over only after that.
Accepted(r) ==
  /\ r.op # "load" /\ r.st = "done"
  /\ Becomes(r, Load)
  /\ UNCHANGED <<mounted, text, form, seen, edited, edits, dialog>>

Rejected(r) ==
  /\ r.op # "load" /\ r.st = "failed"
  /\ net' = net \ {r}
  /\ UNCHANGED <<mounted, text, form, seen, edited, edits, dialog>>

\* Unauthorized: off to the login page.
SentAway(r) == r.st = "failed" /\ mounted /\ Gone(net \ {r})

Answer(r) ==
  /\ r.st # "sent"
  /\ Loaded(r) \/ Accepted(r) \/ Rejected(r) \/ SentAway(r)
  /\ UNCHANGED <<serverVars, fails>>

-----------------------------------------------------------------------------
Type ==
  \/ \E v \in Values : EditField(v)
  \/ \E row \in Rows : EditRow(row)
  \/ \E kind \in {"none", "unnamed", "broken"} : DraftRow(kind)
  \/ \E t \in Files \cup {Blank, Nothing} : EditJson(t)

Next ==
  \/ Mount \/ Leave \/ Type \/ Save \/ Confirm \/ Cancel \/ Reload
  \/ \E c \in Files, op \in {"liapi", "oneapi"} : Import(op, c)
  \/ \E r \in net : Handle(r) \/ Lose(r) \/ Answer(r)
  \/ ChangedElsewhere

Spec == Init /\ [][Next]_vars

-----------------------------------------------------------------------------
\* The empty form the page starts with never reaches the server: as long as
\* nobody has saved JSON typed by hand, the configuration keeps its fields and its
\* rest, even when a reading fails, comes late or finds the page gone and the
\* admin saves all the same (config.vue:196, the text has to parse).
NeverBlanked == TypeOK /\ (~byHand => config.fields # 0 /\ config.rest # 0)

Takes(r) == r \in net /\ r.op = "save" /\ r.st = "sent" /\ version' = version + 1 /\ r \notin net'

\* A save from a page whose reading is still current changes what the admin has
\* typed and nothing else: "structured edits overlay the raw JSON, so fields without
\* a form control ... survive" (config.vue:190), through overlapping readings,
\* confirmations that wait and a page mounted anew.  What was not typed comes back as
\* the server shows it and the form writes it: with its defaults, written out, without
\* the rows that have no name.  A key comes back as it was, unless it is short.
Untouched(r) ==
  /\ "fields" \in r.edited \/ config'.fields = Written(Defaulted(config.fields))
  /\ "rows" \in r.edited \/ config'.rows = Kept(config.rows)
  /\ "json" \in r.edited \/ config'.rest = Defaulted(config.rest)
  /\ "json" \in r.edited \/ config.key \in Short \/ config'.key = config.key
CurrentSavesAreEdits == [][\A r \in net : Takes(r) /\ r.seen = version => Untouched(r)]_vars
=============================================================================
