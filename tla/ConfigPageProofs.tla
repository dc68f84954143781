-------------------------- MODULE ConfigPageProofs -------------------------
(***************************************************************************)
(* Proofs about ConfigPage, for any configurations and any number of       *)
(* edits, requests on their way, changes elsewhere and failures: the empty *)
(* form never reaches the server, and a save from a current reading        *)
(* changes what was typed, and the rest only as the conversions on the way *)
(* do.                                                                     *)
(***************************************************************************)
EXTENDS ConfigPage, TLAPS

Parts == {"fields", "rows", "json"}
Forms == [fields : Values \cup {0}, rows : SUBSET Rows, extra : {"none", "unnamed", "broken"}]
Messages == [op : {"load", "save", "liapi", "oneapi"}, cfg : Config, st : {"sent", "done", "failed"},
             here : BOOLEAN, seen : Nat, edited : SUBSET Parts]

Types ==
  /\ config \in Config /\ text \in Config \cup {Nothing} /\ form \in Forms
  /\ version \in Nat \ {0} /\ seen \in 0 .. version /\ edited \subseteq Parts
  /\ mounted \in BOOLEAN /\ byHand \in BOOLEAN
  /\ net \subseteq Messages /\ \A r \in net : r.seen <= version
  /\ dialog # Nothing =>
       dialog \in Messages /\ dialog.seen <= version /\ dialog.st = "sent" /\ dialog.op # "load"

Good(c) == c.fields # 0 /\ c.rest # 0

\* What a message brings to the server or to the page is whole, but for JSON typed by
\* hand.
Carries(r) ==
  /\ r.op = "save" /\ r.st = "sent" /\ "json" \notin r.edited => Good(r.cfg)
  /\ r.op \in {"liapi", "oneapi"} /\ r.st = "sent" => Good(r.cfg)
  /\ r.op = "load" /\ r.st = "done" => Good(r.cfg)

\* And so is what the page would save.
Wholesome ==
  ~byHand =>
    /\ Good(config)
    /\ text # Nothing /\ "json" \notin edited => Good(Overlay(text))
    /\ \A r \in net : Carries(r)
    /\ dialog # Nothing => Carries(dialog)

\* c is the configuration, as shown and written out, with what was typed laid over it.
Lays(c, typed) ==
  /\ "fields" \in typed \/ c.fields = Written(Defaulted(config.fields))
  /\ "rows" \in typed \/ c.rows = Kept(config.rows)
  /\ "json" \notin typed => c.rest = Defaulted(config.rest) /\ c.key = Mask(config.key)

Latest(r) ==
  r.seen = version =>
    /\ r.op = "save" /\ r.st = "sent" => Lays(r.cfg, r.edited)
    /\ r.op = "load" /\ r.st = "done" => r.cfg = View(config)

\* So is what the page shows, even while its text does not parse.
Shows ==
  /\ "fields" \in edited \/ form.fields = Written(Defaulted(config.fields))
  /\ "rows" \in edited \/ form.rows = config.rows
  /\ "json" \notin edited => /\ text # Nothing /\ text.rest = Defaulted(config.rest)
                             /\ text.key = Mask(config.key)

Current ==
  /\ seen = version => Shows
  /\ \A r \in net : Latest(r)
  /\ dialog # Nothing => Latest(dialog)

Inv == Types /\ Wholesome /\ Current

USE PageAssumption, FilesAssumption

-----------------------------------------------------------------------------
LEMMA Configs ==
  ASSUME NEW c \in Config
  PROVE  /\ c.fields \in Values \cup {0} /\ c.rows \in SUBSET Rows /\ c.rest \in Values \cup {0}
         /\ c.key \in Keys \cup {Stars, Dots, NoKey}
BY DEF Config

\* The conversions keep the types, and what is there stays there.
LEMMA Conversions ==
  /\ \A v \in Values \cup {0} : /\ Defaulted(v) \in Values \cup {0} /\ (v # 0 => Defaulted(v) # 0)
                              /\ Written(v) \in Values \cup {0} /\ (v # 0 => Written(v) # 0)
  /\ \A rows \in SUBSET Rows : Kept(rows) \in SUBSET Rows
<1>1. \A v \in Values \cup {0} : /\ Defaulted(v) \in Values \cup {0} /\ (v # 0 => Defaulted(v) # 0)
                             /\ Written(v) \in Values \cup {0} /\ (v # 0 => Written(v) # 0)
  BY DEF Defaulted, Written
<1>2. ASSUME NEW rows \in SUBSET Rows PROVE Kept(rows) \in SUBSET Rows
  BY DEF Kept
<1> QED BY <1>1, <1>2

\* A clone fills in the defaults, a view masks the key as well.
LEMMA Views ==
  ASSUME NEW c \in Config
  PROVE  /\ Clone(c) \in Config /\ Clone(c).fields = Defaulted(c.fields) /\ Clone(c).rows = c.rows
         /\ Clone(c).rest = Defaulted(c.rest) /\ Clone(c).key = c.key /\ (Good(c) => Good(Clone(c)))
         /\ View(c) \in Config /\ View(c).fields = Defaulted(c.fields) /\ View(c).rows = c.rows
         /\ View(c).rest = Defaulted(c.rest) /\ View(c).key = Mask(c.key) /\ (Good(c) => Good(View(c)))
<1> DEFINE d == Clone(c)
           v == View(c)
<1>1. /\ c.fields \in Values \cup {0} /\ c.rows \in SUBSET Rows /\ c.rest \in Values \cup {0}
      /\ c.key \in Keys \cup {Stars, Dots, NoKey}
  BY Configs
<1>2. /\ Defaulted(c.fields) \in Values \cup {0} /\ Defaulted(c.rest) \in Values \cup {0}
      /\ c.fields # 0 => Defaulted(c.fields) # 0
      /\ c.rest # 0 => Defaulted(c.rest) # 0
  BY <1>1, Conversions
<1>3. /\ d \in Config /\ d.fields = Defaulted(c.fields) /\ d.rows = c.rows
      /\ d.rest = Defaulted(c.rest) /\ d.key = c.key
  <2> DEFINE a == Defaulted(c.fields)
             b == Defaulted(c.rest)
  <2>1. d = [c EXCEPT !.fields = a, !.rest = b]
    BY DEF Clone
  <2>2. a \in Values \cup {0} /\ b \in Values \cup {0}
    BY <1>2
  <2> HIDE DEF d, v, a, b
  <2>3. /\ d \in Config /\ d.fields = a /\ d.rows = c.rows /\ d.rest = b /\ d.key = c.key
    BY <2>1, <2>2 DEF Config
  <2> QED BY <2>3 DEF a, b
<1>4. Mask(c.key) \in Keys \cup {Stars, Dots, NoKey}
  BY DEF Mask
<1>5. /\ v \in Config /\ v.fields = d.fields /\ v.rows = d.rows /\ v.rest = d.rest
      /\ v.key = Mask(d.key)
  <2>1. v = [d EXCEPT !.key = Mask(d.key)]
    BY DEF View
  <2> HIDE DEF d, v
  <2> QED BY <2>1, <1>3, <1>4 DEF Config
<1> HIDE DEF d, v
<1>6. (Good(c) => Good(d)) /\ (Good(c) => Good(v))
  BY <1>2, <1>3, <1>5 DEF Good
<1> QED BY <1>3, <1>5, <1>6 DEF d, v

\* What is restored is a key, and the live one for the mask the page was shown.
LEMMA Restores ==
  ASSUME NEW c \in Config, config \in Config
  PROVE  /\ Restored(c) \subseteq Keys \cup {Stars, Dots, NoKey}
         /\ c.key = Mask(config.key) /\ c.rest = Defaulted(config.rest) /\ config.key \notin Short
              => Restored(c) = {config.key}
BY Configs DEF Restored, Mask

LEMMA Blanks ==
  /\ Blank \in Config /\ EmptyForm \in Forms /\ Nothing \notin Config
  /\ \A c \in Whole : c \in Config /\ Good(c)
  /\ \A v \in Values : v # 0
  /\ Load \in Messages /\ Load.seen = 0 /\ Load.op = "load" /\ Load.st = "sent"
BY DEF Blank, Config, EmptyForm, Forms, Whole, Good, Load, Plain, Request, Messages, Parts

\* The form over a text is a configuration.
LEMMA Overlays ==
  ASSUME Types, NEW c \in Config
  PROVE  /\ Overlay(c) \in Config /\ Overlay(c).fields = form.fields
         /\ Overlay(c).rows = Kept(form.rows) /\ Overlay(c).rest = c.rest /\ Overlay(c).key = c.key
<1>1. form.fields \in Values \cup {0} /\ Kept(form.rows) \in SUBSET Rows
  BY Conversions DEF Types, Forms
<1> QED BY <1>1 DEF Overlay, Config

LEMMA Requests ==
  ASSUME Types, NEW op \in {"save", "liapi", "oneapi"}, NEW c \in Config
  PROVE  /\ Request(op, c) \in Messages /\ Request(op, c).op = op /\ Request(op, c).cfg = c
         /\ Request(op, c).st = "sent" /\ Request(op, c).seen = seen /\ Request(op, c).edited = edited
         /\ Plain(op, c) \in Messages /\ Plain(op, c).op = op /\ Plain(op, c).cfg = c
         /\ Plain(op, c).st = "sent" /\ Plain(op, c).seen = 0
<1> DEFINE q == Request(op, c)
           p == Plain(op, c)
<1>1. q = [op |-> op, cfg |-> c, st |-> "sent", here |-> TRUE, seen |-> seen, edited |-> edited]
  BY DEF Request
<1>2. p = [op |-> op, cfg |-> c, st |-> "sent", here |-> TRUE, seen |-> 0, edited |-> {}]
  <2>1. p = [q EXCEPT !.seen = 0, !.edited = {}]
    BY DEF Plain
  <2> HIDE DEF q, p
  <2> QED BY <1>1, <2>1
<1>3. seen \in Nat /\ edited \in SUBSET Parts
  BY DEF Types
<1> HIDE DEF q, p
<1>4. q \in Messages /\ p \in Messages
  BY <1>1, <1>2, <1>3 DEF Messages
<1> QED BY <1>1, <1>2, <1>4 DEF q, p

LEMMA InitInv == Init => Inv
<1> SUFFICES ASSUME Init PROVE Inv
  OBVIOUS
<1>1. config \in Config /\ Good(config)
  BY Blanks DEF Init
<1>2. Types
  <2>1. version \in Nat \ {0} /\ seen \in 0 .. version /\ edited \subseteq Parts
    BY DEF Init
  <2>2. text = Nothing /\ form \in Forms /\ mounted = FALSE /\ byHand = FALSE
    BY Blanks DEF Init
  <2>3. net = {} /\ dialog = Nothing
    BY DEF Init
  <2> QED BY <1>1, <2>1, <2>2, <2>3 DEF Types
<1>3. Wholesome /\ Current
  BY <1>1 DEF Init, Wholesome, Current
<1> QED BY <1>2, <1>3 DEF Inv

-----------------------------------------------------------------------------
\* A step that leaves the server and the page alone; what is on its way is old, or is
\* a request to read, or lost what it carried.
LEMMA Passing ==
  ASSUME Inv, UNCHANGED serverVars,
         text' = text, form' = form, seen' = seen, edited' = edited, mounted' \in BOOLEAN,
         \A r \in net' : \/ r \in net
                         \/ r = dialog /\ dialog # Nothing
                         \/ /\ r \in Messages /\ r.seen = 0
                            /\ r.op = "load" => r.st # "done"
                            /\ r.op # "load" => r.st # "sent",
         dialog' = Nothing \/ dialog' = dialog
  PROVE  Inv'
<1>1. Types'
  BY DEF Inv, Types, serverVars
<1>2. Wholesome'
  BY DEF Inv, Wholesome, Carries, Messages, serverVars, Overlay, Good
<1>3. Current'
  <2>1. \A r \in net' : Latest(r)
    BY DEF Inv, Current, Latest, Types, serverVars
  <2> QED BY <2>1 DEF Inv, Current, Shows, Latest, Lays, serverVars
<1> QED BY <1>1, <1>2, <1>3 DEF Inv

\* The page starts anew; its requests go on without it.
LEMMA Starting ==
  ASSUME Inv, NEW N \in SUBSET net, Gone(N), UNCHANGED serverVars
  PROVE  Inv'
<1>1. ASSUME NEW r \in Messages
      PROVE  LET q == [r EXCEPT !.here = FALSE]
             IN  /\ q \in Messages /\ q.op = r.op /\ q.cfg = r.cfg /\ q.st = r.st
                 /\ q.seen = r.seen /\ q.edited = r.edited
  BY DEF Messages
<1>2. \A q \in net' : \E r \in net :
        /\ q \in Messages /\ q.op = r.op /\ q.cfg = r.cfg /\ q.st = r.st
        /\ q.seen = r.seen /\ q.edited = r.edited
  <2> SUFFICES ASSUME NEW q \in net'
               PROVE  \E r \in net : /\ q \in Messages /\ q.op = r.op /\ q.cfg = r.cfg /\ q.st = r.st
                                     /\ q.seen = r.seen /\ q.edited = r.edited
    OBVIOUS
  <2>1. PICK r \in N : q = [r EXCEPT !.here = FALSE]
    BY DEF Gone, Orphan
  <2>2. r \in net /\ r \in Messages
    BY <2>1 DEF Inv, Types
  <2> QED BY <2>1, <2>2, <1>1
<1>3. dialog' # Nothing =>
        /\ dialog # Nothing /\ dialog' \in Messages /\ dialog'.op = dialog.op /\ dialog'.cfg = dialog.cfg
        /\ dialog'.st = dialog.st /\ dialog'.seen = dialog.seen /\ dialog'.edited = dialog.edited
  BY <1>1 DEF Gone, Inv, Types
<1>4. Types'
  <2>1. net' \subseteq Messages /\ \A q \in net' : q.seen <= version
    BY <1>2 DEF Inv, Types
  <2>2. /\ text' = Nothing /\ form' = EmptyForm /\ seen' = 0 /\ edited' = {} /\ mounted' = FALSE
        /\ UNCHANGED <<config, version, byHand>>
    BY DEF Gone, serverVars
  <2>3. dialog' # Nothing => dialog' \in Messages /\ dialog'.seen <= version /\ dialog'.st = "sent" /\ dialog'.op # "load"
    BY <1>3 DEF Inv, Types
  <2>4. form' \in Forms /\ seen' \in 0 .. version /\ edited' \subseteq Parts
    BY <2>2, Blanks DEF Inv, Types
  <2> QED BY <2>1, <2>2, <2>3, <2>4 DEF Inv, Types
<1>5. Wholesome'
  BY <1>2, <1>3 DEF Inv, Wholesome, Carries, Gone, serverVars, Good
<1>6. Current'
  <2>1. \A q \in net' : Latest(q)
    BY <1>2 DEF Inv, Current, Latest, Lays
  <2>2. dialog' # Nothing => Latest(dialog')
    BY <1>3 DEF Inv, Current, Latest, Lays
  <2> QED BY <2>1, <2>2 DEF Inv, Types, Current, Latest, Lays, Gone, serverVars
<1> QED BY <1>4, <1>5, <1>6 DEF Inv

\* Something is typed: whatever the page has now, it says what was touched.
LEMMA Touching ==
  ASSUME Inv, NEW what \in Parts, Typing(what), form' \in Forms, text' \in Config \cup {Nothing},
         IF what = "json" THEN form' = form ELSE text' = text,
         what = "fields" => form'.fields # 0 /\ form'.rows = form.rows,
         what = "rows" => form'.fields = form.fields
  PROVE  Inv'
<1>1. edited' = edited \cup {what} /\ UNCHANGED <<serverVars, seen, dialog, net, mounted>>
  BY DEF Typing
<1>2. Types'
  BY <1>1 DEF Inv, Types, serverVars
<1>3. Wholesome'
  <2> SUFFICES ASSUME ~byHand, text' # Nothing, "json" \notin edited'
               PROVE  Good(Overlay(text))'
    BY <1>1 DEF Inv, Wholesome, serverVars, Carries, Good
  <2>1. text' = text /\ text \in Config /\ what # "json" /\ Good(Overlay(text))
    BY <1>1 DEF Inv, Wholesome, Types
  <2>2. form'.fields # 0
    BY <2>1, Overlays DEF Inv, Good, Parts
  <2>3. Overlay(text).rest = text.rest /\ Overlay(text)'.rest = text.rest /\ Overlay(text)'.fields = form'.fields
    BY <2>1, <1>2, Overlays DEF Inv, Overlay, Config
  <2> QED BY <2>1, <2>2, <2>3 DEF Good
<1>4. Current'
  <2> SUFFICES ASSUME seen = version PROVE Shows'
    BY <1>1 DEF Inv, Current, Latest, Lays, serverVars
  <2>1. Shows /\ UNCHANGED config
    BY <1>1 DEF Inv, Current, serverVars
  <2>2. CASE what = "json"
    BY <1>1, <2>1, <2>2 DEF Shows
  <2>3. CASE what = "fields"
    BY <1>1, <2>1, <2>3 DEF Shows
  <2>4. CASE what = "rows"
    BY <1>1, <2>1, <2>4 DEF Shows
  <2> QED BY <2>2, <2>3, <2>4 DEF Parts
<1> QED BY <1>2, <1>3, <1>4 DEF Inv

\* The configuration changes: whatever was read before is no longer current.
LEMMA Changing ==
  ASSUME Inv, UNCHANGED <<pageVars, dialog>>,
         version' = version + 1, config' \in Config, byHand' \in BOOLEAN,
         byHand => byHand', ~byHand' => Good(config'),
         \A r \in net' : \/ r \in net
                         \/ r \in Messages /\ r.seen = 0 /\ r.op # "load" /\ r.st # "sent"
  PROVE  Inv'
<1>1. version \in Nat /\ \A r \in net' : r.seen \in Nat /\ r.seen <= version
  BY DEF Inv, Types, Messages
<1>2. Types'
  <2>1. version' \in Nat \ {0} /\ seen' \in 0 .. version'
    BY <1>1 DEF Inv, Types, pageVars
  <2>2. net' \subseteq Messages /\ \A r \in net' : r.seen <= version'
    <3>1. net' \subseteq Messages
      BY DEF Inv, Types
    <3> QED BY <1>1, <3>1
  <2>3. /\ UNCHANGED <<text, form, edited, mounted>>
        /\ dialog' = dialog
    BY DEF pageVars
  <2>4. dialog' # Nothing =>
          dialog' \in Messages /\ dialog'.seen <= version' /\ dialog'.st = "sent" /\ dialog'.op # "load"
    <3>1. dialog # Nothing => dialog.seen \in Nat
      BY DEF Inv, Types, Messages
    <3> QED BY <1>1, <2>3, <3>1 DEF Inv, Types
  <2> QED BY <2>1, <2>2, <2>3, <2>4 DEF Inv, Types
<1>3. Wholesome'
  BY DEF Inv, Wholesome, Carries, pageVars, Overlay, Good
<1>4. Current'
  <2>1. seen \in Nat /\ seen <= version /\ (dialog # Nothing => dialog.seen \in Nat /\ dialog.seen <= version)
    BY DEF Inv, Types, Messages
  <2>2. seen' # version' /\ (dialog' # Nothing => dialog'.seen # version')
    BY <1>1, <2>1 DEF pageVars
  <2>3. \A r \in net' : r.seen # version'
    BY <1>1
  <2> QED BY <2>2, <2>3 DEF Current, Latest
<1> QED BY <1>2, <1>3, <1>4 DEF Inv

\* An answer without what it answers.
LEMMA Bares ==
  ASSUME Inv, NEW r \in net, NEW st \in {"done", "failed"}
  PROVE  /\ Bare(r, st) \in Messages /\ Bare(r, st).op = r.op
         /\ Bare(r, st).st = st /\ Bare(r, st).seen = 0
         /\ Settles(r, st) => \A q \in net' : q \in net \/ q = Bare(r, st)
<1>1. r \in Messages
  BY DEF Inv, Types
<1>2. /\ Bare(r, st) \in Messages /\ Bare(r, st).op = r.op
      /\ Bare(r, st).st = st /\ Bare(r, st).seen = 0
  <2>1. Blank \in Config /\ 0 \in Nat /\ {} \in SUBSET Parts
    BY Blanks
  <2> QED BY <1>1, <2>1 DEF Bare, Messages
<1> QED BY <1>2 DEF Settles, Becomes

-----------------------------------------------------------------------------
\* What the page and the admin do.
LEMMA PageInv ==
  ASSUME Inv,
         \/ Mount \/ Leave \/ Type \/ Save \/ Confirm \/ Cancel \/ Reload
         \/ \E c \in Files, op \in {"liapi", "oneapi"} : Import(op, c)
  PROVE  Inv'
<1> mounted \in BOOLEAN
  BY DEF Inv, Types
<1>1. CASE Mount
  <2>1. /\ text' = text /\ form' = form /\ seen' = seen /\ edited' = edited /\ dialog' = dialog
        /\ UNCHANGED serverVars /\ mounted' \in BOOLEAN /\ net' = net \cup {Load}
    BY <1>1 DEF Mount
  <2> QED BY <2>1, Blanks, Passing
<1>2. CASE Leave
  <2>1. net \in SUBSET net
    OBVIOUS
  <2> QED BY <1>2, <2>1, Starting DEF Leave
<1>3. CASE Type
  <2>1. form \in Forms /\ text \in Config \cup {Nothing}
    BY DEF Inv, Types
  <2>2. ASSUME NEW v \in Values, EditField(v) PROVE Inv'
    <3>1. form' \in Forms /\ form'.fields = v /\ form'.rows = form.rows
      BY <2>1, <2>2 DEF EditField, Forms
    <3> QED BY <2>1, <2>2, <3>1, Blanks, Touching DEF EditField, Parts
  <2>3. ASSUME NEW row \in Rows, EditRow(row) PROVE Inv'
    <3>1. form' \in Forms /\ form'.fields = form.fields
      BY <2>1, <2>3 DEF EditRow, Forms
    <3> QED BY <2>1, <2>3, <3>1, Touching DEF EditRow, Parts
  <2>4. ASSUME NEW kind \in {"none", "unnamed", "broken"}, DraftRow(kind) PROVE Inv'
    <3>1. form' \in Forms /\ form'.fields = form.fields
      BY <2>1, <2>4 DEF DraftRow, Forms
    <3> QED BY <2>1, <2>4, <3>1, Touching DEF DraftRow, Parts
  <2>5. ASSUME NEW t \in Files \cup {Blank, Nothing}, EditJson(t) PROVE Inv'
    <3>1. t \in Config \cup {Nothing}
      BY Blanks
    <3> QED BY <2>1, <2>5, <3>1, Touching DEF EditJson, Parts
  <2> QED BY <1>3, <2>2, <2>3, <2>4, <2>5 DEF Type
<1>4. CASE Save
  <2> DEFINE q == Request("save", Overlay(text))
  <2>1. text \in Config /\ text # Nothing /\ dialog' = q /\ UNCHANGED <<serverVars, pageVars, net>>
    BY <1>4 DEF Save, CanBuild, Inv, Types
  <2>2. /\ q \in Messages /\ q.op = "save" /\ q.cfg = Overlay(text) /\ q.st = "sent"
        /\ q.seen = seen /\ q.edited = edited
    BY <2>1, Overlays, Requests DEF Inv
  <2> HIDE DEF q
  <2>3. Types'
    BY <2>1, <2>2 DEF Inv, Types, serverVars, pageVars
  <2>4. Wholesome'
    <3>1. ~byHand => Carries(q)
      BY <2>1, <2>2 DEF Inv, Wholesome, Carries
    <3> QED BY <2>1, <3>1 DEF Inv, Wholesome, serverVars, pageVars, Overlay, Carries, Good
  <2>5. Current'
    <3>1. Latest(q)
      BY <2>1, <2>2, Overlays DEF Inv, Current, Shows, Latest, Lays
    <3> QED BY <2>1, <3>1 DEF Inv, Current, Shows, serverVars, pageVars, Latest, Lays
  <2> QED BY <2>3, <2>4, <2>5 DEF Inv
<1>5. ASSUME NEW c \in Files, NEW op \in {"liapi", "oneapi"}, Import(op, c) PROVE Inv'
  <2> DEFINE q == Plain(op, c)
  <2>1. dialog' = q /\ UNCHANGED <<serverVars, pageVars, net>> /\ c \in Config /\ Good(c)
    BY <1>5, Blanks DEF Import
  <2>2. q \in Messages /\ q.op = op /\ q.cfg = c /\ q.st = "sent" /\ q.seen = 0
    BY <2>1, Requests DEF Inv
  <2> HIDE DEF q
  <2>3. Types'
    BY <2>1, <2>2 DEF Inv, Types, serverVars, pageVars
  <2>4. Wholesome'
    <3>1. Carries(q)
      BY <2>1, <2>2 DEF Carries
    <3> QED BY <2>1, <3>1 DEF Inv, Wholesome, serverVars, pageVars, Overlay, Carries, Good
  <2>5. Current'
    <3>1. Latest(q)
      BY <2>2 DEF Inv, Types, Latest
    <3> QED BY <2>1, <3>1 DEF Inv, Current, Shows, serverVars, pageVars, Latest, Lays
  <2> QED BY <2>3, <2>4, <2>5 DEF Inv
<1>6. CASE Confirm
  BY <1>6, Passing DEF Confirm, Inv, Types
<1>7. CASE Cancel
  BY <1>7, Passing DEF Cancel, Inv, Types, pageVars
<1>8. CASE Reload
  <2>1. /\ text' = text /\ form' = form /\ seen' = seen /\ edited' = edited /\ dialog' = dialog
        /\ UNCHANGED serverVars /\ mounted' \in BOOLEAN /\ net' = net \cup {Load}
    BY <1>8 DEF Reload
  <2> QED BY <2>1, Blanks, Passing
<1> QED BY <1>1, <1>2, <1>3, <1>4, <1>5, <1>6, <1>7, <1>8

-----------------------------------------------------------------------------
\* The server reads, replaces the whole, or the upstreams.
LEMMA ServerInv ==
  ASSUME Inv, NEW r \in net, Handle(r)
  PROVE  Inv'
<1>1. r \in Messages /\ r.st = "sent" /\ r.cfg \in Config /\ config \in Config /\ UNCHANGED <<pageVars, dialog>>
  BY DEF Handle, Inv, Types, Messages
<1>2. CASE Read(r)
  <2> DEFINE q == [r EXCEPT !.st = "done", !.cfg = View(config), !.seen = version]
  <2>1. /\ q \in Messages /\ q.op = "load" /\ q.st = "done" /\ q.cfg = View(config) /\ q.seen = version
        /\ net' = (net \ {r}) \cup {q} /\ UNCHANGED serverVars
    <3>1. View(config) \in Config
      BY <1>1, Views
    <3> QED BY <1>1, <1>2, <3>1 DEF Read, Becomes, Inv, Types, Messages
  <2> HIDE DEF q
  <2>2. Types'
    BY <1>1, <2>1 DEF Inv, Types, serverVars, pageVars
  <2>3. Wholesome'
    <3>1. ~byHand => Carries(q)
      BY <1>1, <2>1, Views DEF Inv, Wholesome, Carries
    <3> QED BY <1>1, <2>1, <3>1 DEF Inv, Wholesome, serverVars, pageVars, Overlay, Carries, Good
  <2>4. Current'
    <3>1. Latest(q)
      BY <2>1 DEF Latest
    <3> QED BY <1>1, <2>1, <3>1 DEF Inv, Current, Shows, serverVars, pageVars, Latest, Lays
  <2> QED BY <2>2, <2>3, <2>4 DEF Inv
<1>3. CASE Replace(r)
  <2>1. PICK k \in Restored(r.cfg) : config' = [r.cfg EXCEPT !.key = k]
    BY <1>3 DEF Replace, Write
  <2>2. /\ r.op \in {"save", "liapi"} /\ version' = version + 1
        /\ byHand' = (byHand \/ (r.op = "save" /\ "json" \in r.edited)) /\ Settles(r, "done")
    BY <1>3 DEF Replace, Write
  <2>3. config' \in Config /\ config'.fields = r.cfg.fields /\ config'.rest = r.cfg.rest
    <3>1. k \in Keys \cup {Stars, Dots, NoKey}
      BY <1>1, <2>1, Restores
    <3> QED BY <1>1, <2>1, <3>1 DEF Config
  <2>4. ~byHand' => Good(config')
    BY <1>1, <2>2, <2>3 DEF Inv, Wholesome, Carries, Good
  <2>5. byHand' \in BOOLEAN /\ (byHand => byHand')
    BY <2>2 DEF Inv, Types
  <2> QED BY <1>1, <2>2, <2>3, <2>4, <2>5, Bares, Changing
<1>4. CASE ReplaceUpstreams(r)
  <2>1. PICK k \in Restored(r.cfg) : config' = [Clone(config) EXCEPT !.rest = r.cfg.rest, !.key = k]
    BY <1>4 DEF ReplaceUpstreams, Write
  <2>2. /\ r.op = "oneapi" /\ version' = version + 1 /\ UNCHANGED byHand /\ Settles(r, "done")
    BY <1>4 DEF ReplaceUpstreams, Write
  <2>3. config' \in Config /\ config'.fields = Clone(config).fields /\ config'.rest = r.cfg.rest
    <3>1. k \in Keys \cup {Stars, Dots, NoKey} /\ r.cfg.rest \in Values \cup {0}
      BY <1>1, <2>1, Restores, Configs
    <3>2. Clone(config) \in Config
      BY <1>1, Views
    <3> QED BY <2>1, <3>1, <3>2 DEF Config
  <2>4. ~byHand' => Good(config')
    BY <1>1, <2>2, <2>3, Views DEF Inv, Wholesome, Carries, Good
  <2>5. byHand \in BOOLEAN
    BY DEF Inv, Types
  <2> QED BY <1>1, <2>2, <2>3, <2>4, <2>5, Bares, Changing
<1> QED BY <1>2, <1>3, <1>4 DEF Handle

\* Other pages keep the configuration whole.
LEMMA ElsewhereInv ==
  ASSUME Inv, ChangedElsewhere
  PROVE  Inv'
<1>1. PICK c \in Config : Elsewhere(c) /\ (Good(config) => Good(c))
  <2>1. Clone(config) \in Config /\ (Good(config) => Good(Clone(config)))
    BY Views DEF Inv, Types
  <2>2. ASSUME NEW v \in Values
        PROVE  /\ [Clone(config) EXCEPT !.rest = v] \in Config
               /\ Good(Clone(config)) => Good([Clone(config) EXCEPT !.rest = v])
    BY <2>1 DEF Config, Good
  <2>3. ASSUME NEW k \in Keys \cup {NoKey}
        PROVE  /\ [Clone(config) EXCEPT !.key = k] \in Config
               /\ Good(Clone(config)) => Good([Clone(config) EXCEPT !.key = k])
    BY <2>1 DEF Config, Good
  <2>4. \A f \in Files : f \in Config /\ Good(f)
    BY Blanks
  <2> QED BY <2>1, <2>2, <2>3, <2>4 DEF ChangedElsewhere
<1> QED BY <1>1, Changing DEF Elsewhere, Write, Inv, Types, Wholesome

\* An answer: a reading is shown, the rest only ends.
LEMMA AnswerInv ==
  ASSUME Inv, NEW r \in net, Answer(r)
  PROVE  Inv'
<1>1. r \in Messages /\ mounted \in BOOLEAN /\ UNCHANGED serverVars
  BY DEF Answer, Inv, Types
<1>2. CASE Loaded(r)
  <2>1. CASE r.st = "done"
    <3>1. /\ text' = r.cfg /\ form' = [fields |-> Written(r.cfg.fields), rows |-> r.cfg.rows, extra |-> "none"]
          /\ seen' = r.seen /\ edited' = {} /\ net' = net \ {r} /\ UNCHANGED <<mounted, dialog>>
          /\ r.op = "load" /\ r.cfg \in Config
      BY <1>1, <1>2, <2>1 DEF Loaded, ReadForm, Messages
    <3>2. form' \in Forms /\ r.seen \in 0 .. version
      <4>1. Written(r.cfg.fields) \in Values \cup {0} /\ r.cfg.rows \in SUBSET Rows
        BY <3>1, Configs, Conversions
      <4>2. r.seen \in Nat /\ r.seen <= version /\ version \in Nat
        BY <1>1 DEF Inv, Types, Messages
      <4> QED BY <3>1, <4>1, <4>2 DEF Forms
    <3>3. Types'
      BY <1>1, <3>1, <3>2 DEF Inv, Types, serverVars
    <3>4. /\ Overlay(text)'.fields = Written(r.cfg.fields) /\ Overlay(text)'.rest = r.cfg.rest
          /\ r.cfg.fields # 0 => Written(r.cfg.fields) # 0
      BY <3>1, Configs, Conversions DEF Overlay, Config
    <3>5. Wholesome'
      <4>1. ~byHand => Good(r.cfg)
        BY <2>1, <3>1 DEF Inv, Wholesome, Carries
      <4> QED BY <1>1, <3>1, <3>4, <4>1 DEF Inv, Wholesome, serverVars, Carries, Good
    <3>6. Current'
      <4>1. r.seen = version =>
              /\ r.cfg.fields = Defaulted(config.fields) /\ r.cfg.rows = config.rows
              /\ r.cfg.rest = Defaulted(config.rest) /\ r.cfg.key = Mask(config.key)
        BY <2>1, <3>1, Views DEF Inv, Types, Current, Latest
      <4> QED BY <1>1, <3>1, <4>1, FilesAssumption DEF Inv, Current, Shows, serverVars, Latest, Lays
    <3> QED BY <3>3, <3>5, <3>6 DEF Inv
  <2>2. CASE r.st # "done"
    <3>1. /\ text' = text /\ form' = form /\ seen' = seen /\ edited' = edited /\ dialog' = dialog
          /\ mounted' \in BOOLEAN /\ net' = net \ {r}
      BY <1>1, <1>2, <2>2 DEF Loaded
    <3> QED BY <1>1, <3>1, Passing
  <2> QED BY <2>1, <2>2
<1>3. CASE Accepted(r)
  <2>1. /\ text' = text /\ form' = form /\ seen' = seen /\ edited' = edited /\ dialog' = dialog
        /\ mounted' \in BOOLEAN /\ net' = (net \ {r}) \cup {Load}
    BY <1>1, <1>3 DEF Accepted, Becomes
  <2> QED BY <1>1, <2>1, Blanks, Passing
<1>4. CASE Rejected(r)
  <2>1. /\ text' = text /\ form' = form /\ seen' = seen /\ edited' = edited /\ dialog' = dialog
        /\ mounted' \in BOOLEAN /\ net' = net \ {r}
    BY <1>1, <1>4 DEF Rejected
  <2> QED BY <1>1, <2>1, Passing
<1>5. CASE SentAway(r)
  <2>1. net \ {r} \in SUBSET net
    OBVIOUS
  <2> QED BY <1>1, <1>5, <2>1, Starting DEF SentAway
<1> QED BY <1>2, <1>3, <1>4, <1>5 DEF Answer

LEMMA LoseInv ==
  ASSUME Inv, NEW r \in net, Lose(r)
  PROVE  Inv'
<1>1. /\ text' = text /\ form' = form /\ seen' = seen /\ edited' = edited /\ dialog' = dialog
      /\ UNCHANGED serverVars /\ mounted' \in BOOLEAN /\ Settles(r, "failed")
  BY DEF Lose, pageVars, Inv, Types
<1>2. \A q \in net' : \/ q \in net
                      \/ q \in Messages /\ q.seen = 0 /\ q.st = "failed"
  BY <1>1, Bares
<1> QED BY <1>1, <1>2, Passing

LEMMA StepInv == Inv /\ [Next]_vars => Inv'
<1> SUFFICES ASSUME Inv, [Next]_vars PROVE Inv'
  OBVIOUS
<1>1. CASE UNCHANGED vars
  <2>1. /\ text' = text /\ form' = form /\ seen' = seen /\ edited' = edited /\ dialog' = dialog
        /\ UNCHANGED serverVars /\ mounted' \in BOOLEAN /\ net' = net
    BY <1>1 DEF vars, pageVars, Inv, Types
  <2> QED BY <2>1, Passing
<1> QED BY <1>1, PageInv, ServerInv, LoseInv, AnswerInv, ElsewhereInv DEF Next

LEMMA Invariance == Spec => []Inv
BY InitInv, StepInv, PTL DEF Spec

-----------------------------------------------------------------------------
\* The types hold, and without JSON typed by hand the configuration keeps its fields
\* and its rest.
THEOREM ConfigurationStaysWhole == Spec => []NeverBlanked
<1>1. Inv => NeverBlanked
  BY DEF Inv, Types, Wholesome, Good, NeverBlanked, TypeOK, Forms, Parts
<1> QED BY <1>1, Invariance, PTL

\* A save from a current reading changes what was typed, and the rest only as the
\* defaults, the form and the masks do; a key longer than eight characters survives.
THEOREM SavesAreEdits == Spec => CurrentSavesAreEdits
<1>1. ASSUME Inv, Next, NEW r \in net, Takes(r), r.seen = version
      PROVE  Untouched(r)
  <2>1. version' # version /\ r \notin net' /\ r.op = "save" /\ r.st = "sent"
    BY <1>1 DEF Takes, Inv, Types
  <2>2. ~ChangedElsewhere
    BY <2>1 DEF ChangedElsewhere, Elsewhere
  <2>3. PICK q \in net : Handle(q)
    BY <1>1, <2>1, <2>2
    DEF Next, Mount, Leave, Type, EditField, EditRow, DraftRow, EditJson, Typing, Save, Confirm,
        Cancel, Reload, Import, Lose, Answer, serverVars
  <2>4. Replace(q) /\ q = r
    BY <2>1, <2>3 DEF Handle, Read, Replace, ReplaceUpstreams, Settles, Becomes, serverVars
  <2>5. PICK k \in Restored(r.cfg) : config' = [r.cfg EXCEPT !.key = k]
    BY <2>4 DEF Replace, Write
  <2>6. r.cfg \in Config /\ config \in Config
    BY <1>1 DEF Inv, Types, Messages
  <2>7. /\ config'.fields = r.cfg.fields /\ config'.rows = r.cfg.rows
        /\ config'.rest = r.cfg.rest /\ config'.key = k
    BY <2>5, <2>6 DEF Config
  <2>8. Lays(r.cfg, r.edited)
    BY <1>1, <2>1 DEF Inv, Current, Latest
  <2>9. "json" \notin r.edited /\ config.key \notin Short => k = config.key
    BY <2>5, <2>6, <2>8, Restores DEF Lays
  <2> QED BY <2>7, <2>8, <2>9 DEF Lays, Untouched
<1>2. Inv /\ [Next]_vars => [\A r \in net : Takes(r) /\ r.seen = version => Untouched(r)]_vars
  BY <1>1
<1> QED BY <1>2, Invariance, PTL DEF Spec, CurrentSavesAreEdits
=============================================================================
