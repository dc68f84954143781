---------------------------- MODULE UiPagesProofs ---------------------------
(***************************************************************************)
(* Proofs about UiPages, for any number of tasks, rows, keys and mounts:   *)
(* a list at rest is the table's, the flag of a page says whether one of   *)
(* its handlers is about, and a key that left the screen does not return.  *)
(*                                                                         *)
(* A list is fresh as long as each change of its table is followed by a    *)
(* load: of a list that is not muddled, either it is the table's, or the   *)
(* answer that will have it loaded is on its way, or the load is, with the *)
(* table as it is now (Covered).  A change that reaches the server makes   *)
(* every earlier load stale and is itself such an answer.                  *)
(***************************************************************************)
EXTENDS UiPages, FiniteSetTheorems, SequenceTheorems, WellFoundedInduction, TLAPS

Hooks(p) == {ListsOf(p)[i] : i \in DOMAIN ListsOf(p)}
HasList(l) == l \in Hooks(page)

\* What a page has on its way is about its lists, and a change about the first.
Placed ==
  \A t \in Running :
    /\ Mounted(t) => HasList(task[t].h.list)
    /\ Mounted(t) /\ (Writing(t) \/ Probing(t)) => task[t].h.list = page
    /\ Probing(t) => task[t].h = ProvidersProbe

Holders == {t \in Running : Mounted(t) /\ task[t].h.flag}
OneHolder == busy = (Holders # {}) /\ \A t, u \in Holders : t = u

\* The keys on their way to the page are new, and different ones.
Brings(t) == task[t].pc = "done" /\ task[t].h.issues
NewKeys ==
  \A t \in Running : Brings(t) =>
    /\ task[t].got \in (1 .. keys) \ seen
    /\ \A u \in Running : Brings(u) /\ task[u].got = task[t].got => u = t

\* A list that is not muddled is the table's, or about to be: an answer is on its
\* way that will have it reloaded, or the load itself is.
Pending(l) == \E t \in Running : Mounted(t) /\ task[t].h.list = l /\ task[t].pc = "done"
Covered(l) ==
  /\ \A t \in Running : ~Mounted(t) => l \notin Affects(t)
  /\ \A t, u \in Reloading(l) : t = u
  /\ data[l] = table[l] \/ Pending(l) \/ Reloading(l) # {}
  /\ \A t \in Reloading(l) : task[t].pc = "loaded" => task[t].got = table[l] \/ Pending(l)
AllCovered == \A l \in Lists : HasList(l) /\ l \notin muddled => Covered(l)

\* What the start of loads of some lists makes of the tasks that were.
Loading(l) == Task(Reload(l), "load", <<>>)
Reads(was, lists) ==
  /\ task' \in [Tasks -> Works \cup {Idle}]
  /\ \A t \in Tasks : was[t] # Idle => task'[t] = was[t]
  /\ \A t \in Tasks : was[t] = Idle => task'[t] = Idle \/ \E l \in lists : task'[t] = Loading(l)
  /\ \A l \in lists : \E t \in Tasks : was[t] = Idle /\ task'[t] = Loading(l)
  /\ \A t, u \in Tasks : was[t] = Idle /\ was[u] = Idle /\ task'[t] # Idle /\ task'[u] = task'[t] => t = u

Inv == TypeOK /\ Placed /\ OneHolder /\ NewKeys /\ AllCovered

-----------------------------------------------------------------------------
(* Which tasks an event starts. *)

\* Of some numbers there is a first.
LEMMA FirstOf ==
  ASSUME NEW S \in SUBSET Nat, S # {}
  PROVE  \E m \in S : \A s \in S : m <= s
PROOF
<1>1. PICK m \in S : \A s \in S : ~ (<<s, m>> \in OpToRel(<, Nat))
  BY NatLessThanWellFounded, WFMin
<1>2. \A s \in S : ~ (s < m)
  BY <1>1 DEF OpToRel
<1>3. QED
  BY <1>2

\* Two things are two, three are three.
LEMMA PairCounts == \A a, b : a # b => IsFiniteSet({a, b}) /\ Cardinality({a, b}) = 2
PROOF
<1> SUFFICES ASSUME NEW a, NEW b, a # b
             PROVE  IsFiniteSet({a, b}) /\ Cardinality({a, b}) = 2
  OBVIOUS
<1>1. IsFiniteSet({a}) /\ Cardinality({a}) = 1
  BY FS_Singleton
<1>2. IsFiniteSet({a} \cup {b}) /\ Cardinality({a} \cup {b}) = 1 + 1
  BY <1>1, FS_AddElement
<1>3. {a} \cup {b} = {a, b}
  OBVIOUS
<1>4. QED
  BY <1>2, <1>3

LEMMA TripleCounts ==
  ASSUME NEW a, NEW b, NEW c, a # b, a # c, b # c
  PROVE  IsFiniteSet({a, b, c}) /\ Cardinality({a, b, c}) = 3
PROOF
<1>1. IsFiniteSet({a, b}) /\ Cardinality({a, b}) = 2
  BY PairCounts
<1>2. IsFiniteSet({a, b} \cup {c}) /\ Cardinality({a, b} \cup {c}) = 2 + 1
  BY <1>1, FS_AddElement
<1>3. {a, b} \cup {c} = {a, b, c}
  OBVIOUS
<1>4. QED
  BY <1>2, <1>3

\* One task is started under some number that was free.
LEMMA StartsOne ==
  ASSUME NEW T, NEW was \in [Tasks -> T], NEW x, StartsAmid(was, <<x>>)
  PROVE  \E f \in Tasks : was[f] = Idle /\ task' = [was EXCEPT ![f] = x]
PROOF
<1> DEFINE free == {t \in Tasks : was[t] = Idle}
           Upto(t) == {s \in free : s <= t}
           Rank(t) == Cardinality(Upto(t))
<1>1. IsFiniteSet(free) /\ free \subseteq Nat /\ free \subseteq Tasks
  BY PagesAssumption, FS_Subset
<1>2. \A t \in Tasks : IsFiniteSet(Upto(t)) /\ Rank(t) \in Nat
  BY <1>1, FS_Subset, FS_CardinalityType
<1>3. /\ Cardinality(free) >= 1
      /\ task' = [t \in Tasks |-> IF t \in free /\ Rank(t) <= 1 THEN <<x>>[Rank(t)] ELSE was[t]]
  BY DEF StartsAmid
<1>4. free # {}
  BY <1>3, FS_EmptySet
<1>5. PICK f \in free : \A s \in free : f <= s
  BY <1>1, <1>4, FirstOf
<1>6. Upto(f) = {f} /\ Rank(f) = 1
  <2>1. Upto(f) = {f}
    BY <1>1, <1>5
  <2>2. QED
    BY <2>1, FS_Singleton
<1>7. \A t \in free : Rank(t) <= 1 => t = f
  <2> SUFFICES ASSUME NEW t \in free, t # f PROVE ~ (Rank(t) <= 1)
    OBVIOUS
  <2>1. {f, t} \subseteq Upto(t)
    BY <1>1, <1>5
  <2>2. Cardinality({f, t}) = 2
    BY PairCounts
  <2>3. Cardinality({f, t}) <= Rank(t)
    BY <1>2, <2>1, FS_Subset, <1>1
  <2>4. QED
    BY <1>1, <1>2, <2>2, <2>3
<1>8. \A t \in Tasks : task'[t] = IF t = f THEN x ELSE was[t]
  BY <1>3, <1>6, <1>7
<1>9. QED
  BY <1>1, <1>3, <1>8

\* Two tasks are started under two such numbers.
LEMMA StartsTwo ==
  ASSUME NEW T, NEW was \in [Tasks -> T], NEW x, NEW y, StartsAmid(was, <<x, y>>)
  PROVE  \E f, g \in Tasks :
           /\ f # g /\ was[f] = Idle /\ was[g] = Idle
           /\ task' = [was EXCEPT ![f] = x, ![g] = y]
PROOF
<1> DEFINE free == {t \in Tasks : was[t] = Idle}
           Upto(t) == {s \in free : s <= t}
           Rank(t) == Cardinality(Upto(t))
<1>1. IsFiniteSet(free) /\ free \subseteq Nat /\ free \subseteq Tasks
  BY PagesAssumption, FS_Subset
<1>2. \A t \in Tasks : IsFiniteSet(Upto(t)) /\ Rank(t) \in Nat
  BY <1>1, FS_Subset, FS_CardinalityType
<1>3. /\ Cardinality(free) >= 2
      /\ task' = [t \in Tasks |-> IF t \in free /\ Rank(t) <= 2
                                  THEN <<x, y>>[Rank(t)] ELSE was[t]]
  BY DEF StartsAmid
<1>4. free # {}
  BY <1>3, FS_EmptySet
<1>5. PICK f \in free : \A s \in free : f <= s
  BY <1>1, <1>4, FirstOf
<1>6. free \ {f} # {}
  <2> SUFFICES ASSUME free = {f} PROVE FALSE
    BY <1>5
  <2>1. Cardinality(free) = 1
    BY FS_Singleton
  <2>2. QED
    BY <1>3, <2>1
<1>7. PICK g \in free \ {f} : \A s \in free \ {f} : g <= s
  BY <1>1, <1>6, FirstOf
<1>8. Rank(f) = 1
  <2>1. Upto(f) = {f}
    BY <1>1, <1>5
  <2>2. QED
    BY <2>1, FS_Singleton
<1>9. Rank(g) = 2
  <2>1. Upto(g) = {f, g}
    BY <1>1, <1>5, <1>7
  <2>2. Cardinality({f, g}) = 2
    BY <1>7, PairCounts
  <2>3. QED
    BY <2>1, <2>2
<1>10. \A t \in free : Rank(t) <= 2 => t \in {f, g}
  <2> SUFFICES ASSUME NEW t \in free, t # f, t # g PROVE ~ (Rank(t) <= 2)
    OBVIOUS
  <2>1. {f, g, t} \subseteq Upto(t)
    BY <1>1, <1>5, <1>7
  <2>2. Cardinality({f, g, t}) = 3
    BY <1>7, TripleCounts
  <2>3. Cardinality({f, g, t}) <= Rank(t)
    BY <1>2, <2>1, FS_Subset, <1>1
  <2>4. QED
    BY <1>1, <1>2, <2>2, <2>3
<1>11. \A t \in Tasks : task'[t] = IF t = f THEN x ELSE IF t = g THEN y ELSE was[t]
  BY <1>3, <1>7, <1>8, <1>9, <1>10
<1>12. task' = [t \in Tasks |-> IF t = f THEN x ELSE IF t = g THEN y ELSE was[t]]
  BY <1>3, <1>11
<1>13. f \in Tasks /\ g \in Tasks /\ f # g /\ was[f] = Idle /\ was[g] = Idle
  BY <1>7
<1>14. task' = [was EXCEPT ![f] = x, ![g] = y]
  BY <1>12, <1>13
<1>15. QED
  BY <1>13, <1>14

\* And none, none.
LEMMA StartsNone ==
  ASSUME NEW T, NEW was \in [Tasks -> T], StartsAmid(was, <<>>)
  PROVE  task' = was
PROOF
<1> DEFINE free == {t \in Tasks : was[t] = Idle}
           Upto(t) == {s \in free : s <= t}
           Rank(t) == Cardinality(Upto(t))
<1>1. IsFiniteSet(free)
  BY PagesAssumption, FS_Subset
<1>2. task' = [t \in Tasks |-> IF t \in free /\ Rank(t) <= 0 THEN <<>>[Rank(t)] ELSE was[t]]
  BY DEF StartsAmid
<1>3. \A t \in free : ~ (Rank(t) <= 0)
  <2> SUFFICES ASSUME NEW t \in free PROVE ~ (Rank(t) <= 0)
    OBVIOUS
  <2>1. IsFiniteSet(Upto(t)) /\ t \in Upto(t)
    BY <1>1, FS_Subset, PagesAssumption
  <2>2. QED
    BY <2>1, FS_EmptySet, FS_CardinalityType
<1>4. QED
  BY <1>2, <1>3

-----------------------------------------------------------------------------
(* What the tables of the module come to. *)

LEMMA HandlerShape ==
  ASSUME NEW h \in Handlers \cup {Reload(l) : l \in Lists}
  PROVE  /\ h.list \in Lists
         /\ h.closes \in {"none", "create", "edit", "delete"}
         /\ h.list = "devices" => h.closes # "create"
         /\ h.issues => h.list = "devices"
PROOF
<1>1. CASE h \in {d.sends : d \in Dialogs}
  <2>1. h \in {DevicesCreate, DevicesSaveEdit, DevicesConfirmDelete, ProvidersAdd, ProvidersSaveEdit,
               ProvidersConfirmDelete, ModelsCreate, ModelsSaveEdit, ModelsConfirmDelete}
    BY <1>1 DEF Dialogs, Dialog, DevicesCreateDialog, DevicesEditDialog, DevicesDeleteDialog,
         ProvidersAddDialog, ProvidersEditDialog, ProvidersDeleteDialog,
         ModelsAddDialog, ModelsEditDialog, ModelsDeleteDialog
  <2>2. QED
    BY <2>1 DEF Handler, Lists, DevicesCreate, DevicesSaveEdit, DevicesConfirmDelete, ProvidersAdd,
         ProvidersSaveEdit, ProvidersConfirmDelete, ModelsCreate, ModelsSaveEdit, ModelsConfirmDelete
<1>2. CASE h \in UNION {RowOf(p).sends : p \in {"devices", "providers", "models"}}
  <2>1. h \in {DevicesToggleStatus, DevicesRotate, ProvidersToggle}
    BY <1>2 DEF RowOf, DevicesRow, ProvidersRow, ModelsRow
  <2>2. QED
    BY <2>1 DEF Handler, Lists, DevicesToggleStatus, DevicesRotate, ProvidersToggle
<1>3. CASE h \in {Reload(l) : l \in Lists}
  BY <1>3 DEF Reload, Handler, Lists
<1>4. QED
  BY <1>1, <1>2, <1>3 DEF Handlers

\* The hooks of each page.
LEMMA HooksOf ==
  /\ ListsOf("devices") = <<"devices">> /\ Hooks("devices") = {"devices"}
  /\ ListsOf("providers") = <<"providers">> /\ Hooks("providers") = {"providers"}
  /\ ListsOf("models") = <<"models", "providers">> /\ Hooks("models") = {"models", "providers"}
  /\ ListsOf("elsewhere") = <<>> /\ Hooks("elsewhere") = {}
PROOF
<1>1. /\ ListsOf("devices") = <<"devices">> /\ ListsOf("providers") = <<"providers">>
      /\ ListsOf("models") = <<"models", "providers">> /\ ListsOf("elsewhere") = <<>>
  BY DEF ListsOf
<1>2. DOMAIN ListsOf("devices") = {1} /\ DOMAIN ListsOf("providers") = {1}
      /\ DOMAIN ListsOf("models") = {1, 2} /\ DOMAIN ListsOf("elsewhere") = {}
  BY <1>1
<1>3. QED
  BY <1>1, <1>2 DEF Hooks

LEMMA HooksAreLists ==
  ASSUME NEW p \in Pages
  PROVE  Hooks(p) \subseteq Lists /\ (p # "elsewhere" => p \in Hooks(p)) /\ "elsewhere" \notin Lists
PROOF
  BY HooksOf DEF Pages, Lists

LEMMA ProbeIsWork ==
  /\ ProvidersProbe \in Handlers
  /\ ~ProvidersProbe.flag /\ ~ProvidersProbe.issues /\ ProvidersProbe.list = "providers"
PROOF
<1>1. ProvidersProbe = ProvidersToggle
  BY DEF ProvidersProbe, ProvidersToggle
<1>2. ProvidersToggle \in RowOf("providers").sends
  BY DEF RowOf, ProvidersRow
<1>3. QED
  BY <1>1, <1>2 DEF Handlers, ProvidersProbe, Handler

LEMMA TaskIsWork ==
  ASSUME NEW h \in Handlers \cup {Reload(l) : l \in Lists}, NEW pc \in {"sent", "done", "load", "loaded"},
         NEW rows \in Seq(1 .. RowCount)
  PROVE  Task(h, pc, rows) \in Works /\ Task(h, pc, rows) # Idle
PROOF
<1>1. Task(h, pc, rows) \in Works
  BY DEF Task, Works
<1>2. QED
  BY <1>1, IdleAssumption

LEMMA ReloadIsWork ==
  ASSUME NEW l \in Lists
  PROVE  /\ Loading(l) \in Works /\ Loading(l) # Idle
         /\ Loading(l).here /\ Loading(l).pc = "load" /\ Loading(l).rows = <<>>
         /\ Loading(l).h.list = l /\ ~Loading(l).h.flag /\ ~Loading(l).h.issues
PROOF
<1>1. Loading(l) \in Works /\ Loading(l) # Idle
  <2>1. <<>> \in Seq(1 .. RowCount)
    OBVIOUS
  <2>2. QED
    BY <2>1, TaskIsWork DEF Loading
<1>2. QED
  BY <1>1 DEF Loading, Task, Reload, Handler

\* One load is started, or one for each hook of a page.
LEMMA ReadsOne ==
  ASSUME NEW was \in [Tasks -> Works \cup {Idle}], NEW l \in Lists, StartsAmid(was, <<Loading(l)>>)
  PROVE  Reads(was, {l})
PROOF
<1>1. PICK f \in Tasks : was[f] = Idle /\ task' = [was EXCEPT ![f] = Loading(l)]
  BY StartsOne
<1>2. QED
  BY <1>1, ReloadIsWork DEF Reads

LEMMA ReadsTwo ==
  ASSUME NEW was \in [Tasks -> Works \cup {Idle}], NEW k \in Lists, NEW l \in Lists, k # l,
         StartsAmid(was, <<Loading(k), Loading(l)>>)
  PROVE  Reads(was, {k, l})
PROOF
<1>1. PICK f, g \in Tasks :
        /\ f # g /\ was[f] = Idle /\ was[g] = Idle
        /\ task' = [was EXCEPT ![f] = Loading(k), ![g] = Loading(l)]
  <2>1. \A x, y : StartsAmid(was, <<x, y>>) =>
          \E f, g \in Tasks :
            /\ f # g /\ was[f] = Idle /\ was[g] = Idle
            /\ task' = [was EXCEPT ![f] = x, ![g] = y]
    BY StartsTwo
  <2>2. QED
    BY <2>1
<1>2. Loading(k) # Loading(l)
  BY ReloadIsWork
<1>3. \A t \in Tasks : task'[t] = IF t = f THEN Loading(k) ELSE IF t = g THEN Loading(l) ELSE was[t]
  BY <1>1
<1>4. task' \in [Tasks -> Works \cup {Idle}]
  BY <1>1, ReloadIsWork
<1>5. QED
  BY <1>1, <1>2, <1>3, <1>4, ReloadIsWork DEF Reads

LEMMA ReadsHooks ==
  ASSUME NEW was \in [Tasks -> Works \cup {Idle}], NEW p \in Pages,
         StartsAmid(was, [i \in DOMAIN ListsOf(p) |-> Loading(ListsOf(p)[i])])
  PROVE  Reads(was, Hooks(p))
PROOF
<1> DEFINE started == [i \in DOMAIN ListsOf(p) |-> Loading(ListsOf(p)[i])]
<1>1. CASE p \in {"devices", "providers"}
  <2>1. ListsOf(p) = <<p>> /\ Hooks(p) = {p} /\ p \in Lists
    BY <1>1, HooksOf DEF Lists
  <2>2. started = <<Loading(p)>>
    BY <2>1
  <2>3. QED
    BY <2>1, <2>2, ReadsOne
<1>2. CASE p = "models"
  <2>1. /\ ListsOf(p) = <<"models", "providers">> /\ Hooks(p) = {"models", "providers"}
        /\ "models" \in Lists /\ "providers" \in Lists
    BY <1>2, HooksOf DEF Lists
  <2>2. started = <<Loading("models"), Loading("providers")>>
    BY <2>1
  <2>3. QED
    BY <2>1, <2>2, ReadsTwo
<1>3. CASE p = "elsewhere"
  <2>1. ListsOf(p) = <<>> /\ Hooks(p) = {}
    BY <1>3, HooksOf
  <2>2. started = <<>>
    BY <2>1
  <2>3. task' = was
    BY <2>2, StartsNone
  <2>4. QED
    BY <2>1, <2>3 DEF Reads
<1>4. QED
  BY <1>1, <1>2, <1>3 DEF Pages

-----------------------------------------------------------------------------
(* The invariant. *)

Rest == Placed /\ OneHolder /\ NewKeys /\ AllCovered

\* The pages start within the invariant.
LEMMA InitInv == Init => Inv
PROOF
<1> SUFFICES ASSUME Init PROVE Inv
  OBVIOUS
<1>1. Running = {}
  BY DEF Init, Running
<1>2. TypeOK
  <2>1. /\ page \in Pages /\ mount \in Nat /\ keys \in Nat /\ issued \in 0 .. keys
        /\ probing \in 0 .. RowCount
    BY PagesAssumption DEF Init, Pages
  <2>2. /\ table \in [Lists -> Nat] /\ data \in [Lists -> Nat]
        /\ loading \in [Lists -> BOOLEAN] /\ error \in [Lists -> BOOLEAN]
    BY DEF Init
  <2>3. /\ dialogs \subseteq {"create", "edit", "delete"} /\ seen \subseteq 1 .. keys
        /\ muddled \subseteq Lists /\ task \in [Tasks -> Works \cup {Idle}]
    BY DEF Init
  <2>4. busy \in BOOLEAN
    BY DEF Init
  <2>5. QED
    BY <2>1, <2>2, <2>3, <2>4 DEF TypeOK
<1>3. Placed /\ NewKeys
  BY <1>1 DEF Placed, NewKeys
<1>4. OneHolder
  BY <1>1 DEF Init, OneHolder, Holders
<1>5. AllCovered
  BY HooksOf DEF Init, AllCovered, HasList
<1>6. QED
  BY <1>2, <1>3, <1>4, <1>5 DEF Inv

\* What only touches the dialogs keeps the rest of it.
LEMMA RestSame ==
  ASSUME Inv, UNCHANGED <<page, server, data, busy, task, seen, muddled>>
  PROVE  Rest'
PROOF
<1>1. Running' = Running /\ \A t \in Running : Mounted(t)' = Mounted(t) /\ Brings(t)' = Brings(t)
  BY DEF Running, Mounted, Brings
<1>2. Placed'
  BY <1>1 DEF Inv, Placed, HasList, Hooks, Writing, Probing, Mounted
<1>3. OneHolder'
  BY <1>1 DEF Inv, OneHolder, Holders
<1>4. NewKeys'
  BY <1>1 DEF Inv, NewKeys, server
<1>5. AllCovered'
  BY <1>1 DEF Inv, AllCovered, Covered, Pending, Reloading, Affects, Probing, HasList, Mounted, server
<1>6. QED
  BY <1>2, <1>3, <1>4, <1>5 DEF Rest

\* A handler sends its request.
LEMMA SentRest ==
  ASSUME Inv, NEW h \in Handlers, NEW rows \in Seq(1 .. RowCount),
         rows # <<>> => h = ProvidersProbe, h.list = page, h.flag => ~busy,
         Starts(<<Task(h, "sent", rows)>>), busy' = (busy \/ h.flag),
         UNCHANGED <<page, server, data, seen, muddled>>
  PROVE  task' \in [Tasks -> Works \cup {Idle}] /\ Rest'
PROOF
<1> DEFINE x == Task(h, "sent", rows)
<1>0. task \in [Tasks -> Works \cup {Idle}] /\ page \in Pages
  BY DEF Inv, TypeOK
<1>1. PICK f \in Tasks : task[f] = Idle /\ task' = [task EXCEPT ![f] = x]
  BY <1>0, StartsOne DEF Starts
<1>2. x \in Works /\ x # Idle /\ x.h = h /\ x.here /\ x.pc = "sent" /\ x.rows = rows
  BY TaskIsWork DEF Task
<1>3. task' \in [Tasks -> Works \cup {Idle}]
  BY <1>0, <1>1, <1>2
<1>4. task'[f] = x /\ \A t \in Tasks \ {f} : task'[t] = task[t]
  BY <1>0, <1>1
<1> HIDE DEF x
<1>5. Running' = Running \cup {f} /\ f \notin Running
  BY <1>1, <1>2, <1>4 DEF Running
<1>6. page # "elsewhere" /\ HasList(page)
  BY <1>0, HandlerShape, HooksAreLists DEF HasList
<1>7. Placed'
  BY <1>2, <1>4, <1>5, <1>6 DEF Inv, Placed, HasList, Hooks, Writing, Probing, Mounted, Running
<1>8. OneHolder'
  <2>1. Holders' = Holders \cup (IF h.flag THEN {f} ELSE {})
    BY <1>2, <1>4, <1>5 DEF Holders, Mounted, Running
  <2>2. QED
    BY <2>1 DEF Inv, OneHolder
<1>9. NewKeys'
  BY <1>2, <1>4, <1>5 DEF Inv, NewKeys, Brings, server, Running
<1>10. AllCovered'
  <2> SUFFICES ASSUME NEW l \in Lists, HasList(l), l \notin muddled PROVE Covered(l)'
    BY DEF AllCovered, HasList, Hooks
  <2>1. Covered(l)
    BY DEF Inv, AllCovered
  <2>2. Reloading(l)' = Reloading(l)
    BY <1>2, <1>4, <1>5 DEF Reloading, Mounted, Running
  <2>3. Pending(l) => Pending(l)'
    BY <1>4, <1>5 DEF Pending, Mounted, Running
  <2>4. \A t \in Running' : ~Mounted(t)' => l \notin Affects(t)'
    BY <2>1, <1>2, <1>4, <1>5 DEF Covered, Mounted, Affects, Probing, Running
  <2>5. \A t \in Reloading(l) : task'[t] = task[t]
    BY <1>4, <1>5 DEF Reloading, Running
  <2>6. QED
    BY <2>1, <2>2, <2>3, <2>4, <2>5 DEF Covered, server
<1>11. QED
  BY <1>3, <1>7, <1>8, <1>9, <1>10 DEF Rest

\* Some hooks of the page are read again.
LEMMA ReadsRest ==
  ASSUME Inv, NEW lists \in SUBSET Hooks(page), Reads(task, lists), Marks(lists),
         UNCHANGED <<page, server, data, busy, seen>>
  PROVE  task' \in [Tasks -> Works \cup {Idle}] /\ Rest'
PROOF
<1> DEFINE new == {t \in Tasks : task[t] = Idle /\ task'[t] # Idle}
<1>0. task \in [Tasks -> Works \cup {Idle}] /\ page \in Pages /\ Hooks(page) \subseteq Lists
  BY HooksAreLists DEF Inv, TypeOK
<1>1. task' \in [Tasks -> Works \cup {Idle}]
  BY DEF Reads
<1>2. \A t \in Running : task'[t] = task[t]
  BY DEF Reads, Running
<1>3. \A t \in new : \E l \in lists : /\ task'[t] = Loading(l) /\ l \in Hooks(page)
                                      /\ task'[t].here /\ task'[t].pc = "load" /\ task'[t].rows = <<>>
                                      /\ task'[t].h.list = l /\ ~task'[t].h.flag /\ ~task'[t].h.issues
  BY <1>0, ReloadIsWork DEF Reads
<1>4. Running' = Running \cup new /\ Running \cap new = {}
  BY <1>2 DEF Running
<1>5. \A l \in lists : \E t \in new : task'[t] = Loading(l)
  BY <1>0, ReloadIsWork DEF Reads
<1>6. \A t, u \in new : task'[t].h.list = task'[u].h.list => t = u
  BY <1>0, <1>3, ReloadIsWork DEF Reads
<1> HIDE DEF new
<1>7. Placed'
  BY <1>2, <1>3, <1>4 DEF Inv, Placed, HasList, Hooks, Writing, Probing, Mounted
<1>8. OneHolder'
  <2>1. Holders' = Holders
    BY <1>2, <1>3, <1>4 DEF Holders, Mounted
  <2>2. QED
    BY <2>1 DEF Inv, OneHolder
<1>9. NewKeys'
  BY <1>2, <1>3, <1>4 DEF Inv, NewKeys, Brings, server
<1>10. AllCovered'
  <2> SUFFICES ASSUME NEW l \in Lists, HasList(l), l \notin muddled' PROVE Covered(l)'
    BY DEF AllCovered, HasList, Hooks
  <2>1. Covered(l) /\ (l \in lists => Reloading(l) = {})
    BY DEF Inv, AllCovered, Marks
  <2>2. Reloading(l)' = Reloading(l) \cup {t \in new : task'[t].h.list = l}
    BY <1>2, <1>3, <1>4 DEF Reloading, Mounted
  <2>3. Pending(l) => Pending(l)'
    BY <1>2, <1>4 DEF Pending, Mounted
  <2>4. \A t \in Running' : ~Mounted(t)' => l \notin Affects(t)'
    BY <2>1, <1>2, <1>3, <1>4 DEF Covered, Mounted, Affects, Probing
  <2>5. \A t \in Reloading(l) : task'[t] = task[t]
    BY <1>2 DEF Reloading
  <2>6. \A t \in new : task'[t].h.list = l => l \in lists
    BY <1>3
  <2>7. \A t, u \in Reloading(l)' : t = u
    BY <2>1, <2>2, <2>6, <1>6 DEF Covered
  <2>8. \A t \in Reloading(l)' : task'[t].pc = "loaded" => task'[t].got = table'[l] \/ Pending(l)'
    BY <2>1, <2>2, <2>3, <2>5, <1>3 DEF Covered, server
  <2>9. data'[l] = table'[l] \/ Pending(l)' \/ Reloading(l)' # {}
    BY <2>1, <2>2, <2>3 DEF Covered, server
  <2>10. QED
    BY <2>4, <2>7, <2>8, <2>9 DEF Covered
<1>11. QED
  BY <1>1, <1>7, <1>8, <1>9, <1>10 DEF Rest

\* A page is mounted afresh, upon what is left of the one before.
LEMMA NavigateRest ==
  ASSUME Inv, NEW p \in Pages, Navigate(p)
  PROVE  task' \in [Tasks -> Works \cup {Idle}] /\ Rest'
PROOF
<1> DEFINE was == [t \in Tasks |-> Orphan(t)]
           left == {t \in Tasks : was[t] # Idle}
           new == {t \in Tasks : was[t] = Idle /\ task'[t] # Idle}
<1>0. task \in [Tasks -> Works \cup {Idle}] /\ page' = p /\ Hooks(p) \subseteq Lists
  BY HooksAreLists DEF Inv, TypeOK, Navigate
<1>1. \A t \in Tasks : was[t] # Idle =>
        /\ t \in Running /\ was[t] = [task[t] EXCEPT !.here = FALSE] /\ was[t] \in Works
        /\ ~was[t].here /\ was[t].h = task[t].h /\ was[t].pc = task[t].pc
        /\ was[t].got = task[t].got /\ was[t].rows = task[t].rows
  BY <1>0 DEF Orphan, Running, Works
<1>2. was \in [Tasks -> Works \cup {Idle}]
  BY <1>1
<1>3. StartsAmid(was, [i \in DOMAIN ListsOf(p) |-> Loading(ListsOf(p)[i])])
  BY DEF Navigate, Loading
<1>4. Reads(was, Hooks(p))
  BY <1>2, <1>3, ReadsHooks
<1>5. task' \in [Tasks -> Works \cup {Idle}]
  BY <1>4 DEF Reads
<1>6. \A t \in left : task'[t] = was[t]
  BY <1>4 DEF Reads
<1>7. \A t \in new : \E l \in Hooks(p) : /\ task'[t] = Loading(l)
                                         /\ task'[t].here /\ task'[t].pc = "load" /\ task'[t].rows = <<>>
                                         /\ task'[t].h.list = l /\ ~task'[t].h.flag /\ ~task'[t].h.issues
  BY <1>0, <1>4, ReloadIsWork DEF Reads
<1>8. Running' = left \cup new /\ left \cap new = {} /\ left \subseteq Running
  BY <1>1, <1>6 DEF Running
<1>9. \A l \in Hooks(p) : \E t \in new : task'[t] = Loading(l)
  BY <1>0, <1>4, ReloadIsWork DEF Reads
<1>10. \A t, u \in new : task'[t].h.list = task'[u].h.list => t = u
  BY <1>0, <1>4, <1>7, ReloadIsWork DEF Reads
<1>11. \A t \in left : /\ ~task'[t].here /\ task'[t].h = task[t].h /\ task'[t].pc = task[t].pc
                       /\ task'[t].got = task[t].got /\ task'[t].rows = task[t].rows
  BY <1>1, <1>6
<1>12. muddled' = UNION {Affects(t) : t \in left}
  <2>1. {s \in Running : Orphan(s) # Idle} = left
    BY <1>1 DEF Running
  <2>2. QED
    BY <2>1 DEF Navigate
<1> HIDE DEF left, new, was
<1>13. Placed'
  BY <1>0, <1>7, <1>8, <1>11 DEF Inv, Placed, HasList, Hooks, Writing, Probing, Mounted
<1>14. OneHolder'
  <2>1. Holders' = {} /\ busy' = FALSE
    BY <1>7, <1>8, <1>11 DEF Holders, Mounted, Navigate
  <2>2. QED
    BY <2>1 DEF OneHolder
<1>15. NewKeys'
  <2>1. keys' = keys /\ seen' = seen
    BY DEF Navigate, server
  <2>2. \A t \in Running' : Brings(t)' => t \in left /\ Brings(t) /\ task'[t].got = task[t].got
    BY <1>7, <1>8, <1>11 DEF Brings
  <2>3. QED
    BY <1>8, <2>1, <2>2 DEF Inv, NewKeys
<1>16. AllCovered'
  <2> SUFFICES ASSUME NEW l \in Lists, l \in Hooks(p), l \notin muddled' PROVE Covered(l)'
    BY <1>0 DEF AllCovered, HasList, Hooks
  <2>1. Reloading(l)' = {t \in new : task'[t].h.list = l}
    BY <1>7, <1>8, <1>11 DEF Reloading, Mounted
  <2>2. \A t \in Running' : ~Mounted(t)' => l \notin Affects(t)'
    <3> SUFFICES ASSUME NEW t \in left PROVE l \notin Affects(t)'
      BY <1>7, <1>8 DEF Mounted
    <3>1. Affects(t)' = Affects(t)
      BY <1>11 DEF Affects, Probing
    <3>2. QED
      BY <3>1, <1>12
  <2>3. PICK t \in new : task'[t] = Loading(l)
    BY <1>9
  <2>4. t \in Reloading(l)'
    BY <1>0, <2>1, <2>3, ReloadIsWork
  <2>5. \A u, v \in Reloading(l)' : u = v
    BY <2>1, <1>10
  <2>6. \A u \in Reloading(l)' : task'[u].pc = "load"
    BY <2>1, <1>7
  <2>7. QED
    BY <2>2, <2>4, <2>5, <2>6 DEF Covered
<1>17. QED
  BY <1>5, <1>13, <1>14, <1>15, <1>16 DEF Rest

-----------------------------------------------------------------------------
(* What becomes of a task. *)

\* A task on its way, and what Finish makes of it.
LEMMA TaskIs ==
  ASSUME Inv, NEW t \in Running
  PROVE  /\ t \in Tasks /\ task[t] \in Works
         /\ task[t].h \in Handlers \cup {Reload(l) : l \in Lists} /\ task[t].here \in BOOLEAN
         /\ task[t].pc \in {"sent", "done", "load", "loaded"} /\ task[t].got \in Nat
         /\ task[t].rows \in Seq(1 .. RowCount) /\ task[t].h.list \in Lists
PROOF
<1>1. t \in Tasks /\ task[t] \in Works
  BY DEF Inv, TypeOK, Running
<1>2. task[t].h \in Handlers \cup {Reload(l) : l \in Lists}
  BY <1>1 DEF Works
<1>3. QED
  BY <1>1, <1>2, HandlerShape DEF Works

\* A task that goes on, or has ended, takes nothing of another.
LEMMA OthersStay ==
  ASSUME Inv, NEW t \in Running, NEW x \in Works \cup {Idle}, task' = [task EXCEPT ![t] = x]
  PROVE  /\ task' \in [Tasks -> Works \cup {Idle}] /\ task'[t] = x
         /\ \A u \in Running \ {t} : task'[u] = task[u]
         /\ Running' = IF x = Idle THEN Running \ {t} ELSE Running
PROOF
<1>1. task \in [Tasks -> Works \cup {Idle}] /\ t \in Tasks
  BY DEF Inv, TypeOK, Running
<1>2. task'[t] = x /\ \A u \in Tasks \ {t} : task'[u] = task[u]
  BY <1>1
<1>3. QED
  BY <1>1, <1>2 DEF Running

\* What Finish leaves of a task: nothing, or a probe of the next row.
LEMMA FinishIs ==
  ASSUME Inv, NEW t \in Running, Finish(t)
  PROVE  /\ task' = [task EXCEPT ![t] = Remains(t)] /\ Remains(t) \in Works \cup {Idle}
         /\ Remains(t) # Idle =>
              /\ Remains(t).h = task[t].h /\ Remains(t).here = task[t].here
              /\ Remains(t).pc = "sent" /\ task[t].rows # <<>> /\ Remains(t).rows # <<>>
         /\ busy' = (busy /\ ~(task[t].here /\ task[t].h.flag))
         /\ probing' \in 0 .. RowCount
PROOF
<1>1. /\ task[t] \in Works /\ task[t].rows \in Seq(1 .. RowCount)
      /\ task[t].h \in Handlers \cup {Reload(l) : l \in Lists} /\ task[t].here \in BOOLEAN
      /\ task \in [Tasks -> Works \cup {Idle}] /\ probing \in 0 .. RowCount /\ RowCount \in Nat
  BY TaskIs, PagesAssumption DEF Inv, TypeOK
<1>2. Len(task[t].rows) > 1 =>
        /\ Tail(task[t].rows) \in Seq(1 .. RowCount) /\ Tail(task[t].rows) # <<>>
        /\ task[t].rows # <<>> /\ task[t].rows[2] \in 1 .. RowCount
  <2> SUFFICES ASSUME Len(task[t].rows) > 1
               PROVE  /\ Tail(task[t].rows) \in Seq(1 .. RowCount) /\ Tail(task[t].rows) # <<>>
                      /\ task[t].rows # <<>> /\ task[t].rows[2] \in 1 .. RowCount
    OBVIOUS
  <2>1. task[t].rows # <<>> /\ Len(task[t].rows) \in Nat /\ 2 \in 1 .. Len(task[t].rows)
    BY <1>1, LenProperties
  <2>2. task[t].rows[2] \in 1 .. RowCount
    BY <1>1, <2>1, ElementOfSeq
  <2>3. Tail(task[t].rows) \in Seq(1 .. RowCount) /\ Len(Tail(task[t].rows)) = Len(task[t].rows) - 1
    BY <1>1, <2>1, HeadTailProperties
  <2>4. Tail(task[t].rows) # <<>>
    <3>1. Len(Tail(task[t].rows)) # 0
      <4> DEFINE n == Len(task[t].rows)
                 m == Len(Tail(task[t].rows))
      <4>1. n \in Nat /\ n > 1 /\ m = n - 1
        BY <2>1, <2>3
      <4> HIDE DEF n, m
      <4>2. m # 0
        BY <4>1
      <4>3. QED
        BY <4>2 DEF m
    <3>2. Len(<<>>) = 0
      BY EmptySeq
    <3>3. QED
      BY <3>1, <3>2, Zenon
  <2>5. QED
    BY <2>1, <2>2, <2>3, <2>4
<1>3. Len(task[t].rows) > 1 => Remains(t) \in Works
  BY <1>1, <1>2 DEF Remains, More, Works
<1>4. task' = [task EXCEPT ![t] = Remains(t)]
  BY DEF Finish
<1>5. Remains(t) \in Works \cup {Idle}
  BY <1>3 DEF Remains, More
<1>6. Remains(t) # Idle =>
        /\ Remains(t).h = task[t].h /\ Remains(t).here = task[t].here
        /\ Remains(t).pc = "sent" /\ task[t].rows # <<>> /\ Remains(t).rows # <<>>
  BY <1>1, <1>2 DEF Remains, More, Works
<1>7. busy' = (busy /\ ~(task[t].here /\ task[t].h.flag))
  BY DEF Finish, Mounted
<1>8. probing' \in 0 .. RowCount
  BY <1>1, <1>2 DEF Finish, More
<1>9. QED
  BY <1>4, <1>5, <1>6, <1>7, <1>8

-----------------------------------------------------------------------------
(* The steps of a task. *)

\* The server carries out a request.
LEMMA HandleRest ==
  ASSUME Inv, NEW t \in Running, Handle(t)
  PROVE  TypeOK' /\ Rest'
PROOF
<1> DEFINE x == [task[t] EXCEPT !.pc = "done", !.got = IF task[t].h.issues THEN keys' ELSE 0]
<1>1. /\ t \in Tasks /\ task[t] \in Works /\ task[t].pc = "sent" /\ task[t].here \in BOOLEAN
      /\ task[t].h.list \in Lists /\ keys \in Nat /\ table \in [Lists -> Nat]
      /\ task \in [Tasks -> Works \cup {Idle}]
  BY TaskIs DEF Handle, Inv, TypeOK
<1>2. keys' \in Nat /\ keys' >= keys /\ (task[t].h.issues => keys' = keys + 1)
  BY <1>1 DEF Handle
<1>3. /\ x \in Works /\ x # Idle /\ x.h = task[t].h /\ x.here = task[t].here /\ x.pc = "done"
      /\ x.rows = task[t].rows /\ (x.h.issues => x.got = keys')
  <2>1. (IF task[t].h.issues THEN keys' ELSE 0) \in Nat
    BY <1>2
  <2>2. x \in Works
    BY <1>1, <2>1 DEF Works
  <2>3. QED
    BY <1>1, <2>2, IdleAssumption DEF Works
<1>4. task' = [task EXCEPT ![t] = x]
  BY <1>1 DEF Handle
<1> HIDE DEF x
<1>5. /\ task' \in [Tasks -> Works \cup {Idle}] /\ task'[t] = x /\ Running' = Running
      /\ \A u \in Running \ {t} : task'[u] = task[u]
  BY <1>3, <1>4, OthersStay
<1>6. UNCHANGED <<page, mount, data, loading, error, dialogs, busy, issued, probing, seen, muddled>>
  BY DEF Handle, local
<1>7. TypeOK'
  <2>1. table' \in [Lists -> Nat]
    BY <1>1 DEF Handle
  <2>2. issued \in 0 .. keys' /\ seen \subseteq 1 .. keys'
    BY <1>1, <1>2 DEF Inv, TypeOK
  <2>3. QED
    BY <1>2, <1>5, <1>6, <2>1, <2>2 DEF Inv, TypeOK
<1>8. Placed'
  BY <1>1, <1>3, <1>5, <1>6 DEF Inv, Placed, HasList, Hooks, Writing, Probing, Mounted
<1>9. OneHolder'
  <2>1. Holders' = Holders
    BY <1>3, <1>5 DEF Holders, Mounted
  <2>2. QED
    BY <2>1, <1>6 DEF Inv, OneHolder
<1>10. NewKeys'
  <2>1. \A u \in Running \ {t} : Brings(u)' <=> Brings(u)
    BY <1>5 DEF Brings
  <2>2. Brings(t)' => task'[t].got = keys' /\ keys' = keys + 1 /\ keys' \notin seen
    BY <1>1, <1>2, <1>3, <1>5 DEF Brings, Inv, TypeOK
  <2>3. \A u \in Running \ {t} : Brings(u) => task[u].got \in (1 .. keys) \ seen
    BY DEF Inv, NewKeys
  <2>4. QED
    BY <1>1, <1>2, <1>5, <1>6, <2>1, <2>2, <2>3 DEF Inv, NewKeys
<1>11. AllCovered'
  <2> SUFFICES ASSUME NEW l \in Lists, HasList(l), l \notin muddled PROVE Covered(l)'
    BY <1>6 DEF AllCovered, HasList, Hooks
  <2>1. Covered(l)
    BY DEF Inv, AllCovered
  <2>2. Reloading(l)' = Reloading(l) /\ t \notin Reloading(l)
    BY <1>1, <1>3, <1>5 DEF Reloading, Mounted
  <2>3. Pending(l) => Pending(l)'
    BY <1>3, <1>5 DEF Pending, Mounted
  <2>4. \A u \in Running' : Affects(u)' = Affects(u) /\ Mounted(u)' = Mounted(u)
    BY <1>3, <1>5 DEF Affects, Probing, Mounted
  <2>5. CASE l \in Affects(t)
    <3>1. Mounted(t)
      BY <2>1, <2>5 DEF Covered
    <3>2. task[t].h.list = page
      BY <1>1, <3>1 DEF Inv, Placed, Writing
    <3>3. l = page
      <4>1. l \in {"providers", "models"} => page \in {"providers", "models"}
        BY <2>5, <3>2, <1>1 DEF Affects, Lists
      <4>2. CASE page = "providers"
        BY <4>2, HooksOf DEF HasList
      <4>3. QED
        BY <2>5, <3>2, <4>2 DEF Affects
    <3>4. Pending(l)'
      BY <1>3, <1>5, <3>1, <3>2, <3>3 DEF Pending, Mounted
    <3>5. QED
      BY <2>1, <2>2, <2>4, <3>4, <1>5 DEF Covered
  <2>6. CASE l \notin Affects(t)
    <3>1. table'[l] = table[l]
      BY <1>1, <2>6 DEF Handle
    <3>2. \A u \in Reloading(l) : task'[u] = task[u]
      BY <1>5, <2>2 DEF Reloading
    <3>3. QED
      BY <1>5, <1>6, <2>1, <2>2, <2>3, <2>4, <3>1, <3>2 DEF Covered
  <2>7. QED
    BY <2>5, <2>6
<1>12. QED
  BY <1>7, <1>8, <1>9, <1>10, <1>11 DEF Rest

\* The server answers a GET.
LEMMA ServeRest ==
  ASSUME Inv, NEW t \in Running, Serve(t)
  PROVE  TypeOK' /\ Rest'
PROOF
<1> DEFINE x == [task[t] EXCEPT !.pc = "loaded", !.got = table[task[t].h.list]]
<1>1. /\ t \in Tasks /\ task[t] \in Works /\ task[t].pc = "load" /\ task[t].here
      /\ task[t].h.list \in Lists /\ table \in [Lists -> Nat]
  BY TaskIs DEF Serve, Inv, TypeOK, Mounted
<1>2. /\ x \in Works /\ x # Idle /\ x.h = task[t].h /\ x.here = task[t].here /\ x.pc = "loaded"
      /\ x.rows = task[t].rows /\ x.got = table[task[t].h.list]
  BY <1>1, IdleAssumption DEF Works
<1>3. task' = [task EXCEPT ![t] = x]
  BY <1>1 DEF Serve
<1> HIDE DEF x
<1>4. /\ task' \in [Tasks -> Works \cup {Idle}] /\ task'[t] = x /\ Running' = Running
      /\ \A u \in Running \ {t} : task'[u] = task[u]
  BY <1>2, <1>3, OthersStay
<1>5. UNCHANGED <<page, mount, table, keys, data, loading, error, dialogs, busy, issued, probing,
                  seen, muddled>>
  BY DEF Serve, server, local
<1>6. TypeOK'
  BY <1>4, <1>5 DEF Inv, TypeOK
<1>7. Placed'
  BY <1>1, <1>2, <1>4, <1>5 DEF Inv, Placed, HasList, Hooks, Writing, Probing, Mounted
<1>8. OneHolder'
  <2>1. Holders' = Holders
    BY <1>2, <1>4 DEF Holders, Mounted
  <2>2. QED
    BY <2>1, <1>5 DEF Inv, OneHolder
<1>9. NewKeys'
  BY <1>1, <1>2, <1>4, <1>5 DEF Inv, NewKeys, Brings
<1>10. AllCovered'
  <2> SUFFICES ASSUME NEW l \in Lists, HasList(l), l \notin muddled PROVE Covered(l)'
    BY <1>5 DEF AllCovered, HasList, Hooks
  <2>1. Covered(l)
    BY DEF Inv, AllCovered
  <2>2. Reloading(l)' = Reloading(l)
    <3>1. \A u \in Running : u \in Reloading(l)' <=> u \in Reloading(l)
      BY <1>1, <1>2, <1>4 DEF Reloading, Mounted
    <3>2. Reloading(l) \subseteq Running /\ Reloading(l)' \subseteq Running
      BY <1>4 DEF Reloading
    <3>3. QED
      BY <3>1, <3>2
  <2>3. Pending(l) => Pending(l)'
    BY <1>1, <1>2, <1>4 DEF Pending, Mounted
  <2>4. \A u \in Running' : Affects(u)' = Affects(u) /\ Mounted(u)' = Mounted(u)
    BY <1>2, <1>4 DEF Affects, Probing, Mounted
  <2>5. \A u \in Reloading(l) : task'[u].pc = "loaded" => task'[u].got = table[l] \/ Pending(l)
    BY <2>1, <1>2, <1>4 DEF Covered, Reloading
  <2>6. QED
    BY <1>4, <1>5, <2>1, <2>2, <2>3, <2>4, <2>5 DEF Covered
<1>11. QED
  BY <1>6, <1>7, <1>8, <1>9, <1>10 DEF Rest

\* A handler comes to its finally.
LEMMA FinishKeeps ==
  ASSUME Inv, NEW t \in Running, Finish(t), UNCHANGED <<page, keys, seen>>
  PROVE  /\ task' \in [Tasks -> Works \cup {Idle}] /\ Running' \subseteq Running
         /\ Running \ {t} \subseteq Running' /\ \A u \in Running \ {t} : task'[u] = task[u]
         /\ t \in Running' => /\ task'[t].h = task[t].h /\ task'[t].here = task[t].here
                              /\ task'[t].pc = "sent" /\ Affects(t)' = Affects(t)
         /\ busy' \in BOOLEAN /\ probing' \in 0 .. RowCount
         /\ Placed' /\ OneHolder' /\ NewKeys'
PROOF
<1> DEFINE x == Remains(t)
<1>1. /\ task' = [task EXCEPT ![t] = x] /\ x \in Works \cup {Idle}
      /\ x # Idle => /\ x.h = task[t].h /\ x.here = task[t].here
                     /\ x.pc = "sent" /\ task[t].rows # <<>> /\ x.rows # <<>>
      /\ busy' = (busy /\ ~(task[t].here /\ task[t].h.flag))
      /\ probing' \in 0 .. RowCount
  BY FinishIs
<1> HIDE DEF x
<1>2. /\ task' \in [Tasks -> Works \cup {Idle}] /\ task'[t] = x
      /\ \A u \in Running \ {t} : task'[u] = task[u]
      /\ Running' = IF x = Idle THEN Running \ {t} ELSE Running
  BY <1>1, OthersStay
<1>3. t \in Running' => /\ task'[t].h = task[t].h /\ task'[t].here = task[t].here
                        /\ task'[t].pc = "sent" /\ task[t].rows # <<>> /\ task'[t].rows # <<>>
  BY <1>1, <1>2
<1>4. busy' \in BOOLEAN
  BY <1>1
<1>5. t \in Running' => Affects(t)' = Affects(t)
  BY <1>3 DEF Affects, Probing
<1>6. Placed'
  <2>1. t \in Running' /\ task[t].here => task[t].h.list = page
    BY <1>3 DEF Inv, Placed, Probing, Mounted
  <2>2. \A u \in Running \ {t} : Mounted(u)' = Mounted(u) /\ Writing(u)' = Writing(u)
                                 /\ Probing(u)' = Probing(u)
    BY <1>2 DEF Mounted, Writing, Probing
  <2>3. t \in Running' => /\ Mounted(t)' = Mounted(t)
                          /\ Probing(t)
    BY <1>3 DEF Mounted, Probing
  <2>4. QED
    BY <1>2, <1>3, <2>1, <2>2, <2>3 DEF Inv, Placed, HasList, Hooks, Mounted
<1>7. OneHolder'
  <2>1. CASE t \in Holders
    <3>1. task[t].here /\ task[t].h.flag /\ Holders = {t} /\ busy' = FALSE
      BY <2>1, <1>1 DEF Holders, Mounted, Inv, OneHolder
    <3>2. t \notin Running'
      BY <3>1, <1>3, ProbeIsWork DEF Inv, Placed, Probing
    <3>3. Holders' = {}
      BY <1>2, <3>1, <3>2 DEF Holders, Mounted
    <3>4. QED
      BY <3>1, <3>3 DEF OneHolder
  <2>2. CASE t \notin Holders
    <3>1. ~(task[t].here /\ task[t].h.flag)
      BY <2>2 DEF Holders, Mounted
    <3>2. busy' = busy
      BY <1>1, <3>1 DEF Inv, OneHolder
    <3>3. Holders' = Holders
      BY <1>2, <1>3, <2>2, <3>1 DEF Holders, Mounted
    <3>4. QED
      BY <3>2, <3>3 DEF Inv, OneHolder
  <2>3. QED
    BY <2>1, <2>2
<1>8. NewKeys'
  <2>1. \A u \in Running' : Brings(u)' => u # t /\ Brings(u) /\ task'[u].got = task[u].got
    BY <1>2, <1>3 DEF Brings
  <2>2. QED
    BY <1>2, <2>1 DEF Inv, NewKeys
<1>9. QED
  BY <1>1, <1>2, <1>3, <1>4, <1>5, <1>6, <1>7, <1>8

\* The request is refused or lost, or its page is gone.
LEMMA FailRest ==
  ASSUME Inv, NEW t \in Running, Fail(t)
  PROVE  TypeOK' /\ Rest'
PROOF
<1>1. Finish(t) /\ UNCHANGED <<page, mount, table, keys, data, loading, error, dialogs, issued, seen>>
  BY DEF Fail, server
<1>2. /\ task' \in [Tasks -> Works \cup {Idle}] /\ Running' \subseteq Running
      /\ Running \ {t} \subseteq Running' /\ \A u \in Running \ {t} : task'[u] = task[u]
      /\ t \in Running' => /\ task'[t].h = task[t].h /\ task'[t].here = task[t].here
                           /\ task'[t].pc = "sent" /\ Affects(t)' = Affects(t)
      /\ busy' \in BOOLEAN /\ probing' \in 0 .. RowCount
      /\ Placed' /\ OneHolder' /\ NewKeys'
  BY <1>1, FinishKeeps
<1>3. task[t].h.list \in Affects(t) /\ Affects(t) \subseteq Lists
  BY TaskIs DEF Affects, Lists
<1>4. TypeOK'
  <2>1. muddled' \subseteq Lists
    BY <1>3 DEF Fail, Inv, TypeOK
  <2>2. QED
    BY <1>1, <1>2, <2>1 DEF Inv, TypeOK
<1>5. AllCovered'
  <2> SUFFICES ASSUME NEW l \in Lists, HasList(l), l \notin muddled' PROVE Covered(l)'
    BY <1>1 DEF AllCovered, HasList, Hooks
  <2>1. Covered(l) /\ (task[t].pc = "done" => l # task[t].h.list)
    BY <1>3 DEF Inv, AllCovered, Fail
  <2>2. t \notin Reloading(l)
    BY DEF Fail, Reloading, Writing
  <2>3. \A u \in Running : u \in Reloading(l)' <=> u \in Reloading(l)
    BY <1>2, <2>2 DEF Reloading, Mounted
  <2>4. Reloading(l)' = Reloading(l)
    BY <1>2, <2>3 DEF Reloading
  <2>5. Pending(l) => Pending(l)'
    BY <1>2, <2>1 DEF Pending, Mounted
  <2>6. \A u \in Running' : Affects(u)' = Affects(u) /\ Mounted(u)' = Mounted(u)
    BY <1>2 DEF Affects, Probing, Mounted
  <2>7. \A u \in Reloading(l) : task'[u] = task[u]
    BY <1>2, <2>2 DEF Reloading
  <2>8. QED
    BY <1>1, <1>2, <2>1, <2>4, <2>5, <2>6, <2>7 DEF Covered
<1>6. QED
  BY <1>2, <1>4, <1>5 DEF Rest

\* The list arrives, or its load fails.
LEMMA ReloadedRest ==
  ASSUME Inv, NEW t \in Running, Reloaded(t)
  PROVE  TypeOK' /\ Rest'
PROOF
<1> DEFINE k == task[t].h.list
<1>1. /\ Finish(t) /\ UNCHANGED <<page, mount, table, keys, dialogs, issued, seen>>
      /\ task[t].pc \in {"load", "loaded"} /\ Mounted(t)
      /\ loading' = [loading EXCEPT ![k] = FALSE]
      /\ \/ /\ task[t].pc = "loaded" /\ data' = [data EXCEPT ![k] = task[t].got]
            /\ error' = error /\ muddled' = muddled
         \/ /\ error' = [error EXCEPT ![k] = TRUE] /\ muddled' = muddled \cup {k} /\ data' = data
  BY DEF Reloaded, server
<1>2. /\ task' \in [Tasks -> Works \cup {Idle}] /\ Running' \subseteq Running
      /\ Running \ {t} \subseteq Running' /\ \A u \in Running \ {t} : task'[u] = task[u]
      /\ t \in Running' => /\ task'[t].h = task[t].h /\ task'[t].here = task[t].here
                           /\ task'[t].pc = "sent" /\ Affects(t)' = Affects(t)
      /\ busy' \in BOOLEAN /\ probing' \in 0 .. RowCount
      /\ Placed' /\ OneHolder' /\ NewKeys'
  BY <1>1, FinishKeeps
<1>3. k \in Lists /\ task[t].got \in Nat
  BY TaskIs
<1> HIDE DEF k
<1>4. TypeOK'
  <2>1. /\ loading' \in [Lists -> BOOLEAN] /\ error' \in [Lists -> BOOLEAN]
        /\ data' \in [Lists -> Nat] /\ muddled' \subseteq Lists
    BY <1>1, <1>3 DEF Inv, TypeOK
  <2>2. QED
    BY <1>1, <1>2, <2>1 DEF Inv, TypeOK
<1>5. AllCovered'
  <2> SUFFICES ASSUME NEW l \in Lists, HasList(l), l \notin muddled' PROVE Covered(l)'
    BY <1>1 DEF AllCovered, HasList, Hooks
  <2>1. Covered(l)
    BY <1>1 DEF Inv, AllCovered
  <2>2. \A u \in Running : u \in Reloading(l)' <=> u # t /\ u \in Reloading(l)
    BY <1>2 DEF Reloading, Mounted
  <2>3. Reloading(l)' = Reloading(l) \ {t}
    BY <1>2, <2>2 DEF Reloading
  <2>4. Pending(l) => Pending(l)'
    BY <1>1, <1>2 DEF Pending, Mounted
  <2>5. \A u \in Running' : Affects(u)' = Affects(u) /\ Mounted(u)' = Mounted(u)
    BY <1>2 DEF Affects, Probing, Mounted
  <2>6. \A u \in Reloading(l)' : task'[u] = task[u]
    BY <1>2, <2>3 DEF Reloading
  <2>7. data'[l] = table[l] \/ Pending(l) \/ Reloading(l)' # {}
    <3>1. CASE l = k
      <4>1. t \in Reloading(l) /\ task[t].pc = "loaded" /\ data'[l] = task[t].got
        BY <1>1, <1>3, <3>1 DEF Reloading, Inv, TypeOK, k
      <4>2. QED
        BY <2>1, <4>1 DEF Covered
    <3>2. CASE l # k
      <4>1. t \notin Reloading(l) /\ data'[l] = data[l]
        BY <1>1, <3>2 DEF Reloading, Inv, TypeOK, k
      <4>2. QED
        BY <2>1, <2>3, <4>1 DEF Covered
    <3>3. QED
      BY <3>1, <3>2
  <2>8. QED
    BY <1>1, <1>2, <2>1, <2>3, <2>4, <2>5, <2>6, <2>7 DEF Covered
<1>6. QED
  BY <1>2, <1>4, <1>5 DEF Rest

\* The answer arrives, and the list is read again.
LEMMA AnsweredRest ==
  ASSUME Inv, NEW t \in Running, Answered(t)
  PROVE  TypeOK' /\ Rest'
PROOF
<1> DEFINE x == [task[t] EXCEPT !.pc = "load", !.got = 0]
           k == task[t].h.list
<1>1. /\ t \in Tasks /\ task[t] \in Works /\ task[t].pc = "done" /\ task[t].here
      /\ task[t].h \in Handlers \cup {Reload(l) : l \in Lists} /\ task[t].h.list \in Lists
      /\ task[t].rows \in Seq(1 .. RowCount)
  BY TaskIs DEF Answered, Mounted
<1>2. /\ x \in Works /\ x # Idle /\ x.h = task[t].h /\ x.here = task[t].here /\ x.pc = "load"
      /\ x.rows = task[t].rows
  <2>1. x \in Works
    BY <1>1 DEF Works
  <2>2. QED
    BY <1>1, <2>1, IdleAssumption DEF Works
<1>3. task' = [task EXCEPT ![t] = x]
  BY DEF Answered
<1> HIDE DEF x
<1>4. /\ task' \in [Tasks -> Works \cup {Idle}] /\ task'[t] = x /\ Running' = Running
      /\ \A u \in Running \ {t} : task'[u] = task[u]
  BY <1>2, <1>3, OthersStay
<1>5. UNCHANGED <<page, mount, table, keys, data, busy, probing>>
  BY DEF Answered, server
<1>6. task[t].h.issues => task[t].got \in (1 .. keys) \ seen
  BY <1>1 DEF Inv, NewKeys, Brings
<1>7. TypeOK'
  <2>1. dialogs' \subseteq {"create", "edit", "delete"}
    BY DEF Answered, Shows, Inv, TypeOK
  <2>2. issued' \in 0 .. keys
    BY <1>6 DEF Answered, Shows, Inv, TypeOK
  <2>3. seen' \subseteq 1 .. keys
    BY <1>6 DEF Answered, Shows, Inv, TypeOK
  <2>4. loading' \in [Lists -> BOOLEAN] /\ error' \in [Lists -> BOOLEAN]
    BY DEF Answered, Marks, Inv, TypeOK
  <2>5. muddled' \subseteq Lists
    BY <1>1 DEF Answered, Marks, Inv, TypeOK
  <2>6. QED
    BY <1>4, <1>5, <2>1, <2>2, <2>3, <2>4, <2>5 DEF Inv, TypeOK
<1>8. Placed'
  BY <1>1, <1>2, <1>4, <1>5 DEF Inv, Placed, HasList, Hooks, Writing, Probing, Mounted
<1>9. OneHolder'
  <2>1. Holders' = Holders
    BY <1>2, <1>4 DEF Holders, Mounted
  <2>2. QED
    BY <2>1, <1>5 DEF Inv, OneHolder
<1>10. NewKeys'
  <2>1. \A u \in Running' : Brings(u)' => u # t /\ Brings(u) /\ task'[u].got = task[u].got
    BY <1>2, <1>4 DEF Brings
  <2>2. seen' = seen \/ (Brings(t) /\ seen' = seen \cup {task[t].got})
    BY <1>1 DEF Answered, Shows, Brings
  <2>3. \A u \in Running \ {t} : Brings(t) /\ Brings(u) => task[u].got # task[t].got
    BY DEF Inv, NewKeys
  <2>4. QED
    BY <1>4, <1>5, <2>1, <2>2, <2>3 DEF Inv, NewKeys
<1>11. AllCovered'
  <2> SUFFICES ASSUME NEW l \in Lists, HasList(l), l \notin muddled' PROVE Covered(l)'
    BY <1>5 DEF AllCovered, HasList, Hooks
  <2>1. Covered(l) /\ (l = k => Reloading(l) = {})
    BY DEF Inv, AllCovered, Answered, Marks
  <2>2. \A u \in Running : u \in Reloading(l)' <=> u \in Reloading(l) \/ (u = t /\ l = k)
    BY <1>1, <1>2, <1>4 DEF Reloading, Mounted
  <2>3. Reloading(l)' = Reloading(l) \cup (IF l = k THEN {t} ELSE {}) /\ t \notin Reloading(l)
    BY <1>1, <1>4, <2>2 DEF Reloading
  <2>4. l # k /\ Pending(l) => Pending(l)'
    BY <1>4 DEF Pending, Mounted
  <2>5. \A u \in Running' : Affects(u)' = Affects(u) /\ Mounted(u)' = Mounted(u)
    BY <1>2, <1>4 DEF Affects, Probing, Mounted
  <2>6. \A u \in Reloading(l) : task'[u] = task[u]
    BY <1>4, <2>3 DEF Reloading
  <2>7. CASE l = k
    BY <1>2, <1>4, <1>5, <2>1, <2>3, <2>5, <2>7 DEF Covered
  <2>8. CASE l # k
    BY <1>4, <1>5, <2>1, <2>3, <2>4, <2>5, <2>6, <2>8 DEF Covered
  <2>9. QED
    BY <2>7, <2>8
<1>12. QED
  BY <1>7, <1>8, <1>9, <1>10, <1>11 DEF Rest

-----------------------------------------------------------------------------
(* What the user does. *)

\* A dialog is opened or closed.
LEMMA DialogStep ==
  ASSUME Inv, NEW d \in {"create", "edit", "delete"}, Open(d) \/ Close(d)
  PROVE  TypeOK' /\ Rest'
PROOF
<1>1. UNCHANGED <<page, mount, server, data, loading, error, busy, probing, task, seen, muddled>>
  BY DEF Open, Close
<1>2. dialogs' \subseteq {"create", "edit", "delete"} /\ issued' \in 0 .. keys
  <2>1. keys \in Nat /\ issued \in 0 .. keys /\ dialogs \subseteq {"create", "edit", "delete"}
    BY DEF Inv, TypeOK
  <2>2. issued' \in {0, issued} /\ dialogs' \subseteq dialogs \cup {d}
    BY DEF Open, Close
  <2>3. QED
    BY <2>1, <2>2
<1>3. QED
  BY <1>1, <1>2, RestSame DEF Inv, TypeOK, server

\* A handler is started.
LEMMA SubmitStep ==
  ASSUME Inv, NEW h \in Handlers, Submit(h)
  PROVE  TypeOK' /\ Rest'
PROOF
<1>1. <<>> \in Seq(1 .. RowCount)
  OBVIOUS
<1>2. /\ h.list = page /\ (h.flag => ~busy) /\ Starts(<<Task(h, "sent", <<>>)>>)
      /\ busy' = (busy \/ h.flag)
      /\ UNCHANGED <<page, mount, server, data, loading, error, dialogs, issued, probing, seen, muddled>>
  BY DEF Submit
<1>3. task' \in [Tasks -> Works \cup {Idle}] /\ Rest'
  BY <1>1, <1>2, SentRest
<1>4. busy' \in BOOLEAN
  BY <1>2
<1>5. QED
  BY <1>2, <1>3, <1>4 DEF Inv, TypeOK, server

LEMMA ProbeStep ==
  ASSUME Inv, NEW rows \in Seq(1 .. RowCount), rows[1] \in 1 .. RowCount, Probe(rows)
  PROVE  TypeOK' /\ Rest'
PROOF
<1>1. /\ page = "providers" /\ Starts(<<Task(ProvidersProbe, "sent", rows)>>)
      /\ probing' = rows[1]
      /\ UNCHANGED <<page, mount, server, data, loading, error, dialogs, busy, issued, seen, muddled>>
  BY DEF Probe
<1>2. busy' = (busy \/ ProvidersProbe.flag)
  BY <1>1, ProbeIsWork DEF Inv, TypeOK
<1>3. task' \in [Tasks -> Works \cup {Idle}] /\ Rest'
  BY <1>1, <1>2, ProbeIsWork, SentRest
<1>4. probing' \in 0 .. RowCount
  BY <1>1, PagesAssumption
<1>5. QED
  BY <1>1, <1>3, <1>4 DEF Inv, TypeOK, server

\* The list is read again at a button.
LEMMA ReadStep ==
  ASSUME Inv, Refresh \/ Retry
  PROVE  TypeOK' /\ Rest'
PROOF
<1>1. /\ page \in Pages \ {"elsewhere"} /\ Hooks(page) \subseteq Lists /\ page \in Hooks(page)
      /\ task \in [Tasks -> Works \cup {Idle}]
  BY HooksAreLists DEF Refresh, Retry, Inv, TypeOK
<1>2. PICK lists \in SUBSET Hooks(page) : Reads(task, lists) /\ Marks(lists)
  <2>1. CASE Refresh
    <3>1. StartsAmid(task, [i \in DOMAIN ListsOf(page) |-> Loading(ListsOf(page)[i])])
      BY <2>1 DEF Refresh, Starts, Loading
    <3>2. Reads(task, Hooks(page))
      BY <1>1, <3>1, ReadsHooks
    <3>3. Marks(Hooks(page))
      BY <2>1 DEF Refresh, Hooks
    <3>4. QED
      BY <3>2, <3>3
  <2>2. CASE Retry
    <3>1. StartsAmid(task, <<Loading(page)>>) /\ Marks({page})
      BY <2>2 DEF Retry, Starts, Loading
    <3>2. Reads(task, {page})
      BY <1>1, <3>1, ReadsOne
    <3>3. QED
      BY <1>1, <3>1, <3>2
  <2>3. QED
    BY <2>1, <2>2
<1>3. UNCHANGED <<page, mount, server, data, dialogs, busy, issued, probing, seen>>
  BY DEF Refresh, Retry
<1>4. task' \in [Tasks -> Works \cup {Idle}] /\ Rest'
  BY <1>2, <1>3, ReadsRest
<1>5. /\ loading' \in [Lists -> BOOLEAN] /\ error' \in [Lists -> BOOLEAN] /\ muddled' \subseteq Lists
  BY <1>1, <1>2 DEF Marks, Inv, TypeOK
<1>6. QED
  BY <1>3, <1>4, <1>5 DEF Inv, TypeOK, server

LEMMA NavigateStep ==
  ASSUME Inv, NEW p \in Pages, Navigate(p)
  PROVE  TypeOK' /\ Rest'
PROOF
<1>1. task' \in [Tasks -> Works \cup {Idle}] /\ Rest'
  BY NavigateRest
<1>2. /\ page' \in Pages /\ mount' \in Nat /\ issued' \in 0 .. keys' /\ probing' \in 0 .. RowCount
      /\ table' \in [Lists -> Nat] /\ keys' \in Nat
      /\ dialogs' \subseteq {"create", "edit", "delete"} /\ seen' \subseteq 1 .. keys'
  BY PagesAssumption DEF Navigate, Inv, TypeOK, server
<1>3. /\ data' \in [Lists -> Nat] /\ loading' \in [Lists -> BOOLEAN] /\ error' \in [Lists -> BOOLEAN]
  BY DEF Navigate
<1>4. busy' \in BOOLEAN
  BY DEF Navigate
<1>5. muddled' \subseteq Lists
  <2>1. \A t \in Running : Affects(t) \subseteq Lists
    BY TaskIs DEF Affects, Lists
  <2>2. QED
    BY <2>1 DEF Navigate
<1>6. QED
  BY <1>1, <1>2, <1>3, <1>4, <1>5 DEF TypeOK

-----------------------------------------------------------------------------
\* Every step preserves the invariant.
LEMMA StepInv == Inv /\ [Next]_vars => Inv'
PROOF
<1> SUFFICES ASSUME Inv, [Next]_vars PROVE TypeOK' /\ Rest'
  BY DEF Inv, Rest
<1>1. ASSUME NEW p \in Pages, Navigate(p) PROVE TypeOK' /\ Rest'
  BY <1>1, NavigateStep
<1>2. ASSUME NEW d \in {"create", "edit", "delete"}, Open(d) \/ Close(d) PROVE TypeOK' /\ Rest'
  BY <1>2, DialogStep
<1>3. ASSUME NEW h \in Handlers, Submit(h) PROVE TypeOK' /\ Rest'
  BY <1>3, SubmitStep
<1>4. ASSUME NEW u \in 1 .. RowCount, Probe(<<u>>) PROVE TypeOK' /\ Rest'
  <2>1. <<u>> \in Seq(1 .. RowCount) /\ <<u>>[1] \in 1 .. RowCount
    OBVIOUS
  <2>2. QED
    BY <1>4, <2>1, ProbeStep
<1>5. ASSUME Probe(AllRows) PROVE TypeOK' /\ Rest'
  <2>1. AllRows \in Seq(1 .. RowCount) /\ AllRows[1] \in 1 .. RowCount
    BY PagesAssumption DEF AllRows
  <2>2. QED
    BY <1>5, <2>1, ProbeStep
<1>6. ASSUME Refresh \/ Retry PROVE TypeOK' /\ Rest'
  BY <1>6, ReadStep
<1>7. ASSUME NEW t \in Running, Progress(t) \/ Handle(t) \/ Serve(t) PROVE TypeOK' /\ Rest'
  BY <1>7, AnsweredRest, FailRest, ReloadedRest, HandleRest, ServeRest DEF Progress
<1>8. CASE UNCHANGED vars
  <2>1. Rest'
    BY <1>8, RestSame DEF vars, server, local
  <2>2. QED
    BY <1>8, <2>1 DEF Inv, TypeOK, vars, server, local
<1>9. QED
  BY <1>1, <1>2, <1>3, <1>4, <1>5, <1>6, <1>7, <1>8 DEF Next

LEMMA Invariance == Spec => []Inv
PROOF
  BY InitInv, StepInv, PTL DEF Spec

-----------------------------------------------------------------------------
\* With nothing on its way, a list of Devices.tsx, Providers.tsx or Models.tsx is
\* the server's table, but for one whose loads by useAsync.ts overlapped or failed.
THEOREM ListsAreFresh == Spec => []FreshAtRest
PROOF
<1>1. Inv => FreshAtRest
  <2> SUFFICES ASSUME Inv, Running = {}, NEW l \in Hooks(page), l \notin muddled
               PROVE  data[l] = table[l]
    BY DEF FreshAtRest, Hooks
  <2>1. l \in Lists
    BY HooksAreLists DEF Inv, TypeOK
  <2>2. Covered(l) /\ ~Pending(l) /\ Reloading(l) = {}
    BY <2>1 DEF Inv, AllCovered, HasList, Pending, Reloading
  <2>3. QED
    BY <2>2 DEF Covered
<1>2. QED
  BY <1>1, Invariance, PTL

\* The busy flag of a page is up exactly while one of its own submissions is on its
\* way, and there is one at most (create, saveEdit and their like).
THEOREM BusyIsExact == Spec => []BusyExact
PROOF
<1>1. Inv => BusyExact
  <2> SUFFICES ASSUME Inv PROVE busy = (Holders # {}) /\ Cardinality(Holders) <= 1
    BY DEF Inv, BusyExact, Holders
  <2>1. busy = (Holders # {}) /\ \A t, u \in Holders : t = u
    BY DEF Inv, OneHolder
  <2>2. Holders = {} \/ \E t : Holders = {t}
    BY <2>1
  <2>3. Cardinality({}) = 0 /\ \A t : Cardinality({t}) = 1
    BY FS_EmptySet, FS_Singleton
  <2>4. Cardinality(Holders) \in {0, 1}
    BY <2>2, <2>3
  <2>5. QED
    BY <2>1, <2>4
<1>2. QED
  BY <1>1, Invariance, PTL

\* A device key that Devices.tsx has shown, and shows no more, never comes back
\* (create, rotate), whatever other keys are still on their way.
THEOREM KeysAreShownOnce == Spec => KeyShownOnce
PROOF
<1>1. Inv /\ [Next]_vars => [Shown' # 0 /\ Shown' # Shown => Shown' \notin seen]_vars
  <2> SUFFICES ASSUME Inv, Next, Shown' # 0, Shown' # Shown PROVE Shown' \notin seen
    BY DEF Shown
  <2>1. ASSUME NEW p \in Pages, Navigate(p) PROVE FALSE
    BY <2>1 DEF Navigate, Shown
  <2>2. ASSUME NEW d \in {"create", "edit", "delete"}, Open(d) \/ Close(d) PROVE FALSE
    BY <2>2 DEF Open, Close, Shown, OnTop
  <2>3. ASSUME UNCHANGED <<page, dialogs, issued>> PROVE FALSE
    BY <2>3 DEF Shown
  <2>4. ASSUME NEW t \in Running, Answered(t) PROVE Shown' \notin seen
    <3>1. task[t].h \in Handlers \cup {Reload(l) : l \in Lists} /\ task[t].pc = "done"
          /\ task[t].here /\ task[t].h.list = page
      BY <2>4, TaskIs DEF Answered, Mounted, Inv, Placed, Writing
    <3>2. CASE task[t].h.issues
      <4>1. task[t].got \notin seen /\ issued' = task[t].got
        BY <2>4, <3>1, <3>2 DEF Inv, NewKeys, Brings, Answered, Shows
      <4>2. QED
        BY <4>1 DEF Shown
    <3>3. CASE ~task[t].h.issues
      <4>1. page = "devices" => task[t].h.closes # "create" /\ task[t].h # DevicesRotate
        BY <3>1, <3>3, HandlerShape DEF DevicesRotate, Handler
      <4>2. issued' = issued /\ page' = page
            /\ (page = "devices" => dialogs' = dialogs \ {task[t].h.closes})
        BY <2>4, <3>3, <4>1 DEF Answered, Shows
      <4>3. QED
        BY <4>1, <4>2 DEF Shown
    <3>4. QED
      BY <3>2, <3>3
  <2>5. QED
    BY <2>1, <2>2, <2>3, <2>4
       DEF Next, Submit, Probe, Refresh, Retry, Progress, Handle, Serve, Fail, Reloaded, local
<1>2. QED
  BY <1>1, Invariance, PTL DEF Spec, KeyShownOnce
====
