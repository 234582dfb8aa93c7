-------------------------------- MODULE Menu --------------------------------
(***************************************************************************)
(* The menu, edited while the tables order from it.                        *)
(*   services/menu_service.py       categories, items, options, combos     *)
(*   services/pos_order_service.py  add_line, _resolve_modifiers and       *)
(*                                  _expand_combo                          *)
(* A PATCH writes only the columns it changes, so that two of them merge;  *)
(* what an order takes from the menu it reads in several statements.       *)
(***************************************************************************)
EXTENDS Naturals, FiniteSets, FiniteSetsExt, Turns

CONSTANTS
  Requests,             \* HTTP requests
  Busy,                 \* bound: requests in flight at once
  Items, Categories,    \* the ids rows may be given
  MenuOf, LiveOf,       \* the items, and the categories and offers, that exist at first
  Groups, Parts,        \* option groups [item, min, max], combo components [combo, item]
  OptionOf, DeltaOf,    \* of each option, its group and what it adds to the price
  Hours,                \* the hours of a day
  Jobs,                 \* what may be asked: op, the row it is on, fields
  None

Edits == {"create", "patch", "translate", "delete", "offer", "withdraw"}

Options == DOMAIN OptionOf
Offers == DOMAIN Groups \cup DOMAIN Parts

\* Of an offer, the item it belongs to: a group's item, a component's combo.
Owner(o) == IF o \in DOMAIN Groups THEN Groups[o].item ELSE Parts[o].combo

Columns == {"sku", "price", "opens", "closes", "category", "words", "live"}

\* An item may be ordered at all hours, or between two.
Timed(row) == (row.opens = None) = (row.closes = None)

\* What the constants are: StoreDay assumes it.
MenuAssumption ==
  /\ Busy \in Nat \ {0} /\ None \notin Items \cup Categories /\ Hours \subseteq Nat
  /\ \A i \in DOMAIN MenuOf : /\ DOMAIN MenuOf[i] = Columns /\ MenuOf[i].sku # None
                             /\ Timed(MenuOf[i]) /\ MenuOf[i].price \in Nat
                             /\ \A k \in DOMAIN MenuOf \ {i} :
                                  MenuOf[i].live /\ MenuOf[k].live => MenuOf[i].sku # MenuOf[k].sku
  /\ \A g \in DOMAIN Groups : Groups[g].item \in Items
  /\ \A p \in DOMAIN Parts : Parts[p].combo \in Items /\ Parts[p].item \in Items
  /\ \A o \in Options : OptionOf[o] \in DOMAIN Groups /\ DeltaOf[o] \in Nat
  /\ LiveOf \subseteq Categories \cup Offers
  /\ \A j \in Jobs : /\ j.op \in Edits \cup {"order"}
                     /\ j.op = "create" => DOMAIN j.fields = Columns
                     /\ j.op = "patch" => DOMAIN j.fields \subseteq Columns \ {"words", "live"}
                     /\ j.op \in {"create", "patch"} /\ "sku" \in DOMAIN j.fields =>
                          j.fields.sku # None

VARIABLES
  item,     \* of each id, its row: sku, price, opens, closes, category, words, live
  live,     \* the categories, option groups and components that are not deleted
  gone,     \* those that were deleted
  ask,      \* the requests
  line,     \* of each request, the order line it inserted
  span,     \* history: what of the menu was committed while a request was running
  before    \* history, see Turns: of the requests that committed

vars == <<item, live, gone, ask, line, span, before>>

NoItem == [sku |-> None, price |-> 0, opens |-> None, closes |-> None,
           category |-> None, words |-> {}, live |-> FALSE]

\* A request: its job, how far it is, the row and the option groups it has read, whether
\* it has committed.
Fresh == [job |-> None, step |-> "new", row |-> NoItem, groups |-> {}, ok |-> FALSE]

\* A line's price, its options and the items of its component tickets.
Line == [item : Items, price : Nat, options : SUBSET Options, parts : SUBSET DOMAIN Parts]

Nothing == [always |-> {}, ever |-> {}, prices |-> {}]

Init ==
  /\ item = [i \in Items |-> IF i \in DOMAIN MenuOf THEN MenuOf[i] ELSE NoItem]
  /\ live = LiveOf
  /\ gone = {}
  /\ ask = [r \in Requests |-> Fresh]
  /\ line = [r \in Requests |-> None]
  /\ span = [r \in Requests |-> Nothing]
  /\ before = [r \in Requests |-> {}]
-----------------------------------------------------------------------------
InFlight == {r \in Requests : ask[r].step \notin {"new", "done"}}
Committed == {r \in Requests : ask[r].ok}

Job(r) == ask[r].job

Begin(r, j) ==
  /\ ask[r].step = "new" /\ Cardinality(InFlight) < Busy
  /\ ask' = [ask EXCEPT ![r].job = j, ![r].step = "begun"]
  /\ before' = [before EXCEPT ![r] = Committed]
  /\ span' = IF j.op # "order" THEN span
             ELSE [span EXCEPT ![r] = [always |-> live, ever |-> live,
                                       prices |-> {item[j.on].price}]]
  /\ UNCHANGED <<item, live, gone, line>>

\* The answer; of a request that failed nothing is left.
Done(r) == ask' = [ask EXCEPT ![r] = [Fresh EXCEPT !.job = Job(r), !.step = "done", !.ok = TRUE]]
Failed(r) == ask' = [ask EXCEPT ![r] = [Fresh EXCEPT !.step = "done"]]

\* Slip: the guard sees the fields of the request, not those of the row.
FieldsWhole(old, fields) ==
  LET f == With(fields, [opens |-> None, closes |-> None])
  IN  "opens" \in DOMAIN fields /\ "closes" \in DOMAIN fields =>
        (f.opens = None) = (f.closes = None)

\* The window of the row as the fields leave it, or as it was found.
Window(old, fields) ==
  LET new == With(fields, old)
  IN  {"opens", "closes"} \cap DOMAIN fields # {} =>
        /\ Timed(new)
        /\ new.opens # None => new.opens # new.closes

\* The pre-check of a new SKU and the partial unique index: none but i has it.
SkuFree(i, fields) ==
  "sku" \in DOMAIN fields =>
    \A k \in Items \ {i} : item[k].live => item[k].sku # fields.sku

CategoryLive(fields) ==
  "category" \in DOMAIN fields => fields.category \in live \cup {None}

\* A new item, with every column; the row of a patch is loaded and found live.
LookUpItem(r) ==
  LET j == Job(r)
  IN  /\ ask[r].step = "begun" /\ j.op \in {"create", "patch"} /\ j.on \in Items
      /\ IF j.op = "create" THEN item[j.on] = NoItem ELSE item[j.on].live
      /\ SkuFree(j.on, j.fields) /\ CategoryLive(j.fields)
      /\ Window(item[j.on], j.fields)
      /\ ask' = [ask EXCEPT ![r].step = "ready", ![r].row = item[j.on]]
      /\ UNCHANGED <<item, live, gone, line, span, before>>

\* delete_item and set_translation load the row too; nothing else is looked at.
LookUpRow(r) ==
  LET j == Job(r)
  IN  /\ ask[r].step = "begun" /\ j.op \in {"translate", "delete"} /\ j.on \in Items
      /\ item[j.on].live
      /\ ask' = [ask EXCEPT ![r].step = "ready", ![r].row = item[j.on]]
      /\ UNCHANGED <<item, live, gone, line, span, before>>

\* create_category looks at nothing.
AddCategory(r) ==
  LET j == Job(r)
  IN  /\ ask[r].step = "begun" /\ j.op = "offer" /\ j.on \in Categories \ (live \cup gone)
      /\ ask' = [ask EXCEPT ![r].step = "ready"]
      /\ UNCHANGED <<item, live, gone, line, span, before>>

\* An option group, for an item; a component, for a combo and another item.
LookUpOffer(r) ==
  LET j == Job(r)
  IN  /\ ask[r].step = "begun" /\ j.op = "offer" /\ j.on \in Offers \ (live \cup gone)
      /\ item[Owner(j.on)].live
      /\ j.on \in DOMAIN Groups => Groups[j.on].min <= Groups[j.on].max
      /\ j.on \in DOMAIN Parts =>
           Parts[j.on].item # Parts[j.on].combo /\ item[Parts[j.on].item].live
      /\ ask' = [ask EXCEPT ![r].step = "ready"]
      /\ UNCHANGED <<item, live, gone, line, span, before>>

LookUpLive(r) ==
  /\ ask[r].step = "begun" /\ Job(r).op = "withdraw" /\ Job(r).on \in live
  /\ ask' = [ask EXCEPT ![r].step = "ready"]
  /\ UNCHANGED <<item, live, gone, line, span, before>>

\* The columns a request writes: those it changes of the row it loaded.  A language is
\* put into the whole dictionary of translations that was loaded.
Written(r) ==
  LET j == Job(r)
      wanted == CASE j.op = "translate" -> [words |-> ask[r].row.words \cup {j.fields}]
                  [] j.op = "delete" -> [live |-> FALSE]
                  [] OTHER -> j.fields
  IN  [c \in {x \in DOMAIN wanted : wanted[x] # ask[r].row[x]} |-> wanted[c]]

\* What the others saw meanwhile, once the menu is as the commit leaves it.
Noticed ==
  span' = [r \in Requests |->
             IF r \notin InFlight \/ Job(r).op # "order" THEN span[r]
             ELSE [always |-> span[r].always \cap live', ever |-> span[r].ever \cup live',
                   prices |-> span[r].prices \cup {item'[Job(r).on].price}]]

\* UPDATE ... WHERE id = ...: on the row as it is by then, deleted or not.
CommitItem(r) ==
  LET j == Job(r)
      new == With(Written(r), item[j.on])
  IN  /\ ask[r].step = "ready" /\ j.op \in {"create", "patch", "translate", "delete"}
      /\ new.live => SkuFree(j.on, [sku |-> new.sku])
      /\ j.op = "create" => item[j.on] = NoItem
      /\ item' = [item EXCEPT ![j.on] = new]
      /\ UNCHANGED <<live, gone, line, before>>
      /\ Noticed /\ Done(r)

CommitOffer(r) ==
  LET j == Job(r)
  IN  /\ ask[r].step = "ready" /\ j.op \in {"offer", "withdraw"}
      /\ IF j.op = "offer"
         THEN j.on \notin gone /\ live' = live \cup {j.on} /\ gone' = gone
         ELSE live' = live \ {j.on} /\ gone' = gone \cup {j.on}
      /\ UNCHANGED <<item, line, before>>
      /\ Noticed /\ Done(r)
-----------------------------------------------------------------------------
\* is_item_available_now: a window that wraps past midnight, and no window at all.
AvailableAt(row, h) ==
  CASE None \in {row.opens, row.closes} -> TRUE
    [] None \notin {row.opens, row.closes} ->
         IF row.opens <= row.closes THEN row.opens <= h /\ h < row.closes
                                    ELSE row.opens <= h \/ h < row.closes

\* add_line loads the item ...
LoadOrdered(r) ==
  LET row == item[Job(r).on]
  IN  /\ ask[r].step = "begun" /\ Job(r).op = "order" /\ row.live
      /\ \E h \in Hours : AvailableAt(row, h)
      /\ ask' = [ask EXCEPT ![r].step = "loaded", ![r].row = row]
      /\ UNCHANGED <<item, live, gone, line, span, before>>

\* ... then its option groups ...
ReadGroups(r) ==
  /\ ask[r].step = "loaded"
  /\ ask' = [ask EXCEPT ![r].step = "grouped",
                        ![r].groups = {g \in live \cap DOMAIN Groups : Owner(g) = Job(r).on}]
  /\ UNCHANGED <<item, live, gone, line, span, before>>

\* What options add to the price.
Added(options) == MapThenSumSet(LAMBDA o : DeltaOf[o], options)

Chosen(options, g) == Cardinality({o \in options : OptionOf[o] = g})

\* Slip: only the groups something was chosen of are counted.
ChosenWithin(options, groups) ==
  \A o \in options : /\ OptionOf[o] \in groups
                     /\ Chosen(options, OptionOf[o]) <= Groups[OptionOf[o]].max

\* Every option is of one of the groups, and of every group as many as it asks for.
Resolved(options, groups) ==
  /\ \A o \in options : OptionOf[o] \in groups
  /\ \A g \in groups : Chosen(options, g) \in Groups[g].min .. Groups[g].max

\* ... and the options, whose rows outlive their group's deletion ...
Resolve(r) ==
  /\ ask[r].step = "grouped" /\ Resolved(Job(r).fields, ask[r].groups)
  /\ ask' = [ask EXCEPT ![r].step = "ready"]
  /\ UNCHANGED <<item, live, gone, line, span, before>>

\* ... and the components, which are put on tickets at no charge, live or not.  The line
\* and the tickets appear at the commit.
CommitLine(r) ==
  LET i == Job(r).on
      options == Job(r).fields
  IN  /\ ask[r].step = "ready" /\ Job(r).op = "order"
      /\ line' = [line EXCEPT ![r] =
                    [item |-> i, options |-> options,
                     price |-> ask[r].row.price + Added(options),
                     parts |-> {p \in live \cap DOMAIN Parts : Owner(p) = i}]]
      /\ Done(r) /\ UNCHANGED <<item, live, gone, span, before>>

\* Not found, refused, a SKU that was taken meanwhile, an error or a lost connection.
Rollback(r) ==
  /\ r \in InFlight
  /\ before' = [before EXCEPT ![r] = {}] /\ span' = [span EXCEPT ![r] = Nothing]
  /\ Failed(r) /\ UNCHANGED <<item, live, gone, line>>

Next ==
  \E r \in Requests :
    \/ \E j \in Jobs : Begin(r, j)
    \/ LookUpItem(r) \/ LookUpRow(r) \/ AddCategory(r) \/ LookUpOffer(r) \/ LookUpLive(r)
    \/ CommitItem(r) \/ CommitOffer(r)
    \/ LoadOrdered(r) \/ ReadGroups(r) \/ Resolve(r) \/ CommitLine(r)
    \/ Rollback(r)

Spec == Init /\ [][Next]_vars
-----------------------------------------------------------------------------
TypeOK ==
  /\ \A i \in Items : DOMAIN item[i] = DOMAIN NoItem /\ item[i].price \in Nat
  /\ live \subseteq Categories \cup Offers /\ gone \subseteq (Categories \cup Offers) \ live
  /\ line \in [Requests -> Line \cup {None}] /\ before \in [Requests -> SUBSET Requests]

\* r and another request, of which neither began after the other's end, both wrote such
\* a row.
Raced(r, ops) ==
  \E q \in Committed \ {r} : /\ Job(q).op \in ops /\ Job(q).on = Job(r).on
                             /\ Overlap(before, q, r)

(***************************************************************************)
(* What the edits of a row leave behind.  A SKU is one live item's; a      *)
(* language once set stays, unless another translation of that item was    *)
(* under way (both write the whole dictionary); the hours of an item are   *)
(* both set or both empty, unless two patches of it ran together (each is  *)
(* checked against the row it loaded).                                     *)
(***************************************************************************)
EditsMerge ==
  /\ \A i, k \in Items : item[i].live /\ item[k].live /\ i # k => item[i].sku # item[k].sku
  /\ \A r \in Committed : Job(r).op = "translate" =>
       \/ Job(r).fields \in item[Job(r).on].words
       \/ Raced(r, {"translate"})
  /\ \A i \in Items : ~ Timed(item[i]) =>
       \E r \in Committed : Job(r).on = i /\ Job(r).op = "patch" /\ Raced(r, {"patch"})

\* A line of what was offered in that time.
OfferedIn(l, s) ==
  LET Had(which) == {o \in which \cap Offers : Owner(o) = l.item}
  IN  /\ \A g \in Had(s.always) \cap DOMAIN Groups :
           Chosen(l.options, g) \in Groups[g].min .. Groups[g].max
      /\ {OptionOf[o] : o \in l.options} \subseteq Had(s.ever)
      /\ Had(s.always) \cap DOMAIN Parts \subseteq l.parts
      /\ l.parts \subseteq Had(s.ever)
      /\ \E p \in s.prices : l.price = p + Added(l.options)

(***************************************************************************)
(* "Every configured group's cardinality is enforced regardless of what    *)
(* the caller sent": of every group the item had throughout the request,   *)
(* the line has as many options as it asks for, and of no group that the   *)
(* item did not have meanwhile.  The line's price is one the item had      *)
(* while it was ordered, with its options' deltas, and its tickets are the *)
(* components the combo had throughout, with none it never had.            *)
(***************************************************************************)
AsOffered == \A r \in Committed : Job(r).op = "order" => OfferedIn(line[r], span[r])
=============================================================================
