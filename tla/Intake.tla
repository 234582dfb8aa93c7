------------------------------- MODULE Intake -------------------------------
(***************************************************************************)
(* What other systems and the kitchen's forms record: orders of another    *)
(* till, supplier invoices, stock counts, waste, staff meals, tastings.    *)
(*   services/orders_service.py   create_order (external_pos_id)           *)
(*   services/stock_service.py    create_purchase, create_adjustment       *)
(*   services/events_service.py   create_waste_event and its two siblings  *)
(* A caller that gets no answer calls again with the same key.  The        *)
(* handlers look for a row with that key before they insert one; no unique *)
(* index stands behind the look.  A row bears the name of the request that *)
(* inserted it, with its stock movements, in one transaction; the stock is *)
(* the sum of the movements.  A recipe is not edited by any handler.       *)
(***************************************************************************)
EXTENDS Integers, FiniteSets, FiniteSetsExt, Turns

CONSTANTS
  Requests,  \* HTTP requests, retries included
  Busy,      \* bound: requests in flight at once
  Docs,      \* what may be recorded: kind, key, number and whose number it is, a dish or an
             \* ingredient, quantity
  RecipeOf,  \* of each dish, the quantity of the ingredients in one serving
  Placeholder,  \* the ingredient that stands for the recipe of a dish without one
  None       \* no key, no row

Kinds == {"order", "purchase", "adjustment", "waste", "staff_meal", "tasting"}

\* Those that also have a number: an order its order_no, of a store and a business day; a
\* purchase its invoice_number, of the supplier's tax id, which may be missing.
Numbered == {"order", "purchase"}

\* What the constants are: StoreDay assumes it.
IntakeAssumption ==
  /\ None \notin Requests \cup Docs /\ "refused" \notin Requests \cup {None}
  /\ Busy \in Nat \ {0}
  /\ \A d \in Docs : /\ DOMAIN d = {"kind", "key", "number", "issuer", "of", "qty"}
                     /\ d.kind \in Kinds /\ d.qty \in Int
                     /\ d.kind = "order" => d.of \in DOMAIN RecipeOf
  /\ \A dish \in DOMAIN RecipeOf :
       /\ IsFiniteSet(DOMAIN RecipeOf[dish])
       /\ \A i \in DOMAIN RecipeOf[dish] : RecipeOf[dish][i] \in Int

VARIABLES
  booked,  \* of each request, the row it inserted
  ledger,  \* the stock movements: of which row, of what, how much
  post,    \* the requests
  before   \* history: see Turns

vars == <<booked, ledger, post, before>>

\* A request's doc, how far it is, and the row or the refusal it is answered with.
Post == [doc : Docs \cup {None}, step : {"new", "begun", "ready", "done"},
         answer : Requests \cup {None, "refused", "failed"}]

Init ==
  /\ booked = [r \in Requests |-> None] /\ ledger = {}
  /\ post = [r \in Requests |-> [doc |-> None, step |-> "new", answer |-> None]]
  /\ before = [r \in Requests |-> {}]
-----------------------------------------------------------------------------
Rows == {q \in Requests : booked[q] # None}

\* The rows a look for the key of d finds; a call without a key is not looked up.  Only
\* an order has a column for it: the others find the note of a movement.
SameKey(d) ==
  {q \in Rows : /\ d.key # None /\ booked[q].kind = d.kind /\ booked[q].key = d.key
                /\ d.kind # "order" => \E m \in ledger : m.row = q}

\* The rows with the order_no of an order, or the invoice number and supplier of a purchase.
SameInvoice(d, e) == d.kind = e.kind /\ d.issuer = e.issuer /\ d.number = e.number
SameNumber(d) == {q \in Rows : SameInvoice(booked[q], d)}

\* _load_active_recipes: what a dish is made of, as far as it has a recipe.
Ingredients(dish) == DOMAIN RecipeOf[dish]

\* _placeholder_ingredient: of a dish without a recipe, however many are sold.
StandIn == {[of |-> Placeholder, qty |-> -1]}

\* consume_bom: what n servings take.
Consumed(dish, n) ==
  IF Ingredients(dish) = {} THEN StandIn
  ELSE {[of |-> i, qty |-> - n * RecipeOf[dish][i]] : i \in Ingredients(dish)}

\* A staff meal and a tasting take one serving of a dish, whatever the quantity says.
Movements(d) ==
  CASE d.kind = "order" -> Consumed(d.of, d.qty)
    [] d.kind \in {"purchase", "adjustment"} -> {[of |-> d.of, qty |-> d.qty]}
    [] d.kind = "waste" -> {[of |-> d.of, qty |-> - d.qty]}
    [] d.kind \in {"staff_meal", "tasting"} ->
         IF d.of \in DOMAIN RecipeOf THEN Consumed(d.of, 1) ELSE {[of |-> d.of, qty |-> - d.qty]}

Entered(row, d) == {[row |-> row, of |-> m.of, qty |-> m.qty] : m \in Movements(d)}

\* A supplier delivers; what is thrown away, eaten or tasted is given without a sign.
WrongSign(d) == d.qty = 0 \/ (d.kind # "adjustment" /\ d.qty < 0)

\* Refused before anything is looked up.
NoRecipe(d) ==
  d.kind \in {"staff_meal", "tasting"} /\ d.of \in DOMAIN RecipeOf /\ Ingredients(d.of) = {}

InFlight == {r \in Requests : post[r].step \in {"begun", "ready"}}

Begin(r, d) ==
  /\ post[r].step = "new" /\ Cardinality(InFlight) < Busy /\ ~ WrongSign(d)
  /\ post' = [post EXCEPT ![r].doc = d, ![r].step = "begun"]
  /\ before' = [before EXCEPT ![r] = {q \in Requests : post[q].step = "done"}]
  /\ UNCHANGED <<booked, ledger>>

Answer(r, a) == post' = [post EXCEPT ![r].step = "done", ![r].answer = a]

\* Slip: the number is looked up first, whatever the key.
NumberFirst(d) == d.kind \in Numbered /\ SameNumber(d) # {}

\* The number is taken.  An order's is looked up after its key was found new; an
\* invoice's only if the call has no key and tells the supplier's tax id.
Taken(d) ==
  \/ d.kind = "order" /\ SameKey(d) = {} /\ SameNumber(d) # {}
  \/ d.kind = "purchase" /\ d.key = None /\ d.issuer # None /\ SameNumber(d) # {}

\* The call was made before: it is answered with the row that is there.
Replay(r) ==
  LET d == post[r].doc
  IN  /\ post[r].step = "begun" /\ ~ Taken(d) /\ ~ NoRecipe(d)
      /\ \E q \in SameKey(d) : Answer(r, q)
      /\ UNCHANGED <<booked, ledger, before>>

Refuse(r) ==
  /\ post[r].step = "begun" /\ (Taken(post[r].doc) \/ NoRecipe(post[r].doc))
  /\ Answer(r, "refused") /\ UNCHANGED <<booked, ledger, before>>

\* The row and its movements are inserted, and appear at the commit: an order with the
\* movements of its lines, ...
InsertOrder(r) ==
  LET d == post[r].doc
  IN  /\ post[r].step = "begun" /\ d.kind = "order" /\ ~ Taken(d) /\ SameKey(d) = {}
      /\ post' = [post EXCEPT ![r].step = "ready"]
      /\ UNCHANGED <<booked, ledger, before>>

\* ... a delivery or a count, which have no row but the movement itself, ...
InsertStock(r) ==
  LET d == post[r].doc
  IN  /\ post[r].step = "begun" /\ d.kind \in {"purchase", "adjustment"}
      /\ ~ Taken(d) /\ SameKey(d) = {}
      /\ post' = [post EXCEPT ![r].step = "ready"]
      /\ UNCHANGED <<booked, ledger, before>>

\* ... or an event of the kitchen.
InsertEvent(r) ==
  LET d == post[r].doc
  IN  /\ post[r].step = "begun" /\ d.kind \in {"waste", "staff_meal", "tasting"}
      /\ ~ NoRecipe(d) /\ SameKey(d) = {}
      /\ post' = [post EXCEPT ![r].step = "ready"]
      /\ UNCHANGED <<booked, ledger, before>>

Commit(r) ==
  /\ post[r].step = "ready"
  /\ booked' = [booked EXCEPT ![r] = post[r].doc]
  /\ ledger' = ledger \cup Entered(r, post[r].doc)
  /\ Answer(r, r) /\ UNCHANGED before

\* An unknown store or ingredient, a wrong sign, an error, a lost connection.
Rollback(r) ==
  /\ r \in InFlight
  /\ Answer(r, "failed") /\ UNCHANGED <<booked, ledger, before>>

Next ==
  \E r \in Requests : \/ \E d \in Docs : Begin(r, d)
                      \/ Replay(r) \/ Refuse(r)
                      \/ InsertOrder(r) \/ InsertStock(r) \/ InsertEvent(r)
                      \/ Commit(r) \/ Rollback(r)

Spec == Init /\ [][Next]_vars
-----------------------------------------------------------------------------
TypeOK ==
  /\ booked \in [Requests -> Docs \cup {None}]
  /\ \A m \in ledger : m.row \in Rows /\ m.qty \in Int
  /\ post \in [Requests -> Post] /\ before \in [Requests -> SUBSET Requests]

(***************************************************************************)
(* A call that is made again is recorded once and answered with what was   *)
(* recorded ("existing order matched ... and was returned as-is"), as long *)
(* as the first try has ended when the next begins.                        *)
(***************************************************************************)
RetriesSettle ==
  \A r \in Requests : \A q \in Rows :
    /\ post[r].doc # None /\ booked[q].key # None /\ post[r].doc = booked[q]
    => /\ r \in Rows /\ r # q => Overlap(before, q, r)
       /\ q \in before[r] => post[r].answer # "refused"

Moved(i, movements) == MapThenSumSet(LAMBDA m : m.qty, {m \in movements : m.of = i})

SameCall(d, e) == d.key # None /\ d.key = e.key /\ d.kind = e.kind

(***************************************************************************)
(* Unless two tries overlapped, the stock is what the calls say, each key  *)
(* counted once however often the call was made.                           *)
(***************************************************************************)
StockCountsACallOnce ==
  LET Tries(p) == {q \in Requests : post[q].doc # None /\ SameCall(post[q].doc, booked[p])}
      Call(p) == IF booked[p].key = None THEN <<p>> ELSE <<booked[p].kind, booked[p].key>>
      Told == UNION {Entered(Call(p), booked[p]) : p \in Rows}
  IN  (\A p \in Rows : \A q, t \in Tries(p) : q # t => ~ Overlap(before, q, t))
      => \A m \in ledger : Moved(m.of, ledger) = Moved(m.of, Told)

(***************************************************************************)
(* An order's number is recorded once in a store's day, and an invoice     *)
(* once for a supplier, but for requests that overlapped, for an invoice   *)
(* that comes with a key of its own, and for one without the supplier's    *)
(* tax id: the number of either is not looked at.                          *)
(***************************************************************************)
NumbersOnce ==
  \A p, q \in Rows :
    /\ p # q /\ SameInvoice(booked[p], booked[q]) /\ booked[p].kind \in Numbered
    => \/ Overlap(before, p, q)
       \/ /\ booked[p].kind = "purchase"
          /\ booked[p].issuer = None \/ \E r \in {p, q} : booked[r].key # None
=============================================================================
