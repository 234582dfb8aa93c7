------------------------------ MODULE Counter ------------------------------
(***************************************************************************)
(* The counter without tables: takeaway sold at the till, orders sent from *)
(* a phone or the kiosk and collected later, and the cash drawer.          *)
(*   services/pos_order_service.py    takeout_sale, create_online_takeout, *)
(*                                    call_for_pickup, collect_...         *)
(*   services/orders_service.py       void_order                           *)
(*   services/cash_drawer_service.py  open_drawer, close_drawer            *)
(* No handler here locks a row: each decides on what it read, and its      *)
(* writes appear at its commit.  A request is made once, and a row bears   *)
(* the name of the request that inserted it.  Amounts do not matter to the *)
(* properties: a payment is counted or it is not.                          *)
(***************************************************************************)
EXTENDS Integers, FiniteSets, Turns

CONSTANTS
  Requests,   \* HTTP requests
  Registers,  \* the register_no that drawers are opened for; it may be Unnamed
  Unnamed,    \* register_no NULL: the request names no register
  Busy,       \* bound: requests in flight at once
  MaxTime,    \* bound: readings of the clock
  None

Ops == {"sale", "online", "call", "collect", "void", "open", "close"}

OrderStatus == {"open", "closed", "voided"}

\* What the constants are: StoreDay assumes it.
CounterAssumption ==
  /\ None \notin Requests \cup Registers \cup {Unnamed} \cup OrderStatus
  /\ Busy \in Nat \ {0} /\ MaxTime \in Nat

VARIABLES
  now,      \* the last reading of the clock; no two readings are alike
  order,    \* orders
  payment,  \* order_payments, in cash
  drawer,   \* cash_drawer_sessions
  call,     \* the requests and their transactions
  before    \* history: see Turns

vars == <<now, order, payment, drawer, call, before>>

Times == 0 .. MaxTime

Order == [status : OrderStatus \cup {None}, pickup : BOOLEAN, called : BOOLEAN]
Payment == [order : Requests \cup {None}, at : Times]

\* closed = 0 while the drawer is open; counted is what cash_sales was summed from.
Drawer == [register : Registers \cup {None}, opened : Times, closed : Times,
           counted : SUBSET Requests, closer : Requests \cup {None}]

NoOrder == [status |-> None, pickup |-> FALSE, called |-> FALSE]
NoPayment == [order |-> None, at |-> 0]
NoDrawer == [register |-> None, opened |-> 0, closed |-> 0, counted |-> {}, closer |-> None]

\* of is the row the request is about; at is what it read off the clock first, until
\* what close_drawer read to count up to; seen are the payments it counted.
Call == [op : Ops \cup {None}, of : Requests \cup {None},
         register : Registers \cup {None},
         step : {"new", "begun", "counting", "ready", "done"},
         at : Times, until : Times, seen : SUBSET Requests]
NotCalled == [op |-> None, of |-> None, register |-> None, step |-> "new",
              at |-> 0, until |-> 0, seen |-> {}]

Init ==
  /\ now = 0
  /\ order = [r \in Requests |-> NoOrder]
  /\ payment = [r \in Requests |-> NoPayment]
  /\ drawer = [r \in Requests |-> NoDrawer]
  /\ call = [r \in Requests |-> NotCalled]
  /\ before = [r \in Requests |-> {}]
-----------------------------------------------------------------------------
InFlight == {r \in Requests : call[r].step \notin {"new", "done"}}
IsOpen(d) == drawer[d].register # None /\ drawer[d].closed = 0
Paid == {p \in Requests : payment[p].order # None}

\* A screen shows the rows that exist; only one of those is asked for.
Target(op) ==
  CASE op \in {"call", "collect", "void"} -> {o \in Requests : order[o].status # None}
    [] op = "close" -> {d \in Requests : drawer[d].register # None}
    [] OTHER -> {None}

\* The request begins its transaction, whose time is the opened_at of a new drawer.
Begin(r) ==
  /\ call[r].step = "new" /\ Cardinality(InFlight) < Busy /\ now < MaxTime
  /\ \E op \in Ops : \E of \in Target(op) :
       \E register \in IF op = "open" THEN Registers ELSE {None} :
         /\ now' = IF op = "open" THEN now + 1 ELSE now
         /\ call' = [call EXCEPT ![r] = [NotCalled EXCEPT
              !.op = op, !.of = of, !.register = register, !.step = "begun",
              !.at = IF op = "open" THEN now + 1 ELSE 0]]
  /\ before' = [before EXCEPT ![r] = {q \in Requests : call[q].step = "done"}]
  /\ UNCHANGED <<order, payment, drawer>>

Ends(r) == call' = [call EXCEPT ![r] = [NotCalled EXCEPT !.step = "done"]]

\* Slip: an order is collected whatever became of it.
PickupKnown(o) == order[o].pickup

\* _guard_order_open, and the order is one of _PICKUP_CHANNELS.
PickupOpen(o) == order[o].pickup /\ order[o].status = "open"

\* What a handler has to find; otherwise it answers 404 or 409.
Passes(r) ==
  LET c == call[r]
  IN  CASE c.op \in {"call", "collect"} -> PickupOpen(c.of)
        [] c.op = "void" -> order[c.of].status # "voided"
        [] c.op = "open" -> ~ \E d \in Requests : IsOpen(d) /\ drawer[d].register = c.register
        [] c.op = "close" -> IsOpen(c.of)
        [] OTHER -> TRUE

\* The handler's reads and checks.  takeout_sale and collect_online_takeout read the
\* clock for paid_at, close_drawer for the end of its count.
Enter(r) ==
  /\ call[r].step = "begun" /\ Passes(r) /\ now < MaxTime
  /\ call' = [call EXCEPT ![r] =
       CASE call[r].op = "close" -> [@ EXCEPT !.step = "counting", !.until = now + 1]
         [] call[r].op \in {"sale", "collect"} -> [@ EXCEPT !.step = "ready", !.at = now + 1]
         [] OTHER -> [@ EXCEPT !.step = "ready"]]
  /\ now' = IF call[r].op \in {"sale", "collect", "close"} THEN now + 1 ELSE now
  /\ UNCHANGED <<order, payment, drawer, before>>

\* Slip: all the cash there is, whenever it was paid.
AllCash(opened, until) == {p \in Paid : payment[p].at <= until}

\* The rows _expected_breakdown sums, of the whole store whatever the register.
CashRows(opened, until) == {p \in Paid : opened <= payment[p].at /\ payment[p].at <= until}

\* close_drawer: the sum, and then another reading of the clock for closed_at.
CountCash(r) ==
  /\ call[r].step = "counting" /\ now < MaxTime
  /\ call' = [call EXCEPT ![r].step = "ready", ![r].at = now + 1,
                          ![r].seen = CashRows(drawer[call[r].of].opened, call[r].until)]
  /\ now' = now + 1
  /\ UNCHANGED <<order, payment, drawer, before>>

Pay(r, o) == payment' = [payment EXCEPT ![r] = [order |-> o, at |-> call[r].at]]

\* takeout_sale: the order is inserted, paid and closed at once.
CommitSale(r) ==
  /\ call[r].op = "sale"
  /\ order' = [order EXCEPT ![r] = [NoOrder EXCEPT !.status = "closed"]]
  /\ Pay(r, r) /\ UNCHANGED drawer

\* create_online_takeout: the order waits.
CommitOnline(r) ==
  /\ call[r].op = "online"
  /\ order' = [order EXCEPT ![r] = [NoOrder EXCEPT !.status = "open", !.pickup = TRUE]]
  /\ UNCHANGED <<payment, drawer>>

\* call_for_pickup writes pickup_called_at and no other column.
CommitCall(r) ==
  /\ call[r].op = "call"
  /\ order' = [order EXCEPT ![call[r].of].called = TRUE]
  /\ UNCHANGED <<payment, drawer>>

CommitCollect(r) ==
  /\ call[r].op = "collect"
  /\ order' = [order EXCEPT ![call[r].of].status = "closed"]
  /\ Pay(r, call[r].of) /\ UNCHANGED drawer

CommitVoid(r) ==
  /\ call[r].op = "void"
  /\ order' = [order EXCEPT ![call[r].of].status = "voided"]
  /\ UNCHANGED <<payment, drawer>>

\* uq_cash_sessions_active: NULL is equal to nothing, so it never refuses an unnamed one.
IndexFree(register) ==
  register = Unnamed \/ ~ \E d \in Requests : IsOpen(d) /\ drawer[d].register = register

CommitOpen(r) ==
  /\ call[r].op = "open" /\ IndexFree(call[r].register)
  /\ drawer' = [drawer EXCEPT ![r] =
                  [NoDrawer EXCEPT !.register = call[r].register, !.opened = call[r].at]]
  /\ UNCHANGED <<order, payment>>

\* A second closing that overlaps writes all its columns over the first.
CommitClose(r) ==
  /\ call[r].op = "close"
  /\ drawer' = [drawer EXCEPT ![call[r].of] =
                  [@ EXCEPT !.closed = call[r].at, !.counted = call[r].seen, !.closer = r]]
  /\ UNCHANGED <<order, payment>>

Commit(r) ==
  /\ call[r].step = "ready"
  /\ \/ CommitSale(r) \/ CommitOnline(r) \/ CommitCall(r) \/ CommitCollect(r)
     \/ CommitVoid(r) \/ CommitOpen(r) \/ CommitClose(r)
  /\ Ends(r) /\ UNCHANGED <<now, before>>

\* A check that fails, too little cash, an error or a lost connection.
Rollback(r) ==
  /\ r \in InFlight
  /\ Ends(r) /\ UNCHANGED <<now, order, payment, drawer, before>>

Next == \E r \in Requests : Begin(r) \/ Enter(r) \/ CountCash(r) \/ Commit(r) \/ Rollback(r)

Spec == Init /\ [][Next]_vars
-----------------------------------------------------------------------------
TypeOK ==
  /\ now \in Times
  /\ order \in [Requests -> Order] /\ payment \in [Requests -> Payment]
  /\ drawer \in [Requests -> Drawer] /\ call \in [Requests -> Call]
  /\ before \in [Requests -> SUBSET Requests]

(***************************************************************************)
(* A shift counts the cash that was taken in it: what was paid between its *)
(* opening and its closing, and of that nothing is missed but what was     *)
(* being paid while the drawer was being closed.                           *)
(***************************************************************************)
ShiftCountsItsCash ==
  \A d \in Requests : drawer[d].closed > 0 =>
    \A p \in Paid :
      LET during == drawer[d].opened <= payment[p].at /\ payment[p].at <= drawer[d].closed
      IN  /\ p \in drawer[d].counted => during
          /\ during => p \in drawer[d].counted \/ Overlap(before, p, drawer[d].closer)

(***************************************************************************)
(* No cash is counted by two shifts of one named register, unless the      *)
(* later was being opened while the earlier was being closed: its          *)
(* transaction's time may then be that of a moment before.                 *)
(***************************************************************************)
CashCountedOnce ==
  \A d, e \in Requests :
    /\ d # e /\ drawer[d].register # Unnamed /\ drawer[d].register = drawer[e].register
    /\ drawer[d].counted \cap drawer[e].counted # {}
    => Overlap(before, d, drawer[e].closer) \/ Overlap(before, e, drawer[d].closer)

(***************************************************************************)
(* A collected order is not charged again by a request that comes after:   *)
(* two payments of one order were taken by requests that overlapped.       *)
(***************************************************************************)
ChargedInTurn ==
  \A p, q \in Paid : p # q /\ payment[p].order = payment[q].order => Overlap(before, p, q)

(***************************************************************************)
(* At most one drawer per register is open ("Only one open session per     *)
(* (store, register) at a time", models/cash.py).                          *)
(***************************************************************************)
OneOpenDrawer ==
  \A d, e \in Requests :
    IsOpen(d) /\ IsOpen(e) /\ drawer[d].register = drawer[e].register => d = e
=============================================================================
