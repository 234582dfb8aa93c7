----------------------------- MODULE TableBill -----------------------------
(***************************************************************************)
(* Dine-in seatings and their bills, as concurrent HTTP requests see them: *)
(*   services/table_service.py      open / close / cancel / transfer       *)
(*   services/pos_order_service.py  lines, discounts, merge, payments      *)
(*   services/orders_service.py     close_order, void_order                *)
(*                                                                         *)
(* Every request is one transaction of api/deps.get_db: it reads rows into *)
(* an identity map, decides on what it read, and its writes become visible *)
(* together when it commits.  PostgreSQL runs it READ COMMITTED, no bill   *)
(* row is locked or versioned, and the ORM writes only changed columns; so *)
(* a commit applies decisions taken on an old view to the current rows.    *)
(* One client is the serial execution, two or more interleave.             *)
(***************************************************************************)
EXTENDS Integers, Sequences, FiniteSets, FiniteSetsExt, DiscountResolver

CONSTANTS
  Tables, Sessions, Orders, Lines,  \* identities; each row id is used once
  Clients,                          \* concurrent requests
  Ops,                              \* the endpoints that are called
  Amounts,                          \* line totals that add_line / update produce
  Shares,                           \* amounts of pay_partial
  Discounts,                        \* rows that apply_discount may add
  Rates,                            \* service charge rates, in hundredths
  Rules,                            \* the store's automatic discount rules
  MaxRows,                          \* bound: manual discount rows on one order
  None                              \* "no such row", a request field not in use

BillOps  == {"get_session_order", "add_line", "apply_discount", "set_service_charge", "quote",
             "pay_partial", "checkout_cash", "merge_sessions"}
SeatOps  == {"close_session", "cancel_session"}
LineOps  == {"update_line_qty", "void_line"}
OrderOps == {"close_order", "void_order"}
AllOps   == BillOps \cup SeatOps \cup LineOps \cup OrderOps
              \cup {"open_session", "transfer_session"}

\* The schemas refuse a ratio above one.
InRange(row) == row.kind \in RatioKinds => row.value <= 100
Row  == {row \in [kind : RatioKinds \cup FlatKinds \cup {"comp"}, value : Nat, auto : BOOLEAN] :
           InRange(row)}
Rule == {rule \in [kind : {"percent", "amount"}, value : Nat, min : Nat, windowed : BOOLEAN] :
           InRange(rule)}

ASSUME ConstantsAssumption ==
  /\ None \notin Tables \cup Sessions \cup Orders \cup Lines
  /\ Ops \subseteq AllOps
  /\ Amounts \subseteq Nat /\ Shares \subseteq Nat \ {0} /\ Rates \subseteq Nat
  /\ Discounts \subseteq Row /\ (\A row \in Discounts : ~row.auto)
  /\ Rules \subseteq Rule
  /\ MaxRows \in Nat

VARIABLES
  sessions,  \* table_sessions: status and table
  orders,    \* orders with their discount rows and the sum of their payments
  lines,     \* order_lines, and how often their stock consumption was reversed
  req        \* what each client's transaction has read so far

vars == <<sessions, orders, lines, req>>

SessionStatus == {"none", "open", "closed", "cancelled"}
OrderStatus   == {"none", "open", "closed", "voided"}
LineStatus    == {"none", "live", "removed"}
Phases == {"idle", "find", "insert", "adopt", "order", "load", "commit"}

Session == [status : SessionStatus, table : Tables \cup {None}]
Order   == [status : OrderStatus, session : Sessions \cup {None}, rate : Nat,
            rows : Seq(Row), paid : Nat]
Line    == [status : LineStatus, order : Orders \cup {None},
            parent : Lines \cup {None}, total : Nat, reversals : Nat]

\* The collections a request loaded: order.discounts, order.payments, order.lines.
Charge == [line : Lines, total : Nat]
View == [rows : Seq(Row), paid : Nat, charges : SUBSET Charge]

(***************************************************************************)
(* A request: the rows it named, the order it found with the columns read  *)
(* at that moment (status, rate), whether that order is its own uncommitted *)
(* INSERT (fresh), and the collections it read later (view).  from is the  *)
(* order of the source session of a merge, moved and held its lines and    *)
(* payments as read.                                                       *)
(***************************************************************************)
Request == [op : AllOps \cup {None}, phase : Phases,
            session : Sessions \cup {None}, table : Tables \cup {None},
            source : Sessions \cup {None}, line : Lines \cup {None},
            order : Orders \cup {None}, status : OrderStatus, rate : Nat,
            fresh : BOOLEAN, view : View, from : Orders \cup {None},
            moved : SUBSET Lines, held : Nat]

NoView == [rows |-> <<>>, paid |-> 0, charges |-> {}]
Idle == [op |-> None, phase |-> "idle", session |-> None, table |-> None,
         source |-> None, line |-> None, order |-> None, status |-> "none",
         rate |-> 0, fresh |-> FALSE, view |-> NoView, from |-> None,
         moved |-> {}, held |-> 0]

NewOrder(s) == [status |-> "open", session |-> s, rate |-> 0, rows |-> <<>>, paid |-> 0]
NewLine(o, parent, total) ==
  [status |-> "live", order |-> o, parent |-> parent, total |-> total, reversals |-> 0]

Init ==
  /\ sessions = [s \in Sessions |-> [status |-> "none", table |-> None]]
  /\ orders = [o \in Orders |-> [NewOrder(None) EXCEPT !.status = "none"]]
  /\ lines = [l \in Lines |-> [NewLine(None, None, 0) EXCEPT !.status = "none"]]
  /\ req = [c \in Clients |-> Idle]
-----------------------------------------------------------------------------
(***************************************************************************)
(* What queries return.                                                    *)
(***************************************************************************)
LiveLines(o) == {l \in Lines : lines[l].status = "live" /\ lines[l].order = o}
Charges(o)   == {[line |-> l, total |-> lines[l].total] : l \in LiveLines(o)}
OpenOrders(s) == {o \in Orders : orders[o].status = "open" /\ orders[o].session = s}
SeatedAt(t)  == {s \in Sessions : sessions[s].status = "open" /\ sessions[s].table = t}

Gross(charges) == MapThenSumSet(LAMBDA x : x.total, charges)

\* The amount due of an order from its committed rows.
Due(o) == AmountDue(Gross(Charges(o)), orders[o].rows, orders[o].rate)

\* Slip: compares what was collected with the bill before its discounts.
GrossNotBelowPaid(charges, rows, rate, paid) == Gross(charges) >= paid

\* _guard_not_below_paid, on the collections as the request holds them.
NotBelowPaid(charges, rows, rate, paid) == AmountDue(Gross(charges), rows, rate) >= paid

\* Slip: forgets that a rule must not be attached once a payment was taken.
LateAutoRows(v) ==
  IF (\E i \in DOMAIN v.rows : v.rows[i].auto) \/ v.charges = {}
    THEN {<<>>}
    ELSE {<<>>} \cup {<<[kind |-> r.kind, value |-> r.value, auto |-> TRUE]>> : r \in Rules}

(***************************************************************************)
(* _auto_apply_rule: the rows it may append to an order seen as v.  Nothing *)
(* if a rule was applied before, a payment was taken or the order is empty; *)
(* otherwise the best of the rules in force at this hour, if one matches.  *)
(* The code puts no guard on the result.                                   *)
(***************************************************************************)
InForce == {R \in SUBSET Rules : \A r \in Rules : r.windowed \/ r \in R}
AutoRow(r) == [kind |-> r.kind, value |-> r.value, auto |-> TRUE]
AutoRows(v) ==
  IF (\E i \in DOMAIN v.rows : v.rows[i].auto) \/ v.paid # 0 \/ v.charges = {}
    THEN {<<>>}
    ELSE UNION {LET best == BestRules(R, Gross(v.charges))
                IN  IF best = {} THEN {<<>>} ELSE {<<AutoRow(r)>> : r \in best} : R \in InForce}
-----------------------------------------------------------------------------
(***************************************************************************)
(* Reading.  A call that is refused at once leaves no trace and is no step. *)
(***************************************************************************)
Begin(c, op, fields) ==
  /\ op \in Ops
  /\ req[c].phase = "idle"
  /\ req' = [req EXCEPT ![c] = fields]
  /\ UNCHANGED <<sessions, orders, lines>>

\* Bound of the model: enough unused order ids for every request in flight.
RoomForOrder ==
  Cardinality({o \in Orders : orders[o].status = "none"})
    > Cardinality({c \in Clients : req[c].phase # "idle"})

\* _load_open_session, first statement of the bill endpoints.
CallOnBill(c) ==
  /\ RoomForOrder
  /\ \E op \in BillOps \ {"merge_sessions"}, s \in Sessions :
       /\ sessions[s].status = "open"
       /\ Begin(c, op, [Idle EXCEPT !.op = op, !.phase = "find", !.session = s])

\* merge_sessions: both sessions are loaded open (one store is modelled).
CallMerge(c) ==
  /\ RoomForOrder
  /\ \E s, t \in Sessions :
       /\ s # t
       /\ sessions[s].status = "open" /\ sessions[t].status = "open"
       /\ Begin(c, "merge_sessions", [Idle EXCEPT !.op = "merge_sessions", !.phase = "find",
                                                  !.session = s, !.source = t])

CallOnSession(c) ==
  \E op \in SeatOps, s \in Sessions :
    /\ sessions[s].status = "open"
    /\ Begin(c, op, [Idle EXCEPT !.op = op, !.phase = "commit", !.session = s])

CallTransfer(c) ==
  \E s \in Sessions, t \in Tables :
    /\ sessions[s].status = "open" /\ sessions[s].table # t /\ SeatedAt(t) = {}
    /\ Begin(c, "transfer_session", [Idle EXCEPT !.op = "transfer_session", !.phase = "commit",
                                                 !.session = s, !.table = t])

CallOpen(c) ==
  \E t \in Tables :
    /\ SeatedAt(t) = {}
    /\ Begin(c, "open_session",
             [Idle EXCEPT !.op = "open_session", !.phase = "commit", !.table = t])

\* _load_line: only the line's order id is kept; the order is read next.
CallOnLine(c) ==
  \E op \in LineOps, l \in Lines :
    /\ lines[l].status = "live"
    /\ Begin(c, op, [Idle EXCEPT !.op = op, !.phase = "order", !.line = l,
                                 !.order = lines[l].order])

\* Slip: voids an order that is voided already.
CallOnAnyOrder(c) ==
  \E op \in OrderOps, o \in Orders :
    /\ orders[o].status # "none"
    /\ Begin(c, op, [Idle EXCEPT !.op = op, !.phase = "load", !.order = o,
                                 !.status = orders[o].status, !.rate = orders[o].rate])

CallOnOrder(c) ==
  \E op \in OrderOps, o \in Orders :
    /\ orders[o].status \in (IF op = "close_order" THEN {"open"} ELSE {"open", "closed"})
    /\ Begin(c, op, [Idle EXCEPT !.op = op, !.phase = "load", !.order = o,
                                 !.status = orders[o].status, !.rate = orders[o].rate])

\* Later reads change the request only.
Read(c, phase, fields) ==
  /\ req[c].phase = phase
  /\ req' = [req EXCEPT ![c] = fields]
  /\ UNCHANGED <<sessions, orders, lines>>

\* The columns of o enter the identity map and are not refreshed later.
Holding(c, o, phase) ==
  [req[c] EXCEPT !.order = o, !.phase = phase,
                 !.status = orders[o].status, !.rate = orders[o].rate]

\* _get_or_create_session_order, first _existing(); checkout_cash does not create.
FindOrder(c) ==
  \/ \E o \in OpenOrders(req[c].session) : Read(c, "find", Holding(c, o, "load"))
  \/ /\ OpenOrders(req[c].session) = {}
     /\ Read(c, "find", IF req[c].op = "checkout_cash" THEN Idle
                        ELSE [req[c] EXCEPT !.phase = "insert"])

(***************************************************************************)
(* INSERT of the session's order in a savepoint.  The partial unique index *)
(* uq_orders_one_open_per_session makes it wait for another transaction's  *)
(* uncommitted order of the same session, and fail on a committed one.     *)
(***************************************************************************)
SlotFree(c) ==
  \A d \in Clients \ {c} : ~(req[d].fresh /\ req[d].session = req[c].session)
Unused(o) == orders[o].status = "none" /\ \A d \in Clients : ~(req[d].fresh /\ req[d].order = o)

\* Slip: no unique index, so neither the wait nor the failed INSERT.
InsertUnindexed(c) ==
  \E o \in Orders :
    /\ Unused(o)
    /\ Read(c, "insert", [req[c] EXCEPT !.order = o, !.phase = "load",
                                        !.fresh = TRUE, !.status = "open"])

InsertOrder(c) ==
  /\ SlotFree(c)
  /\ \/ /\ OpenOrders(req[c].session) = {}
        /\ \E o \in Orders :
             /\ Unused(o)
             /\ Read(c, "insert", [req[c] EXCEPT !.order = o, !.phase = "load",
                                                 !.fresh = TRUE, !.status = "open"])
     \/ /\ OpenOrders(req[c].session) # {}
        /\ Read(c, "insert", [req[c] EXCEPT !.phase = "adopt"])

\* Slip: tries again for ever instead of giving up.
AdoptOrWait(c) ==
  \E o \in OpenOrders(req[c].session) : Read(c, "adopt", Holding(c, o, "load"))

\* The loser adopts the winner's order; if it is no longer open the error escapes.
AdoptOrder(c) ==
  \/ \E o \in OpenOrders(req[c].session) : Read(c, "adopt", Holding(c, o, "load"))
  \/ OpenOrders(req[c].session) = {} /\ Read(c, "adopt", Idle)

\* Slip: no _guard_order_open.
ReadAnyLineOrder(c) == Read(c, "order", Holding(c, req[c].order, "load"))

\* The line endpoints read the order of the line and refuse one that is not open.
ReadLineOrder(c) ==
  Read(c, "order", IF orders[req[c].order].status = "open"
                   THEN Holding(c, req[c].order, "load") ELSE Idle)

\* _load_order_with_relations; a merge also finds and loads the source order.
LoadOrder(c) ==
  LET o == req[c].order
      loaded == [req[c] EXCEPT !.phase = "commit",
                   !.view = [rows |-> orders[o].rows, paid |-> orders[o].paid,
                             charges |-> Charges(o)]]
  IN  IF req[c].op # "merge_sessions" \/ OpenOrders(req[c].source) = {}
        THEN Read(c, "load", loaded)
        ELSE \E p \in OpenOrders(req[c].source) :
               Read(c, "load", [loaded EXCEPT !.from = p, !.moved = LiveLines(p),
                                              !.held = orders[p].paid])
-----------------------------------------------------------------------------
(***************************************************************************)
(* Writing.  Commit(c, op) opens the last step of a request: it decides on *)
(* the view and writes to the current rows.  Saved(c) are the order rows    *)
(* with the request's own INSERT.                                          *)
(***************************************************************************)
Commit(c, op) ==
  /\ req[c].op = op /\ req[c].phase = "commit"
  /\ req' = [req EXCEPT ![c] = Idle]

Saved(c) ==
  IF req[c].fresh THEN [orders EXCEPT ![req[c].order] = NewOrder(req[c].session)] ELSE orders

\* The lines of the order as the request saw them.
Seen(c) == {x.line : x \in req[c].view.charges}

\* The rollback of a refused request, a failed statement or a lost connection.
Rollback(c) ==
  /\ req[c].phase # "idle"
  /\ req' = [req EXCEPT ![c] = Idle]
  /\ UNCHANGED <<sessions, orders, lines>>

OpenSession(c) ==
  /\ Commit(c, "open_session")
  /\ SeatedAt(req[c].table) = {}  \* the partial unique index on open sessions
  /\ \E s \in Sessions :
       /\ sessions[s].status = "none"
       /\ sessions' = [sessions EXCEPT ![s] = [status |-> "open", table |-> req[c].table]]
  /\ UNCHANGED <<orders, lines>>

CloseSession(c) ==
  /\ Commit(c, "close_session")
  /\ sessions' = [sessions EXCEPT ![req[c].session].status = "closed"]
  /\ UNCHANGED <<orders, lines>>

CancelSession(c) ==
  /\ Commit(c, "cancel_session")
  /\ sessions' = [sessions EXCEPT ![req[c].session].status = "cancelled"]
  /\ UNCHANGED <<orders, lines>>

\* Slip: the check before the move is trusted, there is no index.
TransferUnindexed(c) ==
  /\ Commit(c, "transfer_session")
  /\ sessions' = [sessions EXCEPT ![req[c].session].table = req[c].table]
  /\ UNCHANGED <<orders, lines>>

\* Slip: the whole row is saved as it was read, status and all.
TransferWholeRow(c) ==
  /\ Commit(c, "transfer_session")
  /\ SeatedAt(req[c].table) \subseteq {req[c].session}
  /\ sessions' = [sessions EXCEPT ![req[c].session] =
                     [status |-> "open", table |-> req[c].table]]
  /\ UNCHANGED <<orders, lines>>

\* The index counts the moved row only while it is open.
TransferSession(c) ==
  LET s == req[c].session
  IN  /\ Commit(c, "transfer_session")
      /\ sessions[s].status = "open" => SeatedAt(req[c].table) \subseteq {s}
      /\ sessions' = [sessions EXCEPT ![s].table = req[c].table]
      /\ UNCHANGED <<orders, lines>>

\* One line, or a combo with one zero-price component ticket under it.
AddLine(c) ==
  /\ Commit(c, "add_line")
  /\ \E l \in Lines, total \in Amounts, kid \in Lines \cup {None} :
       /\ lines[l].status = "none" /\ kid # l
       /\ kid # None => lines[kid].status = "none"
       /\ lines' = [x \in Lines |-> IF x = l THEN NewLine(req[c].order, None, total)
                                    ELSE IF x = kid THEN NewLine(req[c].order, l, 0)
                                    ELSE lines[x]]
  /\ orders' = Saved(c)
  /\ UNCHANGED sessions

\* An UPDATE that finds no row fails the request (StaleDataError).
UpdateLineQty(c) ==
  LET l == req[c].line
      v == req[c].view
  IN  /\ Commit(c, "update_line_qty")
      /\ lines[l].status = "live"
      /\ \E total \in Amounts :
           /\ NotBelowPaid({[x EXCEPT !.total = IF x.line = l THEN total ELSE @] : x \in v.charges},
                           v.rows, req[c].rate, v.paid)
           /\ lines' = [lines EXCEPT ![l].total = total]
      /\ UNCHANGED <<sessions, orders>>

\* _reverse_stock_and_remove: one inverse movement, and the line is deleted.
Removed(line) == [line EXCEPT !.status = "removed", !.reversals = @ + 1]

\* A DELETE that finds no row only warns: the stock is reversed all the same.
VoidLine(c) ==
  LET v == req[c].view
      gone == {l \in Seen(c) : l = req[c].line \/ lines[l].parent = req[c].line}
  IN  /\ Commit(c, "void_line")
      /\ req[c].line \in gone
      /\ NotBelowPaid({x \in v.charges : x.line \notin gone},
                      v.rows, req[c].rate, v.paid)
      /\ lines' = [l \in Lines |-> IF l \in gone THEN Removed(lines[l]) ELSE lines[l]]
      /\ UNCHANGED <<sessions, orders>>

ApplyDiscount(c) ==
  LET o == req[c].order
      v == req[c].view
  IN  /\ Commit(c, "apply_discount")
      /\ v.charges # {}
      /\ Len(orders[o].rows) < MaxRows
      /\ \E row \in Discounts :
           /\ NotBelowPaid(v.charges, Append(v.rows, row), req[c].rate, v.paid)
           /\ orders' = [orders EXCEPT ![o].rows = Append(@, row)]
      /\ UNCHANGED <<sessions, lines>>

SetServiceCharge(c) ==
  LET v == req[c].view
  IN  /\ Commit(c, "set_service_charge")
      /\ \E rate \in Rates :
           /\ NotBelowPaid(v.charges, v.rows, rate, v.paid)
           /\ orders' = [Saved(c) EXCEPT ![req[c].order].rate = rate]
      /\ UNCHANGED <<sessions, lines>>

\* get_session_order, and get_bill of the table QR page: a read that may create
\* the order.
GetSessionOrder(c) ==
  /\ Commit(c, "get_session_order")
  /\ orders' = Saved(c)
  /\ UNCHANGED <<sessions, lines>>

\* quote: a read that may also attach the automatic discount.
Quote(c) ==
  /\ Commit(c, "quote")
  /\ \E auto \in AutoRows(req[c].view) :
       orders' = [Saved(c) EXCEPT ![req[c].order].rows = @ \o auto]
  /\ UNCHANGED <<sessions, lines>>

\* Slip: the order is closed and its seating is forgotten.
PayOrderOnly(c, auto, amount, closes) ==
  LET o == req[c].order
  IN  /\ orders' = [orders EXCEPT ![o].rows = @ \o auto, ![o].paid = @ + amount,
                                  ![o].status = IF closes THEN "closed" ELSE @]
      /\ UNCHANGED <<sessions, lines>>

\* Slip: the payment is booked as a refund.
PayBack(c, auto, amount, closes) ==
  LET o == req[c].order
  IN  /\ orders' = [orders EXCEPT ![o].rows = @ \o auto, ![o].paid = @ - amount,
                                  ![o].status = IF closes THEN "closed" ELSE @]
      /\ sessions' = IF closes THEN [sessions EXCEPT ![req[c].session].status = "closed"]
                     ELSE sessions
      /\ UNCHANGED lines

\* A payment on order o: the automatic rows, the amount, and the closing of
\* order and session when the bill is covered.
Pay(c, auto, amount, closes) ==
  LET o == req[c].order
  IN  /\ orders' = [orders EXCEPT ![o].rows = @ \o auto, ![o].paid = @ + amount,
                                  ![o].status = IF closes THEN "closed" ELSE @]
      /\ sessions' = IF closes THEN [sessions EXCEPT ![req[c].session].status = "closed"]
                     ELSE sessions
      /\ UNCHANGED lines

\* Slip: asks for the whole bill, whatever was paid on it.
RemainingOfBill(c, auto) ==
  AmountDue(Gross(req[c].view.charges), req[c].view.rows \o auto, req[c].rate)

Remaining(c, auto) ==
  LET v == req[c].view
  IN  AmountDue(Gross(v.charges), v.rows \o auto, req[c].rate) - v.paid

PayPartial(c) ==
  /\ Commit(c, "pay_partial")
  /\ Seen(c) # {}
  /\ \E auto \in AutoRows(req[c].view), amount \in Shares :
       /\ amount <= Remaining(c, auto)
       /\ Pay(c, auto, amount, amount = Remaining(c, auto))

CheckoutCash(c) ==
  /\ Commit(c, "checkout_cash")
  /\ Seen(c) # {}
  /\ \E auto \in AutoRows(req[c].view) :
       /\ Remaining(c, auto) \in Nat
       /\ Pay(c, auto, Remaining(c, auto), TRUE)

\* Slip: the emptied source order stays open.
MergeLeavingOrder(c) ==
  LET r == req[c]
  IN  /\ Commit(c, "merge_sessions")
      /\ r.held = 0
      /\ lines' = [l \in Lines |-> IF l \in r.moved THEN [lines[l] EXCEPT !.order = r.order]
                                   ELSE lines[l]]
      /\ orders' = Saved(c)
      /\ sessions' = [sessions EXCEPT ![r.source].status = "cancelled"]

\* The source's lines move, its order is voided (its discounts stay on it)
\* and its session is cancelled.  Moving a deleted line is a StaleDataError.
MergeSessions(c) ==
  LET r == req[c]
  IN  /\ Commit(c, "merge_sessions")
      /\ r.held = 0
      /\ \A l \in r.moved : lines[l].status = "live"
      /\ lines' = [l \in Lines |-> IF l \in r.moved THEN [lines[l] EXCEPT !.order = r.order]
                                   ELSE lines[l]]
      /\ orders' = IF r.from = None THEN Saved(c)
                   ELSE [Saved(c) EXCEPT ![r.from].status = "voided"]
      /\ sessions' = [sessions EXCEPT ![r.source].status = "cancelled"]

CloseOrder(c) ==
  /\ Commit(c, "close_order")
  /\ orders' = [orders EXCEPT ![req[c].order].status = "closed"]
  /\ UNCHANGED <<sessions, lines>>

\* One reversing movement for each line the request saw; the session stays.
VoidOrder(c) ==
  /\ Commit(c, "void_order")
  /\ orders' = [orders EXCEPT ![req[c].order].status = "voided"]
  /\ lines' = [l \in Lines |-> IF l \in Seen(c)
                               THEN [lines[l] EXCEPT !.reversals = @ + 1] ELSE lines[l]]
  /\ UNCHANGED sessions
-----------------------------------------------------------------------------
Call(c) ==
  \/ CallOnBill(c) \/ CallMerge(c) \/ CallOnSession(c) \/ CallTransfer(c)
  \/ CallOpen(c) \/ CallOnLine(c) \/ CallOnOrder(c)

ReadStep(c) ==
  \/ FindOrder(c) \/ InsertOrder(c) \/ AdoptOrder(c) \/ ReadLineOrder(c) \/ LoadOrder(c)

Write(c) ==
  \/ OpenSession(c) \/ CloseSession(c) \/ CancelSession(c) \/ TransferSession(c)
  \/ AddLine(c) \/ UpdateLineQty(c) \/ VoidLine(c) \/ ApplyDiscount(c)
  \/ SetServiceCharge(c) \/ GetSessionOrder(c) \/ Quote(c) \/ PayPartial(c)
  \/ CheckoutCash(c) \/ MergeSessions(c) \/ CloseOrder(c) \/ VoidOrder(c)

Next == \E c \in Clients : Call(c) \/ ReadStep(c) \/ Write(c) \/ Rollback(c)

Spec == Init /\ [][Next]_vars

(***************************************************************************)
(* A request that started goes on: the event loop runs its next statement,  *)
(* and one that has read all it needs commits or is refused.  A waiter on   *)
(* the unique index is woken whenever the transaction it waits for ends;    *)
(* strong fairness says that it does not lose the freed slot to newcomers   *)
(* that roll back for ever.  Nothing makes a client call again.             *)
(***************************************************************************)
Ends(c) == ReadStep(c) \/ Write(c) \/ (req[c].phase = "commit" /\ Rollback(c))
FairSpec == Spec /\ \A c \in Clients : WF_vars(Ends(c)) /\ SF_vars(InsertOrder(c))
-----------------------------------------------------------------------------
(***************************************************************************)
(* Properties.  The first group holds however many requests interleave.    *)
(***************************************************************************)

\* Every variable has its type: each row keeps a known status, existing
\* references and non-negative money through every handler.
TypeOK ==
  /\ sessions \in [Sessions -> Session]
  /\ orders \in [Orders -> Order]
  /\ lines \in [Lines -> Line]
  /\ req \in [Clients -> Request]

\* _get_or_create_session_order: two first touches of a seating never leave it
\* with two open bills, whichever of them wins, adopts, fails or rolls back.
OneOpenOrder ==
  \A o, p \in Orders :
    /\ orders[o].status = "open" /\ orders[p].status = "open"
    /\ orders[o].session = orders[p].session
    => o = p

\* open_session and transfer_session: no two open seatings share a table, though
\* both check the table before another request's seating is visible.
OneSeating ==
  \A s, t \in Sessions :
    /\ sessions[s].status = "open" /\ sessions[t].status = "open"
    /\ sessions[s].table = sessions[t].table
    => s = t

\* A request that decided on an open row may find it closed, voided or cancelled
\* when it writes: no such late write makes the row open again.
NeverReopened ==
  [][ /\ \A o \in Orders : orders[o].status \in {"closed", "voided"} =>
                             orders'[o].status \in {"closed", "voided"}
      /\ \A s \in Sessions : sessions[s].status \in {"closed", "cancelled"} =>
                               sessions'[s].status \in {"closed", "cancelled"} ]_vars

\* pay_partial and checkout_cash free the table with the bill they close: where
\* they alone close orders, no closed order sits on a seating that is open.
ClosedOrderFreesTable ==
  "close_order" \notin Ops =>
    \A o \in Orders : orders[o].status = "closed" =>
                         sessions[orders[o].session].status # "open"

\* _get_or_create_session_order: a request that waits for another one's INSERT on
\* the unique index is always released, and every request ends.
EveryRequestEnds == \A c \in Clients : req[c].phase # "idle" ~> req[c].phase = "idle"

(***************************************************************************)
(* The second group is what the handlers promise; it holds when requests   *)
(* do not overlap (one client) and the store's rules are sane.             *)
(***************************************************************************)

\* _guard_not_below_paid: a bill never drops below what was already collected.
NeverBelowPaid ==
  \A o \in Orders : orders[o].status = "open" => Due(o) >= orders[o].paid

\* A bill the till closed was collected to the cent, no more and no less
\* (where close_order, which takes no money, is not called).
SettledExactly ==
  "close_order" \notin Ops =>
    \A o \in Orders : orders[o].status = "closed" => orders[o].paid = Due(o)

\* _guard_order_open: lines, discounts, service charge and payments of an order
\* that was closed do not change any more.
SettledBillFrozen ==
  [][ \A o \in Orders : orders[o].status = "closed" =>
        /\ orders'[o] = [orders[o] EXCEPT !.status = orders'[o].status]
        /\ Charges(o)' = Charges(o) ]_vars

\* Stock ledger: the consumption of a line is reversed exactly once, by the void
\* of the line or of its order, and never for a line that was sold or moved.
StockReversedOnce ==
  \A l \in Lines :
    lines[l].reversals =
      (IF \/ lines[l].status = "removed"
          \/ lines[l].status = "live" /\ orders[lines[l].order].status = "voided"
         THEN 1 ELSE 0)

\* TableSessionStatus: a seating ends with its bill settled or dropped, so no
\* open order is left behind on a session that is closed or cancelled.
EndedSeatingHasNoOpenBill ==
  \A o \in Orders : orders[o].status = "open" => sessions[orders[o].session].status = "open"

\* The bill a customer sees, computed from the committed rows.
TheBills == [o \in Orders |->
               [state |-> orders[o].status,
                due   |-> IF orders[o].status = "voided" THEN 0 ELSE Due(o),
                paid  |-> orders[o].paid]]
Promise == INSTANCE Bill WITH Bills <- Orders, bill <- TheBills

\* Serial requests implement the till's promise about every bill: the code's
\* multi-statement handlers are steps of Bill or change no bill.
ImplementsBill == Promise!Spec
=============================================================================
