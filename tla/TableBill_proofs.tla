-------------------------- MODULE TableBill_proofs --------------------------
(***************************************************************************)
(* Theorems about TableBill, for any number of clients, tables, seatings,  *)
(* orders and lines, any prices, discounts and rules.                      *)
(***************************************************************************)
EXTENDS TableBill, Sums, TLAPS

-----------------------------------------------------------------------------
(***************************************************************************)
(* Lemmas about the request records and the automatic discount rows.       *)
(***************************************************************************)

\* The request of an idle client is a request.
LEMMA IdleType == Idle \in Request
  BY DEF Idle, Request, NoView, View, Phases, OrderStatus, Charge

\* The row of a rule is a discount row.
LEMMA AutoRowIsRow ==
  ASSUME ConstantsAssumption, NEW r \in Rules
  PROVE  AutoRow(r) \in Row
<1>1. r \in Rule
  BY DEF ConstantsAssumption
<1>2. /\ r.kind \in RatioKinds \cup FlatKinds /\ r.value \in Nat
      /\ r.kind \in RatioKinds => r.value <= 100
  BY <1>1 DEF Rule, InRange, RatioKinds, FlatKinds
<1> QED
  BY <1>2 DEF AutoRow, Row, InRange

\* Every sequence the automatic rules can append is a sequence of discount rows:
\* the rule that is applied is one of the store's.
LEMMA AutoRowsType ==
  ASSUME ConstantsAssumption, NEW v \in View, NEW auto \in AutoRows(v)
  PROVE  auto \in Seq(Row)
<1>1. CASE auto = <<>>
  BY <1>1
<1>2. CASE auto # <<>>
  <2>1. PICK R \in InForce :
          LET best == BestRules(R, Gross(v.charges))
          IN  auto \in IF best = {} THEN {<<>>} ELSE {<<AutoRow(r)>> : r \in best}
    BY <1>2 DEF AutoRows
  <2>2. PICK r \in BestRules(R, Gross(v.charges)) : auto = <<AutoRow(r)>>
    BY <1>2, <2>1
  <2> QED
    BY <2>2, AutoRowIsRow DEF BestRules, InForce
<1> QED
  BY <1>1, <1>2

\* The rows an order is saved with are orders.
LEMMA SavedType ==
  ASSUME TypeOK, NEW c \in Clients
  PROVE  Saved(c) \in [Orders -> Order]
<1>1. ASSUME NEW s \in Sessions \cup {None}
      PROVE  NewOrder(s) \in Order
  BY <1>1 DEF NewOrder, Order, OrderStatus
<1>2. req[c].session \in Sessions \cup {None}
  BY DEF TypeOK, Request
<1> QED
  BY <1>1, <1>2 DEF Saved, TypeOK

\* A request that is updated by a read is a request.
LEMMA ReadType ==
  ASSUME TypeOK, NEW c \in Clients, NEW phase, NEW fields \in Request,
         Read(c, phase, fields)
  PROVE  TypeOK'
  BY DEF TypeOK, Read

\* A call that starts with a request record keeps the types.
LEMMA BeginType ==
  ASSUME TypeOK, NEW c \in Clients, NEW op, NEW fields \in Request,
         Begin(c, op, fields)
  PROVE  TypeOK'
  BY DEF TypeOK, Begin

\* What a request holds of an order row is of the row's type.
LEMMA HoldingType ==
  ASSUME TypeOK, NEW c \in Clients, NEW o \in Orders, NEW phase \in Phases
  PROVE  Holding(c, o, phase) \in Request
<1>1. orders[o].status \in OrderStatus /\ orders[o].rate \in Nat
  BY DEF TypeOK, Order
<1>2. req[c] \in Request
  BY DEF TypeOK
<1> QED
  BY <1>1, <1>2 DEF Holding, Request

\* Every call keeps the types.
LEMMA CallType ==
  ASSUME ConstantsAssumption, TypeOK, NEW c \in Clients, Call(c)
  PROVE  TypeOK'
<1> USE IdleType DEF Request, Phases
<1>1. CASE CallOnBill(c)
  <2>1. PICK op \in BillOps \ {"merge_sessions"}, s \in Sessions :
          Begin(c, op, [Idle EXCEPT !.op = op, !.phase = "find", !.session = s])
    BY <1>1 DEF CallOnBill
  <2>2. [Idle EXCEPT !.op = op, !.phase = "find", !.session = s] \in Request
    BY DEF AllOps
  <2> QED
    BY <2>1, <2>2, BeginType
<1>2. CASE CallMerge(c)
  <2>1. PICK s, t \in Sessions :
          Begin(c, "merge_sessions", [Idle EXCEPT !.op = "merge_sessions", !.phase = "find",
                                                  !.session = s, !.source = t])
    BY <1>2 DEF CallMerge
  <2>2. [Idle EXCEPT !.op = "merge_sessions", !.phase = "find",
                     !.session = s, !.source = t] \in Request
    BY DEF AllOps, BillOps
  <2> QED
    BY <2>1, <2>2, BeginType
<1>3. CASE CallOnSession(c)
  <2>1. PICK op \in SeatOps, s \in Sessions :
          Begin(c, op, [Idle EXCEPT !.op = op, !.phase = "commit", !.session = s])
    BY <1>3 DEF CallOnSession
  <2>2. [Idle EXCEPT !.op = op, !.phase = "commit", !.session = s] \in Request
    BY DEF AllOps
  <2> QED
    BY <2>1, <2>2, BeginType
<1>4. CASE CallTransfer(c)
  <2>1. PICK s \in Sessions, t \in Tables :
          Begin(c, "transfer_session",
                [Idle EXCEPT !.op = "transfer_session", !.phase = "commit",
                             !.session = s, !.table = t])
    BY <1>4 DEF CallTransfer
  <2>2. [Idle EXCEPT !.op = "transfer_session", !.phase = "commit",
                     !.session = s, !.table = t] \in Request
    BY DEF AllOps
  <2> QED
    BY <2>1, <2>2, BeginType
<1>5. CASE CallOpen(c)
  <2>1. PICK t \in Tables :
          Begin(c, "open_session",
                [Idle EXCEPT !.op = "open_session", !.phase = "commit", !.table = t])
    BY <1>5 DEF CallOpen
  <2>2. [Idle EXCEPT !.op = "open_session", !.phase = "commit", !.table = t] \in Request
    BY DEF AllOps
  <2> QED
    BY <2>1, <2>2, BeginType
<1>6. CASE CallOnLine(c)
  <2>1. PICK op \in LineOps, l \in Lines :
          Begin(c, op, [Idle EXCEPT !.op = op, !.phase = "order", !.line = l,
                                    !.order = lines[l].order])
    BY <1>6 DEF CallOnLine
  <2>2. lines[l].order \in Orders \cup {None}
    BY DEF TypeOK, Line
  <2>3. [Idle EXCEPT !.op = op, !.phase = "order", !.line = l,
                     !.order = lines[l].order] \in Request
    BY <2>2 DEF AllOps
  <2> QED
    BY <2>1, <2>3, BeginType
<1>7. CASE CallOnOrder(c)
  <2>1. PICK op \in OrderOps, o \in Orders :
          Begin(c, op, [Idle EXCEPT !.op = op, !.phase = "load", !.order = o,
                                    !.status = orders[o].status, !.rate = orders[o].rate])
    BY <1>7 DEF CallOnOrder
  <2>2. orders[o].status \in OrderStatus /\ orders[o].rate \in Nat
    BY DEF TypeOK, Order
  <2>3. [Idle EXCEPT !.op = op, !.phase = "load", !.order = o,
                     !.status = orders[o].status, !.rate = orders[o].rate] \in Request
    BY <2>2 DEF AllOps
  <2> QED
    BY <2>1, <2>3, BeginType
<1> QED
  BY <1>1, <1>2, <1>3, <1>4, <1>5, <1>6, <1>7 DEF Call

-----------------------------------------------------------------------------
(***************************************************************************)
(* The inductive invariant.  KnownOrders: what a request or a live line     *)
(* points to exists.  SlotHeld: an uncommitted order occupies the unique    *)
(* index slot of its session, alone.                                       *)
(***************************************************************************)
ExistsIn(f, o) == o \in Orders /\ f[o].status # "none"
Exists(o) == ExistsIn(orders, o)

\* The requests past the point where they know their order.
HasOrder(c) ==
  \/ req[c].phase \in {"order", "load"}
  \/ req[c].phase = "commit" /\ req[c].op \in BillOps \cup LineOps \cup OrderOps

KnownOrders ==
  /\ \A l \in Lines : lines[l].status = "live" => Exists(lines[l].order)
  /\ \A c \in Clients :
       /\ HasOrder(c) => req[c].order \in Orders
       /\ req[c].phase \in {"find", "insert", "adopt"} => req[c].op \in BillOps
       /\ req[c].order # None /\ ~req[c].fresh => Exists(req[c].order)
       /\ req[c].from # None => Exists(req[c].from)

SlotHeld ==
  \A c \in Clients : req[c].fresh =>
    /\ req[c].phase \in {"load", "commit"} /\ req[c].op \in BillOps
    /\ req[c].order \in Orders /\ orders[req[c].order].status = "none"
    /\ OpenOrders(req[c].session) = {}
    /\ \A d \in Clients \ {c} :
         req[d].fresh => req[d].order # req[c].order /\ req[d].session # req[c].session

Inv == TypeOK /\ KnownOrders /\ SlotHeld /\ OneOpenOrder

\* Every later read keeps the types.
LEMMA ReadStepType ==
  ASSUME ConstantsAssumption, TypeOK, KnownOrders, NEW c \in Clients, ReadStep(c)
  PROVE  TypeOK'
<1>1. req[c] \in Request
  BY DEF TypeOK
<1>2. "load" \in Phases /\ "insert" \in Phases /\ "adopt" \in Phases /\ "commit" \in Phases
  BY DEF Phases
<1>3. CASE FindOrder(c)
  <2>1. CASE \E o \in OpenOrders(req[c].session) : Read(c, "find", Holding(c, o, "load"))
    BY <2>1, <1>2, HoldingType, ReadType DEF OpenOrders
  <2>2. CASE Read(c, "find", IF req[c].op = "checkout_cash" THEN Idle
                             ELSE [req[c] EXCEPT !.phase = "insert"])
    <3>1. [req[c] EXCEPT !.phase = "insert"] \in Request
      BY <1>1, <1>2 DEF Request
    <3> QED
      BY <2>2, <3>1, IdleType, ReadType
  <2> QED
    BY <1>3, <2>1, <2>2 DEF FindOrder
<1>4. CASE InsertOrder(c)
  <2>1. ASSUME NEW o \in Orders
        PROVE  [req[c] EXCEPT !.order = o, !.phase = "load", !.fresh = TRUE,
                              !.status = "open"] \in Request
    BY <1>1, <1>2 DEF Request, OrderStatus
  <2>2. [req[c] EXCEPT !.phase = "adopt"] \in Request
    BY <1>1, <1>2 DEF Request
  <2> QED
    BY <1>4, <2>1, <2>2, ReadType DEF InsertOrder
<1>5. CASE AdoptOrder(c)
  BY <1>5, <1>2, HoldingType, IdleType, ReadType DEF AdoptOrder, OpenOrders
<1>6. CASE ReadLineOrder(c)
  <2>1. req[c].order \in Orders
    BY <1>6 DEF ReadLineOrder, Read, KnownOrders, HasOrder
  <2> QED
    BY <1>6, <2>1, <1>2, HoldingType, IdleType, ReadType DEF ReadLineOrder
<1>7. CASE LoadOrder(c)
  <2> DEFINE o == req[c].order
             loaded == [req[c] EXCEPT !.phase = "commit",
                          !.view = [rows |-> orders[o].rows, paid |-> orders[o].paid,
                                    charges |-> Charges(o)]]
  <2>1. o \in Orders
    BY <1>7 DEF LoadOrder, Read, KnownOrders, HasOrder
  <2>2. [rows |-> orders[o].rows, paid |-> orders[o].paid, charges |-> Charges(o)] \in View
    BY <2>1 DEF TypeOK, Order, Line, View, Charge, Charges, LiveLines
  <2>3. loaded \in Request
    BY <1>1, <1>2, <2>2 DEF Request
  <2>4. ASSUME NEW p \in OpenOrders(req[c].source)
        PROVE  [loaded EXCEPT !.from = p, !.moved = LiveLines(p),
                              !.held = orders[p].paid] \in Request
    BY <1>1, <1>2, <2>2 DEF Request, OpenOrders, LiveLines, TypeOK, Order
  <2> QED
    BY <1>7, <2>3, <2>4, ReadType DEF LoadOrder
<1> QED
  BY <1>3, <1>4, <1>5, <1>6, <1>7 DEF ReadStep

\* The request variable after a commit or a rollback.
LEMMA DoneType ==
  ASSUME TypeOK, NEW c \in Clients
  PROVE  [req EXCEPT ![c] = Idle] \in [Clients -> Request]
  BY IdleType DEF TypeOK

\* A write to one field of an order row keeps the orders' type.
LEMMA OrderWriteType ==
  ASSUME NEW f \in [Orders -> Order], NEW o
  PROVE  /\ \A status \in OrderStatus : [f EXCEPT ![o].status = status] \in [Orders -> Order]
         /\ \A rate \in Nat : [f EXCEPT ![o].rate = rate] \in [Orders -> Order]
         /\ \A rows \in Seq(Row) : [f EXCEPT ![o].rows = @ \o rows] \in [Orders -> Order]
         /\ \A paid \in Nat : [f EXCEPT ![o].paid = @ + paid] \in [Orders -> Order]
<1>1. \A p \in Orders, rows \in Seq(Row) : f[p].rows \o rows \in Seq(Row)
  BY DEF Order
<1>2. \A p \in Orders, paid \in Nat : f[p].paid + paid \in Nat
  BY DEF Order
<1>3. \A status \in OrderStatus : [f EXCEPT ![o].status = status] \in [Orders -> Order]
  BY DEF Order
<1>4. \A rate \in Nat : [f EXCEPT ![o].rate = rate] \in [Orders -> Order]
  BY DEF Order
<1>5. \A rows \in Seq(Row) : [f EXCEPT ![o].rows = @ \o rows] \in [Orders -> Order]
  BY <1>1 DEF Order
<1>6. \A paid \in Nat : [f EXCEPT ![o].paid = @ + paid] \in [Orders -> Order]
  BY <1>2 DEF Order
<1> QED
  BY <1>3, <1>4, <1>5, <1>6

\* A payment keeps the types of the rows it writes.
LEMMA PayType ==
  ASSUME TypeOK, NEW c \in Clients, NEW auto \in Seq(Row), NEW amount \in Nat,
         NEW closes \in BOOLEAN, Pay(c, auto, amount, closes)
  PROVE  orders' \in [Orders -> Order] /\ sessions' \in [Sessions -> Session] /\ lines' = lines
<1> DEFINE o == req[c].order
           f == [orders EXCEPT ![o].rows = @ \o auto]
           g == [f EXCEPT ![o].paid = @ + amount]
<1>1. orders \in [Orders -> Order]
  BY DEF TypeOK
<1>2. f \in [Orders -> Order]
  BY <1>1, OrderWriteType
<1>3. g \in [Orders -> Order]
  BY <1>2, OrderWriteType
<1>4. CASE closes
  <2>1. orders' = [g EXCEPT ![o].status = "closed"]
    BY <1>1, <1>4 DEF Pay
  <2>2. orders' \in [Orders -> Order]
    BY <1>3, <2>1, OrderWriteType DEF OrderStatus
  <2> QED
    BY <1>4, <2>2 DEF Pay, TypeOK, Session, SessionStatus
<1>5. CASE ~closes
  <2>1. orders' = g
    BY <1>1, <1>5 DEF Pay, Order
  <2> QED
    BY <1>3, <1>5, <2>1 DEF Pay, TypeOK
<1> QED
  BY <1>4, <1>5

\* Every commit keeps the types.
LEMMA WriteType ==
  ASSUME ConstantsAssumption, TypeOK, KnownOrders, NEW c \in Clients, Write(c)
  PROVE  TypeOK'
<1>a. req[c] \in Request
  BY DEF TypeOK
<1>b. \A op : Commit(c, op) => req' \in [Clients -> Request]
  BY DoneType DEF Commit
<1>c. req[c].view \in View /\ Seen(c) \subseteq Lines
  BY <1>a DEF Request, View, Charge, Seen
<1>1. CASE OpenSession(c) \/ CloseSession(c) \/ CancelSession(c) \/ TransferSession(c)
  <2>1. sessions' \in [Sessions -> Session]
    <3>1. sessions \in [Sessions -> Session] /\ req[c].table \in Tables \cup {None}
      BY <1>a DEF TypeOK, Request
    <3>2. \A s \in Sessions : sessions[s].table \in Tables \cup {None}
      BY <3>1 DEF Session
    <3>3. CASE OpenSession(c)
      BY <3>1, <3>3 DEF OpenSession, Session, SessionStatus
    <3>4. CASE CloseSession(c) \/ CancelSession(c)
      BY <3>1, <3>2, <3>4 DEF CloseSession, CancelSession, Session, SessionStatus
    <3>5. CASE TransferSession(c)
      BY <3>1, <3>5 DEF TransferSession, Session
    <3> QED
      BY <1>1, <3>3, <3>4, <3>5
  <2> QED
    BY <1>1, <1>b, <2>1 DEF OpenSession, CloseSession, CancelSession, TransferSession, TypeOK
<1>2. CASE AddLine(c)
  <2>1. req[c].order \in Orders
    BY <1>2 DEF AddLine, Commit, KnownOrders, HasOrder, BillOps
  <2>2. \A total \in Amounts, parent \in Lines \cup {None}, n \in {0} :
          /\ NewLine(req[c].order, parent, total) \in Line
          /\ NewLine(req[c].order, parent, n) \in Line
    BY <2>1 DEF NewLine, Line, LineStatus, ConstantsAssumption
  <2>3. lines' \in [Lines -> Line]
    BY <1>2, <2>2 DEF AddLine, TypeOK
  <2> QED
    BY <1>2, <1>b, <2>3, SavedType DEF AddLine, TypeOK
<1>3. CASE UpdateLineQty(c)
  <2>0. Commit(c, "update_line_qty") /\ sessions' = sessions /\ orders' = orders
    BY <1>3 DEF UpdateLineQty
  <2>2. PICK total \in Nat : lines' = [lines EXCEPT ![req[c].line].total = total]
    BY <1>3 DEF UpdateLineQty, ConstantsAssumption
  <2>1. lines' \in [Lines -> Line]
    BY <2>2 DEF TypeOK, Line
  <2> QED
    BY <1>b, <2>0, <2>1 DEF TypeOK
<1>4. CASE VoidLine(c)
  <2>0. Commit(c, "void_line") /\ sessions' = sessions /\ orders' = orders
    BY <1>4 DEF VoidLine
  <2>2. PICK gone : lines' = [l \in Lines |->
                      IF l \in gone
                        THEN [lines[l] EXCEPT !.status = "removed", !.reversals = @ + 1]
                        ELSE lines[l]]
    BY <1>4 DEF VoidLine, Removed
  <2>1. lines' \in [Lines -> Line]
    <3>1. ASSUME NEW x \in Line
          PROVE  [x EXCEPT !.status = "removed", !.reversals = @ + 1] \in Line
      <4>1. x.reversals + 1 \in Nat
        BY <3>1 DEF Line
      <4>2. ASSUME NEW n \in Nat
            PROVE  [x EXCEPT !.status = "removed", !.reversals = n] \in Line
        BY <3>1, <4>2 DEF Line, LineStatus
      <4> QED
        BY <4>1, <4>2
    <3> QED
      BY <2>2, <3>1 DEF TypeOK
  <2> QED
    BY <1>b, <2>0, <2>1 DEF TypeOK
<1>5. CASE ApplyDiscount(c)
  <2>0. Commit(c, "apply_discount") /\ sessions' = sessions /\ lines' = lines
    BY <1>5 DEF ApplyDiscount
  <2>1. \A row \in Discounts : row \in Row
    BY DEF ConstantsAssumption
  <2>3. PICK row \in Row :
          orders' = [orders EXCEPT ![req[c].order].rows = Append(@, row)]
    BY <1>5, <2>1 DEF ApplyDiscount
  <2>4. \A o \in Orders : Append(orders[o].rows, row) \in Seq(Row)
    BY DEF TypeOK, Order
  <2>2. orders' \in [Orders -> Order]
    BY <2>3, <2>4 DEF TypeOK, Order
  <2> QED
    BY <1>b, <2>0, <2>2 DEF TypeOK
<1>6. CASE SetServiceCharge(c)
  <2>0. Commit(c, "set_service_charge") /\ sessions' = sessions /\ lines' = lines
    BY <1>6 DEF SetServiceCharge
  <2>2. PICK rate \in Nat : orders' = [Saved(c) EXCEPT ![req[c].order].rate = rate]
    BY <1>6 DEF SetServiceCharge, ConstantsAssumption
  <2>1. orders' \in [Orders -> Order]
    BY <2>2, SavedType, OrderWriteType
  <2> QED
    BY <1>b, <2>0, <2>1 DEF TypeOK
<1>7. CASE Quote(c)
  <2>0. Commit(c, "quote") /\ sessions' = sessions /\ lines' = lines
    BY <1>7 DEF Quote
  <2>1. PICK auto \in AutoRows(req[c].view) :
          orders' = [Saved(c) EXCEPT ![req[c].order].rows = @ \o auto]
    BY <1>7 DEF Quote
  <2>2. auto \in Seq(Row)
    BY <1>c, AutoRowsType
  <2>3. orders' \in [Orders -> Order]
    BY <2>1, <2>2, SavedType, OrderWriteType
  <2> QED
    BY <1>b, <2>0, <2>3 DEF TypeOK
<1>8. \A auto \in AutoRows(req[c].view) : auto \in Seq(Row)
  BY <1>c, AutoRowsType
<1>9. CASE PayPartial(c)
  <2>1. \A amount \in Shares : amount \in Nat
    BY DEF ConstantsAssumption
  <2>2. PICK auto \in AutoRows(req[c].view), amount \in Shares :
          Pay(c, auto, amount, amount = Remaining(c, auto))
    BY <1>9 DEF PayPartial
  <2> QED
    BY <1>8, <1>9, <1>b, <2>1, <2>2, PayType DEF PayPartial, TypeOK
<1>10. CASE CheckoutCash(c)
  <2>1. PICK auto \in AutoRows(req[c].view) :
          /\ Remaining(c, auto) \in Nat
          /\ Pay(c, auto, Remaining(c, auto), TRUE)
    BY <1>10 DEF CheckoutCash
  <2> QED
    BY <1>8, <1>10, <1>b, <2>1, PayType DEF CheckoutCash, TypeOK
<1>11. CASE MergeSessions(c)
  <2>1. req[c].order \in Orders
    BY <1>11 DEF MergeSessions, Commit, KnownOrders, HasOrder, BillOps
  <2>2. lines' \in [Lines -> Line]
    BY <1>11, <2>1 DEF MergeSessions, TypeOK, Line
  <2>3. orders' \in [Orders -> Order]
    <3>1. orders' = Saved(c) \/ orders' = [Saved(c) EXCEPT ![req[c].from].status = "voided"]
      BY <1>11 DEF MergeSessions
    <3>2. "voided" \in OrderStatus
      BY DEF OrderStatus
    <3>3. [Saved(c) EXCEPT ![req[c].from].status = "voided"] \in [Orders -> Order]
      BY <3>2, SavedType, OrderWriteType
    <3> QED
      BY <3>1, <3>3, SavedType
  <2>4. sessions' \in [Sessions -> Session]
    BY <1>11 DEF MergeSessions, TypeOK, Session, SessionStatus
  <2> QED
    BY <1>11, <1>b, <2>2, <2>3, <2>4 DEF MergeSessions, TypeOK
<1>12. CASE CloseOrder(c)
  <2>0. Commit(c, "close_order") /\ sessions' = sessions /\ lines' = lines
    BY <1>12 DEF CloseOrder
  <2>1. orders' \in [Orders -> Order]
    <3>1. orders' = [orders EXCEPT ![req[c].order].status = "closed"]
      BY <1>12 DEF CloseOrder
    <3> QED
      BY <3>1, OrderWriteType DEF TypeOK, OrderStatus
  <2> QED
    BY <1>b, <2>0, <2>1 DEF TypeOK
<1>13. CASE VoidOrder(c)
  <2>0. Commit(c, "void_order") /\ sessions' = sessions
    BY <1>13 DEF VoidOrder
  <2>1. orders' \in [Orders -> Order]
    <3>1. orders' = [orders EXCEPT ![req[c].order].status = "voided"]
      BY <1>13 DEF VoidOrder
    <3> QED
      BY <3>1, OrderWriteType DEF TypeOK, OrderStatus
  <2>2. lines' \in [Lines -> Line]
    BY <1>13 DEF VoidOrder, TypeOK, Line
  <2> QED
    BY <1>b, <2>0, <2>1, <2>2 DEF TypeOK
<1>14. CASE GetSessionOrder(c)
  <2>0. Commit(c, "get_session_order") /\ sessions' = sessions /\ lines' = lines
    BY <1>14 DEF GetSessionOrder
  <2>1. orders' \in [Orders -> Order]
    BY <1>14, SavedType DEF GetSessionOrder
  <2> QED
    BY <1>b, <2>0, <2>1 DEF TypeOK
<1> QED
  BY <1>1, <1>2, <1>3, <1>4, <1>5, <1>6, <1>7, <1>9, <1>10, <1>11, <1>12, <1>13, <1>14 DEF Write

-----------------------------------------------------------------------------
(***************************************************************************)
(* What one commit does to the statuses of orders: only the request's own  *)
(* INSERT makes an order exist or be open, and no order ceases to exist.   *)
(***************************************************************************)
StatusStepTo(c, f) ==
  \A o \in Orders :
    /\ f[o].status = "open" =>
         \/ orders[o].status = "open" /\ f[o].session = orders[o].session
         \/ req[c].fresh /\ o = req[c].order /\ f[o].session = req[c].session
    /\ orders[o].status # "none" => f[o].status # "none"
    /\ orders[o].status = "none" /\ f[o].status # "none" =>
         req[c].fresh /\ o = req[c].order

\* The rows an order is saved with make no other order exist or be open.
LEMMA SavedStatus ==
  ASSUME TypeOK, SlotHeld, NEW c \in Clients
  PROVE  StatusStepTo(c, Saved(c)) /\ StatusStepTo(c, orders)
<1>1. StatusStepTo(c, orders)
  BY DEF StatusStepTo
<1>2. CASE ~req[c].fresh
  BY <1>1, <1>2 DEF Saved
<1>3. CASE req[c].fresh
  <2>1. /\ \A o \in Orders : o # req[c].order => Saved(c)[o] = orders[o]
        /\ Saved(c)[req[c].order] = NewOrder(req[c].session)
    BY <1>3 DEF Saved, TypeOK, SlotHeld
  <2> QED
    BY <1>1, <1>3, <2>1 DEF StatusStepTo, NewOrder, SlotHeld
<1> QED
  BY <1>1, <1>2, <1>3

\* A field other than status and session may be written freely; a status other
\* than open and none may be written on a row that exists or is the request's own.
LEMMA StatusWrite ==
  ASSUME TypeOK, NEW c \in Clients, NEW f \in [Orders -> Order], StatusStepTo(c, f), NEW p
  PROVE  /\ \A rate : StatusStepTo(c, [f EXCEPT ![p].rate = rate])
         /\ \A rows : StatusStepTo(c, [f EXCEPT ![p].rows = rows])
         /\ \A paid : StatusStepTo(c, [f EXCEPT ![p].paid = paid])
         /\ \A status \in {"closed", "voided"} :
              Exists(p) \/ (req[c].fresh /\ p = req[c].order)
                => StatusStepTo(c, [f EXCEPT ![p].status = status])
  BY DEF StatusStepTo, Order, Exists, ExistsIn

\* The order that a line, order or bill request writes exists or is its own.
LEMMA OrderKnown ==
  ASSUME ConstantsAssumption, KnownOrders, NEW c \in Clients, HasOrder(c)
  PROVE  /\ req[c].order \in Orders
         /\ Exists(req[c].order) \/ req[c].fresh
  BY DEF ConstantsAssumption, KnownOrders

LEMMA WriteStatus ==
  ASSUME ConstantsAssumption, TypeOK, KnownOrders, SlotHeld, NEW c \in Clients, Write(c)
  PROVE  StatusStepTo(c, orders')
<1> DEFINE o == req[c].order
<1>1. StatusStepTo(c, Saved(c)) /\ StatusStepTo(c, orders)
  BY SavedStatus
<1>2. orders \in [Orders -> Order] /\ Saved(c) \in [Orders -> Order]
  BY SavedType DEF TypeOK
<1>3. ASSUME orders' = orders \/ orders' = Saved(c)
      PROVE  StatusStepTo(c, orders')
  BY <1>1, <1>3
<1>4. CASE \/ OpenSession(c) \/ CloseSession(c) \/ CancelSession(c) \/ TransferSession(c)
           \/ AddLine(c) \/ UpdateLineQty(c) \/ VoidLine(c) \/ GetSessionOrder(c)
  BY <1>3, <1>4 DEF OpenSession, CloseSession, CancelSession, TransferSession,
                    AddLine, UpdateLineQty, VoidLine, GetSessionOrder
<1>5. CASE ApplyDiscount(c)
  <2>1. PICK rows : orders' = [orders EXCEPT ![o].rows = rows]
    BY <1>5 DEF ApplyDiscount
  <2> QED
    BY <1>1, <1>2, <2>1, StatusWrite
<1>6. CASE SetServiceCharge(c)
  <2>1. PICK rate : orders' = [Saved(c) EXCEPT ![o].rate = rate]
    BY <1>6 DEF SetServiceCharge
  <2> QED
    BY <1>1, <1>2, <2>1, StatusWrite
<1>7. CASE Quote(c)
  <2>1. PICK rows : orders' = [Saved(c) EXCEPT ![o].rows = rows]
    BY <1>7 DEF Quote
  <2> QED
    BY <1>1, <1>2, <2>1, StatusWrite
<1>8. CASE PayPartial(c) \/ CheckoutCash(c)
  <2>1. HasOrder(c)
    BY <1>8 DEF PayPartial, CheckoutCash, Commit, HasOrder, BillOps
  <2>2. o \in Orders /\ (Exists(o) \/ req[c].fresh)
    BY <2>1, OrderKnown
  <2>3. PICK rows, paid, status :
          /\ orders' = [orders EXCEPT ![o].rows = rows, ![o].paid = paid, ![o].status = status]
          /\ status = "closed" \/ status = orders[o].status
    BY <1>8 DEF PayPartial, CheckoutCash, Pay
  <2>4. /\ \A q \in Orders : q # o => orders'[q] = orders[q]
        /\ orders'[o].status = status /\ orders'[o].session = orders[o].session
    BY <1>2, <2>2, <2>3 DEF Order
  <2> QED
    <3>1. \A q \in Orders : q # o => orders'[q] = orders[q]
      BY <2>4
    <3>2. orders[o].status # "none" => status # "none"
      BY <2>3
    <3>3. orders[o].status = "none" => req[c].fresh
      BY <2>2 DEF Exists, ExistsIn
    <3>4. status = "open" => orders[o].status = "open"
      BY <2>3
    <3> QED
      BY <2>2, <2>4, <3>1, <3>2, <3>3, <3>4 DEF StatusStepTo
<1>9. CASE MergeSessions(c)
  <2>1. CASE req[c].from = None
    BY <1>3, <1>9, <2>1 DEF MergeSessions
  <2>2. CASE req[c].from # None
    <3>1. orders' = [Saved(c) EXCEPT ![req[c].from].status = "voided"]
      BY <1>9, <2>2 DEF MergeSessions
    <3>2. Exists(req[c].from)
      BY <2>2 DEF KnownOrders
    <3> QED
      BY <1>1, <1>2, <3>1, <3>2, StatusWrite
  <2> QED
    BY <2>1, <2>2
<1>10. CASE CloseOrder(c) \/ VoidOrder(c)
  <2>1. HasOrder(c)
    BY <1>10 DEF CloseOrder, VoidOrder, Commit, HasOrder, OrderOps
  <2>2. Exists(o) \/ req[c].fresh
    BY <2>1, OrderKnown
  <2>3. PICK status \in {"closed", "voided"} : orders' = [orders EXCEPT ![o].status = status]
    BY <1>10 DEF CloseOrder, VoidOrder
  <2> QED
    BY <1>1, <1>2, <2>2, <2>3, StatusWrite
<1> QED
  BY <1>4, <1>5, <1>6, <1>7, <1>8, <1>9, <1>10 DEF Write

\* A commit ends its request and no other.
LEMMA WriteEnds ==
  ASSUME NEW c \in Clients, Write(c)
  PROVE  req' = [req EXCEPT ![c] = Idle]
  BY DEF Write, Commit, OpenSession, CloseSession, CancelSession, TransferSession, AddLine,
         UpdateLineQty, VoidLine, ApplyDiscount, SetServiceCharge, GetSessionOrder, Quote,
         PayPartial, CheckoutCash, MergeSessions, CloseOrder, VoidOrder

\* A commit leaves every live line on an order that exists.
LEMMA WriteLines ==
  ASSUME ConstantsAssumption, TypeOK, KnownOrders, SlotHeld, NEW c \in Clients, Write(c),
         NEW l \in Lines, lines'[l].status = "live"
  PROVE  ExistsIn(orders', lines'[l].order)
<1>1. ASSUME NEW p, Exists(p)
      PROVE  ExistsIn(orders', p)
  BY <1>1, WriteStatus DEF Exists, ExistsIn, StatusStepTo
<1>2. CASE lines[l].status = "live" /\ lines'[l].order = lines[l].order
  BY <1>1, <1>2 DEF KnownOrders
<1>3. CASE AddLine(c) \/ MergeSessions(c)
  <2>1. HasOrder(c)
    BY <1>3 DEF AddLine, MergeSessions, Commit, HasOrder, BillOps
  <2>2. req[c].order \in Orders /\ (Exists(req[c].order) \/ req[c].fresh)
    BY <2>1, OrderKnown
  <2>3. req[c].fresh => orders'[req[c].order].status # "none"
    <3>1. req[c].fresh => Saved(c)[req[c].order].status = "open"
      BY <2>2 DEF Saved, NewOrder, TypeOK
    <3>2. Saved(c) \in [Orders -> Order]
      BY SavedType
    <3>3. orders' = Saved(c) \/ orders' = [Saved(c) EXCEPT ![req[c].from].status = "voided"]
      BY <1>3 DEF AddLine, MergeSessions
    <3> QED
      BY <2>2, <3>1, <3>2, <3>3 DEF Order
  <2>4. ExistsIn(orders', req[c].order)
    BY <1>1, <2>2, <2>3 DEF Exists, ExistsIn
  <2>5. \/ lines'[l].order = req[c].order
        \/ lines[l].status = "live" /\ lines'[l].order = lines[l].order
    BY <1>3 DEF AddLine, MergeSessions, NewLine, TypeOK, Line
  <2> QED
    BY <1>2, <2>4, <2>5
<1>4. CASE UpdateLineQty(c)
  <2>1. PICK total : lines' = [lines EXCEPT ![req[c].line].total = total]
    BY <1>4 DEF UpdateLineQty
  <2>2. lines[l].status = "live" /\ lines'[l].order = lines[l].order
    BY <2>1 DEF TypeOK, Line
  <2> QED
    BY <1>2, <2>2
<1>5. CASE VoidLine(c)
  <2>1. PICK gone : lines' = [x \in Lines |->
                      IF x \in gone
                        THEN [lines[x] EXCEPT !.status = "removed", !.reversals = @ + 1]
                        ELSE lines[x]]
    BY <1>5 DEF VoidLine, Removed
  <2>2. lines[l] \in Line
    BY DEF TypeOK
  <2>3. l \notin gone
    BY <2>1, <2>2 DEF Line
  <2> QED
    BY <1>2, <2>1, <2>3
<1>6. CASE VoidOrder(c)
  <2>1. lines'[l] = lines[l] \/ lines'[l] = [lines[l] EXCEPT !.reversals = @ + 1]
    BY <1>6 DEF VoidOrder
  <2>2. lines[l] \in Line
    BY DEF TypeOK
  <2>3. lines[l].status = "live" /\ lines'[l].order = lines[l].order
    BY <2>1, <2>2 DEF Line
  <2> QED
    BY <1>2, <2>3
<1>7. ASSUME lines' = lines
      PROVE  ExistsIn(orders', lines'[l].order)
  BY <1>2, <1>7
<1> QED
  BY <1>3, <1>4, <1>5, <1>6, <1>7 DEF Write, OpenSession, CloseSession, CancelSession,
     TransferSession, ApplyDiscount, SetServiceCharge, GetSessionOrder, Quote, PayPartial,
     CheckoutCash, Pay, CloseOrder

\* Every commit keeps the inductive invariant.
LEMMA WriteInv ==
  ASSUME ConstantsAssumption, Inv, NEW c \in Clients, Write(c)
  PROVE  Inv'
<1>1. TypeOK /\ KnownOrders /\ SlotHeld /\ OneOpenOrder
  BY DEF Inv
<1>2. TypeOK'
  BY <1>1, WriteType
<1>3. StatusStepTo(c, orders')
  BY <1>1, WriteStatus
<1>4. req'[c] = Idle /\ \A d \in Clients \ {c} : req'[d] = req[d]
  BY <1>1, WriteEnds DEF TypeOK
<1>5. Idle.order = None /\ Idle.from = None /\ ~Idle.fresh /\ Idle.phase = "idle"
  BY DEF Idle
<1>6. KnownOrders'
  <2>1. \A l \in Lines : lines'[l].status = "live" => ExistsIn(orders', lines'[l].order)
    BY <1>1, WriteLines
  <2>2. \A p : Exists(p) => ExistsIn(orders', p)
    BY <1>3 DEF Exists, ExistsIn, StatusStepTo
  <2> QED
    BY <1>1, <1>4, <1>5, <2>1, <2>2 DEF KnownOrders, HasOrder, Exists
<1>7. SlotHeld'
  <2> SUFFICES ASSUME NEW d \in Clients, req'[d].fresh
               PROVE  /\ req'[d].phase \in {"load", "commit"} /\ req'[d].op \in BillOps
                      /\ req'[d].order \in Orders /\ orders'[req'[d].order].status = "none"
                      /\ OpenOrders(req[d].session)' = {}
                      /\ \A e \in Clients \ {d} : req'[e].fresh =>
                           req'[e].order # req'[d].order /\ req'[e].session # req'[d].session
    BY DEF SlotHeld
  <2>1. d # c /\ req'[d] = req[d] /\ req[d].fresh
    BY <1>4, <1>5
  <2>2. orders'[req[d].order].status = "none"
    BY <1>1, <1>3, <2>1 DEF StatusStepTo, SlotHeld
  <2>3. OpenOrders(req[d].session)' = {}
    BY <1>1, <1>3, <2>1 DEF StatusStepTo, SlotHeld, OpenOrders
  <2> QED
    BY <1>1, <1>4, <1>5, <2>1, <2>2, <2>3 DEF SlotHeld
<1>8. OneOpenOrder'
  BY <1>1, <1>3 DEF OneOpenOrder, SlotHeld, StatusStepTo, OpenOrders
<1> QED
  BY <1>2, <1>6, <1>7, <1>8 DEF Inv

-----------------------------------------------------------------------------
(***************************************************************************)
(* Reads and rollbacks change one request only.  It keeps the invariant if *)
(* the new request points to existing rows and takes no slot.              *)
(***************************************************************************)
Harmless(c, r) ==
  /\ r \in Request
  /\ r.fresh => /\ req[c].fresh /\ r.phase \in {"load", "commit"}
                /\ r.order = req[c].order /\ r.session = req[c].session /\ r.op = req[c].op
  /\ \/ r.phase \in {"order", "load"}
     \/ r.phase = "commit" /\ r.op \in BillOps \cup LineOps \cup OrderOps
     => r.order \in Orders
  /\ r.phase \in {"find", "insert", "adopt"} => r.op \in BillOps
  /\ r.order # None /\ ~r.fresh => Exists(r.order)
  /\ r.from # None => Exists(r.from)

\* A request that only moves on to such a record keeps the inductive invariant.
LEMMA HarmlessInv ==
  ASSUME Inv, NEW c \in Clients, NEW r, Harmless(c, r),
         req' = [req EXCEPT ![c] = r], UNCHANGED <<sessions, orders, lines>>
  PROVE  Inv'
<1>1. TypeOK'
  BY DEF Inv, TypeOK, Harmless
<1>2. req'[c] = r /\ \A d \in Clients \ {c} : req'[d] = req[d]
  BY DEF Inv, TypeOK
<1>3. KnownOrders'
  BY <1>2 DEF Inv, KnownOrders, HasOrder, Harmless, Exists, ExistsIn
<1>4. r.fresh => r.order = req[c].order /\ r.session = req[c].session /\ r.op = req[c].op
  BY DEF Harmless
<1>5. SlotHeld'
  BY <1>2, <1>4 DEF Inv, SlotHeld, Harmless, OpenOrders
<1>6. OneOpenOrder'
  BY DEF Inv, OneOpenOrder
<1> QED
  BY <1>1, <1>3, <1>5, <1>6 DEF Inv

\* Dropping the request, as a refusal or a rollback does, claims nothing.
LEMMA IdleHarmless ==
  ASSUME NEW c \in Clients
  PROVE  Harmless(c, Idle)
  BY IdleType DEF Harmless, Idle

\* Every call keeps the inductive invariant.
LEMMA CallInv ==
  ASSUME ConstantsAssumption, Inv, NEW c \in Clients, Call(c)
  PROVE  Inv'
<1>1. TypeOK /\ KnownOrders /\ TypeOK'
  BY CallType DEF Inv
<1>2. PICK op, r : Begin(c, op, r)
  BY DEF Call, CallOnBill, CallMerge, CallOnSession, CallTransfer, CallOpen, CallOnLine,
         CallOnOrder
<1>3. req' = [req EXCEPT ![c] = r] /\ UNCHANGED <<sessions, orders, lines>>
  BY <1>2 DEF Begin
<1>4. r = req'[c] /\ r \in Request
  BY <1>1, <1>3 DEF TypeOK
<1>5. ASSUME Harmless(c, r)
      PROVE  Inv'
  BY <1>3, <1>5, HarmlessInv
<1>6. ASSUME r.phase = "find", r.op \in BillOps, ~r.fresh, r.order = None, r.from = None
      PROVE  Inv'
  BY <1>4, <1>5, <1>6 DEF Harmless
<1>7. ASSUME r.phase = "commit", ~r.fresh, r.order = None, r.from = None,
             r.op \in SeatOps \cup {"transfer_session", "open_session"}
      PROVE  Inv'
  <2>1. r.op \notin BillOps \cup LineOps \cup OrderOps
    BY <1>7 DEF SeatOps, BillOps, LineOps, OrderOps
  <2> QED
    BY <1>4, <1>5, <1>7, <2>1 DEF Harmless
<1>10. CASE CallOnBill(c)
  <2>1. PICK op1 \in BillOps, s \in Sessions :
          r = [Idle EXCEPT !.op = op1, !.phase = "find", !.session = s]
    BY <1>1, <1>4, <1>10 DEF CallOnBill, Begin, TypeOK
  <2> QED
    BY <1>6, <2>1 DEF Idle
<1>11. CASE CallMerge(c)
  <2>1. PICK s, t \in Sessions :
          r = [Idle EXCEPT !.op = "merge_sessions", !.phase = "find",
                           !.session = s, !.source = t]
    BY <1>1, <1>4, <1>11 DEF CallMerge, Begin, TypeOK
  <2> QED
    BY <1>6, <2>1 DEF Idle, BillOps
<1>12. CASE CallOnSession(c)
  <2>1. PICK op1 \in SeatOps, s \in Sessions :
          r = [Idle EXCEPT !.op = op1, !.phase = "commit", !.session = s]
    BY <1>1, <1>4, <1>12 DEF CallOnSession, Begin, TypeOK
  <2> QED
    BY <1>7, <2>1 DEF Idle
<1>13. CASE CallTransfer(c)
  <2>1. PICK s \in Sessions, t \in Tables :
          r = [Idle EXCEPT !.op = "transfer_session", !.phase = "commit",
                           !.session = s, !.table = t]
    BY <1>1, <1>4, <1>13 DEF CallTransfer, Begin, TypeOK
  <2> QED
    BY <1>7, <2>1 DEF Idle
<1>14. CASE CallOpen(c)
  <2>1. PICK t \in Tables :
          r = [Idle EXCEPT !.op = "open_session", !.phase = "commit", !.table = t]
    BY <1>1, <1>4, <1>14 DEF CallOpen, Begin, TypeOK
  <2> QED
    BY <1>7, <2>1 DEF Idle
<1>8. CASE CallOnLine(c)
  <2>1. PICK l \in Lines : /\ lines[l].status = "live"
                           /\ r.phase = "order" /\ r.order = lines[l].order
                           /\ ~r.fresh /\ r.from = None
    BY <1>1, <1>4, <1>8 DEF CallOnLine, Begin, Idle, TypeOK
  <2> QED
    BY <1>1, <1>4, <1>5, <2>1 DEF Harmless, KnownOrders, Exists, ExistsIn
<1>9. CASE CallOnOrder(c)
  <2>1. PICK op1 \in OrderOps, o \in Orders :
          /\ orders[o].status \in (IF op1 = "close_order" THEN {"open"} ELSE {"open", "closed"})
          /\ r.phase = "load" /\ r.order = o /\ ~r.fresh /\ r.from = None
    BY <1>1, <1>4, <1>9 DEF CallOnOrder, Begin, Idle, TypeOK
  <2>2. Exists(o)
    BY <2>1 DEF Exists, ExistsIn
  <2> QED
    BY <1>4, <1>5, <2>1, <2>2 DEF Harmless
<1> QED
  BY <1>8, <1>9, <1>10, <1>11, <1>12, <1>13, <1>14 DEF Call

\* The INSERT of a request takes a slot that no committed order and no other
\* uncommitted one holds.
LEMMA InsertInv ==
  ASSUME ConstantsAssumption, Inv, NEW c \in Clients, InsertOrder(c)
  PROVE  Inv'
<1>1. TypeOK /\ KnownOrders /\ SlotHeld /\ OneOpenOrder
  BY DEF Inv
<1>2. TypeOK'
  BY <1>1, ReadStepType DEF ReadStep
<1>3. req[c].phase = "insert" /\ UNCHANGED <<sessions, orders, lines>>
  BY DEF InsertOrder, Read
<1>4. req[c].op \in BillOps /\ ~req[c].fresh
  BY <1>1, <1>3 DEF KnownOrders, SlotHeld
<1>5. CASE req' = [req EXCEPT ![c] = [req[c] EXCEPT !.phase = "adopt"]]
  <2>1. [req[c] EXCEPT !.phase = "adopt"] \in Request
    BY <1>1 DEF TypeOK, Request, Phases
  <2>2. Harmless(c, [req[c] EXCEPT !.phase = "adopt"])
    BY <1>1, <1>4, <2>1 DEF Harmless, KnownOrders, TypeOK, Request
  <2> QED
    BY <1>3, <1>5, <2>2, HarmlessInv
<1>6. ASSUME OpenOrders(req[c].session) = {}, NEW o \in Orders, Unused(o),
             req' = [req EXCEPT ![c] = [req[c] EXCEPT !.order = o, !.phase = "load",
                                                      !.fresh = TRUE, !.status = "open"]]
      PROVE  Inv'
  <2> DEFINE r == [req[c] EXCEPT !.order = o, !.phase = "load",
                                 !.fresh = TRUE, !.status = "open"]
  <2>1. /\ r.order = o /\ r.phase = "load" /\ r.fresh /\ r.session = req[c].session
        /\ r.op = req[c].op /\ r.from = req[c].from
    BY <1>1 DEF TypeOK, Request
  <2> HIDE DEF r
  <2>2. req'[c] = r /\ \A d \in Clients \ {c} : req'[d] = req[d]
    BY <1>1, <1>6 DEF TypeOK, r
  <2>3. KnownOrders'
    BY <1>1, <1>3, <1>4, <2>1, <2>2 DEF KnownOrders, HasOrder, Exists, ExistsIn
  <2>4. \A d \in Clients \ {c} : req[d].fresh =>
          req[d].order # o /\ req[d].session # req[c].session
    BY <1>6 DEF InsertOrder, SlotFree, Unused
  <2>5. SlotHeld'
    BY <1>1, <1>3, <1>4, <1>6, <2>1, <2>2, <2>4 DEF SlotHeld, OpenOrders, Unused
  <2>6. OneOpenOrder'
    BY <1>1, <1>3 DEF OneOpenOrder
  <2> QED
    BY <1>2, <2>3, <2>5, <2>6 DEF Inv
<1> QED
  BY <1>5, <1>6 DEF InsertOrder, Read

\* Every later read keeps the inductive invariant.
LEMMA ReadInv ==
  ASSUME ConstantsAssumption, Inv, NEW c \in Clients, ReadStep(c)
  PROVE  Inv'
<1>1. TypeOK /\ KnownOrders /\ SlotHeld /\ TypeOK'
  BY ReadStepType DEF Inv
<1>2. PICK phase, r : Read(c, phase, r)
  BY DEF ReadStep, FindOrder, InsertOrder, AdoptOrder, ReadLineOrder, LoadOrder
<1>3. req' = [req EXCEPT ![c] = r] /\ UNCHANGED <<sessions, orders, lines>>
  BY <1>2 DEF Read
<1>4. r = req'[c] /\ r \in Request /\ req[c] \in Request
  BY <1>1, <1>3 DEF TypeOK
<1>5. ASSUME Harmless(c, r)
      PROVE  Inv'
  BY <1>3, <1>5, HarmlessInv
<1>6. ASSUME r = Idle
      PROVE  Inv'
  BY <1>5, <1>6, IdleHarmless
<1>7. ASSUME NEW o \in Orders, Exists(o), ~req[c].fresh, r = Holding(c, o, "load")
      PROVE  Inv'
  <2>1. /\ r.order = o /\ r.phase = "load" /\ ~r.fresh /\ r.from = req[c].from
    BY <1>4, <1>7 DEF Holding, Request
  <2> QED
    BY <1>1, <1>4, <1>5, <1>7, <2>1 DEF Harmless, KnownOrders
<1>8. ASSUME req[c].phase \notin {"load", "commit"}
      PROVE  ~req[c].fresh
  BY <1>1, <1>8 DEF SlotHeld
<1>9. \A s, o : o \in OpenOrders(s) => Exists(o) /\ o \in Orders
  BY DEF OpenOrders, Exists, ExistsIn
<1>10. CASE FindOrder(c)
  <2>1. ~req[c].fresh /\ req[c].op \in BillOps
    BY <1>1, <1>8, <1>10 DEF FindOrder, Read, KnownOrders
  <2>2. CASE \E o \in OpenOrders(req[c].session) : r = Holding(c, o, "load")
    BY <1>7, <1>9, <2>1, <2>2
  <2>3. CASE r = [req[c] EXCEPT !.phase = "insert"]
    <3>1. /\ r.order = req[c].order /\ r.phase = "insert" /\ ~r.fresh /\ r.op = req[c].op
          /\ r.from = req[c].from
      BY <1>4, <2>1, <2>3 DEF Request
    <3> QED
      BY <1>1, <1>4, <1>5, <2>1, <3>1 DEF Harmless, KnownOrders
  <2> QED
    BY <1>1, <1>4, <1>6, <1>10, <2>2, <2>3 DEF FindOrder, Read, TypeOK
<1>11. CASE AdoptOrder(c)
  <2>1. ~req[c].fresh
    BY <1>8, <1>11 DEF AdoptOrder, Read
  <2> QED
    BY <1>1, <1>4, <1>6, <1>7, <1>9, <1>11, <2>1 DEF AdoptOrder, Read, TypeOK
<1>12. CASE ReadLineOrder(c)
  <2>1. ~req[c].fresh /\ req[c].order \in Orders
    BY <1>1, <1>8, <1>12 DEF ReadLineOrder, Read, KnownOrders, HasOrder
  <2>2. Exists(req[c].order)
    BY <1>1, <2>1 DEF KnownOrders, ConstantsAssumption
  <2> QED
    BY <1>1, <1>4, <1>6, <1>7, <1>12, <2>1, <2>2 DEF ReadLineOrder, Read, TypeOK
<1>13. CASE LoadOrder(c)
  <2> DEFINE view == [rows |-> orders[req[c].order].rows, paid |-> orders[req[c].order].paid,
                      charges |-> Charges(req[c].order)]
             loaded == [req[c] EXCEPT !.phase = "commit", !.view = view]
  <2>1. req[c].phase = "load"
    BY <1>13 DEF LoadOrder, Read
  <2>2. req[c].order \in Orders
    BY <1>1, <2>1 DEF KnownOrders, HasOrder
  <2>3. \/ r = loaded
        \/ \E p \in OpenOrders(req[c].source) :
             r = [loaded EXCEPT !.from = p, !.moved = LiveLines(p), !.held = orders[p].paid]
    BY <1>1, <1>4, <1>13 DEF LoadOrder, Read, TypeOK
  <2> HIDE DEF view
  <2>5. ASSUME NEW p \in OpenOrders(req[c].source), NEW moved, NEW held,
               r = [loaded EXCEPT !.from = p, !.moved = moved, !.held = held]
        PROVE  /\ r.order = req[c].order /\ r.phase = "commit" /\ r.fresh = req[c].fresh
               /\ r.session = req[c].session /\ r.op = req[c].op /\ r.from = p
    BY <1>4, <2>5 DEF Request
  <2>4. /\ r.order = req[c].order /\ r.phase = "commit" /\ r.fresh = req[c].fresh
        /\ r.session = req[c].session /\ r.op = req[c].op
        /\ r.from = req[c].from \/ r.from \in OpenOrders(req[c].source)
    <3>1. CASE r = loaded
      BY <1>4, <3>1 DEF Request
    <3>2. CASE \E p \in OpenOrders(req[c].source) :
                 r = [loaded EXCEPT !.from = p, !.moved = LiveLines(p), !.held = orders[p].paid]
      <4>1. PICK p \in OpenOrders(req[c].source) :
              r = [loaded EXCEPT !.from = p, !.moved = LiveLines(p), !.held = orders[p].paid]
        BY <3>2
      <4> QED
        BY <2>5, <4>1
    <3> QED
      BY <2>3, <3>1, <3>2
  <2> QED
    BY <1>1, <1>4, <1>5, <1>9, <2>1, <2>2, <2>4 DEF Harmless, KnownOrders
<1> QED
  BY <1>10, <1>11, <1>12, <1>13, InsertInv DEF ReadStep

-----------------------------------------------------------------------------
(***************************************************************************)
(* The theorems.                                                           *)
(***************************************************************************)

\* The empty database satisfies the inductive invariant.
LEMMA InitInv ==
  ASSUME ConstantsAssumption, Init
  PROVE  Inv
<1>1. NewOrder(None) \in Order /\ NewLine(None, None, 0) \in Line
  BY DEF NewOrder, Order, OrderStatus, NewLine, Line, LineStatus
<1>2. TypeOK
  BY <1>1, IdleType DEF Init, TypeOK, Session, SessionStatus, Order, OrderStatus, Line,
                        LineStatus
<1>3. \A o \in Orders : orders[o].status = "none"
  BY DEF Init, NewOrder
<1>4. \A l \in Lines : lines[l].status = "none"
  BY DEF Init, NewLine
<1>5. \A c \in Clients : /\ req[c].phase = "idle" /\ ~req[c].fresh
                         /\ req[c].order = None /\ req[c].from = None
  BY DEF Init, Idle
<1>6. KnownOrders /\ SlotHeld
  BY <1>4, <1>5 DEF KnownOrders, HasOrder, SlotHeld
<1>7. OneOpenOrder
  BY <1>3 DEF OneOpenOrder
<1> QED
  BY <1>2, <1>6, <1>7 DEF Inv

\* Every step, and every stutter, keeps the inductive invariant.
LEMMA NextInv ==
  ASSUME ConstantsAssumption, Inv, [Next]_vars
  PROVE  Inv'
<1>1. CASE UNCHANGED vars
  BY <1>1 DEF vars, Inv, TypeOK, KnownOrders, HasOrder, Exists, ExistsIn, SlotHeld, OpenOrders,
              OneOpenOrder
<1>2. ASSUME NEW c \in Clients, Rollback(c)
      PROVE  Inv'
  BY <1>2, IdleHarmless, HarmlessInv DEF Rollback
<1> QED
  BY <1>1, <1>2, CallInv, ReadInv, WriteInv DEF Next

\* Every variable keeps its type, however many requests interleave.
THEOREM TypeCorrect ==
  ASSUME ConstantsAssumption
  PROVE  Spec => []TypeOK
<1>1. Init => Inv
  BY InitInv
<1>2. Inv /\ [Next]_vars => Inv'
  BY NextInv
<1>3. Inv => TypeOK
  BY DEF Inv
<1> QED
  BY <1>1, <1>2, <1>3, PTL DEF Spec

\* No seating ever has two open bills (get-or-create of the session's order).
THEOREM OneBillPerSeating ==
  ASSUME ConstantsAssumption
  PROVE  Spec => []OneOpenOrder
<1>1. Init => Inv
  BY InitInv
<1>2. Inv /\ [Next]_vars => Inv'
  BY NextInv
<1>3. Inv => OneOpenOrder
  BY DEF Inv
<1> QED
  BY <1>1, <1>2, <1>3, PTL DEF Spec

\* What one commit does to the seatings: none that ended is opened again, and two
\* open ones never share a table.
LEMMA WriteSessions ==
  ASSUME TypeOK, NEW c \in Clients, Write(c)
  PROVE  /\ \A s \in Sessions : sessions[s].status \in {"closed", "cancelled"} =>
                                 sessions'[s].status \in {"closed", "cancelled"}
         /\ OneSeating => OneSeating'
<1>1. CASE OpenSession(c)
  <2>1. PICK s \in Sessions :
          /\ sessions[s].status = "none"
          /\ sessions' = [sessions EXCEPT ![s] = [status |-> "open", table |-> req[c].table]]
    BY <1>1 DEF OpenSession
  <2>2. /\ \A t \in Sessions \ {s} : sessions'[t] = sessions[t]
        /\ sessions'[s].table = req[c].table
    BY <2>1 DEF TypeOK
  <2>3. \A t \in Sessions : sessions[t].status = "open" => sessions[t].table # req[c].table
    BY <1>1 DEF OpenSession, SeatedAt
  <2> QED
    BY <2>1, <2>2, <2>3 DEF OneSeating
<1>2. CASE TransferSession(c)
  <2> DEFINE s == req[c].session
  <2>1. \A t \in Sessions : sessions'[t].status = sessions[t].status
    BY <1>2 DEF TransferSession, TypeOK, Session
  <2>2. \A t \in Sessions :
          sessions'[t].table = IF t = s THEN req[c].table ELSE sessions[t].table
    BY <1>2 DEF TransferSession, TypeOK, Session
  <2>3. \A t \in Sessions :
          sessions[s].status = "open" /\ sessions[t].status = "open"
            /\ sessions[t].table = req[c].table => t = s
    BY <1>2 DEF TransferSession, SeatedAt
  <2> QED
    BY <2>1, <2>2, <2>3 DEF OneSeating
<1>3. ASSUME NEW p, NEW status \in {"closed", "cancelled"},
             sessions' = [sessions EXCEPT ![p].status = status]
      PROVE  /\ \A s \in Sessions : sessions[s].status \in {"closed", "cancelled"} =>
                                     sessions'[s].status \in {"closed", "cancelled"}
             /\ OneSeating => OneSeating'
  <2>1. \A s \in Sessions : /\ sessions'[s].table = sessions[s].table
                            /\ sessions'[s].status \in {sessions[s].status, status}
    BY <1>3 DEF TypeOK, Session
  <2> QED
    BY <1>3, <2>1 DEF OneSeating
<1>4. ASSUME sessions' = sessions
      PROVE  /\ \A s \in Sessions : sessions[s].status \in {"closed", "cancelled"} =>
                                     sessions'[s].status \in {"closed", "cancelled"}
             /\ OneSeating => OneSeating'
  BY <1>4 DEF OneSeating
<1>5. CASE PayPartial(c) \/ CheckoutCash(c)
  <2>1. PICK auto, amount, closes : Pay(c, auto, amount, closes)
    BY <1>5 DEF PayPartial, CheckoutCash
  <2>2. CASE closes
    BY <1>3, <2>1, <2>2 DEF Pay
  <2>3. CASE ~closes
    BY <1>4, <2>1, <2>3 DEF Pay
  <2> QED
    BY <2>2, <2>3
<1>6. CASE CloseSession(c) \/ CancelSession(c) \/ MergeSessions(c)
  <2>1. \/ sessions' = [sessions EXCEPT ![req[c].session].status = "closed"]
        \/ sessions' = [sessions EXCEPT ![req[c].session].status = "cancelled"]
        \/ sessions' = [sessions EXCEPT ![req[c].source].status = "cancelled"]
    BY <1>6 DEF CloseSession, CancelSession, MergeSessions
  <2> QED
    BY <1>3, <2>1
<1>7. CASE \/ AddLine(c) \/ UpdateLineQty(c) \/ VoidLine(c) \/ ApplyDiscount(c)
           \/ SetServiceCharge(c) \/ GetSessionOrder(c) \/ Quote(c) \/ CloseOrder(c)
           \/ VoidOrder(c)
  BY <1>4, <1>7 DEF AddLine, UpdateLineQty, VoidLine, ApplyDiscount, SetServiceCharge,
                    GetSessionOrder, Quote, CloseOrder, VoidOrder
<1> QED
  BY <1>1, <1>2, <1>5, <1>6, <1>7 DEF Write

\* Calls, reads and rollbacks write no row.
LEMMA OnlyWritesWrite ==
  ASSUME [Next]_vars
  PROVE  \/ UNCHANGED <<sessions, orders, lines>>
         \/ \E c \in Clients : Write(c)
<1>1. CASE UNCHANGED vars
  BY <1>1 DEF vars
<1>2. ASSUME NEW c \in Clients, Call(c)
      PROVE  UNCHANGED <<sessions, orders, lines>>
  <2>1. PICK op, r : Begin(c, op, r)
    BY <1>2 DEF Call, CallOnBill, CallMerge, CallOnSession, CallTransfer, CallOpen, CallOnLine,
                CallOnOrder
  <2> QED
    BY <2>1 DEF Begin
<1>3. ASSUME NEW c \in Clients, ReadStep(c)
      PROVE  UNCHANGED <<sessions, orders, lines>>
  <2>1. PICK phase, r : Read(c, phase, r)
    BY <1>3 DEF ReadStep, FindOrder, InsertOrder, AdoptOrder, ReadLineOrder, LoadOrder
  <2> QED
    BY <2>1 DEF Read
<1>4. ASSUME NEW c \in Clients, Rollback(c)
      PROVE  UNCHANGED <<sessions, orders, lines>>
  BY <1>4 DEF Rollback
<1> QED
  BY <1>1, <1>2, <1>3, <1>4 DEF Next

\* No table ever has two open seatings (open_session, transfer_session).
THEOREM OneSeatingPerTable ==
  ASSUME ConstantsAssumption
  PROVE  Spec => []OneSeating
<1>1. Init => Inv /\ OneSeating
  BY InitInv DEF Init, OneSeating
<1>2. Inv /\ OneSeating /\ [Next]_vars => (Inv /\ OneSeating)'
  <2> SUFFICES ASSUME Inv, OneSeating, [Next]_vars
               PROVE  Inv' /\ OneSeating'
    OBVIOUS
  <2>1. CASE UNCHANGED <<sessions, orders, lines>>
    BY <2>1, NextInv DEF OneSeating
  <2>2. CASE \E c \in Clients : Write(c)
    BY <2>2, NextInv, WriteSessions DEF Inv
  <2> QED
    BY <2>1, <2>2, OnlyWritesWrite
<1> QED
  BY <1>1, <1>2, PTL DEF Spec

\* No late write of any request opens a closed or voided order, or an ended
\* seating, again.
THEOREM EndedStaysEnded ==
  ASSUME ConstantsAssumption
  PROVE  Spec => NeverReopened
<1> DEFINE Kept ==
      /\ \A o \in Orders : orders[o].status \in {"closed", "voided"} =>
                            orders'[o].status \in {"closed", "voided"}
      /\ \A s \in Sessions : sessions[s].status \in {"closed", "cancelled"} =>
                              sessions'[s].status \in {"closed", "cancelled"}
<1>1. Init => Inv
  BY InitInv
<1>2. Inv /\ [Next]_vars => Inv'
  BY NextInv
<1>3. Inv /\ [Next]_vars => Kept
  <2> SUFFICES ASSUME Inv, [Next]_vars
               PROVE  Kept
    OBVIOUS
  <2>1. CASE UNCHANGED <<sessions, orders, lines>>
    BY <2>1
  <2>2. ASSUME NEW c \in Clients, Write(c)
        PROVE  Kept
    <3>1. StatusStepTo(c, orders') /\ SlotHeld /\ TypeOK
      BY <2>2, WriteStatus DEF Inv
    <3>2. \A o \in Orders : orders'[o].status \in OrderStatus
      BY NextInv DEF Inv, TypeOK, Order
    <3>3. \A o \in Orders : orders[o].status \in {"closed", "voided"} =>
                            orders'[o].status \in {"closed", "voided"}
      BY <3>1, <3>2 DEF StatusStepTo, SlotHeld, OrderStatus
    <3> QED
      BY <2>2, <3>1, <3>3, WriteSessions
  <2> QED
    BY <2>1, <2>2, OnlyWritesWrite
<1>4. Inv /\ [Next]_vars => [Kept]_vars
  BY <1>3
<1> QED
  BY <1>1, <1>2, <1>4, PTL DEF Spec, NeverReopened

-----------------------------------------------------------------------------
(***************************************************************************)
(* Where the rows hang: an order is of a seating that was opened, and a     *)
(* request on a bill holds an order of the seating it named; the order it   *)
(* is about to insert has no line yet.                                      *)
(***************************************************************************)
OnItsSeating(r) ==
  /\ r.phase # "idle" => r.op \in Ops
  /\ r.session # None => sessions[r.session].status # "none"
  /\ r.phase # "idle" /\ r.op \in BillOps => r.session \in Sessions
  /\ r.phase = "order" => r.op \notin BillOps
  /\ r.phase \in {"load", "commit"} /\ r.op \in BillOps /\ ~r.fresh =>
       orders[r.order].session = r.session
  /\ r.fresh /\ r.phase = "commit" => r.view.charges = {}

Rooted ==
  /\ \A o \in Orders : orders[o].status # "none" =>
       orders[o].session \in Sessions /\ sessions[orders[o].session].status # "none"
  /\ \A c \in Clients : OnItsSeating(req[c])

-----------------------------------------------------------------------------
(***************************************************************************)
(* What one commit does to one row, however old the view it decided on.    *)
(***************************************************************************)
\* An order: only the request's own order and the one it merges away change, and a status
\* changes by a payment that covers the bill, a close, a void or a merge.
OrderStep(c, o) ==
  LET r == req[c]
      s == Saved(c)[o]
      n == orders'[o]
  IN  /\ n.session = s.session
      /\ o # r.order => n = s \/ n = [s EXCEPT !.status = "voided"]
      /\ o \notin {r.order, r.from} => n = s
      /\ \/ n.status = s.status
         \/ /\ PayPartial(c) \/ CheckoutCash(c)
            /\ o = r.order /\ n.status = "closed"
            /\ sessions' = [sessions EXCEPT ![r.session].status = "closed"]
         \/ CloseOrder(c) /\ o = r.order /\ n.status = "closed"
         \/ VoidOrder(c) /\ o = r.order /\ n.status = "voided"
         \/ MergeSessions(c) /\ o = r.from /\ r.from # None /\ n.status = "voided"

\* A line: it is added to the request's order, priced again, removed or moved there, or the
\* void of the order books the reversal of its stock.
LineStep(c, l) ==
  LET r == req[c]
      m == lines[l]
      n == lines'[l]
  IN  \/ n = m
      \/ /\ AddLine(c) /\ m.status = "none"
         /\ n.status = "live" /\ n.order = r.order /\ n.reversals = 0
      \/ UpdateLineQty(c) /\ l = r.line /\ m.status = "live" /\ n = [m EXCEPT !.total = n.total]
      \/ VoidLine(c) /\ l \in Seen(c) /\ n = Removed(m)
      \/ VoidOrder(c) /\ l \in Seen(c) /\ n = [m EXCEPT !.reversals = @ + 1]
      \/ MergeSessions(c) /\ l \in r.moved /\ m.status = "live" /\ n = [m EXCEPT !.order = r.order]

\* A seating: it opens once, and ends by its own request, its payment or a merge.
SessionStep(c, s) ==
  LET r == req[c]
      m == sessions[s].status
      n == sessions'[s].status
  IN  \/ n = m
      \/ OpenSession(c) /\ m = "none" /\ n = "open"
      \/ CloseSession(c) /\ s = r.session /\ n = "closed"
      \/ CancelSession(c) /\ s = r.session /\ n = "cancelled"
      \/ /\ PayPartial(c) \/ CheckoutCash(c)
         /\ s = r.session /\ n = "closed" /\ orders'[r.order].status = "closed"
      \/ MergeSessions(c) /\ s = r.source /\ n = "cancelled"

\* The rows a request saves are the committed ones, but for its own INSERT.
LEMMA SavedRows ==
  ASSUME TypeOK, SlotHeld, NEW c \in Clients, NEW o \in Orders
  PROVE  Saved(c)[o] = IF req[c].fresh /\ o = req[c].order THEN NewOrder(req[c].session)
                       ELSE orders[o]
  BY DEF Saved, TypeOK, SlotHeld

\* A request whose writes need a line on its order, or that names a row of its own, has
\* inserted no order.
LEMMA Unfresh ==
  ASSUME Inv, Rooted, NEW c \in Clients,
         \/ ApplyDiscount(c) \/ PayPartial(c) \/ CheckoutCash(c)
         \/ \E op \in AllOps \ BillOps : Commit(c, op)
  PROVE  ~req[c].fresh
<1>1. CASE \E op \in AllOps \ BillOps : Commit(c, op)
  BY <1>1 DEF Commit, Inv, SlotHeld
<1>2. CASE ApplyDiscount(c) \/ PayPartial(c) \/ CheckoutCash(c)
  <2>1. req[c].phase = "commit" /\ req[c].view.charges # {}
    BY <1>2 DEF ApplyDiscount, PayPartial, CheckoutCash, Commit, Seen
  <2> QED
    BY <2>1 DEF Rooted, OnItsSeating
<1> QED
  BY <1>1, <1>2

\* Every commit steps every order so.
LEMMA WriteOrderStep ==
  ASSUME ConstantsAssumption, Inv, Rooted, NEW c \in Clients, Write(c), NEW o \in Orders
  PROVE  OrderStep(c, o)
<1>1. Saved(c) \in [Orders -> Order] /\ orders \in [Orders -> Order]
  BY SavedType DEF Inv, TypeOK
<1>2. ASSUME ~req[c].fresh PROVE Saved(c) = orders
  BY <1>2 DEF Saved
<1>3. PICK f, p : f = Saved(c) /\ p = req[c].order
  OBVIOUS
<1>4. ASSUME orders' = f PROVE OrderStep(c, o)
  BY <1>3, <1>4 DEF OrderStep
<1>5. ASSUME \/ \E rate : orders' = [f EXCEPT ![p].rate = rate]
             \/ \E rows : orders' = [f EXCEPT ![p].rows = rows]
      PROVE  OrderStep(c, o)
  <2>1. /\ orders'[o].session = f[o].session /\ orders'[o].status = f[o].status
        /\ o # p => orders'[o] = f[o]
    <3>1. CASE \E rate : orders' = [f EXCEPT ![p].rate = rate]
      <4>1. PICK rate : orders' = [f EXCEPT ![p].rate = rate]
        BY <3>1
      <4> QED
        BY <1>1, <1>3, <4>1 DEF Order
    <3>2. CASE \E rows : orders' = [f EXCEPT ![p].rows = rows]
      <4>1. PICK rows : orders' = [f EXCEPT ![p].rows = rows]
        BY <3>2
      <4> QED
        BY <1>1, <1>3, <4>1 DEF Order
    <3> QED
      BY <1>5, <3>1, <3>2
  <2> QED
    BY <1>3, <2>1 DEF OrderStep
<1>6. CASE \/ OpenSession(c) \/ CloseSession(c) \/ CancelSession(c) \/ TransferSession(c)
           \/ UpdateLineQty(c) \/ VoidLine(c)
  <2>1. orders' = orders /\ \E op \in AllOps \ BillOps : Commit(c, op)
    BY <1>6 DEF OpenSession, CloseSession, CancelSession, TransferSession, UpdateLineQty,
                VoidLine, AllOps, BillOps, SeatOps, LineOps
  <2>2. ~req[c].fresh
    BY <2>1, Unfresh
  <2> QED
    BY <1>2, <1>3, <1>4, <2>1, <2>2
<1>7. CASE AddLine(c) \/ GetSessionOrder(c)
  BY <1>3, <1>4, <1>7 DEF AddLine, GetSessionOrder
<1>8. CASE ApplyDiscount(c)
  <2>1. ~req[c].fresh
    BY <1>8, Unfresh
  <2> QED
    BY <1>2, <1>3, <1>5, <1>8, <2>1 DEF ApplyDiscount
<1>9. CASE SetServiceCharge(c)
  BY <1>3, <1>5, <1>9 DEF SetServiceCharge
<1>10. CASE Quote(c)
  BY <1>3, <1>5, <1>10 DEF Quote
<1>11. CASE PayPartial(c) \/ CheckoutCash(c)
  <2>1. f = orders
    BY <1>2, <1>3, <1>11, Unfresh
  <2>2. PICK auto, amount, closes : Pay(c, auto, amount, closes)
    BY <1>11 DEF PayPartial, CheckoutCash
  <2>3. PICK rows, paid, status :
          /\ orders' = [orders EXCEPT ![p].rows = rows, ![p].paid = paid, ![p].status = status]
          /\ status = IF closes THEN "closed" ELSE orders[p].status
    BY <1>3, <2>2 DEF Pay
  <2>4. /\ orders'[o].session = orders[o].session
        /\ o # p => orders'[o] = orders[o]
        /\ o = p => orders'[o].status = status
    BY <1>1, <2>3 DEF Order
  <2>5. CASE closes
    <3>1. sessions' = [sessions EXCEPT ![req[c].session].status = "closed"]
      BY <2>2, <2>5 DEF Pay
    <3> QED
      BY <1>3, <1>11, <2>1, <2>3, <2>4, <2>5, <3>1 DEF OrderStep
  <2>6. CASE ~closes
    BY <1>3, <2>1, <2>3, <2>4, <2>6 DEF OrderStep
  <2> QED
    BY <2>5, <2>6
<1>12. CASE MergeSessions(c)
  <2>1. CASE req[c].from = None
    BY <1>3, <1>4, <1>12, <2>1 DEF MergeSessions
  <2>2. CASE req[c].from # None
    <3>1. PICK q : q = req[c].from /\ orders' = [f EXCEPT ![q].status = "voided"]
      BY <1>3, <1>12, <2>2 DEF MergeSessions
    <3>2. orders'[o] = IF o = q THEN [f[o] EXCEPT !.status = "voided"] ELSE f[o]
      BY <1>1, <1>3, <3>1
    <3>3. orders'[o].session = f[o].session
      BY <1>1, <1>3, <3>2 DEF Order
    <3>4. o = q => orders'[o].status = "voided"
      BY <1>1, <1>3, <3>2 DEF Order
    <3> QED
      BY <1>3, <1>12, <2>2, <3>1, <3>2, <3>3, <3>4 DEF OrderStep
  <2> QED
    BY <2>1, <2>2
<1>13. CASE CloseOrder(c) \/ VoidOrder(c)
  <2>1. \E op \in AllOps \ BillOps : Commit(c, op)
    BY <1>13 DEF CloseOrder, VoidOrder, AllOps, BillOps, OrderOps
  <2>2. f = orders
    BY <1>2, <1>3, <2>1, Unfresh
  <2>3. PICK status : /\ orders' = [orders EXCEPT ![p].status = status]
                      /\ \/ CloseOrder(c) /\ status = "closed"
                         \/ VoidOrder(c) /\ status = "voided"
    BY <1>3, <1>13 DEF CloseOrder, VoidOrder
  <2>4. /\ orders'[o].session = orders[o].session
        /\ o # p => orders'[o] = orders[o]
        /\ o = p => orders'[o].status = status
    BY <1>1, <2>3 DEF Order
  <2> QED
    BY <1>3, <2>2, <2>3, <2>4 DEF OrderStep
<1> QED
  BY <1>6, <1>7, <1>8, <1>9, <1>10, <1>11, <1>12, <1>13 DEF Write

\* Every commit steps every line so.
LEMMA WriteLineStep ==
  ASSUME ConstantsAssumption, TypeOK, NEW c \in Clients, Write(c), NEW l \in Lines
  PROVE  LineStep(c, l)
<1>1. lines \in [Lines -> Line]
  BY DEF TypeOK
<1>2. CASE AddLine(c)
  <2>1. \/ lines'[l] = lines[l]
        \/ /\ lines[l].status = "none"
           /\ \E parent, total : lines'[l] = NewLine(req[c].order, parent, total)
    <3>1. PICK k \in Lines, total \in Amounts, kid \in Lines \cup {None} :
            /\ lines[k].status = "none"
            /\ kid # None => lines[kid].status = "none"
            /\ lines' = [x \in Lines |-> IF x = k THEN NewLine(req[c].order, None, total)
                                        ELSE IF x = kid THEN NewLine(req[c].order, k, 0)
                                        ELSE lines[x]]
      BY <1>2 DEF AddLine
    <3>2. l = kid => kid # None
      BY DEF ConstantsAssumption
    <3> QED
      BY <3>1, <3>2
  <2>2. CASE lines'[l] = lines[l]
    BY <2>2 DEF LineStep
  <2>3. ASSUME lines[l].status = "none", NEW parent, NEW total,
               lines'[l] = NewLine(req[c].order, parent, total)
        PROVE  LineStep(c, l)
    <3>1. /\ lines'[l].status = "live" /\ lines'[l].order = req[c].order
          /\ lines'[l].reversals = 0
      BY <2>3 DEF NewLine
    <3> QED
      BY <1>2, <2>3, <3>1 DEF LineStep
  <2> QED
    BY <2>1, <2>2, <2>3
<1>3. CASE UpdateLineQty(c)
  <2>1. PICK total : lines' = [lines EXCEPT ![req[c].line].total = total]
    BY <1>3 DEF UpdateLineQty
  <2>2. CASE l = req[c].line
    <3>1. lines'[l] = [lines[l] EXCEPT !.total = total] /\ lines'[l].total = total
      BY <1>1, <2>1, <2>2 DEF Line
    <3>2. lines[l].status = "live"
      BY <1>3, <2>2 DEF UpdateLineQty
    <3> QED
      BY <1>3, <2>2, <3>1, <3>2 DEF LineStep
  <2>3. CASE l # req[c].line
    BY <1>1, <2>1, <2>3 DEF LineStep
  <2> QED
    BY <2>2, <2>3
<1>4. CASE VoidLine(c)
  BY <1>4 DEF VoidLine, LineStep
<1>5. CASE VoidOrder(c)
  BY <1>5 DEF VoidOrder, LineStep
<1>6. CASE MergeSessions(c)
  BY <1>6 DEF MergeSessions, LineStep
<1>7. ASSUME lines' = lines PROVE LineStep(c, l)
  BY <1>7 DEF LineStep
<1> QED
  BY <1>2, <1>3, <1>4, <1>5, <1>6, <1>7 DEF Write, OpenSession, CloseSession, CancelSession,
     TransferSession, ApplyDiscount, SetServiceCharge, GetSessionOrder, Quote, PayPartial,
     CheckoutCash, Pay, CloseOrder

\* Every commit steps every seating so.
LEMMA WriteSessionStep ==
  ASSUME ConstantsAssumption, Inv, Rooted, NEW c \in Clients, Write(c), NEW s \in Sessions
  PROVE  SessionStep(c, s)
<1>1. sessions \in [Sessions -> Session]
  BY DEF Inv, TypeOK
<1>2. ASSUME NEW p, NEW status, sessions' = [sessions EXCEPT ![p].status = status]
      PROVE  sessions'[s].status = IF s = p THEN status ELSE sessions[s].status
  BY <1>1, <1>2 DEF Session
<1>3. ASSUME sessions'[s].status = sessions[s].status PROVE SessionStep(c, s)
  BY <1>3 DEF SessionStep
<1>4. CASE OpenSession(c)
  <2>1. PICK t \in Sessions : /\ sessions[t].status = "none"
                              /\ sessions' = [sessions EXCEPT ![t] =
                                                [status |-> "open", table |-> req[c].table]]
    BY <1>4 DEF OpenSession
  <2>2. IF s = t THEN sessions'[s].status = "open" ELSE sessions'[s] = sessions[s]
    BY <1>1, <2>1
  <2> QED
    BY <1>4, <2>1, <2>2 DEF SessionStep
<1>5. CASE TransferSession(c)
  <2>1. sessions'[s].status = sessions[s].status
    BY <1>1, <1>5 DEF TransferSession, Session
  <2> QED
    BY <1>3, <2>1
<1>6. CASE CloseSession(c) \/ CancelSession(c)
  BY <1>2, <1>6 DEF CloseSession, CancelSession, SessionStep
<1>7. CASE MergeSessions(c)
  BY <1>2, <1>7 DEF MergeSessions, SessionStep
<1>8. CASE PayPartial(c) \/ CheckoutCash(c)
  <2>1. PICK auto, amount, closes : Pay(c, auto, amount, closes)
    BY <1>8 DEF PayPartial, CheckoutCash
  <2>2. CASE closes
    <3>1. sessions' = [sessions EXCEPT ![req[c].session].status = "closed"]
      BY <2>1, <2>2 DEF Pay
    <3>2. HasOrder(c)
      BY <1>8 DEF PayPartial, CheckoutCash, Commit, HasOrder, BillOps
    <3>3. req[c].order \in Orders
      BY <3>2 DEF Inv, KnownOrders
    <3>4. PICK rows, paid, p : /\ p = req[c].order
                               /\ orders' = [orders EXCEPT ![p].rows = rows, ![p].paid = paid,
                                                           ![p].status = "closed"]
      BY <2>1, <2>2 DEF Pay
    <3>5. orders'[req[c].order].status = "closed"
      BY <3>3, <3>4 DEF Inv, TypeOK, Order
    <3> QED
      BY <1>2, <1>8, <3>1, <3>5 DEF SessionStep
  <2>3. CASE ~closes
    BY <1>3, <2>1, <2>3 DEF Pay
  <2> QED
    BY <2>2, <2>3
<1>9. CASE \/ AddLine(c) \/ UpdateLineQty(c) \/ VoidLine(c) \/ ApplyDiscount(c)
           \/ SetServiceCharge(c) \/ GetSessionOrder(c) \/ Quote(c) \/ CloseOrder(c)
           \/ VoidOrder(c)
  BY <1>3, <1>9 DEF AddLine, UpdateLineQty, VoidLine, ApplyDiscount, SetServiceCharge,
                    GetSessionOrder, Quote, CloseOrder, VoidOrder
<1> QED
  BY <1>4, <1>5, <1>6, <1>7, <1>8, <1>9 DEF Write

-----------------------------------------------------------------------------
(***************************************************************************)
(* Rooted and ClosedOrderFreesTable are kept by every step.                *)
(***************************************************************************)
\* A request that moves on leaves the others and every row as they are.
LEMMA MovesOn ==
  ASSUME Inv, Rooted, NEW c \in Clients, NEW r, OnItsSeating(r),
         req' = [req EXCEPT ![c] = r], UNCHANGED <<sessions, orders, lines>>
  PROVE  Rooted'
<1>1. req'[c] = r /\ \A d \in Clients \ {c} : req'[d] = req[d]
  BY DEF Inv, TypeOK
<1> QED
  BY <1>1 DEF Rooted, OnItsSeating

\* The idle request names nothing.
LEMMA IdleSeating == OnItsSeating(Idle)
  BY DEF OnItsSeating, Idle

\* A call names a seating that is open.
LEMMA CallRooted ==
  ASSUME ConstantsAssumption, Inv, Rooted, NEW c \in Clients, Call(c)
  PROVE  Rooted'
<1>1. ASSUME NEW op, NEW r, Begin(c, op, r), r.op = op, ~r.fresh,
             r.session = None \/ (r.session \in Sessions /\ sessions[r.session].status = "open"),
             op \in BillOps => r.session \in Sessions /\ r.phase = "find"
      PROVE  Rooted'
  <2>1. op \in Ops /\ req' = [req EXCEPT ![c] = r] /\ UNCHANGED <<sessions, orders, lines>>
    BY <1>1 DEF Begin
  <2>2. OnItsSeating(r)
    BY <1>1, <2>1 DEF OnItsSeating
  <2> QED
    BY <2>1, <2>2, MovesOn
<1>2. CASE CallOnBill(c)
  <2>1. PICK op \in BillOps \ {"merge_sessions"}, s \in Sessions :
          /\ sessions[s].status = "open"
          /\ Begin(c, op, [Idle EXCEPT !.op = op, !.phase = "find", !.session = s])
    BY <1>2 DEF CallOnBill
  <2>2. PICK r : r = [Idle EXCEPT !.op = op, !.phase = "find", !.session = s]
    OBVIOUS
  <2>3. r.op = op /\ ~r.fresh /\ r.session = s /\ r.phase = "find"
    BY <2>2 DEF Idle
  <2> QED
    BY <1>1, <2>1, <2>2, <2>3
<1>3. CASE CallMerge(c)
  <2>1. PICK s, t \in Sessions :
          /\ sessions[s].status = "open"
          /\ Begin(c, "merge_sessions", [Idle EXCEPT !.op = "merge_sessions", !.phase = "find",
                                                     !.session = s, !.source = t])
    BY <1>3 DEF CallMerge
  <2>2. PICK r : r = [Idle EXCEPT !.op = "merge_sessions", !.phase = "find",
                                  !.session = s, !.source = t]
    OBVIOUS
  <2>3. r.op = "merge_sessions" /\ ~r.fresh /\ r.session = s /\ r.phase = "find"
    BY <2>2 DEF Idle
  <2> QED
    BY <1>1, <2>1, <2>2, <2>3
<1>4. CASE CallOnSession(c)
  <2>1. PICK op \in SeatOps, s \in Sessions :
          /\ sessions[s].status = "open"
          /\ Begin(c, op, [Idle EXCEPT !.op = op, !.phase = "commit", !.session = s])
    BY <1>4 DEF CallOnSession
  <2>2. PICK r : r = [Idle EXCEPT !.op = op, !.phase = "commit", !.session = s]
    OBVIOUS
  <2>3. r.op = op /\ ~r.fresh /\ r.session = s /\ op \notin BillOps
    BY <2>2 DEF Idle, SeatOps, BillOps
  <2> QED
    BY <1>1, <2>1, <2>2, <2>3
<1>5. CASE CallTransfer(c)
  <2>1. PICK s \in Sessions, t \in Tables :
          /\ sessions[s].status = "open"
          /\ Begin(c, "transfer_session",
                   [Idle EXCEPT !.op = "transfer_session", !.phase = "commit",
                                !.session = s, !.table = t])
    BY <1>5 DEF CallTransfer
  <2>2. PICK r : r = [Idle EXCEPT !.op = "transfer_session", !.phase = "commit",
                                  !.session = s, !.table = t]
    OBVIOUS
  <2>3. r.op = "transfer_session" /\ ~r.fresh /\ r.session = s
    BY <2>2 DEF Idle
  <2> QED
    BY <1>1, <2>1, <2>2, <2>3 DEF BillOps
<1>6. CASE CallOpen(c)
  <2>1. PICK t \in Tables :
          Begin(c, "open_session",
                [Idle EXCEPT !.op = "open_session", !.phase = "commit", !.table = t])
    BY <1>6 DEF CallOpen
  <2>2. PICK r : r = [Idle EXCEPT !.op = "open_session", !.phase = "commit", !.table = t]
    OBVIOUS
  <2>3. r.op = "open_session" /\ ~r.fresh /\ r.session = None
    BY <2>2 DEF Idle
  <2> QED
    BY <1>1, <2>1, <2>2, <2>3 DEF BillOps
<1>7. CASE CallOnLine(c)
  <2>1. PICK op \in LineOps, l \in Lines :
          Begin(c, op, [Idle EXCEPT !.op = op, !.phase = "order", !.line = l,
                                    !.order = lines[l].order])
    BY <1>7 DEF CallOnLine
  <2>2. PICK r : r = [Idle EXCEPT !.op = op, !.phase = "order", !.line = l,
                                  !.order = lines[l].order]
    OBVIOUS
  <2>3. r.op = op /\ ~r.fresh /\ r.session = None /\ op \notin BillOps
    BY <2>2 DEF Idle, LineOps, BillOps
  <2> QED
    BY <1>1, <2>1, <2>2, <2>3
<1>8. CASE CallOnOrder(c)
  <2>1. PICK op \in OrderOps, o \in Orders :
          Begin(c, op, [Idle EXCEPT !.op = op, !.phase = "load", !.order = o,
                                    !.status = orders[o].status, !.rate = orders[o].rate])
    BY <1>8 DEF CallOnOrder
  <2>2. PICK r : r = [Idle EXCEPT !.op = op, !.phase = "load", !.order = o,
                                  !.status = orders[o].status, !.rate = orders[o].rate]
    OBVIOUS
  <2>3. r.op = op /\ ~r.fresh /\ r.session = None /\ op \notin BillOps
    BY <2>2 DEF Idle, OrderOps, BillOps
  <2> QED
    BY <1>1, <2>1, <2>2, <2>3
<1> QED
  BY <1>2, <1>3, <1>4, <1>5, <1>6, <1>7, <1>8 DEF Call

\* A later read takes an order of the same seating, or a new one without lines.
LEMMA ReadRooted ==
  ASSUME ConstantsAssumption, Inv, Rooted, NEW c \in Clients, ReadStep(c)
  PROVE  Rooted'
<1>1. req[c] \in Request /\ OnItsSeating(req[c])
  BY DEF Inv, TypeOK, Rooted
<1>2. ASSUME NEW phase, NEW r, Read(c, phase, r), OnItsSeating(r)
      PROVE  Rooted'
  BY <1>2, MovesOn DEF Read
<1>3. ASSUME NEW phase, Read(c, phase, Idle) PROVE Rooted'
  BY <1>2, <1>3, IdleSeating
<1>4. ASSUME NEW phase, phase \in {"find", "adopt", "order"}, NEW o \in Orders,
             orders[o].session = req[c].session \/ phase = "order",
             Read(c, phase, Holding(c, o, "load"))
      PROVE  Rooted'
  <2>1. PICK r : r = Holding(c, o, "load")
    OBVIOUS
  <2>2. /\ r.op = req[c].op /\ r.session = req[c].session /\ r.fresh = req[c].fresh
        /\ r.phase = "load" /\ r.order = o
    BY <1>1, <2>1 DEF Holding, Request
  <2>3. req[c].phase = phase
    BY <1>4 DEF Read
  <2>4. OnItsSeating(r)
    BY <1>1, <1>4, <2>2, <2>3 DEF OnItsSeating
  <2> QED
    BY <1>2, <1>4, <2>1, <2>4
<1>5. CASE FindOrder(c)
  <2>1. CASE \E o \in OpenOrders(req[c].session) : Read(c, "find", Holding(c, o, "load"))
    BY <1>4, <2>1 DEF OpenOrders
  <2>2. CASE Read(c, "find", [req[c] EXCEPT !.phase = "insert"])
    <3>1. PICK r : r = [req[c] EXCEPT !.phase = "insert"]
      OBVIOUS
    <3>2. /\ r.op = req[c].op /\ r.session = req[c].session /\ r.fresh = req[c].fresh
          /\ r.phase = "insert" /\ req[c].phase = "find"
      BY <1>1, <2>2, <3>1 DEF Request, Read
    <3>3. OnItsSeating(r)
      BY <1>1, <3>2 DEF OnItsSeating
    <3> QED
      BY <1>2, <2>2, <3>1, <3>3
  <2> QED
    BY <1>3, <1>5, <2>1, <2>2 DEF FindOrder
<1>6. CASE InsertOrder(c)
  <2>1. CASE Read(c, "insert", [req[c] EXCEPT !.phase = "adopt"])
    <3>1. PICK r : r = [req[c] EXCEPT !.phase = "adopt"]
      OBVIOUS
    <3>2. /\ r.op = req[c].op /\ r.session = req[c].session /\ r.fresh = req[c].fresh
          /\ r.phase = "adopt" /\ req[c].phase = "insert"
      BY <1>1, <2>1, <3>1 DEF Request, Read
    <3>3. OnItsSeating(r)
      BY <1>1, <3>2 DEF OnItsSeating
    <3> QED
      BY <1>2, <2>1, <3>1, <3>3
  <2>2. ASSUME NEW o \in Orders,
               Read(c, "insert", [req[c] EXCEPT !.order = o, !.phase = "load",
                                                !.fresh = TRUE, !.status = "open"])
        PROVE  Rooted'
    <3>1. PICK r : r = [req[c] EXCEPT !.order = o, !.phase = "load",
                                      !.fresh = TRUE, !.status = "open"]
      OBVIOUS
    <3>2. /\ r.op = req[c].op /\ r.session = req[c].session /\ r.fresh
          /\ r.phase = "load" /\ req[c].phase = "insert"
      BY <1>1, <2>2, <3>1 DEF Request, Read
    <3>3. OnItsSeating(r)
      BY <1>1, <3>2 DEF OnItsSeating
    <3> QED
      BY <1>2, <2>2, <3>1, <3>3
  <2> QED
    BY <1>6, <2>1, <2>2 DEF InsertOrder
<1>7. CASE AdoptOrder(c)
  BY <1>3, <1>4, <1>7 DEF AdoptOrder, OpenOrders
<1>8. CASE ReadLineOrder(c)
  <2>1. req[c].order \in Orders
    BY <1>8 DEF ReadLineOrder, Read, Inv, KnownOrders, HasOrder
  <2> QED
    BY <1>3, <1>4, <1>8, <2>1 DEF ReadLineOrder
<1>9. CASE LoadOrder(c)
  <2>1. PICK v : v = [rows |-> orders[req[c].order].rows, paid |-> orders[req[c].order].paid,
                      charges |-> Charges(req[c].order)]
    OBVIOUS
  <2>2. PICK loaded : loaded = [req[c] EXCEPT !.phase = "commit", !.view = v]
    OBVIOUS
  <2>3. PICK r : /\ Read(c, "load", r)
                 /\ \/ r = loaded
                    \/ \E p : r = [loaded EXCEPT !.from = p, !.moved = LiveLines(p),
                                                 !.held = orders[p].paid]
    BY <1>9, <2>1, <2>2 DEF LoadOrder
  <2>4. /\ loaded.op = req[c].op /\ loaded.session = req[c].session
        /\ loaded.fresh = req[c].fresh /\ loaded.order = req[c].order
        /\ loaded.phase = "commit" /\ loaded.view = v
    BY <1>1, <2>2 DEF Request
  <2>5. /\ r.op = loaded.op /\ r.session = loaded.session /\ r.fresh = loaded.fresh
        /\ r.order = loaded.order /\ r.phase = loaded.phase /\ r.view = loaded.view
    BY <1>1, <2>2, <2>3 DEF Request
  <2>6. req[c].phase = "load"
    BY <2>3 DEF Read
  <2>7. r.fresh => v.charges = {}
    <3>1. SUFFICES ASSUME req[c].fresh PROVE Charges(req[c].order) = {}
      BY <2>1, <2>4, <2>5
    <3>2. orders[req[c].order].status = "none"
      BY <3>1 DEF Inv, SlotHeld
    <3>3. LiveLines(req[c].order) = {}
      BY <3>2 DEF LiveLines, Inv, KnownOrders, Exists, ExistsIn
    <3> QED
      BY <3>3 DEF Charges
  <2>8. OnItsSeating(r)
    BY <1>1, <2>4, <2>5, <2>6, <2>7 DEF OnItsSeating
  <2> QED
    BY <1>2, <2>3, <2>8
<1> QED
  BY <1>5, <1>6, <1>7, <1>8, <1>9 DEF ReadStep

\* A commit moves no order to another seating, and makes none of a seating that was not opened.
LEMMA WriteRooted ==
  ASSUME ConstantsAssumption, Inv, Rooted, NEW c \in Clients, Write(c)
  PROVE  Rooted'
<1>1. \A s \in Sessions : sessions[s].status # "none" => sessions'[s].status # "none"
  BY WriteSessionStep DEF SessionStep
<1>2. ASSUME NEW o \in Orders, orders'[o].status # "none"
      PROVE  orders'[o].session \in Sessions /\ sessions'[orders'[o].session].status # "none"
  <2>1. orders'[o].session = Saved(c)[o].session
    BY WriteOrderStep DEF OrderStep
  <2>2. CASE req[c].fresh /\ o = req[c].order
    <3>0. Saved(c)[o] = NewOrder(req[c].session)
      BY <2>2, SavedRows DEF Inv
    <3>1. orders'[o].session = req[c].session
      BY <2>1, <3>0 DEF NewOrder
    <3>2. req[c].session \in Sessions /\ req[c].session # None
      BY <2>2 DEF Rooted, OnItsSeating, Inv, SlotHeld, ConstantsAssumption
    <3>3. sessions[req[c].session].status # "none"
      BY <3>2 DEF Rooted, OnItsSeating
    <3> QED
      BY <1>1, <3>1, <3>2, <3>3
  <2>3. CASE ~(req[c].fresh /\ o = req[c].order)
    <3>1. orders'[o].session = orders[o].session
      BY <2>1, <2>3, SavedRows DEF Inv
    <3>2. orders[o].status # "none"
      BY <1>2, <2>3, WriteStatus DEF Inv, StatusStepTo
    <3> QED
      BY <1>1, <3>1, <3>2 DEF Rooted
  <2> QED
    BY <2>2, <2>3
<1>3. req'[c] = Idle /\ \A d \in Clients \ {c} : req'[d] = req[d]
  BY WriteEnds DEF Inv, TypeOK
<1>4. ASSUME NEW d \in Clients, NEW r, r = req'[d] PROVE OnItsSeating(r)'
  <2>1. CASE d = c
    <3>1. r = Idle
      BY <1>3, <1>4, <2>1
    <3> QED
      BY <3>1 DEF OnItsSeating, Idle
  <2>2. CASE d # c
    <3>1. r = req[d] /\ OnItsSeating(r) /\ r \in Request
      BY <1>3, <1>4, <2>2 DEF Rooted, Inv, TypeOK
    <3>2. r.session # None => sessions'[r.session].status # "none"
      BY <1>1, <3>1 DEF OnItsSeating, Request
    <3>3. r.phase \in {"load", "commit"} /\ r.op \in BillOps /\ ~r.fresh =>
            orders'[r.order].session = r.session
      <4> SUFFICES ASSUME r.phase \in {"load", "commit"}, r.op \in BillOps, ~r.fresh
                   PROVE  orders'[r.order].session = r.session
        OBVIOUS
      <4>1. r.order \in Orders /\ r.order # None
        BY <3>1 DEF Inv, KnownOrders, HasOrder, ConstantsAssumption
      <4>2. orders[r.order].status # "none"
        BY <3>1, <4>1 DEF Inv, KnownOrders, Exists, ExistsIn
      <4>3. ~(req[c].fresh /\ r.order = req[c].order)
        BY <4>2 DEF Inv, SlotHeld
      <4>5. Saved(c)[r.order] = orders[r.order]
        BY <4>1, <4>3, SavedRows DEF Inv
      <4>6. OrderStep(c, r.order)
        BY <4>1, WriteOrderStep
      <4>4. orders'[r.order].session = orders[r.order].session
        BY <4>5, <4>6 DEF OrderStep
      <4> QED
        BY <3>1, <4>4 DEF OnItsSeating
    <3> QED
      BY <3>1, <3>2, <3>3 DEF OnItsSeating
  <2> QED
    BY <2>1, <2>2
<1>5. ASSUME NEW d \in Clients PROVE OnItsSeating(req[d])'
  <2>1. PICK r : r = req'[d]
    OBVIOUS
  <2>2. OnItsSeating(r)'
    BY <1>4, <2>1
  <2> QED
    BY <2>1, <2>2 DEF OnItsSeating
<1> QED
  BY <1>2, <1>5 DEF Rooted

\* Every step, and every stutter, keeps the rows on their seatings.
LEMMA NextRooted ==
  ASSUME ConstantsAssumption, Inv, Rooted, [Next]_vars
  PROVE  Rooted'
<1>1. CASE UNCHANGED vars
  BY <1>1 DEF vars, Rooted, OnItsSeating
<1>2. ASSUME NEW c \in Clients, Rollback(c) PROVE Rooted'
  BY <1>2, IdleSeating, MovesOn DEF Rollback
<1> QED
  BY <1>1, <1>2, CallRooted, ReadRooted, WriteRooted DEF Next

\* Nothing hangs anywhere in the empty database.
LEMMA InitRooted ==
  ASSUME Init
  PROVE  Rooted
<1>1. \A o \in Orders : orders[o].status = "none"
  BY DEF Init, NewOrder
<1>2. \A c \in Clients : req[c] = Idle
  BY DEF Init
<1> QED
  BY <1>1, <1>2, IdleSeating DEF Rooted

\* A bill that the till closed has freed its table, however many requests interleave: where
\* close_order is not called, no closed order is of a seating that is open.
THEOREM PaidBillFreesTable ==
  ASSUME ConstantsAssumption
  PROVE  Spec => []ClosedOrderFreesTable
<1>1. Init => Inv /\ Rooted /\ ClosedOrderFreesTable
  <2>1. ASSUME Init PROVE \A o \in Orders : orders[o].status = "none"
    BY <2>1 DEF Init, NewOrder
  <2> QED
    BY <2>1, InitInv, InitRooted DEF ClosedOrderFreesTable
<1>2. Inv /\ Rooted /\ ClosedOrderFreesTable /\ [Next]_vars
        => (Inv /\ Rooted /\ ClosedOrderFreesTable)'
  <2> SUFFICES ASSUME Inv, Rooted, ClosedOrderFreesTable, [Next]_vars
               PROVE  ClosedOrderFreesTable'
    BY NextInv, NextRooted
  <2> SUFFICES ASSUME "close_order" \notin Ops, NEW o \in Orders, orders'[o].status = "closed"
               PROVE  sessions'[orders'[o].session].status # "open"
    BY DEF ClosedOrderFreesTable
  <2>1. CASE UNCHANGED <<sessions, orders, lines>>
    BY <2>1 DEF ClosedOrderFreesTable
  <2>2. ASSUME NEW c \in Clients, Write(c)
        PROVE  sessions'[orders'[o].session].status # "open"
    <3>1. OrderStep(c, o)
      BY <2>2, WriteOrderStep
    <3>2. CASE orders[o].status = "closed" /\ orders'[o].session = orders[o].session
      <4>1. PICK s \in Sessions : /\ s = orders[o].session /\ s = orders'[o].session
                                  /\ sessions[s].status \notin {"none", "open"}
        BY <3>2 DEF Rooted, ClosedOrderFreesTable
      <4> QED
        BY <2>2, <4>1, WriteSessionStep DEF SessionStep
    <3>3. CASE req[c].fresh /\ o = req[c].order
      <4>1. Saved(c)[o] = NewOrder(req[c].session)
        BY <3>3, SavedRows DEF Inv
      <4>2. orders'[o].status # Saved(c)[o].status
        BY <4>1 DEF NewOrder
      <4>3. ~CloseOrder(c) /\ ~PayPartial(c) /\ ~CheckoutCash(c)
        BY <3>3, Unfresh DEF CloseOrder, AllOps, OrderOps, BillOps
      <4> QED
        BY <3>1, <4>2, <4>3 DEF OrderStep
    <3>4. CASE ~(req[c].fresh /\ o = req[c].order) /\ orders[o].status # "closed"
      <4>1. Saved(c)[o] = orders[o]
        BY <3>4, SavedRows DEF Inv
      <4>2. ~CloseOrder(c)
        <5>1. req[c].phase # "idle" => req[c].op \in Ops
          BY DEF Rooted, OnItsSeating
        <5> QED
          BY <5>1 DEF CloseOrder, Commit
      <4>3. /\ PayPartial(c) \/ CheckoutCash(c)
            /\ o = req[c].order
            /\ sessions' = [sessions EXCEPT ![req[c].session].status = "closed"]
        BY <3>1, <3>4, <4>1, <4>2 DEF OrderStep
      <4>4. req[c].phase = "commit" /\ req[c].op \in BillOps /\ ~req[c].fresh
        BY <3>4, <4>3 DEF PayPartial, CheckoutCash, Commit, BillOps
      <4>5. req[c].session \in Sessions /\ orders[o].session = req[c].session
        BY <4>3, <4>4 DEF Rooted, OnItsSeating
      <4>6. orders'[o].session = req[c].session
        BY <3>1, <4>1, <4>5 DEF OrderStep
      <4>7. sessions'[req[c].session].status = "closed"
        BY <4>3, <4>5 DEF Inv, TypeOK, Session
      <4> QED
        BY <4>6, <4>7
    <3>5. ~(req[c].fresh /\ o = req[c].order) => orders'[o].session = orders[o].session
      BY <3>1, SavedRows DEF Inv, OrderStep
    <3> QED
      BY <3>2, <3>3, <3>4, <3>5
  <2> QED
    BY <2>1, <2>2, OnlyWritesWrite
<1> QED
  BY <1>1, <1>2, PTL DEF Spec
-----------------------------------------------------------------------------
(***************************************************************************)
(* One client.  The second group of properties is what the handlers promise *)
(* to requests that do not overlap; the theorems say so of any number of    *)
(* rows and calls.  What makes it true is that whatever a request has read  *)
(* is still what is committed when it writes.                              *)
(***************************************************************************)
Serial == \A c, d \in Clients : c = d

Current(r) ==
  /\ r.phase # "adopt"
  /\ r.session # None => sessions[r.session].status = "open"
  /\ r.phase = "insert" => OpenOrders(r.session) = {}
  /\ r.phase # "idle" /\ r.op = "merge_sessions" =>
       r.source \in Sessions \ {r.session} /\ sessions[r.source].status = "open"
  /\ r.phase \in {"load", "commit"} /\ ~r.fresh =>
       /\ r.op \in BillOps \cup LineOps \cup {"close_order"} => orders[r.order].status = "open"
       /\ r.op = "void_order" => orders[r.order].status \in {"open", "closed"}
       /\ r.op \in BillOps \cup LineOps \cup OrderOps => r.rate = orders[r.order].rate
  /\ r.phase \in {"order", "load", "commit"} /\ r.op \in LineOps => r.line \in LiveLines(r.order)
  /\ r.phase = "commit" /\ r.op \in BillOps \cup LineOps \cup OrderOps =>
       r.view = [rows |-> orders[r.order].rows, paid |-> orders[r.order].paid,
                 charges |-> Charges(r.order)]
  /\ IF r.from = None
       THEN /\ r.moved = {}
            /\ r.phase = "commit" /\ r.op = "merge_sessions" => OpenOrders(r.source) = {}
       ELSE /\ r.phase = "commit" /\ r.op = "merge_sessions"
            /\ r.from \in OpenOrders(r.source) /\ r.moved = LiveLines(r.from)
            /\ r.held = orders[r.from].paid

UpToDate == \A c \in Clients : Current(req[c])

\* The kinds of endpoints have no endpoint in common.
LEMMA KindsApart ==
  /\ BillOps \cap LineOps = {} /\ BillOps \cap OrderOps = {} /\ LineOps \cap OrderOps = {}
  /\ SeatOps \cap (BillOps \cup LineOps \cup OrderOps) = {}
  /\ {"open_session", "transfer_session"} \cap (BillOps \cup LineOps \cup OrderOps) = {}
  BY DEF BillOps, LineOps, OrderOps, SeatOps

\* The idle request has read nothing.
LEMMA IdleCurrent == Current(Idle)
  BY DEF Current, Idle

\* The only request moves on and no row changes.
LEMMA MovesOnCurrent ==
  ASSUME Serial, TypeOK, NEW c \in Clients, NEW r, Current(r),
         req' = [req EXCEPT ![c] = r], UNCHANGED <<sessions, orders, lines>>
  PROVE  UpToDate'
<1>1. \A d \in Clients : d = c /\ req'[d] = r
  BY DEF Serial, TypeOK
<1>2. \A s, o : /\ OpenOrders(s)' = OpenOrders(s) /\ LiveLines(o)' = LiveLines(o)
               /\ Charges(o)' = Charges(o)
  BY DEF OpenOrders, LiveLines, Charges
<1>3. Current(r)'
  BY <1>2 DEF Current
<1> QED
  BY <1>1, <1>3 DEF UpToDate, Current

\* A call reads the rows it names.
LEMMA CallCurrent ==
  ASSUME ConstantsAssumption, Serial, Inv, NEW c \in Clients, Call(c)
  PROVE  UpToDate'
<1>1. ASSUME NEW op, NEW r, Begin(c, op, r), Current(r) PROVE UpToDate'
  BY <1>1, MovesOnCurrent DEF Begin, Inv
<1>2. CASE CallOnBill(c)
  <2>1. PICK op \in BillOps \ {"merge_sessions"}, s \in Sessions :
          /\ sessions[s].status = "open"
          /\ Begin(c, op, [Idle EXCEPT !.op = op, !.phase = "find", !.session = s])
    BY <1>2 DEF CallOnBill
  <2>2. PICK r : r = [Idle EXCEPT !.op = op, !.phase = "find", !.session = s]
    OBVIOUS
  <2>3. r.op = op /\ r.session = s /\ r.phase = "find" /\ r.from = None /\ r.moved = {}
    BY <2>2 DEF Idle
  <2>4. Current(r)
    BY <2>1, <2>3 DEF Current
  <2> QED
    BY <1>1, <2>1, <2>2, <2>4
<1>3. CASE CallMerge(c)
  <2>1. PICK s, t \in Sessions :
          /\ s # t /\ sessions[s].status = "open" /\ sessions[t].status = "open"
          /\ Begin(c, "merge_sessions", [Idle EXCEPT !.op = "merge_sessions", !.phase = "find",
                                                     !.session = s, !.source = t])
    BY <1>3 DEF CallMerge
  <2>2. PICK r : r = [Idle EXCEPT !.op = "merge_sessions", !.phase = "find",
                                  !.session = s, !.source = t]
    OBVIOUS
  <2>3. r.session = s /\ r.source = t /\ r.phase = "find" /\ r.from = None /\ r.moved = {}
    BY <2>2 DEF Idle
  <2>4. Current(r)
    BY <2>1, <2>3 DEF Current
  <2> QED
    BY <1>1, <2>1, <2>2, <2>4
<1>4. CASE CallOnSession(c)
  <2>1. PICK op \in SeatOps, s \in Sessions :
          /\ sessions[s].status = "open"
          /\ Begin(c, op, [Idle EXCEPT !.op = op, !.phase = "commit", !.session = s])
    BY <1>4 DEF CallOnSession
  <2>2. PICK r : r = [Idle EXCEPT !.op = op, !.phase = "commit", !.session = s]
    OBVIOUS
  <2>3. r.op = op /\ r.session = s /\ r.phase = "commit" /\ r.from = None /\ r.moved = {}
    BY <2>2 DEF Idle
  <2>4. op \notin BillOps \cup LineOps \cup OrderOps /\ op # "merge_sessions"
    BY KindsApart DEF SeatOps
  <2>5. Current(r)
    BY <2>1, <2>3, <2>4 DEF Current, OrderOps
  <2> QED
    BY <1>1, <2>1, <2>2, <2>5
<1>5. CASE CallTransfer(c)
  <2>1. PICK s \in Sessions, t \in Tables :
          /\ sessions[s].status = "open"
          /\ Begin(c, "transfer_session",
                   [Idle EXCEPT !.op = "transfer_session", !.phase = "commit",
                                !.session = s, !.table = t])
    BY <1>5 DEF CallTransfer
  <2>2. PICK r : r = [Idle EXCEPT !.op = "transfer_session", !.phase = "commit",
                                  !.session = s, !.table = t]
    OBVIOUS
  <2>3. /\ r.op = "transfer_session" /\ r.session = s /\ r.phase = "commit"
        /\ r.from = None /\ r.moved = {}
    BY <2>2 DEF Idle
  <2>4. Current(r)
    BY <2>1, <2>3, KindsApart DEF Current, OrderOps
  <2> QED
    BY <1>1, <2>1, <2>2, <2>4
<1>6. CASE CallOpen(c)
  <2>1. PICK t \in Tables :
          Begin(c, "open_session",
                [Idle EXCEPT !.op = "open_session", !.phase = "commit", !.table = t])
    BY <1>6 DEF CallOpen
  <2>2. PICK r : r = [Idle EXCEPT !.op = "open_session", !.phase = "commit", !.table = t]
    OBVIOUS
  <2>3. /\ r.op = "open_session" /\ r.session = None /\ r.phase = "commit"
        /\ r.from = None /\ r.moved = {}
    BY <2>2 DEF Idle
  <2>4. Current(r)
    BY <2>3, KindsApart DEF Current, OrderOps
  <2> QED
    BY <1>1, <2>1, <2>2, <2>4
<1>7. CASE CallOnLine(c)
  <2>1. PICK op \in LineOps, l \in Lines :
          /\ lines[l].status = "live"
          /\ Begin(c, op, [Idle EXCEPT !.op = op, !.phase = "order", !.line = l,
                                       !.order = lines[l].order])
    BY <1>7 DEF CallOnLine
  <2>2. PICK r : r = [Idle EXCEPT !.op = op, !.phase = "order", !.line = l,
                                  !.order = lines[l].order]
    OBVIOUS
  <2>3. /\ r.op = op /\ r.session = None /\ r.phase = "order" /\ r.from = None /\ r.moved = {}
        /\ r.line = l /\ r.order = lines[l].order
    BY <2>2 DEF Idle
  <2>4. Current(r)
    BY <2>1, <2>3 DEF Current, LiveLines, LineOps
  <2> QED
    BY <1>1, <2>1, <2>2, <2>4
<1>8. CASE CallOnOrder(c)
  <2>1. PICK op \in OrderOps, o \in Orders :
          /\ orders[o].status \in (IF op = "close_order" THEN {"open"} ELSE {"open", "closed"})
          /\ Begin(c, op, [Idle EXCEPT !.op = op, !.phase = "load", !.order = o,
                                       !.status = orders[o].status, !.rate = orders[o].rate])
    BY <1>8 DEF CallOnOrder
  <2>2. PICK r : r = [Idle EXCEPT !.op = op, !.phase = "load", !.order = o,
                                  !.status = orders[o].status, !.rate = orders[o].rate]
    OBVIOUS
  <2>3. /\ r.op = op /\ r.session = None /\ r.phase = "load" /\ r.from = None /\ r.moved = {}
        /\ r.order = o /\ r.rate = orders[o].rate
    BY <2>2 DEF Idle
  <2>4. op \notin BillOps /\ op \notin LineOps /\ op # "merge_sessions"
    BY KindsApart DEF OrderOps
  <2>5. Current(r)
    BY <2>1, <2>3, <2>4 DEF Current
  <2> QED
    BY <1>1, <2>1, <2>2, <2>5
<1> QED
  BY <1>2, <1>3, <1>4, <1>5, <1>6, <1>7, <1>8 DEF Call

\* A later read takes up what is committed.
LEMMA ReadCurrent ==
  ASSUME ConstantsAssumption, Serial, Inv, Rooted, UpToDate, NEW c \in Clients, ReadStep(c)
  PROVE  UpToDate'
<1>1. req[c] \in Request /\ Current(req[c]) /\ OnItsSeating(req[c])
  BY DEF Inv, TypeOK, UpToDate, Rooted
<1>2. ASSUME NEW phase, NEW r, Read(c, phase, r), Current(r) PROVE UpToDate'
  BY <1>2, MovesOnCurrent DEF Read, Inv
<1>3. ASSUME NEW phase, Read(c, phase, Idle) PROVE UpToDate'
  BY <1>2, <1>3, IdleCurrent
<1>4. ASSUME NEW phase, phase \in {"find", "order"}, NEW o \in Orders,
             orders[o].status = "open", phase = "order" => o = req[c].order,
             Read(c, phase, Holding(c, o, "load"))
      PROVE  UpToDate'
  <2>1. PICK r : r = Holding(c, o, "load")
    OBVIOUS
  <2>2. /\ r.op = req[c].op /\ r.session = req[c].session /\ r.fresh = req[c].fresh
        /\ r.phase = "load" /\ r.order = o /\ r.rate = orders[o].rate /\ r.line = req[c].line
        /\ r.source = req[c].source /\ r.from = req[c].from /\ r.moved = req[c].moved
    BY <1>1, <2>1 DEF Holding, Request
  <2>3. req[c].phase = phase
    BY <1>4 DEF Read
  <2>4. phase = "find" => r.op \notin LineOps
    BY <2>2, <2>3, KindsApart DEF Inv, KnownOrders
  <2>5. Current(r)
    BY <1>1, <1>4, <2>2, <2>3, <2>4 DEF Current
  <2> QED
    BY <1>2, <1>4, <2>1, <2>5
<1>5. CASE FindOrder(c)
  <2>1. CASE \E o \in OpenOrders(req[c].session) : Read(c, "find", Holding(c, o, "load"))
    BY <1>4, <2>1 DEF OpenOrders
  <2>2. CASE /\ OpenOrders(req[c].session) = {}
             /\ Read(c, "find", [req[c] EXCEPT !.phase = "insert"])
    <3>1. PICK r : r = [req[c] EXCEPT !.phase = "insert"]
      OBVIOUS
    <3>2. /\ r.op = req[c].op /\ r.session = req[c].session /\ r.source = req[c].source
          /\ r.from = req[c].from /\ r.moved = req[c].moved
          /\ r.phase = "insert" /\ req[c].phase = "find"
      BY <1>1, <2>2, <3>1 DEF Request, Read
    <3>3. Current(r)
      BY <1>1, <2>2, <3>2 DEF Current
    <3> QED
      BY <1>2, <2>2, <3>1, <3>3
  <2> QED
    BY <1>3, <1>5, <2>1, <2>2 DEF FindOrder
<1>6. CASE InsertOrder(c)
  <2>1. req[c].phase = "insert" /\ OpenOrders(req[c].session) = {}
    BY <1>1, <1>6 DEF InsertOrder, Read, Current
  <2>2. PICK o \in Orders : Read(c, "insert", [req[c] EXCEPT !.order = o, !.phase = "load",
                                                       !.fresh = TRUE, !.status = "open"])
    BY <1>6, <2>1 DEF InsertOrder
  <2>3. PICK r : r = [req[c] EXCEPT !.order = o, !.phase = "load",
                                    !.fresh = TRUE, !.status = "open"]
    OBVIOUS
  <2>4. /\ r.op = req[c].op /\ r.session = req[c].session /\ r.fresh
        /\ r.phase = "load" /\ r.source = req[c].source /\ r.from = req[c].from
        /\ r.moved = req[c].moved
    BY <1>1, <2>3 DEF Request
  <2>5. r.op \notin LineOps
    BY <2>1, <2>4, KindsApart DEF Inv, KnownOrders
  <2>6. Current(r)
    BY <1>1, <2>1, <2>4, <2>5 DEF Current
  <2> QED
    BY <1>2, <2>2, <2>3, <2>6
<1>7. CASE AdoptOrder(c)
  BY <1>1, <1>7 DEF AdoptOrder, Read, Current
<1>8. CASE ReadLineOrder(c)
  <2>1. req[c].order \in Orders
    BY <1>8 DEF ReadLineOrder, Read, Inv, KnownOrders, HasOrder
  <2> QED
    BY <1>3, <1>4, <1>8, <2>1 DEF ReadLineOrder
<1>9. CASE LoadOrder(c)
  <2>1. PICK v : v = [rows |-> orders[req[c].order].rows, paid |-> orders[req[c].order].paid,
                      charges |-> Charges(req[c].order)]
    OBVIOUS
  <2>2. PICK loaded : loaded = [req[c] EXCEPT !.phase = "commit", !.view = v]
    OBVIOUS
  <2>3. PICK r : /\ Read(c, "load", r)
                 /\ \/ /\ r = loaded
                       /\ req[c].op # "merge_sessions" \/ OpenOrders(req[c].source) = {}
                    \/ /\ req[c].op = "merge_sessions"
                       /\ \E p \in OpenOrders(req[c].source) :
                            r = [loaded EXCEPT !.from = p, !.moved = LiveLines(p),
                                               !.held = orders[p].paid]
    BY <1>9, <2>1, <2>2 DEF LoadOrder
  <2>4. /\ loaded.op = req[c].op /\ loaded.session = req[c].session
        /\ loaded.fresh = req[c].fresh /\ loaded.order = req[c].order
        /\ loaded.phase = "commit" /\ loaded.view = v /\ loaded.rate = req[c].rate
        /\ loaded.line = req[c].line /\ loaded.source = req[c].source
        /\ loaded.from = req[c].from /\ loaded.moved = req[c].moved
    BY <1>1, <2>2 DEF Request
  <2>5. /\ r.op = loaded.op /\ r.session = loaded.session /\ r.fresh = loaded.fresh
        /\ r.order = loaded.order /\ r.phase = loaded.phase /\ r.view = loaded.view
        /\ r.rate = loaded.rate /\ r.line = loaded.line /\ r.source = loaded.source
    BY <1>1, <2>2, <2>3 DEF Request
  <2>6. \/ /\ r.from = None /\ r.moved = {}
           /\ r.op = "merge_sessions" => OpenOrders(r.source) = {}
        \/ /\ r.op = "merge_sessions" /\ r.from \in OpenOrders(r.source)
           /\ r.moved = LiveLines(r.from) /\ r.held = orders[r.from].paid
    <3>1. req[c].phase = "load" /\ req[c].from = None /\ req[c].moved = {}
      BY <1>1, <2>3 DEF Read, Current
    <3>2. CASE r = loaded /\ (req[c].op # "merge_sessions" \/ OpenOrders(req[c].source) = {})
      BY <2>4, <3>1, <3>2
    <3>3. ASSUME req[c].op = "merge_sessions", NEW p \in OpenOrders(req[c].source),
                 r = [loaded EXCEPT !.from = p, !.moved = LiveLines(p), !.held = orders[p].paid]
          PROVE  /\ r.op = "merge_sessions" /\ r.from = p /\ r.moved = LiveLines(p)
                 /\ r.source = req[c].source /\ r.held = orders[p].paid
      BY <1>1, <2>2, <3>3 DEF Request
    <3> QED
      BY <2>3, <2>4, <2>5, <3>1, <3>2, <3>3
  <2>7. req[c].phase = "load"
    BY <2>3 DEF Read
  <2>8. \A s : OpenOrders(s) \subseteq Orders
    BY DEF OpenOrders
  <2>9. Current(r)
    BY <1>1, <2>1, <2>4, <2>5, <2>6, <2>7, <2>8 DEF Current, ConstantsAssumption
  <2> QED
    BY <1>2, <2>3, <2>9
<1> QED
  BY <1>5, <1>6, <1>7, <1>8, <1>9 DEF ReadStep

\* Every step of the only client keeps its request up to date.
LEMMA NextCurrent ==
  ASSUME ConstantsAssumption, Serial, Inv, Rooted, UpToDate, [Next]_vars
  PROVE  UpToDate'
<1>1. CASE UNCHANGED vars
  BY <1>1 DEF vars, UpToDate, Current, OpenOrders, LiveLines, Charges
<1>2. ASSUME NEW c \in Clients, req' = [req EXCEPT ![c] = Idle] PROVE UpToDate'
  <2>1. \A d \in Clients : req'[d] = Idle
    BY <1>2 DEF Serial, Inv, TypeOK
  <2> QED
    BY <2>1 DEF UpToDate, Current, Idle
<1> QED
  BY <1>1, <1>2, CallCurrent, ReadCurrent, WriteEnds DEF Next, Rollback
-----------------------------------------------------------------------------
(***************************************************************************)
(* What a commit of the only client does.                                  *)
(***************************************************************************)
Steady == Inv /\ Rooted /\ UpToDate

\* Only requests on bills, lines and orders write orders and lines.
LEMMA Commits ==
  ASSUME NEW c \in Clients, Write(c)
  PROVE  /\ req[c].phase = "commit"
         /\ \/ req[c].op \in BillOps \cup LineOps \cup OrderOps
            \/ orders' = orders /\ lines' = lines
  BY DEF Write, Commit, OpenSession, CloseSession, CancelSession, TransferSession, AddLine,
         UpdateLineQty, VoidLine, ApplyDiscount, SetServiceCharge, GetSessionOrder, Quote,
         PayPartial, CheckoutCash, MergeSessions, CloseOrder, VoidOrder,
         BillOps, LineOps, OrderOps

\* What a request on an order knows when it commits: the order is open, or the one that
\* void_order found settled, or its own INSERT; and it has seen all its lines.
LEMMA OwnOrder ==
  ASSUME ConstantsAssumption, Steady, NEW c \in Clients, req[c].phase = "commit",
         req[c].op \in BillOps \cup LineOps \cup OrderOps
  PROVE  /\ req[c].order \in Orders
         /\ Seen(c) = LiveLines(req[c].order)
         /\ req[c].fresh => orders[req[c].order].status = "none" /\ req[c].op \in BillOps
         /\ ~req[c].fresh => /\ req[c].op # "void_order" => orders[req[c].order].status = "open"
                             /\ orders[req[c].order].status \in {"open", "closed"}
         /\ req[c].op \in BillOps =>
              /\ req[c].session \in Sessions /\ sessions[req[c].session].status = "open"
              /\ ~req[c].fresh => orders[req[c].order].session = req[c].session
         /\ req[c].op \in LineOps => req[c].line \in LiveLines(req[c].order)
<1>1. PICK r : r = req[c] /\ Current(r) /\ OnItsSeating(r)
  BY DEF Steady, UpToDate, Rooted
<1>2. r.order \in Orders
  BY <1>1 DEF Steady, Inv, KnownOrders, HasOrder
<1>3. Seen(c) = LiveLines(r.order)
  <2>1. r.view.charges = Charges(r.order)
    BY <1>1 DEF Current
  <2>2. PICK L : L = LiveLines(r.order)
    OBVIOUS
  <2>3. Seen(c) = {x.line : x \in {[line |-> l, total |-> lines[l].total] : l \in L}}
    BY <1>1, <2>1, <2>2 DEF Seen, Charges
  <2>4. Seen(c) = L
    <3>1. ASSUME NEW l \in L PROVE l \in Seen(c)
      <4>1. PICK x : x = [line |-> l, total |-> lines[l].total]
        OBVIOUS
      <4>2. x.line = l /\ x \in {[line |-> k, total |-> lines[k].total] : k \in L}
        BY <4>1
      <4> QED
        BY <2>3, <4>2
    <3>2. ASSUME NEW y \in Seen(c) PROVE y \in L
      <4>1. PICK l \in L : y = [line |-> l, total |-> lines[l].total].line
        BY <2>3
      <4> QED
        BY <4>1
    <3> QED
      BY <3>1, <3>2
  <2> QED
    BY <2>2, <2>4
<1>4. r.fresh => orders[r.order].status = "none" /\ r.op \in BillOps
  BY <1>1 DEF Steady, Inv, SlotHeld
<1>5. ~r.fresh => /\ r.op # "void_order" => orders[r.order].status = "open"
                  /\ orders[r.order].status \in {"open", "closed"}
  BY <1>1 DEF Current, OrderOps
<1>6. r.op \in BillOps => /\ r.session \in Sessions /\ sessions[r.session].status = "open"
                          /\ ~r.fresh => orders[r.order].session = r.session
  BY <1>1 DEF Current, OnItsSeating, ConstantsAssumption
<1>7. r.op \in LineOps => r.line \in LiveLines(r.order)
  BY <1>1 DEF Current
<1> QED
  BY <1>1, <1>2, <1>3, <1>4, <1>5, <1>6, <1>7

\* A merge voids the only open order of its source and has seen all the lines it moves.
LEMMA MergedOrder ==
  ASSUME ConstantsAssumption, Steady, NEW c \in Clients, MergeSessions(c)
  PROVE  /\ req[c].source # req[c].session /\ req[c].order \in Orders
         /\ orders'[req[c].order].status = "open"
         /\ \A o \in OpenOrders(req[c].source) :
              /\ o = req[c].from /\ o # req[c].order /\ o \in Orders
              /\ orders[o].status = "open" /\ orders'[o].status = "voided"
         /\ \A l \in req[c].moved :
              /\ l \in Lines /\ lines[l].status = "live" /\ req[c].from \in Orders
              /\ lines[l].order = req[c].from /\ orders[req[c].from].status = "open"
         /\ \A l \in LiveLines(req[c].from) : req[c].from # None => l \in req[c].moved
<1>1. PICK r : r = req[c] /\ Current(r) /\ r.phase = "commit" /\ r.op = "merge_sessions"
  BY DEF Steady, UpToDate, MergeSessions, Commit
<1>2. r.op \in BillOps
  BY <1>1 DEF BillOps
<1>3. r.order \in Orders /\ r.session \in Sessions /\ r.source # r.session
  BY <1>1, <1>2, OwnOrder DEF Current
<1>4. \A o, p \in OpenOrders(r.source) : o = p
  BY DEF OpenOrders, Steady, Inv, OneOpenOrder
<1>5. \A o \in OpenOrders(r.source) : /\ o = r.from /\ r.from # None
                                      /\ o \in Orders /\ orders[o].status = "open"
  BY <1>1, <1>4 DEF Current, OpenOrders, ConstantsAssumption
<1>6. Saved(c)[r.order].status = "open" /\ Saved(c)[r.order].session = r.session
  <2>1. CASE r.fresh
    <3>1. Saved(c)[r.order] = NewOrder(r.session)
      BY <1>1, <1>3, <2>1, SavedRows DEF Steady, Inv
    <3> QED
      BY <3>1 DEF NewOrder
  <2>2. CASE ~r.fresh
    <3>1. Saved(c)[r.order] = orders[r.order]
      BY <1>1, <1>3, <2>2, SavedRows DEF Steady, Inv
    <3> QED
      BY <1>1, <1>2, <2>2, <3>1, OwnOrder
  <2> QED
    BY <2>1, <2>2
<1>7. \A o \in OpenOrders(r.source) : o # r.order
  BY <1>1, <1>2, <1>3, <1>5, OwnOrder DEF OpenOrders
<1>8. Saved(c) \in [Orders -> Order]
  BY SavedType DEF Steady, Inv
<1>9. CASE r.from = None
  <2>1. orders' = Saved(c) /\ OpenOrders(r.source) = {} /\ r.moved = {}
    BY <1>1, <1>9 DEF MergeSessions, Current
  <2> QED
    BY <1>1, <1>3, <1>6, <1>9, <2>1
<1>10. CASE r.from # None
  <2>1. r.from \in OpenOrders(r.source) /\ r.moved = LiveLines(r.from)
    BY <1>1, <1>10 DEF Current
  <2>2. orders' = [Saved(c) EXCEPT ![r.from].status = "voided"]
    BY <1>1, <1>10 DEF MergeSessions
  <2>3. orders'[r.from].status = "voided" /\ orders'[r.order] = Saved(c)[r.order]
    BY <1>3, <1>5, <1>7, <1>8, <2>1, <2>2 DEF Order
  <2>4. \A l \in r.moved : l \in Lines /\ lines[l].status = "live" /\ lines[l].order = r.from
    BY <2>1 DEF LiveLines
  <2> QED
    BY <1>1, <1>3, <1>5, <1>6, <1>7, <2>1, <2>3, <2>4
<1> QED
  BY <1>9, <1>10

\* The empty database is steady.
LEMMA SteadyInit ==
  ASSUME ConstantsAssumption, Init
  PROVE  Steady
  BY InitInv, InitRooted, IdleCurrent DEF Steady, UpToDate, Init

\* And every step of the only client keeps it so.
LEMMA SteadyNext ==
  ASSUME ConstantsAssumption, Serial, Steady, [Next]_vars
  PROVE  Steady'
  BY NextInv, NextRooted, NextCurrent DEF Steady

-----------------------------------------------------------------------------
\* A seating that ends leaves no open bill: a payment closes it with its only open bill, and a
\* merge voids the one of the seating it cancels.
LEMMA EndedStep ==
  ASSUME ConstantsAssumption, Serial, Steady, Ops \cap SeatOps = {},
         EndedSeatingHasNoOpenBill, NEW c \in Clients, Write(c)
  PROVE  EndedSeatingHasNoOpenBill'
<1> SUFFICES ASSUME NEW o \in Orders, orders'[o].status = "open"
             PROVE  sessions'[orders'[o].session].status = "open"
  BY DEF EndedSeatingHasNoOpenBill
<1>0. PICK s : s = orders'[o].session
  OBVIOUS
<1>1. req[c].phase = "commit" /\ req[c].op \in Ops
  BY Commits DEF Steady, Rooted, OnItsSeating
<1>2. ~CloseSession(c) /\ ~CancelSession(c)
  BY <1>1 DEF CloseSession, CancelSession, Commit, SeatOps
<1>3. CASE orders[o].status = "open" /\ s = orders[o].session
  <2>1. s \in Sessions /\ sessions[s].status = "open"
    BY <1>3 DEF Steady, Rooted, EndedSeatingHasNoOpenBill
  <2>2. SessionStep(c, s)
    BY <2>1, WriteSessionStep DEF Steady
  <2>3. ~((PayPartial(c) \/ CheckoutCash(c)) /\ s = req[c].session
            /\ orders'[req[c].order].status = "closed")
    <3> SUFFICES ASSUME PayPartial(c) \/ CheckoutCash(c), s = req[c].session,
                        orders'[req[c].order].status = "closed"
                 PROVE  FALSE
      OBVIOUS
    <3>1. req[c].op \in BillOps /\ ~req[c].fresh
      BY Unfresh DEF PayPartial, CheckoutCash, Commit, BillOps, Steady
    <3>2. /\ req[c].order \in Orders /\ orders[req[c].order].status = "open"
          /\ orders[req[c].order].session = s
      BY <1>1, <3>1, OwnOrder, KindsApart DEF OrderOps
    <3>3. req[c].order = o
      BY <1>3, <3>2 DEF Steady, Inv, OneOpenOrder
    <3> QED
      BY <3>3
  <2>4. ~(MergeSessions(c) /\ s = req[c].source)
    <3> SUFFICES ASSUME MergeSessions(c), s = req[c].source PROVE FALSE
      OBVIOUS
    <3>1. o \in OpenOrders(req[c].source)
      BY <1>3 DEF OpenOrders
    <3> QED
      BY <3>1, MergedOrder
  <2> QED
    BY <1>0, <1>2, <2>1, <2>2, <2>3, <2>4 DEF SessionStep
<1>4. CASE req[c].fresh /\ o = req[c].order /\ s = req[c].session
  <2>1. req[c].op \in BillOps
    BY <1>4 DEF Steady, Inv, SlotHeld
  <2>2. s \in Sessions /\ sessions[s].status = "open"
    BY <1>1, <1>4, <2>1, OwnOrder
  <2>3. SessionStep(c, s)
    BY <2>2, WriteSessionStep DEF Steady
  <2>4. ~PayPartial(c) /\ ~CheckoutCash(c)
    BY <1>4, Unfresh DEF Steady
  <2>5. MergeSessions(c) => s # req[c].source
    BY <1>4, MergedOrder
  <2> QED
    BY <1>0, <1>2, <2>2, <2>3, <2>4, <2>5 DEF SessionStep
<1> QED
  BY <1>0, <1>3, <1>4, WriteStatus DEF Steady, Inv, StatusStepTo

\* Serial requests leave no open bill on a seating that ended, where close_session and
\* cancel_session, which look at no bill, are not called.
THEOREM EndedSeatingsAreSettled ==
  ASSUME ConstantsAssumption, Serial, Ops \cap SeatOps = {}
  PROVE  Spec => []EndedSeatingHasNoOpenBill
<1>1. Init => Steady /\ EndedSeatingHasNoOpenBill
  <2>1. ASSUME Init PROVE \A o \in Orders : orders[o].status = "none"
    BY <2>1 DEF Init, NewOrder
  <2> QED
    BY <2>1, SteadyInit DEF EndedSeatingHasNoOpenBill
<1>2. Steady /\ EndedSeatingHasNoOpenBill /\ [Next]_vars => (Steady /\ EndedSeatingHasNoOpenBill)'
  <2> SUFFICES ASSUME Steady, EndedSeatingHasNoOpenBill, [Next]_vars
               PROVE  EndedSeatingHasNoOpenBill'
    BY SteadyNext
  <2>1. CASE UNCHANGED <<sessions, orders, lines>>
    BY <2>1 DEF EndedSeatingHasNoOpenBill
  <2> QED
    BY <2>1, EndedStep, OnlyWritesWrite
<1> QED
  BY <1>1, <1>2, PTL DEF Spec

-----------------------------------------------------------------------------
\* The lines of a settled bill stay on it, at their price, and no other joins them.
LEMMA ClosedLines ==
  ASSUME ConstantsAssumption, Serial, Steady, NEW c \in Clients, Write(c),
         NEW o \in Orders, orders[o].status = "closed", NEW l \in Lines
  PROVE  /\ l \in LiveLines(o) <=> l \in LiveLines(o)'
         /\ l \in LiveLines(o) => lines'[l].total = lines[l].total
<1>1. req[c].phase = "commit"
  BY Commits
<1>2. ASSUME req[c].op \in BillOps \cup LineOps
      PROVE  o # req[c].order /\ Seen(c) = LiveLines(req[c].order)
  <2>1. req[c].op # "void_order"
    BY <1>2, KindsApart DEF OrderOps
  <2> QED
    BY <1>1, <1>2, <2>1, OwnOrder
<1>3. lines[l] \in Line
  BY DEF Steady, Inv, TypeOK
<1>4. CASE lines'[l] = lines[l]
  BY <1>4 DEF LiveLines
<1>5. CASE AddLine(c) /\ lines[l].status = "none" /\ lines'[l].order = req[c].order
  <2>1. o # req[c].order
    BY <1>2, <1>5 DEF AddLine, Commit, BillOps
  <2> QED
    BY <1>5, <2>1 DEF LiveLines
<1>6. CASE /\ UpdateLineQty(c) /\ l = req[c].line
           /\ lines'[l] = [lines[l] EXCEPT !.total = lines'[l].total]
  <2>1. req[c].op \in LineOps /\ l \in LiveLines(req[c].order)
    BY <1>1, <1>6, OwnOrder DEF UpdateLineQty, Commit, LineOps
  <2>2. lines[l].order # o
    BY <1>2, <2>1 DEF LiveLines
  <2>3. lines'[l].order = lines[l].order
    BY <1>3, <1>6 DEF Line
  <2> QED
    BY <2>2, <2>3 DEF LiveLines
<1>7. CASE VoidLine(c) /\ l \in Seen(c) /\ lines'[l] = Removed(lines[l])
  <2>1. lines[l].order # o
    BY <1>2, <1>7 DEF LiveLines, VoidLine, Commit, LineOps
  <2>2. lines'[l].order = lines[l].order
    BY <1>3, <1>7 DEF Line, Removed
  <2> QED
    BY <2>1, <2>2 DEF LiveLines
<1>8. CASE VoidOrder(c) /\ lines'[l] = [lines[l] EXCEPT !.reversals = @ + 1]
  <2>1. /\ lines'[l].status = lines[l].status /\ lines'[l].order = lines[l].order
        /\ lines'[l].total = lines[l].total
    BY <1>3, <1>8 DEF Line
  <2> QED
    BY <2>1 DEF LiveLines
<1>9. CASE /\ MergeSessions(c) /\ l \in req[c].moved
           /\ lines'[l] = [lines[l] EXCEPT !.order = req[c].order]
  <2>1. lines[l].order # o
    BY <1>9, MergedOrder
  <2>2. o # req[c].order
    BY <1>2, <1>9 DEF MergeSessions, Commit, BillOps
  <2>3. lines'[l].order = req[c].order
    BY <1>3, <1>9 DEF Line
  <2> QED
    BY <2>1, <2>2, <2>3 DEF LiveLines
<1> QED
  BY <1>4, <1>5, <1>6, <1>7, <1>8, <1>9, WriteLineStep DEF LineStep, Steady, Inv

\* The row of a settled bill changes its status at most.
LEMMA ClosedRow ==
  ASSUME ConstantsAssumption, Serial, Steady, NEW c \in Clients, Write(c),
         NEW o \in Orders, orders[o].status = "closed"
  PROVE  orders'[o] = [orders[o] EXCEPT !.status = orders'[o].status]
<1>1. req[c].phase = "commit" /\ orders[o] \in Order
  BY Commits DEF Steady, Inv, TypeOK
<1>2. CASE orders'[o] = orders[o]
  BY <1>1, <1>2 DEF Order
<1>3. CASE VoidOrder(c)
  <2>1. PICK p : p = req[c].order /\ orders' = [orders EXCEPT ![p].status = "voided"]
    BY <1>3 DEF VoidOrder
  <2> QED
    BY <1>1, <1>2, <2>1 DEF Steady, Inv, TypeOK, Order
<1>4. CASE ~VoidOrder(c) /\ orders' # orders
  <2>1. req[c].op \in BillOps \cup LineOps \cup OrderOps
    BY <1>4, Commits
  <2>2. req[c].op # "void_order"
    BY <1>4 DEF Write, Commit, OpenSession, CloseSession, CancelSession, TransferSession, AddLine,
         UpdateLineQty, VoidLine, ApplyDiscount, SetServiceCharge, GetSessionOrder, Quote,
         PayPartial, CheckoutCash, MergeSessions, CloseOrder
  <2>3. o # req[c].order
    BY <1>1, <2>1, <2>2, OwnOrder
  <2>4. Saved(c)[o] = orders[o]
    BY <2>3, SavedRows DEF Steady, Inv
  <2>5. OrderStep(c, o)
    BY WriteOrderStep DEF Steady
  <2>6. CASE orders'[o].status = orders[o].status
    BY <1>1, <1>2, <2>3, <2>4, <2>5, <2>6 DEF OrderStep, Order
  <2>7. CASE MergeSessions(c) /\ o = req[c].from
    <3>1. req[c].from # None
      BY <2>7 DEF ConstantsAssumption
    <3>2. req[c].from \in OpenOrders(req[c].source)
      BY <1>1, <2>7, <3>1 DEF Steady, UpToDate, Current
    <3> QED
      BY <2>7, <3>2 DEF OpenOrders
  <2> QED
    BY <2>3, <2>4, <2>5, <2>6, <2>7 DEF OrderStep
<1> QED
  BY <1>2, <1>3, <1>4

\* What a settled bill charges does not change.
LEMMA ClosedCharges ==
  ASSUME ConstantsAssumption, Serial, Steady, NEW c \in Clients, Write(c),
         NEW o \in Orders, orders[o].status = "closed"
  PROVE  Charges(o)' = Charges(o)
<1>1. LiveLines(o)' = LiveLines(o)
  <2>1. LiveLines(o) \subseteq Lines /\ LiveLines(o)' \subseteq Lines
    BY DEF LiveLines
  <2> QED
    BY <2>1, ClosedLines
<1>2. \A l \in LiveLines(o) : l \in Lines /\ lines'[l].total = lines[l].total
  BY ClosedLines DEF LiveLines
<1> QED
  BY <1>1, <1>2 DEF Charges

\* Nothing a serial request does changes the lines, discounts, charges or payments of a bill
\* that was settled.
THEOREM SettledBillsAreFrozen ==
  ASSUME ConstantsAssumption, Serial
  PROVE  Spec => SettledBillFrozen
<1> DEFINE Frozen == \A o \in Orders : orders[o].status = "closed" =>
                       /\ orders'[o] = [orders[o] EXCEPT !.status = orders'[o].status]
                       /\ Charges(o)' = Charges(o)
<1>1. Init => Steady
  BY SteadyInit
<1>2. Steady /\ [Next]_vars => Steady'
  BY SteadyNext
<1>3. Steady /\ [Next]_vars => [Frozen]_vars
  <2> SUFFICES ASSUME Steady, [Next]_vars PROVE Frozen
    OBVIOUS
  <2>1. CASE UNCHANGED <<sessions, orders, lines>>
    <3>1. \A o \in Orders : orders[o] \in Order
      BY DEF Steady, Inv, TypeOK
    <3> QED
      BY <2>1, <3>1 DEF Charges, LiveLines, Order
  <2>2. CASE \E c \in Clients : Write(c)
    BY <2>2, ClosedRow, ClosedCharges
  <2> QED
    BY <2>1, <2>2, OnlyWritesWrite
<1> QED
  BY <1>1, <1>2, <1>3, PTL DEF Spec, SettledBillFrozen

-----------------------------------------------------------------------------
\* A void reverses the stock of each line once, and no other commit reverses any.
LEMMA LedgerStep ==
  ASSUME ConstantsAssumption, Serial, Steady, StockReversedOnce, NEW c \in Clients, Write(c),
         NEW l \in Lines
  PROVE  lines'[l].reversals =
           IF \/ lines'[l].status = "removed"
              \/ lines'[l].status = "live" /\ orders'[lines'[l].order].status = "voided"
             THEN 1 ELSE 0
<1> DEFINE Ledger == lines'[l].reversals =
              IF \/ lines'[l].status = "removed"
                 \/ lines'[l].status = "live" /\ orders'[lines'[l].order].status = "voided"
                THEN 1 ELSE 0
<1>1. PICK r : r = req[c] /\ r.phase = "commit"
  BY Commits
<1>2. lines[l] \in Line
  BY DEF Steady, Inv, TypeOK
<1>3. lines[l].reversals =
        IF \/ lines[l].status = "removed"
           \/ lines[l].status = "live" /\ orders[lines[l].order].status = "voided"
          THEN 1 ELSE 0
  BY DEF StockReversedOnce
<1>4. ASSUME lines[l].status = "live", orders[lines[l].order].status # "voided"
      PROVE  lines[l].reversals = 0
  BY <1>3, <1>4
<1>5. CASE lines'[l] = lines[l]
  <2>1. CASE lines[l].status # "live"
    BY <1>3, <1>5, <2>1
  <2>2. CASE lines[l].status = "live"
    <3>1. PICK q \in Orders : q = lines[l].order /\ orders[q].status # "none"
      BY <2>2 DEF Steady, Inv, KnownOrders, Exists, ExistsIn
    <3>2. Saved(c)[q] = orders[q]
      BY <3>1, SavedRows DEF Steady, Inv, SlotHeld
    <3>3. OrderStep(c, q)
      BY WriteOrderStep DEF Steady
    <3>4. CASE orders'[q].status = orders[q].status
      BY <1>3, <1>5, <3>1, <3>4
    <3>5. CASE /\ PayPartial(c) \/ CheckoutCash(c) \/ CloseOrder(c)
               /\ q = r.order /\ orders'[q].status = "closed"
      <4>1. r.op \in BillOps \cup {"close_order"}
        BY <1>1, <3>5 DEF PayPartial, CheckoutCash, CloseOrder, Commit, BillOps
      <4>2. orders[q].status # "voided"
        BY <1>1, <3>1, <3>5, <4>1, OwnOrder DEF OrderOps
      <4> QED
        BY <1>4, <1>5, <2>2, <3>1, <3>5, <4>2
    <3>6. CASE VoidOrder(c) /\ q = r.order
      <4>1. Seen(c) = LiveLines(q)
        BY <1>1, <3>6, OwnOrder DEF VoidOrder, Commit, OrderOps
      <4>2. l \in Seen(c)
        BY <2>2, <3>1, <4>1 DEF LiveLines
      <4>3. lines'[l] = [lines[l] EXCEPT !.reversals = @ + 1]
        BY <3>6, <4>2 DEF VoidOrder
      <4>4. lines'[l].reversals = lines[l].reversals + 1 /\ lines[l].reversals \in Nat
        BY <1>2, <4>3 DEF Line
      <4> QED
        BY <1>5, <4>4
    <3>7. CASE MergeSessions(c) /\ q = r.from /\ r.from # None
      <4>1. l \in r.moved
        <5>1. l \in LiveLines(req[c].from)
          BY <1>1, <2>2, <3>1, <3>7 DEF LiveLines
        <5> QED
          BY <1>1, <3>7, <5>1, MergedOrder
      <4>2. lines'[l] = [lines[l] EXCEPT !.order = r.order]
        BY <1>1, <3>7, <4>1 DEF MergeSessions
      <4>3. lines'[l].order = r.order
        BY <1>2, <4>2 DEF Line
      <4>4. r.from \in OpenOrders(r.source)
        BY <1>1, <3>7 DEF Steady, UpToDate, Current, MergeSessions, Commit
      <4>5. r.from # r.order
        BY <1>1, <3>7, <4>4, MergedOrder
      <4> QED
        BY <1>5, <3>1, <3>7, <4>3, <4>5
    <3> QED
      BY <1>1, <3>2, <3>3, <3>4, <3>5, <3>6, <3>7 DEF OrderStep
  <2> QED
    BY <2>1, <2>2
<1>6. CASE /\ AddLine(c) /\ lines'[l].status = "live"
           /\ lines'[l].order = r.order /\ lines'[l].reversals = 0
  <2>1. r.op \in BillOps /\ r.op # "void_order"
    BY <1>1, <1>6 DEF AddLine, Commit, BillOps
  <2>2. r.order \in Orders
    BY <1>1, <2>1, OwnOrder
  <2>3. orders'[r.order] = Saved(c)[r.order]
    BY <1>1, <1>6 DEF AddLine
  <2>4. Saved(c)[r.order].status = "open"
    <3>1. CASE r.fresh
      <4>1. Saved(c)[r.order] = NewOrder(r.session)
        BY <1>1, <2>2, <3>1, SavedRows DEF Steady, Inv
      <4> QED
        BY <4>1 DEF NewOrder
    <3>2. CASE ~r.fresh
      <4>1. Saved(c)[r.order] = orders[r.order]
        BY <1>1, <2>2, <3>2, SavedRows DEF Steady, Inv
      <4> QED
        BY <1>1, <2>1, <3>2, <4>1, OwnOrder
    <3> QED
      BY <3>1, <3>2
  <2> QED
    BY <1>6, <2>3, <2>4
<1>7. CASE UpdateLineQty(c) /\ lines'[l] = [lines[l] EXCEPT !.total = lines'[l].total]
  <2>1. /\ lines'[l].status = lines[l].status /\ lines'[l].order = lines[l].order
        /\ lines'[l].reversals = lines[l].reversals
    BY <1>2, <1>7 DEF Line
  <2>2. orders' = orders
    BY <1>7 DEF UpdateLineQty
  <2> QED
    BY <1>3, <2>1, <2>2
<1>8. CASE VoidLine(c) /\ l \in Seen(c) /\ lines'[l] = Removed(lines[l])
  <2>1. r.op = "void_line" /\ r.op \in LineOps
    BY <1>1, <1>8 DEF VoidLine, Commit, LineOps
  <2>2. ~r.fresh
    BY <1>1, <1>8, Unfresh DEF VoidLine, AllOps, LineOps, BillOps, Steady
  <2>3. orders[r.order].status = "open" /\ l \in LiveLines(r.order)
    BY <1>1, <1>8, <2>1, <2>2, OwnOrder
  <2>4. lines[l].reversals = 0
    BY <1>4, <2>3 DEF LiveLines
  <2>5. lines'[l].status = "removed" /\ lines'[l].reversals = 1
    BY <1>2, <1>8, <2>4 DEF Removed, Line
  <2> QED
    BY <2>5
<1>9. CASE VoidOrder(c) /\ l \in Seen(c) /\ lines'[l] = [lines[l] EXCEPT !.reversals = @ + 1]
  <2>1. r.op = "void_order" /\ r.op \in OrderOps /\ r.op \notin BillOps
    BY <1>1, <1>9 DEF VoidOrder, Commit, OrderOps, BillOps
  <2>2. /\ orders[r.order].status \in {"open", "closed"} /\ l \in LiveLines(r.order)
        /\ r.order \in Orders
    BY <1>1, <1>9, <2>1, OwnOrder
  <2>3. lines[l].reversals = 0 /\ lines[l].status = "live" /\ lines[l].order = r.order
    BY <1>4, <2>2 DEF LiveLines
  <2>4. lines'[l].reversals = 1 /\ lines'[l].status = "live" /\ lines'[l].order = r.order
    BY <1>2, <1>9, <2>3 DEF Line
  <2>5. orders'[r.order].status = "voided"
    BY <1>1, <1>9, <2>2 DEF VoidOrder, Steady, Inv, TypeOK, Order
  <2> QED
    BY <2>4, <2>5
<1>10. CASE MergeSessions(c) /\ l \in r.moved /\ lines'[l] = [lines[l] EXCEPT !.order = r.order]
  <2>1. /\ orders'[r.order].status = "open" /\ lines[l].status = "live"
        /\ orders[lines[l].order].status = "open"
    BY <1>1, <1>10, MergedOrder
  <2>2. lines[l].reversals = 0
    BY <1>4, <2>1
  <2>3. lines'[l].reversals = 0 /\ lines'[l].status = "live" /\ lines'[l].order = r.order
    BY <1>2, <1>10, <2>1, <2>2 DEF Line
  <2> QED
    BY <2>1, <2>3
<1> HIDE DEF Ledger
<1>11. Ledger
  BY <1>1, <1>5, <1>6, <1>7, <1>8, <1>9, <1>10, WriteLineStep DEF LineStep, Steady, Inv, Ledger
<1> QED
  BY <1>11 DEF Ledger

\* Serial requests reverse the stock of a line exactly once, when it or its order is voided.
THEOREM StockIsReversedOnce ==
  ASSUME ConstantsAssumption, Serial
  PROVE  Spec => []StockReversedOnce
<1>1. Init => Steady /\ StockReversedOnce
  <2>1. ASSUME Init PROVE \A l \in Lines : lines[l].status = "none" /\ lines[l].reversals = 0
    BY <2>1 DEF Init, NewLine
  <2> QED
    BY <2>1, SteadyInit DEF StockReversedOnce
<1>2. Steady /\ StockReversedOnce /\ [Next]_vars => (Steady /\ StockReversedOnce)'
  <2> SUFFICES ASSUME Steady, StockReversedOnce, [Next]_vars PROVE StockReversedOnce'
    BY SteadyNext
  <2>1. CASE UNCHANGED <<sessions, orders, lines>>
    BY <2>1 DEF StockReversedOnce
  <2>2. ASSUME NEW c \in Clients, Write(c) PROVE StockReversedOnce'
    BY <2>2, LedgerStep DEF StockReversedOnce
  <2> QED
    BY <2>1, <2>2, OnlyWritesWrite
<1> QED
  BY <1>1, <1>2, PTL DEF Spec

-----------------------------------------------------------------------------
(***************************************************************************)
(* The money arithmetic.  What is proved of it is that it always returns a *)
(* number, whatever the rows; with that, a payment of what remains is a    *)
(* payment of the bill.                                                    *)
(***************************************************************************)
Running == [num : Int, den : Nat \ {0}, total : Int]

\* Rounding returns an integer.
LEMMA RoundedType ==
  ASSUME NEW n \in Int, NEW d \in Nat \ {0}
  PROVE  HalfUp(n, d) \in Int /\ HalfEven(n, d) \in Int
<1>1. n \div d \in Int /\ (2 * n + d) \div (2 * d) \in Int
  OBVIOUS
<1> QED
  BY <1>1 DEF HalfUp, HalfEven

\* A row turns a running subtotal into a running subtotal.
LEMMA ApplyRowType ==
  ASSUME NEW acc \in Running, NEW row \in Row
  PROVE  ApplyRow(acc, row) \in Running
<1> DEFINE finer   == IF row.kind \in RatioKinds THEN 100 ELSE 1
           removed == IF row.kind \in RatioKinds THEN acc.num * row.value
                      ELSE IF row.kind \in FlatKinds THEN row.value * acc.den
                      ELSE IF acc.num > 0 THEN acc.num ELSE 0
<1>1. acc.num \in Int /\ acc.den \in Nat \ {0} /\ acc.total \in Int /\ row.value \in Nat
  BY DEF Running, Row
<1>2. acc.num * row.value \in Int /\ row.value * acc.den \in Int
  BY <1>1
<1>3. removed \in Int
  BY <1>1, <1>2
<1>4. acc.num * finer \in Int /\ acc.den * finer \in Nat \ {0}
  BY <1>1
<1>5. HalfUp(removed, acc.den * finer) \in Int
  <2> HIDE DEF removed, finer
  <2> QED
    BY <1>3, <1>4, RoundedType
<1>6. ApplyRow(acc, row) = [num   |-> acc.num * finer - removed,
                            den   |-> acc.den * finer,
                            total |-> acc.total + HalfUp(removed, acc.den * finer)]
  BY DEF ApplyRow
<1> HIDE DEF removed, finer
<1> QED
  BY <1>1, <1>3, <1>4, <1>5, <1>6 DEF Running

\* There is always a row that is applied last.
LEMMA LastAppliedIn ==
  ASSUME NEW rows \in Seq(Row)
  PROVE  \A S \in SUBSET DOMAIN rows : S # {} => LastApplied(rows, S) \in S
<1> DEFINE place == [i \in DOMAIN rows |-> Place(rows[i].kind) * Len(rows) + i]
<1>1. Len(rows) \in Nat /\ DOMAIN rows = 1 .. Len(rows)
  OBVIOUS
<1>2. IsFiniteSet(DOMAIN rows)
  BY <1>1, FS_Interval
<1>3. \A i \in DOMAIN rows : Place(rows[i].kind) \in Nat
  <2> TAKE i \in DOMAIN rows
  <2>1. rows[i] \in Row
    OBVIOUS
  <2>2. rows[i].kind \in RatioKinds \cup FlatKinds \cup {"comp"}
    BY <2>1 DEF Row
  <2> QED
    BY <2>2 DEF Place, RatioKinds, FlatKinds
<1>4. \A i \in DOMAIN rows : place[i] \in Int
  <2> TAKE i \in DOMAIN rows
  <2>1. Place(rows[i].kind) * Len(rows) \in Int
    BY <1>1, <1>3
  <2> QED
    BY <1>1, <2>1
<1>5. \A S \in SUBSET DOMAIN rows : S # {} => \E i \in S : \A j \in S : place[j] <= place[i]
  <2> HIDE DEF place
  <2> QED
    BY <1>2, <1>4, LargestExists
<1> QED
  BY <1>5 DEF LastApplied

\* The running subtotals of a bill: what every set of its rows leaves, the row that comes last
\* in the stacking order applied to what the others leave.
RunsThrough(subtotal, rows, g) ==
  /\ g \in [SUBSET DOMAIN rows -> Running]
  /\ g[{}] = [num |-> subtotal, den |-> 1, total |-> 0]
  /\ \A s \in SUBSET DOMAIN rows : s # {} =>
       g[s] = ApplyRow(g[s \ {LastApplied(rows, s)}], rows[LastApplied(rows, s)])

\* The fold of the discount rows runs through their subtotals.
LEMMA DiscountsRun ==
  ASSUME NEW subtotal \in Int, NEW rows \in Seq(Row)
  PROVE  \E g : RunsThrough(subtotal, rows, g) /\ DiscountTotal(subtotal, rows) = g[DOMAIN rows].total
<1> DEFINE D == DOMAIN rows
           base == [num |-> subtotal, den |-> 1, total |-> 0]
           step == [p \in D \X Running |-> ApplyRow(p[2], rows[p[1]])]
           order == [s \in SUBSET D |-> LastApplied(rows, s)]
           Applied(h) == h = [s \in SUBSET D |->
                                IF s = {} THEN base
                                ELSE ApplyRow(h[s \ {LastApplied(rows, s)}],
                                              rows[LastApplied(rows, s)])]
           iter == CHOOSE h : Applied(h)
<1>1. IsFiniteSet(D)
  BY FS_Interval
<1>2. \A s \in SUBSET D : s # {} => LastApplied(rows, s) \in s
  BY LastAppliedIn
<1>3. base \in Running
  BY DEF Running
<1>4. step \in [D \X Running -> Running]
  BY ApplyRowType
<1>5. PICK g \in [SUBSET D -> Running] : Folds(base, step, order, D, g)
  <2> HIDE DEF base, step, D
  <2> QED
    BY <1>1, <1>2, <1>3, <1>4, FoldsExist
<1>6. DiscountTotal(subtotal, rows) = iter[D].total
  BY Zenon DEF DiscountTotal, MapThenFoldSet
<1>7. ASSUME NEW s \in SUBSET D, s # {}
      PROVE  g[s] = ApplyRow(g[s \ {LastApplied(rows, s)}], rows[LastApplied(rows, s)])
  <2>1. PICK i \in D : i = LastApplied(rows, s) /\ i \in s
    BY <1>2, <1>7
  <2>2. g[s] = step[<<i, g[s \ {i}]>>]
    BY <1>5, <1>7, <2>1 DEF Folds
  <2>3. <<i, g[s \ {i}]>> \in D \X Running
    BY <1>5, <2>1
  <2> QED
    BY <2>1, <2>2, <2>3
<1>8. g[{}] = base
  BY <1>5 DEF Folds
<1>9. Applied(g)
  <2>1. g = [s \in SUBSET D |-> g[s]]
    BY <1>5
  <2> HIDE DEF base, D
  <2> QED
    BY <1>7, <1>8, <2>1
<1>10. Applied(iter)
  BY <1>9
<1> DEFINE Q == {s \in SUBSET D : iter[s] = g[s]}
<1> HIDE DEF iter
<1>11. \A s \in SUBSET D :
         iter[s] = IF s = {} THEN base
                   ELSE ApplyRow(iter[s \ {LastApplied(rows, s)}], rows[LastApplied(rows, s)])
  BY <1>10
<1>12. ASSUME NEW s \in SUBSET D, \A x \in s : s \ {x} \in Q PROVE s \in Q
  <2>1. CASE s = {}
    BY <1>8, <1>11, <2>1
  <2>2. CASE s # {}
    <3>1. PICK i \in s : i = LastApplied(rows, s)
      BY <1>2, <2>2
    <3>2. iter[s \ {i}] = g[s \ {i}]
      BY <1>12
    <3>3. iter[s] = ApplyRow(iter[s \ {i}], rows[i]) /\ g[s] = ApplyRow(g[s \ {i}], rows[i])
      BY <1>7, <1>11, <2>2, <3>1
    <3> QED
      BY <3>2, <3>3
  <2> QED
    BY <2>1, <2>2
<1>13. Q = SUBSET D
  <2>1. Q \in SUBSET SUBSET D
    OBVIOUS
  <2> HIDE DEF Q, D
  <2> QED
    BY <1>1, <1>12, <2>1, SizeInduction
<1> QED
  <2>1. D \in Q
    BY <1>13
  <2>2. iter[D] = g[D]
    BY <2>1
  <2>3. RunsThrough(subtotal, rows, g)
    BY <1>5, <1>7, <1>8 DEF RunsThrough
  <2> QED
    BY <1>6, <2>2, <2>3

\* Whatever the rows, their discounts add up to a number.
LEMMA DiscountTotalType ==
  ASSUME NEW subtotal \in Int, NEW rows \in Seq(Row)
  PROVE  DiscountTotal(subtotal, rows) \in Int
<1>1. PICK g : RunsThrough(subtotal, rows, g) /\ DiscountTotal(subtotal, rows) = g[DOMAIN rows].total
  BY DiscountsRun
<1>2. g[DOMAIN rows] \in Running
  BY <1>1 DEF RunsThrough
<1> QED
  BY <1>1, <1>2 DEF Running

\* So is what is due for a gross.
LEMMA AmountType ==
  ASSUME NEW gross \in Int, NEW rows \in Seq(Row), NEW rate \in Nat
  PROVE  AmountDue(gross, rows, rate) \in Int
<1>1. DiscountTotal(gross, rows) \in Int
  BY DiscountTotalType
<1>2. HalfEven(gross * rate, 100) \in Int
  <2>1. gross * rate \in Int
    OBVIOUS
  <2> QED
    BY <2>1, RoundedType
<1> QED
  BY <1>1, <1>2 DEF AmountDue, NetRevenue

\* The amount due of finitely many lines is a number.
LEMMA DueType ==
  ASSUME NEW charges \in SUBSET Charge, IsFiniteSet(charges), NEW rows \in Seq(Row),
         NEW rate \in Nat
  PROVE  AmountDue(Gross(charges), rows, rate) \in Int
<1>1. Gross(charges) \in Int
  <2>1. \A x \in charges : x.total \in Int
    BY DEF Charge
  <2> QED
    BY <2>1, SumOfTotals DEF Gross
<1> QED
  BY <1>1, AmountType

\* What a bill asks for, as long as its lines, discounts and rate stay.
LEMMA ChargesFinite ==
  ASSUME IsFiniteSet(Lines), TypeOK, NEW o \in Orders
  PROVE  Charges(o) \in SUBSET Charge /\ IsFiniteSet(Charges(o))
<1>1. LiveLines(o) \in SUBSET Lines /\ IsFiniteSet(LiveLines(o))
  <2>1. LiveLines(o) \in SUBSET Lines
    BY DEF LiveLines
  <2> QED
    BY <2>1, FS_Subset
<1>2. Charges(o) \in SUBSET Charge
  BY <1>1 DEF Charges, Charge, TypeOK, Line
<1>3. IsFiniteSet(Charges(o))
  <2> DEFINE charge == [l \in LiveLines(o) |-> [line |-> l, total |-> lines[l].total]]
  <2>1. Charges(o) = {charge[l] : l \in LiveLines(o)}
    BY DEF Charges
  <2>2. charge \in Surjection(LiveLines(o), Charges(o))
    BY <2>1 DEF Surjection
  <2> HIDE DEF charge
  <2> QED
    BY <1>1, <2>2, FS_Surjection
<1> QED
  BY <1>2, <1>3

\* The payment that settles a bill is the rest of what the bill asks for.
LEMMA SettlesExactly ==
  ASSUME ConstantsAssumption, IsFiniteSet(Lines), Steady, NEW c \in Clients,
         PayPartial(c) \/ CheckoutCash(c),
         NEW o \in Orders, o = req[c].order, orders'[o].status = "closed"
  PROVE  orders'[o].paid = Due(o)'
<1>1. PICK r : r = req[c] /\ r.phase = "commit" /\ r.op \in BillOps
  BY DEF PayPartial, CheckoutCash, Commit, BillOps
<1>2. o = r.order
  BY <1>1
<1>3. ~r.fresh
  BY <1>1, Unfresh DEF Steady, PayPartial, CheckoutCash
<1>4. /\ Current(r) /\ r.op # "void_order" /\ orders[o].status = "open"
      /\ orders[o] \in Order /\ r.view \in View
  <2>1. r.op # "void_order"
    BY <1>1, KindsApart DEF OrderOps
  <2> QED
    BY <1>1, <1>2, <1>3, <2>1, OwnOrder DEF Steady, UpToDate, Inv, TypeOK, Request
<1>5. /\ r.rate = orders[o].rate
      /\ r.view = [rows |-> orders[o].rows, paid |-> orders[o].paid, charges |-> Charges(o)]
  BY <1>1, <1>2, <1>3, <1>4 DEF Current
<1>6. PICK auto, amount, closes :
        /\ Pay(c, auto, amount, closes)
        /\ auto \in AutoRows(r.view)
        /\ closes => amount = Remaining(c, auto)
        /\ amount \in Nat
  <2>1. CASE PayPartial(c)
    BY <1>1, <2>1 DEF PayPartial, ConstantsAssumption
  <2>2. CASE CheckoutCash(c)
    BY <1>1, <2>2 DEF CheckoutCash
  <2> QED
    BY <2>1, <2>2
<1>7. auto \in Seq(Row)
  BY <1>4, <1>6, AutoRowsType
<1>8. PICK after : /\ after = orders'[o]
                   /\ after.rows = orders[o].rows \o auto /\ after.rate = orders[o].rate
                   /\ after.paid = orders[o].paid + amount
                   /\ after.status = IF closes THEN "closed" ELSE orders[o].status
  <2>1. PICK f : f = orders /\ f \in [Orders -> Order]
    BY DEF Steady, Inv, TypeOK
  <2>2. orders' = [f EXCEPT ![o].rows = @ \o auto, ![o].paid = @ + amount,
                            ![o].status = IF closes THEN "closed" ELSE @]
    BY <1>1, <1>2, <1>6, <2>1 DEF Pay
  <2>3. PICK before : before = f[o] /\ before \in Order
    BY <2>1
  <2>4. orders'[o] = [before EXCEPT !.rows = @ \o auto, !.paid = @ + amount,
                                    !.status = IF closes THEN "closed" ELSE @]
    BY <2>1, <2>2, <2>3
  <2>5. /\ orders'[o].rows = before.rows \o auto /\ orders'[o].rate = before.rate
        /\ orders'[o].paid = before.paid + amount
        /\ orders'[o].status = IF closes THEN "closed" ELSE before.status
    BY <2>3, <2>4 DEF Order
  <2> QED
    BY <2>1, <2>3, <2>5
<1>9. closes
  BY <1>1, <1>2, <1>4, <1>8
<1>10. PICK due : /\ due = AmountDue(Gross(Charges(o)), orders[o].rows \o auto, orders[o].rate)
                  /\ due \in Int
  <2>1. orders[o].rows \o auto \in Seq(Row) /\ orders[o].rate \in Nat
    BY <1>4, <1>7 DEF Order
  <2>2. Charges(o) \in SUBSET Charge /\ IsFiniteSet(Charges(o))
    BY ChargesFinite DEF Steady, Inv
  <2> QED
    BY <2>1, <2>2, DueType
<1>11. amount = due - orders[o].paid
  <2>1. Remaining(c, auto) = AmountDue(Gross(r.view.charges), r.view.rows \o auto, r.rate)
                               - r.view.paid
    BY <1>1 DEF Remaining
  <2> QED
    BY <1>5, <1>6, <1>9, <1>10, <2>1
<1>12. after.paid = due
  <2>1. orders[o].paid \in Int
    BY <1>4 DEF Order
  <2>2. after.paid = orders[o].paid + amount
    BY <1>8
  <2> QED
    BY <1>10, <1>11, <2>1, <2>2
<1>13. Charges(o)' = Charges(o)
  BY <1>6 DEF Pay, Charges, LiveLines
<1>14. Due(o)' = due
  BY <1>8, <1>10, <1>13 DEF Due
<1> QED
  BY <1>1, <1>2, <1>8, <1>12, <1>14

\* A bill that serial requests settled, where none is closed without a payment, was collected
\* to the cent.
THEOREM BillsSettleExactly ==
  ASSUME ConstantsAssumption, Serial, IsFiniteSet(Lines)
  PROVE  Spec => []SettledExactly
<1>1. Init => Steady /\ SettledExactly
  <2>1. Init => \A o \in Orders : orders[o].status = "none"
    BY DEF Init, NewOrder
  <2> QED
    BY <2>1, SteadyInit DEF SettledExactly
<1>2. Steady /\ SettledExactly /\ [Next]_vars => (Steady /\ SettledExactly)'
  <2> SUFFICES ASSUME Steady, SettledExactly, [Next]_vars, "close_order" \notin Ops,
                      NEW o \in Orders, orders'[o].status = "closed"
               PROVE  orders'[o].paid = Due(o)'
    BY SteadyNext DEF SettledExactly
  <2>1. orders[o].status = "closed" => orders[o].paid = Due(o)
    BY DEF SettledExactly
  <2>2. ASSUME orders[o].status = "closed", Charges(o)' = Charges(o),
               orders'[o].rows = orders[o].rows, orders'[o].rate = orders[o].rate,
               orders'[o].paid = orders[o].paid
        PROVE  orders'[o].paid = Due(o)'
    BY <2>1, <2>2 DEF Due
  <2>3. CASE UNCHANGED <<sessions, orders, lines>>
    <3>1. Charges(o)' = Charges(o)
      BY <2>3 DEF Charges, LiveLines
    <3> QED
      BY <2>2, <2>3, <3>1
  <2>4. ASSUME NEW c \in Clients, Write(c) PROVE orders'[o].paid = Due(o)'
    <3>1. CASE orders[o].status = "closed"
      <4>1. orders'[o] = [orders[o] EXCEPT !.status = orders'[o].status]
        BY <2>4, <3>1, ClosedRow
      <4>2. /\ orders'[o].rows = orders[o].rows /\ orders'[o].rate = orders[o].rate
            /\ orders'[o].paid = orders[o].paid
        BY <4>1 DEF Steady, Inv, TypeOK, Order
      <4>3. Charges(o)' = Charges(o)
        BY <2>4, <3>1, ClosedCharges
      <4> QED
        BY <2>2, <3>1, <4>2, <4>3
    <3>2. CASE orders[o].status # "closed"
      <4>1. req[c].phase = "commit" /\ OrderStep(c, o)
        BY <2>4, Commits, WriteOrderStep DEF Steady
      <4>2. Saved(c)[o].status # "closed"
        <5>1. CASE Saved(c)[o] = orders[o]
          BY <3>2, <5>1
        <5>2. CASE Saved(c)[o] = NewOrder(req[c].session)
          BY <5>2 DEF NewOrder
        <5> QED
          BY <5>1, <5>2 DEF Saved, Steady, Inv, TypeOK
      <4>3. ~CloseOrder(c)
        BY <4>1 DEF CloseOrder, Commit, Steady, Rooted, OnItsSeating
      <4>4. (PayPartial(c) \/ CheckoutCash(c)) /\ o = req[c].order
        BY <4>1, <4>2, <4>3 DEF OrderStep
      <4> QED
        BY <4>4, SettlesExactly
    <3> QED
      BY <3>1, <3>2
  <2> QED
    BY <2>3, <2>4, OnlyWritesWrite
<1> QED
  BY <1>1, <1>2, PTL DEF Spec

-----------------------------------------------------------------------------
(***************************************************************************)
(* Bills that ask for more when they are dearer.  Every row's share is      *)
(* rounded on its own, so a second ratio row, or a comp after a ratio, can *)
(* make a dearer bill ask for less; and an automatic row that comes after  *)
(* other rows is not guarded.  A plain bill has neither.                   *)
(***************************************************************************)
Plain(rows) ==
  /\ \A i, j \in DOMAIN rows :
       rows[i].kind \in RatioKinds =>
         rows[j].kind # "comp" /\ (rows[j].kind \in RatioKinds => j = i)
  /\ \A i \in DOMAIN rows : rows[i].auto => i = 1

\* Rounding half up: a share of at most the whole grows no faster than the whole, a whole
\* number of cents is not changed.
LEMMA HalfUpGrows ==
  ASSUME NEW g \in Int, NEW h \in Int, g <= h, NEW v \in Nat, v <= 100
  PROVE  HalfUp(h * v, 100) - HalfUp(g * v, 100) <= h - g
<1>1. PICK a \in Int, b \in Int, k \in Int : a = g * v /\ b = h * v /\ k = h - g
  OBVIOUS
<1>2. b - a <= 100 * k
  <2>1. b - a = (h - g) * v
    BY <1>1
  <2>2. (h - g) * v <= (h - g) * 100
    BY <1>1
  <2> QED
    BY <1>1, <2>1, <2>2
<1>3. (2 * b + 100) \div 200 <= (2 * a + 100) \div 200 + k
  BY <1>2
<1> QED
  BY <1>1, <1>3 DEF HalfUp

\* A whole number of cents is its own rounding.
LEMMA HalfUpWhole ==
  ASSUME NEW n \in Int
  PROVE  HalfUp(n, 1) = n /\ HalfUp(n * 1, 1) = n /\ HalfUp(n * 100, 100) = n
<1>1. (2 * n + 1) \div 2 = n /\ (2 * (n * 100) + 100) \div 200 = n
  OBVIOUS
<1> QED
  BY <1>1 DEF HalfUp

\* Rounding half to even keeps the order.
LEMMA HalfEvenGrows ==
  ASSUME NEW a \in Nat, NEW b \in Nat, a <= b
  PROVE  HalfEven(a, 100) \in Nat /\ HalfEven(a, 100) <= HalfEven(b, 100)
<1>1. PICK p \in Nat, q \in 0 .. 99 : p = a \div 100 /\ q = a % 100 /\ a = 100 * p + q
  OBVIOUS
<1>2. PICK m \in Nat, n \in 0 .. 99 : m = b \div 100 /\ n = b % 100 /\ b = 100 * m + n
  OBVIOUS
<1>3. HalfEven(a, 100) = IF 2 * q > 100 \/ (2 * q = 100 /\ p % 2 = 1) THEN p + 1 ELSE p
  BY <1>1 DEF HalfEven
<1>4. HalfEven(b, 100) = IF 2 * n > 100 \/ (2 * n = 100 /\ m % 2 = 1) THEN m + 1 ELSE m
  BY <1>2 DEF HalfEven
<1>5. p < m \/ (p = m /\ q <= n)
  BY <1>1, <1>2
<1> QED
  BY <1>1, <1>2, <1>3, <1>4, <1>5

\* The row that is applied last has the last kind.
LEMMA LastKind ==
  ASSUME NEW rows \in Seq(Row), NEW S \in SUBSET DOMAIN rows, S # {}
  PROVE  /\ LastApplied(rows, S) \in S
         /\ \A j \in S : Place(rows[j].kind) <= Place(rows[LastApplied(rows, S)].kind)
         /\ rows[LastApplied(rows, S)].kind \in RatioKinds => \A j \in S : rows[j].kind \in RatioKinds
         /\ rows[LastApplied(rows, S)].kind \in FlatKinds => \A j \in S : rows[j].kind # "comp"
<1>1. PICK n \in Nat : n = Len(rows) /\ DOMAIN rows = 1 .. n
  OBVIOUS
<1>2. \A i \in DOMAIN rows : /\ Place(rows[i].kind) \in 1 .. 5
                             /\ rows[i].kind \in RatioKinds <=> Place(rows[i].kind) \in 1 .. 2
                             /\ rows[i].kind \in FlatKinds <=> Place(rows[i].kind) \in 3 .. 4
                             /\ rows[i].kind = "comp" <=> Place(rows[i].kind) = 5
  <2> TAKE i \in DOMAIN rows
  <2>1. rows[i] \in Row
    OBVIOUS
  <2>2. rows[i].kind \in RatioKinds \cup FlatKinds \cup {"comp"}
    BY <2>1 DEF Row
  <2> QED
    BY <2>2 DEF Place, RatioKinds, FlatKinds
<1>3. PICK i \in S : /\ i = LastApplied(rows, S)
                     /\ \A j \in S : Place(rows[j].kind) * n + j <= Place(rows[i].kind) * n + i
  <2> DEFINE place == [k \in DOMAIN rows |-> Place(rows[k].kind) * n + k]
  <2>1. IsFiniteSet(DOMAIN rows)
    BY <1>1, FS_Interval
  <2>2. \A k \in DOMAIN rows : place[k] \in Int
    <3> TAKE k \in DOMAIN rows
    <3>1. Place(rows[k].kind) * n \in Int
      BY <1>1, <1>2
    <3> QED
      BY <1>1, <3>1
  <2>3. \E k \in S : \A j \in S : place[j] <= place[k]
    <3> HIDE DEF place
    <3> QED
      BY <2>1, <2>2, LargestExists
  <2> QED
    BY <1>1, <2>3 DEF LastApplied
<1>4. ASSUME NEW j \in S PROVE Place(rows[j].kind) <= Place(rows[i].kind)
  <2>1. PICK x \in 1 .. 5, y \in 1 .. 5 : x = Place(rows[j].kind) /\ y = Place(rows[i].kind)
    BY <1>2
  <2>2. x * n + j <= y * n + i /\ j \in 1 .. n /\ i \in 1 .. n
    BY <1>1, <1>3, <2>1
  <2>3. ~(x >= y + 1)
    <3> SUFFICES ASSUME x >= y + 1 PROVE FALSE
      OBVIOUS
    <3>1. x * n >= (y + 1) * n
      BY <1>1
    <3>2. (y + 1) * n = y * n + n /\ x * n \in Int /\ y * n \in Int
      BY <1>1
    <3> QED
      BY <2>2, <3>1, <3>2
  <2> QED
    BY <2>1, <2>3
<1> QED
  BY <1>2, <1>3, <1>4

\* What one row takes off.
LEMMA RatioRow ==
  ASSUME NEW n \in Int, NEW row, row.kind \in RatioKinds, row.value \in Nat
  PROVE  LET new == ApplyRow([num |-> n, den |-> 1, total |-> 0], row)
         IN  new.den = 100 /\ new.total = HalfUp(n * row.value, 100)
<1>1. HalfUp(n * row.value, 100) \in Int
  <2>1. n * row.value \in Int
    OBVIOUS
  <2> QED
    BY <2>1, RoundedType
<1> QED
  BY <1>1 DEF ApplyRow

\* A flat row takes its value off.
LEMMA FlatRow ==
  ASSUME NEW acc \in Running, acc.den \in {1, 100}, NEW row, row.kind \in FlatKinds, row.value \in Nat
  PROVE  LET new == ApplyRow(acc, row)
         IN  /\ new.den = acc.den /\ new.total = acc.total + row.value
             /\ acc.den = 1 => new.num = acc.num - row.value
<1>1. row.kind \notin RatioKinds /\ acc.num \in Int /\ acc.total \in Int
  BY DEF RatioKinds, FlatKinds, Running
<1>2. ApplyRow(acc, row) = [num |-> acc.num * 1 - row.value * acc.den, den |-> acc.den * 1,
                            total |-> acc.total + HalfUp(row.value * acc.den, acc.den * 1)]
  BY <1>1 DEF ApplyRow
<1>3. acc.den * 1 = acc.den /\ HalfUp(row.value * acc.den, acc.den) = row.value
  BY HalfUpWhole
<1> QED
  BY <1>1, <1>2, <1>3

\* A comp takes what is left of a whole number of cents, if anything is.
LEMMA CompRow ==
  ASSUME NEW acc \in Running, acc.den = 1, NEW row, row.kind = "comp"
  PROVE  LET new  == ApplyRow(acc, row)
             left == IF acc.num > 0 THEN acc.num ELSE 0
         IN  new.den = 1 /\ new.total = acc.total + left /\ new.num = acc.num - left
<1>1. acc.num \in Int /\ acc.total \in Int /\ row.kind \notin RatioKinds /\ row.kind \notin FlatKinds
  BY DEF RatioKinds, FlatKinds, Running
<1>2. PICK left \in Int : left = IF acc.num > 0 THEN acc.num ELSE 0
  BY <1>1
<1>3. ApplyRow(acc, row) = [num |-> acc.num * 1 - left, den |-> 1 * 1,
                            total |-> acc.total + HalfUp(left, 1 * 1)]
  BY <1>1, <1>2 DEF ApplyRow
<1>4. HalfUp(left, 1 * 1) = left
  BY HalfUpWhole
<1> QED
  BY <1>1, <1>2, <1>3, <1>4

\* A dearer plain bill has no less left after its discounts.
LEMMA DearerLeavesMore ==
  ASSUME NEW g \in Int, NEW h \in Int, g <= h, NEW rows \in Seq(Row), Plain(rows)
  PROVE  NetRevenue(g, rows) <= NetRevenue(h, rows)
<1> DEFINE D == DOMAIN rows
<1>1. PICK a : RunsThrough(g, rows, a) /\ DiscountTotal(g, rows) = a[D].total
  BY DiscountsRun
<1>2. PICK b : RunsThrough(h, rows, b) /\ DiscountTotal(h, rows) = b[D].total
  BY DiscountsRun
<1> DEFINE Flat(s) == \A i \in s : rows[i].kind \notin RatioKinds
           Close(x, y, flat) ==
             /\ x.den = y.den /\ x.den \in {1, 100}
             /\ g - x.total <= h - y.total
             /\ flat => x.den = 1 /\ x.num = g - x.total /\ y.num = h - y.total
           Q == {s \in SUBSET D : Close(a[s], b[s], Flat(s))}
<1>3. ASSUME NEW s \in SUBSET D, \A x \in s : s \ {x} \in Q PROVE s \in Q
  <2>1. CASE s = {}
    <3>1. a[s] = [num |-> g, den |-> 1, total |-> 0] /\ b[s] = [num |-> h, den |-> 1, total |-> 0]
      BY <1>1, <1>2, <2>1 DEF RunsThrough
    <3> QED
      BY <3>1
  <2>2. CASE s # {}
    <3>1. PICK i \in s : i = LastApplied(rows, s)
      BY <2>2, LastKind
    <3>2. PICK t : t = s \ {i} /\ t \in SUBSET D /\ Close(a[t], b[t], Flat(t))
      BY <1>3
    <3>3. PICK row : row = rows[i] /\ row \in Row
      OBVIOUS
    <3>4. /\ row.kind \in RatioKinds \cup FlatKinds \cup {"comp"} /\ row.value \in Nat
          /\ row.kind \in RatioKinds => row.value <= 100
      BY <3>3 DEF Row, InRange
    <3>5. PICK x \in Running, y \in Running : x = a[t] /\ y = b[t]
      BY <1>1, <1>2, <3>2 DEF RunsThrough
    <3>6. a[s] = ApplyRow(x, row) /\ b[s] = ApplyRow(y, row)
      BY <1>1, <1>2, <2>2, <3>1, <3>2, <3>3, <3>5 DEF RunsThrough
    <3>7. /\ x.num \in Int /\ x.total \in Int /\ y.num \in Int /\ y.total \in Int
          /\ Close(x, y, Flat(t))
      BY <3>2, <3>5 DEF Running
    <3>8. CASE row.kind \in RatioKinds
      <4>1. t = {}
        <5>1. \A j \in s : rows[j].kind \in RatioKinds
          BY <2>2, <3>1, <3>3, <3>8, LastKind
        <5>2. \A j \in s : j = i
          BY <3>3, <3>8, <5>1 DEF Plain
        <5> QED
          BY <3>2, <5>2
      <4>2. x = [num |-> g, den |-> 1, total |-> 0] /\ y = [num |-> h, den |-> 1, total |-> 0]
        BY <1>1, <1>2, <3>5, <4>1 DEF RunsThrough
      <4>3. /\ a[s].den = 100 /\ a[s].total = HalfUp(g * row.value, 100)
            /\ b[s].den = 100 /\ b[s].total = HalfUp(h * row.value, 100)
        BY <3>4, <3>6, <3>8, <4>2, RatioRow
      <4>4. /\ HalfUp(h * row.value, 100) - HalfUp(g * row.value, 100) <= h - g
            /\ HalfUp(h * row.value, 100) \in Int /\ HalfUp(g * row.value, 100) \in Int
        <5>1. g * row.value \in Int /\ h * row.value \in Int
          BY <3>4
        <5>2. \A n \in Int : HalfUp(n, 100) \in Int
          BY RoundedType
        <5>3. HalfUp(h * row.value, 100) - HalfUp(g * row.value, 100) <= h - g
          BY <3>4, <3>8, HalfUpGrows
        <5> QED
          BY <5>1, <5>2, <5>3
      <4>5. ~Flat(s)
        BY <3>1, <3>3, <3>8
      <4>6. g - a[s].total <= h - b[s].total
        BY <4>3, <4>4
      <4> QED
        BY <4>3, <4>5, <4>6
    <3>9. CASE row.kind \in FlatKinds
      <4>1. Flat(s) => Flat(t)
        BY <3>2
      <4>2. /\ a[s].den = x.den /\ a[s].total = x.total + row.value
            /\ x.den = 1 => a[s].num = x.num - row.value
        BY <3>4, <3>6, <3>7, <3>9, FlatRow
      <4>3. /\ b[s].den = y.den /\ b[s].total = y.total + row.value
            /\ y.den = 1 => b[s].num = y.num - row.value
        BY <3>4, <3>6, <3>7, <3>9, FlatRow
      <4>4. PICK f \in BOOLEAN : f = Flat(s)
        OBVIOUS
      <4>5. Close(a[s], b[s], f)
        <5>1. f => x.den = 1 /\ x.num = g - x.total /\ y.num = h - y.total
          BY <3>7, <4>1, <4>4
        <5> QED
          BY <3>4, <3>7, <4>2, <4>3, <5>1
      <4> QED
        BY <4>4, <4>5
    <3>10. CASE row.kind = "comp"
      <4>1. Flat(t) /\ Flat(s)
        BY <3>1, <3>2, <3>3, <3>10 DEF Plain, RatioKinds
      <4>2. /\ x.den = 1 /\ y.den = 1 /\ g - x.total <= h - y.total
            /\ x.num = g - x.total /\ y.num = h - y.total
        BY <3>7, <4>1
      <4>3. /\ a[s].den = 1 /\ a[s].total = x.total + (IF x.num > 0 THEN x.num ELSE 0)
            /\ a[s].num = x.num - (IF x.num > 0 THEN x.num ELSE 0)
        BY <3>6, <3>10, <4>2, CompRow
      <4>4. /\ b[s].den = 1 /\ b[s].total = y.total + (IF y.num > 0 THEN y.num ELSE 0)
            /\ b[s].num = y.num - (IF y.num > 0 THEN y.num ELSE 0)
        BY <3>6, <3>10, <4>2, CompRow
      <4>5. Close(a[s], b[s], TRUE)
        <5>1. CASE x.num > 0
          BY <3>7, <4>2, <4>3, <4>4, <5>1
        <5>2. CASE ~(x.num > 0) /\ ~(y.num > 0)
          BY <3>7, <4>2, <4>3, <4>4, <5>2
        <5>3. CASE ~(x.num > 0) /\ y.num > 0
          <6>1. a[s].total = x.total /\ a[s].num = x.num /\ b[s].total = h /\ b[s].num = 0
            BY <3>7, <4>2, <4>3, <4>4, <5>3
          <6>2. g - x.total <= 0 /\ x.num = g - x.total
            BY <3>7, <4>2, <5>3
          <6>3. a[s].den = 1 /\ b[s].den = 1
            BY <4>3, <4>4
          <6> QED
            BY <3>7, <6>1, <6>2, <6>3
        <5> QED
          BY <5>1, <5>2, <5>3
      <4> QED
        BY <4>1, <4>5
    <3> QED
      BY <3>4, <3>8, <3>9, <3>10
  <2> QED
    BY <2>1, <2>2
<1>4. Q = SUBSET D
  <2>1. Q \in SUBSET SUBSET D /\ IsFiniteSet(D)
    BY FS_Interval
  <2> HIDE DEF Q, D
  <2> QED
    BY <1>3, <2>1, SizeInduction
<1>5. g - a[D].total <= h - b[D].total
  <2>1. D \in Q
    BY <1>4
  <2> QED
    BY <2>1
<1> QED
  BY <1>1, <1>2, <1>5 DEF NetRevenue

\* A dearer plain bill asks for no less, whatever the service charge.
LEMMA DearerAsksMore ==
  ASSUME NEW g \in Nat, NEW h \in Nat, g <= h, NEW rows \in Seq(Row), Plain(rows), NEW rate \in Nat
  PROVE  AmountDue(g, rows, rate) <= AmountDue(h, rows, rate)
<1>1. NetRevenue(g, rows) <= NetRevenue(h, rows)
  BY DearerLeavesMore
<1>2. NetRevenue(g, rows) \in Int /\ NetRevenue(h, rows) \in Int
  BY DiscountTotalType DEF NetRevenue
<1>3. g * rate \in Nat /\ h * rate \in Nat /\ g * rate <= h * rate
  OBVIOUS
<1>4. /\ HalfEven(g * rate, 100) \in Nat /\ HalfEven(h * rate, 100) \in Nat
      /\ HalfEven(g * rate, 100) <= HalfEven(h * rate, 100)
  <2>1. PICK a \in Nat, b \in Nat : a = g * rate /\ b = h * rate /\ a <= b
    BY <1>3
  <2>2. HalfEven(a, 100) \in Nat /\ HalfEven(a, 100) <= HalfEven(b, 100)
    BY <2>1, HalfEvenGrows
  <2>3. HalfEven(b, 100) \in Nat
    BY HalfEvenGrows
  <2> QED
    BY <2>1, <2>2, <2>3
<1> QED
  BY <1>1, <1>2, <1>4 DEF AmountDue

\* The condition under which an automatic amount rule never takes more than the bill: its
\* threshold covers it.  (The schema does not ask for it, see the finding RuleBelowZero.)
SaneRules == \A r \in Rules : r.kind = "amount" => r.value <= r.min

\* A bill of nothing asks for nothing, and the automatic row alone never asks for less.
LEMMA NothingDue == AmountDue(0, <<>>, 0) = 0
<1>1. PICK rows : rows = <<>>
  OBVIOUS
<1>2. rows \in Seq(Row) /\ DOMAIN rows = {}
  BY <1>1
<1>3. PICK n \in Int : n = 0
  OBVIOUS
<1>4. PICK a : RunsThrough(n, rows, a) /\ DiscountTotal(n, rows) = a[DOMAIN rows].total
  BY <1>2, DiscountsRun
<1>5. DiscountTotal(0, rows) = 0
  BY <1>2, <1>3, <1>4 DEF RunsThrough
<1>6. HalfEven(0 * 0, 100) = 0
  BY DEF HalfEven
<1> QED
  BY <1>1, <1>5, <1>6 DEF AmountDue, NetRevenue

\* The row of a sane rule leaves a bill that is not negative, if it is the only one.
LEMMA AutoAlone ==
  ASSUME ConstantsAssumption, SaneRules, NEW gross \in Nat, NEW rate \in Nat, NEW R \in InForce,
         NEW r \in BestRules(R, gross)
  PROVE  AmountDue(gross, <<AutoRow(r)>>, rate) >= 0
<1>1. /\ r \in Rules /\ r.kind \in {"percent", "amount"} /\ r.value \in Nat /\ r.min \in Nat
      /\ r.kind = "percent" => r.value <= 100
      /\ gross >= r.min
  BY DEF BestRules, InForce, ConstantsAssumption, Rule, InRange, RatioKinds, RuleMatches
<1>2. PICK row : row = AutoRow(r)
  OBVIOUS
<1>3. row.kind = r.kind /\ row.value = r.value /\ row \in Row
  BY <1>1, <1>2 DEF AutoRow, Row, InRange, RatioKinds, FlatKinds
<1>8. PICK rows : rows = <<row>>
  OBVIOUS
<1>9. rows \in Seq(Row) /\ DOMAIN rows = {1} /\ rows[1] = row
  <2>1. Len(rows) = 1 /\ 1 .. 1 = {1}
    BY <1>8
  <2> QED
    BY <1>3, <1>8, <2>1
<1>4. PICK a : RunsThrough(gross, rows, a) /\ DiscountTotal(gross, rows) = a[DOMAIN rows].total
  BY <1>9, DiscountsRun
<1> DEFINE base == [num |-> gross, den |-> 1, total |-> 0]
<1>5. a[{1}] = ApplyRow(base, row)
  <2>1. {1} \in SUBSET DOMAIN rows /\ {1} # {} /\ LastApplied(rows, {1}) = 1
    BY <1>9, LastKind
  <2>2. a[{1} \ {1}] = base
    <3>1. {1} \ {1} = {}
      OBVIOUS
    <3> QED
      BY <1>4, <3>1 DEF RunsThrough
  <2>3. a[{1}] = ApplyRow(a[{1} \ {1}], rows[1])
    BY <1>4, <2>1 DEF RunsThrough
  <2> QED
    BY <1>9, <2>2, <2>3
<1>6. DiscountTotal(gross, rows) <= gross /\ DiscountTotal(gross, rows) \in Int
  <2>1. DiscountTotal(gross, rows) = ApplyRow(base, row).total
    BY <1>4, <1>5, <1>9
  <2>2. CASE r.kind = "percent"
    <3>1. ApplyRow(base, row).total = HalfUp(gross * r.value, 100)
      BY <1>1, <1>3, <2>2, RatioRow DEF RatioKinds
    <3>2. HalfUp(gross * r.value, 100) - HalfUp(0 * r.value, 100) <= gross - 0
      <4>1. gross \in Int /\ 0 \in Int /\ 0 <= gross /\ r.value \in Nat /\ r.value <= 100
        BY <1>1, <2>2
      <4> QED
        BY <4>1, HalfUpGrows
    <3>3. HalfUp(0 * r.value, 100) = 0 /\ HalfUp(gross * r.value, 100) \in Int
      <4>1. 0 * r.value = 0 /\ gross * r.value \in Int
        BY <1>1
      <4>2. HalfUp(0, 100) = 0
        BY DEF HalfUp
      <4>3. \A n \in Int : HalfUp(n, 100) \in Int
        BY RoundedType
      <4> QED
        BY <4>1, <4>2, <4>3
    <3> QED
      BY <2>1, <3>1, <3>2, <3>3
  <2>3. CASE r.kind = "amount"
    <3>1. base \in Running /\ base.den = 1 /\ base.total = 0
      BY DEF Running
    <3>2. ApplyRow(base, row).total = r.value
      <4> HIDE DEF base
      <4>1. ApplyRow(base, row).total = base.total + row.value
        BY <1>1, <1>3, <2>3, <3>1, FlatRow DEF FlatKinds
      <4> QED
        BY <1>1, <1>3, <3>1, <4>1
    <3> QED
      BY <1>1, <2>1, <2>3, <3>2 DEF SaneRules
  <2> QED
    BY <1>1, <2>2, <2>3
<1>7. HalfEven(gross * rate, 100) \in Nat
  <2>1. gross * rate \in Nat
    OBVIOUS
  <2> QED
    BY <2>1, HalfEvenGrows
<1> QED
  BY <1>2, <1>6, <1>7, <1>8 DEF AmountDue, NetRevenue

-----------------------------------------------------------------------------
(***************************************************************************)
(* What one serial commit does to one bill.                                *)
(***************************************************************************)
Blank == \A o \in Orders : orders[o].status = "none" =>
           orders[o].rows = <<>> /\ orders[o].rate = 0 /\ orders[o].paid = 0

\* An order id that was not used yet has no discount, no rate and no payment.
LEMMA BlankStep ==
  ASSUME ConstantsAssumption, Steady, Blank, NEW c \in Clients, Write(c)
  PROVE  Blank'
<1> SUFFICES ASSUME NEW o \in Orders, orders'[o].status = "none"
             PROVE  orders'[o] = orders[o]
  BY DEF Blank
<1>1. OrderStep(c, o)
  BY WriteOrderStep DEF Steady
<1>2. PICK s, n : s = Saved(c)[o] /\ n = orders'[o]
  OBVIOUS
<1>3. n.status = s.status /\ (o # req[c].order => n = s \/ n = [s EXCEPT !.status = "voided"])
  BY <1>1, <1>2 DEF OrderStep
<1>4. s \in Order
  BY <1>2, SavedType DEF Steady, Inv
<1>5. s.status = "none" /\ s = orders[o] /\ ~(req[c].fresh /\ o = req[c].order)
  <2>1. s.status = "none"
    BY <1>2, <1>3
  <2>2. s # NewOrder(req[c].session)
    BY <2>1 DEF NewOrder
  <2>3. s = IF req[c].fresh /\ o = req[c].order THEN NewOrder(req[c].session) ELSE orders[o]
    BY <1>2, SavedRows DEF Steady, Inv
  <2> QED
    BY <2>1, <2>2, <2>3
<1>6. CASE o = req[c].order
  <2>1. orders' = orders \/ req[c].op \in BillOps \cup LineOps \cup OrderOps
    BY Commits
  <2>2. ASSUME req[c].op \in BillOps \cup LineOps \cup OrderOps PROVE FALSE
    BY <1>5, <1>6, <2>2, Commits, OwnOrder
  <2> QED
    BY <2>1, <2>2
<1>7. CASE o # req[c].order
  <2>1. n # [s EXCEPT !.status = "voided"]
    BY <1>3, <1>4, <1>5 DEF Order
  <2> QED
    BY <1>2, <1>3, <1>5, <1>7, <2>1
<1> QED
  BY <1>6, <1>7

\* No line is on an order that was not used yet.
LEMMA UnusedIsEmpty ==
  ASSUME Inv, NEW o \in Orders, orders[o].status = "none"
  PROVE  LiveLines(o) = {} /\ Charges(o) = {}
<1>1. LiveLines(o) = {}
  BY DEF LiveLines, Inv, KnownOrders, Exists, ExistsIn
<1> QED
  BY <1>1 DEF Charges

\* The lines of a bill that is neither the request's nor the one it merges away stay.
LEMMA OtherLines ==
  ASSUME ConstantsAssumption, Steady, NEW c \in Clients, Write(c),
         NEW o \in Orders, o # req[c].order, ~(MergeSessions(c) /\ o = req[c].from), NEW l \in Lines
  PROVE  /\ l \in LiveLines(o) <=> l \in LiveLines(o)'
         /\ l \in LiveLines(o) => lines'[l].total = lines[l].total
<1>1. req[c].phase = "commit"
  BY Commits
<1>2. ASSUME req[c].op \in BillOps \cup LineOps \cup OrderOps
      PROVE  Seen(c) = LiveLines(req[c].order)
  BY <1>1, <1>2, OwnOrder
<1>3. lines[l] \in Line
  BY DEF Steady, Inv, TypeOK
<1>4. CASE lines'[l] = lines[l]
  BY <1>4 DEF LiveLines
<1>5. CASE AddLine(c) /\ lines[l].status = "none" /\ lines'[l].order = req[c].order
  BY <1>5 DEF LiveLines
<1>6. CASE /\ UpdateLineQty(c) /\ l = req[c].line
           /\ lines'[l] = [lines[l] EXCEPT !.total = lines'[l].total]
  <2>1. req[c].op \in LineOps /\ l \in LiveLines(req[c].order)
    BY <1>1, <1>6, OwnOrder DEF UpdateLineQty, Commit, LineOps
  <2>2. lines[l].order # o
    BY <2>1 DEF LiveLines
  <2>3. lines'[l].order = lines[l].order
    BY <1>3, <1>6 DEF Line
  <2> QED
    BY <2>2, <2>3 DEF LiveLines
<1>7. CASE VoidLine(c) /\ l \in Seen(c) /\ lines'[l] = Removed(lines[l])
  <2>1. lines[l].order # o
    BY <1>2, <1>7 DEF LiveLines, VoidLine, Commit, LineOps
  <2>2. lines'[l].order = lines[l].order
    BY <1>3, <1>7 DEF Line, Removed
  <2> QED
    BY <2>1, <2>2 DEF LiveLines
<1>8. CASE VoidOrder(c) /\ lines'[l] = [lines[l] EXCEPT !.reversals = @ + 1]
  <2>1. /\ lines'[l].status = lines[l].status /\ lines'[l].order = lines[l].order
        /\ lines'[l].total = lines[l].total
    BY <1>3, <1>8 DEF Line
  <2> QED
    BY <2>1 DEF LiveLines
<1>9. CASE /\ MergeSessions(c) /\ l \in req[c].moved
           /\ lines'[l] = [lines[l] EXCEPT !.order = req[c].order]
  <2>1. lines[l].order # o
    BY <1>9, MergedOrder
  <2>2. lines'[l].order = req[c].order
    BY <1>3, <1>9 DEF Line
  <2> QED
    BY <2>1, <2>2 DEF LiveLines
<1> QED
  BY <1>4, <1>5, <1>6, <1>7, <1>8, <1>9, WriteLineStep DEF LineStep, Steady, Inv

\* Lines that stay at their price keep the charges.
LEMMA SameCharges ==
  ASSUME NEW o, \A l \in Lines : /\ l \in LiveLines(o) <=> l \in LiveLines(o)'
                                 /\ l \in LiveLines(o) => lines'[l].total = lines[l].total
  PROVE  Charges(o)' = Charges(o)
<1>1. LiveLines(o)' = LiveLines(o)
  <2>1. LiveLines(o) \subseteq Lines /\ LiveLines(o)' \subseteq Lines
    BY DEF LiveLines
  <2> QED
    BY <2>1
<1>2. \A l \in LiveLines(o) : l \in Lines /\ lines'[l].total = lines[l].total
  BY DEF LiveLines
<1> QED
  BY <1>1, <1>2 DEF Charges

\* So the bill stays.
LEMMA OtherBill ==
  ASSUME ConstantsAssumption, Steady, NEW c \in Clients, Write(c),
         NEW o \in Orders, o # req[c].order, ~(MergeSessions(c) /\ o = req[c].from)
  PROVE  orders'[o] = orders[o] /\ Charges(o)' = Charges(o)
<1>1. Charges(o)' = Charges(o)
  BY OtherLines, SameCharges
<1>2. PICK s, n : s = Saved(c)[o] /\ n = orders'[o]
  OBVIOUS
<1>3. s = orders[o] /\ s \in Order
  BY <1>2, SavedRows DEF Steady, Inv, TypeOK
<1>4. OrderStep(c, o)
  BY WriteOrderStep DEF Steady
<1>5. n.status = s.status /\ (n = s \/ n = [s EXCEPT !.status = "voided"])
  BY <1>2, <1>4 DEF OrderStep
<1>6. n = s
  BY <1>3, <1>5 DEF Order
<1> QED
  BY <1>1, <1>2, <1>3, <1>6

\* The bill a request finds: the committed row, or its own new one.
Found(c) == Saved(c)[req[c].order]

\* What a commit makes of the bill it is about.  It may leave it open and covering what was
\* collected, or only add lines, or attach the automatic discount of a bill without
\* payments; take a payment within what is due, that closes the bill if it covers it; close
\* or void it.
Guarded(c, o) ==
  /\ orders'[o].status = "open" /\ orders'[o].paid = Found(c).paid
  /\ Due(o)' >= orders'[o].paid

Dearer(c, o) == orders'[o] = Found(c) /\ orders'[o].status = "open" /\ Charges(o) \subseteq Charges(o)'

Promoted(c, o) ==
  /\ orders'[o].status = "open" /\ orders'[o].paid = 0 /\ Found(c).paid = 0
  /\ orders'[o].rate = Found(c).rate /\ Charges(o)' = Charges(o)
  /\ \E R \in InForce : \E r \in BestRules(R, Gross(Charges(o))) :
       orders'[o].rows = Found(c).rows \o <<AutoRow(r)>>

Paid(c, o) ==
  /\ ~req[c].fresh /\ orders[o].status = "open"
  /\ orders[o].paid <= orders'[o].paid /\ orders'[o].paid <= Due(o)'
  /\ orders'[o].status = IF orders'[o].paid = Due(o)' THEN "closed" ELSE "open"
  /\ Due(o)' = Due(o) \/ orders[o].paid = 0

ClosedBy(c, o) ==
  /\ ~req[c].fresh /\ orders[o].status = "open" /\ Charges(o)' = Charges(o)
  /\ orders'[o] = [orders[o] EXCEPT !.status = "closed"]

VoidedBy(c, o) ==
  /\ ~req[c].fresh /\ orders[o].status \in {"open", "closed"}
  /\ orders'[o] = [orders[o] EXCEPT !.status = "voided"]

BillStep(c, o) ==
  \/ Guarded(c, o) \/ Dearer(c, o) \/ Promoted(c, o)
  \/ Paid(c, o) \/ ClosedBy(c, o) \/ VoidedBy(c, o)

\* The bill a request found is what it has seen.
LEMMA FoundBill ==
  ASSUME ConstantsAssumption, Steady, Blank, NEW c \in Clients, req[c].phase = "commit",
         req[c].op \in BillOps \cup LineOps \cup OrderOps, NEW o, o = req[c].order
  PROVE  /\ o \in Orders /\ Found(c) \in Order /\ Saved(c) \in [Orders -> Order]
         /\ ~req[c].fresh => Saved(c) = orders /\ Found(c) = orders[o] /\ req[c].rate = orders[o].rate
         /\ req[c].fresh => /\ orders[o].status = "none" /\ Charges(o) = {}
                            /\ Found(c) = NewOrder(req[c].session)
         /\ req[c].op # "void_order" => Found(c).status = "open"
         /\ ~req[c].fresh => orders[o].status \in {"open", "closed"}
         /\ req[c].view.charges = Charges(o) /\ Seen(c) = LiveLines(o)
         /\ req[c].view.rows = Found(c).rows /\ req[c].view.paid = Found(c).paid
<1>1. PICK r : r = req[c] /\ Current(r)
  BY DEF Steady, UpToDate
<1>2. o \in Orders /\ Seen(c) = LiveLines(o)
  BY OwnOrder
<1>3. Saved(c) \in [Orders -> Order] /\ Found(c) \in Order
  BY <1>2, SavedType DEF Steady, Inv, Found
<1>4. ~r.fresh => Saved(c) = orders /\ Found(c) = orders[o]
  BY <1>1 DEF Saved, Found
<1>5. ~r.fresh => r.rate = orders[o].rate
  BY <1>1 DEF Current
<1>6. r.fresh => orders[o].status = "none" /\ Charges(o) = {} /\ Found(c) = NewOrder(r.session)
  <2> SUFFICES ASSUME r.fresh
               PROVE  orders[o].status = "none" /\ Charges(o) = {} /\ Found(c) = NewOrder(r.session)
    OBVIOUS
  <2>1. orders[o].status = "none"
    BY <1>1, OwnOrder
  <2> QED
    BY <1>1, <1>2, <2>1, UnusedIsEmpty, SavedRows DEF Steady, Inv, Found
<1>7. r.view = [rows |-> orders[o].rows, paid |-> orders[o].paid, charges |-> Charges(o)]
  BY <1>1 DEF Current
<1>8. r.fresh => orders[o].rows = <<>> /\ orders[o].paid = 0 /\ Found(c).rows = <<>> /\ Found(c).paid = 0
                 /\ Found(c).status = "open"
  BY <1>2, <1>6 DEF Blank, NewOrder
<1>9. /\ r.op # "void_order" => Found(c).status = "open"
      /\ ~r.fresh => orders[o].status \in {"open", "closed"}
  BY <1>1, <1>4, <1>8, OwnOrder
<1> QED
  BY <1>1, <1>2, <1>3, <1>4, <1>5, <1>6, <1>7, <1>8, <1>9

\* Reads, prices of lines, discounts and the service charge.
LEMMA ReadBill ==
  ASSUME ConstantsAssumption, Steady, Blank, NEW c \in Clients, GetSessionOrder(c),
         NEW o, o = req[c].order
  PROVE  Dearer(c, o)
<1>1. req[c].phase = "commit" /\ req[c].op \in BillOps /\ req[c].op # "void_order"
  BY DEF GetSessionOrder, Commit, BillOps
<1>2. orders'[o] = Found(c) /\ Found(c).status = "open"
  BY <1>1, FoundBill DEF GetSessionOrder, Found
<1>3. Charges(o)' = Charges(o)
  BY DEF GetSessionOrder, Charges, LiveLines
<1> QED
  BY <1>2, <1>3 DEF Dearer

\* add_line is not guarded: it only adds lines.
LEMMA AddedLine ==
  ASSUME ConstantsAssumption, Steady, Blank, NEW c \in Clients, AddLine(c),
         NEW o, o = req[c].order
  PROVE  Dearer(c, o)
<1>1. req[c].phase = "commit" /\ req[c].op \in BillOps /\ req[c].op # "void_order"
  BY DEF AddLine, Commit, BillOps
<1>2. orders'[o] = Found(c) /\ Found(c).status = "open"
  BY <1>1, FoundBill DEF AddLine, Found
<1>3. \A x \in LiveLines(o) : lines'[x] = lines[x]
  <2>1. PICK l \in Lines, total \in Amounts, kid \in Lines \cup {None} :
          /\ lines[l].status = "none" /\ kid # l
          /\ kid # None => lines[kid].status = "none"
          /\ lines' = [x \in Lines |-> IF x = l THEN NewLine(req[c].order, None, total)
                                       ELSE IF x = kid THEN NewLine(req[c].order, l, 0)
                                       ELSE lines[x]]
    BY DEF AddLine
  <2>2. \A x \in LiveLines(o) : x \in Lines /\ x # l /\ x # kid
    BY <2>1 DEF LiveLines, ConstantsAssumption
  <2> QED
    BY <2>1, <2>2
<1>4. Charges(o) \subseteq Charges(o)'
  BY <1>3 DEF Charges, LiveLines
<1> QED
  BY <1>2, <1>4 DEF Dearer

\* A new quantity is guarded on the lines as they will be.
LEMMA PricedLine ==
  ASSUME ConstantsAssumption, Steady, Blank, NEW c \in Clients, UpdateLineQty(c),
         NEW o, o = req[c].order
  PROVE  Guarded(c, o)
<1>1. /\ req[c].phase = "commit" /\ req[c].op \in LineOps /\ req[c].op \notin BillOps
      /\ req[c].op # "void_order"
  BY KindsApart DEF UpdateLineQty, Commit, LineOps, OrderOps
<1> DEFINE l == req[c].line
<1>2. ~req[c].fresh
  BY <1>1 DEF Steady, Inv, SlotHeld
<1>3. PICK total \in Amounts :
        /\ NotBelowPaid({[x EXCEPT !.total = IF x.line = l THEN total ELSE @] : x \in req[c].view.charges},
                        req[c].view.rows, req[c].rate, req[c].view.paid)
        /\ lines' = [lines EXCEPT ![l].total = total]
  BY Zenon DEF UpdateLineQty
<1>4. /\ Found(c) = orders[o] /\ req[c].rate = orders[o].rate /\ orders[o].status = "open"
      /\ req[c].view.charges = Charges(o) /\ req[c].view.rows = orders[o].rows
      /\ req[c].view.paid = orders[o].paid
  BY <1>1, <1>2, FoundBill
<1>5. orders' = orders
  BY DEF UpdateLineQty
<1>6. \A x \in Lines : lines[x] \in Line /\ lines'[x] = IF x = l THEN [lines[x] EXCEPT !.total = total]
                                                      ELSE lines[x]
  BY <1>3 DEF Steady, Inv, TypeOK
<1>7. \A x \in Lines : /\ lines'[x].status = lines[x].status /\ lines'[x].order = lines[x].order
                       /\ lines'[x].total = IF x = l THEN total ELSE lines[x].total
  BY <1>6 DEF Line
<1>8. LiveLines(o)' = LiveLines(o) /\ LiveLines(o) \subseteq Lines
  BY <1>7 DEF LiveLines
<1>9. Charges(o)' = {[x EXCEPT !.total = IF x.line = l THEN total ELSE @] : x \in Charges(o)}
  <2> DEFINE old(y) == [line |-> y, total |-> lines[y].total]
             new(y) == [line |-> y, total |-> lines'[y].total]
             f(x) == [x EXCEPT !.total = IF x.line = l THEN total ELSE @]
  <2>1. \A y \in LiveLines(o) : f(old(y)) = new(y)
    BY <1>7, <1>8
  <2>2. Charges(o) = {old(y) : y \in LiveLines(o)} /\ Charges(o)' = {new(y) : y \in LiveLines(o)}
    BY <1>8 DEF Charges
  <2> HIDE DEF old, new, f
  <2>3. {new(y) : y \in LiveLines(o)} = {f(x) : x \in {old(y) : y \in LiveLines(o)}}
    BY <2>1
  <2>4. Charges(o)' = {f(x) : x \in Charges(o)}
    BY <2>2, <2>3
  <2> QED
    BY <2>4 DEF f
<1>10. Due(o)' >= orders[o].paid
  BY <1>3, <1>4, <1>5, <1>9 DEF NotBelowPaid, Due
<1> QED
  BY <1>4, <1>5, <1>10 DEF Guarded

\* So is the void of a line, on the lines that stay.
LEMMA VoidedLine ==
  ASSUME ConstantsAssumption, Steady, Blank, NEW c \in Clients, VoidLine(c),
         NEW o, o = req[c].order
  PROVE  Guarded(c, o)
<1>1. /\ req[c].phase = "commit" /\ req[c].op \in LineOps /\ req[c].op \notin BillOps
      /\ req[c].op # "void_order"
  BY KindsApart DEF VoidLine, Commit, LineOps, OrderOps
<1>2. ~req[c].fresh
  BY <1>1 DEF Steady, Inv, SlotHeld
<1>3. PICK gone : /\ gone \subseteq Seen(c)
                  /\ NotBelowPaid({x \in req[c].view.charges : x.line \notin gone},
                                  req[c].view.rows, req[c].rate, req[c].view.paid)
                  /\ lines' = [l \in Lines |-> IF l \in gone THEN Removed(lines[l]) ELSE lines[l]]
  BY DEF VoidLine
<1>4. /\ Found(c) = orders[o] /\ req[c].rate = orders[o].rate /\ orders[o].status = "open"
      /\ req[c].view.charges = Charges(o) /\ req[c].view.rows = orders[o].rows
      /\ req[c].view.paid = orders[o].paid
  BY <1>1, <1>2, FoundBill
<1>5. orders' = orders
  BY DEF VoidLine
<1>6. \A l \in Lines : lines[l] \in Line
  BY DEF Steady, Inv, TypeOK
<1>7. \A l \in Lines : IF l \in gone THEN lines'[l].status = "removed" ELSE lines'[l] = lines[l]
  BY <1>3, <1>6 DEF Line, Removed
<1>8. LiveLines(o)' = LiveLines(o) \ gone /\ LiveLines(o) \subseteq Lines
  BY <1>7 DEF LiveLines
<1>9. Charges(o)' = {x \in Charges(o) : x.line \notin gone}
  <2>1. Charges(o)' = {[line |-> l, total |-> lines'[l].total] : l \in LiveLines(o) \ gone}
    BY <1>8 DEF Charges
  <2>2. \A l \in LiveLines(o) \ gone : lines'[l].total = lines[l].total
    BY <1>7, <1>8
  <2>3. Charges(o)' = {[line |-> l, total |-> lines[l].total] : l \in LiveLines(o) \ gone}
    BY <2>1, <2>2
  <2>4. Charges(o) = {[line |-> l, total |-> lines[l].total] : l \in LiveLines(o)}
    BY DEF Charges
  <2> QED
    BY <2>3, <2>4
<1>10. Due(o)' >= orders[o].paid
  BY <1>3, <1>4, <1>5, <1>9 DEF NotBelowPaid, Due
<1> QED
  BY <1>4, <1>5, <1>10 DEF Guarded

\* An automatic row comes alone, from a rule in force, on a bill without payments and
\* without another automatic row.
LEMMA AutoRowsAre ==
  ASSUME NEW v, NEW auto \in AutoRows(v), auto # <<>>
  PROVE  /\ v.paid = 0 /\ \A i \in DOMAIN v.rows : ~v.rows[i].auto
         /\ \E R \in InForce : \E r \in BestRules(R, Gross(v.charges)) : auto = <<AutoRow(r)>>
<1>1. /\ v.paid = 0 /\ \A i \in DOMAIN v.rows : ~v.rows[i].auto
      /\ \E R \in InForce :
           LET best == BestRules(R, Gross(v.charges))
           IN  auto \in IF best = {} THEN {<<>>} ELSE {<<AutoRow(r)>> : r \in best}
  BY DEF AutoRows
<1> QED
  BY <1>1

\* A manual discount is guarded with its row.
LEMMA DiscountedBill ==
  ASSUME ConstantsAssumption, Steady, Blank, NEW c \in Clients, ApplyDiscount(c),
         NEW o, o = req[c].order
  PROVE  Guarded(c, o)
<1>1. req[c].phase = "commit" /\ req[c].op \in BillOps /\ req[c].op # "void_order"
  BY DEF ApplyDiscount, Commit, BillOps
<1>2. req[c].view.charges # {} /\ lines' = lines
  BY DEF ApplyDiscount
<1>3. PICK row \in Discounts :
        /\ NotBelowPaid(req[c].view.charges, Append(req[c].view.rows, row), req[c].rate,
                        req[c].view.paid)
        /\ orders' = [orders EXCEPT ![req[c].order].rows = Append(@, row)]
  BY Zenon DEF ApplyDiscount
<1>4. ~req[c].fresh
  BY <1>1, <1>2, FoundBill
<1>5. /\ Found(c) = orders[o] /\ req[c].rate = orders[o].rate /\ orders[o].status = "open"
      /\ req[c].view.charges = Charges(o) /\ req[c].view.rows = orders[o].rows
      /\ req[c].view.paid = orders[o].paid /\ o \in Orders
  BY <1>1, <1>4, FoundBill
<1>6. PICK f : f = orders /\ f \in [Orders -> Order]
  BY DEF Steady, Inv, TypeOK
<1>7. /\ orders'[o].status = "open" /\ orders'[o].paid = orders[o].paid
      /\ orders'[o].rate = orders[o].rate /\ orders'[o].rows = Append(orders[o].rows, row)
  <2>1. PICK b : b = f[o] /\ b \in Order
    BY <1>5, <1>6
  <2>2. orders'[o] = [b EXCEPT !.rows = Append(@, row)]
    BY <1>3, <1>5, <1>6, <2>1
  <2> QED
    BY <1>5, <1>6, <2>1, <2>2 DEF Order
<1>8. Charges(o)' = Charges(o)
  BY <1>2 DEF Charges, LiveLines
<1>9. Due(o)' >= orders[o].paid
  BY <1>3, <1>5, <1>7, <1>8 DEF NotBelowPaid, Due
<1> QED
  BY <1>5, <1>7, <1>9 DEF Guarded

\* A service charge is guarded with its rate, on a new bill too.
LEMMA ServiceChargedBill ==
  ASSUME ConstantsAssumption, Steady, Blank, NEW c \in Clients, SetServiceCharge(c),
         NEW o, o = req[c].order
  PROVE  Guarded(c, o)
<1>1. req[c].phase = "commit" /\ req[c].op \in BillOps /\ req[c].op # "void_order"
  BY DEF SetServiceCharge, Commit, BillOps
<1>2. PICK rate \in Rates :
        /\ NotBelowPaid(req[c].view.charges, req[c].view.rows, rate, req[c].view.paid)
        /\ orders' = [Saved(c) EXCEPT ![req[c].order].rate = rate]
  BY Zenon DEF SetServiceCharge
<1>3. PICK s : /\ s = Found(c) /\ s \in Order /\ s.status = "open" /\ o \in Orders
               /\ Saved(c) \in [Orders -> Order] /\ s = Saved(c)[o]
               /\ req[c].view.charges = Charges(o) /\ req[c].view.rows = s.rows
               /\ req[c].view.paid = s.paid
  BY <1>1, FoundBill DEF Found
<1>4. orders'[o] = [s EXCEPT !.rate = rate]
  BY <1>2, <1>3
<1>5. /\ orders'[o].status = "open" /\ orders'[o].paid = s.paid
      /\ orders'[o].rate = rate /\ orders'[o].rows = s.rows
  BY <1>3, <1>4 DEF Order
<1>6. Charges(o)' = Charges(o)
  BY DEF SetServiceCharge, Charges, LiveLines
<1>7. Due(o)' >= s.paid
  BY <1>2, <1>3, <1>5, <1>6 DEF NotBelowPaid, Due
<1> QED
  BY <1>3, <1>5, <1>7 DEF Guarded

\* A quote attaches the automatic discount, if any, without a guard.
LEMMA QuotedBill ==
  ASSUME ConstantsAssumption, Steady, Blank, NEW c \in Clients, Quote(c),
         NEW o, o = req[c].order
  PROVE  Dearer(c, o) \/ Promoted(c, o)
<1>1. req[c].phase = "commit" /\ req[c].op \in BillOps /\ req[c].op # "void_order"
  BY DEF Quote, Commit, BillOps
<1>2. PICK auto \in AutoRows(req[c].view) :
        orders' = [Saved(c) EXCEPT ![req[c].order].rows = @ \o auto]
  BY DEF Quote
<1>3. PICK s : /\ s = Found(c) /\ s \in Order /\ s.status = "open" /\ o \in Orders
               /\ Saved(c) \in [Orders -> Order] /\ s = Saved(c)[o]
               /\ req[c].view.charges = Charges(o) /\ req[c].view.rows = s.rows
               /\ req[c].view.paid = s.paid
  BY <1>1, FoundBill DEF Found
<1>4. orders'[o] = [s EXCEPT !.rows = @ \o auto]
  BY <1>2, <1>3
<1>5. Charges(o)' = Charges(o)
  BY DEF Quote, Charges, LiveLines
<1>6. CASE auto = <<>>
  <2>1. s.rows \o auto = s.rows
    BY <1>3, <1>6 DEF Order
  <2>2. orders'[o] = s
    BY <1>3, <1>4, <2>1 DEF Order
  <2> QED
    BY <1>3, <1>5, <2>2 DEF Dearer
<1>7. CASE auto # <<>>
  <2>1. /\ orders'[o].status = "open" /\ orders'[o].paid = s.paid
        /\ orders'[o].rate = s.rate /\ orders'[o].rows = s.rows \o auto
    BY <1>3, <1>4 DEF Order
  <2>2. \E R \in InForce : \E r \in BestRules(R, Gross(Charges(o))) : auto = <<AutoRow(r)>>
    BY <1>3, <1>7, AutoRowsAre
  <2>3. s.paid = 0
    BY <1>3, <1>7, AutoRowsAre
  <2> QED
    BY <1>3, <1>5, <2>1, <2>2, <2>3 DEF Promoted
<1> QED
  BY <1>6, <1>7

\* A payment is at most what the bill asks for with its automatic row, and closes the bill if
\* it is the rest of it; a bill on which something was paid gets no automatic row any more.
LEMMA PaidBill ==
  ASSUME ConstantsAssumption, IsFiniteSet(Lines), Steady, Blank, NEW c \in Clients,
         PayPartial(c) \/ CheckoutCash(c), NEW o, o = req[c].order
  PROVE  Paid(c, o)
<1>1. /\ req[c].phase = "commit" /\ req[c].op \in BillOps /\ req[c].op # "void_order"
      /\ Seen(c) # {}
  BY DEF PayPartial, CheckoutCash, Commit, BillOps
<1>2. ~req[c].fresh
  <2>1. req[c].view.charges # {}
    BY <1>1 DEF Seen
  <2> QED
    BY <1>1, <2>1, FoundBill
<1>3. /\ req[c].rate = orders[o].rate /\ orders[o].status = "open" /\ o \in Orders
      /\ req[c].view.charges = Charges(o) /\ req[c].view.rows = orders[o].rows
      /\ req[c].view.paid = orders[o].paid
  BY <1>1, <1>2, FoundBill
<1>4. PICK auto, amount, closes :
        /\ Pay(c, auto, amount, closes)
        /\ auto \in AutoRows(req[c].view) /\ amount \in Nat
        /\ amount <= Remaining(c, auto) /\ closes = (amount = Remaining(c, auto))
  <2>1. CASE PayPartial(c)
    <3>1. PICK auto \in AutoRows(req[c].view), amount \in Shares :
            /\ amount <= Remaining(c, auto)
            /\ Pay(c, auto, amount, amount = Remaining(c, auto))
      BY <2>1, Zenon DEF PayPartial
    <3> QED
      BY <3>1 DEF ConstantsAssumption
  <2>2. CASE CheckoutCash(c)
    <3>1. PICK auto \in AutoRows(req[c].view) :
            Remaining(c, auto) \in Nat /\ Pay(c, auto, Remaining(c, auto), TRUE)
      BY <2>2, Zenon DEF CheckoutCash
    <3>2. PICK amount \in Nat : amount = Remaining(c, auto) /\ Pay(c, auto, amount, TRUE)
      BY <3>1, Zenon
    <3>3. amount <= amount
      OBVIOUS
    <3> QED
      BY <3>2, <3>3
  <2> QED
    BY <2>1, <2>2
<1>5. PICK f : f = orders /\ f \in [Orders -> Order]
  BY DEF Steady, Inv, TypeOK
<1>6. PICK before : before = f[o] /\ before \in Order
  BY <1>3, <1>5
<1>7. auto \in Seq(Row)
  BY <1>4, AutoRowsType DEF Steady, Inv, TypeOK, Request
<1>8. /\ orders'[o].rows = before.rows \o auto /\ orders'[o].rate = before.rate
      /\ orders'[o].paid = before.paid + amount
      /\ orders'[o].status = IF closes THEN "closed" ELSE "open"
  <2>1. orders' = [f EXCEPT ![o].rows = @ \o auto, ![o].paid = @ + amount,
                            ![o].status = IF closes THEN "closed" ELSE @]
    BY <1>4, <1>5 DEF Pay
  <2>2. orders'[o] = [before EXCEPT !.rows = @ \o auto, !.paid = @ + amount,
                                    !.status = IF closes THEN "closed" ELSE @]
    BY <1>3, <1>5, <1>6, <2>1
  <2>3. before.status = "open"
    BY <1>3, <1>5, <1>6
  <2> QED
    BY <1>6, <2>2, <2>3 DEF Order
<1>9. Charges(o)' = Charges(o)
  BY <1>4 DEF Pay, Charges, LiveLines
<1>10. PICK due : due = AmountDue(Gross(Charges(o)), before.rows \o auto, before.rate) /\ due \in Int
  <2>1. before.rows \o auto \in Seq(Row) /\ before.rate \in Nat
    BY <1>6, <1>7 DEF Order
  <2>2. Charges(o) \in SUBSET Charge /\ IsFiniteSet(Charges(o))
    BY <1>3, ChargesFinite DEF Steady, Inv
  <2> QED
    BY <2>1, <2>2, DueType
<1>11. Due(o)' = due
  BY <1>8, <1>9, <1>10 DEF Due
<1>12. Remaining(c, auto) = due - before.paid
  BY <1>3, <1>5, <1>6, <1>10 DEF Remaining
<1>13. before.paid \in Nat
  BY <1>6 DEF Order
<1>14. /\ before.paid <= orders'[o].paid /\ orders'[o].paid <= due
       /\ closes <=> orders'[o].paid = due
  <2>1. amount \in Nat /\ amount <= due - before.paid /\ closes = (amount = due - before.paid)
    BY <1>4, <1>12
  <2>2. PICK paid : paid = orders'[o].paid /\ paid = before.paid + amount
    BY <1>8
  <2>3. before.paid <= paid /\ paid <= due /\ (amount = due - before.paid <=> paid = due)
    BY <1>10, <1>13, <2>1, <2>2
  <2> QED
    BY <2>1, <2>2, <2>3
<1>15. Due(o)' = Due(o) \/ before.paid = 0
  <2>1. CASE auto = <<>>
    <3>1. before.rows \o auto = before.rows
      BY <1>6, <2>1 DEF Order
    <3> QED
      BY <1>5, <1>6, <1>10, <1>11, <3>1 DEF Due
  <2>2. CASE auto # <<>>
    BY <1>3, <1>4, <1>5, <1>6, <2>2, AutoRowsAre
  <2> QED
    BY <2>1, <2>2
<1> QED
  BY <1>2, <1>3, <1>5, <1>6, <1>8, <1>11, <1>14, <1>15 DEF Paid

\* A merge adds the lines of another bill, one that holds no payment and is voided.
LEMMA MergedBill ==
  ASSUME ConstantsAssumption, Steady, Blank, NEW c \in Clients, MergeSessions(c),
         NEW o, o = req[c].order, NEW p, p = req[c].from
  PROVE  /\ Dearer(c, o)
         /\ p # None => /\ p \in Orders /\ p # o /\ orders[p].status = "open" /\ orders[p].paid = 0
                        /\ orders'[p] = [orders[p] EXCEPT !.status = "voided"]
<1>1. PICK r : r = req[c] /\ Current(r) /\ r.phase = "commit" /\ r.op = "merge_sessions"
  BY DEF Steady, UpToDate, MergeSessions, Commit
<1>2. r.op \in BillOps /\ r.op # "void_order"
  BY <1>1 DEF BillOps
<1>3. PICK s : /\ s = Found(c) /\ s \in Order /\ s.status = "open" /\ o \in Orders
               /\ Saved(c) \in [Orders -> Order] /\ s = Saved(c)[o]
  BY <1>1, <1>2, FoundBill DEF Found
<1>4. ASSUME p # None
      PROVE  /\ p \in OpenOrders(r.source) /\ p \in Orders /\ p # o /\ orders[p].status = "open"
             /\ r.held = orders[p].paid
  BY <1>1, <1>4, MergedOrder DEF Current
<1>5. ASSUME p # None PROVE orders' = [Saved(c) EXCEPT ![p].status = "voided"] /\ r.held = 0
  BY <1>1, <1>5 DEF MergeSessions
<1>6. orders'[o] = s
  <2>1. CASE p = None
    BY <1>1, <1>3, <2>1 DEF MergeSessions
  <2>2. CASE p # None
    BY <1>3, <1>4, <1>5, <2>2
  <2> QED
    BY <2>1, <2>2
<1>7. \A l \in LiveLines(o) : l \in Lines /\ l \notin r.moved
  <2>1. \A l \in r.moved : lines[l].order = p /\ p # o
    BY <1>1, <1>4, MergedOrder DEF ConstantsAssumption
  <2> QED
    BY <2>1 DEF LiveLines
<1>8. \A l \in LiveLines(o) : lines'[l] = lines[l]
  BY <1>1, <1>7 DEF MergeSessions
<1>9. Charges(o) \subseteq Charges(o)'
  BY <1>7, <1>8 DEF Charges, LiveLines
<1>10. ASSUME p # None PROVE orders'[p] = [orders[p] EXCEPT !.status = "voided"]
  <2>1. Saved(c)[p] = orders[p]
    BY <1>4, <1>10, SavedRows DEF Steady, Inv
  <2> QED
    BY <1>3, <1>4, <1>5, <1>10, <2>1
<1> QED
  BY <1>3, <1>4, <1>5, <1>6, <1>9, <1>10 DEF Dearer

\* The order API closes an open bill as it is, or voids one that is open or closed.
LEMMA EndedBill ==
  ASSUME ConstantsAssumption, Steady, Blank, NEW c \in Clients, CloseOrder(c) \/ VoidOrder(c),
         NEW o, o = req[c].order
  PROVE  ClosedBy(c, o) \/ VoidedBy(c, o)
<1>1. req[c].phase = "commit" /\ req[c].op \in OrderOps /\ req[c].op \notin BillOps
  BY KindsApart DEF CloseOrder, VoidOrder, Commit, OrderOps
<1>2. ~req[c].fresh
  BY <1>1 DEF Steady, Inv, SlotHeld
<1>3. o \in Orders /\ orders[o].status \in {"open", "closed"}
  BY <1>1, <1>2, FoundBill
<1>4. orders \in [Orders -> Order]
  BY DEF Steady, Inv, TypeOK
<1>5. CASE CloseOrder(c)
  <2>1. orders[o].status = "open"
    BY <1>1, <1>2, <1>5, FoundBill DEF CloseOrder, Commit
  <2>2. orders'[o] = [orders[o] EXCEPT !.status = "closed"]
    BY <1>3, <1>4, <1>5 DEF CloseOrder
  <2>3. Charges(o)' = Charges(o)
    BY <1>5 DEF CloseOrder, Charges, LiveLines
  <2> QED
    BY <1>2, <2>1, <2>2, <2>3 DEF ClosedBy
<1>6. CASE VoidOrder(c)
  <2>1. orders'[o] = [orders[o] EXCEPT !.status = "voided"]
    BY <1>3, <1>4, <1>6 DEF VoidOrder
  <2> QED
    BY <1>2, <1>3, <2>1 DEF VoidedBy
<1> QED
  BY <1>5, <1>6

\* A commit on an order does one of these to its bill.
LEMMA OwnBill ==
  ASSUME ConstantsAssumption, IsFiniteSet(Lines), Steady, Blank, NEW c \in Clients, Write(c),
         req[c].op \in BillOps \cup LineOps \cup OrderOps, NEW o, o = req[c].order
  PROVE  o \in Orders /\ BillStep(c, o)
<1>1. o \in Orders
  BY Commits, OwnOrder
<1>2. ~(OpenSession(c) \/ CloseSession(c) \/ CancelSession(c) \/ TransferSession(c))
  BY KindsApart DEF OpenSession, CloseSession, CancelSession, TransferSession, Commit, SeatOps
<1>3. CASE AddLine(c) \/ GetSessionOrder(c) \/ MergeSessions(c)
  BY <1>1, <1>3, AddedLine, ReadBill, MergedBill DEF BillStep
<1>4. CASE UpdateLineQty(c) \/ VoidLine(c)
  BY <1>1, <1>4, PricedLine, VoidedLine DEF BillStep
<1>5. CASE ApplyDiscount(c) \/ SetServiceCharge(c)
  BY <1>1, <1>5, DiscountedBill, ServiceChargedBill DEF BillStep
<1>6. CASE Quote(c)
  BY <1>1, <1>6, QuotedBill DEF BillStep
<1>7. CASE PayPartial(c) \/ CheckoutCash(c)
  BY <1>1, <1>7, PaidBill DEF BillStep
<1>8. CASE CloseOrder(c) \/ VoidOrder(c)
  BY <1>1, <1>8, EndedBill DEF BillStep
<1> QED
  BY <1>2, <1>3, <1>4, <1>5, <1>6, <1>7, <1>8 DEF Write

-----------------------------------------------------------------------------
\* What the lines of a bill add up to never shrinks by adding lines.
LEMMA GrossGrows ==
  ASSUME IsFiniteSet(Lines), TypeOK, TypeOK', NEW o \in Orders, Charges(o) \subseteq Charges(o)'
  PROVE  /\ Gross(Charges(o)) \in Nat /\ Gross(Charges(o))' \in Nat
         /\ Gross(Charges(o)) <= Gross(Charges(o))'
<1>1. PICK S, T : S = Charges(o) /\ T = Charges(o)'
  OBVIOUS
<1>2. T \in SUBSET Charge /\ IsFiniteSet(T)
  <2>1. LiveLines(o)' \in SUBSET Lines /\ IsFiniteSet(LiveLines(o)')
    <3>1. LiveLines(o)' \in SUBSET Lines
      BY DEF LiveLines
    <3> QED
      BY <3>1, FS_Subset
  <2>2. T \in SUBSET Charge
    BY <1>1, <2>1 DEF Charges, Charge, TypeOK, Line
  <2>3. IsFiniteSet(T)
    <3> DEFINE charge == [l \in LiveLines(o)' |-> [line |-> l, total |-> lines'[l].total]]
    <3>1. T = {charge[l] : l \in LiveLines(o)'}
      BY <1>1 DEF Charges
    <3>2. charge \in Surjection(LiveLines(o)', T)
      BY <3>1 DEF Surjection
    <3> HIDE DEF charge
    <3> QED
      BY <2>1, <3>2, FS_Surjection
  <2> QED
    BY <2>2, <2>3
<1>3. \A x \in T : x.total \in Nat
  BY <1>2 DEF Charge
<1>4. S \in SUBSET T
  BY <1>1
<1>5. Gross(S) \in Nat /\ Gross(T) \in Nat /\ Gross(S) <= Gross(T)
  BY <1>2, <1>3, <1>4, TotalsGrow DEF Gross
<1>6. Gross(Charges(o))' = Gross(T)
  BY <1>1
<1> QED
  BY <1>1, <1>5, <1>6

\* Every commit leaves a bill alone, or is about it, or merges it away.
LEMMA BillChanges ==
  ASSUME ConstantsAssumption, IsFiniteSet(Lines), Steady, Blank, NEW c \in Clients, Write(c),
         NEW o \in Orders
  PROVE  \/ orders'[o] = orders[o] /\ Charges(o)' = Charges(o)
         \/ /\ o = req[c].order /\ req[c].op \in BillOps \cup LineOps \cup OrderOps
            /\ BillStep(c, o)
         \/ /\ MergeSessions(c) /\ o = req[c].from /\ o # req[c].order
            /\ orders[o].status = "open" /\ orders[o].paid = 0
            /\ orders'[o] = [orders[o] EXCEPT !.status = "voided"]
<1>1. CASE req[c].op \notin BillOps \cup LineOps \cup OrderOps
  <2>1. orders' = orders /\ lines' = lines
    BY <1>1, Commits
  <2>2. Charges(o)' = Charges(o)
    BY <2>1 DEF Charges, LiveLines
  <2> QED
    BY <2>1, <2>2
<1>2. CASE req[c].op \in BillOps \cup LineOps \cup OrderOps /\ o = req[c].order
  BY <1>2, OwnBill
<1>3. CASE o # req[c].order /\ ~(MergeSessions(c) /\ o = req[c].from)
  BY <1>3, OtherBill
<1>4. CASE MergeSessions(c) /\ o = req[c].from
  <2>1. o # None
    BY DEF ConstantsAssumption
  <2> QED
    BY <1>4, <2>1, MergedBill
<1> QED
  BY <1>1, <1>2, <1>3, <1>4

\* Nothing is due for no lines.
LEMMA NothingGross == Gross({}) = 0
<1>1. IsFiniteSet({}) /\ \A x \in {} : x.total \in Int
  BY FS_EmptySet
<1>2. Gross({}) = SumFunctionOnSet([x \in {} |-> x.total], {})
  BY <1>1, SumOfTotals DEF Gross
<1> QED
  BY <1>2, SumEmpty

\* An automatic row that is appended to a plain bill is its only row.
LEMMA AutoComesFirst ==
  ASSUME NEW rows \in Seq(Row), NEW x \in Row, x.auto, Plain(rows \o <<x>>)
  PROVE  rows \o <<x>> = <<x>>
<1>1. PICK n \in Nat : n = Len(rows)
  OBVIOUS
<1>2. PICK t : t = rows \o <<x>>
  OBVIOUS
<1>3. n + 1 \in DOMAIN t /\ t[n + 1] = x
  <2>1. <<x>> \in Seq(Row)
    OBVIOUS
  <2> QED
    BY <1>1, <1>2, <2>1
<1>4. n + 1 = 1
  BY <1>2, <1>3 DEF Plain
<1>5. rows = <<>>
  BY <1>1, <1>4
<1> QED
  BY <1>5

\* The plain bills cover what was collected.
PlainBillsCovered ==
  \A o \in Orders : orders[o].status = "open" /\ Plain(orders[o].rows) => Due(o) >= orders[o].paid

\* Every commit of the only client keeps them so.
LEMMA CoveredStep ==
  ASSUME ConstantsAssumption, SaneRules, IsFiniteSet(Lines), Steady, Steady', Blank,
         PlainBillsCovered, NEW c \in Clients, Write(c)
  PROVE  PlainBillsCovered'
<1> SUFFICES ASSUME NEW o \in Orders, orders'[o].status = "open", Plain(orders'[o].rows)
             PROVE  Due(o)' >= orders'[o].paid
  BY DEF PlainBillsCovered
<1>1. orders \in [Orders -> Order] /\ orders[o] \in Order
  BY DEF Steady, Inv, TypeOK
<1>2. CASE orders'[o] = orders[o] /\ Charges(o)' = Charges(o)
  BY <1>2 DEF PlainBillsCovered, Due
<1>3. CASE orders'[o] = [orders[o] EXCEPT !.status = "voided"]
  BY <1>1, <1>3 DEF Order
<1>4. CASE o = req[c].order /\ Guarded(c, o)
  BY <1>4 DEF Guarded
<1>5. CASE Paid(c, o)
  BY <1>5 DEF Paid
<1>6. CASE ClosedBy(c, o)
  BY <1>1, <1>6 DEF ClosedBy, Order
<1>7. CASE o = req[c].order /\ req[c].op \in BillOps \cup LineOps \cup OrderOps /\ Dearer(c, o)
  <2>1. PICK s : s = Found(c) /\ s \in Order /\ s = orders'[o]
    BY <1>7, Commits, FoundBill DEF Dearer
  <2>2. AmountDue(Gross(Charges(o)), s.rows, s.rate) >= s.paid
    <3>1. CASE ~req[c].fresh
      <4>1. s = orders[o]
        BY <1>7, <2>1, <3>1, Commits, FoundBill
      <4> QED
        BY <2>1, <4>1 DEF PlainBillsCovered, Due
    <3>2. CASE req[c].fresh
      <4>1. Charges(o) = {} /\ s = NewOrder(req[c].session)
        BY <1>7, <2>1, <3>2, Commits, FoundBill
      <4>2. s.rows = <<>> /\ s.rate = 0 /\ s.paid = 0
        BY <4>1 DEF NewOrder
      <4> QED
        BY <4>1, <4>2, NothingGross, NothingDue
    <3> QED
      BY <3>1, <3>2
  <2>3. PICK g \in Nat, h \in Nat : g = Gross(Charges(o)) /\ h = Gross(Charges(o))' /\ g <= h
    BY <1>7, GrossGrows DEF Dearer, Steady, Inv
  <2>4. s.rows \in Seq(Row) /\ s.rate \in Nat /\ s.paid \in Nat
    BY <2>1 DEF Order
  <2>5. PICK a \in Int, b \in Int : /\ a = AmountDue(g, s.rows, s.rate)
                                    /\ b = AmountDue(h, s.rows, s.rate) /\ a <= b
    <3>1. AmountDue(g, s.rows, s.rate) <= AmountDue(h, s.rows, s.rate)
      BY <2>1, <2>3, <2>4, DearerAsksMore
    <3>2. AmountDue(g, s.rows, s.rate) \in Int /\ AmountDue(h, s.rows, s.rate) \in Int
      <4>1. g \in Int /\ h \in Int
        OBVIOUS
      <4> QED
        BY <2>4, <4>1, AmountType
    <3> QED
      BY <3>1, <3>2
  <2>6. Due(o)' = b
    BY <2>1, <2>3, <2>5 DEF Due
  <2>7. a >= s.paid
    BY <2>2, <2>3, <2>5
  <2>8. b >= s.paid
    BY <2>4, <2>5, <2>7
  <2> QED
    BY <2>1, <2>6, <2>8
<1>8. CASE o = req[c].order /\ req[c].op \in BillOps \cup LineOps \cup OrderOps /\ Promoted(c, o)
  <2>1. PICK s : s = Found(c) /\ s \in Order
    BY <1>8, Commits, FoundBill
  <2>2. PICK R \in InForce : \E r \in BestRules(R, Gross(Charges(o))) :
          orders'[o].rows = s.rows \o <<AutoRow(r)>>
    BY <1>8, <2>1 DEF Promoted
  <2>3. PICK r \in BestRules(R, Gross(Charges(o))) : orders'[o].rows = s.rows \o <<AutoRow(r)>>
    BY <2>2
  <2>4. orders'[o].rows = <<AutoRow(r)>>
    <3>1. AutoRow(r) \in Row
      BY AutoRowIsRow DEF InForce, BestRules
    <3>2. AutoRow(r).auto
      BY DEF AutoRow
    <3>3. s.rows \in Seq(Row)
      BY <2>1 DEF Order
    <3> QED
      BY <2>3, <3>1, <3>2, <3>3, AutoComesFirst
  <2>5. PICK g \in Nat : g = Gross(Charges(o)) /\ Gross(Charges(o))' = g
    BY <1>8, GrossGrows DEF Promoted, Steady, Inv
  <2>6. AmountDue(g, <<AutoRow(r)>>, s.rate) >= 0
    BY <2>1, <2>3, <2>5, AutoAlone DEF Order
  <2>7. Due(o)' >= 0
    <3>1. orders'[o].rate = s.rate
      BY <1>8, <2>1 DEF Promoted
    <3> QED
      BY <2>4, <2>5, <2>6, <3>1 DEF Due
  <2>8. orders'[o].paid = 0
    BY <1>8 DEF Promoted
  <2> QED
    BY <2>7, <2>8
<1> QED
  BY <1>2, <1>3, <1>4, <1>5, <1>6, <1>7, <1>8, BillChanges DEF BillStep, VoidedBy

\* The discount rows of an order only grow, by one manual row while there is room or by one
\* automatic row if there is none.
RowsStep(old, new) ==
  \/ new = old
  \/ \E row \in Discounts : Len(old) < MaxRows /\ new = Append(old, row)
  \/ \E r \in Rules : (\A i \in DOMAIN old : ~old[i].auto) /\ new = Append(old, AutoRow(r))

\* The automatic rows are such a step.
LEMMA AutoStep ==
  ASSUME ConstantsAssumption, NEW v \in View, NEW auto \in AutoRows(v)
  PROVE  RowsStep(v.rows, v.rows \o auto)
<1>1. v.rows \in Seq(Row)
  BY DEF View
<1>2. CASE auto = <<>>
  <2>1. v.rows \o auto = v.rows
    BY <1>1, <1>2
  <2> QED
    BY <2>1 DEF RowsStep
<1>3. CASE auto # <<>>
  <2>1. PICK R \in InForce : \E r \in BestRules(R, Gross(v.charges)) : auto = <<AutoRow(r)>>
    BY <1>3, AutoRowsAre
  <2>2. PICK r \in BestRules(R, Gross(v.charges)) : auto = <<AutoRow(r)>>
    BY <2>1
  <2>3. r \in Rules /\ AutoRow(r) \in Row
    BY AutoRowIsRow DEF InForce, BestRules
  <2>4. v.rows \o auto = Append(v.rows, AutoRow(r))
    <3>1. PICK x : x = AutoRow(r) /\ x \in Row
      BY <2>3
    <3> QED
      BY <1>1, <2>2, <3>1
  <2>5. \A i \in DOMAIN v.rows : ~v.rows[i].auto
    BY <1>3, AutoRowsAre
  <2> QED
    BY <2>3, <2>4, <2>5 DEF RowsStep
<1> QED
  BY <1>2, <1>3

\* Every commit steps the rows of every order so.
LEMMA WriteRowsStep ==
  ASSUME ConstantsAssumption, Steady, Blank, NEW c \in Clients, Write(c), NEW o \in Orders
  PROVE  RowsStep(orders[o].rows, orders'[o].rows)
<1>1. orders \in [Orders -> Order] /\ Saved(c) \in [Orders -> Order]
  BY SavedType DEF Steady, Inv, TypeOK
<1>2. ASSUME NEW f \in [Orders -> Order], f[o].rows = orders[o].rows,
             \/ orders' = f \/ \E p, rate : orders' = [f EXCEPT ![p].rate = rate]
             \/ \E p, status : orders' = [f EXCEPT ![p].status = status]
      PROVE  RowsStep(orders[o].rows, orders'[o].rows)
  <2>1. f[o] \in Order
    BY <1>2
  <2>2. orders'[o].rows = f[o].rows
    <3>1. CASE orders' = f
      BY <3>1
    <3>2. ASSUME NEW p, NEW rate, orders' = [f EXCEPT ![p].rate = rate]
          PROVE  orders'[o].rows = f[o].rows
      BY <2>1, <3>2 DEF Order
    <3>3. ASSUME NEW p, NEW status, orders' = [f EXCEPT ![p].status = status]
          PROVE  orders'[o].rows = f[o].rows
      BY <2>1, <3>3 DEF Order
    <3> QED
      BY <1>2, <3>1, <3>2, <3>3
  <2> QED
    BY <1>2, <2>2 DEF RowsStep
<1>3. Saved(c)[o].rows = orders[o].rows
  <2>1. CASE req[c].fresh /\ o = req[c].order
    <3>1. orders[o].status = "none"
      BY <2>1 DEF Steady, Inv, SlotHeld
    <3>2. Saved(c)[o] = NewOrder(req[c].session)
      BY <2>1, SavedRows DEF Steady, Inv
    <3> QED
      BY <3>1, <3>2 DEF Blank, NewOrder
  <2>2. CASE ~(req[c].fresh /\ o = req[c].order)
    BY <2>2, SavedRows DEF Steady, Inv
  <2> QED
    BY <2>1, <2>2
<1>4. CASE orders' = orders
  BY <1>1, <1>2, <1>4
<1>5. CASE AddLine(c) \/ GetSessionOrder(c) \/ SetServiceCharge(c)
  BY <1>1, <1>2, <1>3, <1>5 DEF AddLine, GetSessionOrder, SetServiceCharge
<1>6. CASE MergeSessions(c)
  BY <1>1, <1>2, <1>3, <1>6 DEF MergeSessions
<1>7. CASE CloseOrder(c) \/ VoidOrder(c)
  BY <1>1, <1>2, <1>7 DEF CloseOrder, VoidOrder
<1>8. CASE ApplyDiscount(c)
  <2>1. PICK row \in Discounts : orders' = [orders EXCEPT ![req[c].order].rows = Append(@, row)]
    BY <1>8 DEF ApplyDiscount
  <2>2. Len(orders[req[c].order].rows) < MaxRows
    BY <1>8 DEF ApplyDiscount
  <2>3. orders[o] \in Order
    BY <1>1
  <2>4. orders'[o].rows = IF o = req[c].order THEN Append(orders[o].rows, row) ELSE orders[o].rows
    BY <1>1, <2>1, <2>3 DEF Order
  <2> QED
    BY <2>2, <2>4 DEF RowsStep
<1>9. CASE Quote(c) \/ PayPartial(c) \/ CheckoutCash(c)
  <2>1. req[c].phase = "commit" /\ req[c].op \in BillOps /\ req[c].op # "void_order"
    BY <1>9 DEF Quote, PayPartial, CheckoutCash, Commit, BillOps
  <2>2. PICK auto \in AutoRows(req[c].view) :
          \/ orders' = [Saved(c) EXCEPT ![req[c].order].rows = @ \o auto]
          \/ \E amount, closes : Pay(c, auto, amount, closes)
    BY <1>9 DEF Quote, PayPartial, CheckoutCash
  <2>3. PICK p : p = req[c].order
    OBVIOUS
  <2>4. \/ orders' = [Saved(c) EXCEPT ![p].rows = @ \o auto]
        \/ \E paid, status : orders' = [orders EXCEPT ![p].rows = @ \o auto, ![p].paid = paid,
                                                      ![p].status = status]
    BY <2>2, <2>3 DEF Pay
  <2>5. orders'[o].rows = IF o = p THEN orders[o].rows \o auto ELSE orders[o].rows
    <3>1. orders[o] \in Order /\ Saved(c)[o] \in Order
      BY <1>1
    <3>2. CASE orders' = [Saved(c) EXCEPT ![p].rows = @ \o auto]
      BY <1>1, <1>3, <3>1, <3>2 DEF Order
    <3>3. ASSUME NEW paid, NEW status,
                 orders' = [orders EXCEPT ![p].rows = @ \o auto, ![p].paid = paid,
                                          ![p].status = status]
          PROVE  orders'[o].rows = IF o = p THEN orders[o].rows \o auto ELSE orders[o].rows
      <4>1. CASE o = p
        <5>1. orders'[o] = [orders[o] EXCEPT !.rows = @ \o auto, !.paid = paid, !.status = status]
          BY <1>1, <3>3, <4>1
        <5> QED
          BY <3>1, <4>1, <5>1 DEF Order
      <4>2. CASE o # p
        BY <1>1, <3>3, <4>2
      <4> QED
        BY <4>1, <4>2
    <3> QED
      BY <2>4, <3>2, <3>3
  <2>6. CASE o = p
    <3>1. req[c].view.rows = orders[o].rows
      BY <1>3, <2>1, <2>3, <2>6, FoundBill DEF Found
    <3>2. req[c].view \in View
      BY DEF Steady, Inv, TypeOK, Request
    <3> QED
      BY <2>5, <2>6, <3>1, <3>2, AutoStep
  <2>7. CASE o # p
    BY <2>5, <2>7 DEF RowsStep
  <2> QED
    BY <2>6, <2>7
<1>10. CASE \/ OpenSession(c) \/ CloseSession(c) \/ CancelSession(c) \/ TransferSession(c)
            \/ UpdateLineQty(c) \/ VoidLine(c)
  BY <1>4, <1>10 DEF OpenSession, CloseSession, CancelSession, TransferSession, UpdateLineQty,
                     VoidLine
<1> QED
  BY <1>5, <1>6, <1>7, <1>8, <1>9, <1>10 DEF Write

-----------------------------------------------------------------------------
\* Serial requests attach the automatic discount of an order once, and its other rows are
\* manual ones, within their number where the store has no automatic discounts.
KnownRows(rows) ==
  /\ \A i \in DOMAIN rows : rows[i] \in Discounts \/ \E r \in Rules : rows[i] = AutoRow(r)
  /\ \A i, j \in DOMAIN rows : rows[i].auto /\ rows[j].auto => i = j
  /\ Rules = {} => Len(rows) <= MaxRows

\* Every step of the rows keeps them known.
LEMMA KnownRowsStep ==
  ASSUME ConstantsAssumption, NEW old \in Seq(Row), NEW new \in Seq(Row), KnownRows(old),
         RowsStep(old, new)
  PROVE  KnownRows(new)
<1>1. PICK n \in Nat : n = Len(old) /\ DOMAIN old = 1 .. n
  OBVIOUS
<1>2. ASSUME NEW x \in Row, new = Append(old, x)
      PROVE  /\ DOMAIN new = 1 .. n + 1 /\ Len(new) = n + 1 /\ new[n + 1] = x
             /\ \A i \in 1 .. n : new[i] = old[i]
  BY <1>1, <1>2
<1>3. ASSUME NEW x \in Row, new = Append(old, x),
             x \in Discounts \/ \E r \in Rules : x = AutoRow(r),
             x.auto => \A i \in DOMAIN old : ~old[i].auto,
             Rules = {} => n < MaxRows
      PROVE  KnownRows(new)
  <2>1. /\ DOMAIN new = 1 .. n + 1 /\ Len(new) = n + 1 /\ new[n + 1] = x
        /\ \A i \in 1 .. n : new[i] = old[i]
    BY <1>2, <1>3
  <2>2. \A i \in 1 .. n + 1 : i \in 1 .. n \/ i = n + 1
    BY <1>1
  <2>3. \A i \in DOMAIN new : new[i] \in Discounts \/ \E r \in Rules : new[i] = AutoRow(r)
    BY <1>1, <1>3, <2>1, <2>2 DEF KnownRows
  <2>4. \A i, j \in DOMAIN new : new[i].auto /\ new[j].auto => i = j
    BY <1>1, <1>3, <2>1, <2>2 DEF KnownRows
  <2>5. Rules = {} => Len(new) <= MaxRows
    BY <1>1, <1>3, <2>1 DEF ConstantsAssumption
  <2> QED
    BY <2>3, <2>4, <2>5 DEF KnownRows
<1>4. CASE \E row \in Discounts : Len(old) < MaxRows /\ new = Append(old, row)
  <2>1. PICK row \in Discounts : Len(old) < MaxRows /\ new = Append(old, row)
    BY <1>4
  <2>2. row \in Row /\ ~row.auto
    BY DEF ConstantsAssumption
  <2> QED
    BY <1>1, <1>3, <2>1, <2>2
<1>5. CASE \E r \in Rules : (\A i \in DOMAIN old : ~old[i].auto) /\ new = Append(old, AutoRow(r))
  <2>1. PICK r \in Rules : (\A i \in DOMAIN old : ~old[i].auto) /\ new = Append(old, AutoRow(r))
    BY <1>5
  <2>2. AutoRow(r) \in Row
    BY AutoRowIsRow
  <2> QED
    BY <1>3, <2>1, <2>2
<1> QED
  BY <1>4, <1>5 DEF RowsStep

\* A store whose bills are always plain: it has automatic discounts only, or no automatic
\* ones and manual ones of which no ratio is stacked with another.
PlainStore ==
  /\ SaneRules
  /\ \/ Discounts = {}
     \/ Rules = {} /\ MaxRows <= 1
     \/ Rules = {} /\ \A row \in Discounts : row.kind \notin RatioKinds

\* In such a store known rows are plain.
LEMMA KnownRowsPlain ==
  ASSUME ConstantsAssumption, PlainStore, NEW rows \in Seq(Row), KnownRows(rows)
  PROVE  Plain(rows)
<1>1. PICK n \in Nat : n = Len(rows) /\ DOMAIN rows = 1 .. n
  OBVIOUS
<1>2. \A row \in Discounts : row \in Row /\ ~row.auto
  BY DEF ConstantsAssumption
<1>3. \A r \in Rules : AutoRow(r).auto /\ AutoRow(r).kind # "comp"
  BY DEF ConstantsAssumption, Rule, AutoRow
<1>4. ASSUME n <= 1 PROVE Plain(rows)
  <2>1. \A i \in DOMAIN rows : i = 1
    BY <1>1, <1>4
  <2>2. "comp" \notin RatioKinds
    BY DEF RatioKinds
  <2> QED
    BY <2>1, <2>2 DEF Plain
<1>5. CASE Discounts = {}
  <2>1. \A i \in DOMAIN rows : rows[i].auto
    BY <1>3, <1>5 DEF KnownRows
  <2>2. ~(n > 1)
    <3> SUFFICES ASSUME n > 1 PROVE FALSE
      OBVIOUS
    <3>1. 1 \in DOMAIN rows /\ 2 \in DOMAIN rows
      BY <1>1
    <3> QED
      BY <2>1, <3>1 DEF KnownRows
  <2> QED
    BY <1>1, <1>4, <2>2
<1>6. CASE Rules = {} /\ MaxRows <= 1
  BY <1>1, <1>4, <1>6 DEF KnownRows, ConstantsAssumption
<1>7. CASE Rules = {} /\ \A row \in Discounts : row.kind \notin RatioKinds
  BY <1>2, <1>7 DEF KnownRows, Plain
<1> QED
  BY <1>5, <1>6, <1>7 DEF PlainStore

-----------------------------------------------------------------------------
\* What always holds of the books of serial requests.
Books == Steady /\ Blank /\ \A o \in Orders : KnownRows(orders[o].rows)

\* They hold in the empty database.
LEMMA BooksInit ==
  ASSUME ConstantsAssumption, Init
  PROVE  Books /\ PlainBillsCovered
<1>1. Steady
  BY SteadyInit
<1>2. \A o \in Orders : /\ orders[o].status = "none" /\ orders[o].rows = <<>>
                        /\ orders[o].rate = 0 /\ orders[o].paid = 0
  BY DEF Init, NewOrder
<1>3. KnownRows(<<>>)
  BY DEF KnownRows, ConstantsAssumption
<1> QED
  BY <1>1, <1>2, <1>3 DEF Books, Blank, PlainBillsCovered

\* And after every step of the only client.
LEMMA BooksNext ==
  ASSUME ConstantsAssumption, Serial, Books, [Next]_vars
  PROVE  Books'
<1>1. Steady'
  BY SteadyNext DEF Books
<1>2. CASE UNCHANGED <<sessions, orders, lines>>
  BY <1>1, <1>2 DEF Books, Blank
<1>3. ASSUME NEW c \in Clients, Write(c) PROVE Books'
  <2>1. Blank'
    BY <1>3, BlankStep DEF Books
  <2>2. ASSUME NEW o \in Orders PROVE KnownRows(orders'[o].rows)
    <3>1. RowsStep(orders[o].rows, orders'[o].rows) /\ KnownRows(orders[o].rows)
      BY <1>3, WriteRowsStep DEF Books
    <3>2. orders[o].rows \in Seq(Row) /\ orders'[o].rows \in Seq(Row)
      BY <1>1 DEF Books, Steady, Inv, TypeOK, Order
    <3> QED
      BY <3>1, <3>2, KnownRowsStep
  <2> QED
    BY <1>1, <2>1, <2>2 DEF Books
<1> QED
  BY <1>2, <1>3, OnlyWritesWrite

\* No automatic discount is ever attached to an order twice, by requests that do not overlap.
THEOREM DiscountRowsAreKnown ==
  ASSUME ConstantsAssumption, Serial
  PROVE  Spec => [](\A o \in Orders : KnownRows(orders[o].rows))
<1>1. Init => Books
  BY BooksInit
<1>2. Books /\ [Next]_vars => Books'
  BY BooksNext
<1>3. Books => \A o \in Orders : KnownRows(orders[o].rows)
  BY DEF Books
<1> QED
  BY <1>1, <1>2, <1>3, PTL DEF Spec

\* _guard_not_below_paid: whatever the store's discounts, serial requests never leave an open
\* bill below what was collected on it as long as its discounts are plain, though adding
\* lines and merging are not guarded.
THEOREM PlainBillsStayCovered ==
  ASSUME ConstantsAssumption, Serial, SaneRules, IsFiniteSet(Lines)
  PROVE  Spec => []PlainBillsCovered
<1>1. Init => Books /\ PlainBillsCovered
  BY BooksInit
<1>2. Books /\ PlainBillsCovered /\ [Next]_vars => (Books /\ PlainBillsCovered)'
  <2> SUFFICES ASSUME Books, PlainBillsCovered, [Next]_vars PROVE PlainBillsCovered'
    BY BooksNext
  <2>1. CASE UNCHANGED <<sessions, orders, lines>>
    <3>1. \A o \in Orders : Charges(o)' = Charges(o)
      BY <2>1 DEF Charges, LiveLines
    <3> QED
      BY <2>1, <3>1 DEF PlainBillsCovered, Due
  <2>2. ASSUME NEW c \in Clients, Write(c) PROVE PlainBillsCovered'
    BY <2>2, BooksNext, CoveredStep DEF Books
  <2> QED
    BY <2>1, <2>2, OnlyWritesWrite
<1> QED
  BY <1>1, <1>2, PTL DEF Spec

\* So no bill of a store whose discounts are plain drops below what was collected on it.
THEOREM BillsCoverTheirPayments ==
  ASSUME ConstantsAssumption, Serial, PlainStore, IsFiniteSet(Lines)
  PROVE  Spec => []NeverBelowPaid
<1>1. Spec => []PlainBillsCovered
  BY PlainBillsStayCovered DEF PlainStore
<1>2. Init => Books
  BY BooksInit
<1>3. Books /\ [Next]_vars => Books'
  BY BooksNext
<1>4. Books /\ PlainBillsCovered => NeverBelowPaid
  <2> SUFFICES ASSUME Books, NEW o \in Orders PROVE Plain(orders[o].rows)
    BY DEF PlainBillsCovered, NeverBelowPaid
  <2>1. orders[o].rows \in Seq(Row) /\ KnownRows(orders[o].rows)
    BY DEF Books, Steady, Inv, TypeOK, Order
  <2> QED
    BY <2>1, KnownRowsPlain
<1> QED
  BY <1>1, <1>2, <1>3, <1>4, PTL DEF Spec

-----------------------------------------------------------------------------
(***************************************************************************)
(* The abstract till.  Every commit is a step of Bill on the order it is   *)
(* about, or changes no bill.                                              *)
(***************************************************************************)

\* One bill as the customer sees it.
TheBill(o) == [state |-> orders[o].status,
               due   |-> IF orders[o].status = "voided" THEN 0 ELSE Due(o),
               paid  |-> orders[o].paid]

\* The bills are those of all orders, before a step.
LEMMA TheBillsAre == TheBills = [o \in Orders |-> TheBill(o)]
  BY DEF TheBills, TheBill

\* And after it.
LEMMA TheBillsBecome == TheBills' = [o \in Orders |-> TheBill(o)']
  BY DEF TheBills, TheBill

\* A bill whose row and lines stay is the same bill.
LEMMA SameBill ==
  ASSUME NEW o \in Orders, orders'[o] = orders[o], Charges(o)' = Charges(o)
  PROVE  TheBill(o)' = TheBill(o)
<1>1. Due(o)' = Due(o)
  BY DEF Due
<1> QED
  BY <1>1 DEF TheBill

\* A bill that is voided keeps what was collected.
LEMMA VoidedTheBill ==
  ASSUME NEW o, orders'[o].status = "voided", orders'[o].paid = orders[o].paid
  PROVE  TheBill(o)' = [TheBill(o) EXCEPT !.state = "voided", !.due = 0]
<1>1. PICK b, n : b = TheBill(o) /\ n = TheBill(o)'
  OBVIOUS
<1>2. PICK due, paid, status :
        b = [state |-> status, due |-> due, paid |-> paid] /\ paid = orders[o].paid
  BY <1>1 DEF TheBill
<1>3. n = [state |-> "voided", due |-> 0, paid |-> paid]
  BY <1>1, <1>2 DEF TheBill
<1>4. DOMAIN b = {"state", "due", "paid"}
  BY <1>2
<1>5. PICK e : e = [b EXCEPT !.state = "voided", !.due = 0]
  OBVIOUS
<1>6. DOMAIN e = {"state", "due", "paid"} /\ e.state = "voided" /\ e.due = 0 /\ e.paid = paid
  BY <1>2, <1>4, <1>5
<1>7. e = [f \in {"state", "due", "paid"} |-> e[f]]
  BY <1>4, <1>5
<1>8. e = n
  BY <1>3, <1>6, <1>7
<1> QED
  BY <1>1, <1>5, <1>8

\* An order that stays open, or opens, without a payment is priced again.
LEMMA BillPriced ==
  ASSUME ConstantsAssumption, Steady, Blank, NeverBelowPaid', NEW c \in Clients, Write(c),
         req[c].op \in BillOps \cup LineOps \cup OrderOps, NEW o \in Orders, o = req[c].order,
         Guarded(c, o) \/ Dearer(c, o) \/ Promoted(c, o)
  PROVE  Promise!Priced(o)
<1>1. PICK s : s = Found(c) /\ s = Saved(c)[o]
  BY DEF Found
<1>2. orders'[o].status = "open" /\ orders'[o].paid = s.paid
  BY <1>1 DEF Guarded, Dearer, Promoted
<1>3. s.status = "open"
  <2>1. OrderStep(c, o)
    BY WriteOrderStep DEF Steady
  <2> QED
    BY <1>1, <1>2, <2>1 DEF OrderStep
<1>4. orders[o].status \in {"none", "open"} /\ orders[o].paid = s.paid
  <2>1. CASE req[c].fresh
    <3>1. orders[o].status = "none" /\ s = NewOrder(req[c].session)
      BY <1>1, <2>1, Commits, FoundBill
    <3> QED
      BY <3>1 DEF Blank, NewOrder
  <2>2. CASE ~req[c].fresh
    BY <1>1, <1>3, <2>2, Commits, FoundBill
  <2> QED
    BY <2>1, <2>2
<1>5. PICK b, n : b = TheBill(o) /\ n = TheBill(o)'
  OBVIOUS
<1>6. b.state \in {"none", "open"} /\ b.paid = s.paid
  BY <1>4, <1>5 DEF TheBill
<1>7. n.state = "open" /\ n.paid = s.paid /\ n.due = Due(o)'
  BY <1>2, <1>5 DEF TheBill
<1>8. Due(o)' >= s.paid
  BY <1>2 DEF NeverBelowPaid
<1>9. TheBills[o] = b /\ TheBills'[o] = n
  BY <1>5, TheBillsAre, TheBillsBecome
<1> QED
  BY <1>6, <1>7, <1>8, <1>9 DEF Promise!Priced

\* A payment, the closing or the voiding of a bill.
LEMMA BillEnds ==
  ASSUME TypeOK, NEW c \in Clients, NEW o \in Orders,
         Paid(c, o) \/ ClosedBy(c, o) \/ VoidedBy(c, o),
         TheBills' = [TheBills EXCEPT ![o] = TheBill(o)']
  PROVE  Promise!Collect(o) \/ Promise!Close(o) \/ Promise!Void(o)
<1>1. orders[o] \in Order
  BY DEF TypeOK
<1>2. PICK b, n : b = TheBill(o) /\ n = TheBill(o)'
  OBVIOUS
<1>3. TheBills[o] = b /\ TheBills'[o] = n
  BY <1>2, TheBillsAre, TheBillsBecome
<1>4. /\ b.state = orders[o].status /\ b.paid = orders[o].paid
      /\ orders[o].status # "voided" => b.due = Due(o)
      /\ n.state = orders'[o].status /\ n.paid = orders'[o].paid
      /\ orders'[o].status # "voided" => n.due = Due(o)'
  BY <1>2 DEF TheBill
<1>5. CASE Paid(c, o)
  <2>1. b.state = "open" /\ b.due = Due(o) /\ n.due = Due(o)'
    BY <1>4, <1>5 DEF Paid
  <2>2. /\ n.due = b.due \/ b.paid = 0
        /\ b.paid <= n.paid /\ n.paid <= n.due
        /\ n.state = IF n.paid = n.due THEN "closed" ELSE "open"
    BY <1>4, <1>5, <2>1 DEF Paid
  <2> QED
    BY <1>2, <1>3, <2>1, <2>2 DEF Promise!Collect
<1>6. CASE ClosedBy(c, o)
  <2>1. orders'[o].rows = orders[o].rows /\ orders'[o].rate = orders[o].rate
    BY <1>1, <1>6 DEF ClosedBy, Order
  <2>2. Due(o)' = Due(o)
    BY <1>6, <2>1 DEF ClosedBy, Due
  <2>3. orders'[o].status = "closed" /\ orders'[o].paid = orders[o].paid /\ orders[o].status = "open"
    BY <1>1, <1>6 DEF ClosedBy, Order
  <2>4. n = [b EXCEPT !.state = "closed"]
    BY <1>2, <2>2, <2>3 DEF TheBill
  <2> QED
    BY <1>2, <1>3, <1>4, <2>3, <2>4 DEF Promise!Close
<1>7. CASE VoidedBy(c, o)
  <2>1. orders'[o].status = "voided" /\ orders'[o].paid = orders[o].paid
    BY <1>1, <1>7 DEF VoidedBy, Order
  <2>2. n = [b EXCEPT !.state = "voided", !.due = 0]
    BY <1>2, <2>1, VoidedTheBill
  <2>3. b.state \in {"open", "closed"}
    BY <1>4, <1>7 DEF VoidedBy
  <2>4. TheBills' = [TheBills EXCEPT ![o].state = "voided", ![o].due = 0]
    BY <1>2, <1>3, <2>2, TheBillsAre
  <2> QED
    BY <1>3, <2>3, <2>4 DEF Promise!Void
<1> QED
  BY <1>5, <1>6, <1>7

\* A commit on one order.
LEMMA OwnIsBill ==
  ASSUME ConstantsAssumption, IsFiniteSet(Lines), Steady, Blank, NeverBelowPaid',
         NEW c \in Clients, Write(c), ~(MergeSessions(c) /\ req[c].from # None),
         req[c].op \in BillOps \cup LineOps \cup OrderOps, NEW o, o = req[c].order
  PROVE  Promise!Next
<1>1. o \in Orders /\ BillStep(c, o)
  BY OwnBill
<1>2. \A q \in Orders : q # o => TheBill(q)' = TheBill(q)
  BY OtherBill, SameBill DEF ConstantsAssumption
<1>3. TheBills' = [TheBills EXCEPT ![o] = TheBill(o)']
  BY <1>1, <1>2, TheBillsAre, TheBillsBecome
<1>4. CASE Guarded(c, o) \/ Dearer(c, o) \/ Promoted(c, o)
  <2>1. Promise!Priced(o)
    BY <1>1, <1>4, BillPriced
  <2>2. TheBills' = [TheBills EXCEPT ![o] = TheBills'[o]]
    BY <1>1, <1>3, TheBillsBecome
  <2> QED
    BY <1>1, <2>1, <2>2 DEF Promise!Next, Promise!Price
<1>5. CASE Paid(c, o) \/ ClosedBy(c, o) \/ VoidedBy(c, o)
  <2>1. Promise!Collect(o) \/ Promise!Close(o) \/ Promise!Void(o)
    BY <1>1, <1>3, <1>5, BillEnds DEF Steady, Inv
  <2> QED
    BY <1>1, <2>1 DEF Promise!Next
<1> QED
  BY <1>1, <1>4, <1>5 DEF BillStep

\* A merge that finds an order of the source seating.
LEMMA MergeIsFold ==
  ASSUME ConstantsAssumption, IsFiniteSet(Lines), Steady, Blank, NeverBelowPaid',
         NEW c \in Clients, MergeSessions(c), NEW o, o = req[c].order,
         NEW p, p = req[c].from, p # None
  PROVE  Promise!Next
<1>1. req[c].op \in BillOps /\ Write(c)
  BY DEF MergeSessions, Commit, BillOps, Write
<1>2. o \in Orders
  BY <1>1, OwnBill
<1>3. /\ Dearer(c, o) /\ p \in Orders /\ p # o /\ orders[p].status = "open"
      /\ orders[p].paid = 0 /\ orders'[p] = [orders[p] EXCEPT !.status = "voided"]
  BY MergedBill
<1>4. Promise!Priced(o)
  BY <1>1, <1>2, <1>3, BillPriced
<1>5. \A q \in Orders : q # o /\ q # p => TheBill(q)' = TheBill(q)
  BY <1>1, OtherBill, SameBill
<1>6. PICK b : b = TheBill(p) /\ TheBills[p] = b /\ b.state = "open" /\ b.paid = 0
  <2>1. TheBills[p] = TheBill(p)
    BY <1>3, TheBillsAre
  <2> QED
    BY <1>3, <2>1 DEF TheBill
<1>7. TheBill(p)' = [b EXCEPT !.state = "voided", !.due = 0]
  <2>1. orders'[p].status = "voided" /\ orders'[p].paid = orders[p].paid
    BY <1>3 DEF Steady, Inv, TypeOK, Order
  <2> QED
    BY <1>6, <2>1, VoidedTheBill
<1>8. TheBills' = [TheBills EXCEPT ![o] = TheBills'[o], ![p].state = "voided", ![p].due = 0]
  <2>1. PICK B, N : /\ B = TheBills /\ B = [q \in Orders |-> TheBill(q)] /\ B[p] = b
                    /\ N = TheBills' /\ N = [q \in Orders |-> TheBill(q)']
    BY <1>6, TheBillsAre, TheBillsBecome
  <2>2. \A q \in Orders : N[q] = IF q = p THEN [b EXCEPT !.state = "voided", !.due = 0]
                                 ELSE IF q = o THEN N[o] ELSE B[q]
    BY <1>3, <1>5, <1>7, <2>1
  <2>3. PICK M : M = [B EXCEPT ![o] = N[o]] /\ M[p] = b /\ DOMAIN M = Orders
    <3>1. PICK M : M = [B EXCEPT ![o] = N[o]]
      OBVIOUS
    <3>2. M[p] = b /\ DOMAIN M = Orders
      BY <1>2, <1>3, <2>1, <3>1
    <3> QED
      BY <3>1, <3>2
  <2>4. PICK L : /\ L = [M EXCEPT ![p].state = "voided"]
                 /\ L = [q \in Orders |-> IF q = p THEN [b EXCEPT !.state = "voided"] ELSE M[q]]
    <3>1. [M EXCEPT ![p].state = "voided"]
            = [q \in Orders |-> IF q = p THEN [b EXCEPT !.state = "voided"] ELSE M[q]]
      BY <2>3
    <3> QED
      BY <3>1
  <2>5. \A q \in Orders : N[q] = IF q = p THEN [L[p] EXCEPT !.due = 0] ELSE L[q]
    <3>1. L[p] = [b EXCEPT !.state = "voided"]
      BY <1>3, <2>4
    <3>2. N[p] = [L[p] EXCEPT !.due = 0]
      BY <1>3, <2>2, <3>1
    <3>3. ASSUME NEW q \in Orders, q # p PROVE N[q] = L[q]
      <4>1. L[q] = M[q]
        BY <2>4, <3>3
      <4>2. CASE q = o
        BY <1>2, <2>1, <2>3, <4>1, <4>2
      <4>3. CASE q # o
        <5>1. M[q] = B[q]
          BY <2>1, <2>3, <4>3
        <5>2. N[q] = B[q]
          BY <2>2, <3>3, <4>3
        <5> QED
          BY <4>1, <5>1, <5>2
      <4> QED
        BY <4>2, <4>3
    <3> QED
      BY <3>2, <3>3
  <2>6. N = [L EXCEPT ![p].due = 0]
    BY <1>3, <2>1, <2>4, <2>5
  <2> QED
    BY <2>1, <2>3, <2>4, <2>6
<1>9. Promise!Fold(o, p)
  BY <1>4, <1>6, <1>8 DEF Promise!Fold
<1> QED
  BY <1>2, <1>3, <1>9 DEF Promise!Next

\* Every commit is a step of the abstract till or leaves all bills alone.
LEMMA WriteIsBill ==
  ASSUME ConstantsAssumption, IsFiniteSet(Lines), Steady, Blank, NeverBelowPaid',
         NEW c \in Clients, Write(c)
  PROVE  Promise!Next \/ TheBills' = TheBills
<1>1. CASE req[c].op \notin BillOps \cup LineOps \cup OrderOps
  <2>1. orders' = orders /\ lines' = lines
    BY <1>1, Commits
  <2>2. \A q \in Orders : TheBill(q)' = TheBill(q)
    BY <2>1 DEF TheBill, Due, Charges, LiveLines
  <2> QED
    BY <2>2, TheBillsAre, TheBillsBecome
<1>2. CASE req[c].op \in BillOps \cup LineOps \cup OrderOps
  BY <1>2, OwnIsBill, MergeIsFold
<1> QED
  BY <1>1, <1>2

\* Serial requests that never leave an open bill below what was collected implement the
\* abstract till: the statements of each handler amount to one of its steps.
THEOREM CoveredBillsImplementBill ==
  ASSUME ConstantsAssumption, Serial, IsFiniteSet(Lines)
  PROVE  Spec /\ []NeverBelowPaid => ImplementsBill
<1>1. Init => Books /\ Promise!Init
  <2> SUFFICES ASSUME Init PROVE Promise!Init
    BY BooksInit
  <2>1. ASSUME NEW o \in Orders PROVE TheBill(o) = [state |-> "none", due |-> 0, paid |-> 0]
    <3>1. /\ orders[o].status = "none" /\ orders[o].rows = <<>>
          /\ orders[o].rate = 0 /\ orders[o].paid = 0
      BY DEF Init, NewOrder
    <3>2. Charges(o) = {}
      BY <3>1, SteadyInit, UnusedIsEmpty DEF Steady
    <3>3. Due(o) = 0
      BY <3>1, <3>2, NothingGross, NothingDue DEF Due
    <3> QED
      BY <3>1, <3>3 DEF TheBill
  <2> QED
    BY <2>1, TheBillsAre DEF Promise!Init
<1>2. Books /\ [Next]_vars => Books'
  BY BooksNext
<1>3. Books /\ NeverBelowPaid' /\ [Next]_vars => [Promise!Next]_TheBills
  <2> SUFFICES ASSUME Books, NeverBelowPaid', [Next]_vars
               PROVE  Promise!Next \/ TheBills' = TheBills
    OBVIOUS
  <2>1. CASE UNCHANGED <<sessions, orders, lines>>
    <3>1. \A q \in Orders : TheBill(q)' = TheBill(q)
      BY <2>1 DEF TheBill, Due, Charges, LiveLines
    <3> QED
      BY <3>1, TheBillsAre, TheBillsBecome
  <2>2. ASSUME NEW c \in Clients, Write(c) PROVE Promise!Next \/ TheBills' = TheBills
    BY <2>2, WriteIsBill DEF Books
  <2> QED
    BY <2>1, <2>2, OnlyWritesWrite
<1> QED
  BY <1>1, <1>2, <1>3, PTL DEF Spec, ImplementsBill, Promise!Spec

\* So a store whose discounts are plain keeps the till's promise.
THEOREM TillKeepsItsPromise ==
  ASSUME ConstantsAssumption, Serial, PlainStore, IsFiniteSet(Lines)
  PROVE  Spec => ImplementsBill
<1>1. Spec => []NeverBelowPaid
  BY BillsCoverTheirPayments
<1>2. Spec /\ []NeverBelowPaid => ImplementsBill
  BY CoveredBillsImplementBill
<1> QED
  BY <1>1, <1>2, PTL
=============================================================================
