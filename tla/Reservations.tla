---------------------------- MODULE Reservations ----------------------------
(***************************************************************************)
(* Bookings, the walk-in queue, and the orders parties build while waiting. *)
(*   services/reservation_service.py  create_reservation,                  *)
(*                     patch_reservation_status, join_queue,               *)
(*                     patch_queue_status, add_queue_preorder_line,        *)
(*                     seat_queue_entry                                    *)
(*   schemas/reservations.py          the transition graphs                *)
(* Bookings and queue entries are read without a lock, decided on, and     *)
(* written column by column at the commit.                                 *)
(***************************************************************************)
EXTENDS Integers, FiniteSets

CONSTANTS
  Hosts, Guests,     \* concurrent requests of the staff and of the queue's own page
  Bookings, Parties, \* rows of reservations and walk_in_queue
  Tables, Seatings, Orders, Lines,
  None

BookingStatus == {"booked", "confirmed", "seated", "completed", "no_show", "cancelled"}
BookingTransitions ==
  [booked |-> {"confirmed", "seated", "no_show", "cancelled"},
   confirmed |-> {"seated", "no_show", "cancelled"}, seated |-> {"completed"},
   completed |-> {}, no_show |-> {}, cancelled |-> {}]
QueueStatus == {"waiting", "called", "seated", "abandoned"}
QueueTransitions ==
  [waiting |-> {"called", "abandoned"}, called |-> {"seated", "abandoned"},
   seated |-> {}, abandoned |-> {}]

\* What the constants are: FrontOfHouse assumes it.
ReservationsAssumption ==
  /\ None \notin Hosts \cup Guests \cup Bookings \cup Parties \cup Tables \cup Seatings
  /\ None \notin Orders \cup Lines /\ Hosts \cap Guests = {}
  /\ None \notin BookingStatus \cup QueueStatus \cup {"open", "ended"}
  /\ None \notin {"booking", "patch", "join", "preorder", "seat"}

VARIABLES
  bookings,  \* reservations: status, and whether arrived_at is set
  queue,     \* walk_in_queue
  seatings,  \* table_sessions
  orders,    \* orders, and the party whose pre-order each is
  lineOf,    \* the order of each line
  req        \* the transactions

vars == <<bookings, queue, seatings, orders, lineOf, req>>

Booking == [status : BookingStatus \cup {None}, arrived : BOOLEAN]
\* no is the number of queue_no, or Written: any label of the host's own; before holds the
\* parties that were in the queue when this one asked for a number (no column: it orders
\* arrivals for NumbersRise).
Written == 0
Entry == [status : QueueStatus \cup {None}, no : Nat, called : BOOLEAN, seated : BOOLEAN,
          order : Orders \cup {None}, before : SUBSET Parties]
Seating == [status : {None, "open"}, table : Tables \cup {None},
            party : Parties \cup {None}]
Order == [status : {None, "open", "ended"}, seating : Seatings \cup {None},
          party : Parties \cup {None}]

\* A request: what it named, and the columns it read and uses at its commit.
Request ==
  [op : {None, "booking", "patch", "join", "preorder", "seat"},
   booking : Bookings \cup {None}, party : Parties \cup {None}, table : Tables \cup {None},
   to : BookingStatus \cup QueueStatus \cup {None}, order : Orders \cup {None},
   no : Nat, before : SUBSET Parties]
Idle == [op |-> None, booking |-> None, party |-> None, table |-> None, to |-> None,
         order |-> None, no |-> 0, before |-> {}]

Init ==
  /\ bookings = [b \in Bookings |-> [status |-> None, arrived |-> FALSE]]
  /\ queue = [p \in Parties |-> [status |-> None, no |-> 0, called |-> FALSE, seated |-> FALSE,
                                 order |-> None, before |-> {}]]
  /\ seatings = [s \in Seatings |-> [status |-> None, table |-> None, party |-> None]]
  /\ orders = [o \in Orders |-> [status |-> None, seating |-> None, party |-> None]]
  /\ lineOf = [l \in Lines |-> None]
  /\ req = [c \in Hosts \cup Guests |-> Idle]
-----------------------------------------------------------------------------
Joined == {p \in Parties : queue[p].status # None}
SeatedAt(t) == {s \in Seatings : seatings[s].status = "open" /\ seatings[s].table = t}
OpenOrders(s) == {o \in Orders : orders[o].status = "open" /\ orders[o].seating = s}
Unused(rows) == {r \in DOMAIN rows : rows[r].status = None}

Begin(c, fields) ==
  /\ req[c] = Idle
  /\ req' = [req EXCEPT ![c] = fields]
  /\ UNCHANGED <<bookings, queue, seatings, orders, lineOf>>

Commit(c, op) == req[c].op = op /\ req' = [req EXCEPT ![c] = Idle]

\* A refusal after a read, a failed statement or a lost connection.
Rollback(c) ==
  /\ req[c] # Idle
  /\ req' = [req EXCEPT ![c] = Idle]
  /\ UNCHANGED <<bookings, queue, seatings, orders, lineOf>>
-----------------------------------------------------------------------------
CreateReservation(b) ==
  /\ bookings[b].status = None
  /\ bookings' = [bookings EXCEPT ![b].status = "booked"]
  /\ UNCHANGED <<queue, seatings, orders, lineOf, req>>

\* _check_reservation_transition.
BookingAllowed(was) == BookingTransitions[was]

\* patch_reservation_status: the arrival of a party seated or given up is stamped.
CallBooking(h) ==
  \E b \in Bookings \ Unused(bookings) : \E to \in BookingAllowed(bookings[b].status) :
    Begin(h, [Idle EXCEPT !.op = "booking", !.booking = b, !.to = to])

PatchBooking(h) ==
  /\ Commit(h, "booking")
  /\ bookings' = [bookings EXCEPT ![req[h].booking] =
       [status |-> req[h].to, arrived |-> @.arrived \/ req[h].to \in {"seated", "no_show"}]]
  /\ UNCHANGED <<queue, seatings, orders, lineOf>>
-----------------------------------------------------------------------------
\* Slip: only the parties still waiting are counted.
CountWaiting == Cardinality({p \in Joined : queue[p].status = "waiting"})

\* _next_queue_no: the entries of the day, whatever became of them.
CountJoined == Cardinality(Joined)

\* join_queue: a host's own ticket is written as it is; else the queue is counted.
CallJoin(g) ==
  \/ Begin(g, [Idle EXCEPT !.op = "join", !.no = Written])
  \/ Begin(g, [Idle EXCEPT !.op = "join", !.no = CountJoined + 1, !.before = Joined])

JoinQueue(g) ==
  /\ Commit(g, "join")
  /\ \E p \in Unused(queue) :
       queue' = [queue EXCEPT ![p] = [@ EXCEPT !.status = "waiting", !.no = req[g].no,
                                               !.before = req[g].before]]
  /\ UNCHANGED <<bookings, seatings, orders, lineOf>>

\* _check_queue_transition.
QueueAllowed(was) == QueueTransitions[was]

CallQueue(h) ==
  \E p \in Joined : \E to \in QueueAllowed(queue[p].status) :
    Begin(h, [Idle EXCEPT !.op = "patch", !.party = p, !.to = to])

\* patch_queue_status: a party set to seated so has no table opened for it.
PatchQueue(h) ==
  LET to == req[h].to
  IN  /\ Commit(h, "patch")
      /\ queue' = [queue EXCEPT ![req[h].party].status = to,
                                 ![req[h].party].called = @ \/ to = "called",
                                 ![req[h].party].seated = @ \/ to = "seated"]
      /\ UNCHANGED <<bookings, seatings, orders, lineOf>>
-----------------------------------------------------------------------------
\* add_queue_preorder_line: the entry is read, and its order if it has one.
CallPreorder(g) ==
  \E p \in Joined :
    /\ queue[p].status \in {"waiting", "called"}
    /\ queue[p].order # None => orders[queue[p].order].status = "open"
    /\ Begin(g, [Idle EXCEPT !.op = "preorder", !.party = p, !.order = queue[p].order])

\* The first line creates the order, off any table.
Preorder(g, l) ==
  /\ Commit(g, "preorder") /\ lineOf[l] = None
  /\ IF req[g].order # None
       THEN lineOf' = [lineOf EXCEPT ![l] = req[g].order] /\ UNCHANGED <<queue, orders>>
       ELSE \E o \in Unused(orders) :
              /\ lineOf' = [lineOf EXCEPT ![l] = o]
              /\ queue' = [queue EXCEPT ![req[g].party].order = o]
              /\ orders' = [orders EXCEPT ![o] =
                              [status |-> "open", seating |-> None, party |-> req[g].party]]
  /\ UNCHANGED <<bookings, seatings>>

\* seat_queue_entry: the entry is read; the table must look free.
CallSeat(h) ==
  \E p \in Joined, t \in Tables :
    /\ queue[p].status \in {"waiting", "called"} /\ SeatedAt(t) = {}
    /\ Begin(h, [Idle EXCEPT !.op = "seat", !.party = p, !.table = t, !.order = queue[p].order])

\* The order of the entry as read, if it is open still.
Carried(o) == {p \in Orders : p = o /\ orders[p].status = "open"}

\* The unique index on open sessions refuses a table taken meanwhile.
SeatQueueEntry(h) ==
  LET r == req[h]
  IN  /\ Commit(h, "seat") /\ SeatedAt(r.table) = {}
      /\ \E s \in Unused(seatings) :
           /\ seatings' = [seatings EXCEPT ![s] =
                             [status |-> "open", table |-> r.table, party |-> r.party]]
           /\ orders' = [o \in Orders |-> IF o \in Carried(r.order)
                           THEN [orders[o] EXCEPT !.seating = s] ELSE orders[o]]
      /\ queue' = [queue EXCEPT ![r.party] =
                     [@ EXCEPT !.status = "seated", !.called = TRUE, !.seated = TRUE]]
      /\ UNCHANGED <<bookings, lineOf>>
-----------------------------------------------------------------------------
(***************************************************************************)
(* What the till does meanwhile (module TableBill has it in full): an item *)
(* is sold at a table, an order ends.  Nobody leaves a table here.         *)
(***************************************************************************)
SellAtTable(s, l) ==
  /\ seatings[s].status = "open" /\ lineOf[l] = None
  /\ IF OpenOrders(s) # {}
       THEN \E o \in OpenOrders(s) : lineOf' = [lineOf EXCEPT ![l] = o] /\ UNCHANGED orders
       ELSE \E o \in Unused(orders) :
              /\ lineOf' = [lineOf EXCEPT ![l] = o]
              /\ orders' = [orders EXCEPT ![o] =
                              [status |-> "open", seating |-> s, party |-> None]]
  /\ UNCHANGED <<bookings, queue, seatings, req>>

EndOrder(o) ==
  /\ orders[o].status = "open"
  /\ orders' = [orders EXCEPT ![o].status = "ended"]
  /\ UNCHANGED <<bookings, queue, seatings, lineOf, req>>

AtTheDoor ==
  \/ \E b \in Bookings : CreateReservation(b)
  \/ \E h \in Hosts :
       \/ CallBooking(h) \/ PatchBooking(h) \/ CallQueue(h) \/ PatchQueue(h)
       \/ CallSeat(h) \/ SeatQueueEntry(h)
  \/ \E g \in Guests : CallJoin(g) \/ JoinQueue(g) \/ CallPreorder(g)
  \/ \E c \in Hosts \cup Guests : Rollback(c)

AtTheTill == \E o \in Orders : EndOrder(o)

Next ==
  \/ AtTheDoor
  \/ AtTheTill
  \/ \E g \in Guests, l \in Lines : Preorder(g, l)
  \/ \E s \in Seatings, l \in Lines : SellAtTable(s, l)

Spec == Init /\ [][Next]_vars
-----------------------------------------------------------------------------
TypeOK ==
  /\ bookings \in [Bookings -> Booking] /\ queue \in [Parties -> Entry]
  /\ seatings \in [Seatings -> Seating] /\ orders \in [Orders -> Order]
  /\ lineOf \in [Lines -> Orders \cup {None}]
  /\ req \in [Hosts \cup Guests -> Request]

(***************************************************************************)
(* Who is at a table, or was, has the stamps of how they got there: a      *)
(* booking seated, completed or given up has arrived_at; a party seated    *)
(* has called_at and seated_at.  So it is after any race of two hosts,     *)
(* although each writes only the columns it means to change.               *)
(***************************************************************************)
VisitStamped ==
  /\ \A b \in Bookings : bookings[b].status \in {"seated", "completed", "no_show"}
                           => bookings[b].arrived
  /\ \A p \in Parties : queue[p].status = "seated" => queue[p].called /\ queue[p].seated

(***************************************************************************)
(* Counted numbers rise with arrival: whoever has one counted after a      *)
(* party has joined gets a higher one than that party's, if that was       *)
(* counted too ("stays monotonic for customers even when earlier parties   *)
(* are seated/abandoned"), whatever tickets hosts write in between.  Two   *)
(* that ask at once may share one, which the code tolerates.               *)
(***************************************************************************)
Counted == {p \in Joined : queue[p].no # Written}
NumbersRise ==
  \A p \in Counted : \A q \in queue[p].before \cap Counted : queue[p].no > queue[q].no

(***************************************************************************)
(* A pre-order reaches no other party's table, and no table gets two open  *)
(* bills from one: not when hosts and guests race for the entry.           *)
(***************************************************************************)
PreorderAtOwnTable ==
  \A o \in Orders :
    orders[o].party # None /\ orders[o].seating # None
      => seatings[orders[o].seating].party = orders[o].party
OneBillPerTable == \A s \in Seatings : Cardinality(OpenOrders(s)) <= 1
=============================================================================
