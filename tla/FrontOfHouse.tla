---------------------------- MODULE FrontOfHouse ----------------------------
(***************************************************************************)
(* The door and the kitchen together: lines sold at a table are routed to  *)
(* a station as they are added, lines pre-ordered in the queue are not     *)
(* (kitchen_station=None, services/reservation_service.py).                *)
(***************************************************************************)
EXTENDS Naturals, FiniteSets

CONSTANTS Hosts, Guests, Bookings, Parties, Tables, Seatings, Orders, Lines, Cooks,
          Limit, MaxSeq, None,
          AtOnce, \* bound: the requests under way at the door
          Shifts  \* bound: the areas a behaviour may be busy in, one of these sets

VARIABLES bookings, queue, seatings, orders, lineOf, req, line, sent, newest, seq, patch,
          shift

door == <<bookings, queue, seatings, orders, lineOf, req>>
pass == <<line, sent, newest, seq, patch>>
vars == <<door, pass, shift>>

Door == INSTANCE Reservations
Pass == INSTANCE Kitchen

ASSUME FrontOfHouseAssumption ==
  /\ Door!ReservationsAssumption /\ Pass!KitchenAssumption
  /\ AtOnce \in Nat /\ Shifts \subseteq SUBSET {"bookings", "queue", "numbers", "tables", "kitchen"}

Init == Door!Init /\ Pass!Init /\ shift \in Shifts

\* add_queue_preorder_line, of an item with or without a station: the line has none.
Preorder ==
  \E g \in Guests, l \in Lines : Door!Preorder(g, l) /\ Pass!AddLine(l, FALSE)

\* add_line at a table.
Sell ==
  \E s \in Seatings, l \in Lines : Door!SellAtTable(s, l) /\ Pass!AddLine(l, TRUE)

\* Takeaway and counter items, on orders that are not followed here.
SellElsewhere ==
  \E l \in Lines : /\ lineOf[l] = None
                   /\ Pass!AddLine(l, TRUE) /\ UNCHANGED door

Void == \E l \in Lines : Pass!RemoveLine(l) /\ UNCHANGED door

Cook ==
  /\ \E c \in Cooks : \/ Pass!Read(c) \/ Pass!Update(c) \/ Pass!Record(c)
                      \/ Pass!Commit(c) \/ Pass!Rollback(c)
  /\ UNCHANGED door

UnderWay == {c \in Hosts \cup Guests : req[c] # Door!Idle}

\* Bounds of the model: the door has AtOnce requests under way, whoever's they are; each
\* behaviour is busy in the areas of its shift only; in a shift without "numbers" the hosts
\* write all the tickets.
Next ==
  /\ \/ Door!AtTheDoor /\ UNCHANGED pass
     \/ Door!AtTheTill /\ UNCHANGED pass
     \/ Preorder \/ Sell
     \/ "kitchen" \in shift /\ (SellElsewhere \/ Void \/ Cook)
  /\ "bookings" \notin shift => bookings' = bookings
  /\ "queue" \notin shift => queue' = queue
  /\ Cardinality(UnderWay') <= AtOnce
  /\ "numbers" \notin shift => \A g \in Guests : req'[g].no = Door!Written
  /\ "tables" \notin shift => seatings' = seatings /\ orders' = orders
  /\ UNCHANGED shift

Spec == Init /\ [][Next]_vars
-----------------------------------------------------------------------------
TypeOK == Door!TypeOK /\ Pass!TypeOK /\ shift \in Shifts

\* The properties of the two parts, here of their composition: the times that bookings, the
\* queue and the lines bear; the numbers and the pre-orders of the queue; what the kitchen
\* tells the floor.
StampsInOrder == Door!VisitStamped /\ Pass!StampsFollow
QueueKept == Door!NumbersRise /\ Door!PreorderAtOwnTable /\ Door!OneBillPerTable
NewestEventTells == Pass!NewestEventTells
BoardShowsWork == Pass!BoardShowsWork

(***************************************************************************)
(* Once a party sits, the kitchen has what it ordered while waiting ("the  *)
(* kitchen doesn't wait for the party to re-order at the table").          *)
(***************************************************************************)
PreorderCooked ==
  \A l \in Lines :
    LET o == lineOf[l]
    IN  o # None /\ line[l].status # "gone" => (orders[o].seating # None => line[l].status # "off")
=============================================================================
