------------------------ MODULE FrontOfHouse_proofs ------------------------
(***************************************************************************)
(* Theorems about FrontOfHouse, for any number of hosts, guests, cooks,    *)
(* bookings, parties, tables, orders and lines.                            *)
(***************************************************************************)
EXTENDS FrontOfHouse, FiniteSetTheorems, TLAPS

-----------------------------------------------------------------------------
(***************************************************************************)
(* The invariant of the pass: what the rows hold while patches are under   *)
(* way.                                                                    *)
(***************************************************************************)
PassTypes ==
  /\ line \in [Lines -> Pass!Line] /\ newest \in [Lines -> Pass!Event]
  /\ seq \in 0 .. MaxSeq /\ patch \in [Cooks -> Pass!Patch]

\* A line bears the stamp of its status and of those before it.
LinesStamped ==
  \A l \in Lines :
    /\ line[l].status \in {"cooking", "ready", "served"} => "cooking" \in line[l].stamps
    /\ line[l].status \in {"ready", "served"} => "ready" \in line[l].stamps

\* A patch was allowed on what its cook read: the stamps that its status follows are set, now
\* as they were then, unless the line was voided.
PatchesFollow ==
  \A c \in Cooks :
    patch[c].line # None =>
      LET l == line[patch[c].line]
      IN  /\ patch[c].to \in {"cooking", "ready", "served", "cancelled"}
          /\ l.status \in Pass!KitchenStatus \cup {"gone"}
          /\ l.status # "gone" =>
               /\ patch[c].to \in {"ready", "served"} => "cooking" \in l.stamps
               /\ patch[c].to = "served" => "ready" \in l.stamps

\* The row of a line is updated by one patch at a time, and stays while it is.
RowsHeld ==
  \A c \in Cooks :
    /\ patch[c].line = None => patch[c].at = 0
    /\ patch[c].at > 0 =>
         /\ line[patch[c].line].status # "gone"
         /\ \A d \in Cooks : patch[d].at > 0 /\ patch[d].line = patch[c].line => d = c

\* Events are numbered in the order of the commits, line by line.
EventsRise ==
  /\ \A l \in Lines : /\ newest[l].seq <= seq
                      /\ line[l].status \in {None, "off"} => newest[l].seq = 0
  /\ \A c \in Cooks : patch[c].at = 2 => /\ patch[c].seq <= seq
                                         /\ patch[c].seq > newest[patch[c].line].seq

PassInv ==
  /\ PassTypes /\ LinesStamped /\ PatchesFollow /\ RowsHeld /\ EventsRise
  /\ Pass!StampsFollow /\ Pass!NewestEventTells

-----------------------------------------------------------------------------
(***************************************************************************)
(* The invariant of the door.                                              *)
(***************************************************************************)

\* What a request holds of the rows it read, true of them still.
Follows(r) ==
  /\ r.op = "booking" =>
       /\ r.booking \in Bookings /\ r.to \in Door!BookingStatus
       /\ r.to = "completed" => bookings[r.booking].arrived
  /\ r.op = "patch" =>
       /\ r.party \in Door!Joined /\ r.to \in Door!QueueStatus
       /\ r.to = "seated" => queue[r.party].called
  /\ r.op \in {"preorder", "seat"} =>
       /\ r.party \in Door!Joined
       /\ r.order # None => /\ orders[r.order].status # None
                            /\ orders[r.order].party = r.party
  /\ r.op = "seat" => r.table \in Tables
  /\ r.op = "join" =>
       /\ r.no <= Door!CountJoined + 1 /\ r.before \subseteq Door!Joined
       /\ \A q \in r.before : queue[q].no < r.no

RequestsFollow == \A c \in Hosts \cup Guests : Follows(req[c])

\* A party that was called has the stamp, and a seated one both.
VisitsStamped ==
  /\ Door!VisitStamped
  /\ \A p \in Parties : queue[p].status = "called" => queue[p].called

\* No number exceeds that of the parties that joined; those before a party have joined.
NumbersBounded ==
  /\ IsFiniteSet(Door!Joined)
  /\ \A p \in Parties : /\ queue[p].before \subseteq Door!Joined
                        /\ p \in Door!Joined => queue[p].no <= Door!CountJoined

\* A party's number is above those of the parties it counted, written tickets (Written is 0,
\* and they counted nobody) included.
NumbersAbove == \A p \in Parties : \A q \in queue[p].before : queue[p].no > queue[q].no

\* The pre-order of a party is an order of its own.
PreordersOwned ==
  \A p \in Parties :
    queue[p].order # None => /\ orders[queue[p].order].status # None
                             /\ orders[queue[p].order].party = p

\* An unused row of orders is at no table, and orders are at seatings that were opened.
RowsUsed ==
  \A o \in Orders :
    orders[o].seating # None => /\ orders[o].status # None
                                /\ seatings[orders[o].seating].status # None

\* At most one open order is at a seating.
OneOpenOrder ==
  \A s \in Seatings : \A o, p \in Door!OpenOrders(s) : o = p

DoorInv ==
  /\ Door!TypeOK /\ RequestsFollow /\ VisitsStamped
  /\ NumbersBounded /\ NumbersAbove
  /\ PreordersOwned /\ RowsUsed /\ Door!PreorderAtOwnTable /\ OneOpenOrder

Inv == DoorInv /\ PassInv

-----------------------------------------------------------------------------
(***************************************************************************)
(* The pass: one lemma for each action of the kitchen.                     *)
(***************************************************************************)

\* A row is held from the first statement of a patch on.
LEMMA HoldersAre ==
  ASSUME PassTypes, NEW l \in Lines
  PROVE  Pass!Holders(l) = {c \in Cooks : patch[c].line = l /\ patch[c].at > 0}
<1>1. Pass!Statements[1] = "update" /\ Pass!Statements[2] = "record"
  BY DEF Pass!Statements
<1>2. ASSUME NEW c \in Cooks
      PROVE  (\E i \in 1 .. patch[c].at : Pass!Statements[i] = "update") <=> patch[c].at > 0
  <2>1. patch[c].at \in 0 .. 2
    BY DEF PassTypes, Pass!Patch
  <2> QED
    BY <1>1, <2>1
<1> QED
  BY <1>2 DEF Pass!Holders

\* A patch stays allowed while the row it is about is not written, or is voided.
LEMMA OthersFollow ==
  ASSUME PatchesFollow, line' = line,
         \A c \in Cooks : \/ patch'[c].line = None
                          \/ patch'[c].line = patch[c].line /\ patch'[c].to = patch[c].to
  PROVE  PatchesFollow'
  BY DEF PatchesFollow

\* A line is sold: no patch and no event is about it.
LEMMA AddLineInv ==
  ASSUME Pass!KitchenAssumption, PassInv, NEW l \in Lines, NEW routed \in BOOLEAN,
         Pass!AddLine(l, routed)
  PROVE  PassInv'
<1> USE DEF PassInv, Pass!AddLine
<1>1. /\ line[l] \in Pass!Line /\ line[l].status = None
      /\ line' = [line EXCEPT ![l].status = IF routed THEN "queued" ELSE "off"]
      /\ newest' = newest /\ seq' = seq /\ patch' = patch
  BY DEF PassTypes
<1>2. /\ line'[l].status = IF routed THEN "queued" ELSE "off"
      /\ line'[l].stamps = line[l].stamps
      /\ \A m \in Lines \ {l} : line'[m] = line[m]
  BY <1>1 DEF PassTypes, Pass!Line
<1>3. PassTypes'
  BY <1>1 DEF PassTypes, Pass!Line, Pass!KitchenStatus
<1>4. LinesStamped'
  BY <1>2 DEF LinesStamped
<1>5. \A c \in Cooks : patch[c].line # None => patch[c].line \in Lines \ {l}
  BY <1>1 DEF PassTypes, Pass!Patch, PatchesFollow, Pass!KitchenAssumption, Pass!KitchenStatus
<1>6. PatchesFollow'
  BY <1>1, <1>2, <1>5 DEF PatchesFollow
<1>7. RowsHeld'
  BY <1>1, <1>2, <1>5 DEF RowsHeld
<1>8. newest[l].seq = 0
  BY <1>1 DEF EventsRise
<1>9. EventsRise'
  BY <1>1, <1>2, <1>8 DEF EventsRise
<1>10. Pass!StampsFollow'
  BY <1>2 DEF Pass!StampsFollow
<1>11. Pass!NewestEventTells'
  BY <1>1, <1>2, <1>8 DEF Pass!NewestEventTells
<1> QED
  BY <1>3, <1>4, <1>6, <1>7, <1>9, <1>10, <1>11

\* A line is voided: the patches that read it find it gone.
LEMMA RemoveLineInv ==
  ASSUME Pass!KitchenAssumption, PassInv, NEW l \in Lines, Pass!RemoveLine(l)
  PROVE  PassInv'
<1> USE DEF PassInv
<1>1. /\ line' = [line EXCEPT ![l] = [status |-> "gone", stamps |-> {}]]
      /\ newest' = newest /\ seq' = seq /\ patch' = patch
  BY DEF Pass!RemoveLine
<1>2. /\ line'[l] = [status |-> "gone", stamps |-> {}]
      /\ \A m \in Lines \ {l} : line'[m] = line[m]
  BY <1>1 DEF PassTypes
<1>3. \A c \in Cooks : patch[c].at > 0 => patch[c].line \in Lines \ {l}
  <2>1. \A c \in Cooks : patch[c].at > 0 => patch[c].line # l
    BY HoldersAre DEF Pass!RemoveLine
  <2> QED
    BY <2>1 DEF RowsHeld, PassTypes, Pass!Patch
<1>4. None # "gone" /\ "off" # "gone"
  BY DEF Pass!KitchenAssumption
<1>5. PassTypes'
  BY <1>1 DEF PassTypes, Pass!Line
<1>6. LinesStamped'
  BY <1>2 DEF LinesStamped
<1>7. PatchesFollow'
  BY <1>1, <1>2 DEF PatchesFollow, PassTypes, Pass!Patch
<1>8. RowsHeld'
  BY <1>1, <1>2, <1>3 DEF RowsHeld
<1>9. EventsRise'
  BY <1>1, <1>2, <1>4 DEF EventsRise
<1>10. Pass!StampsFollow'
  BY <1>2 DEF Pass!StampsFollow
<1>11. Pass!NewestEventTells'
  BY <1>1, <1>2 DEF Pass!NewestEventTells
<1> QED
  BY <1>5, <1>6, <1>7, <1>8, <1>9, <1>10, <1>11

\* A cook reads a line: the transition is one of the table's.
LEMMA ReadInv ==
  ASSUME Pass!KitchenAssumption, PassInv, NEW c \in Cooks, Pass!Read(c)
  PROVE  PassInv'
<1> USE DEF PassInv
<1>1. PICK l \in Lines, to \in Pass!KitchenStatus :
        /\ line[l].status \in Pass!KitchenStatus /\ to \in Pass!Allowed(line[l].status)
        /\ patch' = [patch EXCEPT ![c] = [Pass!Idle EXCEPT !.line = l, !.to = to]]
  BY DEF Pass!Read
<1>2. line' = line /\ newest' = newest /\ seq' = seq /\ patch[c] = Pass!Idle
  BY DEF Pass!Read
<1>3. /\ patch'[c] = [line |-> l, to |-> to, at |-> 0, seq |-> 0]
      /\ \A d \in Cooks \ {c} : patch'[d] = patch[d]
  BY <1>1 DEF PassTypes, Pass!Idle
<1>4. /\ to \in {"cooking", "ready", "served", "cancelled"}
      /\ to = "ready" => line[l].status = "cooking"
      /\ to = "served" => line[l].status = "ready"
  BY <1>1 DEF Pass!Allowed, Pass!Transitions, Pass!KitchenStatus
<1>5. PassTypes'
  BY <1>1, <1>2, <1>3 DEF PassTypes, Pass!Patch, Pass!KitchenAssumption
<1>6. PatchesFollow'
  BY <1>1, <1>2, <1>3, <1>4 DEF PatchesFollow, LinesStamped
<1>7. RowsHeld'
  BY <1>2, <1>3 DEF RowsHeld
<1>8. EventsRise'
  BY <1>2, <1>3 DEF EventsRise
<1> QED
  BY <1>2, <1>5, <1>6, <1>7, <1>8 DEF LinesStamped, Pass!StampsFollow, Pass!NewestEventTells

\* A patch that ends without a commit leaves no trace.
LEMMA EndPatchInv ==
  ASSUME Pass!KitchenAssumption, PassInv, NEW c \in Cooks,
         patch' = [patch EXCEPT ![c] = Pass!Idle], line' = line, newest' = newest, seq' = seq
  PROVE  PassInv'
<1> USE DEF PassInv
<1>1. /\ patch'[c] = [line |-> None, to |-> None, at |-> 0, seq |-> 0]
      /\ \A d \in Cooks \ {c} : patch'[d] = patch[d]
  BY DEF PassTypes, Pass!Idle
<1>2. PassTypes'
  BY <1>1 DEF PassTypes, Pass!Patch, Pass!KitchenAssumption
<1>3. PatchesFollow' /\ RowsHeld' /\ EventsRise'
  BY <1>1 DEF PatchesFollow, RowsHeld, EventsRise
<1> QED
  BY <1>2, <1>3 DEF LinesStamped, Pass!StampsFollow, Pass!NewestEventTells

\* The flush takes the row, which nobody holds, if it is there.
LEMMA UpdateInv ==
  ASSUME Pass!KitchenAssumption, PassInv, NEW c \in Cooks, Pass!Update(c)
  PROVE  PassInv'
<1> USE DEF PassInv
<1>1. /\ line' = line /\ newest' = newest /\ seq' = seq
      /\ patch[c].line # None /\ Pass!Holders(patch[c].line) = {}
  BY DEF Pass!Update, Pass!Upcoming
<1>2. patch[c] \in Pass!Patch /\ patch[c].line \in Lines
  BY <1>1 DEF PassTypes, Pass!Patch
<1>3. \A d \in Cooks : patch[d].at > 0 => patch[d].line # patch[c].line
  BY <1>1, <1>2, HoldersAre
<1>4. patch[c].at = 0
  BY <1>2, <1>3 DEF Pass!Patch
<1>5. CASE line[patch[c].line].status = "gone"
  BY <1>1, <1>5, EndPatchInv DEF Pass!Update
<1>6. CASE line[patch[c].line].status # "gone"
  <2>1. patch' = [patch EXCEPT ![c].at = @ + 1]
    BY <1>6 DEF Pass!Update
  <2>2. /\ patch'[c].line = patch[c].line /\ patch'[c].to = patch[c].to
        /\ patch'[c].at = 1
    BY <1>2, <1>4, <2>1 DEF PassTypes, Pass!Patch
  <2>3. \A d \in Cooks \ {c} : patch'[d] = patch[d]
    BY <2>1 DEF PassTypes
  <2>4. PassTypes'
    <3>1. patch'[c] \in Pass!Patch
      BY <1>2, <1>4, <2>1 DEF PassTypes, Pass!Patch
    <3> QED
      BY <1>1, <2>1, <3>1 DEF PassTypes
  <2>5. PatchesFollow'
    BY <1>1, <2>2, <2>3, OthersFollow
  <2>6. RowsHeld'
    BY <1>1, <1>3, <1>6, <2>2, <2>3 DEF RowsHeld
  <2>7. EventsRise'
    BY <1>1, <2>2, <2>3 DEF EventsRise
  <2> QED
    BY <1>1, <2>4, <2>5, <2>6, <2>7 DEF LinesStamped, Pass!StampsFollow, Pass!NewestEventTells
<1> QED
  BY <1>5, <1>6

\* The event is numbered after all that were committed.
LEMMA RecordInv ==
  ASSUME Pass!KitchenAssumption, PassInv, NEW c \in Cooks, Pass!Record(c)
  PROVE  PassInv'
<1> USE DEF PassInv
<1>1. /\ line' = line /\ newest' = newest /\ seq' = seq + 1 /\ seq < MaxSeq
      /\ patch' = [patch EXCEPT ![c].at = @ + 1, ![c].seq = seq + 1]
      /\ patch[c].line # None /\ patch[c].at < 2
      /\ Pass!Statements[patch[c].at + 1] = "record"
  BY DEF Pass!Record, Pass!Upcoming, Pass!Statements
<1>2. patch[c] \in Pass!Patch /\ patch[c].line \in Lines /\ seq \in 0 .. MaxSeq /\ MaxSeq \in Nat
  BY <1>1 DEF PassTypes, Pass!Patch, Pass!KitchenAssumption
<1>3. patch[c].at = 1
  <2>1. Pass!Statements[1] = "update"
    BY DEF Pass!Statements
  <2>2. patch[c].at \in {0, 1}
    BY <1>1, <1>2 DEF Pass!Patch
  <2> QED
    BY <1>1, <2>1, <2>2
<1>4. /\ patch'[c].line = patch[c].line /\ patch'[c].to = patch[c].to
      /\ patch'[c].at = 2 /\ patch'[c].seq = seq + 1
      /\ \A d \in Cooks \ {c} : patch'[d] = patch[d]
  BY <1>1, <1>2, <1>3 DEF PassTypes, Pass!Patch
<1>5. line' = line /\ newest' = newest /\ seq' = seq + 1 /\ seq < MaxSeq /\ patch[c].line # None
  BY <1>1
<1>6. PassTypes'
  <2>1. PICK n \in 0 .. MaxSeq : n = seq + 1
    BY <1>5, <1>2
  <2>2. patch'[c] = [line |-> patch[c].line, to |-> patch[c].to, at |-> 2, seq |-> n]
    <3>1. patch'[c] = [[patch[c] EXCEPT !.at = 2] EXCEPT !.seq = n]
      BY <1>1, <1>3, <2>1 DEF PassTypes
    <3>2. [patch[c] EXCEPT !.at = 2]
            = [line |-> patch[c].line, to |-> patch[c].to, at |-> 2, seq |-> patch[c].seq]
      BY <1>2 DEF Pass!Patch
    <3> QED
      BY <3>1, <3>2
  <2>3. patch'[c] \in Pass!Patch
    BY <1>2, <2>2 DEF Pass!Patch
  <2> QED
    BY <1>1, <1>2, <2>1, <2>3 DEF PassTypes
<1>7. PatchesFollow'
  BY <1>1, <1>4, OthersFollow
<1>8. RowsHeld'
  <2>1. \A d \in Cooks : /\ patch'[d].line = patch[d].line
                         /\ patch'[d].at > 0 <=> patch[d].at > 0
                         /\ patch[d].line = None => patch'[d].at = patch[d].at
    BY <1>5, <1>3, <1>4
  <2> QED
    BY <1>5, <2>1 DEF RowsHeld
<1>9. EventsRise'
  <2>1. \A l \in Lines : newest[l].seq \in 0 .. MaxSeq /\ newest[l].seq <= seq
    BY DEF PassTypes, Pass!Event, EventsRise
  <2>2. \A l \in Lines : newest'[l].seq <= seq'
    BY <1>1, <1>2, <2>1
  <2>3. ASSUME NEW d \in Cooks, patch'[d].at = 2
        PROVE  patch'[d].seq <= seq' /\ patch'[d].seq > newest'[patch'[d].line].seq
    <3>1. CASE d = c
      BY <1>1, <1>2, <1>4, <2>1, <3>1
    <3>2. CASE d # c
      <4>1. patch'[d] = patch[d] /\ patch[d].seq \in 0 .. MaxSeq
        BY <1>4, <3>2 DEF PassTypes, Pass!Patch
      <4>2. patch[d].seq <= seq /\ patch[d].seq > newest[patch[d].line].seq
        BY <2>3, <4>1 DEF EventsRise
      <4> QED
        BY <1>5, <1>2, <4>1, <4>2
    <3> QED
      BY <3>1, <3>2
  <2> QED
    BY <1>1, <2>2, <2>3 DEF EventsRise
<1> QED
  BY <1>1, <1>6, <1>7, <1>8, <1>9 DEF LinesStamped, Pass!StampsFollow, Pass!NewestEventTells

\* The commit of the patch that holds the row: no other can have written it.
LEMMA CommitInv ==
  ASSUME Pass!KitchenAssumption, PassInv, NEW c \in Cooks, Pass!Commit(c)
  PROVE  PassInv'
<1> USE DEF PassInv
<1> DEFINE p == patch[c]
           l == p.line
<1>1. /\ l # None /\ p.at = 2 /\ seq' = seq
      /\ line' = [line EXCEPT ![l] =
                    [status |-> p.to, stamps |-> @.stamps \cup ({p.to} \cap Pass!Stamped)]]
      /\ newest' = IF p.seq > newest[l].seq
                     THEN [newest EXCEPT ![l] = [seq |-> p.seq, status |-> p.to]] ELSE newest
      /\ patch' = [patch EXCEPT ![c] = Pass!Idle]
  BY DEF Pass!Commit, Pass!Statements
<1>2. /\ p \in Pass!Patch /\ l \in Lines /\ line[l] \in Pass!Line
      /\ p.to \in {"cooking", "ready", "served", "cancelled"} /\ p.to # None
  BY <1>1 DEF PassTypes, Pass!Patch, PatchesFollow, Pass!KitchenAssumption, Pass!KitchenStatus
<1>3. p.seq <= seq /\ p.seq > newest[l].seq
  BY <1>1 DEF EventsRise
<1>4. newest' = [newest EXCEPT ![l] = [seq |-> p.seq, status |-> p.to]]
  BY <1>1, <1>3
<1>5. /\ line'[l].status = p.to
      /\ line'[l].stamps = line[l].stamps \cup ({p.to} \cap {"cooking", "ready", "served"})
      /\ \A m \in Lines \ {l} : line'[m] = line[m]
  BY <1>1, <1>2 DEF PassTypes, Pass!Stamped
<1>6. /\ patch'[c] = [line |-> None, to |-> None, at |-> 0, seq |-> 0]
      /\ \A d \in Cooks \ {c} : patch'[d] = patch[d]
  BY <1>1 DEF PassTypes, Pass!Idle
<1>7. /\ newest'[l].seq = p.seq /\ newest'[l].status = p.to
      /\ \A m \in Lines \ {l} : newest'[m] = newest[m]
  BY <1>2, <1>4 DEF PassTypes
<1>8. line[l].status # "gone"
  BY <1>1 DEF RowsHeld
<1>9. /\ p.to \in {"ready", "served"} => "cooking" \in line[l].stamps
      /\ p.to = "served" => "ready" \in line[l].stamps
  BY <1>1, <1>8 DEF PatchesFollow
<1>10. PassTypes'
  <2>1. line' \in [Lines -> Pass!Line]
    BY <1>1, <1>2 DEF PassTypes, Pass!Line, Pass!Stamped, Pass!KitchenStatus
  <2>2. newest' \in [Lines -> Pass!Event]
    BY <1>2, <1>4 DEF PassTypes, Pass!Event, Pass!Patch
  <2>3. patch' \in [Cooks -> Pass!Patch]
    BY <1>1, <1>6 DEF PassTypes, Pass!Patch, Pass!KitchenAssumption
  <2> QED
    BY <1>1, <2>1, <2>2, <2>3 DEF PassTypes
<1>11. LinesStamped'
  BY <1>5, <1>9 DEF LinesStamped
<1>12. PatchesFollow'
  <2> SUFFICES ASSUME NEW d \in Cooks, patch'[d].line # None
               PROVE  LET m == line'[patch'[d].line]
                      IN  /\ patch'[d].to \in {"cooking", "ready", "served", "cancelled"}
                          /\ m.status \in Pass!KitchenStatus \cup {"gone"}
                          /\ m.status # "gone" =>
                               /\ patch'[d].to \in {"ready", "served"} => "cooking" \in m.stamps
                               /\ patch'[d].to = "served" => "ready" \in m.stamps
    BY DEF PatchesFollow
  <2>1. patch'[d] = patch[d] /\ patch[d].line \in Lines
    BY <1>6 DEF PassTypes, Pass!Patch
  <2>2. CASE patch[d].line = l
    BY <1>2, <1>5, <1>8, <2>1, <2>2 DEF PatchesFollow, Pass!KitchenStatus
  <2>3. CASE patch[d].line # l
    BY <1>5, <2>1, <2>3 DEF PatchesFollow
  <2> QED
    BY <2>2, <2>3
<1>13. RowsHeld'
  <2>1. ASSUME NEW d \in Cooks, patch'[d].at > 0
        PROVE  patch'[d] = patch[d] /\ patch[d].line \in Lines \ {l}
    <3>1. d # c /\ patch'[d] = patch[d]
      BY <1>6, <2>1
    <3> QED
      BY <1>1, <2>1, <3>1 DEF RowsHeld, PassTypes, Pass!Patch
  <2> QED
    BY <1>5, <1>6, <2>1 DEF RowsHeld
<1>14. EventsRise'
  <2>1. ASSUME NEW d \in Cooks, patch'[d].at = 2
        PROVE  patch'[d].seq <= seq /\ patch'[d].seq > newest'[patch'[d].line].seq
    <3>1. d # c /\ patch'[d] = patch[d]
      BY <1>6, <2>1
    <3>2. patch[d].line # l
      BY <1>1, <2>1, <3>1 DEF RowsHeld
    <3>3. patch[d].line \in Lines
      BY <2>1, <3>1 DEF RowsHeld, PassTypes, Pass!Patch
    <3> QED
      BY <1>7, <2>1, <3>1, <3>2, <3>3 DEF EventsRise
  <2>2. ASSUME NEW m \in Lines
        PROVE  newest'[m].seq <= seq /\ (line'[m].status \in {None, "off"} => newest'[m].seq = 0)
    BY <1>2, <1>3, <1>5, <1>7 DEF EventsRise
  <2> QED
    BY <1>1, <2>1, <2>2 DEF EventsRise
<1>15. Pass!StampsFollow'
  BY <1>5, <1>9 DEF Pass!StampsFollow
<1>16. Pass!NewestEventTells'
  BY <1>5, <1>7 DEF Pass!NewestEventTells
<1> QED
  BY <1>10, <1>11, <1>12, <1>13, <1>14, <1>15, <1>16

-----------------------------------------------------------------------------
(***************************************************************************)
(* The door: what a step may do to the rows that requests rely on, then    *)
(* one lemma for each action.                                              *)
(***************************************************************************)

\* Rows only gain what requests rely on.
RowsGrow ==
  /\ \A b \in Bookings : bookings[b].arrived => bookings'[b].arrived
  /\ Door!Joined \subseteq Door!Joined'
  /\ \A p \in Parties : queue[p].called => queue'[p].called
  /\ \A p \in Door!Joined : queue'[p].no = queue[p].no
  /\ Door!CountJoined <= Door!CountJoined'
  /\ \A o \in Orders : orders[o].status # None =>
       orders'[o].status # None /\ orders'[o].party = orders[o].party

\* The cardinality that the door counts with is that of the lemmas on finite sets.
LEMMA CardinalityIs == \A S : Door!Cardinality(S) = Cardinality(S)
  BY DEF Door!Cardinality, Cardinality

\* An idle request relies on no row.
LEMMA DoorIdle ==
  ASSUME Door!ReservationsAssumption
  PROVE  Door!Idle \in Door!Request /\ Follows(Door!Idle)
  BY DEF Door!ReservationsAssumption, Door!Idle, Door!Request, Follows

\* The number of a join is a number: finitely many parties have joined.
LEMMA CountType ==
  ASSUME NumbersBounded
  PROVE  Door!CountJoined \in Nat
  BY FS_CardinalityType, CardinalityIs DEF NumbersBounded, Door!CountJoined

\* Requests follow the rows as long as these grow.
LEMMA FollowLater ==
  ASSUME Door!ReservationsAssumption, Door!TypeOK, RequestsFollow, RowsGrow,
         Door!CountJoined \in Nat, Door!CountJoined' \in Nat,
         \A c \in Hosts \cup Guests : req'[c] \in {req[c], Door!Idle}
  PROVE  RequestsFollow'
<1> SUFFICES ASSUME NEW c \in Hosts \cup Guests
             PROVE  Follows(req[c])'
  BY DEF RequestsFollow
<1>1. CASE req'[c] = Door!Idle
  <2>1. req'[c].op = None
    BY <1>1 DEF Door!Idle
  <2> QED
    BY <2>1 DEF Follows, Door!ReservationsAssumption
<1>2. CASE req'[c] = req[c]
  <2>1. Follows(req[c]) /\ req[c] \in Door!Request
    BY DEF RequestsFollow, Door!TypeOK
  <2>2. Door!Joined \subseteq Parties
    BY DEF Door!Joined
  <2>3. req[c].op = "join" => req[c].no \in Nat
    BY <2>1 DEF Door!Request
  <2>4. req[c].order # None => req[c].order \in Orders
    BY <2>1 DEF Door!Request
  <2> HIDE DEF Door!CountJoined
  <2> QED
    BY <1>2, <2>1, <2>2, <2>3, <2>4 DEF Follows, RowsGrow
<1> QED
  BY <1>1, <1>2

\* A call reads and writes nothing.
LEMMA BeginInv ==
  ASSUME Door!ReservationsAssumption, DoorInv, NEW c \in Hosts \cup Guests,
         NEW fields \in Door!Request, Follows(fields), Door!Begin(c, fields)
  PROVE  DoorInv'
<1> USE DEF DoorInv
<1>1. /\ req' = [req EXCEPT ![c] = fields] /\ bookings' = bookings /\ queue' = queue
      /\ seatings' = seatings /\ orders' = orders /\ lineOf' = lineOf
  BY DEF Door!Begin
<1>2. Door!TypeOK'
  BY <1>1 DEF Door!TypeOK
<1>3. RequestsFollow'
  BY <1>1 DEF RequestsFollow, Follows, Door!TypeOK, Door!CountJoined, Door!Joined
<1>4. VisitsStamped' /\ NumbersAbove' /\ PreordersOwned'
  BY <1>1 DEF VisitsStamped, Door!VisitStamped, NumbersAbove, PreordersOwned
<1>5. NumbersBounded'
  BY <1>1 DEF NumbersBounded, Door!Joined, Door!CountJoined
<1>6. RowsUsed' /\ Door!PreorderAtOwnTable' /\ OneOpenOrder'
  BY <1>1 DEF RowsUsed, Door!PreorderAtOwnTable, OneOpenOrder, Door!OpenOrders
<1> QED
  BY <1>2, <1>3, <1>4, <1>5, <1>6

\* A host reads a booking: one to be completed is seated, and has its stamp.
LEMMA CallBookingInv ==
  ASSUME Door!ReservationsAssumption, DoorInv, NEW h \in Hosts, Door!CallBooking(h)
  PROVE  DoorInv'
<1>1. PICK b, to :
        /\ b \in Bookings /\ bookings[b].status # None
        /\ to \in Door!BookingAllowed(bookings[b].status)
        /\ Door!Begin(h, [Door!Idle EXCEPT !.op = "booking", !.booking = b, !.to = to])
  BY DEF Door!CallBooking, Door!Unused, DoorInv, Door!TypeOK
<1> DEFINE r == [Door!Idle EXCEPT !.op = "booking", !.booking = b, !.to = to]
<1>2. bookings[b].status \in Door!BookingStatus
  BY <1>1 DEF DoorInv, Door!TypeOK, Door!Booking
<1>3. /\ to \in Door!BookingStatus
      /\ to = "completed" => bookings[b].status = "seated"
  BY <1>1, <1>2 DEF Door!BookingAllowed, Door!BookingTransitions, Door!BookingStatus
<1>4. to = "completed" => bookings[b].arrived
  BY <1>1, <1>3 DEF DoorInv, VisitsStamped, Door!VisitStamped
<1>5. r \in Door!Request
  BY <1>1, <1>3, DoorIdle DEF Door!Idle, Door!Request
<1>6. Follows(r)
  BY <1>1, <1>3, <1>4 DEF Follows, Door!Idle
<1> QED
  BY <1>1, <1>5, <1>6, BeginInv

\* A host reads a queue entry: a party to be seated was called, and has its stamp.
LEMMA CallQueueInv ==
  ASSUME Door!ReservationsAssumption, DoorInv, NEW h \in Hosts, Door!CallQueue(h)
  PROVE  DoorInv'
<1>1. PICK p, to :
        /\ p \in Door!Joined /\ to \in Door!QueueAllowed(queue[p].status)
        /\ Door!Begin(h, [Door!Idle EXCEPT !.op = "patch", !.party = p, !.to = to])
  BY DEF Door!CallQueue
<1> DEFINE r == [Door!Idle EXCEPT !.op = "patch", !.party = p, !.to = to]
<1>2. p \in Parties /\ queue[p].status \in Door!QueueStatus
  BY <1>1 DEF DoorInv, Door!TypeOK, Door!Entry, Door!Joined
<1>3. /\ to \in Door!QueueStatus
      /\ to = "seated" => queue[p].status = "called"
  BY <1>1, <1>2 DEF Door!QueueAllowed, Door!QueueTransitions, Door!QueueStatus
<1>4. to = "seated" => queue[p].called
  BY <1>1, <1>2, <1>3 DEF DoorInv, VisitsStamped
<1>5. r \in Door!Request
  BY <1>2, <1>3, DoorIdle DEF Door!Idle, Door!Request
<1>6. Follows(r)
  BY <1>1, <1>2, <1>3, <1>4 DEF Follows, Door!Idle
<1> QED
  BY <1>1, <1>5, <1>6, BeginInv

\* A guest asks for a number: it is above all that were given.  A host's ticket counts nobody.
LEMMA CallJoinInv ==
  ASSUME Door!ReservationsAssumption, DoorInv, NEW g \in Guests, Door!CallJoin(g)
  PROVE  DoorInv'
<1> DEFINE n == Door!CountJoined
           r == [Door!Idle EXCEPT !.op = "join", !.no = n + 1, !.before = Door!Joined]
           w == [Door!Idle EXCEPT !.op = "join", !.no = Door!Written]
<1>1. n \in Nat
  BY CountType DEF DoorInv
<1>2. \A q \in Door!Joined : queue[q].no <= n /\ queue[q].no \in Nat
  BY DEF DoorInv, NumbersBounded, Door!Joined, Door!TypeOK, Door!Entry
<1>3. Door!Joined \subseteq Parties
  BY DEF Door!Joined
<1>4. Door!Begin(g, w) \/ Door!Begin(g, r)
  BY DEF Door!CallJoin
<1>5. w \in Door!Request /\ Follows(w)
  <2>1. PICK f : f = w
    OBVIOUS
  <2>2. f.op = "join" /\ f.no = 0 /\ f.before = {} /\ f.order = None
    BY <2>1 DEF Door!Idle, Door!Written
  <2>3. f \in Door!Request
    BY <2>1, DoorIdle DEF Door!Idle, Door!Written, Door!Request
  <2>4. 0 <= Door!CountJoined + 1
    BY <1>1
  <2> HIDE DEF n
  <2>5. Follows(f)
    BY <2>2, <2>4 DEF Follows
  <2> QED
    BY <2>1, <2>3, <2>5
<1> HIDE DEF n
<1>6. n + 1 \in Nat /\ \A q \in Door!Joined : queue[q].no < n + 1
  BY <1>1, <1>2
<1>7. r \in Door!Request
  BY <1>3, <1>6, DoorIdle DEF Door!Idle, Door!Request
<1>8. Follows(r)
  BY <1>1, <1>6 DEF Follows, Door!Idle, n
<1> HIDE DEF r, w
<1> QED
  BY <1>4, <1>5, <1>7, <1>8, BeginInv

\* A guest's page or a host reads an entry and its order.
LEMMA CallOrderInv ==
  ASSUME Door!ReservationsAssumption, DoorInv, NEW c \in Hosts \cup Guests,
         Door!CallPreorder(c) \/ Door!CallSeat(c)
  PROVE  DoorInv'
<1> DEFINE r(op, p, t) ==
      [op |-> op, booking |-> None, party |-> p, table |-> t, to |-> None,
       order |-> queue[p].order, no |-> 0, before |-> {}]
<1>1. PICK p \in Door!Joined, t \in Tables \cup {None}, op \in {"preorder", "seat"} :
        (op = "seat" => t \in Tables) /\ Door!Begin(c, r(op, p, t))
  <2>1. CASE Door!CallPreorder(c)
    <3>1. PICK p \in Door!Joined :
            Door!Begin(c, [Door!Idle EXCEPT !.op = "preorder", !.party = p,
                                           !.order = queue[p].order])
      BY <2>1 DEF Door!CallPreorder
    <3>2. PICK f : f = [Door!Idle EXCEPT !.op = "preorder", !.party = p,
                                           !.order = queue[p].order]
      OBVIOUS
    <3>3. f = r("preorder", p, None)
      BY <3>2 DEF Door!Idle
    <3>4. Door!Begin(c, f)
      BY <3>1, <3>2, Zenon
    <3> QED
      BY <3>3, <3>4, Zenon
  <2>2. CASE Door!CallSeat(c)
    <3>1. PICK p \in Door!Joined, t \in Tables :
            Door!Begin(c, [Door!Idle EXCEPT !.op = "seat", !.party = p, !.table = t,
                                           !.order = queue[p].order])
      BY <2>2 DEF Door!CallSeat
    <3>2. PICK f : f = [Door!Idle EXCEPT !.op = "seat", !.party = p, !.table = t,
                                           !.order = queue[p].order]
      OBVIOUS
    <3>3. f = r("seat", p, t)
      BY <3>2 DEF Door!Idle
    <3>4. Door!Begin(c, f)
      BY <3>1, <3>2, Zenon
    <3> QED
      BY <3>3, <3>4, Zenon
  <2> QED
    BY <2>1, <2>2
<1>2. p \in Parties /\ queue[p].order \in Orders \cup {None}
  BY <1>1 DEF DoorInv, Door!TypeOK, Door!Entry, Door!Joined
<1>3. r(op, p, t) \in Door!Request
  BY <1>1, <1>2 DEF Door!Request
<1>4. Follows(r(op, p, t))
  BY <1>1, <1>2 DEF Follows, DoorInv, PreordersOwned
<1> QED
  BY <1>1, <1>3, <1>4, BeginInv

\* The numbers stay in order while nobody joins.
LEMMA NobodyJoins ==
  ASSUME NumbersBounded, NumbersAbove,
         \A p \in Parties : /\ queue'[p].no = queue[p].no
                            /\ queue'[p].before = queue[p].before
                            /\ queue'[p].status = None <=> queue[p].status = None
  PROVE  /\ NumbersBounded' /\ NumbersAbove'
         /\ Door!Joined' = Door!Joined /\ Door!CountJoined' = Door!CountJoined
<1>1. Door!Joined' = Door!Joined
  BY DEF Door!Joined
<1>2. Door!CountJoined' = Door!CountJoined
  BY <1>1 DEF Door!CountJoined
<1>3. Door!Joined \subseteq Parties
  BY DEF Door!Joined
<1>4. NumbersBounded'
  BY <1>1, <1>2, <1>3 DEF NumbersBounded
<1>5. NumbersAbove'
  BY <1>3 DEF NumbersAbove, NumbersBounded
<1> QED
  BY <1>1, <1>2, <1>4, <1>5

\* A request that commits is idle then; the others are as they were.
LEMMA DoorCommit ==
  ASSUME Door!ReservationsAssumption, DoorInv, NEW c \in Hosts \cup Guests, NEW op,
         Door!Commit(c, op)
  PROVE  /\ req[c] \in Door!Request /\ req[c].op = op /\ Follows(req[c])
         /\ req' \in [Hosts \cup Guests -> Door!Request]
         /\ \A d \in Hosts \cup Guests : req'[d] \in {req[d], Door!Idle}
<1>1. req[c] \in Door!Request /\ Follows(req[c])
  BY DEF DoorInv, Door!TypeOK, RequestsFollow
<1>2. req[c].op = op /\ req' = [req EXCEPT ![c] = Door!Idle]
  BY DEF Door!Commit
<1>3. req \in [Hosts \cup Guests -> Door!Request]
  BY DEF DoorInv, Door!TypeOK
<1> QED
  BY <1>1, <1>2, <1>3, DoorIdle

\* A booking is taken.
LEMMA CreateReservationInv ==
  ASSUME Door!ReservationsAssumption, DoorInv, NEW b \in Bookings, Door!CreateReservation(b)
  PROVE  DoorInv'
<1> USE DEF DoorInv
<1>1. /\ bookings' = [bookings EXCEPT ![b].status = "booked"] /\ req' = req /\ queue' = queue
      /\ seatings' = seatings /\ orders' = orders /\ lineOf' = lineOf
  BY DEF Door!CreateReservation
<1>2. \A x \in Bookings : /\ bookings'[x].arrived = bookings[x].arrived
                          /\ bookings'[x].status \in {bookings[x].status, "booked"}
  BY <1>1 DEF Door!TypeOK, Door!Booking
<1>3. Door!TypeOK'
  BY <1>1 DEF Door!TypeOK, Door!Booking, Door!BookingStatus
<1>4. NumbersBounded' /\ NumbersAbove' /\ Door!CountJoined' = Door!CountJoined
  BY <1>1, NobodyJoins
<1>5. RequestsFollow'
  <2>1. Door!CountJoined \in Nat
    BY CountType
  <2>2. RowsGrow
    BY <1>1, <1>2, <1>4, <2>1 DEF RowsGrow, Door!Joined
  <2> QED
    BY <1>1, <1>4, <2>1, <2>2, FollowLater
<1>6. VisitsStamped' /\ PreordersOwned'
  BY <1>1, <1>2 DEF VisitsStamped, Door!VisitStamped, PreordersOwned
<1>7. RowsUsed' /\ Door!PreorderAtOwnTable' /\ OneOpenOrder'
  BY <1>1 DEF RowsUsed, Door!PreorderAtOwnTable, OneOpenOrder, Door!OpenOrders
<1> QED
  BY <1>3, <1>4, <1>5, <1>6, <1>7

\* A booking gets its status, and its stamp if one is due.
LEMMA PatchBookingInv ==
  ASSUME Door!ReservationsAssumption, DoorInv, NEW h \in Hosts, Door!PatchBooking(h)
  PROVE  DoorInv'
<1> USE DEF DoorInv
<1> DEFINE b == req[h].booking
           to == req[h].to
<1>1. /\ bookings' = [bookings EXCEPT ![b] =
                        [status |-> to, arrived |-> @.arrived \/ to \in {"seated", "no_show"}]]
      /\ queue' = queue /\ seatings' = seatings /\ orders' = orders /\ lineOf' = lineOf
      /\ Door!Commit(h, "booking")
  BY DEF Door!PatchBooking
<1>2. /\ req[h].op = "booking" /\ Follows(req[h])
      /\ req' \in [Hosts \cup Guests -> Door!Request]
      /\ \A d \in Hosts \cup Guests : req'[d] \in {req[d], Door!Idle}
  BY <1>1, DoorCommit
<1>3. /\ b \in Bookings /\ to \in Door!BookingStatus
      /\ to = "completed" => bookings[b].arrived
  BY <1>2 DEF Follows
<1>4. bookings \in [Bookings -> Door!Booking] /\ bookings[b].arrived \in BOOLEAN
  BY <1>3 DEF Door!TypeOK, Door!Booking
<1>5. /\ bookings'[b].status = to
      /\ bookings[b].arrived => bookings'[b].arrived
      /\ to \in {"seated", "no_show"} => bookings'[b].arrived
      /\ \A x \in Bookings \ {b} : bookings'[x] = bookings[x]
  BY <1>1, <1>3, <1>4
<1>6. Door!TypeOK'
  <2>1. bookings' \in [Bookings -> Door!Booking]
    BY <1>1, <1>3, <1>4 DEF Door!Booking
  <2> QED
    BY <1>1, <1>2, <2>1 DEF Door!TypeOK
<1>7. NumbersBounded' /\ NumbersAbove' /\ Door!CountJoined' = Door!CountJoined
  BY <1>1, NobodyJoins
<1>8. RequestsFollow'
  <2>1. Door!CountJoined \in Nat
    BY CountType
  <2>2. RowsGrow
    BY <1>1, <1>5, <1>7, <2>1 DEF RowsGrow, Door!Joined
  <2> QED
    BY <1>2, <1>7, <2>1, <2>2, FollowLater
<1>9. VisitsStamped' /\ PreordersOwned'
  BY <1>1, <1>3, <1>5 DEF VisitsStamped, Door!VisitStamped, PreordersOwned
<1>10. RowsUsed' /\ Door!PreorderAtOwnTable' /\ OneOpenOrder'
  BY <1>1 DEF RowsUsed, Door!PreorderAtOwnTable, OneOpenOrder, Door!OpenOrders
<1> QED
  BY <1>6, <1>7, <1>8, <1>9, <1>10

\* A party joins with the number it was given: all before it have lower ones.
LEMMA JoinQueueInv ==
  ASSUME Door!ReservationsAssumption, DoorInv, NEW g \in Guests, Door!JoinQueue(g)
  PROVE  DoorInv'
<1> USE DEF DoorInv
<1>1. PICK p \in Parties :
        /\ queue[p].status = None
        /\ queue' = [queue EXCEPT ![p] = [@ EXCEPT !.status = "waiting", !.no = req[g].no,
                                                  !.before = req[g].before]]
  BY DEF Door!JoinQueue, Door!Unused, Door!TypeOK
<1>2. /\ bookings' = bookings /\ seatings' = seatings /\ orders' = orders /\ lineOf' = lineOf
      /\ Door!Commit(g, "join")
  BY DEF Door!JoinQueue
<1>3. /\ req[g] \in Door!Request /\ req[g].op = "join" /\ Follows(req[g])
      /\ req' \in [Hosts \cup Guests -> Door!Request]
      /\ \A d \in Hosts \cup Guests : req'[d] \in {req[d], Door!Idle}
  BY <1>2, DoorCommit
<1>4. /\ req[g].no \in Nat /\ req[g].no <= Door!CountJoined + 1
      /\ req[g].before \subseteq Door!Joined
      /\ \A q \in req[g].before : queue[q].no < req[g].no
  BY <1>3 DEF Door!Request, Follows
<1>5. queue \in [Parties -> Door!Entry] /\ queue[p] \in Door!Entry
  BY DEF Door!TypeOK
<1>6. /\ queue'[p].status = "waiting" /\ queue'[p].no = req[g].no
      /\ queue'[p].before = req[g].before /\ queue'[p].order = queue[p].order
      /\ queue'[p].called = queue[p].called /\ queue'[p].seated = queue[p].seated
      /\ \A q \in Parties \ {p} : queue'[q] = queue[q]
  BY <1>1, <1>5 DEF Door!Entry
<1>7. Door!Joined' = Door!Joined \cup {p} /\ p \notin Door!Joined /\ Door!Joined \subseteq Parties
  BY <1>1, <1>6 DEF Door!Joined, Door!ReservationsAssumption, Door!QueueStatus
<1>8. /\ IsFiniteSet(Door!Joined') /\ Door!CountJoined \in Nat
      /\ Door!CountJoined' = Door!CountJoined + 1
  BY <1>7, FS_AddElement, CardinalityIs, CountType DEF NumbersBounded, Door!CountJoined
<1>9. Door!TypeOK'
  <2>1. queue'[p] = [[[queue[p] EXCEPT !.status = "waiting"] EXCEPT !.no = req[g].no]
                      EXCEPT !.before = req[g].before]
    BY <1>1, <1>5
  <2>2. [queue[p] EXCEPT !.status = "waiting"] \in Door!Entry
    BY <1>5 DEF Door!Entry, Door!QueueStatus
  <2>3. [[queue[p] EXCEPT !.status = "waiting"] EXCEPT !.no = req[g].no] \in Door!Entry
    BY <1>4, <2>2 DEF Door!Entry
  <2>4. queue'[p] \in Door!Entry
    BY <1>4, <1>7, <2>1, <2>3 DEF Door!Entry
  <2>5. queue' \in [Parties -> Door!Entry]
    BY <1>1, <1>5, <1>6, <2>4
  <2> QED
    BY <1>2, <1>3, <2>5 DEF Door!TypeOK
<1>10. NumbersBounded'
  <2>1. \A q \in Door!Joined : queue[q].no \in Nat /\ queue[q].no <= Door!CountJoined
    BY <1>5, <1>7 DEF NumbersBounded, Door!Entry
  <2> HIDE DEF Door!CountJoined
  <2> QED
    BY <1>4, <1>6, <1>7, <1>8, <2>1 DEF NumbersBounded
<1>11. NumbersAbove'
  <2> SUFFICES ASSUME NEW x \in Parties, NEW q \in queue'[x].before
               PROVE  queue'[x].no > queue'[q].no
    BY DEF NumbersAbove
  <2>1. queue'[x].before \subseteq Door!Joined
    BY <1>4, <1>6 DEF NumbersBounded
  <2>2. queue'[q] = queue[q] /\ queue[q].no \in Nat
    BY <1>5, <1>6, <1>7, <2>1 DEF Door!Entry
  <2>3. CASE x = p
    BY <1>4, <1>6, <2>2, <2>3
  <2>4. CASE x # p
    BY <1>6, <2>2, <2>4 DEF NumbersAbove
  <2> QED
    BY <2>3, <2>4
<1>12. RequestsFollow'
  <2>1. \A q \in Door!Joined : queue'[q] = queue[q]
    BY <1>6, <1>7
  <2>2. Door!CountJoined <= Door!CountJoined' /\ Door!CountJoined' \in Nat
    BY <1>8
  <2>3. RowsGrow
    BY <1>2, <1>6, <1>7, <2>1, <2>2 DEF RowsGrow
  <2> QED
    BY <1>3, <1>8, <2>2, <2>3, FollowLater
<1>13. VisitsStamped' /\ PreordersOwned'
  BY <1>2, <1>6 DEF VisitsStamped, Door!VisitStamped, PreordersOwned
<1>14. RowsUsed' /\ Door!PreorderAtOwnTable' /\ OneOpenOrder'
  BY <1>2 DEF RowsUsed, Door!PreorderAtOwnTable, OneOpenOrder, Door!OpenOrders
<1> QED
  BY <1>9, <1>10, <1>11, <1>12, <1>13, <1>14

\* A queue entry gets its status, and the stamp of that status.
LEMMA PatchQueueInv ==
  ASSUME Door!ReservationsAssumption, DoorInv, NEW h \in Hosts, Door!PatchQueue(h)
  PROVE  DoorInv'
<1> USE DEF DoorInv
<1> DEFINE p == req[h].party
           to == req[h].to
<1>1. /\ queue' = [queue EXCEPT ![p].status = to,
                                ![p].called = @ \/ to = "called",
                                ![p].seated = @ \/ to = "seated"]
      /\ bookings' = bookings /\ seatings' = seatings /\ orders' = orders /\ lineOf' = lineOf
      /\ Door!Commit(h, "patch")
  BY DEF Door!PatchQueue
<1>2. /\ req[h].op = "patch" /\ Follows(req[h])
      /\ req' \in [Hosts \cup Guests -> Door!Request]
      /\ \A d \in Hosts \cup Guests : req'[d] \in {req[d], Door!Idle}
  BY <1>1, DoorCommit
<1>3. /\ p \in Door!Joined /\ p \in Parties /\ to \in Door!QueueStatus /\ to # None
      /\ queue[p].status # None
      /\ to = "seated" => queue[p].called
  BY <1>2 DEF Follows, Door!Joined, Door!ReservationsAssumption
<1>4. queue \in [Parties -> Door!Entry] /\ queue[p] \in Door!Entry
  BY <1>3 DEF Door!TypeOK
<1>5. /\ queue'[p].status = to /\ queue'[p].no = queue[p].no
      /\ queue'[p].before = queue[p].before /\ queue'[p].order = queue[p].order
      /\ queue[p].called \/ to = "called" => queue'[p].called
      /\ queue[p].seated \/ to = "seated" => queue'[p].seated
      /\ \A q \in Parties \ {p} : queue'[q] = queue[q]
  BY <1>1, <1>3, <1>4 DEF Door!Entry
<1>6. bookings' = bookings /\ seatings' = seatings /\ orders' = orders
  BY <1>1
<1>7. \A q \in Parties :
              /\ queue'[q].no = queue[q].no
              /\ queue'[q].before = queue[q].before
              /\ queue'[q].order = queue[q].order
              /\ queue'[q].status = None <=> queue[q].status = None
              /\ queue[q].called => queue'[q].called
  BY <1>3, <1>5
<1>8. Door!TypeOK'
  <2>1. PICK called \in BOOLEAN, seated \in BOOLEAN :
          /\ called = (queue[p].called \/ to = "called")
          /\ seated = (queue[p].seated \/ to = "seated")
    OBVIOUS
  <2>2. queue'[p] = [[[queue[p] EXCEPT !.status = to] EXCEPT !.called = called]
                      EXCEPT !.seated = seated]
    BY <1>1, <1>3, <1>4, <2>1 DEF Door!Entry
  <2>3. [queue[p] EXCEPT !.status = to] \in Door!Entry
    BY <1>3, <1>4 DEF Door!Entry
  <2>4. [[queue[p] EXCEPT !.status = to] EXCEPT !.called = called] \in Door!Entry
    BY <2>3 DEF Door!Entry
  <2>5. queue'[p] \in Door!Entry
    BY <2>2, <2>4 DEF Door!Entry
  <2>6. queue' \in [Parties -> Door!Entry]
    BY <1>1, <1>4, <1>5, <2>5
  <2> QED
    BY <1>1, <1>2, <2>6 DEF Door!TypeOK
<1>9. /\ NumbersBounded' /\ NumbersAbove'
      /\ Door!Joined' = Door!Joined /\ Door!CountJoined' = Door!CountJoined
  BY <1>7, NobodyJoins
<1>10. RequestsFollow'
  <2>1. Door!CountJoined \in Nat
    BY CountType
  <2>2. RowsGrow
    BY <1>6, <1>7, <1>9, <2>1 DEF RowsGrow, Door!Joined
  <2> QED
    BY <1>2, <1>9, <2>1, <2>2, FollowLater
<1>11. VisitsStamped' /\ PreordersOwned'
  <2>1. VisitsStamped'
    BY <1>6, <1>7, <1>3, <1>5 DEF VisitsStamped, Door!VisitStamped
  <2>2. PreordersOwned'
    BY <1>6, <1>7 DEF PreordersOwned
  <2> QED
    BY <2>1, <2>2
<1>12. RowsUsed' /\ Door!PreorderAtOwnTable' /\ OneOpenOrder'
  BY <1>1 DEF RowsUsed, Door!PreorderAtOwnTable, OneOpenOrder, Door!OpenOrders
<1> QED
  BY <1>8, <1>9, <1>10, <1>11, <1>12

\* A request that is rolled back leaves no trace.
LEMMA DoorRollbackInv ==
  ASSUME Door!ReservationsAssumption, DoorInv, NEW c \in Hosts \cup Guests, Door!Rollback(c)
  PROVE  DoorInv'
<1>1. /\ bookings' = bookings /\ queue' = queue
      /\ seatings' = seatings /\ orders' = orders /\ lineOf' = lineOf
      /\ req' = [req EXCEPT ![c] = Door!Idle]
  BY DEF Door!Rollback
<1> USE DEF DoorInv
<1>2. Door!TypeOK'
  BY <1>1, DoorIdle DEF Door!TypeOK
<1>3. NumbersBounded' /\ NumbersAbove' /\ Door!CountJoined' = Door!CountJoined
  BY <1>1, NobodyJoins
<1>4. RequestsFollow'
  <2>1. Door!CountJoined \in Nat
    BY CountType
  <2>2. RowsGrow
    BY <1>1, <1>3, <2>1 DEF RowsGrow, Door!Joined
  <2>3. \A d \in Hosts \cup Guests : req'[d] \in {req[d], Door!Idle}
    BY <1>1 DEF Door!TypeOK
  <2> QED
    BY <1>3, <2>1, <2>2, <2>3, FollowLater
<1>5. VisitsStamped' /\ PreordersOwned'
  BY <1>1 DEF VisitsStamped, Door!VisitStamped, PreordersOwned
<1>6. RowsUsed' /\ Door!PreorderAtOwnTable' /\ OneOpenOrder'
  BY <1>1 DEF RowsUsed, Door!PreorderAtOwnTable, OneOpenOrder, Door!OpenOrders
<1> QED
  BY <1>2, <1>3, <1>4, <1>5, <1>6

\* An order ends: its seating has one open order less.
LEMMA EndOrderInv ==
  ASSUME Door!ReservationsAssumption, DoorInv, NEW o \in Orders, Door!EndOrder(o)
  PROVE  DoorInv'
<1> USE DEF DoorInv
<1>1. /\ orders' = [orders EXCEPT ![o].status = "ended"] /\ orders[o].status = "open"
      /\ bookings' = bookings /\ queue' = queue
      /\ seatings' = seatings /\ req' = req /\ lineOf' = lineOf
  BY DEF Door!EndOrder
<1>2. None # "ended" /\ None # "open"
  BY DEF Door!ReservationsAssumption
<1>3. \A x \in Orders : /\ orders'[x].seating = orders[x].seating
                        /\ orders'[x].party = orders[x].party
                        /\ orders[x].status # None => orders'[x].status # None
                        /\ orders'[x].status = "open" => orders[x].status = "open"
  BY <1>1, <1>2 DEF Door!TypeOK, Door!Order
<1>4. Door!TypeOK'
  BY <1>1 DEF Door!TypeOK, Door!Order
<1>5. NumbersBounded' /\ NumbersAbove' /\ Door!CountJoined' = Door!CountJoined
  BY <1>1, NobodyJoins
<1>6. RequestsFollow'
  <2>1. Door!CountJoined \in Nat
    BY CountType
  <2>2. RowsGrow
    BY <1>1, <1>3, <1>5, <2>1 DEF RowsGrow, Door!Joined
  <2> QED
    BY <1>1, <1>5, <2>1, <2>2, FollowLater
<1>7. VisitsStamped'
  BY <1>1 DEF VisitsStamped, Door!VisitStamped
<1>8. PreordersOwned'
  BY <1>1, <1>3 DEF PreordersOwned, Door!TypeOK, Door!Entry
<1>9. RowsUsed' /\ Door!PreorderAtOwnTable'
  BY <1>1, <1>3 DEF RowsUsed, Door!PreorderAtOwnTable
<1>10. OneOpenOrder'
  BY <1>3 DEF OneOpenOrder, Door!OpenOrders
<1> QED
  BY <1>4, <1>5, <1>6, <1>7, <1>8, <1>9, <1>10

\* An order is created: for a party, off any table, or at a table without an open one.
LEMMA NewOrderInv ==
  ASSUME Door!ReservationsAssumption, DoorInv, NEW o \in Orders, orders[o].status = None,
         NEW s \in Seatings \cup {None}, NEW p \in Parties \cup {None},
         s = None \/ p = None,
         s # None => seatings[s].status # None /\ Door!OpenOrders(s) = {},
         orders' = [orders EXCEPT ![o] = [status |-> "open", seating |-> s, party |-> p]]
  PROVE  /\ orders' \in [Orders -> Door!Order]
         /\ \A x \in Orders : orders[x].status # None => x # o /\ orders'[x] = orders[x]
         /\ orders'[o].status # None /\ orders'[o].party = p
         /\ seatings' = seatings => RowsUsed' /\ Door!PreorderAtOwnTable' /\ OneOpenOrder'
<1> USE DEF DoorInv
<1>1. None # "open"
  BY DEF Door!ReservationsAssumption
<1>2. /\ orders'[o].status = "open" /\ orders'[o].seating = s /\ orders'[o].party = p
      /\ \A x \in Orders \ {o} : orders'[x] = orders[x]
  BY DEF Door!TypeOK
<1>3. orders' \in [Orders -> Door!Order]
  BY DEF Door!TypeOK, Door!Order
<1>4. ASSUME seatings' = seatings
      PROVE  RowsUsed' /\ Door!PreorderAtOwnTable' /\ OneOpenOrder'
  <2>1. RowsUsed'
    BY <1>1, <1>2, <1>4 DEF RowsUsed
  <2>2. Door!PreorderAtOwnTable'
    BY <1>2, <1>4 DEF Door!PreorderAtOwnTable
  <2>3. OneOpenOrder'
    BY <1>2 DEF OneOpenOrder, Door!OpenOrders, Door!ReservationsAssumption
  <2> QED
    BY <2>1, <2>2, <2>3
<1> QED
  BY <1>1, <1>2, <1>3, <1>4

\* An item is sold at a table, on its open order or on a new one.
LEMMA SellAtTableInv ==
  ASSUME Door!ReservationsAssumption, DoorInv, NEW s \in Seatings, NEW l \in Lines,
         Door!SellAtTable(s, l)
  PROVE  DoorInv'
<1> USE DEF DoorInv
<1>1. /\ bookings' = bookings /\ queue' = queue /\ seatings' = seatings /\ req' = req
      /\ seatings[s].status = "open"
  BY DEF Door!SellAtTable
<1>2. \/ orders' = orders /\ lineOf' \in [Lines -> Orders \cup {None}]
      \/ /\ Door!OpenOrders(s) = {}
         /\ \E o \in Orders :
              /\ orders[o].status = None /\ lineOf' = [lineOf EXCEPT ![l] = o]
              /\ orders' = [orders EXCEPT ![o] =
                              [status |-> "open", seating |-> s, party |-> None]]
  BY DEF Door!SellAtTable, Door!TypeOK, Door!OpenOrders, Door!Unused
<1>3. /\ orders' \in [Orders -> Door!Order] /\ lineOf' \in [Lines -> Orders \cup {None}]
      /\ \A x \in Orders : orders[x].status # None => orders'[x] = orders[x]
      /\ RowsUsed' /\ Door!PreorderAtOwnTable' /\ OneOpenOrder'
  <2>1. CASE orders' = orders /\ lineOf' \in [Lines -> Orders \cup {None}]
    BY <1>1, <2>1 DEF Door!TypeOK, RowsUsed, Door!PreorderAtOwnTable, OneOpenOrder,
       Door!OpenOrders
  <2>2. CASE orders' # orders
    <3>1. PICK o \in Orders :
              /\ orders[o].status = None /\ lineOf' = [lineOf EXCEPT ![l] = o]
              /\ orders' = [orders EXCEPT ![o] =
                              [status |-> "open", seating |-> s, party |-> None]]
      BY <1>2, <2>2
    <3>2. seatings[s].status # None /\ s # None /\ Door!OpenOrders(s) = {}
      BY <1>1, <1>2, <2>2 DEF Door!ReservationsAssumption
    <3>3. lineOf' \in [Lines -> Orders \cup {None}]
      BY <3>1 DEF Door!TypeOK
    <3> QED
      BY <1>1, <3>1, <3>2, <3>3, NewOrderInv
  <2> QED
    BY <1>2, <2>1, <2>2 DEF Door!TypeOK
<1>4. Door!TypeOK'
  BY <1>1, <1>3 DEF Door!TypeOK
<1>5. NumbersBounded' /\ NumbersAbove' /\ Door!CountJoined' = Door!CountJoined
  BY <1>1, NobodyJoins
<1>6. RequestsFollow'
  <2>1. Door!CountJoined \in Nat
    BY CountType
  <2>2. RowsGrow
    BY <1>1, <1>3, <1>5, <2>1 DEF RowsGrow, Door!Joined
  <2> QED
    BY <1>1, <1>5, <2>1, <2>2, FollowLater
<1>7. VisitsStamped'
  BY <1>1 DEF VisitsStamped, Door!VisitStamped
<1>8. PreordersOwned'
  BY <1>1, <1>3 DEF PreordersOwned, Door!TypeOK, Door!Entry
<1> QED
  BY <1>3, <1>4, <1>5, <1>6, <1>7, <1>8

\* A guest adds a line to the party's order, which the first line creates.
LEMMA PreorderInv ==
  ASSUME Door!ReservationsAssumption, DoorInv, NEW g \in Guests, NEW l \in Lines,
         Door!Preorder(g, l)
  PROVE  DoorInv'
<1> USE DEF DoorInv
<1> DEFINE p == req[g].party
<1>1. /\ bookings' = bookings /\ seatings' = seatings
      /\ Door!Commit(g, "preorder")
  BY DEF Door!Preorder
<1>2. /\ req[g] \in Door!Request /\ req[g].op = "preorder" /\ Follows(req[g])
      /\ req' \in [Hosts \cup Guests -> Door!Request]
      /\ \A d \in Hosts \cup Guests : req'[d] \in {req[d], Door!Idle}
  BY <1>1, DoorCommit
<1>3. p \in Door!Joined /\ p \in Parties /\ p # None
  BY <1>2 DEF Follows, Door!Joined, Door!ReservationsAssumption
<1>4. queue \in [Parties -> Door!Entry]
  BY DEF Door!TypeOK
<1>5. /\ orders' \in [Orders -> Door!Order] /\ lineOf' \in [Lines -> Orders \cup {None}]
      /\ queue' \in [Parties -> Door!Entry]
      /\ \A x \in Orders : orders[x].status # None => orders'[x] = orders[x]
      /\ \A q \in Parties :
           /\ queue'[q].status = queue[q].status /\ queue'[q].no = queue[q].no
           /\ queue'[q].before = queue[q].before
           /\ queue'[q].called = queue[q].called /\ queue'[q].seated = queue[q].seated
           /\ queue'[q].order # queue[q].order =>
                /\ queue'[q].order \in Orders /\ orders'[queue'[q].order].status # None
                /\ orders'[queue'[q].order].party = q
      /\ RowsUsed' /\ Door!PreorderAtOwnTable' /\ OneOpenOrder'
  <2>1. CASE req[g].order # None
    <3>1. /\ queue' = queue /\ orders' = orders
          /\ lineOf' = [lineOf EXCEPT ![l] = req[g].order]
      BY <2>1 DEF Door!Preorder
    <3>2. req[g].order \in Orders
      BY <1>2, <2>1 DEF Door!Request
    <3> QED
      BY <1>1, <3>1, <3>2 DEF Door!TypeOK, RowsUsed, Door!PreorderAtOwnTable, OneOpenOrder,
         Door!OpenOrders
  <2>2. CASE req[g].order = None
    <3>1. PICK o \in Orders :
            /\ orders[o].status = None
            /\ lineOf' = [lineOf EXCEPT ![l] = o]
            /\ queue' = [queue EXCEPT ![p].order = o]
            /\ orders' = [orders EXCEPT ![o] =
                            [status |-> "open", seating |-> None, party |-> p]]
      BY <2>2 DEF Door!Preorder, Door!Unused, Door!TypeOK
    <3>2. /\ orders' \in [Orders -> Door!Order]
          /\ \A x \in Orders : orders[x].status # None => x # o /\ orders'[x] = orders[x]
          /\ orders'[o].status # None /\ orders'[o].party = p
          /\ RowsUsed' /\ Door!PreorderAtOwnTable' /\ OneOpenOrder'
      BY <1>1, <1>3, <3>1, NewOrderInv
    <3>3. lineOf' \in [Lines -> Orders \cup {None}]
      BY <3>1 DEF Door!TypeOK
    <3>4. queue' \in [Parties -> Door!Entry]
      BY <1>3, <1>4, <3>1 DEF Door!Entry
    <3>5. /\ queue'[p].order = o
          /\ queue'[p].status = queue[p].status /\ queue'[p].no = queue[p].no
          /\ queue'[p].before = queue[p].before
          /\ queue'[p].called = queue[p].called /\ queue'[p].seated = queue[p].seated
          /\ \A q \in Parties \ {p} : queue'[q] = queue[q]
      BY <1>3, <1>4, <3>1 DEF Door!Entry
    <3> QED
      BY <3>2, <3>3, <3>4, <3>5
  <2> QED
    BY <2>1, <2>2
<1>6. Door!TypeOK'
  BY <1>1, <1>2, <1>5 DEF Door!TypeOK
<1>7. /\ NumbersBounded' /\ NumbersAbove'
      /\ Door!Joined' = Door!Joined /\ Door!CountJoined' = Door!CountJoined
  BY <1>5, NobodyJoins
<1>8. RequestsFollow'
  <2>1. Door!CountJoined \in Nat
    BY CountType
  <2>2. RowsGrow
    BY <1>1, <1>5, <1>7, <2>1 DEF RowsGrow, Door!Joined
  <2> QED
    BY <1>2, <1>7, <2>1, <2>2, FollowLater
<1>9. VisitsStamped'
  BY <1>1, <1>5 DEF VisitsStamped, Door!VisitStamped
<1>10. PreordersOwned'
  <2> SUFFICES ASSUME NEW q \in Parties, queue'[q].order # None
               PROVE  /\ orders'[queue'[q].order].status # None
                      /\ orders'[queue'[q].order].party = q
    BY DEF PreordersOwned
  <2>1. CASE queue'[q].order # queue[q].order
    BY <1>5, <2>1
  <2>2. CASE queue'[q].order = queue[q].order
    <3>1. queue[q].order \in Orders
      BY <1>4, <2>2 DEF Door!Entry
    <3>2. orders[queue[q].order].status # None /\ orders[queue[q].order].party = q
      BY <2>2 DEF PreordersOwned
    <3> QED
      BY <1>5, <2>2, <3>1, <3>2
  <2> QED
    BY <2>1, <2>2
<1> QED
  BY <1>5, <1>6, <1>7, <1>8, <1>9, <1>10

\* A party is seated: the seating is new and has no order, so the party's own is its only one.
LEMMA SeatQueueEntryInv ==
  ASSUME Door!ReservationsAssumption, DoorInv, NEW h \in Hosts, Door!SeatQueueEntry(h)
  PROVE  DoorInv'
<1> USE DEF DoorInv
<1> DEFINE p == req[h].party
           own == req[h].order
<1>1. /\ bookings' = bookings /\ lineOf' = lineOf /\ Door!Commit(h, "seat")
      /\ queue' = [queue EXCEPT ![p] =
                     [@ EXCEPT !.status = "seated", !.called = TRUE, !.seated = TRUE]]
  BY DEF Door!SeatQueueEntry
<1>2. PICK s \in Seatings :
        /\ seatings[s].status = None
        /\ seatings' = [seatings EXCEPT ![s] =
                          [status |-> "open", table |-> req[h].table, party |-> p]]
        /\ orders' = [o \in Orders |-> IF o \in Door!Carried(own)
                        THEN [orders[o] EXCEPT !.seating = s] ELSE orders[o]]
  BY DEF Door!SeatQueueEntry, Door!Unused, Door!TypeOK
<1>3. /\ req[h] \in Door!Request /\ req[h].op = "seat" /\ Follows(req[h])
      /\ req' \in [Hosts \cup Guests -> Door!Request]
      /\ \A d \in Hosts \cup Guests : req'[d] \in {req[d], Door!Idle}
  BY <1>1, DoorCommit
<1>4. /\ p \in Door!Joined /\ p \in Parties /\ queue[p].status # None
      /\ req[h].table \in Tables
      /\ own # None => orders[own].party = p
      /\ None # "seated" /\ None # "open" /\ None \notin Orders \cup Seatings
  BY <1>3 DEF Follows, Door!Joined, Door!ReservationsAssumption, Door!QueueStatus
<1>5. queue \in [Parties -> Door!Entry] /\ queue[p] \in Door!Entry
  BY <1>4 DEF Door!TypeOK
<1>6. /\ queue'[p].status = "seated" /\ queue'[p].no = queue[p].no
      /\ queue'[p].before = queue[p].before /\ queue'[p].order = queue[p].order
      /\ queue'[p].called /\ queue'[p].seated
      /\ \A q \in Parties \ {p} : queue'[q] = queue[q]
  BY <1>1, <1>4, <1>5 DEF Door!Entry
<1>7. \A o \in Orders : orders[o] \in Door!Order
  BY DEF Door!TypeOK
<1>8. \A o \in Orders :
        /\ orders'[o].status = orders[o].status /\ orders'[o].party = orders[o].party
        /\ orders'[o].seating \in {orders[o].seating, s}
        /\ orders'[o].seating # orders[o].seating => o = own /\ orders[o].status = "open"
  BY <1>2, <1>7 DEF Door!Carried, Door!Order
<1>9. \A o \in Orders : orders[o].seating # s
  BY <1>2, <1>4 DEF RowsUsed
<1>10. \A x \in Seatings \ {s} : seatings'[x] = seatings[x]
  BY <1>2 DEF Door!TypeOK
<1>11. seatings'[s].status = "open" /\ seatings'[s].party = p
  BY <1>2 DEF Door!TypeOK
<1>12. Door!TypeOK'
  <2>1. seatings' \in [Seatings -> Door!Seating]
    BY <1>2, <1>4 DEF Door!TypeOK, Door!Seating
  <2>2. orders' \in [Orders -> Door!Order]
    BY <1>2, <1>7 DEF Door!Order
  <2>3. queue'[p] = [[[queue[p] EXCEPT !.status = "seated"] EXCEPT !.called = TRUE]
                      EXCEPT !.seated = TRUE]
    BY <1>1, <1>4, <1>5
  <2>4. [queue[p] EXCEPT !.status = "seated"] \in Door!Entry
    BY <1>5 DEF Door!Entry, Door!QueueStatus
  <2>5. [[queue[p] EXCEPT !.status = "seated"] EXCEPT !.called = TRUE] \in Door!Entry
    BY <2>4 DEF Door!Entry
  <2>6. queue'[p] \in Door!Entry
    BY <2>3, <2>5 DEF Door!Entry
  <2>7. queue' \in [Parties -> Door!Entry]
    BY <1>1, <1>5, <1>6, <2>6
  <2> QED
    BY <1>1, <1>3, <2>1, <2>2, <2>7 DEF Door!TypeOK
<1>13. \A q \in Parties :
         /\ queue'[q].no = queue[q].no
         /\ queue'[q].before = queue[q].before
         /\ queue'[q].order = queue[q].order
         /\ queue'[q].status = None <=> queue[q].status = None
         /\ queue[q].called => queue'[q].called
  BY <1>4, <1>6
<1>14. /\ NumbersBounded' /\ NumbersAbove'
       /\ Door!Joined' = Door!Joined /\ Door!CountJoined' = Door!CountJoined
  BY <1>13, NobodyJoins
<1>15. RequestsFollow'
  <2>1. Door!CountJoined \in Nat
    BY CountType
  <2>2. bookings' = bookings
    BY <1>1
  <2>3. RowsGrow
    BY <1>8, <1>13, <1>14, <2>1, <2>2 DEF RowsGrow, Door!Joined
  <2> QED
    BY <1>3, <1>14, <2>1, <2>3, FollowLater
<1>16. VisitsStamped'
  <2>1. bookings' = bookings
    BY <1>1
  <2> QED
    BY <1>6, <2>1 DEF VisitsStamped, Door!VisitStamped
<1>17. PreordersOwned'
  <2>1. \A q \in Parties : queue[q].order \in Orders \cup {None}
    BY <1>5 DEF Door!Entry
  <2> QED
    BY <1>8, <1>13, <2>1 DEF PreordersOwned
<1>18. RowsUsed'
  BY <1>4, <1>7, <1>8, <1>10, <1>11 DEF RowsUsed, Door!Order
<1>19. Door!PreorderAtOwnTable'
  <2> SUFFICES ASSUME NEW o \in Orders, orders'[o].party # None, orders'[o].seating # None
               PROVE  seatings'[orders'[o].seating].party = orders'[o].party
    BY DEF Door!PreorderAtOwnTable
  <2>1. CASE orders'[o].seating = s
    <3>1. o = own /\ own # None
      BY <1>4, <1>8, <1>9, <2>1
    <3> QED
      BY <1>4, <1>8, <1>11, <2>1, <3>1
  <2>2. CASE orders'[o].seating # s
    <3>1. orders'[o].seating = orders[o].seating /\ orders[o].seating \in Seatings
      BY <1>7, <1>8, <2>2 DEF Door!Order
    <3> QED
      BY <1>8, <1>10, <2>2, <3>1 DEF Door!PreorderAtOwnTable
  <2> QED
    BY <2>1, <2>2
<1>20. OneOpenOrder'
  <2> SUFFICES ASSUME NEW x \in Seatings, NEW o \in Orders, NEW q \in Orders,
                      orders'[o].status = "open", orders'[o].seating = x,
                      orders'[q].status = "open", orders'[q].seating = x
               PROVE  o = q
    BY DEF OneOpenOrder, Door!OpenOrders
  <2>1. CASE x = s
    BY <1>8, <1>9, <2>1
  <2>2. CASE x # s
    BY <1>8, <2>2 DEF OneOpenOrder, Door!OpenOrders
  <2> QED
    BY <2>1, <2>2
<1> QED
  BY <1>12, <1>14, <1>15, <1>16, <1>17, <1>18, <1>19, <1>20

-----------------------------------------------------------------------------
(***************************************************************************)
(* Door and pass together.                                                 *)
(***************************************************************************)

\* Nothing is there at first.
LEMMA InitInv ==
  ASSUME Init
  PROVE  Inv
<1>1. Door!ReservationsAssumption /\ Pass!KitchenAssumption
  BY FrontOfHouseAssumption
<1>2. PassInv
  <2> USE DEF Init, Pass!Init
  <2>1. PassTypes
    BY <1>1 DEF PassTypes, Pass!Line, Pass!Event, Pass!Patch, Pass!Idle, Pass!KitchenAssumption
  <2>2. LinesStamped /\ Pass!StampsFollow
    BY <1>1 DEF LinesStamped, Pass!StampsFollow, Pass!KitchenAssumption, Pass!KitchenStatus
  <2>3. PatchesFollow /\ RowsHeld
    BY DEF PatchesFollow, RowsHeld, Pass!Idle
  <2>4. EventsRise /\ Pass!NewestEventTells
    BY DEF EventsRise, Pass!NewestEventTells, Pass!Idle
  <2> QED
    BY <2>1, <2>2, <2>3, <2>4 DEF PassInv
<1>3. DoorInv
  <2> USE DEF Init, Door!Init
  <2>1. Door!TypeOK
    BY DoorIdle, <1>1 DEF Door!TypeOK, Door!Booking, Door!Entry, Door!Seating, Door!Order
  <2>2. Door!Joined = {}
    BY DEF Door!Joined
  <2>3. NumbersBounded
    BY <2>2, FS_EmptySet DEF NumbersBounded
  <2>4. RequestsFollow
    BY DoorIdle, <1>1 DEF RequestsFollow
  <2>5. VisitsStamped
    BY <1>1 DEF VisitsStamped, Door!VisitStamped, Door!ReservationsAssumption,
       Door!BookingStatus, Door!QueueStatus
  <2>6. NumbersAbove /\ PreordersOwned
    BY DEF NumbersAbove, PreordersOwned
  <2>7. RowsUsed /\ Door!PreorderAtOwnTable
    BY DEF RowsUsed, Door!PreorderAtOwnTable
  <2>8. OneOpenOrder
    BY <1>1 DEF OneOpenOrder, Door!OpenOrders, Door!ReservationsAssumption
  <2> QED
    BY <2>1, <2>3, <2>4, <2>5, <2>6, <2>7, <2>8 DEF DoorInv
<1> QED
  BY <1>2, <1>3 DEF Inv

\* A step that leaves one part alone keeps its invariant.
LEMMA PassStutters == PassInv /\ UNCHANGED pass => PassInv'
  BY DEF PassInv, pass, PassTypes, LinesStamped, PatchesFollow, RowsHeld, EventsRise,
     Pass!StampsFollow, Pass!NewestEventTells

LEMMA DoorStutters == DoorInv /\ UNCHANGED door => DoorInv'
<1> SUFFICES ASSUME DoorInv, UNCHANGED door PROVE DoorInv'
  OBVIOUS
<1> USE DEF DoorInv, door
<1>1. Door!TypeOK'
  BY DEF Door!TypeOK
<1>2. NumbersBounded' /\ NumbersAbove' /\ RequestsFollow'
  BY DEF NumbersBounded, NumbersAbove, RequestsFollow, Follows, Door!CountJoined,
     Door!Joined
<1>3. VisitsStamped' /\ PreordersOwned'
  BY DEF VisitsStamped, Door!VisitStamped, PreordersOwned
<1>4. RowsUsed' /\ Door!PreorderAtOwnTable' /\ OneOpenOrder'
  BY DEF RowsUsed, Door!PreorderAtOwnTable, OneOpenOrder, Door!OpenOrders
<1> QED
  BY <1>1, <1>2, <1>3, <1>4

\* Every step of the hosts, the guests, the till and the kitchen keeps both.
LEMMA NextInv ==
  ASSUME Inv, Next
  PROVE  Inv'
<1>1. Door!ReservationsAssumption /\ Pass!KitchenAssumption /\ DoorInv /\ PassInv
  BY FrontOfHouseAssumption DEF Inv
<1>2. CASE Door!AtTheDoor /\ UNCHANGED pass
  <2>1. PassInv'
    BY <1>1, <1>2, PassStutters
  <2>2. ASSUME NEW b \in Bookings, Door!CreateReservation(b)
        PROVE  DoorInv'
    BY <1>1, <2>2, CreateReservationInv
  <2>3. ASSUME NEW h \in Hosts,
               \/ Door!CallBooking(h) \/ Door!PatchBooking(h) \/ Door!CallQueue(h)
               \/ Door!PatchQueue(h) \/ Door!CallSeat(h) \/ Door!SeatQueueEntry(h)
        PROVE  DoorInv'
    BY <1>1, <2>3, CallBookingInv, PatchBookingInv, CallQueueInv, PatchQueueInv, CallOrderInv,
       SeatQueueEntryInv
  <2>4. ASSUME NEW g \in Guests,
               \/ Door!CallJoin(g) \/ Door!JoinQueue(g) \/ Door!CallPreorder(g)
        PROVE  DoorInv'
    BY <1>1, <2>4, CallJoinInv, JoinQueueInv, CallOrderInv
  <2>5. ASSUME NEW c \in Hosts \cup Guests, Door!Rollback(c)
        PROVE  DoorInv'
    BY <1>1, <2>5, DoorRollbackInv
  <2>6. DoorInv'
    BY <1>2, <2>2, <2>3, <2>4, <2>5 DEF Door!AtTheDoor
  <2> QED
    BY <2>1, <2>6 DEF Inv
<1>3. CASE Door!AtTheTill /\ UNCHANGED pass
  BY <1>1, <1>3, EndOrderInv, PassStutters DEF Door!AtTheTill, Inv
<1>4. CASE Preorder
  BY <1>1, <1>4, PreorderInv, AddLineInv DEF Preorder, Inv
<1>5. CASE Sell
  BY <1>1, <1>5, SellAtTableInv, AddLineInv DEF Sell, Inv
<1>6. CASE SellElsewhere
  BY <1>1, <1>6, DoorStutters, AddLineInv DEF SellElsewhere, Inv
<1>7. CASE Void
  BY <1>1, <1>7, DoorStutters, RemoveLineInv DEF Void, Inv
<1>8. CASE Cook
  <2>1. DoorInv'
    BY <1>1, <1>8, DoorStutters DEF Cook
  <2>2. ASSUME NEW c \in Cooks, Pass!Rollback(c)
        PROVE  PassInv'
    BY <1>1, <2>2, EndPatchInv DEF Pass!Rollback
  <2>3. PassInv'
    BY <1>1, <1>8, <2>2, ReadInv, UpdateInv, RecordInv, CommitInv DEF Cook
  <2> QED
    BY <2>1, <2>3 DEF Inv
<1> QED
  BY <1>2, <1>3, <1>4, <1>5, <1>6, <1>7, <1>8 DEF Next

\* The invariant holds in every behaviour.
THEOREM Invariance == Spec => []Inv
<1>1. Inv /\ UNCHANGED vars => Inv'
  BY PassStutters, DoorStutters DEF Inv, vars
<1> QED
  BY <1>1, InitInv, NextInv, PTL DEF Spec

(***************************************************************************)
(* Whatever hosts, guests and cooks do at once, a booking seated, given up *)
(* or completed bears its arrival, a party seated its call and its         *)
(* seating, and a line never a stamp without those before it               *)
(* (patch_reservation_status, patch_queue_status, patch_line_status).      *)
(***************************************************************************)
THEOREM StampsAlwaysInOrder == Spec => []StampsInOrder
<1>1. Inv => StampsInOrder
  BY DEF Inv, DoorInv, PassInv, VisitsStamped, StampsInOrder
<1> QED
  BY <1>1, Invariance, PTL

(***************************************************************************)
(* The numbers counted for the queue rise with arrival, whatever tickets   *)
(* hosts write themselves; a pre-order goes to its own party's table, and  *)
(* no table has two open bills from one (join_queue, _next_queue_no,       *)
(* add_queue_preorder_line, seat_queue_entry).                             *)
(***************************************************************************)
THEOREM QueueAlwaysKept == Spec => []QueueKept
<1>1. ASSUME DoorInv, NEW s \in Seatings
      PROVE  Door!Cardinality(Door!OpenOrders(s)) <= 1
  <2>1. \A o, p \in Door!OpenOrders(s) : o = p
    BY <1>1 DEF DoorInv, OneOpenOrder
  <2>2. CASE Door!OpenOrders(s) = {}
    BY <2>2, FS_EmptySet, CardinalityIs
  <2>3. CASE Door!OpenOrders(s) # {}
    <3>1. PICK o : Door!OpenOrders(s) = {o}
      BY <2>1, <2>3
    <3>2. Cardinality({o}) = 1
      BY FS_Singleton
    <3> QED
      BY <3>1, <3>2, CardinalityIs
  <2> QED
    BY <2>2, <2>3
<1>2. ASSUME DoorInv
      PROVE  Door!NumbersRise
  BY <1>2 DEF DoorInv, NumbersAbove, Door!NumbersRise, Door!Counted, Door!Joined
<1>3. Inv => QueueKept
  BY <1>1, <1>2 DEF Inv, DoorInv, QueueKept, Door!OneBillPerTable
<1> QED
  BY <1>3, Invariance, PTL

(***************************************************************************)
(* The event with the highest number about a line tells its status, unless *)
(* the line is gone: the row is locked from the update to the commit, and  *)
(* the number is drawn in between (patch_line_status, record_event).       *)
(***************************************************************************)
THEOREM NewestEventAlwaysTells == Spec => []NewestEventTells
<1>1. Inv => NewestEventTells
  BY DEF Inv, PassInv, NewestEventTells
<1> QED
  BY <1>1, Invariance, PTL

=============================================================================
