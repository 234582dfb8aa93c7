------------------------------ MODULE Kitchen ------------------------------
(***************************************************************************)
(* The kitchen display: order lines routed to a station, the cooks who     *)
(* advance them, and the events that tell the screens.                     *)
(*   services/kitchen_service.py    list_queue, patch_line_status          *)
(*   schemas/kitchen.py             KITCHEN_TRANSITIONS                    *)
(*   services/event_hub.py          record_event                           *)
(* A line is read without a lock and its new status decided on what was    *)
(* read; the UPDATE takes the row lock until the commit, and the event is  *)
(* numbered after it, inside the same transaction.                         *)
(***************************************************************************)
EXTENDS Integers, Sequences, FiniteSets, SequencesExt

CONSTANTS
  Lines,   \* order_lines that may be sold
  Cooks,   \* concurrent requests to the kitchen endpoints
  Limit,   \* rows list_queue returns (200: the page asks for no other number)
  MaxSeq,  \* bound: events recorded, those rolled back included
  None

KitchenStatus == {"queued", "cooking", "ready", "served", "cancelled"}
Transitions ==
  [queued |-> {"cooking", "cancelled"}, cooking |-> {"ready", "cancelled"},
   ready |-> {"served", "cancelled"}, served |-> {}, cancelled |-> {}]

\* The statuses whose entry is stamped: cooking_started_at, ready_at, served_at.
Stamped == {"cooking", "ready", "served"}
Lanes == {"queued", "cooking", "ready"}

\* What the constants are: FrontOfHouse assumes it.
KitchenAssumption ==
  /\ None \notin Lines \cup Cooks \cup KitchenStatus \cup {"off", "gone"}
  /\ Limit \in Nat \ {0} /\ MaxSeq \in Nat

VARIABLES
  line,    \* order_lines: kitchen_status and the stamps that are set
  sent,    \* the routed lines in the order of sent_to_kitchen_at
  newest,  \* of each line, its committed kitchen.status_changed event with the highest seq
  seq,     \* the last order_events.seq given out
  patch    \* the cooks' transactions

vars == <<line, sent, newest, seq, patch>>

\* None: not sold yet; "off": kitchen_station is NULL; "gone": the row was deleted.
Line == [status : KitchenStatus \cup {"off", "gone", None}, stamps : SUBSET Stamped]
Event == [seq : 0 .. MaxSeq, status : KitchenStatus \cup {None}]

\* Slip: the event is recorded before the line is flushed.
RecordFirst == <<"record", "update">>

\* The statements of patch_line_status after its read.
Statements == <<"update", "record">>

\* at is the number of statements run, seq that of the event recorded.
Patch == [line : Lines \cup {None}, to : KitchenStatus \cup {None}, at : 0 .. 2, seq : 0 .. MaxSeq]
Idle == [line |-> None, to |-> None, at |-> 0, seq |-> 0]

Init ==
  /\ line = [l \in Lines |-> [status |-> None, stamps |-> {}]]
  /\ sent = <<>>
  /\ newest = [l \in Lines |-> [seq |-> 0, status |-> None]]
  /\ seq = 0
  /\ patch = [c \in Cooks |-> Idle]
-----------------------------------------------------------------------------
\* list_queue as the page calls it: the lines of the store, oldest first.
Listed == {sent[i] : i \in 1 .. (IF Len(sent) < Limit THEN Len(sent) ELSE Limit)}

\* The cooks whose uncommitted UPDATE holds the row of l.
Holders(l) ==
  {c \in Cooks : patch[c].line = l /\ \E i \in 1 .. patch[c].at : Statements[i] = "update"}

\* A line is sold (_add_line_with_movement); a line without a station skips the display.
AddLine(l, routed) ==
  /\ line[l].status = None
  /\ line' = [line EXCEPT ![l].status = IF routed THEN "queued" ELSE "off"]
  /\ sent' = IF routed THEN Append(sent, l) ELSE sent
  /\ UNCHANGED <<newest, seq, patch>>

\* A line is voided at the till; its DELETE waits for the row.
RemoveLine(l) ==
  /\ line[l].status \notin {None, "gone"} /\ Holders(l) = {}
  /\ line' = [line EXCEPT ![l] = [status |-> "gone", stamps |-> {}]]
  /\ sent' = SelectSeq(sent, LAMBDA m : m # l)
  /\ UNCHANGED <<newest, seq, patch>>

\* Slip: any status may follow any other.
Unchecked(was) == KitchenStatus \ {was}

\* _check_transition.
Allowed(was) == Transitions[was]

\* The read of the line and the check of the transition.
Read(c) ==
  /\ patch[c] = Idle
  /\ \E l \in Lines : \E to \in KitchenStatus :
       /\ line[l].status \in KitchenStatus /\ to \in Allowed(line[l].status)
       /\ patch' = [patch EXCEPT ![c] = [Idle EXCEPT !.line = l, !.to = to]]
  /\ UNCHANGED <<line, sent, newest, seq>>

Upcoming(c, statement) ==
  patch[c].line # None /\ patch[c].at < Len(Statements) /\ Statements[patch[c].at + 1] = statement

\* The flush: it waits for the row, and fails if the row is gone.
Update(c) ==
  /\ Upcoming(c, "update")
  /\ Holders(patch[c].line) = {}
  /\ patch' = IF line[patch[c].line].status = "gone"
                THEN [patch EXCEPT ![c] = Idle] ELSE [patch EXCEPT ![c].at = @ + 1]
  /\ UNCHANGED <<line, sent, newest, seq>>

\* record_event: the INSERT draws the next number.
Record(c) ==
  /\ Upcoming(c, "record") /\ seq < MaxSeq
  /\ seq' = seq + 1
  /\ patch' = [patch EXCEPT ![c].at = @ + 1, ![c].seq = seq + 1]
  /\ UNCHANGED <<line, sent, newest>>

\* The commit: of the row, the columns that changed.
Commit(c) ==
  LET p == patch[c]
  IN  /\ p.line # None /\ p.at = Len(Statements)
      /\ line' = [line EXCEPT ![p.line] =
                    [status |-> p.to, stamps |-> @.stamps \cup ({p.to} \cap Stamped)]]
      /\ newest' = IF p.seq > newest[p.line].seq
                     THEN [newest EXCEPT ![p.line] = [seq |-> p.seq, status |-> p.to]] ELSE newest
      /\ patch' = [patch EXCEPT ![c] = Idle]
      /\ UNCHANGED <<sent, seq>>

Rollback(c) ==
  /\ patch[c] # Idle
  /\ patch' = [patch EXCEPT ![c] = Idle]
  /\ UNCHANGED <<line, sent, newest, seq>>

\* Lines are sold and voided elsewhere; here any line may be, at any moment.
Next ==
  \/ \E l \in Lines, routed \in BOOLEAN : AddLine(l, routed)
  \/ \E l \in Lines : RemoveLine(l)
  \/ \E c \in Cooks : Read(c) \/ Update(c) \/ Record(c) \/ Commit(c) \/ Rollback(c)

Spec == Init /\ [][Next]_vars
-----------------------------------------------------------------------------
TypeOK ==
  /\ line \in [Lines -> Line] /\ newest \in [Lines -> Event]
  /\ sent \in Seq(Lines) /\ IsInjective(sent)
  /\ seq \in 0 .. MaxSeq /\ patch \in [Cooks -> Patch]

(***************************************************************************)
(* A dish that is on the table was ready and was cooked: whatever two      *)
(* cooks tap at once, ready_at is never without cooking_started_at nor     *)
(* served_at without ready_at, so that no waiting time has an open end.    *)
(***************************************************************************)
StampsFollow ==
  \A l \in Lines : /\ "served" \in line[l].stamps => "ready" \in line[l].stamps
                   /\ "ready" \in line[l].stamps => "cooking" \in line[l].stamps

(***************************************************************************)
(* The last word of the stream about a line is its status: a screen that   *)
(* has replayed all events never shows what a later commit overwrote.      *)
(***************************************************************************)
NewestEventTells ==
  \A l \in Lines :
    newest[l].seq > 0 => line[l].status \in {newest[l].status, "gone"}

(***************************************************************************)
(* The board shows all there is to cook and to serve while that fits on it *)
(* ("KDS board: three-lane flow", which a line leaves when it is served,   *)
(* kds_static/index.html:73).                                              *)
(***************************************************************************)
AtWork == {l \in Lines : line[l].status \in Lanes}
BoardShowsWork == Cardinality(AtWork) <= Limit => AtWork \subseteq Listed
=============================================================================
