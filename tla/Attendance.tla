----------------------------- MODULE Attendance -----------------------------
(***************************************************************************)
(* Clocking in and out.                                                    *)
(*   services/clock_service.py      clock_in, clock_out                    *)
(*   services/holiday_calendar.py   is_holiday                             *)
(* Both handlers look for the employee's open row without a lock, and no   *)
(* index limits an employee to one.  A row bears the name of the request   *)
(* that inserted it.  Callers may give the time themselves.                *)
(***************************************************************************)
EXTENDS LaborHours, FiniteSets, Turns

CONSTANTS
  Requests,   \* HTTP requests
  Busy,       \* bound: requests in flight at once
  Employees,
  Ins, Outs,  \* bound: the instants of clocking in and out
  Holidays,   \* days in Taipei: the calendar's, and Saturdays and Sundays
  None

\* What the constants are: StoreDay assumes it.
AttendanceAssumption ==
  /\ None \notin Requests \cup Employees /\ Busy \in Nat \ {0}
  /\ Ins \subseteq Nat /\ Outs \subseteq Nat \ {0}
  /\ \A t \in Ins : t >= 8 * Hour

VARIABLES
  row,    \* time_clocks; out = 0 while the row is open
  punch,  \* the requests
  outs,   \* history: the clock-outs that were written to each row
  before  \* history: see Turns

vars == <<row, punch, outs, before>>

Cents == 0 .. 2400
WorkedHours == [Buckets -> Cents]
Row == [employee : Employees \cup {None}, in : Ins \cup {0}, out : Outs \cup {0},
        hours : WorkedHours]

\* at is the time of the punch; row and hours are what a clock-out found and computed.
Punch == [op : {"in", "out", None}, employee : Employees \cup {None}, at : Ins \cup Outs \cup {0},
          step : {"new", "begun", "ready", "done"}, row : Requests \cup {None}, hours : WorkedHours]

NoHours == [b \in Buckets |-> 0]
NoPunch == [op |-> None, employee |-> None, at |-> 0, step |-> "new", row |-> None,
            hours |-> NoHours]

Init ==
  /\ row = [r \in Requests |-> [employee |-> None, in |-> 0, out |-> 0, hours |-> NoHours]]
  /\ punch = [r \in Requests |-> NoPunch]
  /\ outs = [r \in Requests |-> {}]
  /\ before = [r \in Requests |-> {}]
-----------------------------------------------------------------------------
OpenRows(e) == {q \in Requests : row[q].employee = e /\ row[q].out = 0}

\* _find_open_clock: an open row of the latest clock-in.
LatestOpen(e) == {q \in OpenRows(e) : \A p \in OpenRows(e) : row[p].in <= row[q].in}

InFlight == {r \in Requests : punch[r].step \in {"begun", "ready"}}

Begin(r) ==
  /\ punch[r].step = "new" /\ Cardinality(InFlight) < Busy
  /\ \E e \in Employees : \E op \in {"in", "out"} : \E t \in IF op = "in" THEN Ins ELSE Outs :
       punch' = [punch EXCEPT ![r] = [@ EXCEPT !.op = op, !.employee = e, !.at = t,
                                               !.step = "begun"]]
  /\ before' = [before EXCEPT ![r] = {q \in Requests : punch[q].step = "done"}]
  /\ UNCHANGED <<row, outs>>

\* Slip: only the rows of the same time stop a second clock-in.
NotTwice(p) == \A q \in OpenRows(p.employee) : row[q].in # p.at

\* An employee who is in cannot clock in.
NotIn(p) == OpenRows(p.employee) = {}

EnterIn(r) ==
  /\ punch[r].step = "begun" /\ punch[r].op = "in" /\ NotIn(punch[r])
  /\ punch' = [punch EXCEPT ![r].step = "ready"]
  /\ UNCHANGED <<row, outs, before>>

\* is_holiday is asked for the day in Taipei; classify_hours is told of one in UTC.
EnterOut(r) ==
  /\ punch[r].step = "begun" /\ punch[r].op = "out"
  /\ \E q \in LatestOpen(punch[r].employee) :
       LET in == row[q].in
           dates == HolidayDates(in, TaipeiDay(in) \in Holidays)
       IN  /\ ~ Refused(in, punch[r].at, dates)
           /\ punch' = [punch EXCEPT ![r].step = "ready", ![r].row = q,
                                     ![r].hours = Classify(in, punch[r].at, dates)]
  /\ UNCHANGED <<row, outs, before>>

Ends(r) == punch' = [punch EXCEPT ![r] = [NoPunch EXCEPT !.step = "done"]]

CommitIn(r) ==
  LET p == punch[r]
  IN  /\ p.step = "ready" /\ p.op = "in"
      /\ row' = [row EXCEPT ![r] = [employee |-> p.employee, in |-> p.at, out |-> 0,
                                    hours |-> NoHours]]
      /\ Ends(r) /\ UNCHANGED <<outs, before>>

\* The UPDATE has the columns that changed: a bucket that was 0 and stays 0 is not in it.
CommitOut(r) ==
  LET p == punch[r]
      written == [b \in Buckets |-> IF p.hours[b] = 0 THEN row[p.row].hours[b] ELSE p.hours[b]]
  IN  /\ p.step = "ready" /\ p.op = "out"
      /\ row' = [row EXCEPT ![p.row].out = p.at, ![p.row].hours = written]
      /\ outs' = [outs EXCEPT ![p.row] = @ \cup {r}]
      /\ Ends(r) /\ UNCHANGED before

\* A check that fails, an error or a lost connection.
Rollback(r) ==
  /\ r \in InFlight
  /\ Ends(r) /\ UNCHANGED <<row, outs, before>>

Next ==
  \E r \in Requests : \/ Begin(r) \/ EnterIn(r) \/ EnterOut(r)
                      \/ CommitIn(r) \/ CommitOut(r) \/ Rollback(r)

Spec == Init /\ [][Next]_vars
-----------------------------------------------------------------------------
TypeOK ==
  /\ row \in [Requests -> Row] /\ punch \in [Requests -> Punch]
  /\ outs \in [Requests -> SUBSET Requests] /\ before \in [Requests -> SUBSET Requests]

(***************************************************************************)
(* An employee is in once: two open rows are of clock-ins that overlapped. *)
(***************************************************************************)
InOnce ==
  \A e \in Employees : \A p, q \in OpenRows(e) : p # q => Overlap(before, p, q)

(***************************************************************************)
(* The hours of a row add up to its length, unless two clock-outs of it    *)
(* overlapped: their buckets then mix.                                     *)
(***************************************************************************)
HoursAddUp ==
  \A q \in Requests :
    row[q].out > 0 => \/ 2 * Total(row[q].hours) = row[q].out - row[q].in
                      \/ \E r, s \in outs[q] : r # s /\ Overlap(before, r, s)

(***************************************************************************)
(* A shift that starts on a holiday is a holiday's from end to end: "the   *)
(* whole block" goes by the day of the clock-in in Taipei, and every hour  *)
(* of it into holiday_hours (services/clock_service.py).                   *)
(***************************************************************************)
HolidayPaid ==
  \A q \in Requests :
    row[q].out > 0 /\ TaipeiDay(row[q].in) \in Holidays =>
      \/ row[q].hours.holiday = Total(row[q].hours)
      \/ \E r, s \in outs[q] : r # s
=============================================================================
