-------------------------- MODULE StoreDay_proofs --------------------------
(***************************************************************************)
(* Theorems about StoreDay, part by part: any number of requests, of which *)
(* any number is under way, and any rows.                                  *)
(***************************************************************************)
EXTENDS StoreDay, Sums, TLAPS

-----------------------------------------------------------------------------
(***************************************************************************)
(* The hours of a shift.  A tick is half the hundredth of an hour to which *)
(* each bucket is rounded, so what is clocked at whole hundredths adds up. *)
(***************************************************************************)
Whole(t) == t % 2 = 0

\* Every punch is at a whole hundredth of an hour.
PunchesWhole == \A t \in Ins \cup Outs : Whole(t)

\* Hours that are those of a shift, each of the four buckets rounded up by at most a tick.
Rounded(hours, in, out) ==
  /\ 2 * Clock!Total(hours) - (out - in) \in 0 .. 4
  /\ PunchesWhole => 2 * Clock!Total(hours) = out - in

\* The cut at midnight loses nothing.
LEMMA SegmentsAddUp ==
  ASSUME NEW in \in Nat, NEW out \in Nat, NEW s, s = Clock!Segments(in, out)
  PROVE  /\ s[1].length \in Int /\ s[2].length \in Int
         /\ s[1].length + s[2].length = out - in
         /\ Whole(in) /\ Whole(out) => Whole(s[1].length) /\ Whole(s[2].length)
<1> DEFINE cut == IF Clock!TaipeiDay(in) = Clock!TaipeiDay(out) THEN out
                  ELSE Clock!TaipeiDay(out) * Clock!Day
<1>1. cut \in Int /\ (Whole(out) => cut % 2 = 0)
  BY DEF Whole, Clock!TaipeiDay, Clock!Day, Clock!Hour
<1>2. s = <<[day |-> Clock!TaipeiDay(in), length |-> cut - in],
            [day |-> Clock!TaipeiDay(out), length |-> out - cut]>>
  BY DEF Clock!Segments
<1> HIDE DEF cut
<1>3. s[1].length = cut - in /\ s[2].length = out - cut
  BY <1>2
<1> QED
  BY <1>1, <1>3 DEF Whole

\* The buckets of a day hold all of its hours, up to the ceiling of a working day.
LEMMA BucketsAddUp ==
  ASSUME NEW length \in Int, NEW f,
         f = Clock!HolidayRate(length) \/ f = Clock!Weekday(length)
  PROVE  /\ \A b \in Clock!Buckets : f[b] \in Int /\ (Whole(length) => Whole(f[b]))
         /\ f = Clock!HolidayRate(length) \/ length <= Clock!Ceiling =>
              f["regular"] + f["tier1"] + f["tier2"] + f["holiday"] = length
<1>1. CASE f = Clock!HolidayRate(length)
  BY <1>1 DEF Clock!HolidayRate, Clock!Buckets, Whole
<1>2. CASE f = Clock!Weekday(length)
  <2>1. \A b \in Clock!Buckets : f[b] \in Int /\ (Whole(length) => Whole(f[b]))
    BY <1>2 DEF Clock!Weekday, Clock!Buckets, Whole, Clock!Smaller, Clock!RegularCap,
       Clock!TierCap, Clock!Hour
  <2>2. length <= Clock!Ceiling => f["regular"] + f["tier1"] + f["tier2"] + f["holiday"] = length
    BY <1>2 DEF Clock!Weekday, Clock!Smaller, Clock!RegularCap, Clock!TierCap, Clock!Ceiling,
       Clock!Hour
  <2> QED
    BY <1>1, <2>1, <2>2
<1> QED
  BY <1>1, <1>2

\* The buckets of a shift that is not refused add up to its length, but for the rounding.
LEMMA ShiftAddsUp ==
  ASSUME NEW in \in Nat, NEW out \in Nat, NEW holidays, ~ Clock!Refused(in, out, holidays)
  PROVE  /\ Clock!Classify(in, out, holidays) \in [Clock!Buckets -> Int]
         /\ 2 * Clock!Total(Clock!Classify(in, out, holidays)) - (out - in) \in 0 .. 4
         /\ Whole(in) /\ Whole(out) =>
              2 * Clock!Total(Clock!Classify(in, out, holidays)) = out - in
<1>1. PICK s : s = Clock!Segments(in, out)
  OBVIOUS
<1> DEFINE f(i) == IF s[i].day \in holidays THEN Clock!HolidayRate(s[i].length)
                   ELSE Clock!Weekday(s[i].length)
<1>2. PICK part1, part2 : part1 = f(1) /\ part2 = f(2)
  OBVIOUS
<1>3. \A i \in {1, 2} : s[i].day \notin holidays => ~(s[i].length > Clock!Ceiling)
  BY <1>1 DEF Clock!Refused
<1>4. /\ s[1].length \in Int /\ s[2].length \in Int
      /\ s[1].length + s[2].length = out - in
      /\ Whole(in) /\ Whole(out) => Whole(s[1].length) /\ Whole(s[2].length)
  BY <1>1, SegmentsAddUp
<1>5. Clock!Ceiling \in Int
  BY DEF Clock!Ceiling, Clock!Hour
<1>6. /\ \A b \in Clock!Buckets : part1[b] \in Int /\ (Whole(s[1].length) => Whole(part1[b]))
      /\ part1["regular"] + part1["tier1"] + part1["tier2"] + part1["holiday"] = s[1].length
  <2>1. \/ part1 = Clock!HolidayRate(s[1].length)
        \/ part1 = Clock!Weekday(s[1].length) /\ s[1].length <= Clock!Ceiling
    BY <1>2, <1>3, <1>4, <1>5
  <2> QED
    BY <1>4, <2>1, BucketsAddUp, Zenon
<1>7. /\ \A b \in Clock!Buckets : part2[b] \in Int /\ (Whole(s[2].length) => Whole(part2[b]))
      /\ part2["regular"] + part2["tier1"] + part2["tier2"] + part2["holiday"] = s[2].length
  <2>1. \/ part2 = Clock!HolidayRate(s[2].length)
        \/ part2 = Clock!Weekday(s[2].length) /\ s[2].length <= Clock!Ceiling
    BY <1>2, <1>3, <1>4, <1>5
  <2> QED
    BY <1>4, <2>1, BucketsAddUp, Zenon
<1>8. PICK h : /\ h = Clock!Classify(in, out, holidays)
               /\ h = [b \in Clock!Buckets |-> Clock!RoundHalfUp(part1[b] + part2[b])]
  BY <1>1, <1>2 DEF Clock!Classify
<1>9. \A b \in Clock!Buckets :
        /\ h[b] \in Int /\ 2 * h[b] - (part1[b] + part2[b]) \in 0 .. 1
        /\ Whole(part1[b]) /\ Whole(part2[b]) => 2 * h[b] = part1[b] + part2[b]
  <2> TAKE b \in Clock!Buckets
  <2>1. PICK x, y : x = part1[b] /\ y = part2[b] /\ x \in Int /\ y \in Int
    BY <1>6, <1>7
  <2>2. h[b] = (x + y + 1) \div 2
    BY <1>8, <2>1 DEF Clock!RoundHalfUp
  <2>3. /\ (x + y + 1) \div 2 \in Int
        /\ 2 * ((x + y + 1) \div 2) - (x + y) \in 0 .. 1
        /\ Whole(x) /\ Whole(y) => 2 * ((x + y + 1) \div 2) = x + y
    BY <2>1 DEF Whole
  <2> QED
    BY <2>1, <2>2, <2>3
<1>10. h["regular"] + h["tier1"] + h["tier2"] + h["holiday"] = Clock!Total(h)
  BY DEF Clock!Total
<1>11. ASSUME Whole(in), Whole(out) PROVE 2 * Clock!Total(h) = s[1].length + s[2].length
  <2>1. /\ "regular" \in Clock!Buckets /\ "tier1" \in Clock!Buckets
        /\ "tier2" \in Clock!Buckets /\ "holiday" \in Clock!Buckets
    BY DEF Clock!Buckets
  <2>2. \A b \in Clock!Buckets : /\ part1[b] \in Int /\ part2[b] \in Int /\ h[b] \in Int
                                 /\ 2 * h[b] = part1[b] + part2[b]
    BY <1>4, <1>6, <1>7, <1>9, <1>11
  <2> QED
    BY <1>6, <1>7, <1>10, <2>1, <2>2
<1>12. 2 * Clock!Total(h) - (s[1].length + s[2].length) \in 0 .. 4
  <2>1. /\ "regular" \in Clock!Buckets /\ "tier1" \in Clock!Buckets
        /\ "tier2" \in Clock!Buckets /\ "holiday" \in Clock!Buckets
    BY DEF Clock!Buckets
  <2>2. \A b \in Clock!Buckets : /\ part1[b] \in Int /\ part2[b] \in Int /\ h[b] \in Int
                                 /\ 2 * h[b] - (part1[b] + part2[b]) \in 0 .. 1
    BY <1>4, <1>6, <1>7, <1>9
  <2> QED
    BY <1>6, <1>7, <1>10, <2>1, <2>2
<1> QED
  BY <1>4, <1>8, <1>9, <1>11, <1>12

-----------------------------------------------------------------------------
(***************************************************************************)
(* The clock.  What a punch looked for before its write, and whether it    *)
(* holds still.                                                            *)
(***************************************************************************)
BucketHours == [Clock!Buckets -> Int]
ShiftRow == [employee : Employees \cup {None}, in : Ins \cup {0}, out : Outs \cup {0},
             hours : BucketHours]
PunchCall == [op : {"in", "out", None}, employee : Employees \cup {None},
              at : Ins \cup Outs \cup {0}, step : {"new", "begun", "ready", "done"},
              row : Requests \cup {None}, hours : BucketHours]

ClockTypes ==
  /\ row \in [Requests -> ShiftRow] /\ punch \in [Requests -> PunchCall]
  /\ outs \in [Requests -> SUBSET Requests] /\ clockBefore \in [Requests -> SUBSET Requests]

\* Who had ended when a request began has ended still.
ClockBegan == \A r \in Requests : \A q \in clockBefore[r] : punch[q].step = "done"

\* Of those who had ended before it began, none is in when a clock-in is about to commit; the
\* row a clock-out found was written by none of them, and its hours are of that row.
PunchesFollow ==
  \A r \in Requests :
    LET p == punch[r]
    IN  /\ p.step \in {"begun", "ready"} =>
             /\ p.employee \in Employees
             /\ (p.op = "in" /\ p.at \in Ins) \/ (p.op = "out" /\ p.at \in Outs)
        /\ p.step = "ready" /\ p.op = "in" =>
             \A q \in clockBefore[r] : ~ (row[q].employee = p.employee /\ row[q].out = 0)
        /\ p.step = "ready" /\ p.op = "out" =>
             /\ p.row \in Requests /\ row[p.row].employee # None
             /\ Rounded(p.hours, row[p.row].in, p.at)
             /\ \A q \in outs[p.row] : q \notin clockBefore[r]

\* Rows and clock-outs are of requests that have ended; an open row has no hours.
RowsWritten ==
  \A q \in Requests :
    /\ row[q].employee # None => punch[q].step = "done"
    /\ row[q].out = 0 => row[q].hours = Clock!NoHours /\ outs[q] = {}
    /\ row[q].out > 0 => outs[q] # {} /\ row[q].employee # None
    /\ \A r \in outs[q] : punch[r].step = "done"

\* The hours of a row are those of its length, unless two clock-outs of it overlapped.
HoursRounded ==
  \A q \in Requests :
    row[q].out > 0 => \/ Rounded(row[q].hours, row[q].in, row[q].out)
                      \/ \E r, s \in outs[q] : r # s /\ Clock!Overlap(clockBefore, r, s)

ClockInv ==
  /\ ClockTypes /\ ClockBegan /\ PunchesFollow /\ RowsWritten
  /\ Clock!InOnce /\ HoursRounded

\* A request that has not ended is in the past of none.
LEMMA ClockUnended ==
  ASSUME ClockBegan, NEW r \in Requests, punch[r].step # "done"
  PROVE  \A q \in Requests : r \notin clockBefore[q]
  BY DEF ClockBegan

\* A request begins.
LEMMA ClockBegins ==
  ASSUME StoreDayAssumption, ClockInv, NEW r \in Requests, Clock!Begin(r)
  PROVE  ClockInv'
<1>1. PICK e \in Employees, op \in {"in", "out"}, t \in Ins \cup Outs :
        /\ (op = "in" /\ t \in Ins) \/ (op = "out" /\ t \in Outs)
        /\ punch' = [punch EXCEPT ![r] = [@ EXCEPT !.op = op, !.employee = e, !.at = t,
                                                   !.step = "begun"]]
  BY DEF Clock!Begin
<1>2. /\ punch[r].step = "new" /\ UNCHANGED <<row, outs>>
      /\ clockBefore' = [clockBefore EXCEPT ![r] = {q \in Requests : punch[q].step = "done"}]
  BY DEF Clock!Begin
<1>3. punch[r] \in PunchCall /\ \A q \in Requests : q # r => punch'[q] = punch[q]
  BY <1>1 DEF ClockInv, ClockTypes
<1>4. PICK p : /\ p = punch'[r] /\ p \in PunchCall /\ p.step = "begun" /\ p.op = op
               /\ p.employee = e /\ p.at = t
  <2>1. PICK x : x = punch[r] /\ x \in PunchCall
    BY <1>3
  <2>2. punch'[r] = [x EXCEPT !.op = op, !.employee = e, !.at = t, !.step = "begun"]
    BY <1>1, <2>1 DEF ClockInv, ClockTypes
  <2>3. punch'[r] \in PunchCall
    BY <2>1, <2>2 DEF PunchCall
  <2>4. /\ punch'[r].step = "begun" /\ punch'[r].op = op /\ punch'[r].employee = e
        /\ punch'[r].at = t
    BY <2>1, <2>2 DEF PunchCall
  <2> QED
    BY <2>3, <2>4
<1>5. ClockTypes'
  BY <1>1, <1>2, <1>3, <1>4 DEF ClockInv, ClockTypes
<1>6. \A q \in Requests : punch[q].step = "done" => punch'[q].step = "done"
  BY <1>2, <1>3
<1>7. /\ clockBefore'[r] = {q \in Requests : punch[q].step = "done"}
      /\ \A q \in Requests : q # r => clockBefore'[q] = clockBefore[q]
  BY <1>2 DEF ClockInv, ClockTypes
<1>8. ClockBegan'
  <2> SUFFICES ASSUME NEW s \in Requests, NEW q \in clockBefore'[s] PROVE punch'[q].step = "done"
    BY DEF ClockBegan
  <2>1. q \in Requests /\ punch[q].step = "done"
    BY <1>7 DEF ClockInv, ClockBegan, ClockTypes
  <2> QED
    BY <1>6, <2>1
<1>9. PunchesFollow'
  BY <1>1, <1>2, <1>3, <1>4, <1>7 DEF ClockInv, PunchesFollow
<1>10. RowsWritten'
  <2>1. \A q \in Requests : outs[q] \subseteq Requests
    BY DEF ClockInv, ClockTypes
  <2> QED
    BY <1>2, <1>6, <2>1 DEF ClockInv, RowsWritten
<1>11. Clock!InOnce'
  <2>1. \A q \in Requests : row[q].employee \in Employees => q # r
    BY <1>2 DEF ClockInv, RowsWritten, StoreDayAssumption, Clock!AttendanceAssumption
  <2> QED
    BY <1>2, <1>7, <2>1 DEF ClockInv, Clock!InOnce, Clock!OpenRows, Clock!Overlap
<1>12. HoursRounded'
  <2>1. \A q \in Requests : \A s \in outs[q] : s # r /\ s \in Requests
    BY <1>2 DEF ClockInv, RowsWritten, ClockTypes
  <2> QED
    BY <1>2, <1>7, <2>1 DEF ClockInv, HoursRounded, Clock!Overlap
<1> QED
  BY <1>5, <1>8, <1>9, <1>10, <1>11, <1>12 DEF ClockInv

\* A request finds what it looks for, and no row changes.
LEMMA ClockEnters ==
  ASSUME StoreDayAssumption, ClockInv, NEW r \in Requests, Clock!EnterIn(r) \/ Clock!EnterOut(r)
  PROVE  ClockInv'
<1>1. /\ punch[r].step = "begun" /\ UNCHANGED <<row, outs, clockBefore>>
      /\ punch[r] \in PunchCall
  BY DEF Clock!EnterIn, Clock!EnterOut, ClockInv, ClockTypes
<1>2. PICK p : /\ p = punch'[r] /\ p \in PunchCall /\ p.step = "ready" /\ p.op = punch[r].op
               /\ p.employee = punch[r].employee /\ p.at = punch[r].at
               /\ \A q \in Requests : q # r => punch'[q] = punch[q]
               /\ punch' \in [Requests -> PunchCall]
               /\ p.op = "in" => Clock!OpenRows(p.employee) = {}
               /\ p.op = "out" =>
                    /\ p.row \in Requests /\ row[p.row].employee # None /\ outs[p.row] = {}
                    /\ Rounded(p.hours, row[p.row].in, p.at)
  <2>1. CASE Clock!EnterIn(r)
    <3>1. punch' = [punch EXCEPT ![r].step = "ready"]
      BY <2>1 DEF Clock!EnterIn
    <3>2. PICK f : f = punch /\ f \in [Requests -> PunchCall]
      BY DEF ClockInv, ClockTypes
    <3>3. punch'[r] = [f[r] EXCEPT !.step = "ready"] /\ punch' \in [Requests -> PunchCall]
      BY <3>1, <3>2 DEF PunchCall
    <3>4. \A q \in Requests : q # r => punch'[q] = punch[q]
      BY <3>1, <3>2
    <3>5. punch[r].op = "in" /\ Clock!OpenRows(punch[r].employee) = {}
      BY <2>1 DEF Clock!EnterIn, Clock!NotIn
    <3>6. /\ punch'[r].op = f[r].op /\ punch'[r].employee = f[r].employee
          /\ punch'[r].at = f[r].at /\ punch'[r].step = "ready" /\ punch'[r] \in PunchCall
      BY <3>2, <3>3 DEF PunchCall
    <3> QED
      BY <3>2, <3>3, <3>4, <3>5, <3>6
  <2>2. CASE Clock!EnterOut(r)
    <3>1. PICK q \in Clock!LatestOpen(punch[r].employee) :
            LET in == row[q].in
                dates == Clock!HolidayDates(in, Clock!TaipeiDay(in) \in Holidays)
            IN  /\ ~ Clock!Refused(in, punch[r].at, dates)
                /\ punch' = [punch EXCEPT ![r].step = "ready", ![r].row = q,
                                          ![r].hours = Clock!Classify(in, punch[r].at, dates)]
      BY <2>2 DEF Clock!EnterOut
    <3>2. PICK in, dates, h :
            /\ in = row[q].in /\ ~ Clock!Refused(in, punch[r].at, dates)
            /\ h = Clock!Classify(in, punch[r].at, dates)
            /\ punch' = [punch EXCEPT ![r].step = "ready", ![r].row = q, ![r].hours = h]
      BY <3>1
    <3>3. /\ q \in Requests /\ row[q].employee = punch[r].employee /\ row[q].out = 0
          /\ punch[r].op = "out"
      BY <2>2 DEF Clock!LatestOpen, Clock!OpenRows, Clock!EnterOut
    <3>4. punch[r].employee \in Employees /\ punch[r].at \in Outs
      BY <1>1, <3>3 DEF ClockInv, PunchesFollow
    <3>5. row[q].employee # None /\ outs[q] = {}
      <4>1. row[q].employee # None
        BY <3>3, <3>4 DEF StoreDayAssumption, Clock!AttendanceAssumption
      <4>2. outs[q] = {}
        BY <3>3 DEF ClockInv, RowsWritten
      <4> QED
        BY <4>1, <4>2
    <3>6. /\ h \in BucketHours /\ in \in Nat
          /\ Rounded(h, in, punch[r].at)
      <4>1. in \in Ins \cup {0} /\ in \in Nat /\ punch[r].at \in Nat
        BY <3>2, <3>3, <3>4 DEF ClockInv, ClockTypes, ShiftRow, StoreDayAssumption,
           Clock!AttendanceAssumption
      <4>2. PunchesWhole => Whole(in) /\ Whole(punch[r].at)
        BY <3>4, <4>1 DEF PunchesWhole, Whole
      <4> QED
        BY <3>2, <4>1, <4>2, ShiftAddsUp DEF BucketHours, Rounded
    <3>7. PICK f : f = punch /\ f \in [Requests -> PunchCall]
      BY DEF ClockInv, ClockTypes
    <3>8. punch'[r] = [f[r] EXCEPT !.step = "ready", !.row = q, !.hours = h]
      BY <3>2, <3>7
    <3>9. /\ punch'[r].op = f[r].op /\ punch'[r].employee = f[r].employee
          /\ punch'[r].at = f[r].at /\ punch'[r].step = "ready" /\ punch'[r] \in PunchCall
          /\ punch'[r].row = q /\ punch'[r].hours = h
      <4>1. PICK x : x = f[r] /\ x \in PunchCall
        BY <3>7
      <4>2. punch'[r] = [x EXCEPT !.step = "ready", !.row = q, !.hours = h]
        BY <3>8, <4>1
      <4>3. punch'[r] \in PunchCall
        BY <3>3, <3>6, <4>1, <4>2 DEF PunchCall
      <4>4. /\ punch'[r].op = x.op /\ punch'[r].employee = x.employee /\ punch'[r].at = x.at
            /\ punch'[r].step = "ready" /\ punch'[r].row = q /\ punch'[r].hours = h
        BY <4>1, <4>2 DEF PunchCall
      <4> QED
        BY <4>1, <4>3, <4>4
    <3>10. \A s \in Requests : s # r => punch'[s] = punch[s]
      BY <3>2, <3>7
    <3>11. punch' \in [Requests -> PunchCall]
      BY <3>2, <3>7, <3>9, <3>10
    <3>12. /\ punch'[r].row \in Requests /\ row[punch'[r].row].employee # None
           /\ outs[punch'[r].row] = {}
           /\ Rounded(punch'[r].hours, row[punch'[r].row].in, punch'[r].at)
      <4>1. punch'[r].at = punch[r].at
        BY <3>7, <3>9
      <4> QED
        BY <3>2, <3>3, <3>5, <3>6, <3>9, <4>1
    <3>13. punch'[r].op = "out" /\ punch[r].op = "out"
      BY <3>3, <3>7, <3>9
    <3> QED
      BY <3>7, <3>9, <3>10, <3>11, <3>12, <3>13
  <2> QED
    BY <2>1, <2>2
<1>3. ClockTypes'
  BY <1>1, <1>2 DEF ClockInv, ClockTypes
<1>4. \A q \in Requests : punch[q].step = "done" => punch'[q].step = "done"
  BY <1>1, <1>2
<1>5. ClockBegan'
  BY <1>1, <1>4 DEF ClockInv, ClockBegan, ClockTypes
<1>6. PunchesFollow'
  <2>1. /\ p.employee \in Employees
        /\ (p.op = "in" /\ p.at \in Ins) \/ (p.op = "out" /\ p.at \in Outs)
    BY <1>1, <1>2 DEF ClockInv, PunchesFollow
  <2>2. p.op = "in" => \A q \in clockBefore[r] : ~ (row[q].employee = p.employee /\ row[q].out = 0)
    BY <1>2 DEF Clock!OpenRows, ClockInv, ClockTypes
  <2> QED
    BY <1>1, <1>2, <2>1, <2>2 DEF ClockInv, PunchesFollow
<1>7. RowsWritten'
  <2>1. \A q \in Requests : outs[q] \subseteq Requests
    BY DEF ClockInv, ClockTypes
  <2> QED
    BY <1>1, <1>4, <2>1 DEF ClockInv, RowsWritten
<1>8. Clock!InOnce' /\ HoursRounded'
  BY <1>1 DEF ClockInv, Clock!InOnce, HoursRounded, Clock!OpenRows, Clock!Overlap
<1> QED
  BY <1>3, <1>5, <1>6, <1>7, <1>8 DEF ClockInv

\* A request ends: what it leaves is what the others find, of whom none began after it.
LEMMA ClockEnds ==
  ASSUME ClockInv, NEW r \in Requests, punch[r].step \in {"begun", "ready"}, Clock!Ends(r)
  PROVE  /\ punch' \in [Requests -> PunchCall] /\ punch'[r].step = "done"
         /\ \A q \in Requests : q # r => punch'[q] = punch[q]
         /\ \A q \in Requests : punch[q].step = "done" => punch'[q].step = "done"
         /\ \A q \in Requests : r \notin clockBefore[q]
<1>1. PICK p : p = [Clock!NoPunch EXCEPT !.step = "done"] /\ p \in PunchCall /\ p.step = "done"
  <2>1. Clock!NoHours \in BucketHours
    BY DEF Clock!NoHours, BucketHours
  <2>2. PICK x : x = Clock!NoPunch /\ x \in PunchCall
    <3>1. Clock!NoPunch \in PunchCall
      BY <2>1 DEF Clock!NoPunch, PunchCall
    <3> QED
      BY <3>1
  <2>3. PICK p : p = [x EXCEPT !.step = "done"]
    OBVIOUS
  <2>4. p \in PunchCall /\ p.step = "done"
    BY <2>2, <2>3 DEF PunchCall
  <2> QED
    BY <2>2, <2>3, <2>4
<1>2. punch \in [Requests -> PunchCall] /\ punch' = [punch EXCEPT ![r] = p]
  BY <1>1 DEF ClockInv, ClockTypes, Clock!Ends
<1>3. \A q \in Requests : r \notin clockBefore[q]
  BY ClockUnended DEF ClockInv
<1> QED
  BY <1>1, <1>2, <1>3

\* A row is open at 0, or closed at the time of its clock-out.
LEMMA OutIsNat ==
  ASSUME StoreDayAssumption, ClockInv
  PROVE  \A q \in Requests : row[q].out \in Nat
<1> TAKE q \in Requests
<1>1. PICK x : x = row[q] /\ x \in ShiftRow
  BY DEF ClockInv, ClockTypes
<1>2. x.out \in Outs \cup {0}
  BY <1>1 DEF ShiftRow
<1>3. \A t \in Outs : t \in Nat
  BY DEF StoreDayAssumption, Clock!AttendanceAssumption
<1> QED
  BY <1>1, <1>2, <1>3

\* A request ends without a write.
LEMMA ClockRollsBack ==
  ASSUME StoreDayAssumption, ClockInv, NEW r \in Requests, Clock!Rollback(r)
  PROVE  ClockInv'
<1>1. /\ punch[r].step \in {"begun", "ready"} /\ Clock!Ends(r)
      /\ UNCHANGED <<row, outs, clockBefore>>
  BY DEF Clock!Rollback, Clock!InFlight
<1>2. /\ punch' \in [Requests -> PunchCall] /\ punch'[r].step = "done"
      /\ \A q \in Requests : q # r => punch'[q] = punch[q]
      /\ \A q \in Requests : punch[q].step = "done" => punch'[q].step = "done"
  BY <1>1, ClockEnds
<1>3. \A q \in Requests : outs[q] \subseteq Requests /\ clockBefore[q] \subseteq Requests
  BY DEF ClockInv, ClockTypes
<1>4. ClockTypes' /\ ClockBegan'
  BY <1>1, <1>2, <1>3 DEF ClockInv, ClockTypes, ClockBegan
<1>5. PunchesFollow'
  BY <1>1, <1>2 DEF ClockInv, PunchesFollow
<1>6. RowsWritten'
  BY <1>1, <1>2, <1>3 DEF ClockInv, RowsWritten
<1>7. Clock!InOnce' /\ HoursRounded'
  BY <1>1 DEF ClockInv, Clock!InOnce, HoursRounded, Clock!OpenRows, Clock!Overlap
<1> QED
  BY <1>4, <1>5, <1>6, <1>7 DEF ClockInv

\* A clock-in commits: whoever is in with the same employee overlapped it.
LEMMA ClocksIn ==
  ASSUME StoreDayAssumption, ClockInv, NEW r \in Requests, Clock!CommitIn(r)
  PROVE  ClockInv'
<1>1. PICK p : /\ p = punch[r] /\ p.step = "ready" /\ p.op = "in"
               /\ row' = [row EXCEPT ![r] = [employee |-> p.employee, in |-> p.at, out |-> 0,
                                             hours |-> Clock!NoHours]]
               /\ Clock!Ends(r) /\ UNCHANGED <<outs, clockBefore>>
  BY DEF Clock!CommitIn
<1>2. /\ punch' \in [Requests -> PunchCall] /\ punch'[r].step = "done"
      /\ \A q \in Requests : q # r => punch'[q] = punch[q]
      /\ \A q \in Requests : punch[q].step = "done" => punch'[q].step = "done"
      /\ \A q \in Requests : r \notin clockBefore[q]
  BY <1>1, ClockEnds
<1>3. \A q \in Requests : outs[q] \subseteq Requests /\ clockBefore[q] \subseteq Requests
  BY DEF ClockInv, ClockTypes
<1>4. /\ p.employee \in Employees /\ p.at \in Ins
      /\ \A q \in clockBefore[r] : ~ (row[q].employee = p.employee /\ row[q].out = 0)
  BY <1>1 DEF ClockInv, PunchesFollow
<1>5. row[r].employee = None /\ outs[r] = {}
  <2>1. row[r].employee = None
    BY <1>1 DEF ClockInv, RowsWritten
  <2>2. row[r].out \in Nat
    BY OutIsNat
  <2> QED
    BY <2>1, <2>2 DEF ClockInv, RowsWritten
<1>6. PICK n : /\ n = row'[r] /\ n \in ShiftRow /\ n.employee = p.employee /\ n.out = 0
               /\ n.hours = Clock!NoHours
               /\ \A q \in Requests : q # r => row'[q] = row[q]
               /\ row' \in [Requests -> ShiftRow]
  <2>1. Clock!NoHours \in BucketHours
    BY DEF Clock!NoHours, BucketHours
  <2>2. [employee |-> p.employee, in |-> p.at, out |-> 0, hours |-> Clock!NoHours] \in ShiftRow
    BY <1>4, <2>1 DEF ShiftRow
  <2> QED
    BY <1>1, <2>2 DEF ClockInv, ClockTypes
<1>7. ClockTypes' /\ ClockBegan'
  BY <1>1, <1>2, <1>3, <1>6 DEF ClockInv, ClockTypes, ClockBegan
<1>8. PunchesFollow'
  <2> SUFFICES ASSUME NEW s \in Requests, s # r, NEW c, c = punch[s]
               PROVE  /\ c.step \in {"begun", "ready"} =>
                           /\ c.employee \in Employees
                           /\ (c.op = "in" /\ c.at \in Ins) \/ (c.op = "out" /\ c.at \in Outs)
                      /\ c.step = "ready" /\ c.op = "in" =>
                           \A q \in clockBefore[s] :
                             ~ (row'[q].employee = c.employee /\ row'[q].out = 0)
                      /\ c.step = "ready" /\ c.op = "out" =>
                           /\ c.row \in Requests /\ row'[c.row].employee # None
                           /\ Rounded(c.hours, row'[c.row].in, c.at)
                           /\ \A q \in outs[c.row] : q \notin clockBefore[s]
    BY <1>1, <1>2 DEF PunchesFollow
  <2>1. \A q \in clockBefore[s] : row'[q] = row[q]
    BY <1>2, <1>3, <1>6
  <2>2. c.step = "ready" /\ c.op = "out" => c.row # r
    BY <1>5 DEF ClockInv, PunchesFollow
  <2>3. c.step = "ready" /\ c.op = "out" => row'[c.row] = row[c.row] /\ c.row \in Requests
    BY <1>6, <2>2 DEF ClockInv, PunchesFollow
  <2> QED
    BY <2>1, <2>3 DEF ClockInv, PunchesFollow
<1>9. RowsWritten'
  BY <1>1, <1>2, <1>3, <1>5, <1>6 DEF ClockInv, RowsWritten
<1>10. Clock!InOnce'
  <2> SUFFICES ASSUME NEW e \in Employees, NEW x \in Requests, NEW q \in Requests, x # q,
                      row'[x].employee = e, row'[x].out = 0,
                      row'[q].employee = e, row'[q].out = 0
               PROVE  x \notin clockBefore[q] /\ q \notin clockBefore[x]
    BY <1>1 DEF Clock!InOnce, Clock!OpenRows, Clock!Overlap
  <2>1. CASE x # r /\ q # r
    BY <1>6, <2>1 DEF ClockInv, Clock!InOnce, Clock!OpenRows, Clock!Overlap
  <2>2. CASE x = r
    BY <1>2, <1>4, <1>6, <2>2
  <2>3. CASE q = r
    BY <1>2, <1>4, <1>6, <2>3
  <2> QED
    BY <2>1, <2>2, <2>3
<1>11. HoursRounded'
  <2>1. \A q \in Requests : row'[q].out > 0 => row'[q] = row[q]
    BY <1>6
  <2> QED
    BY <1>1, <2>1 DEF ClockInv, HoursRounded, Clock!Overlap
<1> QED
  BY <1>7, <1>8, <1>9, <1>10, <1>11 DEF ClockInv

\* A clock-out commits: to an open row it writes the hours of that row; one that is closed
\* was closed by a clock-out that overlapped it.
LEMMA ClocksOut ==
  ASSUME StoreDayAssumption, ClockInv, NEW r \in Requests, Clock!CommitOut(r)
  PROVE  ClockInv'
<1>1. PICK p, w : /\ p = punch[r] /\ p.step = "ready" /\ p.op = "out"
                  /\ w = [b \in Clock!Buckets |-> IF p.hours[b] = 0 THEN row[p.row].hours[b]
                                                  ELSE p.hours[b]]
                  /\ row' = [row EXCEPT ![p.row].out = p.at, ![p.row].hours = w]
                  /\ outs' = [outs EXCEPT ![p.row] = @ \cup {r}]
                  /\ Clock!Ends(r) /\ UNCHANGED clockBefore
  BY DEF Clock!CommitOut
<1>2. /\ punch' \in [Requests -> PunchCall] /\ punch'[r].step = "done"
      /\ \A q \in Requests : q # r => punch'[q] = punch[q]
      /\ \A q \in Requests : punch[q].step = "done" => punch'[q].step = "done"
      /\ \A q \in Requests : r \notin clockBefore[q]
  BY <1>1, ClockEnds
<1>3. \A q \in Requests : outs[q] \subseteq Requests /\ clockBefore[q] \subseteq Requests
  BY DEF ClockInv, ClockTypes
<1>4. PICK k \in Requests :
        /\ k = p.row /\ row[k].employee # None /\ p.at \in Outs
        /\ Rounded(p.hours, row[k].in, p.at)
        /\ \A q \in outs[k] : q \notin clockBefore[r]
  BY <1>1 DEF ClockInv, PunchesFollow
<1>5. p.hours \in BucketHours /\ row[k] \in ShiftRow /\ row[k].hours \in BucketHours
  BY <1>1 DEF ClockInv, ClockTypes, PunchCall, ShiftRow
<1>6. w \in BucketHours
  BY <1>1, <1>4, <1>5 DEF BucketHours
<1>7. PICK n : /\ n = row'[k] /\ n \in ShiftRow /\ n.employee = row[k].employee
               /\ n.in = row[k].in /\ n.out = p.at /\ n.hours = w
               /\ \A q \in Requests : q # k => row'[q] = row[q]
               /\ row' \in [Requests -> ShiftRow]
  <2>1. PICK f : f = row /\ f \in [Requests -> ShiftRow]
    BY DEF ClockInv, ClockTypes
  <2>2. PICK x : x = f[k] /\ x \in ShiftRow
    BY <2>1
  <2>3. row'[k] = [x EXCEPT !.out = p.at, !.hours = w]
    BY <1>1, <1>4, <2>1, <2>2
  <2>4. /\ row'[k] \in ShiftRow /\ row'[k].employee = x.employee /\ row'[k].in = x.in
        /\ row'[k].out = p.at /\ row'[k].hours = w
    BY <1>4, <1>6, <2>2, <2>3 DEF ShiftRow
  <2>5. \A q \in Requests : q # k => row'[q] = row[q]
    BY <1>1, <1>4, <2>1
  <2>6. row' \in [Requests -> ShiftRow]
    BY <1>1, <2>1, <2>4, <2>5
  <2> QED
    BY <2>1, <2>2, <2>4, <2>5, <2>6
<1>8. /\ p.at \in Nat \ {0}
      /\ outs'[k] = outs[k] \cup {r} /\ \A q \in Requests : q # k => outs'[q] = outs[q]
      /\ outs' \in [Requests -> SUBSET Requests]
  BY <1>1, <1>4 DEF ClockInv, ClockTypes, StoreDayAssumption, Clock!AttendanceAssumption
<1>9. ClockTypes' /\ ClockBegan'
  <2>1. ClockTypes'
    BY <1>1, <1>2, <1>7, <1>8 DEF ClockInv, ClockTypes
  <2>2. ClockBegan'
    BY <1>1, <1>2, <1>3 DEF ClockInv, ClockBegan
  <2> QED
    BY <2>1, <2>2
<1>10. PunchesFollow'
  <2> SUFFICES ASSUME NEW s \in Requests, s # r, NEW c, c = punch[s]
               PROVE  /\ c.step \in {"begun", "ready"} =>
                           /\ c.employee \in Employees
                           /\ (c.op = "in" /\ c.at \in Ins) \/ (c.op = "out" /\ c.at \in Outs)
                      /\ c.step = "ready" /\ c.op = "in" =>
                           \A q \in clockBefore[s] :
                             ~ (row'[q].employee = c.employee /\ row'[q].out = 0)
                      /\ c.step = "ready" /\ c.op = "out" =>
                           /\ c.row \in Requests /\ row'[c.row].employee # None
                           /\ Rounded(c.hours, row'[c.row].in, c.at)
                           /\ \A q \in outs'[c.row] : q \notin clockBefore[s]
    BY <1>1, <1>2 DEF PunchesFollow
  <2>1. \A q \in Requests : /\ row'[q].employee = row[q].employee /\ row'[q].in = row[q].in
                            /\ row'[q].out = 0 => row[q].out = 0
    BY <1>7, <1>8
  <2>2. \A q \in Requests : \A x \in outs'[q] : x \in outs[q] \/ x = r
    BY <1>8
  <2>3. \A q \in clockBefore[s] : q \in Requests /\ q # r
    BY <1>2, <1>3
  <2>4. c.step = "ready" /\ c.op = "out" => c.row \in Requests
    BY DEF ClockInv, PunchesFollow
  <2>5. c.step = "ready" /\ c.op = "out" => \A q \in outs'[c.row] : q \notin clockBefore[s]
    BY <2>2, <2>3, <2>4 DEF ClockInv, PunchesFollow
  <2> QED
    BY <2>1, <2>3, <2>4, <2>5 DEF ClockInv, PunchesFollow
<1>11. RowsWritten'
  <2> SUFFICES ASSUME NEW q \in Requests
               PROVE  /\ row'[q].employee # None => punch'[q].step = "done"
                      /\ row'[q].out = 0 => row'[q].hours = Clock!NoHours /\ outs'[q] = {}
                      /\ row'[q].out > 0 => outs'[q] # {} /\ row'[q].employee # None
                      /\ \A s \in outs'[q] : punch'[s].step = "done"
    BY DEF RowsWritten
  <2>1. CASE q = k
    <3>1. row'[k].out # 0 /\ row'[k].employee # None /\ outs'[k] # {}
      BY <1>4, <1>7, <1>8
    <3>2. punch[k].step = "done" /\ \A s \in outs[k] : punch[s].step = "done"
      BY <1>4 DEF ClockInv, RowsWritten
    <3>3. punch'[k].step = "done" /\ \A s \in outs'[k] : punch'[s].step = "done"
      BY <1>2, <1>3, <1>8, <3>2
    <3> QED
      BY <2>1, <3>1, <3>3
  <2>2. CASE q # k
    BY <1>2, <1>3, <1>7, <1>8, <2>2 DEF ClockInv, RowsWritten
  <2> QED
    BY <2>1, <2>2
<1>12. Clock!InOnce'
  <2> SUFFICES ASSUME NEW e \in Employees, NEW x \in Requests, NEW q \in Requests, x # q,
                      row'[x].employee = e, row'[x].out = 0,
                      row'[q].employee = e, row'[q].out = 0
               PROVE  x \notin clockBefore[q] /\ q \notin clockBefore[x]
    BY <1>1 DEF Clock!InOnce, Clock!OpenRows, Clock!Overlap
  <2>1. row'[x] = row[x] /\ row'[q] = row[q]
    BY <1>7, <1>8
  <2> QED
    BY <2>1 DEF ClockInv, Clock!InOnce, Clock!OpenRows, Clock!Overlap
<1>13. HoursRounded'
  <2> SUFFICES ASSUME NEW q \in Requests, row'[q].out > 0
               PROVE  \/ Rounded(row'[q].hours, row'[q].in, row'[q].out)
                      \/ \E x, s \in outs'[q] : x # s /\ Clock!Overlap(clockBefore, x, s)
    BY <1>1 DEF HoursRounded
  <2>1. CASE q # k
    BY <1>7, <1>8, <2>1 DEF ClockInv, HoursRounded
  <2>2. CASE q = k /\ row[k].out = 0
    <3>1. row[k].hours = Clock!NoHours
      BY <2>2 DEF ClockInv, RowsWritten
    <3>2. w = p.hours
      BY <1>1, <1>4, <1>5, <3>1 DEF BucketHours, Clock!NoHours
    <3> QED
      BY <1>4, <1>7, <2>2, <3>2
  <2>3. CASE q = k /\ row[k].out # 0
    <3>1. row[k].out > 0
      BY <2>3, OutIsNat
    <3>2. PICK x \in outs[k] : punch[x].step = "done" /\ x \in Requests
      BY <1>3, <3>1 DEF ClockInv, RowsWritten
    <3>3. x # r /\ x \notin clockBefore[r] /\ r \notin clockBefore[x]
      BY <1>1, <1>2, <1>4, <3>2
    <3> QED
      BY <1>8, <2>3, <3>2, <3>3 DEF Clock!Overlap
  <2> QED
    BY <2>1, <2>2, <2>3
<1> QED
  BY <1>9, <1>10, <1>11, <1>12, <1>13 DEF ClockInv

-----------------------------------------------------------------------------
\* Only a step at the clock moves the clock.
LEMMA ClockStep ==
  ASSUME StoreDayAssumption, ClockInv, [Next]_vars
  PROVE  ClockInv'
<1>1. CASE UNCHANGED clock
  BY <1>1 DEF clock, ClockInv, ClockTypes, ClockBegan, PunchesFollow, RowsWritten,
     Clock!InOnce, HoursRounded, Clock!OpenRows, Clock!Overlap
<1>2. CASE AtTheClock
  <2>1. PICK r \in Requests :
          \/ Clock!Begin(r) \/ Clock!EnterIn(r) \/ Clock!EnterOut(r)
          \/ Clock!CommitIn(r) \/ Clock!CommitOut(r) \/ Clock!Rollback(r)
    BY <1>2 DEF AtTheClock
  <2> QED
    BY <2>1, ClockBegins, ClockEnters, ClocksIn, ClocksOut, ClockRollsBack
<1> QED
  BY <1>1, <1>2 DEF Next, vars, AtTheTill, OnForms, OnTheMenu, AtTheDesk, InTheBooks

\* It holds at first, when nobody has come.
LEMMA ClockInit ==
  ASSUME StoreDayAssumption, Init
  PROVE  ClockInv
<1>1. Clock!Init
  BY DEF Init
<1>2. Clock!NoHours \in BucketHours
  BY DEF Clock!NoHours, BucketHours
<1>3. [employee |-> None, in |-> 0, out |-> 0, hours |-> Clock!NoHours] \in ShiftRow
  BY <1>2 DEF ShiftRow
<1>4. Clock!NoPunch \in PunchCall /\ Clock!NoPunch.step = "new"
  BY <1>2 DEF Clock!NoPunch, PunchCall
<1>5. ClockTypes
  BY <1>1, <1>3, <1>4 DEF ClockTypes, Clock!Init
<1>6. ClockBegan /\ PunchesFollow /\ RowsWritten
  BY <1>1, <1>4 DEF ClockBegan, PunchesFollow, RowsWritten, Clock!Init
<1>7. Clock!InOnce /\ HoursRounded
  <2>1. None \notin Employees
    BY DEF StoreDayAssumption, Clock!AttendanceAssumption
  <2> QED
    BY <1>1, <2>1 DEF Clock!InOnce, HoursRounded, Clock!OpenRows, Clock!Init
<1> QED
  BY <1>5, <1>6, <1>7 DEF ClockInv

\* Two open rows of an employee are of clock-ins that overlapped.
THEOREM ClockedInOnce ==
  ASSUME StoreDayAssumption
  PROVE  Spec => []Clock!InOnce
<1>1. Init => ClockInv
  BY ClockInit
<1>2. ClockInv /\ [Next]_vars => ClockInv'
  BY ClockStep
<1>3. ClockInv => Clock!InOnce
  BY DEF ClockInv
<1> QED
  BY <1>1, <1>2, <1>3, PTL DEF Spec

\* Neither the classifier nor the clock loses or makes up time: the hours of a closed shift
\* are those between its punches, up to two hundredths of an hour of rounding (half up, each
\* of four buckets for itself), unless two clock-outs of it overlapped.
THEOREM HoursAreThoseOfTheShift ==
  ASSUME StoreDayAssumption
  PROVE  Spec => []HoursRounded
<1>1. Init => ClockInv
  BY ClockInit
<1>2. ClockInv /\ [Next]_vars => ClockInv'
  BY ClockStep
<1>3. ClockInv => HoursRounded
  BY DEF ClockInv
<1> QED
  BY <1>1, <1>2, <1>3, PTL DEF Spec

\* An employee is in once, and the hours of a shift add up to its length, unless punches
\* overlapped; what is punched at whole hundredths of an hour adds up to the last of them.
THEOREM ClockAlwaysInTurn ==
  ASSUME StoreDayAssumption, PunchesWhole
  PROVE  Spec => []ClockInTurn
<1>1. Init => ClockInv
  BY ClockInit
<1>2. ClockInv /\ [Next]_vars => ClockInv'
  BY ClockStep
<1>3. ClockInv => ClockInTurn
  BY DEF ClockInv, ClockInTurn, HoursRounded, Rounded, Clock!HoursAddUp
<1> QED
  BY <1>1, <1>2, <1>3, PTL DEF Spec

-----------------------------------------------------------------------------
(***************************************************************************)
(* The counter.  What a request has looked for or has read off the clock,  *)
(* and what became of it meanwhile.                                        *)
(***************************************************************************)
TillTypes ==
  /\ now \in Till!Times
  /\ order \in [Requests -> Till!Order] /\ payment \in [Requests -> Till!Payment]
  /\ drawer \in [Requests -> Till!Drawer] /\ call \in [Requests -> Till!Call]
  /\ tillBefore \in [Requests -> SUBSET Requests]

\* Who had ended when a request began has ended still.
TillBegan == \A r \in Requests : \A q \in tillBefore[r] : call[q].step = "done"

\* A row is of a request that has ended, and so is the closing of a drawer; what a drawer has
\* counted has been paid.
TillWritten ==
  \A r \in Requests :
    /\ call[r].step # "done" =>
         order[r].status = None /\ payment[r].order = None /\ drawer[r].register = None
    /\ drawer[r].register = None => drawer[r].closed = 0
    /\ drawer[r].counted \subseteq Till!Paid /\ (drawer[r].closed = 0 => drawer[r].counted = {})
    /\ drawer[r].closed > 0 =>
         drawer[r].closer \in Requests /\ call[drawer[r].closer].step = "done"

\* A request under way is about a row that exists.
TargetsThere ==
  \A r \in Requests :
    LET c == call[r]
    IN  c.step \notin {"new", "done"} =>
          /\ c.op \in {"call", "collect", "void"} => c.of \in Requests /\ order[c.of].status # None
          /\ c.op = "close" => c.of \in Requests /\ drawer[c.of].register # None
          /\ c.op = "open" => c.register # None
          /\ c.step = "counting" => c.op = "close"

\* Nobody has read a clock that is ahead.
ClockReached ==
  \A r \in Requests : /\ call[r].at <= now /\ call[r].until <= now
                      /\ payment[r].at <= now /\ drawer[r].closed <= now

\* A paid order is over; a collection under way found none that had been paid before it began.
PaidOrdersAreOver ==
  \A p \in Till!Paid : /\ payment[p].order \in Requests
                       /\ order[payment[p].order].status \in {"closed", "voided"}
CollectsUnpaid ==
  \A r \in Requests : call[r].op = "collect" /\ call[r].step = "ready" =>
    \A p \in Till!Paid : payment[p].order = call[r].of => p \notin tillBefore[r]

\* A count reaches from the opening of its drawer to after all that had been paid when the
\* closing began.
CountsSoFar ==
  \A r \in Requests :
    LET c == call[r]
    IN  /\ c.op = "close" /\ c.step \in {"counting", "ready"} =>
             \A q \in tillBefore[r] \cap Till!Paid : payment[q].at <= c.until
        /\ c.op = "close" /\ c.step = "ready" =>
             /\ c.at > 0 /\ c.seen \subseteq Till!Paid
             /\ \A p \in c.seen : drawer[c.of].opened <= payment[p].at /\ payment[p].at <= c.at
             /\ \A q \in tillBefore[r] \cap Till!Paid :
                  drawer[c.of].opened <= payment[q].at => q \in c.seen

\* What began after a closing reads the clock after it.
ReadsLater ==
  \A d, r \in Requests : drawer[d].closed > 0 /\ drawer[d].closer \in tillBefore[r] =>
    LET c == call[r]
    IN  /\ \/ c.op = "open" /\ c.step \in {"begun", "ready"}
           \/ c.op \in {"sale", "collect"} /\ c.step = "ready"
           => drawer[d].closed < c.at
        /\ drawer[r].register # None => drawer[d].closed < drawer[r].opened

\* e was opened when d was closed already; what closes d then, or again, had begun before.
OpenedAfter(d, e) ==
  /\ drawer[d].closed > 0 /\ e \notin tillBefore[drawer[d].closer]
  /\ \A r \in Requests :
       /\ call[r].op = "close" /\ call[r].of = d /\ call[r].step \in {"counting", "ready"}
       => e \notin tillBefore[r]

DrawersInTurn ==
  \A d, e \in Requests :
    /\ d # e /\ drawer[d].register \notin {None, Unnamed}
    /\ drawer[d].register = drawer[e].register
    => OpenedAfter(d, e) \/ OpenedAfter(e, d)

TillInv ==
  /\ TillTypes /\ TillBegan /\ TillWritten /\ TargetsThere /\ ClockReached
  /\ PaidOrdersAreOver /\ CollectsUnpaid /\ Till!ChargedInTurn
  /\ CountsSoFar /\ ReadsLater /\ DrawersInTurn /\ Till!ShiftCountsItsCash

\* A request that has not ended is in the past of none.
LEMMA TillUnended ==
  ASSUME TillBegan, NEW r \in Requests, call[r].step # "done"
  PROVE  \A q \in Requests : r \notin tillBefore[q]
  BY DEF TillBegan

\* A request goes on to its check, to its count or to its end, and no row changes.
LEMMA TillGoesOn ==
  ASSUME TillInv, NEW r \in Requests, NEW c \in Till!Call, call[r].step \notin {"new", "done"},
         UNCHANGED <<order, payment, drawer, tillBefore>>,
         now' \in Till!Times, now <= now', call' = [call EXCEPT ![r] = c],
         c.at <= now', c.until <= now', c.step \in {"counting", "ready", "done"},
         c.step # "done" => /\ c.op = call[r].op /\ c.of = call[r].of
                            /\ c.register = call[r].register
                            /\ c.step = "counting" => c.op = "close",
         c.op = "collect" /\ c.step = "ready" =>
           \A p \in Till!Paid : payment[p].order = c.of => p \notin tillBefore[r],
         c.op = "close" /\ c.step \in {"counting", "ready"} =>
           /\ \A q \in tillBefore[r] \cap Till!Paid : payment[q].at <= c.until
           /\ call[r].step = "counting" \/ drawer[c.of].closed = 0,
         c.op = "close" /\ c.step = "ready" =>
           /\ c.at > 0 /\ c.seen \subseteq Till!Paid
           /\ \A p \in c.seen : drawer[c.of].opened <= payment[p].at /\ payment[p].at <= c.at
           /\ \A q \in tillBefore[r] \cap Till!Paid :
                drawer[c.of].opened <= payment[q].at => q \in c.seen,
         c.op \in {"sale", "collect", "open"} /\ c.step = "ready" =>
           \A d \in Requests : drawer[d].closed > 0 /\ drawer[d].closer \in tillBefore[r] =>
                                 drawer[d].closed < c.at
  PROVE  TillInv'
<1>1. /\ call' \in [Requests -> Till!Call] /\ call'[r] = c
      /\ \A q \in Requests : q # r => call'[q] = call[q]
  BY DEF TillInv, TillTypes
<1>2. Till!Paid' = Till!Paid
  BY DEF Till!Paid
<1>3. TillTypes'
  BY <1>1 DEF TillInv, TillTypes
<1>4. \A q \in Requests : call[q].step = "done" => call'[q].step = "done"
  BY <1>1
<1>5. TillBegan'
  BY <1>4 DEF TillInv, TillTypes, TillBegan
<1>6. TillWritten'
  BY <1>1, <1>2, <1>4 DEF TillInv, TillWritten
<1>7. TargetsThere'
  BY <1>1 DEF TillInv, TargetsThere
<1>8. ClockReached'
  <2> SUFFICES ASSUME NEW q \in Requests
               PROVE  /\ call'[q].at <= now' /\ call'[q].until <= now'
                      /\ payment[q].at <= now' /\ drawer[q].closed <= now'
    BY DEF ClockReached
  <2>1. /\ call[q].at \in Int /\ call[q].until \in Int /\ payment[q].at \in Int
        /\ drawer[q].closed \in Int /\ now \in Int /\ now' \in Int
    <3>1. /\ call[q] \in Till!Call /\ payment[q] \in Till!Payment /\ drawer[q] \in Till!Drawer
          /\ now \in Till!Times
      BY DEF TillInv, TillTypes
    <3>2. Till!Times \subseteq Int
      BY DEF Till!Times
    <3> QED
      BY <3>1, <3>2 DEF Till!Call, Till!Payment, Till!Drawer
  <2>2. /\ call[q].at <= now /\ call[q].until <= now
        /\ payment[q].at <= now /\ drawer[q].closed <= now
    BY DEF TillInv, ClockReached
  <2> QED
    BY <1>1, <2>1, <2>2
<1>9. PaidOrdersAreOver'
  BY <1>2 DEF TillInv, PaidOrdersAreOver
<1>10. CollectsUnpaid'
  BY <1>1, <1>2 DEF TillInv, CollectsUnpaid
<1>11. Till!ChargedInTurn' /\ Till!ShiftCountsItsCash'
  BY <1>2 DEF TillInv, Till!ChargedInTurn, Till!ShiftCountsItsCash, Till!Overlap
<1>12. CountsSoFar'
  <2> SUFFICES ASSUME NEW s \in Requests, NEW k, k = call'[s]
               PROVE  /\ k.op = "close" /\ k.step \in {"counting", "ready"} =>
                           \A q \in tillBefore[s] \cap Till!Paid : payment[q].at <= k.until
                      /\ k.op = "close" /\ k.step = "ready" =>
                           /\ k.at > 0 /\ k.seen \subseteq Till!Paid
                           /\ \A p \in k.seen : /\ drawer[k.of].opened <= payment[p].at
                                                /\ payment[p].at <= k.at
                           /\ \A q \in tillBefore[s] \cap Till!Paid :
                                drawer[k.of].opened <= payment[q].at => q \in k.seen
    BY <1>2 DEF CountsSoFar
  <2>1. CASE s = r
    BY <1>1, <2>1
  <2>2. CASE s # r
    BY <1>1, <2>2 DEF TillInv, CountsSoFar
  <2> QED
    BY <2>1, <2>2
<1>13. ReadsLater'
  <2> SUFFICES ASSUME NEW d \in Requests, NEW s \in Requests, NEW k, k = call'[s],
                      drawer[d].closed > 0, drawer[d].closer \in tillBefore[s]
               PROVE  /\ \/ k.op = "open" /\ k.step \in {"begun", "ready"}
                         \/ k.op \in {"sale", "collect"} /\ k.step = "ready"
                         => drawer[d].closed < k.at
                      /\ drawer[s].register # None => drawer[d].closed < drawer[s].opened
    BY DEF ReadsLater
  <2>1. CASE s = r
    BY <1>1, <2>1 DEF TillInv, ReadsLater
  <2>2. CASE s # r
    BY <1>1, <2>2 DEF TillInv, ReadsLater
  <2> QED
    BY <2>1, <2>2
<1>14. DrawersInTurn'
  <2>1. ASSUME NEW d \in Requests, NEW e \in Requests, OpenedAfter(d, e)
        PROVE  OpenedAfter(d, e)'
    <3> SUFFICES ASSUME NEW s \in Requests, call'[s].op = "close", call'[s].of = d,
                        call'[s].step \in {"counting", "ready"}
                 PROVE  e \notin tillBefore[s]
      BY <2>1 DEF OpenedAfter
    <3>1. CASE s # r
      BY <1>1, <2>1, <3>1 DEF OpenedAfter
    <3>2. CASE s = r
      <4>1. drawer[d].closed # 0
        BY <2>1 DEF OpenedAfter
      <4>2. call[r].op = "close" /\ call[r].of = d /\ call[r].step = "counting"
        BY <1>1, <3>2, <4>1
      <4> QED
        BY <2>1, <3>2, <4>2 DEF OpenedAfter
    <3> QED
      BY <3>1, <3>2
  <2>2. \A d, e \in Requests : OpenedAfter(d, e) => OpenedAfter(d, e)'
    BY <2>1
  <2> QED
    BY <2>2 DEF TillInv, DrawersInTurn
<1> QED
  BY <1>3, <1>5, <1>6, <1>7, <1>8, <1>9, <1>10, <1>11, <1>12, <1>13, <1>14 DEF TillInv

\* Readings of the clock are numbers.
LEMMA TillTimes ==
  ASSUME StoreDayAssumption, TillInv
  PROVE  /\ Till!Times \subseteq Nat /\ MaxTime \in Nat /\ now \in Nat
         /\ \A t \in Nat : t <= MaxTime => t \in Till!Times
         /\ \A q \in Requests :
              /\ call[q].at \in Till!Times /\ call[q].until \in Till!Times
              /\ payment[q].at \in Till!Times
              /\ drawer[q].closed \in Till!Times /\ drawer[q].opened \in Till!Times
<1>1. MaxTime \in Nat
  BY DEF StoreDayAssumption, Till!CounterAssumption
<1>2. now \in Till!Times
  BY DEF TillInv, TillTypes
<1>3. \A q \in Requests :
        call[q] \in Till!Call /\ payment[q] \in Till!Payment /\ drawer[q] \in Till!Drawer
  BY DEF TillInv, TillTypes
<1>4. Till!Times \subseteq Nat /\ \A t \in Nat : t <= MaxTime => t \in Till!Times
  BY <1>1 DEF Till!Times
<1> QED
  BY <1>1, <1>2, <1>3, <1>4 DEF Till!Call, Till!Payment, Till!Drawer

\* A request finds what it has to find: an order to collect is open, so nobody has paid it.
LEMMA TillEnters ==
  ASSUME StoreDayAssumption, TillInv, NEW r \in Requests, Till!Enter(r)
  PROVE  TillInv'
<1>1. PICK x : x = call[r] /\ x \in Till!Call
  BY DEF TillInv, TillTypes
<1>2. /\ x.step = "begun" /\ Till!Passes(r) /\ now < MaxTime
      /\ UNCHANGED <<order, payment, drawer, tillBefore>>
  BY <1>1 DEF Till!Enter
<1>3. PICK c \in Till!Call :
        /\ call' = [call EXCEPT ![r] = c] /\ now' \in Till!Times /\ now <= now'
        /\ c.op = x.op /\ c.of = x.of /\ c.register = x.register
        /\ c.step = IF x.op = "close" THEN "counting" ELSE "ready"
        /\ c.op = "close" => c.at = x.at /\ now < c.until /\ c.until <= now'
        /\ c.op \in {"sale", "collect"} => c.until = x.until /\ now < c.at /\ c.at <= now'
        /\ c.op \notin {"sale", "collect", "close"} => c.at = x.at /\ c.until = x.until
  <2>1. now \in Nat /\ MaxTime \in Nat /\ now + 1 \in Till!Times /\ now \in Till!Times
    BY <1>2, TillTimes DEF TillInv, TillTypes
  <2>2. now' = IF x.op \in {"sale", "collect", "close"} THEN now + 1 ELSE now
    BY <1>1 DEF Till!Enter
  <2>3. CASE x.op = "close"
    <3>1. PICK c : c = [x EXCEPT !.step = "counting", !.until = now + 1]
      OBVIOUS
    <3>2. c \in Till!Call
      BY <1>1, <2>1, <3>1 DEF Till!Call
    <3>3. call' = [call EXCEPT ![r] = c]
      BY <1>1, <2>3, <3>1 DEF Till!Enter
    <3>4. /\ c.op = x.op /\ c.of = x.of /\ c.register = x.register /\ c.step = "counting"
          /\ c.at = x.at /\ c.until = now + 1
      BY <1>1, <3>1 DEF Till!Call
    <3>5. /\ now' \in Till!Times /\ now <= now'
          /\ c.step = IF x.op = "close" THEN "counting" ELSE "ready"
          /\ c.op = "close" => c.at = x.at /\ now < c.until /\ c.until <= now'
          /\ c.op \in {"sale", "collect"} => c.until = x.until /\ now < c.at /\ c.at <= now'
          /\ c.op \notin {"sale", "collect", "close"} => c.at = x.at /\ c.until = x.until
      BY <2>1, <2>2, <2>3, <3>4
    <3> QED
      BY <3>2, <3>3, <3>4, <3>5
  <2>4. CASE x.op \in {"sale", "collect"}
    <3>1. PICK c : c = [x EXCEPT !.step = "ready", !.at = now + 1]
      OBVIOUS
    <3>2. c \in Till!Call
      BY <1>1, <2>1, <3>1 DEF Till!Call
    <3>3. call' = [call EXCEPT ![r] = c]
      BY <1>1, <2>4, <3>1 DEF Till!Enter
    <3>4. /\ c.op = x.op /\ c.of = x.of /\ c.register = x.register /\ c.step = "ready"
          /\ c.at = now + 1 /\ c.until = x.until
      BY <1>1, <3>1 DEF Till!Call
    <3>5. /\ now' \in Till!Times /\ now <= now'
          /\ c.step = IF x.op = "close" THEN "counting" ELSE "ready"
          /\ c.op = "close" => c.at = x.at /\ now < c.until /\ c.until <= now'
          /\ c.op \in {"sale", "collect"} => c.until = x.until /\ now < c.at /\ c.at <= now'
          /\ c.op \notin {"sale", "collect", "close"} => c.at = x.at /\ c.until = x.until
      BY <2>1, <2>2, <2>4, <3>4
    <3> QED
      BY <3>2, <3>3, <3>4, <3>5
  <2>5. CASE x.op \notin {"sale", "collect", "close"}
    <3>1. PICK c : c = [x EXCEPT !.step = "ready"]
      OBVIOUS
    <3>2. c \in Till!Call
      BY <1>1, <3>1 DEF Till!Call
    <3>3. call' = [call EXCEPT ![r] = c]
      BY <1>1, <2>5, <3>1 DEF Till!Enter
    <3>4. /\ c.op = x.op /\ c.of = x.of /\ c.register = x.register /\ c.step = "ready"
          /\ c.at = x.at /\ c.until = x.until
      BY <1>1, <3>1 DEF Till!Call
    <3>5. /\ now' \in Till!Times /\ now <= now'
          /\ c.step = IF x.op = "close" THEN "counting" ELSE "ready"
          /\ c.op = "close" => c.at = x.at /\ now < c.until /\ c.until <= now'
          /\ c.op \in {"sale", "collect"} => c.until = x.until /\ now < c.at /\ c.at <= now'
          /\ c.op \notin {"sale", "collect", "close"} => c.at = x.at /\ c.until = x.until
      BY <2>1, <2>2, <2>5, <3>4
    <3> QED
      BY <3>2, <3>3, <3>4, <3>5
  <2> QED
    BY <2>3, <2>4, <2>5
<1>4. /\ now \in Nat /\ now' \in Nat /\ c.at \in Nat /\ c.until \in Nat
      /\ \A q \in Requests : /\ payment[q].at \in Nat /\ payment[q].at <= now
                             /\ drawer[q].closed \in Nat /\ drawer[q].closed <= now
      /\ x.at \in Nat /\ x.at <= now /\ x.until \in Nat /\ x.until <= now
  <2>1. c.at \in Till!Times /\ c.until \in Till!Times
    BY <1>3 DEF Till!Call
  <2> QED
    BY <1>1, <1>3, <2>1, TillTimes DEF TillInv, ClockReached
<1>5. c.op = "collect" => \A p \in Till!Paid : payment[p].order # c.of
  <2> SUFFICES ASSUME c.op = "collect" PROVE \A p \in Till!Paid : payment[p].order # c.of
    OBVIOUS
  <2>1. order[c.of].status = "open"
    BY <1>1, <1>2, <1>3 DEF Till!Passes, Till!PickupOpen
  <2> QED
    BY <2>1 DEF TillInv, PaidOrdersAreOver
<1>6. c.op = "close" => drawer[c.of].closed = 0
  BY <1>1, <1>2, <1>3 DEF Till!Passes, Till!IsOpen
<1>7. c.op = "open" =>
        \A d \in Requests : drawer[d].closed > 0 /\ drawer[d].closer \in tillBefore[r]
                            => drawer[d].closed < c.at
  BY <1>1, <1>2, <1>3 DEF TillInv, ReadsLater
<1>8. c.op = "close" => \A q \in tillBefore[r] \cap Till!Paid : payment[q].at <= c.until
  <2>1. Till!Paid \subseteq Requests
    BY DEF Till!Paid
  <2> QED
    BY <1>3, <1>4, <2>1
<1>9. c.op \in {"sale", "collect"} => \A d \in Requests : drawer[d].closed < c.at
  BY <1>3, <1>4
<1>10. c.at <= now' /\ c.until <= now'
  BY <1>3, <1>4
<1>11. call[r].step \notin {"new", "done"}
  BY <1>1, <1>2
<1>12. c.step \in {"counting", "ready", "done"} /\ (c.step = "counting" => c.op = "close")
       /\ (c.op = "close" => c.step # "ready")
  BY <1>3
<1> QED
  BY <1>1, <1>2, <1>3, <1>5, <1>6, <1>7, <1>8, <1>9, <1>10, <1>11, <1>12, TillGoesOn

\* close_drawer counts what has been paid by now.
LEMMA TillCounts ==
  ASSUME StoreDayAssumption, TillInv, NEW r \in Requests, Till!CountCash(r)
  PROVE  TillInv'
<1>1. PICK x : x = call[r] /\ x \in Till!Call
  BY DEF TillInv, TillTypes
<1>2. /\ x.step = "counting" /\ now < MaxTime /\ now' = now + 1
      /\ UNCHANGED <<order, payment, drawer, tillBefore>>
  BY <1>1 DEF Till!CountCash
<1>3. PICK rows : rows = Till!CashRows(drawer[x.of].opened, x.until)
  OBVIOUS
<1>4. rows \subseteq Till!Paid /\ Till!Paid \subseteq Requests
  BY <1>3 DEF Till!CashRows, Till!Paid
<1>5. PICK c : c = [x EXCEPT !.step = "ready", !.at = now + 1, !.seen = rows]
  OBVIOUS
<1>6. now \in Nat /\ MaxTime \in Nat /\ now + 1 \in Till!Times /\ now \in Till!Times
  BY <1>2, TillTimes DEF TillInv, TillTypes
<1>7. c \in Till!Call
  BY <1>1, <1>4, <1>5, <1>6 DEF Till!Call
<1>8. call' = [call EXCEPT ![r] = c]
  BY <1>1, <1>3, <1>5 DEF Till!CountCash
<1>9. /\ c.op = x.op /\ c.of = x.of /\ c.register = x.register /\ c.step = "ready"
      /\ c.at = now + 1 /\ c.until = x.until /\ c.seen = rows
  BY <1>1, <1>5 DEF Till!Call
<1>10. x.op = "close" /\ x.of \in Requests
  BY <1>1, <1>2 DEF TillInv, TargetsThere
<1>11. /\ x.until \in Nat /\ x.until <= now /\ drawer[x.of].opened \in Nat
       /\ \A q \in Requests : payment[q].at \in Nat
  BY <1>1, <1>10, TillTimes DEF TillInv, ClockReached
<1>12. \A q \in tillBefore[r] \cap Till!Paid : payment[q].at <= x.until
  BY <1>1, <1>2, <1>10 DEF TillInv, CountsSoFar
<1>13. /\ \A p \in rows : drawer[c.of].opened <= payment[p].at /\ payment[p].at <= c.at
       /\ \A q \in tillBefore[r] \cap Till!Paid :
            drawer[c.of].opened <= payment[q].at => q \in rows
  BY <1>3, <1>4, <1>6, <1>9, <1>11, <1>12 DEF Till!CashRows
<1>14. /\ call[r].step \notin {"new", "done"} /\ now <= now' /\ now' \in Till!Times
       /\ c.at <= now' /\ c.until <= now' /\ c.op = "close" /\ c.at > 0
  BY <1>1, <1>2, <1>6, <1>9, <1>10, <1>11
<1> QED
  BY <1>1, <1>2, <1>4, <1>7, <1>8, <1>9, <1>12, <1>13, <1>14, TillGoesOn

\* What is left of a request that ends.
LEMMA TillEndsAt ==
  ASSUME StoreDayAssumption, TillInv, NEW r \in Requests, Till!Ends(r)
  PROVE  \E c \in Till!Call : /\ c.step = "done" /\ c.op = None /\ c.at = 0 /\ c.until = 0
                              /\ call' = [call EXCEPT ![r] = c]
<1>1. 0 \in Till!Times
  BY DEF StoreDayAssumption, Till!CounterAssumption, Till!Times
<1>2. Till!NotCalled \in Till!Call
  BY <1>1 DEF Till!NotCalled, Till!Call
<1>3. PICK x : x = Till!NotCalled /\ x \in Till!Call
  BY <1>2
<1>4. PICK c : c = [x EXCEPT !.step = "done"]
  OBVIOUS
<1>5. c \in Till!Call
  BY <1>3, <1>4 DEF Till!Call
<1>6. x.op = None /\ x.at = 0 /\ x.until = 0
  BY <1>3 DEF Till!NotCalled
<1>7. c.step = "done" /\ c.op = None /\ c.at = 0 /\ c.until = 0
  BY <1>3, <1>4, <1>6 DEF Till!Call
<1>8. call' = [call EXCEPT ![r] = c]
  BY <1>3, <1>4 DEF Till!Ends
<1> QED
  BY <1>5, <1>7, <1>8

\* A request ends without a write.
LEMMA TillRollsBack ==
  ASSUME StoreDayAssumption, TillInv, NEW r \in Requests, Till!Rollback(r)
  PROVE  TillInv'
<1>1. /\ call[r].step \notin {"new", "done"} /\ Till!Ends(r) /\ now' = now
      /\ UNCHANGED <<order, payment, drawer, tillBefore>>
  BY DEF Till!Rollback, Till!InFlight
<1>2. PICK c \in Till!Call : /\ c.step = "done" /\ c.op = None /\ c.at = 0 /\ c.until = 0
                             /\ call' = [call EXCEPT ![r] = c]
  BY <1>1, TillEndsAt
<1>3. now \in Nat /\ now' \in Till!Times
  BY <1>1, TillTimes DEF TillInv, TillTypes
<1>4. c.at <= now' /\ c.until <= now' /\ now <= now'
  BY <1>1, <1>2, <1>3
<1> QED
  BY <1>1, <1>2, <1>3, <1>4, TillGoesOn

\* A request begins: its transaction has the time of a moment after all closings before it.
LEMMA TillBegins ==
  ASSUME StoreDayAssumption, TillInv, NEW r \in Requests, Till!Begin(r)
  PROVE  TillInv'
<1>0. PICK op \in Till!Ops :
        \E of \in Till!Target(op) : \E register \in IF op = "open" THEN Registers ELSE {None} :
           /\ now' = IF op = "open" THEN now + 1 ELSE now
           /\ call' = [call EXCEPT ![r] = [Till!NotCalled EXCEPT
                !.op = op, !.of = of, !.register = register, !.step = "begun",
                !.at = IF op = "open" THEN now + 1 ELSE 0]]
  BY DEF Till!Begin
<1>1. PICK of \in Till!Target(op), register \in IF op = "open" THEN Registers ELSE {None} :
           /\ now' = IF op = "open" THEN now + 1 ELSE now
           /\ call' = [call EXCEPT ![r] = [Till!NotCalled EXCEPT
                !.op = op, !.of = of, !.register = register, !.step = "begun",
                !.at = IF op = "open" THEN now + 1 ELSE 0]]
  BY <1>0
<1>2. /\ call[r].step = "new" /\ now < MaxTime /\ UNCHANGED <<order, payment, drawer>>
      /\ tillBefore' = [tillBefore EXCEPT ![r] = {q \in Requests : call[q].step = "done"}]
  BY DEF Till!Begin
<1>3. /\ now \in Nat /\ now' \in Till!Times /\ now <= now' /\ now' \in Nat
      /\ now + 1 \in Till!Times /\ 0 \in Till!Times
  BY <1>1, <1>2, TillTimes DEF TillInv, TillTypes
<1>4. /\ op \in {"call", "collect", "void"} => of \in Requests /\ order[of].status # None
      /\ op = "close" => of \in Requests /\ drawer[of].register # None
      /\ op \notin {"call", "collect", "void", "close"} => of = None
  BY <1>1 DEF Till!Target
<1>5. PICK at : at = IF op = "open" THEN now + 1 ELSE 0
  OBVIOUS
<1>6. /\ at \in Till!Times /\ at \in Nat /\ at <= now' /\ (op = "open" => now < at)
      /\ register \in Registers \cup {None} /\ of \in Requests \cup {None}
      /\ op = "open" => register \in Registers
  BY <1>1, <1>3, <1>4, <1>5, TillTimes
<1>7. PICK x : x = Till!NotCalled /\ x \in Till!Call
  <2>1. Till!NotCalled \in Till!Call
    BY <1>3 DEF Till!NotCalled, Till!Call
  <2> QED
    BY <2>1
<1>8. PICK c : c = [x EXCEPT !.op = op, !.of = of, !.register = register, !.step = "begun",
                             !.at = at]
  OBVIOUS
<1>9. c \in Till!Call
  BY <1>6, <1>7, <1>8 DEF Till!Call
<1>10. x.until = 0
  BY <1>7 DEF Till!NotCalled
<1>11. /\ c.op = op /\ c.of = of /\ c.register = register /\ c.step = "begun" /\ c.at = at
       /\ c.until = 0
  BY <1>7, <1>8, <1>10 DEF Till!Call
<1>12. call' = [call EXCEPT ![r] = c]
  BY <1>1, <1>5, <1>7, <1>8
<1>13. /\ call' \in [Requests -> Till!Call] /\ call'[r] = c
       /\ \A q \in Requests : q # r => call'[q] = call[q]
  BY <1>9, <1>12 DEF TillInv, TillTypes
<1>14. /\ tillBefore' \in [Requests -> SUBSET Requests]
       /\ tillBefore'[r] = {q \in Requests : call[q].step = "done"}
       /\ \A q \in Requests : q # r => tillBefore'[q] = tillBefore[q]
  BY <1>2 DEF TillInv, TillTypes
<1>15. \A q \in Requests : r \notin tillBefore[q] /\ r \notin tillBefore'[q]
  BY <1>2, <1>14, TillUnended DEF TillInv
<1>16. /\ order[r].status = None /\ payment[r].order = None /\ drawer[r].register = None
       /\ drawer[r].closed = 0 /\ r \notin Till!Paid
       /\ \A d \in Requests : drawer[d].closed > 0 => drawer[d].closer # r
  BY <1>2 DEF TillInv, TillWritten, Till!Paid
<1>17. Till!Paid' = Till!Paid
  BY <1>2 DEF Till!Paid
<1>18. TillTypes'
  BY <1>2, <1>3, <1>13, <1>14 DEF TillInv, TillTypes
<1>19. TillBegan'
  <2> SUFFICES ASSUME NEW s \in Requests, NEW q \in tillBefore'[s]
               PROVE  call'[q].step = "done"
    BY DEF TillBegan
  <2>1. q \in Requests /\ call[q].step = "done"
    BY <1>14 DEF TillInv, TillTypes, TillBegan
  <2> QED
    BY <1>2, <1>13, <2>1
<1>20. TillWritten'
  BY <1>2, <1>13, <1>16, <1>17 DEF TillInv, TillWritten
<1>21. TargetsThere'
  <2> SUFFICES ASSUME NEW s \in Requests, NEW k, k = call'[s], k.step \notin {"new", "done"}
               PROVE  /\ k.op \in {"call", "collect", "void"} =>
                           k.of \in Requests /\ order[k.of].status # None
                      /\ k.op = "close" => k.of \in Requests /\ drawer[k.of].register # None
                      /\ k.op = "open" => k.register # None
                      /\ k.step = "counting" => k.op = "close"
    BY <1>2 DEF TargetsThere
  <2>1. CASE s = r
    BY <1>4, <1>6, <1>11, <1>13, <2>1 DEF StoreDayAssumption, Till!CounterAssumption
  <2>2. CASE s # r
    BY <1>13, <2>2 DEF TillInv, TargetsThere
  <2> QED
    BY <2>1, <2>2
<1>22. ClockReached'
  <2> SUFFICES ASSUME NEW q \in Requests
               PROVE  /\ call'[q].at <= now' /\ call'[q].until <= now'
                      /\ payment[q].at <= now' /\ drawer[q].closed <= now'
    BY <1>2 DEF ClockReached
  <2>1. /\ call[q].at \in Nat /\ call[q].until \in Nat /\ payment[q].at \in Nat
        /\ drawer[q].closed \in Nat
    BY TillTimes
  <2>2. /\ call[q].at <= now /\ call[q].until <= now
        /\ payment[q].at <= now /\ drawer[q].closed <= now
    BY DEF TillInv, ClockReached
  <2> QED
    BY <1>3, <1>6, <1>11, <1>13, <2>1, <2>2
<1>23. PaidOrdersAreOver' /\ CollectsUnpaid'
  <2>1. PaidOrdersAreOver'
    BY <1>2, <1>17 DEF TillInv, PaidOrdersAreOver
  <2>2. CollectsUnpaid'
    BY <1>2, <1>11, <1>13, <1>14, <1>17 DEF TillInv, CollectsUnpaid
  <2> QED
    BY <2>1, <2>2
<1>24. Till!ChargedInTurn'
  BY <1>2, <1>14, <1>16, <1>17 DEF TillInv, Till!ChargedInTurn, Till!Overlap, Till!Paid
<1>25. Till!ShiftCountsItsCash'
  <2> SUFFICES ASSUME NEW d \in Requests, drawer[d].closed > 0, NEW p \in Till!Paid,
                      NEW during,
                      during = (/\ drawer[d].opened <= payment[p].at
                                /\ payment[p].at <= drawer[d].closed)
               PROVE  /\ p \in drawer[d].counted => during
                      /\ during => p \in drawer[d].counted
                                     \/ Till!Overlap(tillBefore', p, drawer[d].closer)
    BY <1>2, <1>17 DEF Till!ShiftCountsItsCash
  <2>1. p \in Requests /\ p # r /\ drawer[d].closer # r /\ drawer[d].closer \in Requests
    BY <1>16 DEF Till!Paid, TillInv, TillWritten
  <2> QED
    BY <1>14, <2>1 DEF TillInv, Till!ShiftCountsItsCash, Till!Overlap
<1>26. CountsSoFar'
  <2> SUFFICES ASSUME NEW s \in Requests, s # r, NEW k, k = call[s]
               PROVE  /\ k.op = "close" /\ k.step \in {"counting", "ready"} =>
                           \A q \in tillBefore[s] \cap Till!Paid : payment[q].at <= k.until
                      /\ k.op = "close" /\ k.step = "ready" =>
                           /\ k.at > 0 /\ k.seen \subseteq Till!Paid
                           /\ \A p \in k.seen : /\ drawer[k.of].opened <= payment[p].at
                                                /\ payment[p].at <= k.at
                           /\ \A q \in tillBefore[s] \cap Till!Paid :
                                drawer[k.of].opened <= payment[q].at => q \in k.seen
    BY <1>2, <1>11, <1>13, <1>14, <1>17 DEF CountsSoFar
  <2> QED
    BY DEF TillInv, CountsSoFar
<1>27. ReadsLater'
  <2> SUFFICES ASSUME NEW d \in Requests, NEW s \in Requests, NEW k, k = call'[s],
                      drawer[d].closed > 0, drawer[d].closer \in tillBefore'[s]
               PROVE  /\ \/ k.op = "open" /\ k.step \in {"begun", "ready"}
                         \/ k.op \in {"sale", "collect"} /\ k.step = "ready"
                         => drawer[d].closed < k.at
                      /\ drawer[s].register # None => drawer[d].closed < drawer[s].opened
    BY <1>2 DEF ReadsLater
  <2>1. CASE s = r
    <3>1. drawer[d].closed \in Nat /\ drawer[d].closed <= now
      BY TillTimes DEF TillInv, ClockReached
    <3> QED
      BY <1>3, <1>6, <1>11, <1>13, <1>16, <2>1, <3>1
  <2>2. CASE s # r
    BY <1>13, <1>14, <2>2 DEF TillInv, ReadsLater
  <2> QED
    BY <2>1, <2>2
<1>28. DrawersInTurn'
  <2>1. ASSUME NEW d \in Requests, NEW e \in Requests, OpenedAfter(d, e)
        PROVE  OpenedAfter(d, e)'
    <3>1. /\ drawer[d].closed > 0 /\ drawer[d].closer \in Requests /\ drawer[d].closer # r
          /\ e \notin tillBefore[drawer[d].closer]
      BY <1>16, <2>1 DEF OpenedAfter, TillInv, TillWritten
    <3>2. ASSUME NEW s \in Requests, call'[s].op = "close", call'[s].of = d,
                 call'[s].step \in {"counting", "ready"}
          PROVE  e \notin tillBefore'[s]
      <4>1. s # r
        BY <1>11, <1>13, <3>2
      <4> QED
        BY <1>13, <1>14, <2>1, <3>2, <4>1 DEF OpenedAfter
    <3> QED
      BY <1>2, <1>14, <3>1, <3>2 DEF OpenedAfter
  <2>2. \A d, e \in Requests : OpenedAfter(d, e) => OpenedAfter(d, e)'
    BY <2>1
  <2> QED
    BY <1>2, <2>2 DEF TillInv, DrawersInTurn
<1> QED
  BY <1>18, <1>19, <1>20, <1>21, <1>22, <1>23, <1>24, <1>25, <1>26, <1>27, <1>28 DEF TillInv

\* A request that is about to commit has no row yet, and leaves none of the others any trace
\* of itself but its rows.
LEMMA TillLeaves ==
  ASSUME StoreDayAssumption, TillInv, NEW r \in Requests, call[r].step = "ready", Till!Ends(r)
  PROVE  /\ call' \in [Requests -> Till!Call]
         /\ call'[r].step = "done" /\ call'[r].op = None /\ call'[r].at = 0 /\ call'[r].until = 0
         /\ \A q \in Requests : q # r => call'[q] = call[q]
         /\ \A q \in Requests : call[q].step = "done" => call'[q].step = "done"
         /\ \A q \in Requests : r \notin tillBefore[q]
         /\ order[r].status = None /\ drawer[r].register = None
         /\ drawer[r].closed = 0 /\ r \notin Till!Paid
         /\ \A d \in Requests : drawer[d].closed > 0 => drawer[d].closer # r
<1>1. PICK c \in Till!Call : /\ c.step = "done" /\ c.op = None /\ c.at = 0 /\ c.until = 0
                             /\ call' = [call EXCEPT ![r] = c]
  BY TillEndsAt
<1>2. /\ call' \in [Requests -> Till!Call] /\ call'[r] = c
      /\ \A q \in Requests : q # r => call'[q] = call[q]
  BY <1>1 DEF TillInv, TillTypes
<1>3. \A q \in Requests : r \notin tillBefore[q]
  BY TillUnended DEF TillInv
<1>4. /\ order[r].status = None /\ drawer[r].register = None
      /\ drawer[r].closed = 0 /\ payment[r].order = None
      /\ \A d \in Requests : drawer[d].closed > 0 => drawer[d].closer # r
  BY DEF TillInv, TillWritten
<1> QED
  BY <1>1, <1>2, <1>3, <1>4 DEF Till!Paid

\* What remains of the others' promises when a request ends.
LEMMA TillLeft ==
  ASSUME StoreDayAssumption, TillInv, NEW r \in Requests, call[r].step = "ready", Till!Ends(r),
         UNCHANGED <<now, tillBefore>>
  PROVE  /\ TillBegan'
         /\ UNCHANGED drawer => ReadsLater' /\ DrawersInTurn'
<1>1. /\ call'[r].step = "done" /\ call'[r].op = None
      /\ \A q \in Requests : q # r => call'[q] = call[q]
      /\ \A q \in Requests : call[q].step = "done" => call'[q].step = "done"
      /\ drawer[r].register = None
  BY TillLeaves
<1>2. TillBegan'
  BY <1>1 DEF TillInv, TillTypes, TillBegan
<1>3. ASSUME UNCHANGED drawer PROVE ReadsLater'
  <2> SUFFICES ASSUME NEW d \in Requests, NEW s \in Requests, NEW k, k = call'[s],
                      drawer[d].closed > 0, drawer[d].closer \in tillBefore[s]
               PROVE  /\ \/ k.op = "open" /\ k.step \in {"begun", "ready"}
                         \/ k.op \in {"sale", "collect"} /\ k.step = "ready"
                         => drawer[d].closed < k.at
                      /\ drawer[s].register # None => drawer[d].closed < drawer[s].opened
    BY <1>3 DEF ReadsLater
  <2>1. CASE s = r
    BY <1>1, <2>1
  <2>2. CASE s # r
    BY <1>1, <2>2 DEF TillInv, ReadsLater
  <2> QED
    BY <2>1, <2>2
<1>4. ASSUME UNCHANGED drawer PROVE DrawersInTurn'
  <2>1. \A d, e \in Requests : OpenedAfter(d, e) => OpenedAfter(d, e)'
    BY <1>1, <1>4 DEF OpenedAfter
  <2> QED
    BY <1>4, <2>1 DEF TillInv, DrawersInTurn
<1> QED
  BY <1>2, <1>3, <1>4

\* An order never comes back: once it is closed or void it stays so, and no row is lost.
LEMMA OrdersMove ==
  ASSUME StoreDayAssumption, TillInv, NEW r \in Requests, call[r].step = "ready",
         \/ Till!CommitSale(r) \/ Till!CommitOnline(r) \/ Till!CommitCall(r)
         \/ Till!CommitCollect(r) \/ Till!CommitVoid(r)
  PROVE  /\ order' \in [Requests -> Till!Order]
         /\ \A q \in Requests : order[q].status # None => order'[q].status # None
         /\ \A q \in Requests : order[q].status \in {"closed", "voided"} =>
                                  order'[q].status \in {"closed", "voided"}
         /\ \A q \in Requests : q # r /\ order[q].status = None => order'[q].status = None
<1>1. order \in [Requests -> Till!Order] /\ order[r].status = None
  BY DEF TillInv, TillTypes, TillWritten
<1>2. PICK x : x = Till!NoOrder /\ x \in Till!Order
  <2>1. Till!NoOrder \in Till!Order
    BY DEF Till!NoOrder, Till!Order, Till!OrderStatus
  <2> QED
    BY <2>1
<1>3. call[r].op \in {"call", "collect", "void"} =>
        call[r].of \in Requests /\ order[call[r].of].status # None
  BY DEF TillInv, TargetsThere
<1>4. "closed" # None /\ "voided" # None /\ "open" # None
  BY DEF StoreDayAssumption, Till!CounterAssumption, Till!OrderStatus
<1>5. CASE Till!CommitSale(r)
  <2>1. PICK n : n = [x EXCEPT !.status = "closed"]
    OBVIOUS
  <2>2. n \in Till!Order /\ n.status = "closed"
    BY <1>2, <2>1 DEF Till!Order, Till!OrderStatus
  <2>3. order' = [order EXCEPT ![r] = n] /\ n.status # None
    BY <1>2, <1>4, <2>2, <1>5, <2>1 DEF Till!CommitSale
  <2>4. order'[r] = n /\ order' \in [Requests -> Till!Order]
    BY <1>1, <2>2, <2>3
  <2>5. \A q \in Requests : q # r => order'[q] = order[q]
    BY <1>1, <2>3
  <2> QED
    BY <1>1, <1>4, <2>3, <2>4, <2>5
<1>6. CASE Till!CommitOnline(r)
  <2>1. PICK n : n = [x EXCEPT !.status = "open", !.pickup = TRUE]
    OBVIOUS
  <2>2. n \in Till!Order /\ n.status = "open"
    BY <1>2, <2>1 DEF Till!Order, Till!OrderStatus
  <2>3. order' = [order EXCEPT ![r] = n] /\ n.status # None
    BY <1>2, <1>4, <2>2, <1>6, <2>1 DEF Till!CommitOnline
  <2>4. order'[r] = n /\ order' \in [Requests -> Till!Order]
    BY <1>1, <2>2, <2>3
  <2>5. \A q \in Requests : q # r => order'[q] = order[q]
    BY <1>1, <2>3
  <2> QED
    BY <1>1, <1>4, <2>3, <2>4, <2>5
<1>7. CASE Till!CommitCall(r)
  <2>1. PICK o : o = call[r].of /\ o \in Requests
    BY <1>3, <1>7 DEF Till!CommitCall
  <2>2. PICK y : y = order[o] /\ y \in Till!Order
    BY <1>1, <2>1
  <2>3. order' = [order EXCEPT ![o] = [y EXCEPT !.called = TRUE]]
    BY <1>1, <1>7, <2>1, <2>2 DEF Till!CommitCall
  <2>4. PICK n : n = [y EXCEPT !.called = TRUE]
    OBVIOUS
  <2>5. n \in Till!Order /\ n.status = y.status
    BY <2>2, <2>4 DEF Till!Order
  <2> QED
    BY <1>1, <2>1, <2>2, <2>3, <2>4, <2>5
<1>8. ASSUME NEW status \in {"closed", "voided"},
             order' = [order EXCEPT ![call[r].of].status = status],
             call[r].op \in {"collect", "void"}
      PROVE  /\ order' \in [Requests -> Till!Order] /\ call[r].of \in Requests
             /\ order'[call[r].of].status = status
             /\ \A q \in Requests : q # call[r].of => order'[q] = order[q]
  <2>1. PICK o : o = call[r].of /\ o \in Requests
    BY <1>3, <1>8
  <2>2. PICK y : y = order[o] /\ y \in Till!Order
    BY <1>1, <2>1
  <2>3. order' = [order EXCEPT ![o] = [y EXCEPT !.status = status]]
    BY <1>1, <1>8, <2>1, <2>2
  <2>4. PICK n : n = [y EXCEPT !.status = status]
    OBVIOUS
  <2>5. n \in Till!Order /\ n.status = status
    BY <2>2, <2>4 DEF Till!Order, Till!OrderStatus
  <2> QED
    BY <1>1, <2>1, <2>2, <2>3, <2>4, <2>5
<1>9. CASE Till!CommitCollect(r)
  BY <1>1, <1>3, <1>8, <1>4, <1>9 DEF Till!CommitCollect
<1>10. CASE Till!CommitVoid(r)
  BY <1>1, <1>3, <1>8, <1>4, <1>10 DEF Till!CommitVoid
<1> QED
  BY <1>5, <1>6, <1>7, <1>9, <1>10

\* A request at the till commits that leaves the drawers alone.  An order that is paid by two
\* was found unpaid by both, so neither began after the other's end.
LEMMA TillSells ==
  ASSUME StoreDayAssumption, TillInv, NEW r \in Requests, Till!Commit(r),
         \/ Till!CommitSale(r) \/ Till!CommitOnline(r) \/ Till!CommitCall(r)
         \/ Till!CommitCollect(r) \/ Till!CommitVoid(r)
  PROVE  TillInv'
<1>1. PICK x : x = call[r] /\ x \in Till!Call
  BY DEF TillInv, TillTypes
<1>2. /\ x.step = "ready" /\ Till!Ends(r) /\ UNCHANGED <<now, tillBefore, drawer>>
      /\ call[r].step = "ready"
  BY <1>1 DEF Till!Commit, Till!CommitSale, Till!CommitOnline, Till!CommitCall,
     Till!CommitCollect, Till!CommitVoid
<1>3. /\ call' \in [Requests -> Till!Call]
      /\ call'[r].step = "done" /\ call'[r].op = None /\ call'[r].at = 0 /\ call'[r].until = 0
      /\ \A q \in Requests : q # r => call'[q] = call[q]
      /\ \A q \in Requests : call[q].step = "done" => call'[q].step = "done"
      /\ \A q \in Requests : r \notin tillBefore[q]
      /\ order[r].status = None /\ drawer[r].register = None
      /\ drawer[r].closed = 0 /\ r \notin Till!Paid
      /\ \A d \in Requests : drawer[d].closed > 0 => drawer[d].closer # r
  BY <1>2, TillLeaves
<1>4. /\ order' \in [Requests -> Till!Order]
      /\ \A q \in Requests : order[q].status # None => order'[q].status # None
      /\ \A q \in Requests : order[q].status \in {"closed", "voided"} =>
                               order'[q].status \in {"closed", "voided"}
      /\ \A q \in Requests : q # r /\ order[q].status = None => order'[q].status = None
  BY <1>2, OrdersMove
<1>5. /\ payment' \in [Requests -> Till!Payment]
      /\ \A q \in Requests : q # r => payment'[q] = payment[q]
      /\ \/ payment'[r] = payment[r]
         \/ \E o \in Requests :
              /\ payment'[r].order = o /\ payment'[r].at = x.at
              /\ x.op \in {"sale", "collect"} /\ order'[o].status = "closed"
              /\ o = r \/ (x.op = "collect" /\ o = x.of)
  <2>1. payment \in [Requests -> Till!Payment] /\ order \in [Requests -> Till!Order]
    BY DEF TillInv, TillTypes
  <2>2. ASSUME NEW o \in Requests, Till!Pay(r, o)
        PROVE  /\ payment' \in [Requests -> Till!Payment]
               /\ \A q \in Requests : q # r => payment'[q] = payment[q]
               /\ payment'[r].order = o /\ payment'[r].at = x.at
    <3>1. PICK n : n = [order |-> o, at |-> x.at]
      OBVIOUS
    <3>2. n \in Till!Payment /\ n.order = o /\ n.at = x.at
      BY <1>1, <3>1 DEF Till!Payment, Till!Call
    <3>3. payment' = [payment EXCEPT ![r] = n]
      BY <1>1, <2>2, <3>1 DEF Till!Pay
    <3> QED
      BY <2>1, <3>2, <3>3
  <2>3. CASE Till!CommitSale(r)
    <3>1. order'[r].status = "closed"
      <4>1. PICK y : y = Till!NoOrder /\ y \in Till!Order
        <5>1. Till!NoOrder \in Till!Order
          BY DEF Till!NoOrder, Till!Order, Till!OrderStatus
        <5> QED
          BY <5>1
      <4>2. order'[r] = [y EXCEPT !.status = "closed"]
        BY <2>1, <2>3, <4>1 DEF Till!CommitSale
      <4> QED
        BY <4>1, <4>2 DEF Till!Order
    <3>2. Till!Pay(r, r) /\ x.op = "sale"
      BY <1>1, <2>3 DEF Till!CommitSale
    <3> QED
      BY <2>2, <3>1, <3>2
  <2>4. CASE Till!CommitCollect(r)
    <3>1. x.op = "collect" /\ x.of \in Requests /\ Till!Pay(r, x.of)
      BY <1>1, <1>2, <2>4 DEF Till!CommitCollect, TillInv, TargetsThere
    <3>2. order'[x.of].status = "closed"
      <4>1. PICK y : y = order[x.of] /\ y \in Till!Order
        BY <2>1, <3>1
      <4>2. order'[x.of] = [y EXCEPT !.status = "closed"]
        BY <1>1, <2>1, <2>4, <3>1, <4>1 DEF Till!CommitCollect
      <4> QED
        BY <4>1, <4>2 DEF Till!Order
    <3> QED
      BY <2>2, <3>1, <3>2
  <2>5. CASE UNCHANGED payment
    BY <2>1, <2>5
  <2> QED
    BY <2>3, <2>4, <2>5 DEF Till!CommitOnline, Till!CommitCall, Till!CommitVoid
<1>6. PICK was : was = Till!Paid
  OBVIOUS
<1>7. /\ was \subseteq Requests /\ r \notin was /\ was \subseteq Till!Paid'
      /\ Till!Paid' \subseteq was \cup {r} /\ \A p \in was : payment'[p] = payment[p]
      /\ r \in Till!Paid' => payment'[r] # payment[r]
  BY <1>3, <1>5, <1>6 DEF Till!Paid
<1>8. TillTypes'
  BY <1>2, <1>3, <1>4, <1>5 DEF TillInv, TillTypes
<1>9. TillBegan' /\ ReadsLater' /\ DrawersInTurn'
  BY <1>2, TillLeft
<1>10. TillWritten'
  <2> SUFFICES ASSUME NEW q \in Requests
               PROVE  /\ call'[q].step # "done" => /\ order'[q].status = None
                                                   /\ payment'[q].order = None
                                                   /\ drawer[q].register = None
                      /\ drawer[q].register = None => drawer[q].closed = 0
                      /\ drawer[q].counted \subseteq Till!Paid'
                      /\ drawer[q].closed = 0 => drawer[q].counted = {}
                      /\ drawer[q].closed > 0 =>
                           /\ drawer[q].closer \in Requests
                           /\ call'[drawer[q].closer].step = "done"
    BY <1>2 DEF TillWritten
  <2>1. drawer[q].counted \subseteq Till!Paid'
    BY <1>6, <1>7 DEF TillInv, TillWritten
  <2> QED
    BY <1>3, <1>4, <1>5, <2>1 DEF TillInv, TillWritten
<1>11. TargetsThere'
  BY <1>2, <1>3, <1>4 DEF TillInv, TargetsThere
<1>12. ClockReached'
  <2>1. now \in Nat /\ \A q \in Requests : payment'[q].at <= now
    <3>1. \A q \in Requests : call[q].at <= now /\ payment[q].at <= now
      BY DEF TillInv, ClockReached
    <3> QED
      BY <1>1, <1>5, <3>1, TillTimes
  <2> QED
    BY <1>2, <1>3, <2>1 DEF TillInv, ClockReached
<1>13. PaidOrdersAreOver'
  <2> SUFFICES ASSUME NEW p \in Till!Paid'
               PROVE  /\ payment'[p].order \in Requests
                      /\ order'[payment'[p].order].status \in {"closed", "voided"}
    BY DEF PaidOrdersAreOver
  <2>1. CASE p \in was
    BY <1>4, <1>6, <1>7, <2>1 DEF TillInv, PaidOrdersAreOver
  <2>2. CASE p = r
    BY <1>5, <1>7, <2>2
  <2> QED
    BY <1>7, <2>1, <2>2
<1>14. CollectsUnpaid'
  <2> SUFFICES ASSUME NEW s \in Requests, call'[s].op = "collect", call'[s].step = "ready",
                      NEW p \in Till!Paid', payment'[p].order = call'[s].of
               PROVE  p \notin tillBefore[s]
    BY <1>2 DEF CollectsUnpaid
  <2>1. s # r /\ call'[s] = call[s]
    BY <1>3
  <2> QED
    BY <1>3, <1>6, <1>7, <2>1 DEF TillInv, CollectsUnpaid
<1>15. Till!ChargedInTurn'
  <2> SUFFICES ASSUME NEW p \in Till!Paid', NEW q \in Till!Paid', p # q,
                      payment'[p].order = payment'[q].order
               PROVE  Till!Overlap(tillBefore, p, q)
    BY <1>2 DEF Till!ChargedInTurn
  <2>1. ASSUME NEW s \in was, r \in Till!Paid', payment[s].order = payment'[r].order
        PROVE  s \notin tillBefore[r] /\ r \notin tillBefore[s]
    <3>1. payment[s].order # r
      BY <1>3, <1>6, <2>1 DEF TillInv, PaidOrdersAreOver, StoreDayAssumption,
         Till!CounterAssumption, Till!OrderStatus
    <3>2. x.op = "collect" /\ payment[s].order = x.of
      BY <1>5, <1>7, <2>1, <3>1
    <3> QED
      BY <1>1, <1>2, <1>3, <1>6, <1>7, <3>2 DEF TillInv, CollectsUnpaid
  <2>2. CASE p \in was /\ q \in was
    BY <1>6, <1>7, <2>2 DEF TillInv, Till!ChargedInTurn
  <2>3. CASE p = r
    BY <1>7, <2>1, <2>3 DEF Till!Overlap
  <2>4. CASE q = r
    BY <1>7, <2>1, <2>4 DEF Till!Overlap
  <2> QED
    BY <1>7, <2>2, <2>3, <2>4
<1>16. CountsSoFar'
  <2> SUFFICES ASSUME NEW s \in Requests, NEW k, k = call'[s], k.op = "close"
               PROVE  /\ k.step \in {"counting", "ready"} =>
                           \A q \in tillBefore[s] \cap Till!Paid' : payment'[q].at <= k.until
                      /\ k.step = "ready" =>
                           /\ k.at > 0 /\ k.seen \subseteq Till!Paid'
                           /\ \A p \in k.seen : /\ drawer[k.of].opened <= payment'[p].at
                                                /\ payment'[p].at <= k.at
                           /\ \A q \in tillBefore[s] \cap Till!Paid' :
                                drawer[k.of].opened <= payment'[q].at => q \in k.seen
    BY <1>2 DEF CountsSoFar
  <2>1. CASE s = r
    BY <1>2, <1>3, <2>1
  <2>2. CASE s # r
    <3>1. k = call[s]
      BY <1>3, <2>2
    <3>2. tillBefore[s] \cap Till!Paid' \subseteq was
      BY <1>3, <1>7
    <3>3. k.step = "ready" => k.seen \subseteq was
      BY <1>6, <3>1 DEF TillInv, CountsSoFar
    <3> QED
      BY <1>6, <1>7, <3>1, <3>2, <3>3 DEF TillInv, CountsSoFar
  <2> QED
    BY <2>1, <2>2
<1>17. Till!ShiftCountsItsCash'
  <2> SUFFICES ASSUME NEW d \in Requests, drawer[d].closed > 0, NEW p \in Till!Paid',
                      NEW during, during = (/\ drawer[d].opened <= payment'[p].at
                                            /\ payment'[p].at <= drawer[d].closed)
               PROVE  /\ p \in drawer[d].counted => during
                      /\ during => p \in drawer[d].counted
                                     \/ Till!Overlap(tillBefore, p, drawer[d].closer)
    BY <1>2 DEF Till!ShiftCountsItsCash
  <2>1. CASE p \in was
    BY <1>6, <1>7, <2>1 DEF TillInv, Till!ShiftCountsItsCash
  <2>2. CASE p = r
    <3>1. drawer[d].counted \subseteq was /\ drawer[d].closer \in Requests
      BY <1>6 DEF TillInv, TillWritten
    <3>2. /\ payment'[r].at = x.at /\ x.op \in {"sale", "collect"}
          /\ x.at \in Nat /\ drawer[d].closed \in Nat
      BY <1>1, <1>5, <1>7, <2>2, TillTimes
    <3>3. during => drawer[d].closer \notin tillBefore[r]
      <4>1. drawer[d].closer \in tillBefore[r] => drawer[d].closed < x.at
        BY <1>1, <1>2, <3>2 DEF TillInv, ReadsLater
      <4>2. payment'[r].at <= drawer[d].closed => drawer[d].closer \notin tillBefore[r]
        BY <3>2, <4>1
      <4>3. during => payment'[p].at <= drawer[d].closed
        BY Zenon
      <4> QED
        BY <2>2, <4>2, <4>3, Zenon
    <3> QED
      BY <1>3, <1>7, <2>2, <3>1, <3>3 DEF Till!Overlap
  <2> QED
    BY <1>7, <2>1, <2>2
<1> QED
  BY <1>8, <1>9, <1>10, <1>11, <1>12, <1>13, <1>14, <1>15, <1>16, <1>17 DEF TillInv

\* A drawer is opened: those its register had are closed, and what closes them has begun.
LEMMA TillOpens ==
  ASSUME StoreDayAssumption, TillInv, NEW r \in Requests, Till!Commit(r), Till!CommitOpen(r)
  PROVE  TillInv'
<1>1. PICK x : x = call[r] /\ x \in Till!Call
  BY DEF TillInv, TillTypes
<1>2. /\ x.step = "ready" /\ Till!Ends(r) /\ UNCHANGED <<now, tillBefore, order, payment>>
      /\ call[r].step = "ready" /\ x.op = "open" /\ Till!IndexFree(x.register)
  BY <1>1 DEF Till!Commit, Till!CommitOpen
<1>3. /\ call' \in [Requests -> Till!Call]
      /\ call'[r].step = "done" /\ call'[r].op = None /\ call'[r].at = 0 /\ call'[r].until = 0
      /\ \A q \in Requests : q # r => call'[q] = call[q]
      /\ \A q \in Requests : call[q].step = "done" => call'[q].step = "done"
      /\ \A q \in Requests : r \notin tillBefore[q]
      /\ order[r].status = None /\ drawer[r].register = None
      /\ drawer[r].closed = 0 /\ r \notin Till!Paid
      /\ \A d \in Requests : drawer[d].closed > 0 => drawer[d].closer # r
  BY <1>2, TillLeaves
<1>4. PICK n \in Till!Drawer :
        /\ n.register = x.register /\ n.register # None /\ n.opened = x.at /\ n.closed = 0
        /\ n.counted = {} /\ drawer' = [drawer EXCEPT ![r] = n]
  <2>1. 0 \in Till!Times
    BY DEF StoreDayAssumption, Till!CounterAssumption, Till!Times
  <2>2. Till!NoDrawer \in Till!Drawer
    BY <2>1 DEF Till!NoDrawer, Till!Drawer
  <2>3. PICK y : y = Till!NoDrawer /\ y \in Till!Drawer
    BY <2>2
  <2>4. y.closed = 0 /\ y.counted = {}
    BY <2>3 DEF Till!NoDrawer
  <2>5. PICK n : n = [y EXCEPT !.register = x.register, !.opened = x.at]
    OBVIOUS
  <2>6. x.register \in Registers \cup {None} /\ x.at \in Till!Times
    BY <1>1 DEF Till!Call
  <2>7. n \in Till!Drawer
    BY <2>3, <2>5, <2>6 DEF Till!Drawer
  <2>8. /\ n.register = x.register /\ n.opened = x.at /\ n.closed = 0 /\ n.counted = {}
    BY <2>3, <2>4, <2>5 DEF Till!Drawer
  <2>9. drawer' = [drawer EXCEPT ![r] = n]
    BY <1>1, <2>3, <2>5 DEF Till!CommitOpen
  <2>10. x.register # None
    BY <1>1, <1>2 DEF TillInv, TargetsThere
  <2> QED
    BY <2>7, <2>8, <2>9, <2>10
<1>5. /\ drawer' \in [Requests -> Till!Drawer] /\ drawer'[r] = n
      /\ \A q \in Requests : q # r => drawer'[q] = drawer[q]
  BY <1>4 DEF TillInv, TillTypes
<1>6. Till!Paid' = Till!Paid
  BY <1>2 DEF Till!Paid
<1>7. \A d \in Requests : drawer[d].register # None => d # r
  BY <1>3
<1>8. \A d \in Requests : drawer'[d].closed > 0 => d # r
  BY <1>4, <1>5
<1>9. TillTypes' /\ TillBegan'
  <2>1. TillBegan'
    BY <1>2, TillLeft
  <2>2. TillTypes'
    BY <1>2, <1>3, <1>5 DEF TillInv, TillTypes
  <2> QED
    BY <2>1, <2>2
<1>10. TillWritten'
  <2> SUFFICES ASSUME NEW q \in Requests
               PROVE  /\ call'[q].step # "done" => /\ order[q].status = None
                                                   /\ payment[q].order = None
                                                   /\ drawer'[q].register = None
                      /\ drawer'[q].register = None => drawer'[q].closed = 0
                      /\ drawer'[q].counted \subseteq Till!Paid
                      /\ drawer'[q].closed = 0 => drawer'[q].counted = {}
                      /\ drawer'[q].closed > 0 =>
                           /\ drawer'[q].closer \in Requests
                           /\ call'[drawer'[q].closer].step = "done"
    BY <1>2, <1>6 DEF TillWritten
  <2>1. CASE q = r
    BY <1>3, <1>4, <1>5, <2>1
  <2>2. CASE q # r
    BY <1>3, <1>5, <2>2 DEF TillInv, TillWritten
  <2> QED
    BY <2>1, <2>2
<1>11. TargetsThere'
  <2>1. \A d \in Requests : drawer[d].register # None => drawer'[d].register # None
    BY <1>5, <1>7
  <2> QED
    BY <1>2, <1>3, <2>1 DEF TillInv, TargetsThere
<1>12. ClockReached'
  <2>1. now \in Nat /\ \A q \in Requests : drawer'[q].closed <= now
    BY <1>4, <1>5, TillTimes DEF TillInv, ClockReached
  <2> QED
    BY <1>2, <1>3, <2>1 DEF TillInv, ClockReached
<1>13. PaidOrdersAreOver' /\ CollectsUnpaid' /\ Till!ChargedInTurn'
  <2>1. PaidOrdersAreOver' /\ Till!ChargedInTurn'
    BY <1>2, <1>6 DEF TillInv, PaidOrdersAreOver, Till!ChargedInTurn, Till!Overlap
  <2>2. CollectsUnpaid'
    BY <1>2, <1>3, <1>6 DEF TillInv, CollectsUnpaid
  <2> QED
    BY <2>1, <2>2
<1>14. CountsSoFar'
  <2> SUFFICES ASSUME NEW s \in Requests, NEW k, k = call'[s], k.op = "close"
               PROVE  /\ k.step \in {"counting", "ready"} =>
                           \A q \in tillBefore[s] \cap Till!Paid : payment[q].at <= k.until
                      /\ k.step = "ready" =>
                           /\ k.at > 0 /\ k.seen \subseteq Till!Paid
                           /\ \A p \in k.seen : /\ drawer'[k.of].opened <= payment[p].at
                                                /\ payment[p].at <= k.at
                           /\ \A q \in tillBefore[s] \cap Till!Paid :
                                drawer'[k.of].opened <= payment[q].at => q \in k.seen
    BY <1>2, <1>6 DEF CountsSoFar
  <2>1. CASE s = r
    BY <1>2, <1>3, <2>1
  <2>2. CASE s # r
    <3>1. k = call[s]
      BY <1>3, <2>2
    <3>2. k.step = "ready" => drawer'[k.of] = drawer[k.of]
      BY <1>5, <1>7, <3>1 DEF TillInv, TargetsThere
    <3> QED
      BY <3>1, <3>2 DEF TillInv, CountsSoFar
  <2> QED
    BY <2>1, <2>2
<1>15. ReadsLater'
  <2> SUFFICES ASSUME NEW d \in Requests, NEW s \in Requests, NEW k, k = call'[s],
                      drawer'[d].closed > 0, drawer'[d].closer \in tillBefore[s]
               PROVE  /\ \/ k.op = "open" /\ k.step \in {"begun", "ready"}
                         \/ k.op \in {"sale", "collect"} /\ k.step = "ready"
                         => drawer'[d].closed < k.at
                      /\ drawer'[s].register # None => drawer'[d].closed < drawer'[s].opened
    BY <1>2 DEF ReadsLater
  <2>1. drawer'[d] = drawer[d]
    BY <1>5, <1>8
  <2>2. CASE s = r
    BY <1>1, <1>2, <1>3, <1>4, <1>5, <2>1, <2>2 DEF TillInv, ReadsLater
  <2>3. CASE s # r
    BY <1>3, <1>5, <2>1, <2>3 DEF TillInv, ReadsLater
  <2> QED
    BY <2>2, <2>3
<1>16. DrawersInTurn'
  <2> SUFFICES ASSUME NEW d \in Requests, NEW e \in Requests, d # e,
                      drawer'[d].register \notin {None, Unnamed},
                      drawer'[d].register = drawer'[e].register
               PROVE  OpenedAfter(d, e)' \/ OpenedAfter(e, d)'
    BY DEF DrawersInTurn
  <2>1. ASSUME NEW a \in Requests, NEW b \in Requests, a # r, OpenedAfter(a, b)
        PROVE  OpenedAfter(a, b)'
    BY <1>2, <1>3, <1>5, <2>1 DEF OpenedAfter
  <2>2. ASSUME NEW a \in Requests, a # r, drawer'[a].register = drawer'[r].register,
             drawer'[a].register # Unnamed
        PROVE  OpenedAfter(a, r)'
    <3>1. drawer[a].register = x.register /\ x.register # None /\ x.register # Unnamed
      BY <1>4, <1>5, <2>2
    <3>2. ~ Till!IsOpen(a)
      BY <1>2, <3>1 DEF Till!IndexFree
    <3>3. drawer[a].closed > 0
      BY <3>1, <3>2, TillTimes DEF Till!IsOpen
    <3>4. drawer'[a].closed > 0
      BY <1>5, <2>2, <3>3
    <3>5. \A s \in Requests : r \notin tillBefore'[s]
      BY <1>2, <1>3
    <3>6. drawer'[a].closer \in Requests
      BY <1>5, <2>2, <3>3 DEF TillInv, TillWritten
    <3> QED
      BY <3>4, <3>5, <3>6 DEF OpenedAfter
  <2>3. CASE d = r
    BY <2>2, <2>3
  <2>4. CASE e = r
    BY <2>2, <2>4
  <2>5. CASE d # r /\ e # r
    <3>1. drawer'[d] = drawer[d] /\ drawer'[e] = drawer[e]
      BY <1>5, <2>5
    <3>2. OpenedAfter(d, e) \/ OpenedAfter(e, d)
      BY <3>1 DEF TillInv, DrawersInTurn
    <3> QED
      BY <2>1, <2>5, <3>2
  <2> QED
    BY <2>3, <2>4, <2>5
<1>17. Till!ShiftCountsItsCash'
  <2>1. \A d \in Requests : drawer'[d].closed > 0 => drawer'[d] = drawer[d]
    BY <1>5, <1>8
  <2> QED
    BY <1>2, <1>6, <2>1 DEF TillInv, Till!ShiftCountsItsCash, Till!Overlap
<1> QED
  BY <1>9, <1>10, <1>11, <1>12, <1>13, <1>14, <1>15, <1>16, <1>17 DEF TillInv

\* A drawer is closed, or closed again, with a count that reaches to after all that had been
\* paid when the closing began; what had not been paid then overlaps it.
LEMMA TillCloses ==
  ASSUME StoreDayAssumption, TillInv, NEW r \in Requests, Till!Commit(r), Till!CommitClose(r)
  PROVE  TillInv'
<1>1. PICK x : x = call[r] /\ x \in Till!Call
  BY DEF TillInv, TillTypes
<1>2. /\ x.step = "ready" /\ Till!Ends(r) /\ UNCHANGED <<now, tillBefore, order, payment>>
      /\ call[r].step = "ready" /\ x.op = "close"
  BY <1>1 DEF Till!Commit, Till!CommitClose
<1>3. /\ call' \in [Requests -> Till!Call]
      /\ call'[r].step = "done" /\ call'[r].op = None /\ call'[r].at = 0 /\ call'[r].until = 0
      /\ \A q \in Requests : q # r => call'[q] = call[q]
      /\ \A q \in Requests : call[q].step = "done" => call'[q].step = "done"
      /\ \A q \in Requests : r \notin tillBefore[q]
      /\ drawer[r].register = None /\ r \notin Till!Paid
  BY <1>2, TillLeaves
<1>4. PICK o \in Requests : o = x.of /\ drawer[o].register # None /\ o # r
  BY <1>1, <1>2, <1>3 DEF TillInv, TargetsThere
<1>5. PICK n \in Till!Drawer :
        /\ n.register = drawer[o].register /\ n.opened = drawer[o].opened
        /\ n.closed = x.at /\ n.counted = x.seen /\ n.closer = r
        /\ drawer' = [drawer EXCEPT ![o] = n]
  <2>1. PICK y : y = drawer[o] /\ y \in Till!Drawer
    BY DEF TillInv, TillTypes
  <2>2. PICK n : n = [y EXCEPT !.closed = x.at, !.counted = x.seen, !.closer = r]
    OBVIOUS
  <2>3. x.at \in Till!Times /\ x.seen \in SUBSET Requests
    BY <1>1 DEF Till!Call
  <2>4. n \in Till!Drawer
    BY <2>1, <2>2, <2>3 DEF Till!Drawer
  <2>5. /\ n.register = y.register /\ n.opened = y.opened
        /\ n.closed = x.at /\ n.counted = x.seen /\ n.closer = r
    BY <2>1, <2>2 DEF Till!Drawer
  <2>6. drawer' = [drawer EXCEPT ![o] = n]
    BY <1>1, <1>4, <2>1, <2>2 DEF Till!CommitClose, TillInv, TillTypes
  <2> QED
    BY <2>1, <2>4, <2>5, <2>6
<1>6. /\ drawer' \in [Requests -> Till!Drawer] /\ drawer'[o] = n
      /\ \A q \in Requests : q # o => drawer'[q] = drawer[q]
      /\ \A q \in Requests : /\ drawer'[q].register = drawer[q].register
                             /\ drawer'[q].opened = drawer[q].opened
  BY <1>5 DEF TillInv, TillTypes
<1>7. Till!Paid' = Till!Paid /\ Till!Paid \subseteq Requests
  BY <1>2 DEF Till!Paid
<1>8. /\ x.at > 0 /\ x.seen \subseteq Till!Paid
      /\ \A p \in x.seen : drawer[o].opened <= payment[p].at /\ payment[p].at <= x.at
      /\ \A q \in tillBefore[r] \cap Till!Paid :
           drawer[o].opened <= payment[q].at => q \in x.seen
  BY <1>1, <1>2, <1>4 DEF TillInv, CountsSoFar
<1>9. x.at \in Nat /\ now \in Nat /\ x.at <= now
  BY <1>1, TillTimes DEF TillInv, ClockReached
<1>10. TillTypes' /\ TillBegan'
  <2>1. TillBegan'
    BY <1>2, TillLeft
  <2>2. TillTypes'
    BY <1>2, <1>3, <1>6 DEF TillInv, TillTypes
  <2> QED
    BY <2>1, <2>2
<1>11. TillWritten'
  <2> SUFFICES ASSUME NEW q \in Requests
               PROVE  /\ call'[q].step # "done" => /\ order[q].status = None
                                                   /\ payment[q].order = None
                                                   /\ drawer'[q].register = None
                      /\ drawer'[q].register = None => drawer'[q].closed = 0
                      /\ drawer'[q].counted \subseteq Till!Paid
                      /\ drawer'[q].closed = 0 => drawer'[q].counted = {}
                      /\ drawer'[q].closed > 0 =>
                           /\ drawer'[q].closer \in Requests
                           /\ call'[drawer'[q].closer].step = "done"
    BY <1>2, <1>7 DEF TillWritten
  <2>1. CASE q = o
    BY <1>3, <1>4, <1>5, <1>6, <1>8, <1>9, <2>1 DEF TillInv, TillWritten
  <2>2. CASE q # o
    BY <1>3, <1>6, <2>2 DEF TillInv, TillWritten
  <2> QED
    BY <2>1, <2>2
<1>12. TargetsThere'
  BY <1>2, <1>3, <1>6 DEF TillInv, TargetsThere
<1>13. ClockReached'
  <2>1. \A q \in Requests : drawer'[q].closed <= now
    BY <1>5, <1>6, <1>9 DEF TillInv, ClockReached
  <2> QED
    BY <1>2, <1>3, <1>9, <2>1 DEF TillInv, ClockReached
<1>14. PaidOrdersAreOver' /\ CollectsUnpaid' /\ Till!ChargedInTurn'
  <2>1. PaidOrdersAreOver' /\ Till!ChargedInTurn'
    BY <1>2, <1>7 DEF TillInv, PaidOrdersAreOver, Till!ChargedInTurn, Till!Overlap
  <2>2. CollectsUnpaid'
    BY <1>2, <1>3, <1>7 DEF TillInv, CollectsUnpaid
  <2> QED
    BY <2>1, <2>2
<1>15. CountsSoFar'
  <2> SUFFICES ASSUME NEW s \in Requests, NEW k, k = call'[s], k.op = "close"
               PROVE  /\ k.step \in {"counting", "ready"} =>
                           \A q \in tillBefore[s] \cap Till!Paid : payment[q].at <= k.until
                      /\ k.step = "ready" =>
                           /\ k.at > 0 /\ k.seen \subseteq Till!Paid
                           /\ \A p \in k.seen : /\ drawer'[k.of].opened <= payment[p].at
                                                /\ payment[p].at <= k.at
                           /\ \A q \in tillBefore[s] \cap Till!Paid :
                                drawer'[k.of].opened <= payment[q].at => q \in k.seen
    BY <1>2, <1>7 DEF CountsSoFar
  <2>1. CASE s = r
    BY <1>2, <1>3, <2>1
  <2>2. CASE s # r
    <3>1. k = call[s]
      BY <1>3, <2>2
    <3>2. k.step = "ready" => drawer'[k.of].opened = drawer[k.of].opened
      BY <1>6, <3>1 DEF TillInv, TargetsThere
    <3> QED
      BY <3>1, <3>2 DEF TillInv, CountsSoFar
  <2> QED
    BY <2>1, <2>2
<1>16. ReadsLater'
  <2> SUFFICES ASSUME NEW d \in Requests, NEW s \in Requests, NEW k, k = call'[s],
                      drawer'[d].closed > 0, drawer'[d].closer \in tillBefore[s]
               PROVE  /\ \/ k.op = "open" /\ k.step \in {"begun", "ready"}
                         \/ k.op \in {"sale", "collect"} /\ k.step = "ready"
                         => drawer'[d].closed < k.at
                      /\ drawer'[s].register # None => drawer'[d].closed < drawer'[s].opened
    BY <1>2 DEF ReadsLater
  <2>1. d # o
    BY <1>3, <1>5, <1>6
  <2>2. drawer'[d] = drawer[d]
    BY <1>6, <2>1
  <2>3. CASE s = r
    BY <1>2, <1>3, <1>6, <2>2, <2>3
  <2>4. CASE s # r
    BY <1>3, <1>6, <2>2, <2>4 DEF TillInv, ReadsLater
  <2> QED
    BY <2>3, <2>4
<1>17. DrawersInTurn'
  <2>1. ASSUME NEW d \in Requests, NEW e \in Requests, OpenedAfter(d, e)
        PROVE  OpenedAfter(d, e)'
    <3>1. \A s \in Requests :
            /\ call'[s].op = "close" /\ call'[s].of = d /\ call'[s].step \in {"counting", "ready"}
            => e \notin tillBefore'[s]
      BY <1>2, <1>3, <2>1 DEF OpenedAfter
    <3>2. CASE d = o
      <4>1. x.at > 0
        BY <1>1, <1>2 DEF TillInv, CountsSoFar
      <4>2. e \notin tillBefore[r]
        BY <1>1, <1>2, <1>4, <2>1, <3>2 DEF OpenedAfter
      <4> QED
        BY <1>2, <1>5, <1>6, <3>1, <3>2, <4>1, <4>2 DEF OpenedAfter
    <3>3. CASE d # o
      BY <1>2, <1>6, <2>1, <3>1, <3>3 DEF OpenedAfter
    <3> QED
      BY <3>2, <3>3
  <2>2. \A d, e \in Requests : OpenedAfter(d, e) => OpenedAfter(d, e)'
    BY <2>1
  <2> QED
    BY <1>6, <2>2 DEF TillInv, DrawersInTurn
<1>18. Till!ShiftCountsItsCash'
  <2> SUFFICES ASSUME NEW d \in Requests, drawer'[d].closed > 0, NEW p \in Till!Paid
               PROVE  /\ p \in drawer'[d].counted =>
                           /\ drawer'[d].opened <= payment[p].at
                           /\ payment[p].at <= drawer'[d].closed
                      /\ /\ drawer'[d].opened <= payment[p].at
                         /\ payment[p].at <= drawer'[d].closed
                         => \/ p \in drawer'[d].counted
                            \/ Till!Overlap(tillBefore, p, drawer'[d].closer)
    BY <1>2, <1>7, Zenon DEF Till!ShiftCountsItsCash
  <2>1. CASE d = o
    BY <1>3, <1>5, <1>6, <1>7, <1>8, <2>1 DEF Till!Overlap
  <2>2. CASE d # o
    BY <1>6, <2>2 DEF TillInv, Till!ShiftCountsItsCash
  <2> QED
    BY <2>1, <2>2
<1> QED
  BY <1>10, <1>11, <1>12, <1>13, <1>14, <1>15, <1>16, <1>17, <1>18 DEF TillInv

\* Only a step at the till moves the till.
LEMMA TillStep ==
  ASSUME StoreDayAssumption, TillInv, [Next]_vars
  PROVE  TillInv'
<1>1. CASE UNCHANGED till
  <2>1. UNCHANGED <<now, order, payment, drawer, call, tillBefore>>
    BY <1>1 DEF till
  <2>2. Till!Paid' = Till!Paid
    BY <2>1 DEF Till!Paid
  <2>3. (TillTypes /\ TillBegan /\ TillWritten /\ TargetsThere /\ ClockReached)'
    BY <2>1, <2>2 DEF TillInv, TillTypes, TillBegan, TillWritten, TargetsThere, ClockReached
  <2>4. (PaidOrdersAreOver /\ CollectsUnpaid /\ Till!ChargedInTurn)'
    BY <2>1, <2>2 DEF TillInv, PaidOrdersAreOver, CollectsUnpaid, Till!ChargedInTurn,
       Till!Overlap
  <2>5. CountsSoFar'
    BY <2>1, <2>2 DEF TillInv, CountsSoFar
  <2>6. ReadsLater' /\ DrawersInTurn'
    BY <2>1 DEF TillInv, ReadsLater, DrawersInTurn, OpenedAfter
  <2>7. Till!ShiftCountsItsCash'
    BY <2>1, <2>2 DEF TillInv, Till!ShiftCountsItsCash, Till!Overlap
  <2> QED
    BY <2>3, <2>4, <2>5, <2>6, <2>7 DEF TillInv
<1>2. CASE AtTheTill
  <2>1. PICK r \in Requests :
          Till!Begin(r) \/ Till!Enter(r) \/ Till!CountCash(r) \/ Till!Commit(r) \/ Till!Rollback(r)
    BY <1>2 DEF AtTheTill
  <2>2. CASE Till!Commit(r)
    <3>1. \/ Till!CommitOpen(r) \/ Till!CommitClose(r)
          \/ \/ Till!CommitSale(r) \/ Till!CommitOnline(r) \/ Till!CommitCall(r)
             \/ Till!CommitCollect(r) \/ Till!CommitVoid(r)
      BY <2>2 DEF Till!Commit
    <3> QED
      BY <2>2, <3>1, TillSells, TillOpens, TillCloses
  <2> QED
    BY <2>1, <2>2, TillBegins, TillEnters, TillCounts, TillRollsBack
<1> QED
  BY <1>1, <1>2 DEF Next, vars, OnForms, AtTheClock, OnTheMenu, AtTheDesk, InTheBooks

\* It holds at first, when nothing has been sold.
LEMMA TillInit ==
  ASSUME StoreDayAssumption, Init
  PROVE  TillInv
<1>1. Till!Init
  BY DEF Init
<1>2. 0 \in Till!Times
  BY DEF StoreDayAssumption, Till!CounterAssumption, Till!Times
<1>3. /\ Till!NoOrder \in Till!Order /\ Till!NoOrder.status = None
      /\ Till!NoPayment \in Till!Payment /\ Till!NoPayment.order = None /\ Till!NoPayment.at = 0
      /\ Till!NoDrawer \in Till!Drawer /\ Till!NoDrawer.register = None
      /\ Till!NoDrawer.closed = 0 /\ Till!NoDrawer.counted = {}
      /\ Till!NotCalled \in Till!Call /\ Till!NotCalled.step = "new"
      /\ Till!NotCalled.at = 0 /\ Till!NotCalled.until = 0
  BY <1>2 DEF Till!NoOrder, Till!Order, Till!NoPayment, Till!Payment, Till!NoDrawer, Till!Drawer,
     Till!NotCalled, Till!Call
<1>4. /\ now = 0
      /\ \A r \in Requests : /\ order[r].status = None /\ payment[r].order = None
                             /\ payment[r].at = 0 /\ drawer[r].register = None
                             /\ drawer[r].closed = 0 /\ drawer[r].counted = {}
                             /\ call[r].step = "new" /\ call[r].at = 0 /\ call[r].until = 0
                             /\ tillBefore[r] = {}
  BY <1>1, <1>3 DEF Till!Init
<1>5. TillTypes
  BY <1>1, <1>2, <1>3 DEF TillTypes, Till!Init
<1>6. Till!Paid = {}
  BY <1>4 DEF Till!Paid
<1>7. TillBegan /\ TillWritten /\ TargetsThere /\ ClockReached
  BY <1>4 DEF TillBegan, TillWritten, TargetsThere, ClockReached
<1>8. PaidOrdersAreOver /\ CollectsUnpaid /\ Till!ChargedInTurn /\ CountsSoFar
  BY <1>4, <1>6 DEF PaidOrdersAreOver, CollectsUnpaid, Till!ChargedInTurn, CountsSoFar
<1>9. ReadsLater /\ DrawersInTurn /\ Till!ShiftCountsItsCash
  BY <1>4 DEF ReadsLater, DrawersInTurn, Till!ShiftCountsItsCash
<1> QED
  BY <1>5, <1>7, <1>8, <1>9 DEF TillInv

\* A payment counted by two shifts of one register was made after the later was opened and
\* before the earlier was closed, so the opening did not begin after the closing; nor did the
\* closing after the opening, which found the drawer closed.
LEMMA CountedOnce ==
  ASSUME StoreDayAssumption, TillInv
  PROVE  Till!CashCountedOnce
<1> SUFFICES ASSUME NEW d \in Requests, NEW e \in Requests, d # e,
                    drawer[d].register # Unnamed, drawer[d].register = drawer[e].register,
                    NEW p \in drawer[d].counted \cap drawer[e].counted
             PROVE  \/ Till!Overlap(tillBefore, d, drawer[e].closer)
                    \/ Till!Overlap(tillBefore, e, drawer[d].closer)
  BY DEF Till!CashCountedOnce
<1>1. p \in Till!Paid /\ p \in Requests
  BY DEF TillInv, TillWritten, Till!Paid
<1>2. drawer[d].register # None /\ drawer[d].closed > 0 /\ drawer[e].closed > 0
  BY TillTimes DEF TillInv, TillWritten
<1>3. ASSUME NEW a \in Requests, NEW b \in Requests, drawer[b].register # None,
             drawer[a].closed > 0, drawer[b].closed > 0,
             p \in drawer[a].counted, p \in drawer[b].counted, OpenedAfter(a, b)
      PROVE  Till!Overlap(tillBefore, b, drawer[a].closer)
  <2>1. drawer[b].opened <= payment[p].at /\ payment[p].at <= drawer[a].closed
    BY <1>1, <1>3 DEF TillInv, Till!ShiftCountsItsCash
  <2>2. drawer[a].closer \notin tillBefore[b]
    BY <1>1, <1>3, <2>1, TillTimes DEF TillInv, ReadsLater
  <2> QED
    BY <1>3, <2>2 DEF OpenedAfter, Till!Overlap
<1> QED
  BY <1>2, <1>3 DEF TillInv, DrawersInTurn

\* A shift counts the cash that was taken in it, and no cash is counted by two shifts of one
\* named register, but for what was done while the drawer was being closed.
THEOREM ShiftAlwaysCountsItsCash ==
  ASSUME StoreDayAssumption
  PROVE  Spec => []ShiftCountsItsCash
<1>1. Init => TillInv
  BY TillInit
<1>2. TillInv /\ [Next]_vars => TillInv'
  BY TillStep
<1>3. TillInv => ShiftCountsItsCash
  BY CountedOnce DEF TillInv, ShiftCountsItsCash
<1> QED
  BY <1>1, <1>2, <1>3, PTL DEF Spec

\* A collected order is not charged again by a request that comes after: two payments of one
\* order were taken by requests that overlapped.
THEOREM AlwaysChargedInTurn ==
  ASSUME StoreDayAssumption
  PROVE  Spec => []ChargedInTurn
<1>1. Init => TillInv
  BY TillInit
<1>2. TillInv /\ [Next]_vars => TillInv'
  BY TillStep
<1>3. TillInv => ChargedInTurn
  BY DEF TillInv, ChargedInTurn
<1> QED
  BY <1>1, <1>2, <1>3, PTL DEF Spec

-----------------------------------------------------------------------------
(***************************************************************************)
(* The forms.  What a call found under its key and its number, and what    *)
(* was recorded since.                                                     *)
(***************************************************************************)
FormsTypes ==
  /\ booked \in [Requests -> Docs \cup {None}] /\ post \in [Requests -> Forms!Post]
  /\ callBefore \in [Requests -> SUBSET Requests]
  /\ IsFiniteSet(ledger) /\ \A m \in ledger : m.qty \in Int

\* Who had ended when a request began has ended still.
FormsBegan == \A r \in Requests : \A q \in callBefore[r] : post[q].step = "done"

\* The ledger is what the rows moved; a row is of a request that has ended, of its doc.
FormsWritten ==
  /\ ledger = UNION {Forms!Entered(p, booked[p]) : p \in Forms!Rows}
  /\ \A p \in Forms!Rows : /\ post[p].step = "done" /\ booked[p] = post[p].doc
                           /\ ~ Forms!NoRecipe(booked[p])

\* The calls that look for their number.
LooksUp(d) ==
  d.kind = "order" \/ (d.kind = "purchase" /\ d.key = None /\ d.issuer # None)

\* No row of those that had ended when a call began has its key, or the number it looks for.
NotThere(r, d) ==
  /\ ~ Forms!NoRecipe(d)
  /\ \A q \in callBefore[r] \cap Forms!Rows :
       /\ ~ Forms!SameCall(d, booked[q])
       /\ LooksUp(d) => ~ Forms!SameInvoice(booked[q], d)

\* So it is of those that are about to write.
FormsLooked ==
  \A r \in Requests :
    LET d == post[r].doc
    IN  /\ post[r].step = "new" => d = None
        /\ post[r].step \in {"new", "begun", "ready"} => post[r].answer = None
        /\ post[r].step \in {"begun", "ready"} => d \in Docs
        /\ post[r].step = "ready" => NotThere(r, d)

KeysOnce ==
  \A p, q \in Forms!Rows :
    p # q /\ Forms!SameCall(booked[p], booked[q]) => Forms!Overlap(callBefore, p, q)

FormsInv ==
  /\ FormsTypes /\ FormsBegan /\ FormsWritten /\ FormsLooked
  /\ KeysOnce /\ Forms!NumbersOnce /\ Forms!RetriesSettle

\* An image of a finite set is finite.
LEMMA ImageFinite ==
  ASSUME NEW S, IsFiniteSet(S), NEW f
  PROVE  IsFiniteSet({f[x] : x \in S})
<1> DEFINE T == {f[x] : x \in S}
           g == [x \in S |-> f[x]]
<1>1. g \in Surjection(S, T)
  BY DEF Surjection
<1> QED
  BY <1>1, FS_Surjection

\* What a doc moves is some amounts, finitely many.
LEMMA MovementsAre ==
  ASSUME StoreDayAssumption, NEW d \in Docs
  PROVE  /\ IsFiniteSet(Forms!Movements(d)) /\ Forms!Movements(d) # {}
         /\ \A m \in Forms!Movements(d) : m.qty \in Int
<1>1. ASSUME NEW of, NEW q \in Int
      PROVE  /\ IsFiniteSet({[of |-> of, qty |-> q]}) /\ {[of |-> of, qty |-> q]} # {}
             /\ \A m \in {[of |-> of, qty |-> q]} : m.qty \in Int
  <2>1. PICK x : x = [of |-> of, qty |-> q]
    OBVIOUS
  <2>2. IsFiniteSet({x})
    BY FS_Singleton
  <2>3. x.qty \in Int
    BY <2>1
  <2> QED
    BY <2>1, <2>2, <2>3
<1>2. ASSUME NEW dish \in DOMAIN RecipeOf, NEW n \in Int
      PROVE  /\ IsFiniteSet(Forms!Consumed(dish, n)) /\ Forms!Consumed(dish, n) # {}
             /\ \A m \in Forms!Consumed(dish, n) : m.qty \in Int
  <2>1. CASE DOMAIN RecipeOf[dish] = {}
    <3>1. Forms!Consumed(dish, n) = {[of |-> Placeholder, qty |-> -1]}
      BY <2>1 DEF Forms!Consumed, Forms!Ingredients, Forms!StandIn
    <3>2. -1 \in Int
      OBVIOUS
    <3> QED
      BY <1>1, <3>1, <3>2
  <2>2. CASE DOMAIN RecipeOf[dish] # {}
    <3>1. PICK D : D = DOMAIN RecipeOf[dish]
      OBVIOUS
    <3> DEFINE f == [i \in D |-> [of |-> i, qty |-> - n * RecipeOf[dish][i]]]
    <3>2. Forms!Consumed(dish, n) = {f[i] : i \in D}
      BY <2>2, <3>1 DEF Forms!Consumed, Forms!Ingredients, Forms!StandIn
    <3>3. IsFiniteSet(D) /\ \A i \in D : RecipeOf[dish][i] \in Int
      BY <3>1 DEF StoreDayAssumption, Forms!IntakeAssumption, Forms!IsFiniteSet, IsFiniteSet
    <3>4. \A i \in D : f[i].qty \in Int
      <4> TAKE i \in D
      <4>1. PICK k \in Int : k = RecipeOf[dish][i]
        BY <3>3
      <4>2. - n * k \in Int
        OBVIOUS
      <4> QED
        BY <4>1, <4>2
    <3>5. IsFiniteSet({f[i] : i \in D})
      <4> HIDE DEF f
      <4> QED
        BY <3>3, ImageFinite
    <3>6. D # {}
      BY <2>2, <3>1
    <3> HIDE DEF f
    <3> QED
      BY <3>2, <3>4, <3>5, <3>6
  <2> QED
    BY <2>1, <2>2
<1>3. /\ d.kind \in Forms!Kinds /\ d.qty \in Int /\ - d.qty \in Int
      /\ d.kind = "order" => d.of \in DOMAIN RecipeOf
  BY DEF StoreDayAssumption, Forms!IntakeAssumption
<1>4. CASE d.kind = "order"
  <2>1. Forms!Movements(d) = Forms!Consumed(d.of, d.qty)
    BY <1>4 DEF Forms!Movements
  <2> QED
    BY <1>2, <1>3, <1>4, <2>1
<1>5. CASE d.kind \in {"purchase", "adjustment"}
  <2>1. Forms!Movements(d) = {[of |-> d.of, qty |-> d.qty]}
    BY <1>5 DEF Forms!Movements
  <2> QED
    BY <1>1, <1>3, <2>1
<1>6. CASE d.kind = "waste"
  <2>1. Forms!Movements(d) = {[of |-> d.of, qty |-> - d.qty]}
    BY <1>6 DEF Forms!Movements
  <2> QED
    BY <1>1, <1>3, <2>1
<1>7. CASE d.kind \in {"staff_meal", "tasting"} /\ d.of \in DOMAIN RecipeOf
  <2>1. Forms!Movements(d) = Forms!Consumed(d.of, 1)
    BY <1>7 DEF Forms!Movements
  <2> QED
    BY <1>2, <1>7, <2>1
<1>8. CASE d.kind \in {"staff_meal", "tasting"} /\ d.of \notin DOMAIN RecipeOf
  <2>1. Forms!Movements(d) = {[of |-> d.of, qty |-> - d.qty]}
    BY <1>8 DEF Forms!Movements
  <2> QED
    BY <1>1, <1>3, <2>1
<1> QED
  BY <1>3, <1>4, <1>5, <1>6, <1>7, <1>8 DEF Forms!Kinds

\* So a row enters some movements, which bear its name.
LEMMA EnteredAre ==
  ASSUME StoreDayAssumption, NEW d \in Docs
  PROVE  \A p : /\ IsFiniteSet(Forms!Entered(p, d)) /\ Forms!Entered(p, d) # {}
               /\ \A m \in Forms!Entered(p, d) : m.row = p /\ m.qty \in Int
<1> TAKE p
<1>1. PICK M : M = Forms!Movements(d)
  OBVIOUS
<1>2. IsFiniteSet(M) /\ M # {} /\ \A m \in M : m.qty \in Int
  BY <1>1, MovementsAre
<1> DEFINE f == [m \in M |-> [row |-> p, of |-> m.of, qty |-> m.qty]]
<1>3. Forms!Entered(p, d) = {f[m] : m \in M}
  BY <1>1 DEF Forms!Entered
<1>4. \A m \in M : f[m].row = p /\ f[m].qty \in Int
  BY <1>2
<1> HIDE DEF f
<1>5. IsFiniteSet({f[m] : m \in M})
  BY <1>2, ImageFinite
<1> QED
  BY <1>2, <1>3, <1>4, <1>5

\* A row has a movement, so a look for its key finds it.
LEMMA KeysFound ==
  ASSUME StoreDayAssumption, FormsInv, NEW d, NEW q \in Forms!Rows, Forms!SameCall(d, booked[q])
  PROVE  q \in Forms!SameKey(d)
<1>1. q \in Requests /\ booked[q] \in Docs
  BY DEF Forms!Rows, FormsInv, FormsTypes
<1>2. Forms!Entered(q, booked[q]) # {} /\ \A m \in Forms!Entered(q, booked[q]) : m.row = q
  BY <1>1, EnteredAre
<1>3. \E m \in ledger : m.row = q
  BY <1>2 DEF FormsInv, FormsWritten
<1> QED
  BY <1>3 DEF Forms!SameKey, Forms!SameCall

\* A call goes on, or ends without a row.
LEMMA FormsGoOn ==
  ASSUME StoreDayAssumption, FormsInv, NEW r \in Requests, NEW c \in Forms!Post,
         post[r].step \in {"begun", "ready"}, post' = [post EXCEPT ![r] = c],
         UNCHANGED <<booked, ledger, callBefore>>, c.doc = post[r].doc,
         c.step \in {"ready", "done"},
         c.step = "ready" => c.answer = None /\ NotThere(r, c.doc),
         c.answer = "refused" =>
           \A q \in Forms!Rows : booked[q].key # None => booked[q] # c.doc
  PROVE  FormsInv'
<1>1. /\ post' \in [Requests -> Forms!Post] /\ post'[r] = c
      /\ \A q \in Requests : q # r => post'[q] = post[q]
  BY DEF FormsInv, FormsTypes
<1>2. Forms!Rows' = Forms!Rows /\ Forms!Rows \subseteq Requests
  BY DEF Forms!Rows
<1>3. FormsTypes'
  BY <1>1 DEF FormsInv, FormsTypes
<1>4. FormsBegan'
  BY <1>1 DEF FormsInv, FormsTypes, FormsBegan
<1>5. FormsWritten'
  <2>1. ledger' = UNION {Forms!Entered(p, booked'[p]) : p \in Forms!Rows'}
    BY <1>2 DEF FormsInv, FormsWritten
  <2>2. \A p \in Forms!Rows : p # r
    BY DEF FormsInv, FormsWritten
  <2> QED
    BY <1>1, <1>2, <2>1, <2>2 DEF FormsInv, FormsWritten
<1>6. FormsLooked'
  <2> SUFFICES ASSUME NEW s \in Requests, NEW d, d = post'[s].doc
               PROVE  /\ post'[s].step = "new" => d = None
                      /\ post'[s].step \in {"new", "begun", "ready"} => post'[s].answer = None
                      /\ post'[s].step \in {"begun", "ready"} => d \in Docs
                      /\ post'[s].step = "ready" => NotThere(s, d)
    BY <1>2 DEF FormsLooked, NotThere
  <2>1. CASE s = r
    BY <1>1, <2>1 DEF FormsInv, FormsLooked
  <2>2. CASE s # r
    BY <1>1, <2>2 DEF FormsInv, FormsLooked
  <2> QED
    BY <2>1, <2>2
<1>7. KeysOnce' /\ Forms!NumbersOnce'
  BY <1>2 DEF FormsInv, KeysOnce, Forms!NumbersOnce, Forms!Overlap
<1>8. Forms!RetriesSettle'
  <2> SUFFICES ASSUME NEW s \in Requests, NEW q \in Forms!Rows,
                      post'[s].doc # None, booked[q].key # None, post'[s].doc = booked[q]
               PROVE  /\ s \in Forms!Rows /\ s # q => Forms!Overlap(callBefore, q, s)
                      /\ q \in callBefore[s] => post'[s].answer # "refused"
    BY <1>2 DEF Forms!RetriesSettle
  <2>1. post'[s].doc = post[s].doc
    BY <1>1
  <2>2. /\ s \in Forms!Rows /\ s # q => Forms!Overlap(callBefore, q, s)
        /\ q \in callBefore[s] => post[s].answer # "refused"
    BY <2>1 DEF FormsInv, Forms!RetriesSettle
  <2>3. CASE s = r
    BY <1>1, <2>1, <2>2, <2>3
  <2>4. CASE s # r
    BY <1>1, <2>2, <2>4
  <2> QED
    BY <2>3, <2>4
<1> QED
  BY <1>3, <1>4, <1>5, <1>6, <1>7, <1>8 DEF FormsInv

\* The call was made before, or failed.
LEMMA FormsReplay ==
  ASSUME StoreDayAssumption, FormsInv, NEW r \in Requests, Forms!Replay(r) \/ Forms!Rollback(r)
  PROVE  FormsInv'
<1>1. /\ post[r].step \in {"begun", "ready"} /\ UNCHANGED <<booked, ledger, callBefore>>
  BY DEF Forms!Replay, Forms!Rollback, Forms!InFlight
<1>2. PICK a : /\ a \in Requests \cup {"failed"}
               /\ post' = [post EXCEPT ![r].step = "done", ![r].answer = a]
  BY DEF Forms!Replay, Forms!Rollback, Forms!Answer, Forms!SameKey, Forms!Rows
<1>3. PICK x : x = post[r] /\ x \in Forms!Post
  BY DEF FormsInv, FormsTypes
<1>4. PICK c : c = [x EXCEPT !.step = "done", !.answer = a]
  OBVIOUS
<1>5. c \in Forms!Post /\ c.doc = x.doc /\ c.step = "done" /\ c.answer = a
  BY <1>2, <1>3, <1>4 DEF Forms!Post
<1>6. post' = [post EXCEPT ![r] = c]
  BY <1>2, <1>3, <1>4 DEF FormsInv, FormsTypes
<1>7. c.answer # "refused" /\ c.step # "ready" /\ c.doc = post[r].doc
  BY <1>2, <1>3, <1>5 DEF StoreDayAssumption, Forms!IntakeAssumption
<1> QED
  BY <1>1, <1>5, <1>6, <1>7, FormsGoOn

\* A call is refused whose number is taken or whose dish has no recipe: it was not recorded
\* before, or it would have been found by its key.
LEMMA FormsRefuse ==
  ASSUME StoreDayAssumption, FormsInv, NEW r \in Requests, Forms!Refuse(r)
  PROVE  FormsInv'
<1>1. /\ post[r].step = "begun" /\ UNCHANGED <<booked, ledger, callBefore>>
      /\ post' = [post EXCEPT ![r].step = "done", ![r].answer = "refused"]
      /\ Forms!Taken(post[r].doc) \/ Forms!NoRecipe(post[r].doc)
  BY DEF Forms!Refuse, Forms!Answer
<1>2. PICK x : x = post[r] /\ x \in Forms!Post
  BY DEF FormsInv, FormsTypes
<1>3. PICK c : c = [x EXCEPT !.step = "done", !.answer = "refused"]
  OBVIOUS
<1>4. c \in Forms!Post /\ c.doc = post[r].doc /\ c.step = "done" /\ c.step # "ready"
  BY <1>2, <1>3 DEF Forms!Post
<1>5. post' = [post EXCEPT ![r] = c]
  BY <1>1, <1>2, <1>3 DEF FormsInv, FormsTypes
<1>6. ASSUME NEW q \in Forms!Rows, booked[q].key # None, booked[q] = c.doc PROVE FALSE
  <2>1. ~ Forms!NoRecipe(c.doc)
    BY <1>6 DEF FormsInv, FormsWritten
  <2>2. Forms!SameCall(c.doc, booked[q])
    BY <1>6 DEF Forms!SameCall
  <2>3. q \in Forms!SameKey(c.doc)
    BY <2>2, KeysFound
  <2> QED
    BY <1>1, <1>4, <1>6, <2>1, <2>3 DEF Forms!Taken
<1>7. \A q \in Forms!Rows : booked[q].key # None => booked[q] # c.doc
  BY <1>6
<1>8. post[r].step \in {"begun", "ready"} /\ c.step \in {"ready", "done"}
  BY <1>1, <1>4
<1> QED
  BY <1>1, <1>4, <1>5, <1>7, <1>8, FormsGoOn

\* A call is found new: no row there is has its key, or the number it looks for.
LEMMA FormsInserts ==
  ASSUME StoreDayAssumption, FormsInv, NEW r \in Requests,
         Forms!InsertOrder(r) \/ Forms!InsertStock(r) \/ Forms!InsertEvent(r)
  PROVE  FormsInv'
<1>1. /\ post[r].step = "begun" /\ UNCHANGED <<booked, ledger, callBefore>>
      /\ post' = [post EXCEPT ![r].step = "ready"]
      /\ Forms!SameKey(post[r].doc) = {} /\ ~ Forms!NoRecipe(post[r].doc)
      /\ post[r].doc.kind \in Forms!Numbered => ~ Forms!Taken(post[r].doc)
  BY DEF Forms!InsertOrder, Forms!InsertStock, Forms!InsertEvent, Forms!NoRecipe, Forms!Numbered
<1>2. PICK x : x = post[r] /\ x \in Forms!Post
  BY DEF FormsInv, FormsTypes
<1>3. PICK c : c = [x EXCEPT !.step = "ready"]
  OBVIOUS
<1>4. x.answer = None
  BY <1>1, <1>2 DEF FormsInv, FormsLooked
<1>5. c \in Forms!Post /\ c.doc = post[r].doc /\ c.step = "ready" /\ c.answer = None
  BY <1>2, <1>3, <1>4 DEF Forms!Post
<1>6. post' = [post EXCEPT ![r] = c]
  BY <1>1, <1>2, <1>3 DEF FormsInv, FormsTypes
<1>7. ASSUME NEW q \in Forms!Rows PROVE ~ Forms!SameCall(c.doc, booked[q])
  BY <1>1, <1>5, <1>7, KeysFound
<1>8. ASSUME NEW q \in Forms!Rows,
             LooksUp(c.doc)
      PROVE  ~ Forms!SameInvoice(booked[q], c.doc)
  <2>1. Forms!SameNumber(c.doc) = {}
    BY <1>1, <1>5, <1>8 DEF Forms!Taken, Forms!Numbered, LooksUp
  <2> QED
    BY <2>1, <1>8 DEF Forms!SameNumber
<1>9. NotThere(r, c.doc)
  BY <1>1, <1>5, <1>7, <1>8 DEF NotThere
<1>10. c.answer # "refused"
  BY <1>5 DEF StoreDayAssumption, Forms!IntakeAssumption
<1> QED
  BY <1>1, <1>5, <1>6, <1>9, <1>10, FormsGoOn

\* A call begins.
LEMMA FormsBegins ==
  ASSUME StoreDayAssumption, FormsInv, NEW r \in Requests, NEW e \in Docs, Forms!Begin(r, e)
  PROVE  FormsInv'
<1>1. /\ post[r].step = "new" /\ post' = [post EXCEPT ![r].doc = e, ![r].step = "begun"]
      /\ callBefore' = [callBefore EXCEPT ![r] = {q \in Requests : post[q].step = "done"}]
      /\ UNCHANGED <<booked, ledger>>
  BY DEF Forms!Begin
<1>2. PICK x : x = post[r] /\ x \in Forms!Post /\ x.answer = None
  BY <1>1 DEF FormsInv, FormsTypes, FormsLooked
<1>3. PICK c : c = [x EXCEPT !.doc = e, !.step = "begun"]
  OBVIOUS
<1>4. c \in Forms!Post /\ c.doc = e /\ c.step = "begun" /\ c.answer = None
  BY <1>2, <1>3 DEF Forms!Post
<1>5. /\ post' \in [Requests -> Forms!Post] /\ post'[r] = c
      /\ \A q \in Requests : q # r => post'[q] = post[q]
  BY <1>1, <1>2, <1>3, <1>4 DEF FormsInv, FormsTypes
<1>6. /\ callBefore' \in [Requests -> SUBSET Requests]
      /\ callBefore'[r] = {q \in Requests : post[q].step = "done"}
      /\ \A q \in Requests : q # r => callBefore'[q] = callBefore[q]
  BY <1>1 DEF FormsInv, FormsTypes
<1>7. Forms!Rows' = Forms!Rows /\ Forms!Rows \subseteq Requests /\ r \notin Forms!Rows
  BY <1>1 DEF Forms!Rows, FormsInv, FormsWritten
<1>8. FormsTypes'
  BY <1>1, <1>5, <1>6 DEF FormsInv, FormsTypes
<1>9. FormsBegan'
  <2> SUFFICES ASSUME NEW s \in Requests, NEW q \in callBefore'[s]
               PROVE  post'[q].step = "done"
    BY DEF FormsBegan
  <2>1. q \in Requests /\ post[q].step = "done"
    BY <1>6 DEF FormsInv, FormsTypes, FormsBegan
  <2> QED
    BY <1>1, <1>5, <2>1
<1>10. FormsWritten'
  <2>1. ledger' = UNION {Forms!Entered(p, booked'[p]) : p \in Forms!Rows'}
    BY <1>1, <1>7 DEF FormsInv, FormsWritten
  <2> QED
    BY <1>1, <1>5, <1>7, <2>1 DEF FormsInv, FormsWritten
<1>11. FormsLooked'
  <2> DEFINE Looked(s, d) ==
               /\ post'[s].step = "new" => d = None
               /\ post'[s].step \in {"new", "begun", "ready"} => post'[s].answer = None
               /\ post'[s].step \in {"begun", "ready"} => d \in Docs
               /\ post'[s].step = "ready" =>
                    /\ ~ Forms!NoRecipe(d)
                    /\ \A q \in callBefore'[s] \cap Forms!Rows :
                         /\ ~ Forms!SameCall(d, booked[q])
                         /\ LooksUp(d) => ~ Forms!SameInvoice(booked[q], d)
  <2>0. booked' = booked /\ Forms!Rows' = Forms!Rows
    BY <1>1, <1>7
  <2> SUFFICES ASSUME NEW s \in Requests PROVE Looked(s, post'[s].doc)
    BY <2>0, Zenon DEF FormsLooked, NotThere
  <2>1. CASE s = r
    BY <1>4, <1>5, <2>1
  <2>2. CASE s # r
    BY <1>5, <1>6, <2>2 DEF FormsInv, FormsLooked, NotThere
  <2> QED
    BY <2>1, <2>2
<1>12. KeysOnce' /\ Forms!NumbersOnce'
  <2>1. \A p, q \in Forms!Rows : Forms!Overlap(callBefore, p, q) => Forms!Overlap(callBefore', p, q)
    BY <1>6, <1>7 DEF Forms!Overlap
  <2> QED
    BY <1>1, <1>7, <2>1 DEF FormsInv, KeysOnce, Forms!NumbersOnce
<1>13. Forms!RetriesSettle'
  <2> SUFFICES ASSUME NEW s \in Requests, NEW q \in Forms!Rows,
                      post'[s].doc # None, booked[q].key # None, post'[s].doc = booked[q]
               PROVE  /\ s \in Forms!Rows /\ s # q => Forms!Overlap(callBefore', q, s)
                      /\ q \in callBefore'[s] => post'[s].answer # "refused"
    BY <1>1, <1>7 DEF Forms!RetriesSettle
  <2>1. CASE s = r
    BY <1>4, <1>5, <1>7, <2>1 DEF StoreDayAssumption, Forms!IntakeAssumption
  <2>2. CASE s # r
    BY <1>5, <1>6, <1>7, <2>2 DEF FormsInv, Forms!RetriesSettle, Forms!Overlap
  <2> QED
    BY <2>1, <2>2
<1> QED
  BY <1>8, <1>9, <1>10, <1>11, <1>12, <1>13 DEF FormsInv

\* A row is recorded: those it may double had not ended when its request began, and nobody
\* had seen it end.
LEMMA FormsCommits ==
  ASSUME StoreDayAssumption, FormsInv, NEW r \in Requests, Forms!Commit(r)
  PROVE  FormsInv'
<1>1. PICK x : x = post[r] /\ x \in Forms!Post
  BY DEF FormsInv, FormsTypes
<1>2. PICK d : d = x.doc
  OBVIOUS
<1>3. /\ x.step = "ready" /\ booked' = [booked EXCEPT ![r] = d]
      /\ ledger' = ledger \cup Forms!Entered(r, d) /\ callBefore' = callBefore
      /\ post' = [post EXCEPT ![r].step = "done", ![r].answer = r]
  BY <1>1, <1>2 DEF Forms!Commit, Forms!Answer
<1>4. PICK c : c = [x EXCEPT !.step = "done", !.answer = r]
  OBVIOUS
<1>5. c \in Forms!Post /\ c.doc = d /\ c.step = "done" /\ c.answer = r
  BY <1>1, <1>2, <1>4 DEF Forms!Post
<1>6. /\ post' \in [Requests -> Forms!Post] /\ post'[r] = c
      /\ \A q \in Requests : q # r => post'[q] = post[q]
  BY <1>1, <1>3, <1>4, <1>5 DEF FormsInv, FormsTypes
<1>7. /\ d \in Docs /\ d # None /\ ~ Forms!NoRecipe(d)
      /\ \A q \in callBefore[r] \cap Forms!Rows :
           /\ ~ Forms!SameCall(d, booked[q])
           /\ LooksUp(d) => ~ Forms!SameInvoice(booked[q], d)
  BY <1>1, <1>2, <1>3
  DEF FormsInv, FormsLooked, NotThere, StoreDayAssumption, Forms!IntakeAssumption
<1>8. /\ r \notin Forms!Rows
      /\ \A s \in Requests : callBefore[s] \in SUBSET Requests /\ r \notin callBefore[s]
  BY <1>1, <1>3 DEF FormsInv, FormsWritten, FormsBegan, FormsTypes
<1>9. /\ booked' \in [Requests -> Docs \cup {None}] /\ booked'[r] = d
      /\ \A q \in Requests : q # r => booked'[q] = booked[q]
  BY <1>3, <1>7 DEF FormsInv, FormsTypes
<1>10. Forms!Rows' = Forms!Rows \cup {r} /\ Forms!Rows \subseteq Requests
  BY <1>7, <1>9 DEF Forms!Rows
<1>11. FormsTypes'
  <2>1. IsFiniteSet(Forms!Entered(r, d)) /\ \A m \in Forms!Entered(r, d) : m.qty \in Int
    BY <1>7, EnteredAre
  <2>2. IsFiniteSet(ledger')
    BY <1>3, <2>1, FS_Union DEF FormsInv, FormsTypes
  <2> QED
    BY <1>3, <1>6, <1>9, <2>1, <2>2 DEF FormsInv, FormsTypes
<1>12. FormsBegan'
  BY <1>3, <1>5, <1>6, <1>8 DEF FormsInv, FormsBegan
<1>13. FormsWritten'
  <2>1. ledger' = UNION {Forms!Entered(p, booked'[p]) : p \in Forms!Rows'}
    <3> DEFINE E(p) == Forms!Entered(p, booked[p])
               F(p) == Forms!Entered(p, booked'[p])
    <3>1. ledger = UNION {E(p) : p \in Forms!Rows}
      BY DEF FormsInv, FormsWritten
    <3>2. F(r) = Forms!Entered(r, d) /\ \A p \in Forms!Rows : F(p) = E(p)
      BY <1>8, <1>9, <1>10
    <3>3. ledger' = ledger \cup F(r)
      BY <1>3, <3>2
    <3> HIDE DEF E, F
    <3>4. ledger' = UNION {F(p) : p \in Forms!Rows \cup {r}}
      BY <3>1, <3>2, <3>3
    <3>5. ledger' = UNION {F(p) : p \in Forms!Rows'}
      BY <1>10, <3>4
    <3> QED
      BY <3>5 DEF F
  <2>2. ASSUME NEW p \in Forms!Rows'
        PROVE  /\ post'[p].step = "done" /\ booked'[p] = post'[p].doc
               /\ ~ Forms!NoRecipe(booked'[p])
    <3>1. CASE p = r
      BY <1>5, <1>6, <1>7, <1>9, <3>1
    <3>2. CASE p # r
      BY <1>6, <1>9, <1>10, <3>2 DEF FormsInv, FormsWritten
    <3> QED
      BY <3>1, <3>2
  <2> QED
    BY <2>1, <2>2 DEF FormsWritten, Forms!NoRecipe
<1>14. FormsLooked'
  <2> DEFINE Looked(s, e) ==
               /\ post'[s].step = "new" => e = None
               /\ post'[s].step \in {"new", "begun", "ready"} => post'[s].answer = None
               /\ post'[s].step \in {"begun", "ready"} => e \in Docs
               /\ post'[s].step = "ready" =>
                    /\ ~ Forms!NoRecipe(e)
                    /\ \A q \in callBefore'[s] \cap Forms!Rows' :
                         /\ ~ Forms!SameCall(e, booked'[q])
                         /\ LooksUp(e) => ~ Forms!SameInvoice(booked'[q], e)
  <2>1. \A s \in Requests : Looked(s, post'[s].doc)
    <3> TAKE s \in Requests
    <3>1. CASE s = r
      BY <1>5, <1>6, <3>1
    <3>2. CASE s # r
      <4>1. post'[s] = post[s] /\ callBefore'[s] = callBefore[s]
        BY <1>3, <1>6, <3>2
      <4>2. \A q \in callBefore'[s] \cap Forms!Rows' :
              q \in callBefore[s] \cap Forms!Rows /\ booked'[q] = booked[q]
        BY <1>8, <1>9, <1>10, <4>1
      <4> QED
        BY <4>1, <4>2 DEF FormsInv, FormsLooked, NotThere
    <3> QED
      BY <3>1, <3>2
  <2> QED
    BY <2>1, Zenon DEF FormsLooked, NotThere
<1>15. ASSUME NEW q \in Forms!Rows, ~ Forms!Overlap(callBefore, r, q)
       PROVE  q \in callBefore[r]
  BY <1>8, <1>10, <1>15 DEF Forms!Overlap
<1>16. \A p, q : Forms!Overlap(callBefore, p, q) <=> Forms!Overlap(callBefore, q, p)
  BY DEF Forms!Overlap
<1>17. KeysOnce'
  <2> SUFFICES ASSUME NEW p \in Forms!Rows', NEW q \in Forms!Rows', p # q,
                      Forms!SameCall(booked'[p], booked'[q])
               PROVE  Forms!Overlap(callBefore, p, q)
    BY <1>3 DEF KeysOnce, Forms!Overlap, Forms!SameCall
  <2>1. CASE p = r
    BY <1>7, <1>9, <1>10, <1>15, <2>1
  <2>2. CASE q = r
    <3>1. Forms!SameCall(booked'[q], booked'[p])
      BY DEF Forms!SameCall
    <3> QED
      BY <1>7, <1>9, <1>10, <1>15, <1>16, <2>2, <3>1
  <2>3. CASE p # r /\ q # r
    BY <1>9, <1>10, <2>3 DEF FormsInv, KeysOnce
  <2> QED
    BY <2>1, <2>2, <2>3
<1>18. Forms!NumbersOnce'
  <2> SUFFICES ASSUME NEW p \in Forms!Rows', NEW q \in Forms!Rows', p # q,
                      Forms!SameInvoice(booked'[p], booked'[q]),
                      booked'[p].kind \in Forms!Numbered
               PROVE  \/ Forms!Overlap(callBefore, p, q)
                      \/ /\ booked'[p].kind = "purchase"
                         /\ \/ booked'[p].issuer = None
                            \/ \E s \in {p, q} : booked'[s].key # None
    BY <1>3 DEF Forms!NumbersOnce, Forms!Overlap, Forms!SameInvoice
  <2>1. ASSUME NEW t \in Forms!Rows, Forms!SameInvoice(booked[t], d), d.kind \in Forms!Numbered
        PROVE  \/ Forms!Overlap(callBefore, r, t)
               \/ d.kind = "purchase" /\ (d.key # None \/ d.issuer = None)
    BY <1>7, <1>15, <2>1 DEF Forms!Numbered, LooksUp
  <2>2. /\ Forms!SameInvoice(booked'[q], booked'[p])
        /\ booked'[q].kind = booked'[p].kind /\ booked'[q].issuer = booked'[p].issuer
    BY DEF Forms!SameInvoice
  <2>3. CASE p = r
    BY <1>9, <1>10, <2>1, <2>2, <2>3
  <2>4. CASE q = r
    BY <1>9, <1>10, <1>16, <2>1, <2>2, <2>4
  <2>5. CASE p # r /\ q # r
    BY <1>9, <1>10, <2>5 DEF FormsInv, Forms!NumbersOnce
  <2> QED
    BY <2>3, <2>4, <2>5
<1>19. Forms!RetriesSettle'
  <2> SUFFICES ASSUME NEW s \in Requests, NEW q \in Forms!Rows',
                      post'[s].doc # None, booked'[q].key # None, post'[s].doc = booked'[q]
               PROVE  /\ s \in Forms!Rows' /\ s # q => Forms!Overlap(callBefore, q, s)
                      /\ q \in callBefore[s] => post'[s].answer # "refused"
    BY <1>3 DEF Forms!RetriesSettle, Forms!Overlap
  <2>1. s \in Forms!Rows' => booked'[s] = post'[s].doc
    BY <1>13 DEF FormsWritten
  <2>2. s \in Forms!Rows' /\ s # q => Forms!Overlap(callBefore, q, s)
    <3>1. s \in Forms!Rows' => Forms!SameCall(booked'[q], booked'[s])
      BY <2>1 DEF Forms!SameCall
    <3>2. s \in Forms!Rows' /\ s # q => Forms!Overlap(callBefore', q, s)
      BY <1>17, <3>1 DEF KeysOnce
    <3> QED
      BY <1>3, <3>2
  <2>3. CASE s = r
    BY <1>5, <1>6, <2>2, <2>3 DEF StoreDayAssumption, Forms!IntakeAssumption
  <2>4. CASE q = r
    BY <1>8, <2>2, <2>4
  <2>5. CASE s # r /\ q # r
    BY <1>6, <1>9, <1>10, <2>2, <2>5 DEF FormsInv, Forms!RetriesSettle
  <2> QED
    BY <2>3, <2>4, <2>5
<1> QED
  BY <1>11, <1>12, <1>13, <1>14, <1>17, <1>18, <1>19 DEF FormsInv

\* What was moved of something is a sum.
LEMMA MovedIs ==
  ASSUME NEW i, NEW M, IsFiniteSet(M), \A m \in M : m.qty \in Int,
         NEW S, S = {m \in M : m.of = i}, NEW f, \A m \in S : f[m] = m.qty
  PROVE  Forms!Moved(i, M) = SumFunctionOnSet(f, S)
<1>0. IsFiniteSet(S) /\ \A m \in S : f[m] \in Int
  BY FS_Subset
<1>1. PICK g : AddsUp(f, S, g)
  BY <1>0, SumsExist
<1> DEFINE ByQty(h) ==
      h = [s \in SUBSET S |-> IF s = {} THEN 0 ELSE AnyOf(s).qty + h[s \ {AnyOf(s)}]]
           iter == CHOOSE h : ByQty(h)
<1>2. Forms!Moved(i, M) = iter[S]
  BY Zenon DEF Forms!Moved, Forms!MapThenSumSet, Forms!MapThenFoldSet, AnyOf
<1>3. \A s \in SUBSET S : s # {} => AnyOf(s) \in s
  BY DEF AnyOf
<1>4. ByQty(g)
  <2>1. \A s \in SUBSET S :
          g[s] = IF s = {} THEN 0 ELSE AnyOf(s).qty + g[s \ {AnyOf(s)}]
    <3> TAKE s \in SUBSET S
    <3>1. s # {} => AnyOf(s) \in S /\ f[AnyOf(s)] = AnyOf(s).qty
      BY <1>3
    <3> QED
      <4>1. g[{}] = 0 /\ \A x \in s : g[s] = f[x] + g[s \ {x}]
        BY <1>1 DEF AddsUp
      <4> QED
        BY <1>3, <3>1, <4>1
  <2>2. g = [s \in SUBSET S |-> g[s]]
    BY <1>1 DEF AddsUp
  <2> QED
    BY <2>1, <2>2
<1>5. ByQty(iter)
  BY <1>4
<1> DEFINE Q == {s \in SUBSET S : iter[s] = g[s]}
<1> HIDE DEF iter
<1>6. \A s \in SUBSET S :
        iter[s] = IF s = {} THEN 0 ELSE AnyOf(s).qty + iter[s \ {AnyOf(s)}]
  BY <1>5
<1>7. ASSUME NEW s \in SUBSET S, \A x \in s : s \ {x} \in Q PROVE s \in Q
  <2>1. CASE s = {}
    BY <1>1, <1>6, <2>1 DEF AddsUp
  <2>2. CASE s # {}
    <3>1. AnyOf(s) \in s /\ iter[s \ {AnyOf(s)}] = g[s \ {AnyOf(s)}]
      BY <1>3, <1>7, <2>2
    <3>2. g[s] = AnyOf(s).qty + g[s \ {AnyOf(s)}]
      BY <1>1, <3>1 DEF AddsUp
    <3> QED
      BY <1>6, <2>2, <3>1, <3>2
  <2> QED
    BY <2>1, <2>2
<1>8. iter[S] = g[S]
  <2> HIDE DEF Q
  <2>1. Q \in SUBSET SUBSET S
    BY DEF Q
  <2>2. Q = SUBSET S
    BY <1>0, <1>7, <2>1, SizeInduction
  <2> QED
    BY <2>2 DEF Q
<1> QED
  BY <1>0, <1>1, <1>2, <1>8, FoldSums

\* If no two rows are of one call, naming the movements by the call instead of by the row
\* changes no sum.
LEMMA CallsCountedOnce ==
  ASSUME StoreDayAssumption, FormsInv
  PROVE  Forms!StockCountsACallOnce
<1> DEFINE Tries(p) == {q \in Requests : /\ post[q].doc # None
                                         /\ Forms!SameCall(post[q].doc, booked[p])}
           Call(p) == IF booked[p].key = None THEN <<p>> ELSE <<booked[p].kind, booked[p].key>>
           Told == UNION {Forms!Entered(Call(p), booked[p]) : p \in Forms!Rows}
<1> SUFFICES ASSUME \A p \in Forms!Rows :
                      \A q, t \in Tries(p) : q # t => ~ Forms!Overlap(callBefore, q, t)
             PROVE  \A i : Forms!Moved(i, ledger) = Forms!Moved(i, Told)
  BY DEF Forms!StockCountsACallOnce
<1>1. \A p \in Forms!Rows : /\ p \in Requests /\ booked[p] \in Docs /\ post[p].doc = booked[p]
                            /\ booked[p] # None
  BY DEF Forms!Rows, FormsInv, FormsTypes, FormsWritten
<1>2. ASSUME NEW p \in Forms!Rows, NEW q \in Forms!Rows, Call(p) = Call(q) PROVE p = q
  <2>1. \A a, b, c : <<a>> # <<b, c>>
    <3> TAKE a, b, c
    <3>1. Len(<<a>>) = 1 /\ Len(<<b, c>>) = 2
      OBVIOUS
    <3> QED
      BY <3>1
  <2>2. CASE booked[p].key = None
    BY <1>2, <2>1, <2>2
  <2>3. CASE booked[p].key # None
    <3>1. booked[q].key # None
      BY <1>2, <2>1, <2>3
    <3>2. booked[p].kind = booked[q].kind /\ booked[p].key = booked[q].key
      BY <1>2, <2>3, <3>1
    <3>3. p \in Tries(p) /\ q \in Tries(p) /\ Forms!SameCall(booked[p], booked[q])
      BY <1>1, <2>3, <3>2 DEF Forms!SameCall
    <3>4. p # q => ~ Forms!Overlap(callBefore, p, q)
      BY <3>3
    <3> QED
      BY <3>3, <3>4 DEF FormsInv, KeysOnce
  <2> QED
    BY <2>2, <2>3
<1> HIDE DEF Call
<1>3. ledger = UNION {Forms!Entered(p, booked[p]) : p \in Forms!Rows}
  BY DEF FormsInv, FormsWritten
<1>4. IsFiniteSet(ledger) /\ \A m \in ledger : m.qty \in Int
  BY DEF FormsInv, FormsTypes
<1> DEFINE g == [m \in ledger |-> [row |-> Call(m.row), of |-> m.of, qty |-> m.qty]]
<1>5. \A m \in ledger : /\ m = [row |-> m.row, of |-> m.of, qty |-> m.qty]
                        /\ m.row \in Forms!Rows /\ g[m] \in Told
                        /\ g[m].row = Call(m.row) /\ g[m].of = m.of /\ g[m].qty = m.qty
  <2> TAKE m \in ledger
  <2>1. PICK p \in Forms!Rows : m \in Forms!Entered(p, booked[p])
    BY <1>3
  <2>2. PICK n \in Forms!Movements(booked[p]) : m = [row |-> p, of |-> n.of, qty |-> n.qty]
    BY <2>1 DEF Forms!Entered
  <2>3. m.row = p /\ m.of = n.of /\ m.qty = n.qty
    BY <2>2
  <2>4. g[m] = [row |-> Call(p), of |-> n.of, qty |-> n.qty]
    BY <2>3
  <2>5. g[m] \in Forms!Entered(Call(p), booked[p])
    BY <2>4 DEF Forms!Entered
  <2> QED
    BY <2>2, <2>3, <2>4, <2>5
<1>6. ASSUME NEW t \in Told PROVE \E m \in ledger : g[m] = t
  <2>1. PICK p \in Forms!Rows : t \in Forms!Entered(Call(p), booked[p])
    OBVIOUS
  <2>2. PICK n \in Forms!Movements(booked[p]) : t = [row |-> Call(p), of |-> n.of, qty |-> n.qty]
    BY <2>1 DEF Forms!Entered
  <2>3. PICK m : m = [row |-> p, of |-> n.of, qty |-> n.qty]
    OBVIOUS
  <2>4. m \in Forms!Entered(p, booked[p])
    BY <2>3 DEF Forms!Entered
  <2>5. m \in ledger
    BY <1>3, <2>4
  <2>6. m.row = p /\ m.of = n.of /\ m.qty = n.qty
    BY <2>3
  <2> QED
    BY <2>2, <2>5, <2>6
<1> HIDE DEF Told
<1>7. IsFiniteSet(Told) /\ \A t \in Told : t.qty \in Int
  <2>1. Told = {g[m] : m \in ledger}
    BY <1>5, <1>6
  <2>2. IsFiniteSet({g[m] : m \in ledger})
    <3> HIDE DEF g
    <3> QED
      BY <1>4, ImageFinite
  <2> QED
    BY <1>4, <1>5, <1>6, <2>1, <2>2
<1>8. ASSUME NEW a \in ledger, NEW b \in ledger, g[a] = g[b] PROVE a = b
  <2>1. a.row = b.row
    BY <1>2, <1>5, <1>8
  <2>2. a.of = b.of /\ a.qty = b.qty
    BY <1>5, <1>8
  <2> QED
    BY <1>5, <2>1, <2>2
<1> HIDE DEF g
<1> TAKE i
<1> DEFINE L == {m \in ledger : m.of = i}
           T == {t \in Told : t.of = i}
           f == [t \in T |-> t.qty]
           h == [m \in L |-> m.qty]
           k == [m \in L |-> g[m]]
<1>9. k \in [L -> T] /\ \A m \in L : k[m] = g[m]
  BY <1>5
<1>10. \A a, b \in L : k[a] = k[b] => a = b
  BY <1>8, <1>9
<1>11. \A t \in T : \E m \in L : k[m] = t
  BY <1>5, <1>6, <1>9
<1>12. \A m \in L : f[k[m]] \in Int /\ h[m] = f[k[m]]
  BY <1>4, <1>5, <1>9
<1>13. (\A m \in L : h[m] = m.qty) /\ \A t \in T : f[t] = t.qty
  OBVIOUS
<1>14. IsFiniteSet(L)
  BY <1>4, FS_Subset
<1> HIDE DEF f, h, k
<1>15. SumFunctionOnSet(h, L) = SumFunctionOnSet(f, T)
  BY <1>9, <1>10, <1>11, <1>12, <1>14, SumImage
<1>16. Forms!Moved(i, ledger) = SumFunctionOnSet(h, L)
  BY <1>4, <1>13, MovedIs
<1>17. Forms!Moved(i, Told) = SumFunctionOnSet(f, T)
  BY <1>7, <1>13, MovedIs
<1> QED
  BY <1>15, <1>16, <1>17

\* Only a step on the forms moves the forms.
LEMMA FormsStep ==
  ASSUME StoreDayAssumption, FormsInv, [Next]_vars
  PROVE  FormsInv'
<1>1. CASE UNCHANGED intake
  <2>1. UNCHANGED <<booked, ledger, post, callBefore>>
    BY <1>1 DEF intake
  <2>2. Forms!Rows' = Forms!Rows
    BY <2>1 DEF Forms!Rows
  <2>3. FormsTypes' /\ FormsBegan'
    BY <2>1 DEF FormsInv, FormsTypes, FormsBegan
  <2>4. FormsWritten'
    BY <2>1, <2>2 DEF FormsInv, FormsWritten
  <2>5. FormsLooked'
    BY <2>1, <2>2 DEF FormsInv, FormsLooked, NotThere
  <2>6. KeysOnce' /\ Forms!NumbersOnce' /\ Forms!RetriesSettle'
    BY <2>1, <2>2 DEF FormsInv, KeysOnce, Forms!NumbersOnce, Forms!RetriesSettle
  <2> QED
    BY <2>3, <2>4, <2>5, <2>6 DEF FormsInv
<1>2. CASE OnForms
  <2>1. PICK r \in Requests :
          \/ \E d \in Docs : Forms!Begin(r, d)
          \/ Forms!Replay(r) \/ Forms!Refuse(r)
          \/ Forms!InsertOrder(r) \/ Forms!InsertStock(r) \/ Forms!InsertEvent(r)
          \/ Forms!Commit(r) \/ Forms!Rollback(r)
    BY <1>2 DEF OnForms
  <2> QED
    BY <2>1, FormsBegins, FormsReplay, FormsRefuse, FormsInserts, FormsCommits
<1> QED
  BY <1>1, <1>2 DEF Next, vars, AtTheTill, AtTheClock, OnTheMenu, AtTheDesk, InTheBooks

\* It holds at first, when nothing has been recorded.
LEMMA FormsInit ==
  ASSUME StoreDayAssumption, Init
  PROVE  FormsInv
<1>1. Forms!Init
  BY DEF Init
<1>2. PICK x : x = [doc |-> None, step |-> "new", answer |-> None]
  OBVIOUS
<1>3. x \in Forms!Post /\ x.doc = None /\ x.step = "new" /\ x.answer = None
  BY <1>2 DEF Forms!Post
<1>4. /\ post \in [Requests -> Forms!Post] /\ ledger = {}
      /\ \A r \in Requests : booked[r] = None /\ post[r] = x /\ callBefore[r] = {}
  BY <1>1, <1>2, <1>3 DEF Forms!Init
<1>5. Forms!Rows = {}
  BY <1>4 DEF Forms!Rows
<1>6. IsFiniteSet({})
  BY FS_EmptySet
<1>7. FormsTypes /\ FormsBegan
  BY <1>1, <1>4, <1>6 DEF FormsTypes, FormsBegan, Forms!Init
<1>8. FormsWritten
  BY <1>4, <1>5 DEF FormsWritten
<1>9. FormsLooked /\ KeysOnce /\ Forms!NumbersOnce /\ Forms!RetriesSettle
  BY <1>3, <1>4, <1>5 DEF FormsLooked, KeysOnce, Forms!NumbersOnce, Forms!RetriesSettle
<1> QED
  BY <1>7, <1>8, <1>9 DEF FormsInv

\* Unless two tries overlapped, a call that is made again is recorded once, answered with what
\* was recorded and counted once in the stock, and a number is not given twice.
THEOREM RetriesAlwaysSettle ==
  ASSUME StoreDayAssumption
  PROVE  Spec => []RetriesSettle
<1>1. Init => FormsInv
  BY FormsInit
<1>2. FormsInv /\ [Next]_vars => FormsInv'
  BY FormsStep
<1>3. FormsInv => RetriesSettle
  BY CallsCountedOnce DEF FormsInv, RetriesSettle
<1> QED
  BY <1>1, <1>2, <1>3, PTL DEF Spec

-----------------------------------------------------------------------------
(***************************************************************************)
(* The members.  What was told of a code before a request began, and what  *)
(* the request finds under the code.                                       *)
(***************************************************************************)
DeskTypes ==
  /\ DOMAIN visit = Requests /\ \A r \in Requests : DOMAIN visit[r] = DOMAIN Desk!Fresh
  /\ DOMAIN member = Desk!Ids /\ \A m \in Desk!Ids : DOMAIN member[m] = DOMAIN Desk!NoMember
  /\ edge \in [Desk!Ids -> Desk!Ids \cup {None}]
  /\ gifts \in [Desk!Ids -> SUBSET {"welcome", "referral"}]
  /\ deskBefore \in [Requests -> SUBSET Requests]

DeskBegan == \A r \in Requests : \A q \in deskBefore[r] : visit[q].step = "done"

\* q was told the code of m, and no two requests for that code ran together.
ToldOf(q, m) == visit[q].on = m /\ Desk!Told(q) /\ ~ Desk!MintedTwice(m)

\* r came with a code that was told of m before, and m is there.
ComesFrom(r, q, m) ==
  /\ q \in deskBefore[r] /\ ToldOf(q, m) /\ visit[r].ref = visit[q].answer /\ member[m].live

\* What was found when a request looked holds of all that was told before it began.
VisitsFollow ==
  \A r \in Requests :
    LET v == visit[r]
    IN  /\ v.step \in {"new", "begun", "ready", "done"}
        /\ v.step = "new" => v.on = None
        /\ v.step # "done" => v.answer = None /\ v.found # "inserted"
        /\ v.step # "new" /\ v.op \in {"patch", "delete", "code"} => v.on \in Desk!Enrolled
        /\ v.step \in {"begun", "ready"} /\ v.op \in {"create", "patch", "spin"} =>
             DOMAIN v.handles \subseteq {"phone", "line"}
        /\ v.step = "ready" /\ v.op = "spin" =>
             /\ v.found \in Desk!Ids \cup {None} /\ v.found # r
             /\ \A q \in Requests, m \in Desk!Ids : ComesFrom(r, q, m) => v.found = m
        /\ v.step = "ready" /\ v.op = "code" =>
             \A q \in deskBefore[r], m \in Desk!Ids :
               Desk!Told(q) /\ visit[q].on = m /\ v.on = m => Desk!MintedTwice(m)

\* Who has not been inserted is not there.
NobodyElse == \A r \in Requests : visit[r].found # "inserted" => member[r] = Desk!NoMember

CodesStand ==
  \A q \in Requests, m \in Desk!Ids : ToldOf(q, m) => member[m].code = visit[q].answer

FriendsFollow ==
  \A r, q \in Requests, m \in Desk!Ids :
    visit[r].found = "inserted" /\ visit[r].op = "spin" /\ ComesFrom(r, q, m) => edge[r] = m

EdgesGifted ==
  \A m \in Desk!Ids : (edge[m] # None) = ("referral" \in gifts[m]) /\ edge[m] # m

DeskInv ==
  /\ DeskTypes /\ DeskBegan /\ VisitsFollow /\ NobodyElse
  /\ CodesStand /\ FriendsFollow /\ EdgesGifted /\ Desk!Unique(member)

LEMMA DeskFields ==
  /\ DOMAIN Desk!Fresh = {"op", "on", "handles", "ref", "step", "found", "answer"}
  /\ DOMAIN Desk!NoMember = {"phone", "line", "code", "live"}
  /\ Desk!NoMember.code = None /\ Desk!NoMember.live = FALSE
BY DEF Desk!Fresh, Desk!NoMember

\* What a step of r after its first leaves as it is: what was told to the others, who was
\* gone, and what the others found.  Its record is c then.
OthersStand(r, c) ==
  /\ DOMAIN visit' = Requests /\ visit'[r] = c
  /\ \A q \in Requests : DOMAIN visit'[q] = DOMAIN Desk!Fresh
  /\ \A q \in Requests : q # r => visit'[q] = visit[q]
  /\ Desk!Enrolled \subseteq Desk!Enrolled' /\ r \notin Desk!Enrolled
  /\ \A x \in Requests : r \notin deskBefore[x]
  /\ DeskBegan'
  /\ \A m : Desk!MintedTwice(m)' <=> Desk!MintedTwice(m)
  /\ \A q \in Requests : \A m : q # r => (ToldOf(q, m)' <=> ToldOf(q, m))
  /\ \A x, q \in Requests, m \in Desk!Ids : ComesFrom(x, q, m)' => ComesFrom(x, q, m)

\* A step of one request after its first leaves what was told to the others, and brings back
\* nobody who is gone.
LEMMA DeskFrame ==
  ASSUME StoreDayAssumption, DeskInv, NEW r \in Requests, visit[r].step \in {"begun", "ready"},
         NEW c, visit' = [visit EXCEPT ![r] = c], DOMAIN c = DOMAIN Desk!Fresh,
         c.op = visit[r].op, c.on = visit[r].on, c.ref = visit[r].ref, deskBefore' = deskBefore,
         \A m \in Desk!Enrolled : member'[m].live => member[m].live
  PROVE  OthersStand(r, c)
<1>1. /\ DOMAIN visit' = Requests /\ visit'[r] = c
      /\ \A q \in Requests : q # r => visit'[q] = visit[q]
  BY DEF DeskInv, DeskTypes
<1>2. \A q \in Requests : DOMAIN visit'[q] = DOMAIN Desk!Fresh
  BY <1>1 DEF DeskInv, DeskTypes
<1>3. \A x \in Requests : r \notin deskBefore[x] /\ deskBefore[x] \subseteq Requests
  BY DEF DeskInv, DeskTypes, DeskBegan
<1>4. visit[r].found # "inserted"
  BY DEF DeskInv, VisitsFollow
<1>5. r \notin DOMAIN MemberOf
  BY DEF StoreDayAssumption, Desk!MembersAssumption
<1>6. Desk!Enrolled \subseteq Desk!Enrolled' /\ r \notin Desk!Enrolled
  <2>1. \A m \in Desk!Ids : m \in DOMAIN MemberOf \/ m \in Requests
    BY DEF Desk!Ids
  <2> QED
    BY <1>1, <1>4, <1>5, <2>1 DEF Desk!Enrolled
<1>7. DeskBegan'
  BY <1>1, <1>3 DEF DeskInv, DeskBegan
<1>8. \A q \in Requests : visit'[q].op = visit[q].op /\ visit'[q].on = visit[q].on
                          /\ visit'[q].ref = visit[q].ref
  BY <1>1
<1>9. \A m : Desk!MintedTwice(m)' <=> Desk!MintedTwice(m)
  BY <1>8 DEF Desk!MintedTwice, Desk!Overlap
<1>10. ASSUME NEW q \in Requests, NEW m, q # r PROVE ToldOf(q, m)' <=> ToldOf(q, m)
  <2>1. Desk!Told(q)' <=> Desk!Told(q)
    BY <1>1, <1>10 DEF Desk!Told
  <2> QED
    BY <1>8, <1>9, <2>1 DEF ToldOf
<1>11. ASSUME NEW x \in Requests, NEW q \in Requests, NEW m \in Desk!Ids, ComesFrom(x, q, m)'
       PROVE  ComesFrom(x, q, m)
  <2>1. q \in deskBefore[x] /\ q # r
    BY <1>3, <1>11 DEF ComesFrom
  <2>2. ToldOf(q, m)
    BY <1>10, <1>11, <2>1 DEF ComesFrom
  <2>3. m \in Desk!Enrolled
    <3>1. visit[q].step = "done" /\ visit[q].op = "code" /\ visit[q].on = m
      BY <2>1, <2>2 DEF DeskInv, DeskBegan, ToldOf, Desk!Told
    <3> QED
      BY <3>1 DEF DeskInv, VisitsFollow
  <2>4. visit[x].ref = visit[q].answer /\ member[m].live
    BY <1>1, <1>8, <1>11, <2>1, <2>3 DEF ComesFrom
  <2> QED
    BY <2>1, <2>2, <2>4 DEF ComesFrom
<1> QED
  BY <1>1, <1>2, <1>3, <1>6, <1>7, <1>9, <1>10, <1>11 DEF OthersStand

\* What a request found when it looked, it may go on with.
LEMMA DeskVisits ==
  ASSUME StoreDayAssumption, DeskInv, NEW r \in Requests, visit[r].step \in {"begun", "ready"},
         NEW c, visit' = [visit EXCEPT ![r] = c], DOMAIN c = DOMAIN Desk!Fresh,
         c.op = visit[r].op, c.on = visit[r].on, c.ref = visit[r].ref, deskBefore' = deskBefore,
         \A m \in Desk!Enrolled : member'[m].live => member[m].live,
         c.step \in {"ready", "done"},
         c.step = "ready" => c.answer = None /\ c.found # "inserted",
         c.step = "ready" /\ c.op \in {"create", "patch", "spin"} =>
           DOMAIN c.handles \subseteq {"phone", "line"},
         c.step = "ready" /\ c.op = "spin" =>
           /\ c.found \in Desk!Ids \cup {None} /\ c.found # r
           /\ \A q \in Requests, m \in Desk!Ids : ComesFrom(r, q, m) => c.found = m,
         c.step = "ready" /\ c.op = "code" =>
           \A q \in deskBefore[r], m \in Desk!Ids :
             Desk!Told(q) /\ visit[q].on = m /\ c.on = m => Desk!MintedTwice(m)
  PROVE  VisitsFollow'
<1>1. OthersStand(r, c)
  BY DeskFrame
<1> DEFINE Follows(s, v) ==
             /\ v.step \in {"new", "begun", "ready", "done"}
             /\ v.step = "new" => v.on = None
             /\ v.step # "done" => v.answer = None /\ v.found # "inserted"
             /\ v.step # "new" /\ v.op \in {"patch", "delete", "code"} =>
                  v.on \in Desk!Enrolled'
             /\ v.step \in {"begun", "ready"} /\ v.op \in {"create", "patch", "spin"} =>
                  DOMAIN v.handles \subseteq {"phone", "line"}
             /\ v.step = "ready" /\ v.op = "spin" =>
                  /\ v.found \in Desk!Ids \cup {None} /\ v.found # s
                  /\ \A q \in Requests, m \in Desk!Ids : ComesFrom(s, q, m)' => v.found = m
             /\ v.step = "ready" /\ v.op = "code" =>
                  \A q \in deskBefore'[s], m \in Desk!Ids :
                    Desk!Told(q)' /\ visit'[q].on = m /\ v.on = m => Desk!MintedTwice(m)'
<1>2. ASSUME NEW s \in Requests PROVE Follows(s, visit'[s])
  <2>1. CASE s = r
    BY <1>1, <2>1 DEF OthersStand, DeskInv, VisitsFollow, DeskTypes, Desk!Told
  <2>2. CASE s # r
    BY <1>1, <2>2 DEF OthersStand, DeskInv, VisitsFollow, DeskTypes, Desk!Told
  <2> QED
    BY <2>1, <2>2
<1> QED
  BY <1>2, Zenon DEF VisitsFollow

\* A request goes on or ends, and writes nothing.
LEMMA DeskGoesOn ==
  ASSUME StoreDayAssumption, DeskInv, NEW r \in Requests, visit[r].step \in {"begun", "ready"},
         NEW c, visit' = [visit EXCEPT ![r] = c], DOMAIN c = DOMAIN Desk!Fresh,
         c.op = visit[r].op, c.on = visit[r].on, c.ref = visit[r].ref,
         UNCHANGED <<member, edge, gifts, deskBefore>>,
         c.step \in {"ready", "done"}, c.found # "inserted",
         c.step = "ready" => c.answer = None,
         c.step = "ready" /\ c.op \in {"create", "patch", "spin"} =>
           DOMAIN c.handles \subseteq {"phone", "line"},
         c.step = "ready" /\ c.op = "spin" =>
           /\ c.found \in Desk!Ids \cup {None} /\ c.found # r
           /\ \A q \in Requests, m \in Desk!Ids : ComesFrom(r, q, m) => c.found = m,
         c.step = "ready" /\ c.op = "code" =>
           \A q \in deskBefore[r], m \in Desk!Ids :
             Desk!Told(q) /\ visit[q].on = m /\ c.on = m => Desk!MintedTwice(m),
         c.op = "code" /\ c.answer # None => member[c.on].code = c.answer
  PROVE  DeskInv'
<1>1. OthersStand(r, c)
  BY DeskFrame
<1>2. DeskTypes'
  BY <1>1 DEF OthersStand, DeskInv, DeskTypes
<1>3. VisitsFollow'
  BY DeskVisits
<1>4. NobodyElse'
  BY <1>1 DEF OthersStand, DeskInv, NobodyElse, VisitsFollow
<1>5. CodesStand'
  <2> SUFFICES ASSUME NEW q \in Requests, NEW m \in Desk!Ids, ToldOf(q, m)'
               PROVE  member[m].code = visit'[q].answer
    BY DEF CodesStand
  <2>1. CASE q = r
    BY <1>1, <2>1 DEF OthersStand, ToldOf, Desk!Told
  <2>2. CASE q # r
    BY <1>1, <2>2 DEF OthersStand, DeskInv, CodesStand
  <2> QED
    BY <2>1, <2>2
<1>6. FriendsFollow'
  BY <1>1 DEF OthersStand, DeskInv, FriendsFollow
<1> QED
  BY <1>1, <1>2, <1>3, <1>4, <1>5, <1>6
  DEF DeskInv, OthersStand, EdgesGifted, Desk!Unique

\* A request ends without a write.
LEMMA DeskEnds ==
  ASSUME StoreDayAssumption, DeskInv, NEW r \in Requests, NEW a,
         visit[r].step \in {"begun", "ready"}, Desk!Answer(r, None, a),
         UNCHANGED <<member, edge, gifts, deskBefore>>, visit[r].op = "code" => a = None
  PROVE  DeskInv'
<1>1. PICK x : x = visit[r] /\ DOMAIN x = DOMAIN Desk!Fresh
  BY DEF DeskInv, DeskTypes
<1>2. PICK c : c = [x EXCEPT !.step = "done", !.found = None, !.answer = a]
  OBVIOUS
<1>3. /\ DOMAIN c = DOMAIN Desk!Fresh /\ c.op = x.op /\ c.on = x.on /\ c.ref = x.ref
      /\ c.step = "done" /\ c.found = None /\ c.answer = a
  BY <1>1, <1>2, DeskFields
<1>4. visit' = [visit EXCEPT ![r] = c]
  BY <1>1, <1>2 DEF DeskInv, DeskTypes, Desk!Answer
<1>5. c.found # "inserted" /\ c.step # "ready"
  BY <1>3 DEF StoreDayAssumption, Desk!MembersAssumption
<1>6. c.op = "code" => c.answer = None
  BY <1>1, <1>3
<1> QED
  BY <1>1, <1>3, <1>4, <1>5, <1>6, DeskGoesOn

\* It is rolled back, or answered with the member it is found to be of.
LEMMA DeskAnswers ==
  ASSUME StoreDayAssumption, DeskInv, NEW r \in Requests,
         Desk!Recognise(r) \/ Desk!Rollback(r)
  PROVE  DeskInv'
<1>1. CASE Desk!Recognise(r)
  <2>1. visit[r].step = "begun" /\ visit[r].op = "spin"
    BY <1>1 DEF Desk!Recognise
  <2>2. PICK m : Desk!Answer(r, None, m) /\ UNCHANGED <<member, edge, gifts, deskBefore>>
    BY <1>1 DEF Desk!Recognise
  <2> QED
    BY <2>1, <2>2, DeskEnds
<1>2. CASE Desk!Rollback(r)
  <2>1. visit[r].step \in {"begun", "ready"} /\ UNCHANGED <<member, edge, gifts, deskBefore>>
    BY <1>2 DEF Desk!Rollback, Desk!InFlight, DeskInv, VisitsFollow
  <2>2. Desk!Answer(r, None, None)
    BY <1>2 DEF Desk!Rollback
  <2> QED
    BY <2>1, <2>2, DeskEnds
<1> QED
  BY <1>1, <1>2

\* The code a member has is told.
LEMMA DeskTells ==
  ASSUME StoreDayAssumption, DeskInv, NEW r \in Requests, Desk!TellCode(r)
  PROVE  DeskInv'
<1>1. PICK x : x = visit[r] /\ DOMAIN x = DOMAIN Desk!Fresh
  BY DEF DeskInv, DeskTypes
<1>2. /\ x.step = "begun" /\ x.op = "code"
      /\ visit' = [visit EXCEPT ![r].step = "done", ![r].answer = member[x.on].code]
      /\ UNCHANGED <<member, edge, gifts, deskBefore>>
  BY <1>1 DEF Desk!TellCode
<1>3. PICK c : c = [x EXCEPT !.step = "done", !.answer = member[x.on].code]
  OBVIOUS
<1>4. /\ DOMAIN c = DOMAIN Desk!Fresh /\ c.op = x.op /\ c.on = x.on /\ c.ref = x.ref
      /\ c.step = "done" /\ c.found = x.found /\ c.answer = member[x.on].code
  BY <1>1, <1>3, DeskFields
<1>5. visit' = [visit EXCEPT ![r] = c]
  BY <1>1, <1>2, <1>3 DEF DeskInv, DeskTypes
<1>6. c.found # "inserted" /\ c.step # "ready"
  BY <1>1, <1>2, <1>4 DEF DeskInv, VisitsFollow
<1>7. c.op = "code" /\ c.answer = member[c.on].code
  BY <1>2, <1>4
<1>8. visit[r].step \in {"begun", "ready"} /\ c.step \in {"ready", "done"}
  BY <1>1, <1>2, <1>4
<1> QED
  BY <1>1, <1>2, <1>4, <1>5, <1>6, <1>7, <1>8, DeskGoesOn

\* The handles that a request changes are found free, or the member to delete is found.
LEMMA DeskLooks ==
  ASSUME StoreDayAssumption, DeskInv, NEW r \in Requests,
         Desk!LookUpHandles(r) \/ Desk!LookUpLive(r)
  PROVE  DeskInv'
<1>1. PICK x : x = visit[r] /\ DOMAIN x = DOMAIN Desk!Fresh
  BY DEF DeskInv, DeskTypes
<1>2. PICK h, f :
        /\ x.step = "begun" /\ UNCHANGED <<member, edge, gifts, deskBefore>>
        /\ visit' = [visit EXCEPT ![r].handles = h, ![r].found = f, ![r].step = "ready"]
        /\ x.op # "delete" => x.op \in {"create", "patch"} /\ DOMAIN h \subseteq {"phone", "line"}
        /\ f # "inserted"
  <2>1. CASE Desk!LookUpHandles(r)
    <3>1. PICK old : LET h == Desk!Changed(x.handles, old)
                     IN  /\ x.step = "begun" /\ x.op \in {"create", "patch"}
                         /\ visit' = [visit EXCEPT ![r].handles = h, ![r].step = "ready"]
                         /\ UNCHANGED <<member, edge, gifts, deskBefore>>
      BY <1>1, <2>1 DEF Desk!LookUpHandles
    <3>2. DOMAIN Desk!Changed(x.handles, old) \subseteq {"phone", "line"}
      BY DEF Desk!Changed
    <3>3. PICK h : h = Desk!Changed(x.handles, old)
      OBVIOUS
    <3>4. x.found # "inserted"
      BY <1>1, <3>1 DEF DeskInv, VisitsFollow
    <3>5. [x EXCEPT !.handles = h, !.step = "ready"]
            = [x EXCEPT !.handles = h, !.found = x.found, !.step = "ready"]
      BY <1>1, DeskFields
    <3>6. visit' = [visit EXCEPT ![r] = [x EXCEPT !.handles = h, !.step = "ready"]]
      BY <1>1, <3>1, <3>3 DEF DeskInv, DeskTypes
    <3>7. visit' = [visit EXCEPT ![r].handles = h, ![r].found = x.found, ![r].step = "ready"]
      BY <1>1, <3>5, <3>6 DEF DeskInv, DeskTypes
    <3> QED
      BY <3>1, <3>2, <3>3, <3>4, <3>7
  <2>2. CASE Desk!LookUpLive(r)
    <3>1. /\ x.step = "begun" /\ x.op = "delete" /\ UNCHANGED <<member, edge, gifts, deskBefore>>
          /\ visit' = [visit EXCEPT ![r].found = None, ![r].step = "ready"]
      BY <1>1, <2>2 DEF Desk!LookUpLive, Desk!Found
    <3>2. PICK h : h = x.handles
      OBVIOUS
    <3>3. [x EXCEPT !.found = None, !.step = "ready"]
            = [x EXCEPT !.handles = h, !.found = None, !.step = "ready"]
      BY <1>1, <3>2, DeskFields
    <3>4. visit' = [visit EXCEPT ![r].handles = h, ![r].found = None, ![r].step = "ready"]
      BY <1>1, <3>1, <3>3 DEF DeskInv, DeskTypes
    <3>5. None # "inserted"
      BY DEF StoreDayAssumption, Desk!MembersAssumption
    <3> QED
      BY <3>1, <3>4, <3>5
  <2> QED
    BY <2>1, <2>2
<1>3. PICK c : c = [x EXCEPT !.handles = h, !.found = f, !.step = "ready"]
  OBVIOUS
<1>4. /\ DOMAIN c = DOMAIN Desk!Fresh /\ c.op = x.op /\ c.on = x.on /\ c.ref = x.ref
      /\ c.handles = h /\ c.step = "ready" /\ c.found = f /\ c.answer = x.answer
  BY <1>1, <1>3, DeskFields
<1>5. visit' = [visit EXCEPT ![r] = c]
  BY <1>1, <1>2, <1>3 DEF DeskInv, DeskTypes
<1>6. c.answer = None
  BY <1>1, <1>2, <1>4 DEF DeskInv, VisitsFollow
<1>7. c.op # "spin" /\ c.op # "code"
  BY <1>2, <1>4
<1>8. c.op \in {"create", "patch", "spin"} => DOMAIN c.handles \subseteq {"phone", "line"}
  BY <1>2, <1>4
<1>9. visit[r].step \in {"begun", "ready"} /\ c.op = visit[r].op /\ c.on = visit[r].on
      /\ c.ref = visit[r].ref
  BY <1>1, <1>2, <1>4
<1>10. c.step \in {"ready", "done"} /\ c.found # "inserted" /\ DOMAIN c = DOMAIN Desk!Fresh
  BY <1>2, <1>4
<1>11. UNCHANGED <<member, edge, gifts, deskBefore>>
  BY <1>2
<1> QED
  BY <1>5, <1>6, <1>7, <1>8, <1>9, <1>10, <1>11, DeskGoesOn

\* Who a spin's code is of: the codes are unique, so it is of whom it was told.
LEMMA DeskRefers ==
  ASSUME StoreDayAssumption, DeskInv, NEW r \in Requests, Desk!LookUpReferrer(r)
  PROVE  DeskInv'
<1>1. PICK x : x = visit[r] /\ DOMAIN x = DOMAIN Desk!Fresh
  BY DEF DeskInv, DeskTypes
<1> DEFINE Referrers == {m \in Desk!Ids : member[m].live /\ member[m].code = x.ref /\ x.ref # None}
<1>2. PICK m \in IF Referrers = {} THEN {None} ELSE Referrers :
        /\ x.step = "begun" /\ x.op = "spin" /\ UNCHANGED <<member, edge, gifts, deskBefore>>
        /\ visit' = [visit EXCEPT ![r].found = m, ![r].step = "ready"]
  BY <1>1 DEF Desk!LookUpReferrer, Desk!Found
<1>3. PICK c : c = [x EXCEPT !.found = m, !.step = "ready"]
  OBVIOUS
<1>4. /\ DOMAIN c = DOMAIN Desk!Fresh /\ c.op = x.op /\ c.on = x.on /\ c.ref = x.ref
      /\ c.handles = x.handles /\ c.step = "ready" /\ c.found = m /\ c.answer = x.answer
  BY <1>1, <1>3, DeskFields
<1>5. visit' = [visit EXCEPT ![r] = c]
  BY <1>1, <1>2, <1>3 DEF DeskInv, DeskTypes
<1>6. c.answer = None /\ DOMAIN c.handles \subseteq {"phone", "line"} /\ x.found # "inserted"
  BY <1>1, <1>2, <1>4 DEF DeskInv, VisitsFollow
<1>7. m \in Desk!Ids \cup {None} /\ m # "inserted"
  BY <1>2 DEF StoreDayAssumption, Desk!MembersAssumption, Desk!Ids
<1>8. m # r
  <2>1. member[r].live = FALSE
    BY <1>1, <1>6, DeskFields DEF DeskInv, NobodyElse
  <2>2. r # None
    BY DEF StoreDayAssumption, Desk!MembersAssumption
  <2> QED
    BY <1>2, <2>1, <2>2
<1>9. ASSUME NEW q \in Requests, NEW n \in Desk!Ids, ComesFrom(r, q, n) PROVE m = n
  <2>1. member[n].live /\ member[n].code = x.ref /\ x.ref # None
    BY <1>1, <1>9 DEF ComesFrom, ToldOf, Desk!Told, DeskInv, CodesStand
  <2>2. m \in Desk!Ids /\ member[m].code = x.ref
    BY <1>2, <2>1
  <2>3. member[m] # Desk!NoMember /\ member[n] # Desk!NoMember
    BY <2>1, <2>2, DeskFields
  <2> QED
    BY <2>1, <2>2, <2>3 DEF DeskInv, Desk!Unique
<1>10. c.op # "code" /\ c.op = "spin" /\ visit[r].step = "begun"
  BY <1>1, <1>2, <1>4
<1>11. /\ c.found \in Desk!Ids \cup {None} /\ c.found # r /\ c.found # "inserted"
       /\ \A q \in Requests, n \in Desk!Ids : ComesFrom(r, q, n) => c.found = n
  BY <1>4, <1>7, <1>8, <1>9
<1> QED
  BY <1>1, <1>2, <1>4, <1>5, <1>6, <1>10, <1>11, DeskGoesOn

\* A member who is found without a code was told none before, but by two requests at once.
LEMMA DeskMints ==
  ASSUME StoreDayAssumption, DeskInv, NEW r \in Requests,
         Desk!MintCode(r) \/ Desk!MintAgain(r)
  PROVE  DeskInv'
<1>1. PICK x : x = visit[r] /\ DOMAIN x = DOMAIN Desk!Fresh
  BY DEF DeskInv, DeskTypes
<1>2. PICK k \in Desk!Candidates :
        /\ x.step \in {"begun", "ready"} /\ x.op = "code"
        /\ visit' = [visit EXCEPT ![r].found = k, ![r].step = "ready"]
        /\ UNCHANGED <<member, edge, gifts, deskBefore>>
        /\ x.step = "begun" => member[x.on].code = None
  BY <1>1 DEF Desk!MintCode, Desk!MintAgain, Desk!Found, Desk!Codeless
<1>3. PICK c : c = [x EXCEPT !.found = k, !.step = "ready"]
  OBVIOUS
<1>4. /\ DOMAIN c = DOMAIN Desk!Fresh /\ c.op = x.op /\ c.on = x.on /\ c.ref = x.ref
      /\ c.step = "ready" /\ c.found = k /\ c.answer = x.answer
  BY <1>1, <1>3, DeskFields
<1>5. visit' = [visit EXCEPT ![r] = c]
  BY <1>1, <1>2, <1>3 DEF DeskInv, DeskTypes
<1>6. c.answer = None
  BY <1>1, <1>2, <1>4 DEF DeskInv, VisitsFollow
<1>7. k # "inserted"
  BY <1>2 DEF StoreDayAssumption, Desk!MembersAssumption, Desk!Candidates
<1>8. ASSUME NEW q \in deskBefore[r], NEW m \in Desk!Ids,
             Desk!Told(q), visit[q].on = m, c.on = m
      PROVE  Desk!MintedTwice(m)
  <2>1. CASE x.step = "ready"
    BY <1>1, <1>2, <1>4, <1>8, <2>1 DEF DeskInv, VisitsFollow
  <2>2. CASE x.step = "begun"
    <3>1. q \in Requests
      BY DEF DeskInv, DeskTypes
    <3>2. member[m].code = None /\ visit[q].answer # None
      BY <1>2, <1>4, <1>8, <2>2 DEF Desk!Told
    <3> QED
      BY <1>8, <3>1, <3>2 DEF DeskInv, CodesStand, ToldOf
  <2> QED
    BY <1>2, <2>1, <2>2
<1> QED
  BY <1>1, <1>2, <1>4, <1>5, <1>6, <1>7, <1>8, DeskGoesOn

\* A new member is inserted: nobody was told a code of it, and its referrer is who was found.
LEMMA DeskInserts ==
  ASSUME StoreDayAssumption, DeskInv, NEW r \in Requests,
         Desk!CommitCreate(r) \/ Desk!CommitSpin(r)
  PROVE  DeskInv'
<1>1. PICK x : x = visit[r] /\ DOMAIN x = DOMAIN Desk!Fresh
  BY DEF DeskInv, DeskTypes
<1>2. /\ x.step = "ready" /\ x.op \in {"create", "spin"} /\ deskBefore' = deskBefore
      /\ Desk!Insert(r) /\ Desk!Unique(member') /\ Desk!Answer(r, "inserted", r)
      /\ x.op = "create" => UNCHANGED <<edge, gifts>>
      /\ x.op = "spin" =>
           /\ edge' = [edge EXCEPT ![r] = x.found]
           /\ gifts' = [gifts EXCEPT ![r] =
                          {"welcome"} \cup IF x.found = None THEN {} ELSE {"referral"}]
  BY <1>1 DEF Desk!CommitCreate, Desk!CommitSpin
<1>3. DOMAIN x.handles \subseteq {"phone", "line"}
  BY <1>1, <1>2 DEF DeskInv, VisitsFollow
<1>4. PICK n : n = [Desk!With(x.handles, Desk!NoMember) EXCEPT !.live = TRUE]
  OBVIOUS
<1>5. DOMAIN n = DOMAIN Desk!NoMember
  BY <1>4 DEF Desk!With
<1>6. r \in Desk!Ids /\ r \notin Desk!Enrolled
  BY <1>1, <1>2
  DEF DeskInv, VisitsFollow, Desk!Ids, Desk!Enrolled, StoreDayAssumption, Desk!MembersAssumption
<1>7. /\ DOMAIN member' = Desk!Ids /\ member'[r] = n
      /\ \A m \in Desk!Ids : m # r => member'[m] = member[m]
  BY <1>1, <1>2, <1>4, <1>6 DEF Desk!Insert, DeskInv, DeskTypes
<1>8. PICK c : c = [x EXCEPT !.step = "done", !.found = "inserted", !.answer = r]
  OBVIOUS
<1>9. /\ DOMAIN c = DOMAIN Desk!Fresh /\ c.op = x.op /\ c.on = x.on /\ c.ref = x.ref
      /\ c.step = "done" /\ c.found = "inserted" /\ c.answer = r
  BY <1>1, <1>8, DeskFields
<1>10. visit' = [visit EXCEPT ![r] = c]
  BY <1>1, <1>2, <1>8 DEF DeskInv, DeskTypes, Desk!Answer
<1>11. \A m \in Desk!Enrolled : member'[m].live => member[m].live
  BY <1>6, <1>7 DEF Desk!Enrolled
<1>12. OthersStand(r, c)
  BY <1>1, <1>2, <1>9, <1>10, <1>11, DeskFrame
<1>13. VisitsFollow'
  <2>1. c.step # "ready" /\ visit[r].step \in {"begun", "ready"}
    BY <1>1, <1>2, <1>9
  <2> QED
    BY <1>1, <1>2, <1>9, <1>10, <1>11, <2>1, DeskVisits
<1>14. x.op = "spin" =>
         /\ x.found \in Desk!Ids \cup {None} /\ x.found # r
         /\ \A q \in Requests, m \in Desk!Ids : ComesFrom(r, q, m) => x.found = m
  BY <1>1, <1>2 DEF DeskInv, VisitsFollow
<1>15. /\ edge' \in [Desk!Ids -> Desk!Ids \cup {None}]
       /\ gifts' \in [Desk!Ids -> SUBSET {"welcome", "referral"}]
       /\ \A m \in Desk!Ids : m # r => edge'[m] = edge[m] /\ gifts'[m] = gifts[m]
       /\ (edge'[r] # None) = ("referral" \in gifts'[r]) /\ edge'[r] # r
       /\ x.op = "spin" => edge'[r] = x.found
  <2>1. /\ edge \in [Desk!Ids -> Desk!Ids \cup {None}]
        /\ gifts \in [Desk!Ids -> SUBSET {"welcome", "referral"}]
        /\ (edge[r] # None) = ("referral" \in gifts[r]) /\ edge[r] # r
    BY <1>6 DEF DeskInv, DeskTypes, EdgesGifted
  <2>2. CASE x.op = "create"
    BY <1>2, <2>1, <2>2
  <2>3. CASE x.op = "spin"
    <3>1. PICK g : g = {"welcome"} \cup IF x.found = None THEN {} ELSE {"referral"}
      OBVIOUS
    <3>2. g \in SUBSET {"welcome", "referral"} /\ ("referral" \in g <=> x.found # None)
      BY <3>1
    <3>3. gifts' = [gifts EXCEPT ![r] = g] /\ edge' = [edge EXCEPT ![r] = x.found]
      BY <1>2, <2>3, <3>1
    <3>4. /\ edge' \in [Desk!Ids -> Desk!Ids \cup {None}] /\ edge'[r] = x.found
          /\ gifts' \in [Desk!Ids -> SUBSET {"welcome", "referral"}] /\ gifts'[r] = g
          /\ \A m \in Desk!Ids : m # r => edge'[m] = edge[m] /\ gifts'[m] = gifts[m]
      BY <1>6, <1>14, <2>1, <2>3, <3>2, <3>3
    <3> QED
      BY <1>14, <2>3, <3>2, <3>4
  <2> QED
    BY <1>2, <2>2, <2>3
<1>16. DeskTypes'
  BY <1>2, <1>5, <1>7, <1>12, <1>15 DEF DeskInv, DeskTypes, OthersStand
<1>17. NobodyElse'
  <2> SUFFICES ASSUME NEW s \in Requests, visit'[s].found # "inserted"
               PROVE  member'[s] = Desk!NoMember
    BY DEF NobodyElse
  <2>1. s # r /\ s \in Desk!Ids
    BY <1>9, <1>12 DEF OthersStand, Desk!Ids
  <2> QED
    BY <1>7, <1>12, <2>1 DEF OthersStand, DeskInv, NobodyElse
<1>18. ASSUME NEW q \in Requests, NEW m \in Desk!Ids, ToldOf(q, m)'
       PROVE  q # r /\ ToldOf(q, m) /\ visit'[q] = visit[q]
  <2>1. CASE q = r
    BY <1>2, <1>9, <1>12, <1>18, <2>1 DEF OthersStand, ToldOf, Desk!Told
  <2>2. CASE q # r
    BY <1>12, <1>18, <2>2 DEF OthersStand
  <2> QED
    BY <2>1, <2>2
<1>19. CodesStand'
  <2> SUFFICES ASSUME NEW q \in Requests, NEW m \in Desk!Ids, ToldOf(q, m)'
               PROVE  member'[m].code = visit'[q].answer
    BY DEF CodesStand
  <2>1. ToldOf(q, m) /\ visit'[q] = visit[q]
    BY <1>18
  <2>2. visit[q].on = m /\ visit[q].op = "code" /\ visit[q].answer # None
    BY <2>1 DEF ToldOf, Desk!Told
  <2>3. m \in Desk!Enrolled
    <3>1. visit[q].step # "new"
      BY <1>1, <1>2, <2>2 DEF DeskInv, VisitsFollow
    <3> QED
      BY <2>2, <3>1 DEF DeskInv, VisitsFollow
  <2>4. member'[m] = member[m]
    BY <1>6, <1>7, <2>3
  <2> QED
    BY <2>1, <2>4 DEF DeskInv, CodesStand
<1>20. FriendsFollow'
  <2> SUFFICES ASSUME NEW s \in Requests, NEW q \in Requests, NEW m \in Desk!Ids,
                      visit'[s].found = "inserted", visit'[s].op = "spin", ComesFrom(s, q, m)'
               PROVE  edge'[s] = m
    BY DEF FriendsFollow
  <2>1. ComesFrom(s, q, m)
    BY <1>12 DEF OthersStand
  <2>2. CASE s = r
    BY <1>9, <1>12, <1>14, <1>15, <2>1, <2>2 DEF OthersStand
  <2>3. CASE s # r
    BY <1>12, <1>15, <2>1, <2>3 DEF OthersStand, DeskInv, FriendsFollow, Desk!Ids
  <2> QED
    BY <2>2, <2>3
<1>21. EdgesGifted' /\ Desk!Unique(member)'
  BY <1>2, <1>15 DEF DeskInv, EdgesGifted, Desk!Unique
<1> QED
  BY <1>12, <1>13, <1>16, <1>17, <1>19, <1>20, <1>21 DEF DeskInv, OthersStand

\* A row is written column by column: its code only by who found it without one, and that one
\* was told none but by two requests at once.
LEMMA DeskWrites ==
  ASSUME StoreDayAssumption, DeskInv, NEW r \in Requests, Desk!CommitPage(r)
  PROVE  DeskInv'
<1>1. PICK x : x = visit[r] /\ DOMAIN x = DOMAIN Desk!Fresh
  BY DEF DeskInv, DeskTypes
<1>2. PICK m : m = x.on
  OBVIOUS
<1>3. PICK new : new = CASE x.op = "patch" -> x.handles
                         [] x.op = "delete" -> [live |-> FALSE]
                         [] x.op = "code" -> [code |-> x.found]
  OBVIOUS
<1>4. PICK a : a = IF x.op = "code" THEN x.found ELSE None
  OBVIOUS
<1>5. /\ x.step = "ready" /\ x.op \in {"patch", "delete", "code"}
      /\ member' = [member EXCEPT ![m] = Desk!With(new, member[m])] /\ Desk!Unique(member')
      /\ Desk!Answer(r, x.found, a) /\ UNCHANGED <<edge, gifts, deskBefore>>
  BY <1>1, <1>2, <1>3, <1>4 DEF Desk!CommitPage
<1>6. /\ m \in Desk!Enrolled /\ m \in Desk!Ids /\ x.found # "inserted"
      /\ x.op = "patch" => DOMAIN x.handles \subseteq {"phone", "line"}
      /\ x.op = "code" => \A q \in deskBefore[r] :
                            Desk!Told(q) /\ visit[q].on = m => Desk!MintedTwice(m)
  BY <1>1, <1>2, <1>5 DEF DeskInv, VisitsFollow, Desk!Enrolled
<1>7. PICK old, n : old = member[m] /\ DOMAIN old = DOMAIN Desk!NoMember /\ n = Desk!With(new, old)
  BY <1>6 DEF DeskInv, DeskTypes
<1>8. /\ DOMAIN n = DOMAIN Desk!NoMember /\ (n.live => old.live)
      /\ x.op # "code" => n.code = old.code
      /\ x.op = "code" => n.code = x.found
  <2>1. CASE x.op = "patch"
    BY <1>3, <1>6, <1>7, <2>1, DeskFields DEF Desk!With
  <2>2. CASE x.op = "delete"
    BY <1>3, <1>7, <2>2, DeskFields DEF Desk!With
  <2>3. CASE x.op = "code"
    BY <1>3, <1>7, <2>3, DeskFields DEF Desk!With
  <2> QED
    BY <1>5, <2>1, <2>2, <2>3
<1>9. /\ DOMAIN member' = Desk!Ids /\ member'[m] = n
      /\ \A k \in Desk!Ids : k # m => member'[k] = member[k]
  BY <1>5, <1>6, <1>7 DEF DeskInv, DeskTypes
<1>10. PICK c : c = [x EXCEPT !.step = "done", !.found = x.found, !.answer = a]
  OBVIOUS
<1>11. /\ DOMAIN c = DOMAIN Desk!Fresh /\ c.op = x.op /\ c.on = x.on /\ c.ref = x.ref
       /\ c.step = "done" /\ c.found = x.found /\ c.answer = a
  BY <1>1, <1>10, DeskFields
<1>12. visit' = [visit EXCEPT ![r] = c]
  BY <1>1, <1>5, <1>10 DEF DeskInv, DeskTypes, Desk!Answer
<1>13. \A k \in Desk!Enrolled : member'[k].live => member[k].live
  BY <1>7, <1>8, <1>9 DEF Desk!Enrolled
<1>14. OthersStand(r, c)
  BY <1>1, <1>5, <1>11, <1>12, <1>13, DeskFrame
<1>15. VisitsFollow'
  <2>1. c.step # "ready" /\ visit[r].step \in {"begun", "ready"} /\ deskBefore' = deskBefore
    BY <1>1, <1>5, <1>11
  <2> QED
    BY <1>1, <1>11, <1>12, <1>13, <2>1, DeskVisits
<1>16. DeskTypes'
  BY <1>5, <1>8, <1>9, <1>14 DEF DeskInv, DeskTypes, OthersStand
<1>17. NobodyElse'
  <2> SUFFICES ASSUME NEW s \in Requests, visit'[s].found # "inserted"
               PROVE  member'[s] = Desk!NoMember
    BY DEF NobodyElse
  <2>1. visit[s].found # "inserted"
    BY <1>6, <1>1, <1>14 DEF OthersStand
  <2>2. s # m /\ s \in Desk!Ids
    BY <1>6, <2>1 DEF Desk!Enrolled, Desk!Ids, StoreDayAssumption, Desk!MembersAssumption
  <2> QED
    BY <1>9, <2>1, <2>2 DEF DeskInv, NobodyElse
<1>18. CodesStand'
  <2> SUFFICES ASSUME NEW q \in Requests, NEW k \in Desk!Ids, ToldOf(q, k)'
               PROVE  member'[k].code = visit'[q].answer
    BY DEF CodesStand
  <2>1. CASE q = r
    <3>1. k = m /\ x.op = "code"
      BY <1>2, <1>11, <1>14, <2>1 DEF OthersStand, ToldOf, Desk!Told
    <3> QED
      BY <1>4, <1>8, <1>9, <1>11, <1>14, <2>1, <3>1 DEF OthersStand
  <2>2. CASE q # r
    <3>1. ToldOf(q, k) /\ visit'[q] = visit[q]
      BY <1>14, <2>2 DEF OthersStand
    <3>2. member[k].code = visit[q].answer
      BY <3>1 DEF DeskInv, CodesStand
    <3>3. CASE k # m
      BY <1>9, <3>1, <3>2, <3>3
    <3>4. CASE k = m /\ x.op # "code"
      BY <1>7, <1>8, <1>9, <3>1, <3>2, <3>4
    <3>5. CASE k = m /\ x.op = "code"
      <4>1. /\ visit[q].on = m /\ visit[q].op = "code" /\ Desk!Told(q)
            /\ ~ Desk!MintedTwice(m)
        BY <3>1, <3>5 DEF ToldOf, Desk!Told
      <4>2. \A t \in {q, r} : visit[t].op = "code" /\ visit[t].on = m
        BY <1>1, <1>2, <3>5, <4>1
      <4>3. ~ Desk!Overlap(deskBefore, q, r)
        BY <2>2, <4>1, <4>2 DEF Desk!MintedTwice
      <4>4. q \in deskBefore[r]
        BY <1>14, <4>3 DEF OthersStand, Desk!Overlap
      <4> QED
        BY <1>6, <3>5, <4>1, <4>4
    <3> QED
      BY <3>3, <3>4, <3>5
  <2> QED
    BY <2>1, <2>2
<1>19. FriendsFollow'
  <2> SUFFICES ASSUME NEW s \in Requests, NEW q \in Requests, NEW k \in Desk!Ids,
                      visit'[s].found = "inserted", visit'[s].op = "spin", ComesFrom(s, q, k)'
               PROVE  edge[s] = k
    BY <1>5 DEF FriendsFollow
  <2>1. ComesFrom(s, q, k) /\ s # r
    BY <1>6, <1>11, <1>14 DEF OthersStand
  <2> QED
    BY <1>14, <2>1 DEF OthersStand, DeskInv, FriendsFollow
<1>20. EdgesGifted' /\ Desk!Unique(member)'
  BY <1>5 DEF DeskInv, EdgesGifted, Desk!Unique
<1> QED
  BY <1>14, <1>15, <1>16, <1>17, <1>18, <1>19, <1>20 DEF DeskInv, OthersStand

\* A request begins: who has ended by then is all it need know of.
LEMMA DeskStarts ==
  ASSUME StoreDayAssumption, DeskInv, NEW r \in Requests, NEW job, Desk!Begin(r, job),
         NEW c, c = Desk!With(job, [Desk!Fresh EXCEPT !.step = "begun"]),
         DOMAIN c = DOMAIN Desk!Fresh, c.step = "begun", c.found = None, c.answer = None,
         c.op \in {"patch", "delete", "code"} => c.on \in Desk!Enrolled,
         c.op \in {"create", "patch", "spin"} => DOMAIN c.handles \subseteq {"phone", "line"}
  PROVE  DeskInv'
<1>1. /\ visit[r].step = "new" /\ visit' = [visit EXCEPT ![r] = c]
      /\ deskBefore' = [deskBefore EXCEPT ![r] = {q \in Requests : visit[q].step = "done"}]
      /\ UNCHANGED <<member, edge, gifts>>
  BY DEF Desk!Begin
<1>2. /\ DOMAIN visit' = Requests /\ visit'[r] = c
      /\ \A q \in Requests : q # r => visit'[q] = visit[q]
  BY <1>1 DEF DeskInv, DeskTypes
<1>3. /\ deskBefore' \in [Requests -> SUBSET Requests]
      /\ deskBefore'[r] = {q \in Requests : visit[q].step = "done"}
      /\ \A q \in Requests : q # r => deskBefore'[q] = deskBefore[q]
  BY <1>1 DEF DeskInv, DeskTypes
<1>4. /\ visit[r].on = None /\ visit[r].answer = None /\ visit[r].found # "inserted"
      /\ \A s \in Requests : r \notin deskBefore[s]
  BY <1>1 DEF DeskInv, DeskBegan, VisitsFollow
<1>5. None # "inserted" /\ None \notin Desk!Ids
  BY DEF StoreDayAssumption, Desk!MembersAssumption, Desk!Ids
<1>6. Desk!Enrolled' = Desk!Enrolled
  <2>1. \A m \in Desk!Ids : m \notin DOMAIN MemberOf => m \in Requests
    BY DEF Desk!Ids
  <2> QED
    BY <1>2, <1>4, <1>5, <2>1 DEF Desk!Enrolled
<1>7. DeskTypes'
  BY <1>1, <1>2, <1>3 DEF DeskInv, DeskTypes
<1>8. DeskBegan'
  <2> SUFFICES ASSUME NEW s \in Requests, NEW q \in deskBefore'[s]
               PROVE  visit'[q].step = "done"
    BY DEF DeskBegan
  <2>1. q \in Requests /\ visit[q].step = "done"
    BY <1>3 DEF DeskInv, DeskTypes, DeskBegan
  <2> QED
    BY <1>1, <1>2, <2>1
<1>9. ASSUME NEW m \in Desk!Ids, Desk!MintedTwice(m) PROVE Desk!MintedTwice(m)'
  <2>1. PICK q \in Requests, t \in Requests :
          /\ q # t /\ Desk!Overlap(deskBefore, q, t)
          /\ \A s \in {q, t} : visit[s].op = "code" /\ visit[s].on = m
    BY <1>9 DEF Desk!MintedTwice
  <2>2. q # r /\ t # r
    BY <1>4, <1>5, <2>1
  <2>3. Desk!Overlap(deskBefore', q, t)
    BY <1>3, <2>1, <2>2 DEF Desk!Overlap
  <2>4. \A s \in {q, t} : visit'[s].op = "code" /\ visit'[s].on = m
    BY <1>2, <2>1, <2>2
  <2> QED
    BY <2>1, <2>3, <2>4 DEF Desk!MintedTwice
<1>10. ASSUME NEW q \in Requests, NEW m \in Desk!Ids, ToldOf(q, m)'
       PROVE  q # r /\ ToldOf(q, m) /\ visit'[q] = visit[q]
  <2>1. q # r
    BY <1>2, <1>10 DEF ToldOf, Desk!Told
  <2> QED
    BY <1>2, <1>9, <1>10, <2>1 DEF ToldOf, Desk!Told
<1>11. ASSUME NEW s \in Requests, NEW q \in Requests, NEW m \in Desk!Ids, s # r,
              ComesFrom(s, q, m)'
       PROVE  ComesFrom(s, q, m)
  BY <1>1, <1>2, <1>3, <1>10, <1>11 DEF ComesFrom
<1>12. VisitsFollow'
  <2> DEFINE Follows(s, v) ==
               /\ v.step \in {"new", "begun", "ready", "done"}
               /\ v.step = "new" => v.on = None
               /\ v.step # "done" => v.answer = None /\ v.found # "inserted"
               /\ v.step # "new" /\ v.op \in {"patch", "delete", "code"} =>
                    v.on \in Desk!Enrolled'
               /\ v.step \in {"begun", "ready"} /\ v.op \in {"create", "patch", "spin"} =>
                    DOMAIN v.handles \subseteq {"phone", "line"}
               /\ v.step = "ready" /\ v.op = "spin" =>
                    /\ v.found \in Desk!Ids \cup {None} /\ v.found # s
                    /\ \A q \in Requests, m \in Desk!Ids : ComesFrom(s, q, m)' => v.found = m
               /\ v.step = "ready" /\ v.op = "code" =>
                    \A q \in deskBefore'[s], m \in Desk!Ids :
                      Desk!Told(q)' /\ visit'[q].on = m /\ v.on = m => Desk!MintedTwice(m)'
  <2>1. ASSUME NEW s \in Requests PROVE Follows(s, visit'[s])
    <3>1. CASE s = r
      BY <1>2, <1>5, <1>6, <3>1
    <3>2. CASE s # r
      <4>1. \A q \in deskBefore'[s] : q \in deskBefore[s] /\ q # r /\ visit'[q] = visit[q]
        BY <1>2, <1>3, <1>4, <3>2 DEF DeskInv, DeskTypes
      <4>2. \A q \in deskBefore'[s], m \in Desk!Ids :
              visit[s].step = "ready" /\ visit[s].op = "code" /\ visit[s].on = m
              /\ Desk!Told(q)' /\ visit'[q].on = m => Desk!MintedTwice(m)'
        BY <1>9, <4>1 DEF DeskInv, VisitsFollow, Desk!Told
      <4> QED
        BY <1>2, <1>6, <1>11, <3>2, <4>2 DEF DeskInv, VisitsFollow
    <3> QED
      BY <3>1, <3>2
  <2> QED
    BY <2>1, Zenon DEF VisitsFollow
<1>13. NobodyElse'
  BY <1>1, <1>2, <1>4 DEF DeskInv, NobodyElse
<1>14. CodesStand'
  BY <1>1, <1>10 DEF DeskInv, CodesStand
<1>15. FriendsFollow'
  <2> SUFFICES ASSUME NEW s \in Requests, NEW q \in Requests, NEW m \in Desk!Ids,
                      visit'[s].found = "inserted", visit'[s].op = "spin", ComesFrom(s, q, m)'
               PROVE  edge[s] = m
    BY <1>1 DEF FriendsFollow
  <2>1. s # r
    BY <1>2, <1>5
  <2> QED
    BY <1>2, <1>11, <2>1 DEF DeskInv, FriendsFollow
<1>16. EdgesGifted' /\ Desk!Unique(member)'
  BY <1>1 DEF DeskInv, EdgesGifted, Desk!Unique
<1> QED
  BY <1>7, <1>8, <1>12, <1>13, <1>14, <1>15, <1>16 DEF DeskInv

\* A member is enrolled, or somebody's page is opened.
LEMMA DeskBegins ==
  ASSUME StoreDayAssumption, DeskInv, NEW r \in Requests, Desk!BeginEnrol(r) \/ Desk!BeginOn(r)
  PROVE  DeskInv'
<1> USE DeskFields
<1>1. \A h \in Handles : DOMAIN h = {"phone", "line"}
  BY DEF StoreDayAssumption, Desk!MembersAssumption
<1>2. ASSUME NEW op \in {"create", "spin"}, NEW h \in Handles, NEW k,
             NEW job, job = [op |-> op, handles |-> h, ref |-> k], Desk!Begin(r, job)
      PROVE  DeskInv'
  <2>1. PICK c : c = Desk!With(job, [Desk!Fresh EXCEPT !.step = "begun"])
    OBVIOUS
  <2>2. /\ DOMAIN c = DOMAIN Desk!Fresh /\ c.step = "begun" /\ c.found = None
        /\ c.answer = None /\ c.op = op /\ c.handles = h
    BY <1>2, <2>1 DEF Desk!With, Desk!Fresh
  <2> QED
    BY <1>1, <1>2, <2>1, <2>2, DeskStarts
<1>3. ASSUME NEW m \in Desk!Enrolled, NEW h \in Handles,
             NEW job, job = [op |-> "patch", on |-> m, handles |-> h], Desk!Begin(r, job)
      PROVE  DeskInv'
  <2>1. PICK c : c = Desk!With(job, [Desk!Fresh EXCEPT !.step = "begun"])
    OBVIOUS
  <2>2. /\ DOMAIN c = DOMAIN Desk!Fresh /\ c.step = "begun" /\ c.found = None
        /\ c.answer = None /\ c.op = "patch" /\ c.on = m /\ c.handles = h
    BY <1>3, <2>1 DEF Desk!With, Desk!Fresh
  <2> QED
    BY <1>1, <1>3, <2>1, <2>2, DeskStarts
<1>4. ASSUME NEW m \in Desk!Enrolled, NEW op \in {"delete", "code"},
             NEW job, job = [op |-> op, on |-> m], Desk!Begin(r, job)
      PROVE  DeskInv'
  <2>1. PICK c : c = Desk!With(job, [Desk!Fresh EXCEPT !.step = "begun"])
    OBVIOUS
  <2>2. /\ DOMAIN c = DOMAIN Desk!Fresh /\ c.step = "begun" /\ c.found = None
        /\ c.answer = None /\ c.op = op /\ c.on = m
    BY <1>4, <2>1 DEF Desk!With, Desk!Fresh
  <2> QED
    BY <1>4, <2>1, <2>2, DeskStarts
<1>5. CASE Desk!BeginEnrol(r)
  BY <1>2, <1>5 DEF Desk!BeginEnrol
<1>6. CASE Desk!BeginOn(r)
  BY <1>3, <1>4, <1>6 DEF Desk!BeginOn
<1> QED
  BY <1>5, <1>6

\* Only a step at the desk moves the members.
LEMMA DeskStep ==
  ASSUME StoreDayAssumption, DeskInv, [Next]_vars
  PROVE  DeskInv'
<1>1. CASE UNCHANGED desk
  <2>1. UNCHANGED <<member, edge, gifts, visit, deskBefore>>
    BY <1>1 DEF desk
  <2>2. DeskTypes' /\ DeskBegan' /\ Desk!Enrolled' = Desk!Enrolled
    BY <2>1 DEF DeskInv, DeskTypes, DeskBegan, Desk!Enrolled
  <2>3. \A m : Desk!MintedTwice(m)' <=> Desk!MintedTwice(m)
    BY <2>1 DEF Desk!MintedTwice, Desk!Overlap
  <2>4. \A q \in Requests : /\ Desk!Told(q)' <=> Desk!Told(q)
                            /\ \A m : ToldOf(q, m)' <=> ToldOf(q, m)
    BY <2>1, <2>3 DEF ToldOf, Desk!Told
  <2>5. \A r, q \in Requests, m \in Desk!Ids : ComesFrom(r, q, m)' <=> ComesFrom(r, q, m)
    BY <2>1, <2>4 DEF ComesFrom
  <2>6. VisitsFollow'
    <3>1. \A r \in Requests : deskBefore[r] \subseteq Requests
      BY DEF DeskInv, DeskTypes
    <3> QED
      BY <2>1, <2>2, <2>3, <2>4, <2>5, <3>1 DEF DeskInv, VisitsFollow
  <2>7. NobodyElse' /\ EdgesGifted' /\ Desk!Unique(member)'
    BY <2>1 DEF DeskInv, NobodyElse, EdgesGifted, Desk!Unique
  <2>8. CodesStand' /\ FriendsFollow'
    BY <2>1, <2>4, <2>5 DEF DeskInv, CodesStand, FriendsFollow
  <2> QED
    BY <2>2, <2>6, <2>7, <2>8 DEF DeskInv
<1>2. CASE AtTheDesk
  <2>1. PICK r \in Requests :
          \/ Desk!BeginEnrol(r) \/ Desk!BeginOn(r)
          \/ Desk!LookUpHandles(r) \/ Desk!Recognise(r) \/ Desk!LookUpReferrer(r)
          \/ Desk!LookUpLive(r) \/ Desk!TellCode(r) \/ Desk!MintCode(r) \/ Desk!MintAgain(r)
          \/ Desk!CommitCreate(r) \/ Desk!CommitSpin(r) \/ Desk!CommitPage(r)
          \/ Desk!Rollback(r)
    BY <1>2 DEF AtTheDesk
  <2> QED
    BY <2>1, DeskBegins, DeskAnswers, DeskTells, DeskLooks, DeskRefers, DeskMints, DeskInserts,
       DeskWrites
<1> QED
  BY <1>1, <1>2 DEF Next, vars, AtTheTill, OnForms, AtTheClock, OnTheMenu, InTheBooks

\* It holds at first, of members without a code.
LEMMA DeskInit ==
  ASSUME StoreDayAssumption, Init
  PROVE  DeskInv
<1>1. Desk!Init
  BY DEF Init
<1>2. /\ \A r \in Requests : /\ visit[r] = Desk!Fresh /\ deskBefore[r] = {}
      /\ DOMAIN visit = Requests /\ deskBefore \in [Requests -> SUBSET Requests]
      /\ DOMAIN member = Desk!Ids
      /\ \A m \in Desk!Ids : edge[m] = None /\ gifts[m] = {}
      /\ edge \in [Desk!Ids -> Desk!Ids \cup {None}]
      /\ gifts \in [Desk!Ids -> SUBSET {"welcome", "referral"}]
  BY <1>1 DEF Desk!Init
<1>3. \A m \in Desk!Ids : m \notin DOMAIN MemberOf => member[m] = Desk!NoMember
  BY <1>1 DEF Desk!Init
<1>4. ASSUME NEW m \in Desk!Ids, m \in DOMAIN MemberOf
      PROVE  /\ DOMAIN member[m] = DOMAIN Desk!NoMember /\ member[m].code = None
             /\ \A f \in {"phone", "line"} : member[m][f] = MemberOf[m][f]
  <2>1. PICK x : x = MemberOf[m] /\ DOMAIN x = {"phone", "line"}
    BY <1>4 DEF StoreDayAssumption, Desk!MembersAssumption
  <2>2. member[m] = [Desk!With(x, Desk!NoMember) EXCEPT !.live = TRUE]
    BY <1>1, <1>4, <2>1 DEF Desk!Init
  <2> QED
    BY <2>1, <2>2, DeskFields DEF Desk!With, Desk!NoMember
<1>5. /\ Desk!Fresh.step = "new" /\ Desk!Fresh.on = None /\ Desk!Fresh.answer = None
      /\ Desk!Fresh.found = None /\ None # "inserted" /\ None \notin Desk!Ids
  BY DEF Desk!Fresh, StoreDayAssumption, Desk!MembersAssumption, Desk!Ids
<1>6. DeskTypes /\ DeskBegan
  BY <1>2, <1>3, <1>4 DEF DeskTypes, DeskBegan
<1>7. VisitsFollow
  BY <1>2, <1>5 DEF VisitsFollow
<1>8. NobodyElse
  BY <1>3 DEF NobodyElse, StoreDayAssumption, Desk!MembersAssumption, Desk!Ids
<1>9. CodesStand /\ FriendsFollow
  BY <1>2, <1>5 DEF CodesStand, FriendsFollow, ToldOf, Desk!Told
<1>10. EdgesGifted
  BY <1>2, <1>5 DEF EdgesGifted
<1>11. Desk!Unique(member)
  <2> SUFFICES ASSUME NEW m \in Desk!Ids, NEW n \in Desk!Ids, m # n,
                      member[m] # Desk!NoMember, member[n] # Desk!NoMember
               PROVE  /\ \A f \in {"phone", "line"} :
                           member[m][f] = None \/ member[m][f] # member[n][f]
                      /\ member[m].code = None
    BY DEF Desk!Unique
  <2>1. m \in DOMAIN MemberOf /\ n \in DOMAIN MemberOf
    BY <1>3
  <2> QED
    BY <1>4, <2>1 DEF StoreDayAssumption, Desk!MembersAssumption
<1> QED
  BY <1>6, <1>7, <1>8, <1>9, <1>10, <1>11 DEF DeskInv

\* A code that a member was told stays the member's and brings it its friends, unless two
\* requests for the code ran together; and no handle is two members'.
THEOREM FriendsAlwaysFollow ==
  ASSUME StoreDayAssumption
  PROVE  Spec => []FriendsFollowCodes
<1>1. Init => DeskInv
  BY DeskInit
<1>2. DeskInv /\ [Next]_vars => DeskInv'
  BY DeskStep
<1>3. DeskInv => FriendsFollowCodes
  <2> SUFFICES ASSUME DeskInv PROVE FriendsFollowCodes
    OBVIOUS
  <2>1. ASSUME NEW q \in Requests, Desk!Told(q), ~ Desk!MintedTwice(visit[q].on)
        PROVE  /\ visit[q].on \in Desk!Ids /\ ToldOf(q, visit[q].on)
               /\ member[visit[q].on].code = visit[q].answer
    <3>1. visit[q].on \in Desk!Ids
      BY <2>1 DEF DeskInv, VisitsFollow, Desk!Told, Desk!Enrolled
    <3> QED
      BY <2>1, <3>1 DEF DeskInv, CodesStand, ToldOf
  <2>2. ASSUME NEW q \in Requests, Desk!Told(q), ~ Desk!MintedTwice(visit[q].on),
               NEW r \in Requests, visit[r].found = "inserted", visit[r].op = "spin",
               q \in deskBefore[r], visit[r].ref = visit[q].answer, member[visit[q].on].live
        PROVE  edge[r] = visit[q].on
    <3>1. ComesFrom(r, q, visit[q].on) /\ visit[q].on \in Desk!Ids
      BY <2>1, <2>2 DEF ComesFrom
    <3> QED
      BY <2>2, <3>1 DEF DeskInv, FriendsFollow
  <2> QED
    BY <2>1, <2>2 DEF FriendsFollowCodes, Desk!FriendsFollowCodes, DeskInv, EdgesGifted
<1> QED
  BY <1>1, <1>2, <1>3, PTL DEF Spec

-----------------------------------------------------------------------------
(***************************************************************************)
(* The menu.  A request writes over what it loaded, unless another request *)
(* for the row that it did not find ended has written meanwhile.           *)
(***************************************************************************)
CardTypes ==
  /\ DOMAIN ask = Requests /\ \A r \in Requests : DOMAIN ask[r] = DOMAIN Card!Fresh
  /\ DOMAIN item = Items /\ \A i \in Items : DOMAIN item[i] = DOMAIN Card!NoItem
  /\ DOMAIN line = Requests /\ DOMAIN span = Requests
  /\ \A r \in Requests : DOMAIN span[r] = DOMAIN Card!Nothing
  /\ DOMAIN menuBefore = Requests /\ \A r \in Requests : menuBefore[r] \subseteq Card!Committed

Ordering(a) == a.step \in {"begun", "loaded", "grouped", "ready"} /\ a.job.op = "order"
Editing(a, ops) == a.step = "ready" /\ a.job.op \in ops

AskGoesOn(r) ==
  LET a == ask[r]
  IN  /\ a.step \in {"new", "begun", "loaded", "grouped", "ready", "done"}
      /\ a.ok => a.step = "done"
      /\ a.ok \/ a.step \notin {"new", "done"} => a.job \in Jobs
      /\ a.step \in {"loaded", "grouped"} => a.job.op = "order"

\* Another request for the row has written such a change since r began.
Overtaken(r, op) ==
  \E q \in Card!Committed \ menuBefore[r] :
    Card!Job(q).op = op /\ Card!Job(q).on = Card!Job(r).on

\* r has set a language of its item.
Translated(r) == r \in Card!Committed /\ Card!Job(r).op = "translate"

\* What a request loaded of the row it is to write, and what the row is by now.
EditFollows(r) ==
  LET a == ask[r]
      i == a.job.on
  IN  /\ Editing(a, {"create", "patch", "translate", "delete"}) => i \in Items
      /\ Editing(a, {"patch", "translate", "delete"}) =>
           /\ item[i].sku # None /\ DOMAIN a.row = DOMAIN Card!NoItem
      /\ Editing(a, {"create"}) => a.row = Card!NoItem
      /\ Editing(a, {"create", "patch"}) => Card!Window(a.row, a.job.fields)
      /\ Editing(a, {"patch"}) =>
           \/ item[i].opens = a.row.opens /\ item[i].closes = a.row.closes
           \/ Overtaken(r, "patch")
      /\ Editing(a, {"translate"}) =>
           /\ a.row.words \subseteq item[i].words \/ Overtaken(r, "translate")
           /\ \A q \in menuBefore[r] : Translated(q) /\ Card!Job(q).on = i =>
                Card!Job(q).fields \in a.row.words \/ Card!Raced(q, {"translate"})

WordsStand ==
  \A r \in Requests : Translated(r) =>
    /\ Card!Job(r).on \in Items /\ item[Card!Job(r).on].sku # None
    /\ \/ Card!Job(r).fields \in item[Card!Job(r).on].words
       \/ Card!Raced(r, {"translate"})

PatchedTogether(i) ==
  \E r \in Card!Committed : /\ Card!Job(r).on = i /\ Card!Job(r).op = "patch"
                            /\ Card!Raced(r, {"patch"})

RowsStand ==
  \A i \in Items : /\ item[i].live => item[i].sku # None
                   /\ Card!Timed(item[i]) \/ PatchedTogether(i)
                   /\ \A k \in Items \ {i} :
                        item[i].live /\ item[k].live => item[i].sku # item[k].sku

\* What an order has read of the menu was there while it ran.
OrderFollows(r) ==
  LET a == ask[r]
      Had(which) == {g \in which \cap DOMAIN Groups : Card!Owner(g) = a.job.on}
  IN  Ordering(a) =>
        /\ span[r].always \subseteq live /\ live \subseteq span[r].ever
        /\ item[a.job.on].price \in span[r].prices
        /\ a.step # "begun" => a.row.price \in span[r].prices
        /\ a.step \in {"grouped", "ready"} =>
             Had(span[r].always) \subseteq a.groups /\ a.groups \subseteq Had(span[r].ever)
        /\ a.step = "ready" => Card!Resolved(a.job.fields, a.groups)

CardInv ==
  /\ CardTypes /\ WordsStand /\ RowsStand /\ Card!AsOffered
  /\ \A r \in Requests : AskGoesOn(r) /\ EditFollows(r) /\ OrderFollows(r)

LEMMA CardFields ==
  /\ DOMAIN Card!Fresh = {"job", "step", "row", "groups", "ok"}
  /\ DOMAIN Card!NoItem = Card!Columns /\ DOMAIN Card!Nothing = {"always", "ever", "prices"}
  /\ Card!Fresh.step = "new" /\ Card!Fresh.ok = FALSE
  /\ Card!NoItem.sku = None /\ Card!NoItem.live = FALSE
  /\ Card!NoItem.opens = None /\ Card!NoItem.closes = None
BY DEF Card!Fresh, Card!NoItem, Card!Nothing, Card!Columns

\* What a step of r leaves as it is: the other requests, and what was said of how they
\* overlapped.  Its record is a then.
OthersAsk(r, a) ==
  /\ DOMAIN ask' = Requests /\ ask'[r] = a
  /\ \A q \in Requests : DOMAIN ask'[q] = DOMAIN Card!Fresh
  /\ \A q \in Requests : q # r => ask'[q] = ask[q] /\ menuBefore'[q] = menuBefore[q]
  /\ r \notin Card!Committed /\ \A q \in Requests : r \notin menuBefore[q]
  /\ Card!Committed \subseteq Card!Committed' /\ Card!Committed' \subseteq Card!Committed \cup {r}
  /\ DOMAIN menuBefore' = Requests
  /\ \A q \in Requests : menuBefore'[q] \subseteq Card!Committed'
  /\ \A ops : \A q \in Card!Committed : Card!Raced(q, ops) => Card!Raced(q, ops)'
  /\ \A op : \A q \in Requests : q # r /\ Overtaken(q, op) => Overtaken(q, op)'

\* A step of one request.
LEMMA CardFrame ==
  ASSUME CardInv, NEW r \in Requests, ~ ask[r].ok,
         NEW a, ask' = [ask EXCEPT ![r] = a], DOMAIN a = DOMAIN Card!Fresh,
         DOMAIN menuBefore' = Requests, menuBefore'[r] \subseteq Card!Committed,
         \A q \in Requests : q # r => menuBefore'[q] = menuBefore[q]
  PROVE  OthersAsk(r, a)
<1>1. /\ DOMAIN ask' = Requests /\ ask'[r] = a
      /\ \A q \in Requests : q # r => ask'[q] = ask[q]
  BY DEF CardInv, CardTypes
<1>2. \A q \in Requests : DOMAIN ask'[q] = DOMAIN Card!Fresh
  BY <1>1 DEF CardInv, CardTypes
<1>3. /\ r \notin Card!Committed /\ Card!Committed \subseteq Card!Committed'
      /\ Card!Committed' \subseteq Card!Committed \cup {r}
  BY <1>1 DEF Card!Committed
<1>4. \A q \in Requests : menuBefore[q] \subseteq Card!Committed
  BY DEF CardInv, CardTypes
<1>5. \A q \in Requests : r \notin menuBefore[q] /\ menuBefore'[q] \subseteq Card!Committed'
  BY <1>3, <1>4
<1>6. \A q \in Card!Committed : q # r /\ q \in Requests /\ Card!Job(q)' = Card!Job(q)
                                /\ menuBefore'[q] = menuBefore[q]
  BY <1>1, <1>3 DEF Card!Committed, Card!Job
<1>7. ASSUME NEW q \in Card!Committed, NEW ops, Card!Raced(q, ops) PROVE Card!Raced(q, ops)'
  <2>1. PICK p \in Card!Committed \ {q} : /\ Card!Job(p).op \in ops
                                          /\ Card!Job(p).on = Card!Job(q).on
                                          /\ Card!Overlap(menuBefore, p, q)
    BY <1>7 DEF Card!Raced
  <2>2. Card!Overlap(menuBefore', p, q)
    BY <1>6, <2>1 DEF Card!Overlap
  <2>3. Card!Job(p)' = Card!Job(p) /\ Card!Job(q)' = Card!Job(q) /\ p \in Card!Committed' \ {q}
    BY <1>3, <1>6, <2>1
  <2> QED
    BY <2>1, <2>2, <2>3 DEF Card!Raced
<1>8. ASSUME NEW q \in Requests, NEW op, q # r, Overtaken(q, op) PROVE Overtaken(q, op)'
  <2>1. PICK p \in Card!Committed \ menuBefore[q] :
          Card!Job(p).op = op /\ Card!Job(p).on = Card!Job(q).on
    BY <1>8 DEF Overtaken
  <2>2. /\ Card!Job(p)' = Card!Job(p) /\ Card!Job(q)' = Card!Job(q)
        /\ p \in Card!Committed' \ menuBefore'[q]
    BY <1>1, <1>3, <1>6, <1>8, <2>1 DEF Card!Job
  <2> QED
    BY <2>1, <2>2 DEF Overtaken
<1> QED
  BY <1>1, <1>2, <1>3, <1>5, <1>7, <1>8 DEF OthersAsk

\* What a step of r may do to the rows: who has a SKU keeps one, and the languages and the
\* hours change by the commits that write them.
Writes(r, i, op) == r \in Card!Committed' /\ ask'[r].job.op = op /\ ask'[r].job.on = i

ItemsWritten(r) ==
  /\ DOMAIN item' = Items /\ \A i \in Items : DOMAIN item'[i] = DOMAIN Card!NoItem
  /\ \A i \in Items : item[i].sku # None =>
       /\ item'[i].sku # None
       /\ item'[i].words = item[i].words \/ Writes(r, i, "translate")
       /\ \/ item'[i].opens = item[i].opens /\ item'[i].closes = item[i].closes
          \/ Writes(r, i, "patch")

\* What the other requests loaded they may go on with.
LEMMA EditsOfOthers ==
  ASSUME CardInv, NEW r \in Requests, NEW a, OthersAsk(r, a), ItemsWritten(r),
         NEW q \in Requests, q # r
  PROVE  EditFollows(q)'
<1>1. EditFollows(q)
  BY DEF CardInv
<1>2. ask'[q] = ask[q] /\ menuBefore'[q] = menuBefore[q] /\ r \notin menuBefore'[q]
  BY DEF OthersAsk
<1>3. \A op : /\ Overtaken(q, op) => Overtaken(q, op)'
              /\ Writes(r, ask[q].job.on, op) => Overtaken(q, op)'
  <2>1. ASSUME NEW op, Writes(r, ask[q].job.on, op) PROVE Overtaken(q, op)'
    BY <1>2, <2>1 DEF Writes, Overtaken, Card!Job
  <2> QED
    BY <2>1 DEF OthersAsk
<1>4. ASSUME NEW p \in menuBefore[q], Translated(p)'
      PROVE  /\ Translated(p) /\ Card!Job(p)' = Card!Job(p)
             /\ Card!Raced(p, {"translate"}) => Card!Raced(p, {"translate"})'
  <2>1. p \in Card!Committed /\ p \in Requests /\ p # r
    BY DEF CardInv, CardTypes, OthersAsk, Card!Committed
  <2>2. ask'[p] = ask[p]
    BY <2>1 DEF OthersAsk
  <2> QED
    BY <1>4, <2>1, <2>2 DEF Translated, Card!Job, OthersAsk
<1> DEFINE e == ask[q]
           i == e.job.on
<1>5. Editing(e, {"create", "patch", "translate", "delete"}) => i \in Items
  BY <1>1 DEF EditFollows
<1>6. Editing(e, {"patch", "translate", "delete"}) =>
        item'[i].sku # None /\ DOMAIN e.row = DOMAIN Card!NoItem
  BY <1>1, <1>5 DEF EditFollows, ItemsWritten, Editing
<1>7. /\ Editing(e, {"create"}) => e.row = Card!NoItem
      /\ Editing(e, {"create", "patch"}) => Card!Window(e.row, e.job.fields)
  BY <1>1 DEF EditFollows
<1>8. Editing(e, {"patch"}) => \/ item'[i].opens = e.row.opens /\ item'[i].closes = e.row.closes
                               \/ Overtaken(q, "patch")'
  BY <1>1, <1>3, <1>5 DEF EditFollows, ItemsWritten, Editing
<1>9. Editing(e, {"translate"}) => e.row.words \subseteq item'[i].words
                                   \/ Overtaken(q, "translate")'
  BY <1>1, <1>3, <1>5 DEF EditFollows, ItemsWritten, Editing
<1>10. Editing(e, {"translate"}) =>
         \A p \in menuBefore[q] : Translated(p)' /\ Card!Job(p)'.on = i =>
           Card!Job(p)'.fields \in e.row.words \/ Card!Raced(p, {"translate"})'
  BY <1>1, <1>4 DEF EditFollows
<1> QED
  BY <1>2, <1>5, <1>6, <1>7, <1>8, <1>9, <1>10 DEF EditFollows

\* What the others saw of a step of r: an order, every offer and price as it is by then.
MenuNoticed(r) ==
  /\ DOMAIN span' = Requests /\ \A q \in Requests : DOMAIN span'[q] = DOMAIN Card!Nothing
  /\ DOMAIN line' = Requests /\ \A q \in Requests : q # r => line'[q] = line[q]
  /\ \A q \in Requests : q # r /\ ~ Ordering(ask[q]) => span'[q] = span[q]
  /\ \A q \in Requests : q # r /\ Ordering(ask[q]) =>
       /\ span'[q].always \subseteq span[q].always \cap live'
       /\ span[q].ever \cup live' \subseteq span'[q].ever
       /\ span[q].prices \cup {item'[ask[q].job.on].price} \subseteq span'[q].prices

\* What the other orders have read they may go on with, and what was ordered stands.
LEMMA OrdersOfOthers ==
  ASSUME CardInv, NEW r \in Requests, NEW a, OthersAsk(r, a), MenuNoticed(r),
         NEW q \in Requests, q # r
  PROVE  /\ OrderFollows(q)'
         /\ q \in Card!Committed' /\ Card!Job(q)'.op = "order" =>
              Card!OfferedIn(line'[q], span'[q])
<1>1. OrderFollows(q) /\ AskGoesOn(q)
  BY DEF CardInv
<1>2. ask'[q] = ask[q] /\ line'[q] = line[q]
  BY DEF OthersAsk, MenuNoticed
<1> DEFINE e == ask[q]
           Had(which) == {g \in which \cap DOMAIN Groups : Card!Owner(g) = e.job.on}
<1>3. CASE Ordering(e)
  <2>1. /\ span'[q].always \subseteq live' /\ live' \subseteq span'[q].ever
        /\ item'[e.job.on].price \in span'[q].prices
        /\ e.step # "begun" => e.row.price \in span'[q].prices
        /\ e.step = "ready" => Card!Resolved(e.job.fields, e.groups)
    BY <1>1, <1>3 DEF OrderFollows, MenuNoticed
  <2>2. Had(span'[q].always) \subseteq Had(span[q].always)
        /\ Had(span[q].ever) \subseteq Had(span'[q].ever)
    BY <1>3 DEF MenuNoticed
  <2>3. e.step \in {"grouped", "ready"} =>
          Had(span'[q].always) \subseteq e.groups /\ e.groups \subseteq Had(span'[q].ever)
    BY <1>1, <1>3, <2>2 DEF OrderFollows
  <2>4. q \notin Card!Committed'
    BY <1>1, <1>2, <1>3 DEF Ordering, Card!Committed, AskGoesOn
  <2> QED
    BY <1>2, <2>1, <2>3, <2>4 DEF OrderFollows
<1>4. CASE ~ Ordering(e)
  <2>1. OrderFollows(q)'
    BY <1>2, <1>4 DEF OrderFollows
  <2>2. span'[q] = span[q]
    BY <1>4 DEF MenuNoticed
  <2>3. q \in Card!Committed' => q \in Card!Committed
    BY DEF OthersAsk
  <2> QED
    BY <1>2, <2>1, <2>2, <2>3 DEF CardInv, Card!AsOffered, Card!Job
<1> QED
  BY <1>3, <1>4

\* What a step has to show of its own request, and of the rows.
LEMMA CardGoesOn ==
  ASSUME CardInv, NEW r \in Requests, NEW a, OthersAsk(r, a), ItemsWritten(r), MenuNoticed(r),
         AskGoesOn(r)', EditFollows(r)', OrderFollows(r)',
         a.ok /\ a.job.op = "order" => Card!OfferedIn(line'[r], span'[r]),
         WordsStand', RowsStand'
  PROVE  CardInv'
<1>1. CardTypes'
  BY DEF CardTypes, OthersAsk, ItemsWritten, MenuNoticed
<1>2. ASSUME NEW q \in Requests PROVE AskGoesOn(q)'
  BY DEF CardInv, AskGoesOn, OthersAsk
<1>3. ASSUME NEW q \in Requests PROVE EditFollows(q)'
  BY EditsOfOthers
<1>4. ASSUME NEW q \in Requests PROVE OrderFollows(q)'
  BY OrdersOfOthers
<1>5. ASSUME NEW q \in Card!Committed', Card!Job(q)'.op = "order"
      PROVE  Card!OfferedIn(line'[q], span'[q])
  <2>1. q \in Requests
    BY DEF Card!Committed
  <2>2. CASE q = r
    BY <1>5, <2>2 DEF Card!Committed, Card!Job, OthersAsk
  <2>3. CASE q # r
    BY <1>5, <2>1, <2>3, OrdersOfOthers
  <2> QED
    BY <2>2, <2>3
<1>6. Card!AsOffered'
  BY <1>5 DEF Card!AsOffered
<1> QED
  BY <1>1, <1>2, <1>3, <1>4, <1>6 DEF CardInv

\* A step that writes no item, and is not a translation.
LEMMA CardRowsStand ==
  ASSUME CardInv, NEW r \in Requests, NEW a, OthersAsk(r, a), item' = item,
         a.ok => a.job.op # "translate"
  PROVE  WordsStand' /\ RowsStand' /\ ItemsWritten(r)
<1>1. ASSUME NEW q \in Card!Committed
      PROVE  /\ q # r /\ q \in Card!Committed' /\ Card!Job(q)' = Card!Job(q)
             /\ \A ops : Card!Raced(q, ops) => Card!Raced(q, ops)'
  <2>1. q # r /\ q \in Requests
    BY DEF OthersAsk, Card!Committed
  <2> QED
    BY <2>1 DEF OthersAsk, Card!Job
<1>2. WordsStand'
  <2> SUFFICES ASSUME NEW q \in Requests, Translated(q)'
               PROVE  /\ Card!Job(q)'.on \in Items /\ item'[Card!Job(q)'.on].sku # None
                      /\ \/ Card!Job(q)'.fields \in item'[Card!Job(q)'.on].words
                         \/ Card!Raced(q, {"translate"})'
    BY DEF WordsStand
  <2>1. q # r
    BY DEF Translated, Card!Committed, Card!Job, OthersAsk
  <2>2. q \in Card!Committed /\ Translated(q)
    BY <1>1, <2>1 DEF Translated, OthersAsk
  <2> QED
    BY <1>1, <2>2 DEF CardInv, WordsStand
<1>3. \A i \in Items : PatchedTogether(i) => PatchedTogether(i)'
  BY <1>1 DEF PatchedTogether
<1>4. RowsStand'
  BY <1>3 DEF CardInv, RowsStand, Card!Timed
<1> QED
  BY <1>2, <1>4 DEF CardInv, CardTypes, ItemsWritten

\* A request reads, and goes on.
LEMMA CardReads ==
  ASSUME CardInv, NEW r \in Requests, ask[r].step \in {"begun", "loaded", "grouped"},
         NEW a, ask' = [ask EXCEPT ![r] = a], DOMAIN a = DOMAIN Card!Fresh,
         a.job = ask[r].job, ~ a.ok, a.step \in {"loaded", "grouped", "ready"},
         a.step \in {"loaded", "grouped"} => a.job.op = "order",
         UNCHANGED <<item, live, line, span, menuBefore>>,
         OthersAsk(r, a) => EditFollows(r)' /\ OrderFollows(r)'
  PROVE  CardInv'
<1>1. ~ ask[r].ok /\ a.job \in Jobs
  BY DEF CardInv, AskGoesOn
<1>2. OthersAsk(r, a)
  BY <1>1, CardFrame DEF CardInv, CardTypes
<1>3. WordsStand' /\ RowsStand' /\ ItemsWritten(r)
  BY <1>2, CardRowsStand
<1>4. MenuNoticed(r)
  BY DEF CardInv, CardTypes, OrderFollows, MenuNoticed
<1>5. AskGoesOn(r)'
  BY <1>1, <1>2 DEF OthersAsk, AskGoesOn
<1> QED
  BY <1>2, <1>3, <1>4, <1>5, CardGoesOn

\* A row to write is loaded.
LEMMA CardLooksUp ==
  ASSUME StoreDayAssumption, CardInv, NEW r \in Requests, Card!LookUpItem(r) \/ Card!LookUpRow(r)
  PROVE  CardInv'
<1>1. PICK x : x = ask[r] /\ DOMAIN x = DOMAIN Card!Fresh
  BY DEF CardInv, CardTypes
<1>2. /\ x.step = "begun" /\ x.job.op \in {"create", "patch", "translate", "delete"}
      /\ x.job.on \in Items /\ UNCHANGED <<item, live, line, span, menuBefore>>
      /\ ask' = [ask EXCEPT ![r].step = "ready", ![r].row = item[x.job.on]]
      /\ IF x.job.op = "create" THEN item[x.job.on] = Card!NoItem ELSE item[x.job.on].live
      /\ x.job.op \in {"create", "patch"} => Card!Window(item[x.job.on], x.job.fields)
  BY <1>1 DEF Card!LookUpItem, Card!LookUpRow, Card!Job
<1>3. PICK c : c = [x EXCEPT !.step = "ready", !.row = item[x.job.on]]
  OBVIOUS
<1>4. /\ DOMAIN c = DOMAIN Card!Fresh /\ c.job = x.job /\ c.step = "ready"
      /\ c.row = item[x.job.on] /\ c.ok = x.ok
  BY <1>1, <1>3, CardFields
<1>5. ask' = [ask EXCEPT ![r] = c]
  BY <1>1, <1>2, <1>3 DEF CardInv, CardTypes
<1>6. ~ c.ok
  BY <1>1, <1>2, <1>4 DEF CardInv, AskGoesOn
<1>7. ASSUME OthersAsk(r, c) PROVE EditFollows(r)' /\ OrderFollows(r)'
  <2>1. ask'[r] = c /\ menuBefore'[r] = menuBefore[r]
    BY <1>2, <1>7 DEF OthersAsk
  <2>2. OrderFollows(r)'
    BY <1>2, <1>4, <2>1 DEF OrderFollows, Ordering
  <2> DEFINE i == x.job.on
  <2>3. c.job.op # "create" => item[i].sku # None /\ DOMAIN c.row = DOMAIN Card!NoItem
    BY <1>2, <1>4 DEF CardInv, RowsStand, CardTypes
  <2>4. c.job.op = "translate" =>
          \A q \in menuBefore[r] : Translated(q)' /\ Card!Job(q)'.on = i =>
            Card!Job(q)'.fields \in item[i].words \/ Card!Raced(q, {"translate"})'
    <3> SUFFICES ASSUME NEW q \in menuBefore[r], Translated(q)', Card!Job(q)'.on = i
                 PROVE  Card!Job(q)'.fields \in item[i].words \/ Card!Raced(q, {"translate"})'
      OBVIOUS
    <3>1. q \in Card!Committed /\ q \in Requests /\ q # r
      BY <1>7 DEF CardInv, CardTypes, OthersAsk, Card!Committed
    <3>2. Card!Job(q)' = Card!Job(q) /\ Translated(q)
      BY <1>7, <3>1 DEF OthersAsk, Card!Job, Translated
    <3>3. Card!Job(q).fields \in item[i].words \/ Card!Raced(q, {"translate"})
      BY <3>1, <3>2 DEF CardInv, WordsStand
    <3> QED
      BY <1>7, <3>1, <3>2, <3>3 DEF OthersAsk
  <2>5. EditFollows(r)'
    BY <1>2, <1>4, <2>1, <2>3, <2>4 DEF EditFollows, Editing
  <2> QED
    BY <2>2, <2>5
<1> QED
  BY <1>1, <1>2, <1>4, <1>5, <1>6, <1>7, CardReads

\* An offer is looked at, or what is to be withdrawn.
LEMMA CardLooksOn ==
  ASSUME StoreDayAssumption, CardInv, NEW r \in Requests,
         Card!AddCategory(r) \/ Card!LookUpOffer(r) \/ Card!LookUpLive(r)
  PROVE  CardInv'
<1>1. PICK x : x = ask[r] /\ DOMAIN x = DOMAIN Card!Fresh
  BY DEF CardInv, CardTypes
<1>2. /\ x.step = "begun" /\ x.job.op \in {"offer", "withdraw"}
      /\ UNCHANGED <<item, live, line, span, menuBefore>>
      /\ ask' = [ask EXCEPT ![r].step = "ready"]
  BY <1>1 DEF Card!AddCategory, Card!LookUpOffer, Card!LookUpLive, Card!Job
<1>3. PICK c : c = [x EXCEPT !.step = "ready"]
  OBVIOUS
<1>4. DOMAIN c = DOMAIN Card!Fresh /\ c.job = x.job /\ c.step = "ready" /\ c.ok = x.ok
  BY <1>1, <1>3, CardFields
<1>5. ask' = [ask EXCEPT ![r] = c]
  BY <1>1, <1>2, <1>3 DEF CardInv, CardTypes
<1>6. ~ c.ok
  BY <1>1, <1>2, <1>4 DEF CardInv, AskGoesOn
<1>7. ASSUME OthersAsk(r, c) PROVE EditFollows(r)' /\ OrderFollows(r)'
  <2>1. ask'[r] = c
    BY <1>7 DEF OthersAsk
  <2> QED
    BY <1>2, <1>4, <2>1 DEF OrderFollows, Ordering, EditFollows, Editing
<1> QED
  BY <1>1, <1>2, <1>4, <1>5, <1>6, <1>7, CardReads

\* An order loads the item, reads its option groups, and checks what was chosen.
LEMMA CardResolves ==
  ASSUME StoreDayAssumption, CardInv, NEW r \in Requests,
         Card!LoadOrdered(r) \/ Card!ReadGroups(r) \/ Card!Resolve(r)
  PROVE  CardInv'
<1>1. PICK x : x = ask[r] /\ DOMAIN x = DOMAIN Card!Fresh
  BY DEF CardInv, CardTypes
<1> DEFINE i == x.job.on
           Had(which) == {g \in which \cap DOMAIN Groups : Card!Owner(g) = i}
<1>2. PICK st, found, groups :
        /\ x.step \in {"begun", "loaded", "grouped"} /\ x.job.op = "order"
        /\ UNCHANGED <<item, live, line, span, menuBefore>>
        /\ ask' = [ask EXCEPT ![r].step = st, ![r].row = found, ![r].groups = groups]
        /\ \/ x.step = "begun" /\ st = "loaded" /\ found = item[i]
           \/ x.step = "loaded" /\ st = "grouped" /\ found = x.row /\ groups = Had(live)
           \/ /\ x.step = "grouped" /\ st = "ready" /\ found = x.row /\ groups = x.groups
              /\ Card!Resolved(x.job.fields, groups)
  <2>1. CASE Card!LoadOrdered(r)
    <3>1. PICK n : n = item[i]
      OBVIOUS
    <3>2. /\ x.step = "begun" /\ x.job.op = "order"
          /\ UNCHANGED <<item, live, line, span, menuBefore>>
          /\ ask' = [ask EXCEPT ![r].step = "loaded", ![r].row = n]
      BY <1>1, <2>1, <3>1 DEF Card!LoadOrdered, Card!Job
    <3>3. PICK g : g = x.groups
      OBVIOUS
    <3>4. [x EXCEPT !.step = "loaded", !.row = n]
            = [x EXCEPT !.step = "loaded", !.row = n, !.groups = g]
      BY <1>1, <3>3, CardFields
    <3>5. ask' = [ask EXCEPT ![r].step = "loaded", ![r].row = n, ![r].groups = g]
      BY <1>1, <3>2, <3>4 DEF CardInv, CardTypes
    <3> QED
      BY <3>1, <3>2, <3>5
  <2>2. CASE Card!ReadGroups(r)
    <3>1. PICK g : g = Had(live)
      OBVIOUS
    <3>2. /\ x.step = "loaded" /\ UNCHANGED <<item, live, line, span, menuBefore>>
          /\ ask' = [ask EXCEPT ![r].step = "grouped", ![r].groups = g]
      BY <1>1, <2>2, <3>1 DEF Card!ReadGroups, Card!Job
    <3>3. x.job.op = "order"
      BY <1>1, <3>2 DEF CardInv, AskGoesOn
    <3>4. PICK n : n = x.row
      OBVIOUS
    <3>5. [x EXCEPT !.step = "grouped", !.groups = g]
            = [x EXCEPT !.step = "grouped", !.row = n, !.groups = g]
      BY <1>1, <3>4, CardFields
    <3>6. ask' = [ask EXCEPT ![r].step = "grouped", ![r].row = n, ![r].groups = g]
      BY <1>1, <3>2, <3>5 DEF CardInv, CardTypes
    <3> QED
      BY <3>1, <3>2, <3>3, <3>4, <3>6
  <2>3. CASE Card!Resolve(r)
    <3>1. /\ x.step = "grouped" /\ UNCHANGED <<item, live, line, span, menuBefore>>
          /\ ask' = [ask EXCEPT ![r].step = "ready"]
          /\ Card!Resolved(x.job.fields, x.groups)
      BY <1>1, <2>3 DEF Card!Resolve, Card!Job
    <3>2. x.job.op = "order"
      BY <1>1, <3>1 DEF CardInv, AskGoesOn
    <3>3. PICK n, g : n = x.row /\ g = x.groups
      OBVIOUS
    <3>4. [x EXCEPT !.step = "ready"] = [x EXCEPT !.step = "ready", !.row = n, !.groups = g]
      BY <1>1, <3>3, CardFields
    <3>5. ask' = [ask EXCEPT ![r].step = "ready", ![r].row = n, ![r].groups = g]
      BY <1>1, <3>1, <3>4 DEF CardInv, CardTypes
    <3> QED
      BY <3>1, <3>2, <3>3, <3>5
  <2> QED
    BY <2>1, <2>2, <2>3
<1>3. PICK c : c = [x EXCEPT !.step = st, !.row = found, !.groups = groups]
  OBVIOUS
<1>4. /\ DOMAIN c = DOMAIN Card!Fresh /\ c.job = x.job /\ c.step = st /\ c.row = found
      /\ c.groups = groups /\ c.ok = x.ok
  BY <1>1, <1>3, CardFields
<1>5. ask' = [ask EXCEPT ![r] = c]
  BY <1>1, <1>2, <1>3 DEF CardInv, CardTypes
<1>6. ~ c.ok
  BY <1>1, <1>2, <1>4 DEF CardInv, AskGoesOn
<1>7. ASSUME OthersAsk(r, c) PROVE EditFollows(r)' /\ OrderFollows(r)'
  <2>1. ask'[r] = c
    BY <1>7 DEF OthersAsk
  <2>2. EditFollows(r)'
    BY <1>2, <1>4, <2>1 DEF EditFollows, Editing
  <2>3. /\ span[r].always \subseteq live /\ live \subseteq span[r].ever
        /\ item[i].price \in span[r].prices
        /\ x.step # "begun" => x.row.price \in span[r].prices
        /\ x.step = "grouped" =>
             Had(span[r].always) \subseteq x.groups /\ x.groups \subseteq Had(span[r].ever)
    BY <1>1, <1>2 DEF CardInv, OrderFollows, Ordering
  <2>4. c.step \in {"grouped", "ready"} =>
          Had(span[r].always) \subseteq c.groups /\ c.groups \subseteq Had(span[r].ever)
    BY <1>2, <1>4, <2>3
  <2>5. c.row.price \in span[r].prices
    BY <1>2, <1>4, <2>3
  <2>6. c.step = "ready" => Card!Resolved(c.job.fields, c.groups)
    BY <1>2, <1>4
  <2>7. OrderFollows(r)'
    <3>1. UNCHANGED <<item, live, span>> /\ c.job.on = i
      BY <1>2, <1>4
    <3> HIDE DEF i
    <3> QED
      BY <2>1, <2>3, <2>4, <2>5, <2>6, <3>1 DEF OrderFollows
  <2> QED
    BY <2>2, <2>7
<1> QED
  BY <1>1, <1>2, <1>4, <1>5, <1>6, <1>7, CardReads

\* The row as a commit leaves it: the columns that were changed of the row that was loaded.
LEMMA CardRow ==
  ASSUME StoreDayAssumption, CardInv, NEW r \in Requests, NEW x, x = ask[r],
         NEW i, i = x.job.on, x.step = "ready",
         x.job.op \in {"create", "patch", "translate", "delete"},
         x.job.op = "create" => item[i] = Card!NoItem,
         NEW n, n = Card!With(Card!Written(r), item[i])
  PROVE  /\ i \in Items /\ DOMAIN n = Card!Columns /\ n.sku # None
         /\ x.job.op = "translate" =>
              \/ x.job.fields \in x.row.words /\ n.words = item[i].words
              \/ n.words = x.row.words \cup {x.job.fields}
         /\ x.job.op # "translate" => n.words = item[i].words \/ item[i] = Card!NoItem
         /\ x.job.op \in {"translate", "delete"} =>
              n.opens = item[i].opens /\ n.closes = item[i].closes
         /\ x.job.op \in {"create", "patch"} =>
              \/ Card!Timed(n)
              \/ n.opens = item[i].opens /\ n.closes = item[i].closes
              \/ x.job.op = "patch" /\ Overtaken(r, "patch")
<1>1. EditFollows(r) /\ x.job \in Jobs /\ DOMAIN x = DOMAIN Card!Fresh
  BY DEF CardInv, AskGoesOn, CardTypes
<1>2. i \in Items
  BY <1>1 DEF EditFollows, Editing
<1>3. PICK o : o = item[i] /\ DOMAIN o = Card!Columns
  BY <1>2, CardFields DEF CardInv, CardTypes
<1> DEFINE wanted == CASE x.job.op = "translate" -> [words |-> x.row.words \cup {x.job.fields}]
                       [] x.job.op = "delete" -> [live |-> FALSE]
                       [] OTHER -> x.job.fields
<1>4. PICK w : /\ w = Card!Written(r)
               /\ w = [c \in {d \in DOMAIN wanted : wanted[d] # x.row[d]} |-> wanted[c]]
  BY DEF Card!Written, Card!Job
<1>5. /\ DOMAIN n = Card!Columns
      /\ \A c \in Card!Columns : n[c] = IF c \in DOMAIN w THEN w[c] ELSE o[c]
  BY <1>3, <1>4 DEF Card!With
<1>6. {"sku", "words", "opens", "closes"} \subseteq Card!Columns
  BY DEF Card!Columns
<1>7. CASE x.job.op = "translate"
  <2>1. wanted = [words |-> x.row.words \cup {x.job.fields}]
    BY <1>7
  <2>2. DOMAIN w \subseteq {"words"} /\ ("words" \in DOMAIN w => w["words"] = wanted.words)
        /\ ("words" \notin DOMAIN w => wanted.words = x.row.words)
    BY <1>4, <2>1
  <2>3. n.sku = o.sku /\ n.opens = o.opens /\ n.closes = o.closes
    BY <1>5, <1>6, <2>2
  <2>4. \/ x.job.fields \in x.row.words /\ n.words = o.words
        \/ n.words = x.row.words \cup {x.job.fields}
    BY <1>5, <1>6, <2>1, <2>2
  <2>5. o.sku # None
    BY <1>1, <1>3, <1>7 DEF EditFollows, Editing
  <2> QED
    BY <1>2, <1>3, <1>5, <1>7, <2>3, <2>4, <2>5
<1>8. CASE x.job.op = "delete"
  <2>1. wanted = [live |-> FALSE]
    BY <1>8
  <2>2. DOMAIN w \subseteq {"live"}
    BY <1>4, <2>1
  <2>3. n.sku = o.sku /\ n.opens = o.opens /\ n.closes = o.closes /\ n.words = o.words
    BY <1>5, <1>6, <2>2
  <2>4. o.sku # None
    BY <1>1, <1>3, <1>8 DEF EditFollows, Editing
  <2> QED
    BY <1>2, <1>3, <1>5, <1>8, <2>3, <2>4
<1>9. CASE x.job.op \in {"create", "patch"}
  <2>1. PICK f : f = x.job.fields /\ wanted = f
    BY <1>9
  <2> HIDE DEF wanted
  <2>2. /\ DOMAIN w = {c \in DOMAIN f : f[c] # x.row[c]}
        /\ \A c \in DOMAIN w : w[c] = f[c]
    BY <1>4, <2>1
  <2>3. /\ x.job.op = "create" => DOMAIN f = Card!Columns
        /\ x.job.op = "patch" => DOMAIN f \subseteq Card!Columns \ {"words", "live"}
        /\ "sku" \in DOMAIN f => f["sku"] # None
    BY <1>1, <1>9, <2>1 DEF StoreDayAssumption, Card!MenuAssumption
  <2>4. /\ DOMAIN x.row = Card!Columns
        /\ x.job.op = "create" => x.row = Card!NoItem /\ o = Card!NoItem
        /\ x.job.op = "patch" => o.sku # None
    BY <1>1, <1>3, <1>9, CardFields DEF EditFollows, Editing
  <2>5. n.sku # None
    <3>1. CASE "sku" \in DOMAIN w
      BY <1>5, <1>6, <2>2, <2>3, <3>1
    <3>2. CASE "sku" \notin DOMAIN w /\ x.job.op = "patch"
      BY <1>5, <1>6, <2>4, <3>2
    <3>3. CASE "sku" \notin DOMAIN w /\ x.job.op = "create"
      BY <1>6, <2>2, <2>3, <2>4, <3>3, CardFields
    <3> QED
      BY <1>9, <3>1, <3>2, <3>3
  <2>6. n.words = o.words \/ o = Card!NoItem
    BY <1>5, <1>6, <1>9, <2>2, <2>3, <2>4
  <2>7. \/ o.opens = x.row.opens /\ o.closes = x.row.closes
        \/ x.job.op = "patch" /\ Overtaken(r, "patch")
    BY <1>1, <1>3, <1>9, <2>4 DEF EditFollows, Editing
  <2>8. ASSUME o.opens = x.row.opens, o.closes = x.row.closes
        PROVE  Card!Timed(n) \/ (n.opens = o.opens /\ n.closes = o.closes)
    <3>1. PICK m : m = Card!With(f, x.row)
      OBVIOUS
    <3>2. n.opens = m.opens /\ n.closes = m.closes
      <4>1. \A c \in Card!Columns : m[c] = IF c \in DOMAIN f THEN f[c] ELSE x.row[c]
        BY <2>4, <3>1 DEF Card!With
      <4>2. ASSUME NEW c \in Card!Columns, o[c] = x.row[c] PROVE n[c] = m[c]
        BY <1>5, <2>2, <4>1, <4>2
      <4> QED
        BY <1>6, <2>8, <4>2
    <3>3. CASE {"opens", "closes"} \cap DOMAIN f = {}
      <4>1. "opens" \notin DOMAIN w /\ "closes" \notin DOMAIN w
        BY <2>2, <3>3
      <4> QED
        BY <1>5, <1>6, <4>1
    <3>4. CASE {"opens", "closes"} \cap DOMAIN f # {}
      <4>1. Card!Window(x.row, f)
        BY <1>1, <1>9, <2>1 DEF EditFollows, Editing
      <4>2. Card!Timed(m)
        BY <3>1, <3>4, <4>1 DEF Card!Window
      <4> QED
        BY <3>2, <4>2 DEF Card!Timed
    <3> QED
      BY <3>3, <3>4
  <2> QED
    BY <1>2, <1>3, <1>5, <1>9, <2>5, <2>6, <2>7, <2>8
<1> QED
  BY <1>7, <1>8, <1>9

\* A commit ends its request; it overlapped each that it does not know of.
LEMMA CardEnds ==
  ASSUME CardInv, NEW r \in Requests, ~ ask[r].ok, ask[r].job \in Jobs, NEW x, x = ask[r],
         Card!Done(r), menuBefore' = menuBefore
  PROVE  \E a : /\ OthersAsk(r, a) /\ a.step = "done" /\ a.ok /\ a.job = x.job
                /\ r \in Card!Committed' /\ AskGoesOn(r)' /\ EditFollows(r)' /\ OrderFollows(r)'
                /\ \A q \in Card!Committed : q \notin menuBefore[r] =>
                     Card!Overlap(menuBefore, q, r)'
<1>1. PICK j : j = x.job /\ j \in Jobs
  OBVIOUS
<1>2. PICK a : a = [Card!Fresh EXCEPT !.job = j, !.step = "done", !.ok = TRUE]
  OBVIOUS
<1>3. DOMAIN a = DOMAIN Card!Fresh /\ a.job = j /\ a.step = "done" /\ a.ok
  BY <1>2, CardFields
<1>4. ask' = [ask EXCEPT ![r] = a]
  BY <1>1, <1>2 DEF Card!Done, Card!Job
<1>5. OthersAsk(r, a)
  BY <1>3, <1>4, CardFrame DEF CardInv, CardTypes
<1>6. ask'[r] = a
  BY <1>5 DEF OthersAsk
<1>7. r \in Card!Committed'
  BY <1>3, <1>6 DEF Card!Committed
<1>8. AskGoesOn(r)' /\ EditFollows(r)' /\ OrderFollows(r)'
  BY <1>1, <1>3, <1>6 DEF AskGoesOn, EditFollows, Editing, OrderFollows, Ordering
<1>9. ASSUME NEW q \in Card!Committed, q \notin menuBefore[r]
      PROVE  Card!Overlap(menuBefore, q, r)'
  BY <1>5, <1>9 DEF OthersAsk, Card!Overlap, Card!Committed
<1> QED
  BY <1>1, <1>3, <1>5, <1>7, <1>8, <1>9

\* Noticed is what the other orders see.
LEMMA CardNotices ==
  ASSUME CardInv, NEW r \in Requests, Card!Noticed, line' = line
  PROVE  MenuNoticed(r)
<1>1. \A q \in Requests : Ordering(ask[q]) = (q \in Card!InFlight /\ Card!Job(q).op = "order")
  BY DEF CardInv, AskGoesOn, Ordering, Card!InFlight, Card!Job
<1>2. DOMAIN span' = Requests
  BY DEF Card!Noticed
<1>3. ASSUME NEW q \in Requests, Ordering(ask[q])
      PROVE  span'[q] = [always |-> span[q].always \cap live', ever |-> span[q].ever \cup live',
                         prices |-> span[q].prices \cup {item'[ask[q].job.on].price}]
  BY <1>1, <1>3 DEF Card!Noticed, Card!Job
<1>4. ASSUME NEW q \in Requests, ~ Ordering(ask[q]) PROVE span'[q] = span[q]
  BY <1>1, <1>4 DEF Card!Noticed
<1>5. \A q \in Requests : DOMAIN span'[q] = DOMAIN Card!Nothing
  BY <1>3, <1>4, CardFields DEF CardInv, CardTypes
<1> QED
  BY <1>2, <1>3, <1>4, <1>5 DEF MenuNoticed, CardInv, CardTypes

\* An edit of an item is committed: on the row as it is by then.
LEMMA CardCommitsItem ==
  ASSUME StoreDayAssumption, CardInv, NEW r \in Requests, Card!CommitItem(r)
  PROVE  CardInv'
<1>1. PICK x : x = ask[r]
  OBVIOUS
<1>2. PICK i : i = x.job.on
  OBVIOUS
<1>3. PICK n : n = Card!With(Card!Written(r), item[i])
  OBVIOUS
<1>4. /\ x.step = "ready" /\ x.job.op \in {"create", "patch", "translate", "delete"}
      /\ n.live => Card!SkuFree(i, [sku |-> n.sku])
      /\ x.job.op = "create" => item[i] = Card!NoItem
      /\ item' = [item EXCEPT ![i] = n] /\ UNCHANGED <<live, line, menuBefore>>
      /\ Card!Noticed /\ Card!Done(r)
  BY <1>1, <1>2, <1>3 DEF Card!CommitItem, Card!Job
<1>5. /\ i \in Items /\ DOMAIN n = Card!Columns /\ n.sku # None
      /\ x.job.op = "translate" =>
           \/ x.job.fields \in x.row.words /\ n.words = item[i].words
           \/ n.words = x.row.words \cup {x.job.fields}
      /\ x.job.op # "translate" => n.words = item[i].words \/ item[i] = Card!NoItem
      /\ x.job.op \in {"translate", "delete"} =>
           n.opens = item[i].opens /\ n.closes = item[i].closes
      /\ x.job.op \in {"create", "patch"} =>
           \/ Card!Timed(n)
           \/ n.opens = item[i].opens /\ n.closes = item[i].closes
           \/ x.job.op = "patch" /\ Overtaken(r, "patch")
  BY <1>1, <1>2, <1>3, <1>4, CardRow
<1>6. ~ x.ok /\ x.job \in Jobs
  BY <1>1, <1>4 DEF CardInv, AskGoesOn
<1>7. PICK a : /\ OthersAsk(r, a) /\ a.step = "done" /\ a.ok /\ a.job = x.job
               /\ r \in Card!Committed'
               /\ AskGoesOn(r)' /\ EditFollows(r)' /\ OrderFollows(r)'
               /\ \A q \in Card!Committed : q \notin menuBefore[r] =>
                    Card!Overlap(menuBefore, q, r)'
  BY <1>1, <1>4, <1>6, CardEnds
<1>8. /\ DOMAIN item' = Items /\ item'[i] = n
      /\ \A k \in Items : k # i => item'[k] = item[k]
      /\ DOMAIN item = Items /\ \A k \in Items : DOMAIN item[k] = DOMAIN Card!NoItem
  BY <1>4, <1>5 DEF CardInv, CardTypes
<1>9. ask'[r] = a /\ Card!Job(r)' = x.job /\ Card!Job(r) = x.job
  BY <1>1, <1>7 DEF OthersAsk, Card!Job
<1>10. x.job.op = "create" => item[i].sku = None
  BY <1>4, CardFields
<1>11. item[i] = Card!NoItem => item[i].sku = None
  BY CardFields
<1>12. ASSUME NEW k \in Items, item[k].sku # None
       PROVE  /\ item'[k].sku # None
              /\ item'[k].words = item[k].words \/ Writes(r, k, "translate")
              /\ \/ item'[k].opens = item[k].opens /\ item'[k].closes = item[k].closes
                 \/ Writes(r, k, "patch")
  <2>1. CASE k # i
    BY <1>8, <1>12, <2>1
  <2>2. CASE k = i
    <3>1. x.job.op # "create"
      BY <1>10, <1>12, <2>2
    <3>2. \A op : x.job.op = op => Writes(r, k, op)
      BY <1>2, <1>7, <1>9, <2>2 DEF Writes
    <3> QED
      BY <1>4, <1>5, <1>8, <1>11, <1>12, <2>2, <3>1, <3>2
  <2> QED
    BY <2>1, <2>2
<1>13. ItemsWritten(r)
  BY <1>5, <1>8, <1>12, CardFields DEF ItemsWritten
<1>14. MenuNoticed(r)
  BY <1>4, CardNotices
<1>15. ASSUME NEW q \in Card!Committed
       PROVE  /\ q # r /\ q \in Requests /\ q \in Card!Committed' /\ Card!Job(q)' = Card!Job(q)
              /\ \A ops : Card!Raced(q, ops) => Card!Raced(q, ops)'
  <2>1. q # r /\ q \in Requests
    BY <1>7 DEF OthersAsk, Card!Committed
  <2> QED
    BY <1>7, <2>1 DEF OthersAsk, Card!Job
<1>16. \A op : Overtaken(r, op) => Card!Raced(r, {op})'
  <2> SUFFICES ASSUME NEW op, Overtaken(r, op) PROVE Card!Raced(r, {op})'
    OBVIOUS
  <2>1. PICK q \in Card!Committed \ menuBefore[r] :
          Card!Job(q).op = op /\ Card!Job(q).on = Card!Job(r).on
    BY DEF Overtaken
  <2>2. /\ q \in Card!Committed' \ {r} /\ Card!Job(q)' = Card!Job(q)
        /\ Card!Overlap(menuBefore, q, r)'
    BY <1>7, <1>15, <2>1
  <2> QED
    BY <1>9, <2>1, <2>2 DEF Card!Raced
<1>17. \A k \in Items : PatchedTogether(k) => PatchedTogether(k)'
  BY <1>15 DEF PatchedTogether
<1>18. RowsStand'
  <2> SUFFICES ASSUME NEW k \in Items
               PROVE  /\ item'[k].live => item'[k].sku # None
                      /\ Card!Timed(item'[k]) \/ PatchedTogether(k)'
                      /\ \A m \in Items \ {k} :
                           item'[k].live /\ item'[m].live => item'[k].sku # item'[m].sku
    BY DEF RowsStand, Card!Timed
  <2>1. item'[k].live => item'[k].sku # None
    BY <1>5, <1>8 DEF CardInv, RowsStand
  <2>2. Card!Timed(item'[k]) \/ PatchedTogether(k)'
    <3>1. CASE k # i
      BY <1>8, <1>17, <3>1 DEF CardInv, RowsStand
    <3>2. CASE k = i /\ n.opens = item[i].opens /\ n.closes = item[i].closes
      BY <1>8, <1>17, <3>2 DEF CardInv, RowsStand, Card!Timed
    <3>3. CASE k = i /\ Card!Timed(n)
      BY <1>8, <3>3
    <3>4. CASE k = i /\ x.job.op = "patch" /\ Overtaken(r, "patch")
      BY <1>2, <1>7, <1>9, <1>16, <3>4 DEF PatchedTogether
    <3> QED
      BY <1>4, <1>5, <3>1, <3>2, <3>3, <3>4
  <2>3. n.live => \A m \in Items \ {i} : item[m].live => item[m].sku # n.sku
    BY <1>4 DEF Card!SkuFree
  <2>4. \A m \in Items \ {k} : item'[k].live /\ item'[m].live => item'[k].sku # item'[m].sku
    BY <1>5, <1>8, <2>3 DEF CardInv, RowsStand
  <2> QED
    BY <2>1, <2>2, <2>4
<1>19. WordsStand'
  <2> SUFFICES ASSUME NEW q \in Requests, Translated(q)'
               PROVE  /\ Card!Job(q)'.on \in Items /\ item'[Card!Job(q)'.on].sku # None
                      /\ \/ Card!Job(q)'.fields \in item'[Card!Job(q)'.on].words
                         \/ Card!Raced(q, {"translate"})'
    BY DEF WordsStand
  <2>1. CASE q = r
    <3>1. x.job.op = "translate"
      BY <1>9, <2>1 DEF Translated
    <3>2. x.row.words \subseteq item[i].words \/ Overtaken(r, "translate")
      BY <1>1, <1>2, <1>4, <3>1 DEF CardInv, EditFollows, Editing
    <3> QED
      BY <1>2, <1>5, <1>8, <1>9, <1>16, <2>1, <3>1, <3>2
  <2>2. CASE q # r
    <3>1. q \in Card!Committed
      BY <1>7, <2>2 DEF Translated, OthersAsk
    <3>2. Translated(q) /\ Card!Job(q)' = Card!Job(q)
      BY <1>15, <3>1 DEF Translated
    <3>3. PICK k : k = Card!Job(q).on
      OBVIOUS
    <3>4. /\ k \in Items /\ item[k].sku # None
          /\ Card!Job(q).fields \in item[k].words \/ Card!Raced(q, {"translate"})
      BY <3>2, <3>3 DEF CardInv, WordsStand
    <3>5. item'[k].sku # None
      BY <1>12, <3>4
    <3>6. CASE item'[k].words = item[k].words
      BY <1>15, <3>1, <3>2, <3>3, <3>4, <3>5, <3>6
    <3>7. CASE item'[k].words # item[k].words
      <4>1. Writes(r, k, "translate")
        BY <1>12, <3>4, <3>7
      <4>2. k = i /\ x.job.op = "translate"
        BY <1>2, <1>7, <1>9, <4>1 DEF Writes
      <4>3. n.words = x.row.words \cup {x.job.fields}
        BY <1>5, <1>8, <3>7, <4>2
      <4>4. CASE q \in menuBefore[r]
        <5>1. Card!Job(q).fields \in x.row.words \/ Card!Raced(q, {"translate"})
          BY <1>1, <1>2, <1>4, <3>2, <3>3, <4>2, <4>4 DEF CardInv, EditFollows, Editing
        <5> QED
          BY <1>8, <1>15, <3>1, <3>2, <3>3, <3>4, <3>5, <4>2, <4>3, <5>1
      <4>5. CASE q \notin menuBefore[r]
        <5>1. Card!Overlap(menuBefore, r, q)'
          BY <1>7, <3>1, <4>5 DEF Card!Overlap
        <5>2. Card!Raced(q, {"translate"})'
          BY <1>2, <1>7, <1>9, <2>2, <3>2, <3>3, <4>2, <5>1 DEF Card!Raced
        <5> QED
          BY <3>2, <3>3, <3>4, <3>5, <5>2
      <4> QED
        BY <4>4, <4>5
    <3> QED
      BY <3>6, <3>7
  <2> QED
    BY <2>1, <2>2
<1>20. a.job.op # "order"
  BY <1>4, <1>7
<1> QED
  BY <1>7, <1>13, <1>14, <1>18, <1>19, <1>20, CardGoesOn

\* What is offered changes, and no row.
LEMMA CardCommitsOffer ==
  ASSUME StoreDayAssumption, CardInv, NEW r \in Requests, Card!CommitOffer(r)
  PROVE  CardInv'
<1>1. PICK x : x = ask[r]
  OBVIOUS
<1>2. /\ x.step = "ready" /\ x.job.op \in {"offer", "withdraw"}
      /\ UNCHANGED <<item, line, menuBefore>> /\ Card!Noticed /\ Card!Done(r)
  BY <1>1 DEF Card!CommitOffer, Card!Job
<1>3. ~ x.ok /\ x.job \in Jobs
  BY <1>1, <1>2 DEF CardInv, AskGoesOn
<1>4. PICK a : /\ OthersAsk(r, a) /\ a.step = "done" /\ a.ok /\ a.job = x.job
               /\ AskGoesOn(r)' /\ EditFollows(r)' /\ OrderFollows(r)'
  BY <1>1, <1>2, <1>3, CardEnds
<1>5. a.job.op # "translate" /\ a.job.op # "order"
  BY <1>2, <1>4
<1>6. WordsStand' /\ RowsStand' /\ ItemsWritten(r)
  BY <1>2, <1>4, <1>5, CardRowsStand
<1>7. MenuNoticed(r)
  BY <1>2, CardNotices
<1> QED
  BY <1>4, <1>5, <1>6, <1>7, CardGoesOn

\* A line of what the request has read is of what was offered.
LEMMA CardCommitsLine ==
  ASSUME StoreDayAssumption, CardInv, NEW r \in Requests, Card!CommitLine(r)
  PROVE  CardInv'
<1>1. PICK x : x = ask[r]
  OBVIOUS
<1>2. PICK i, chosen : i = x.job.on /\ chosen = x.job.fields
  OBVIOUS
<1> DEFINE parts == {p \in live \cap DOMAIN Parts : Card!Owner(p) = i}
           l == [item |-> i, options |-> chosen, price |-> x.row.price + Card!Added(chosen),
                 parts |-> parts]
<1>3. /\ x.step = "ready" /\ x.job.op = "order"
      /\ line' = [line EXCEPT ![r] = l]
      /\ UNCHANGED <<item, live, span, menuBefore>> /\ Card!Done(r)
  BY <1>1, <1>2 DEF Card!CommitLine, Card!Job
<1>4. ~ x.ok /\ x.job \in Jobs
  BY <1>1, <1>3 DEF CardInv, AskGoesOn
<1>5. PICK a : /\ OthersAsk(r, a) /\ a.step = "done" /\ a.ok /\ a.job = x.job
               /\ AskGoesOn(r)' /\ EditFollows(r)' /\ OrderFollows(r)'
  BY <1>1, <1>3, <1>4, CardEnds
<1>6. a.job.op # "translate"
  BY <1>3, <1>5
<1>7. WordsStand' /\ RowsStand' /\ ItemsWritten(r)
  BY <1>3, <1>5, <1>6, CardRowsStand
<1>8. /\ line'[r] = l /\ DOMAIN line' = Requests
      /\ \A q \in Requests : q # r => line'[q] = line[q]
  BY <1>3 DEF CardInv, CardTypes
<1>9. MenuNoticed(r)
  BY <1>3, <1>8 DEF CardInv, CardTypes, OrderFollows, MenuNoticed
<1> DEFINE s == span[r]
           HadGroups(which) == {g \in which \cap DOMAIN Groups : Card!Owner(g) = i}
           Had(which) == {o \in which \cap Card!Offers : Card!Owner(o) = i}
<1>10. /\ s.always \subseteq live /\ live \subseteq s.ever /\ x.row.price \in s.prices
       /\ HadGroups(s.always) \subseteq x.groups /\ x.groups \subseteq HadGroups(s.ever)
       /\ Card!Resolved(chosen, x.groups)
  BY <1>1, <1>2, <1>3 DEF CardInv, OrderFollows, Ordering
<1>11. DOMAIN Groups \subseteq Card!Offers /\ DOMAIN Parts \subseteq Card!Offers
  BY DEF Card!Offers
<1>12. \A g \in Had(s.always) \cap DOMAIN Groups :
         Card!Chosen(chosen, g) \in Groups[g].min .. Groups[g].max
  BY <1>10 DEF Card!Resolved
<1>13. {OptionOf[o] : o \in chosen} \subseteq Had(s.ever)
  <2>1. \A o \in chosen : OptionOf[o] \in x.groups
    BY <1>10 DEF Card!Resolved
  <2>2. HadGroups(s.ever) \subseteq Had(s.ever)
    BY <1>11
  <2> QED
    BY <1>10, <2>1, <2>2
<1>14. Had(s.always) \cap DOMAIN Parts \subseteq parts /\ parts \subseteq Had(s.ever)
  BY <1>10, <1>11
<1>15. l.item = i /\ l.options = chosen /\ l.parts = parts
       /\ l.price = x.row.price + Card!Added(chosen)
  OBVIOUS
<1>16. \E p \in s.prices : l.price = p + Card!Added(l.options)
  BY <1>10, <1>15
<1>17. Card!OfferedIn(l, s)
  <2> HIDE DEF l, parts
  <2> QED
    BY <1>12, <1>13, <1>14, <1>15, <1>16 DEF Card!OfferedIn
<1>18. Card!OfferedIn(line'[r], span'[r])
  BY <1>3, <1>8, <1>17
<1> QED
  BY <1>5, <1>7, <1>9, <1>18, CardGoesOn

\* Of a request that fails nothing is left.
LEMMA CardFails ==
  ASSUME StoreDayAssumption, CardInv, NEW r \in Requests, Card!Rollback(r)
  PROVE  CardInv'
<1>1. PICK a : a = [Card!Fresh EXCEPT !.step = "done"]
  OBVIOUS
<1>2. DOMAIN a = DOMAIN Card!Fresh /\ a.step = "done" /\ ~ a.ok
  BY <1>1, CardFields
<1>3. /\ ask' = [ask EXCEPT ![r] = a] /\ ask[r].step \notin {"new", "done"}
      /\ menuBefore' = [menuBefore EXCEPT ![r] = {}]
      /\ span' = [span EXCEPT ![r] = Card!Nothing] /\ UNCHANGED <<item, live, line>>
  BY <1>1 DEF Card!Rollback, Card!Failed, Card!InFlight
<1>4. ~ ask[r].ok
  BY <1>3 DEF CardInv, AskGoesOn
<1>5. /\ DOMAIN menuBefore' = Requests /\ menuBefore'[r] \subseteq Card!Committed
      /\ \A q \in Requests : q # r => menuBefore'[q] = menuBefore[q]
  BY <1>3 DEF CardInv, CardTypes
<1>6. OthersAsk(r, a)
  BY <1>2, <1>3, <1>4, <1>5, CardFrame
<1>7. ask'[r] = a
  BY <1>6 DEF OthersAsk
<1>8. AskGoesOn(r)' /\ EditFollows(r)' /\ OrderFollows(r)'
  BY <1>2, <1>7 DEF AskGoesOn, EditFollows, Editing, OrderFollows, Ordering
<1>9. WordsStand' /\ RowsStand' /\ ItemsWritten(r)
  BY <1>2, <1>3, <1>6, CardRowsStand
<1>10. MenuNoticed(r)
  BY <1>3 DEF CardInv, CardTypes, OrderFollows, MenuNoticed
<1> QED
  BY <1>2, <1>6, <1>8, <1>9, <1>10, CardGoesOn

\* A request begins.
LEMMA CardBegins ==
  ASSUME StoreDayAssumption, CardInv, NEW r \in Requests, NEW j \in Jobs, Card!Begin(r, j)
  PROVE  CardInv'
<1>1. PICK x : x = ask[r] /\ DOMAIN x = DOMAIN Card!Fresh
  BY DEF CardInv, CardTypes
<1>2. PICK i : i = j.on
  OBVIOUS
<1>3. PICK s : s = [always |-> live, ever |-> live, prices |-> {item[i].price}]
  OBVIOUS
<1>4. /\ x.step = "new" /\ ask' = [ask EXCEPT ![r].job = j, ![r].step = "begun"]
      /\ menuBefore' = [menuBefore EXCEPT ![r] = Card!Committed]
      /\ span' = IF j.op # "order" THEN span ELSE [span EXCEPT ![r] = s]
      /\ UNCHANGED <<item, live, line>>
  BY <1>1, <1>2, <1>3 DEF Card!Begin
<1>5. PICK a : a = [x EXCEPT !.job = j, !.step = "begun"]
  OBVIOUS
<1>6. DOMAIN a = DOMAIN Card!Fresh /\ a.job = j /\ a.step = "begun" /\ a.ok = x.ok
  BY <1>1, <1>5, CardFields
<1>7. ask' = [ask EXCEPT ![r] = a]
  BY <1>1, <1>4, <1>5 DEF CardInv, CardTypes
<1>8. ~ a.ok /\ ~ x.ok
  BY <1>1, <1>4, <1>6 DEF CardInv, AskGoesOn
<1>9. /\ DOMAIN menuBefore' = Requests /\ menuBefore'[r] \subseteq Card!Committed
      /\ \A q \in Requests : q # r => menuBefore'[q] = menuBefore[q]
  BY <1>4 DEF CardInv, CardTypes
<1>10. OthersAsk(r, a)
  BY <1>1, <1>6, <1>7, <1>8, <1>9, CardFrame
<1>11. ask'[r] = a
  BY <1>10 DEF OthersAsk
<1>12. AskGoesOn(r)' /\ EditFollows(r)'
  BY <1>6, <1>8, <1>11 DEF AskGoesOn, EditFollows, Editing
<1>13. DOMAIN s = DOMAIN Card!Nothing /\ s.always = live /\ s.ever = live
       /\ s.prices = {item[i].price}
  BY <1>3, CardFields
<1>14. /\ DOMAIN span' = Requests /\ \A q \in Requests : DOMAIN span'[q] = DOMAIN Card!Nothing
       /\ \A q \in Requests : q # r => span'[q] = span[q]
       /\ j.op = "order" => span'[r] = s
  BY <1>4, <1>13 DEF CardInv, CardTypes
<1>15. OrderFollows(r)'
  BY <1>2, <1>4, <1>6, <1>11, <1>13, <1>14 DEF OrderFollows, Ordering
<1>16. WordsStand' /\ RowsStand' /\ ItemsWritten(r)
  BY <1>4, <1>8, <1>10, CardRowsStand
<1>17. MenuNoticed(r)
  BY <1>4, <1>14 DEF CardInv, CardTypes, OrderFollows, MenuNoticed
<1> QED
  BY <1>8, <1>10, <1>12, <1>15, <1>16, <1>17, CardGoesOn

\* Only a step on the menu moves it.
LEMMA CardStep ==
  ASSUME StoreDayAssumption, CardInv, [Next]_vars
  PROVE  CardInv'
<1>1. CASE UNCHANGED menu
  <2>1. UNCHANGED <<item, live, ask, line, span, menuBefore>>
    BY <1>1 DEF menu
  <2>2. /\ Card!Committed' = Card!Committed
        /\ \A r \in Requests : Card!Job(r)' = Card!Job(r)
    BY <2>1 DEF Card!Committed, Card!Job
  <2>3. Card!Committed \subseteq Requests
    BY DEF Card!Committed
  <2>4. \A r \in Requests : \A ops : Card!Raced(r, ops)' = Card!Raced(r, ops)
    BY <2>1, <2>2, <2>3 DEF Card!Raced, Card!Overlap
  <2>5. \A r \in Requests : \A op : Overtaken(r, op)' = Overtaken(r, op)
    BY <2>1, <2>2, <2>3 DEF Overtaken
  <2>6. \A r \in Requests : Translated(r)' = Translated(r)
    BY <2>2 DEF Translated
  <2>7. CardTypes'
    BY <2>1, <2>2 DEF CardInv, CardTypes
  <2>8. WordsStand'
    BY <2>1, <2>2, <2>4, <2>6 DEF CardInv, WordsStand
  <2>9. RowsStand'
    BY <2>1, <2>2, <2>3, <2>4 DEF CardInv, RowsStand, PatchedTogether, Card!Timed
  <2>10. Card!AsOffered'
    BY <2>1, <2>2, <2>3 DEF CardInv, Card!AsOffered
  <2>11. ASSUME NEW r \in Requests PROVE AskGoesOn(r)' /\ OrderFollows(r)'
    BY <2>1 DEF CardInv, AskGoesOn, OrderFollows
  <2>12. ASSUME NEW r \in Requests PROVE EditFollows(r)'
    <3>1. menuBefore[r] \subseteq Requests
      BY <2>3 DEF CardInv, CardTypes
    <3>2. EditFollows(r)
      BY DEF CardInv
    <3> QED
      BY <2>1, <2>2, <2>4, <2>5, <2>6, <3>1, <3>2 DEF EditFollows
  <2> QED
    BY <2>7, <2>8, <2>9, <2>10, <2>11, <2>12 DEF CardInv
<1>2. CASE OnTheMenu
  <2>1. PICK r \in Requests :
          \/ \E j \in Jobs : Card!Begin(r, j)
          \/ Card!LookUpItem(r) \/ Card!LookUpRow(r) \/ Card!AddCategory(r)
          \/ Card!LookUpOffer(r) \/ Card!LookUpLive(r)
          \/ Card!CommitItem(r) \/ Card!CommitOffer(r)
          \/ Card!LoadOrdered(r) \/ Card!ReadGroups(r) \/ Card!Resolve(r) \/ Card!CommitLine(r)
          \/ Card!Rollback(r)
    BY <1>2 DEF OnTheMenu
  <2> QED
    BY <2>1, CardBegins, CardLooksUp, CardLooksOn, CardResolves, CardCommitsItem,
       CardCommitsOffer, CardCommitsLine, CardFails
<1> QED
  BY <1>1, <1>2 DEF Next, vars, AtTheTill, OnForms, AtTheClock, AtTheDesk, InTheBooks

\* It holds at first.
LEMMA CardInit ==
  ASSUME StoreDayAssumption, Init
  PROVE  CardInv
<1>1. Card!Init
  BY DEF Init
<1>2. /\ DOMAIN ask = Requests /\ \A r \in Requests : ask[r] = Card!Fresh
      /\ DOMAIN line = Requests
      /\ DOMAIN span = Requests /\ \A r \in Requests : span[r] = Card!Nothing
      /\ DOMAIN menuBefore = Requests /\ \A r \in Requests : menuBefore[r] = {}
      /\ DOMAIN item = Items
  BY <1>1 DEF Card!Init
<1>3. Card!Committed = {}
  BY <1>2, CardFields DEF Card!Committed
<1>4. \A i \in Items : item[i] = IF i \in DOMAIN MenuOf THEN MenuOf[i] ELSE Card!NoItem
  BY <1>1 DEF Card!Init
<1>5. \A i \in DOMAIN MenuOf :
        /\ DOMAIN MenuOf[i] = Card!Columns /\ MenuOf[i].sku # None /\ Card!Timed(MenuOf[i])
        /\ \A k \in DOMAIN MenuOf \ {i} :
             MenuOf[i].live /\ MenuOf[k].live => MenuOf[i].sku # MenuOf[k].sku
  BY DEF StoreDayAssumption, Card!MenuAssumption
<1>6. Card!Timed(Card!NoItem)
  BY CardFields DEF Card!Timed
<1>7. CardTypes
  BY <1>2, <1>3, <1>4, <1>5, CardFields DEF CardTypes
<1>8. WordsStand /\ Card!AsOffered
  BY <1>3 DEF WordsStand, Translated, Card!AsOffered
<1>9. RowsStand
  BY <1>4, <1>5, <1>6, CardFields DEF RowsStand
<1>10. ASSUME NEW r \in Requests PROVE AskGoesOn(r) /\ EditFollows(r) /\ OrderFollows(r)
  BY <1>2, CardFields DEF AskGoesOn, EditFollows, Editing, OrderFollows, Ordering
<1> QED
  BY <1>7, <1>8, <1>9, <1>10 DEF CardInv

\* Edits of a row merge: a SKU is one live item's, a language once set stays and the hours
\* are both set or both empty, unless two edits of that kind ran together.
THEOREM EditsAlwaysMerge ==
  ASSUME StoreDayAssumption
  PROVE  Spec => []EditsMerge
<1>1. Init => CardInv
  BY CardInit
<1>2. CardInv /\ [Next]_vars => CardInv'
  BY CardStep
<1>3. CardInv => EditsMerge
  <2> SUFFICES ASSUME CardInv PROVE EditsMerge
    OBVIOUS
  <2>1. \A r \in Card!Committed : r \in Requests
    BY DEF Card!Committed
  <2> QED
    BY <2>1 DEF EditsMerge, Card!EditsMerge, CardInv, WordsStand, Translated, RowsStand,
                PatchedTogether
<1> QED
  BY <1>1, <1>2, <1>3, PTL DEF Spec

\* What an order takes from the menu was there while it ran, however the menu was edited
\* between its statements.
THEOREM AlwaysAsOffered ==
  ASSUME StoreDayAssumption
  PROVE  Spec => []AsOffered
<1>1. Init => CardInv
  BY CardInit
<1>2. CardInv /\ [Next]_vars => CardInv'
  BY CardStep
<1>3. CardInv => AsOffered
  BY DEF CardInv, AsOffered
<1> QED
  BY <1>1, <1>2, <1>3, PTL DEF Spec

-----------------------------------------------------------------------------
(***************************************************************************)
(* The report.                                                             *)
(***************************************************************************)

\* Shifts begin and costs occur at instants.
BooksInv ==
  /\ hour \in Nat
  /\ \A s \in ShiftIds : stint[s] # None => stint[s].in \in Nat
  /\ \A c \in CostIds : cost[c] # None => cost[c].at \in Nat

\* The rows of the books keep to that in each step.
LEMMA BooksStep == BooksInv /\ [Next]_vars => BooksInv'
<1> SUFFICES ASSUME BooksInv, [Next]_vars PROVE BooksInv'
  OBVIOUS
<1>1. Instants \subseteq Nat
  BY StoreDayAssumption DEF Books!DailyPnlAssumption
<1>2. CASE UNCHANGED books
  BY <1>2 DEF BooksInv, books
<1>3. CASE InTheBooks
  <2>1. ASSUME NEW o \in OrderIds, Books!OpenOrder(o) \/ Books!EndOrder(o) PROVE BooksInv'
    BY <2>1 DEF Books!OpenOrder, Books!EndOrder, BooksInv
  <2>2. ASSUME NEW s \in ShiftIds, NEW e \in Staff, Books!ClockIn(s, e) PROVE BooksInv'
    <3>1. PICK new : new = [who |-> e, in |-> hour, hours |-> None]
      OBVIOUS
    <3>2. stint' = [stint EXCEPT ![s] = new] /\ new.in = hour /\ UNCHANGED <<hour, cost>>
      BY <2>2, <3>1 DEF Books!ClockIn
    <3>3. \A x \in ShiftIds : stint'[x] = stint[x] \/ stint'[x] = new
      BY <3>2
    <3> QED
      BY <3>2, <3>3 DEF BooksInv
  <2>3. ASSUME NEW s \in ShiftIds, Books!ClockOut(s) PROVE BooksInv'
    <3>1. PICK w : stint' = [stint EXCEPT ![s].hours = w]
      BY <2>3 DEF Books!ClockOut
    <3>2. PICK old, new : old = stint[s] /\ new = [old EXCEPT !.hours = w]
      OBVIOUS
    <3>3. stint' = [stint EXCEPT ![s] = new] /\ old # None /\ UNCHANGED <<hour, cost>>
      BY <2>3, <3>1, <3>2 DEF Books!ClockOut
    <3>4. new.in = old.in
      BY <3>2
    <3>5. \A x \in ShiftIds : stint'[x] = stint[x] \/ (stint'[x] = new /\ old.in \in Nat)
      BY <3>2, <3>3 DEF BooksInv
    <3> QED
      BY <3>3, <3>4, <3>5 DEF BooksInv
  <2>4. ASSUME NEW c \in CostIds, Books!RecordCost(c) PROVE BooksInv'
    <3>1. PICK kind \in {"waste", "staff_meal", "tasting"}, t \in Instants :
            cost' = [cost EXCEPT ![c] = [kind |-> kind, at |-> t, amount |-> 3]]
      BY <2>4, Zenon DEF Books!RecordCost
    <3>2. PICK new : new = [kind |-> kind, at |-> t, amount |-> 3]
      OBVIOUS
    <3>3. cost' = [cost EXCEPT ![c] = new] /\ new.at = t /\ UNCHANGED <<hour, stint>>
      BY <2>4, <3>1, <3>2 DEF Books!RecordCost
    <3>4. \A x \in CostIds : cost'[x] = cost[x] \/ cost'[x] = new
      BY <3>3
    <3> QED
      BY <1>1, <3>3, <3>4 DEF BooksInv
  <2>5. ASSUME NEW e \in Staff, Books!EditStaff(e) PROVE BooksInv'
    BY <2>5 DEF Books!EditStaff, BooksInv
  <2>6. CASE Books!Pass
    BY <1>1, <2>6 DEF Books!Pass, BooksInv
  <2> QED
    BY <1>3, <2>1, <2>2, <2>3, <2>4, <2>5, <2>6 DEF InTheBooks
<1>4. \/ UNCHANGED books \/ InTheBooks
  BY DEF Next, AtTheTill, OnForms, AtTheClock, OnTheMenu, AtTheDesk, vars
<1> QED
  BY <1>2, <1>3, <1>4

LEMMA BooksHold == Spec => []BooksInv
<1>1. Init => BooksInv
  BY StoreDayAssumption DEF Init, Books!Init, BooksInv, Books!DailyPnlAssumption
<1> QED
  BY <1>1, BooksStep, PTL DEF Spec

\* An instant is within a day when it is of that day.
LEMMA WithinADay ==
  ASSUME NEW t \in Nat, NEW d \in Nat
  PROVE  Books!Within(t, d) <=> t \div 24 = d
BY DEF Books!Within, Books!DayWindow

\* What is reported is a matter of the rows of the day and of the records of the staff.
LEMMA ReportOfTheRows ==
  ASSUME BooksInv, BooksInv', staff' = staff, NEW d \in Nat,
         Books!RowsOf(d)' = Books!RowsOf(d)
  PROVE  Books!Report(d)' = Books!Report(d)
<1> DEFINE S == {x \in ShiftIds : stint[x] # None /\ stint[x].in \div 24 = d}
           C == {x \in CostIds : cost[x] # None /\ cost[x].at \div 24 = d}
           O == {x \in OrderIds : bill[x] # None /\ bill[x].day = d}
<1>1. /\ [o \in O |-> bill[o]]' = [o \in O |-> bill[o]]
      /\ [s \in S |-> stint[s]]' = [s \in S |-> stint[s]]
      /\ [c \in C |-> cost[c]]' = [c \in C |-> cost[c]]
  BY DEF Books!RowsOf
<1>2. /\ O' = O /\ \A o \in O : bill'[o] = bill[o]
      /\ S' = S /\ \A s \in S : stint'[s] = stint[s]
      /\ C' = C /\ \A c \in C : cost'[c] = cost[c]
  <2>1. O' = O /\ \A o \in O : bill'[o] = bill[o]
    BY <1>1
  <2>2. S' = S /\ \A s \in S : stint'[s] = stint[s]
    BY <1>1
  <2>3. C' = C /\ \A c \in C : cost'[c] = cost[c]
    BY <1>1
  <2> QED
    BY <2>1, <2>2, <2>3
<1>3. Books!StintsOf(d) = S /\ Books!StintsOf(d)' = S'
  <2>1. \A x \in ShiftIds :
          stint[x] # None => (Books!Within(stint[x].in, d) <=> stint[x].in \div 24 = d)
    BY WithinADay DEF BooksInv
  <2>2. \A x \in ShiftIds :
          stint'[x] # None => (Books!Within(stint'[x].in, d) <=> stint'[x].in \div 24 = d)
    BY WithinADay DEF BooksInv
  <2> QED
    BY <2>1, <2>2 DEF Books!StintsOf
<1>4. \A kind : /\ Books!CostsOf(d, kind) = {c \in C : cost[c].kind = kind}
                /\ Books!CostsOf(d, kind)' = {c \in C' : cost'[c].kind = kind}
  <2>1. \A x \in CostIds :
          cost[x] # None => (Books!Within(cost[x].at, d) <=> cost[x].at \div 24 = d)
    BY WithinADay DEF BooksInv
  <2>2. \A x \in CostIds :
          cost'[x] # None => (Books!Within(cost'[x].at, d) <=> cost'[x].at \div 24 = d)
    BY WithinADay DEF BooksInv
  <2> QED
    BY <2>1, <2>2 DEF Books!CostsOf
<1>5. \A status : /\ Books!OrdersOf(d, status) = {o \in O : bill[o].status = status}
                  /\ Books!OrdersOf(d, status)' = {o \in O' : bill'[o].status = status}
  BY DEF Books!OrdersOf
<1> HIDE DEF S, C, O
<1>6. \A kind : Books!CostOf(d, kind)' = Books!CostOf(d, kind)
  <2> TAKE kind
  <2>1. Books!CostsOf(d, kind)' = Books!CostsOf(d, kind)
        /\ \A c \in Books!CostsOf(d, kind) : cost'[c].amount = cost[c].amount
    <3>1. {c \in C' : cost'[c].kind = kind} = {c \in C : cost[c].kind = kind}
      BY <1>2
    <3>2. \A c \in {x \in C : cost[x].kind = kind} : cost'[c].amount = cost[c].amount
      BY <1>2
    <3> QED
      BY <1>4, <3>1, <3>2, Zenon
  <2>2. [c \in Books!CostsOf(d, kind) |-> cost[c].amount]'
          = [c \in Books!CostsOf(d, kind) |-> cost[c].amount]
    BY <2>1
  <2> QED
    BY <2>2, Zenon DEF Books!CostOf
<1>7. \A e, tier : Books!HoursOf(e, d, tier)' = Books!HoursOf(e, d, tier)
  <2> TAKE e, tier
  <2> DEFINE T == {s \in Books!StintsOf(d) : stint[s].who = e /\ stint[s].hours # None}
  <2>1. T' = T /\ \A s \in T : stint'[s].hours[tier] = stint[s].hours[tier]
    BY <1>2, <1>3
  <2>2. [s \in T |-> stint[s].hours[tier]]' = [s \in T |-> stint[s].hours[tier]]
    BY <2>1
  <2> QED
    BY <2>2, Zenon DEF Books!HoursOf
<1>8. Books!Wages(d)' = Books!Wages(d)
  <2>1. \A e : Books!LaborCost(e, d)' = Books!LaborCost(e, d)
    <3> TAKE e
    <3>1. Books!Employed(e, d)' = Books!Employed(e, d)
      BY DEF Books!Employed
    <3> QED
      BY <1>7, <3>1 DEF Books!LaborCost
  <2>2. [e \in {x \in Staff : staff[x].live} |-> Books!Rounded(Books!LaborCost(e, d))]'
          = [e \in {x \in Staff : staff[x].live} |-> Books!Rounded(Books!LaborCost(e, d))]
    BY <2>1
  <2> QED
    BY <2>2, Zenon DEF Books!Wages
<1>9. \A status : Books!OrdersOf(d, status)' = Books!OrdersOf(d, status)
  <2>1. \A status : {o \in O' : bill'[o].status = status} = {o \in O : bill[o].status = status}
    BY <1>2
  <2> QED
    BY <1>5, <2>1, Zenon
<1> DEFINE closed == Books!OrdersOf(d, "closed")
<1>10. closed' = closed /\ \A o \in closed : bill'[o] = bill[o]
  <2>1. Books!OrdersOf(d, "closed") \subseteq O
    BY <1>5
  <2> QED
    BY <1>2, <1>9, <2>1
<1>11. /\ [o \in closed |-> Books!Due(o)]' = [o \in closed |-> Books!Due(o)]
       /\ [o \in closed |-> bill[o].cogs]' = [o \in closed |-> bill[o].cogs]
       /\ [o \in closed |-> bill[o].paid]' = [o \in closed |-> bill[o].paid]
  <2>1. \A o \in closed : Books!Due(o)' = Books!Due(o)
    BY <1>10 DEF Books!Due, Books!ServiceCharge
  <2> QED
    BY <1>10, <2>1
<1> QED
  BY <1>6, <1>8, <1>9, <1>11 DEF Books!Report

(***************************************************************************)
(* A day's report changes only with the rows of that day or the records of *)
(* the staff (load_day_facts, compose).                                 *)
(***************************************************************************)
THEOREM DayAlwaysStands == Spec => DayStands
<1>1. ASSUME BooksInv, BooksInv', staff' = staff, NEW d \in {t \div 24 : t \in Instants},
             Books!RowsOf(d)' = Books!RowsOf(d)
      PROVE  Books!Report(d)' = Books!Report(d)
  <2>1. d \in Nat
    BY StoreDayAssumption DEF Books!DailyPnlAssumption
  <2> QED
    BY <1>1, <2>1, ReportOfTheRows
<1>2. BooksInv /\ BooksInv' /\ [Next]_vars =>
        [Books!vars' # Books!vars /\ staff' = staff =>
           \A d \in {t \div 24 : t \in Instants} :
             Books!RowsOf(d)' = Books!RowsOf(d) => Books!Report(d)' = Books!Report(d)]_Books!vars
  BY <1>1
<1> QED
  BY <1>2, BooksHold, PTL DEF Spec, DayStands, Books!DayStands
=============================================================================
