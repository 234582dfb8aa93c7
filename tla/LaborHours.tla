----------------------------- MODULE LaborHours -----------------------------
(***************************************************************************)
(* The hours of a shift by pay tier.                                       *)
(*   services/calc/labor_hours_classifier.py   classify_hours              *)
(*   services/clock_service.py                 its adapter classify_hours  *)
(* An instant is a number of ticks since a midnight in Taipei, a tick half *)
(* the hundredth of an hour that the result is rounded to (half up).       *)
(***************************************************************************)
EXTENDS Integers

Hour == 200
Day == 24 * Hour

\* The day of an instant in Taipei; in UTC, eight hours behind, its number is the same
\* from eight in the morning on.
TaipeiDay(t) == t \div Day
UtcDay(t) == (t - 8 * Hour) \div Day

RegularCap == 8 * Hour
TierCap == 2 * Hour
Ceiling == 12 * Hour

Smaller(a, b) == IF a <= b THEN a ELSE b

\* The shift cut at the midnight it crosses, if it does; the second part may be empty.
Segments(in, out) ==
  LET cut == IF TaipeiDay(in) = TaipeiDay(out) THEN out ELSE TaipeiDay(out) * Day
  IN  <<[day |-> TaipeiDay(in), length |-> cut - in],
        [day |-> TaipeiDay(out), length |-> out - cut]>>

Buckets == {"regular", "tier1", "tier2", "holiday"}

\* _bucket_weekday_segment.
Weekday(length) ==
  LET over == length - Smaller(length, RegularCap)
      more == over - Smaller(over, TierCap)
  IN  [regular |-> Smaller(length, RegularCap), tier1 |-> Smaller(over, TierCap),
       tier2 |-> Smaller(more, TierCap), holiday |-> 0]

HolidayRate(length) == [regular |-> 0, tier1 |-> 0, tier2 |-> 0, holiday |-> length]

RoundHalfUp(ticks) == (ticks + 1) \div 2

\* A shift of more than 24 hours, or of more than 12 on one day that is no holiday.
Refused(in, out, holidays) ==
  \/ out <= in \/ out - in > Day
  \/ \E i \in {1, 2} : LET s == Segments(in, out)[i]
                       IN  s.day \notin holidays /\ s.length > Ceiling

\* The hundredths of an hour in each bucket.
Classify(in, out, holidays) ==
  LET part == [i \in {1, 2} |-> LET s == Segments(in, out)[i]
                                IN  IF s.day \in holidays THEN HolidayRate(s.length)
                                                          ELSE Weekday(s.length)]
  IN  [b \in Buckets |-> RoundHalfUp(part[1][b] + part[2][b])]

\* The holidays the adapter passes on: the day of the clock-in, taken in UTC.
HolidayDates(in, isHoliday) == IF isHoliday THEN {UtcDay(in)} ELSE {}

Total(hours) == hours.regular + hours.tier1 + hours.tier2 + hours.holiday
=============================================================================
