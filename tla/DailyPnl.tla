------------------------------ MODULE DailyPnl ------------------------------
(***************************************************************************)
(* The owner's report of a day, computed whenever it is asked for from the *)
(* rows there are.                                                         *)
(*   services/daily_pnl_service.py   load_day_facts, labor_lines, compose  *)
(*   services/calc/profit_calc.py    compute_daily_pnl                     *)
(*   routers/employees.py            the staff's records                   *)
(* Prices include the tax.  An instant is an hour since a midnight in      *)
(* Taipei; money is exact, in Units of which a cent has 168000 (it is      *)
(* divided by 21, by 30 and by 24000), and rounded where the code does it. *)
(***************************************************************************)
EXTENDS Integers, FiniteSets, Functions, DiscountResolver

CONSTANTS
  OrderIds, ShiftIds, CostIds, Staff,  \* the ids of rows, the employees
  Instants,                            \* bound: the hours at which something happens
  Bills,                               \* what an order may come to: gross, discount, rate, cogs
  Worked,                              \* what a shift may come to: hours by pay tier
  PayOf, RaisedTo,                     \* of each employee, wage, salary, hired; a new wage
  FixedMonthly, OnCostRate,            \* settings: cents a month, hundredths of the wages
  None

Unit == 168000
Cents(x) == x * Unit
MonthDays == 30

\* q2, _quantize_twd: to a cent, half away from zero.
Rounded(x) == IF x >= 0 THEN HalfUp(x, Unit) ELSE - HalfUp(- x, Unit)

\* What the constants are: StoreDay assumes it.
DailyPnlAssumption ==
  /\ Instants \subseteq Nat /\ FixedMonthly \in Nat /\ OnCostRate \in 0 .. 100
  /\ \A e \in Staff : PayOf[e].wage \in Nat /\ PayOf[e].salary \in Nat

VARIABLES now, order, stint, cost, staff

vars == <<now, order, stint, cost, staff>>

Init ==
  /\ now \in {t \in Instants : \A s \in Instants : t <= s}
  /\ order = [o \in OrderIds |-> None] /\ stint = [s \in ShiftIds |-> None]
  /\ cost = [c \in CostIds |-> None]
  /\ staff = [e \in Staff |-> [wage |-> PayOf[e].wage, salary |-> PayOf[e].salary,
                               hired |-> PayOf[e].hired, left |-> None, live |-> TRUE]]
-----------------------------------------------------------------------------
Today == now \div 24

\* Slip: the day of the UTC calendar.
UtcWindow(d) == [from |-> 24 * d + 8, to |-> 24 * (d + 1) + 8]

\* _day_window_utc: from midnight in Taipei until before the next one.
DayWindow(d) == [from |-> 24 * d, to |-> 24 * (d + 1)]

Within(t, d) == DayWindow(d).from <= t /\ t < DayWindow(d).to

OrdersOf(d, status) ==
  {o \in OrderIds : order[o] # None /\ order[o].day = d /\ order[o].status = status}

CostsOf(d, kind) ==
  {c \in CostIds : cost[c] # None /\ cost[c].kind = kind /\ Within(cost[c].at, d)}

CostOf(d, kind) == SumFunction([c \in CostsOf(d, kind) |-> cost[c].amount])

StintsOf(d) == {s \in ShiftIds : stint[s] # None /\ Within(stint[s].in, d)}

\* The hours of the shifts of e that were begun on day d and have ended, in one tier.
HoursOf(e, d, tier) ==
  LET ended == {s \in StintsOf(d) : stint[s].who = e /\ stint[s].hours # None}
  IN  SumFunction([s \in ended |-> stint[s].hours[tier]])

Employed(e, d) == staff[e].hired <= d /\ (staff[e].left # None => d <= staff[e].left)

\* A salary accrues by the day, worked or not, and its overtime is paid on top; a wage is
\* paid by the hour.
LaborCost(e, d) ==
  LET h(tier) == HoursOf(e, d, tier)
      pay == staff[e]
      basis == Cents(pay.salary) \div 24000
  IN  IF pay.salary > 0
      THEN (IF Employed(e, d) THEN Cents(pay.salary) \div MonthDays ELSE 0)
             + basis * (h("tier1") * 134 + h("tier2") * 167 + h("holiday") * 100)
      ELSE (Cents(pay.wage) \div 100)
             * (h("regular") * 100 + h("tier1") * 134 + h("tier2") * 167 + h("holiday") * 200)

\* The staff on the report: those with a record, each line rounded on its own.
Wages(d) ==
  SumFunction([e \in {x \in Staff : staff[x].live} |-> Rounded(LaborCost(e, d))])

ServiceCharge(o) == HalfEven(order[o].gross * order[o].rate, 100)
Due(o) == order[o].gross - order[o].discount + ServiceCharge(o)

(***************************************************************************)
(* compose and compute_daily_pnl: every figure is rounded at the end, the  *)
(* profit too, which is not the difference of the rounded figures.         *)
(***************************************************************************)
\* compute_daily_pnl: what is left of the revenue.
Profit(revenue, costs, labor, fixed) == Rounded(revenue - costs - labor - fixed)

Report(d) ==
  LET closed == OrdersOf(d, "closed")
      billed == SumFunction([o \in closed |-> Due(o)])
      vat == Cents(billed) \div 21
      revenue == Cents(billed) - vat
      cogs == SumFunction([o \in closed |-> order[o].cogs])
      waste == CostOf(d, "waste")
      meals == CostOf(d, "staff_meal")
      tasting == CostOf(d, "tasting")
      costs == Cents(cogs + waste + meals + tasting)
      labor == Cents(Wages(d)) + Wages(d) * (Unit \div 100) * OnCostRate
      fixed == Cents(FixedMonthly) \div MonthDays
  IN  [orders |-> Cardinality(closed), open |-> Cardinality(OrdersOf(d, "open")),
       voided |-> Cardinality(OrdersOf(d, "voided")),
       billed |-> billed, vat |-> Rounded(vat), revenue |-> Rounded(revenue), cogs |-> cogs,
       waste |-> waste, meals |-> meals, tasting |-> tasting,
       grossProfit |-> Rounded(revenue - costs), labor |-> Rounded(labor),
       fixed |-> Rounded(fixed), netProfit |-> Profit(revenue, costs, labor, fixed),
       paidOver |-> SumFunction([o \in closed |-> order[o].paid]) - billed]
-----------------------------------------------------------------------------
\* The till's rows, as far as the report reads them: opened, and closed when paid in full.
OpenOrder(o) ==
  /\ order[o] = None
  /\ \E b \in Bills : order' = [order EXCEPT ![o] =
       [day |-> Today, status |-> "open", gross |-> b.gross, discount |-> b.discount,
        rate |-> b.rate, cogs |-> b.cogs, paid |-> 0]]
  /\ UNCHANGED <<now, stint, cost, staff>>

EndOrder(o) ==
  /\ order[o] # None /\ order[o].status = "open"
  /\ \/ order' = [order EXCEPT ![o].status = "closed", ![o].paid = Due(o)]
     \/ order' = [order EXCEPT ![o].status = "voided"]
  /\ UNCHANGED <<now, stint, cost, staff>>

ClockIn(s, e) ==
  /\ stint[s] = None /\ staff[e].live
  /\ stint' = [stint EXCEPT ![s] = [who |-> e, in |-> now, hours |-> None]]
  /\ UNCHANGED <<now, order, cost, staff>>

ClockOut(s) ==
  /\ stint[s] # None /\ stint[s].hours = None /\ stint[s].in < now
  /\ \E w \in Worked : stint' = [stint EXCEPT ![s].hours = w]
  /\ UNCHANGED <<now, order, cost, staff>>

\* occurred_at is the caller's: a cost may be recorded late.
RecordCost(c) ==
  /\ cost[c] = None
  /\ \E kind \in {"waste", "staff_meal", "tasting"}, t \in Instants :
       t <= now /\ cost' = [cost EXCEPT ![c] = [kind |-> kind, at |-> t, amount |-> 3]]
  /\ UNCHANGED <<now, order, stint, staff>>

\* update_employee (a raise, a last day) and delete_employee.
EditStaff(e) ==
  /\ staff[e].live
  /\ \/ staff' = [staff EXCEPT ![e].wage = RaisedTo]
     \/ staff[e].left = None /\ staff' = [staff EXCEPT ![e].left = Today]
     \/ staff' = [staff EXCEPT ![e].live = FALSE]
  /\ UNCHANGED <<now, order, stint, cost>>

Pass ==
  /\ \E t \in Instants : t > now /\ now' = t
  /\ UNCHANGED <<order, stint, cost, staff>>

Next ==
  \/ \E o \in OrderIds : OpenOrder(o) \/ EndOrder(o)
  \/ \E s \in ShiftIds : ClockOut(s) \/ \E e \in Staff : ClockIn(s, e)
  \/ \E c \in CostIds : RecordCost(c)
  \/ \E e \in Staff : EditStaff(e)
  \/ Pass

Spec == Init /\ [][Next]_vars
-----------------------------------------------------------------------------
TypeOK ==
  /\ now \in Instants /\ \A o \in OrderIds : order[o] = None \/ order[o].gross \in Nat
  /\ \A e \in Staff : staff[e].wage \in Nat

\* The rows of a day, by the calendar of the store.
RowsOf(d) ==
  [orders |-> [o \in {x \in OrderIds : order[x] # None /\ order[x].day = d} |-> order[o]],
   stints |-> [s \in {x \in ShiftIds : stint[x] # None /\ stint[x].in \div 24 = d} |-> stint[s]],
   costs |-> [c \in {x \in CostIds : cost[x] # None /\ cost[x].at \div 24 = d} |-> cost[c]]]

(***************************************************************************)
(* A day's report changes only with the rows of that day: an order of it   *)
(* that ends, a shift begun on it that ends, a cost that is recorded late  *)
(* - or with the record of an employee, whose wage is not kept by day, so  *)
(* that a raise or a deletion rewrites what was reported.                  *)
(***************************************************************************)
DayStands ==
  [][vars' # vars /\ staff' = staff =>
       \A d \in {t \div 24 : t \in Instants} :
         RowsOf(d)' = RowsOf(d) => Report(d)' = Report(d)]_vars
=============================================================================
