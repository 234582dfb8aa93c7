------------------------- MODULE DiscountResolver -------------------------
(***************************************************************************)
(* The till's pure money arithmetic:                                       *)
(*   services/calc/discount_resolver.py  resolve_discounts                 *)
(*   services/pos_order_service.py       amount_due                        *)
(*   services/discount_rule_service.py   rule_matches, rule_discount       *)
(* Money is an integer number of cents (the code's Decimal with quantum    *)
(* 0.01); a ratio is an integer number of hundredths (0.10 is 10).         *)
(***************************************************************************)
EXTENDS Integers, Sequences, SequencesExt

RatioKinds == {"percent", "employee"}
FlatKinds  == {"amount", "allowance"}

\* Quantising a non-negative n/d: resolve_discounts rounds half up; a bare
\* Decimal.quantize (service charge, rule ranking) rounds half to even.
HalfUp(n, d) == (2 * n + d) \div (2 * d)
HalfEven(n, d) ==
  LET q == n \div d
      r == n % d
  IN  IF 2 * r > d \/ (2 * r = d /\ q % 2 = 1) THEN q + 1 ELSE q

\* STACKING_ORDER: the place of a kind in the order in which kinds are applied.
Place(kind) ==
  CASE kind = "percent" -> 1 [] kind = "employee" -> 2 [] kind = "amount" -> 3
    [] kind = "allowance" -> 4 [] kind = "comp" -> 5

(***************************************************************************)
(* One row takes `removed` off the running subtotal.  The code keeps the    *)
(* subtotal as an unrounded Decimal, here the fraction num / den of cents;  *)
(* every row's share is rounded on its own.  Comp takes what is left, and   *)
(* nothing from a subtotal that is already negative.                       *)
(***************************************************************************)
ApplyRow(acc, row) ==
  LET finer   == IF row.kind \in RatioKinds THEN 100 ELSE 1
      removed == IF row.kind \in RatioKinds THEN acc.num * row.value
                 ELSE IF row.kind \in FlatKinds THEN row.value * acc.den
                 ELSE IF acc.num > 0 THEN acc.num ELSE 0
  IN  [num   |-> acc.num * finer - removed,
       den   |-> acc.den * finer,
       total |-> acc.total + HalfUp(removed, acc.den * finer)]

\* Of the rows at positions S, the one applied last: kind by kind, in input
\* order within a kind.
LastApplied(rows, S) ==
  CHOOSE i \in S : \A j \in S : Place(rows[j].kind) * Len(rows) + j
                                  <= Place(rows[i].kind) * Len(rows) + i

DiscountTotal(subtotal, rows) ==
  MapThenFoldSet(LAMBDA i, acc : ApplyRow(acc, rows[i]),
                 [num |-> subtotal, den |-> 1, total |-> 0],
                 LAMBDA i : i, LAMBDA S : LastApplied(rows, S), DOMAIN rows).total

\* net_revenue: not clamped, it may be negative.
NetRevenue(subtotal, rows) == subtotal - DiscountTotal(subtotal, rows)

\* amount_due: the discounted net plus a service charge on the gross.
AmountDue(gross, rows, rate) == NetRevenue(gross, rows) + HalfEven(gross * rate, 100)

(***************************************************************************)
(* Automatic discount rules.  A rule is [kind, value, min]; min = 0 stands *)
(* for a rule without min_subtotal.  The ranking clamps an amount rule to  *)
(* the bill, the row that is then applied carries the rule's full value.   *)
(***************************************************************************)
RuleMatches(rule, gross) == gross >= rule.min

RuleDiscount(rule, gross) ==
  IF rule.kind = "percent" THEN HalfEven(gross * rule.value, 100)
  ELSE IF rule.value < gross THEN rule.value ELSE gross

\* best_rule: the matching rules that take the most off (ties: see README).
BestRules(rules, gross) ==
  LET candidates == {r \in rules : RuleMatches(r, gross)}
  IN  {r \in candidates :
         \A q \in candidates : RuleDiscount(q, gross) <= RuleDiscount(r, gross)}
=============================================================================
