----------------------------- MODULE Tigerline -----------------------------
(***************************************************************************)
(* How the tiger command reads a match, sizes the bet on it, settles it    *)
(* and limits the exposure of several bets: the pure functions.            *)
(*                                                                         *)
(*   src/tigerline/classifier.py, config/classification_rules.yaml         *)
(*   src/tigerline/harness.py                                              *)
(*   src/tigerline/stake.py, config/stake_levels.yaml                      *)
(*   src/tigerline/recommender.py      the main bet                        *)
(*   src/tigerline/review.py           its settlement                      *)
(*   src/tigerline/stake_optimizer.py, config/exposure_rules.yaml          *)
(*                                                                         *)
(* A line is any decimal: it is counted in units of which a quarter of a   *)
(* goal has Quarter.  Shares of the bankroll are in thousandths,           *)
(* confidence in hundredths.                                               *)
(***************************************************************************)
EXTENDS Integers, Sequences, FiniteSets, Functions, SequencesExt, FiniteSetsExt

CONSTANTS Nil, Quarter

-----------------------------------------------------------------------------
(* Reading the match.  An input is a record                                *)
(*   [handicap, totals, favorite ("home" or "away"), fav, und (their needs), *)
(*    final, parallel, flags, qualified, home, away (the teams), bankroll].  *)

\* Bounds of the rules, in quarters of a goal.
AtLeast(dim, line) == [dim |-> dim, sign |-> 1, line |-> line]
AtMost(dim, line) == [dim |-> dim, sign |-> -1, line |-> line]
Margin(b, i) == b.sign * (i[b.dim] - Quarter * b.line)

\* The team the market favors.
Favorite(i) == i[i.favorite]

Needs == {"must_win", "draw_ok", "rotation", "neutral", "unknown"}

Rule(scenario, bounds, fav, und, either, final) ==
  [scenario |-> scenario, bounds |-> bounds, fav |-> fav, und |-> und, either |-> either,
   final |-> final]

Rules ==
  << Rule("rotation_trap", {AtLeast("handicap", 4)}, {"rotation"}, Needs, Needs, FALSE),
     Rule("pressure_under", {AtMost("handicap", 2), AtMost("totals", 9)},
          Needs, Needs, {"must_win"}, TRUE),
     Rule("must_win_pressure",
          {AtLeast("handicap", 3), AtMost("handicap", 6), AtLeast("totals", 10)},
          {"must_win"}, Needs, Needs, FALSE),
     Rule("two_goal_landing", {AtLeast("handicap", 6), AtLeast("totals", 11)},
          {"must_win", "neutral"}, Needs \ {"must_win"}, Needs, FALSE),
     Rule("goal_market", {AtMost("handicap", 4), AtLeast("totals", 11)},
          Needs, Needs, Needs, FALSE),
     Rule("narrow_win",
          {AtLeast("handicap", 1), AtMost("handicap", 3), AtMost("totals", 10)},
          Needs, Needs, Needs, FALSE) >>

Matches(rule, i) ==
  /\ \A b \in rule.bounds : Margin(b, i) >= 0
  /\ i.fav \in rule.fav /\ i.und \in rule.und
  /\ {i.fav, i.und} \cap rule.either # {}
  /\ rule.final => i.final

\* The first rule that matches; a line that sits on a bound of it is a close call.
Classify(i) ==
  LET firing == {n \in DOMAIN Rules : Matches(Rules[n], i)}
      rule == Rules[Min(firing)]
  IN  IF firing = {} THEN [scenario |-> "unclear_skip", confidence |-> 0]
      ELSE [scenario |-> rule.scenario,
            confidence |-> IF \A b \in rule.bounds : Margin(b, i) >= Quarter THEN 90 ELSE 40]

-----------------------------------------------------------------------------
(* Sizing the bet. *)

Doubts(i, c) ==
  \/ c.confidence < 50
  \/ i.und = "must_win" /\ c.scenario = "two_goal_landing"
  \/ i.parallel /\ c.scenario # "pressure_under"
  \/ i.flags >= 2

Motives(i, c) ==
  /\ c.confidence >= 85
  /\ \/ i.fav \in {"must_win", "neutral"}
     \/ c.scenario = "two_goal_landing" /\ i.und \in {"rotation", "draw_ok"}

Evaluate(i, c) ==
  IF c.scenario \in {"rotation_trap", "unclear_skip"} \/ i.qualified THEN "skip"
  ELSE IF Doubts(i, c) THEN "downgrade"
  ELSE IF Motives(i, c) THEN "upgrade"
  ELSE "normal"

Levels == <<"D", "C", "B", "A", "A+">>

PickLevel(confidence, adjustment) ==
  LET base == IF confidence >= 85 THEN 4 ELSE IF confidence >= 55 THEN 3
              ELSE IF confidence >= 35 THEN 2 ELSE 1
  IN  IF adjustment = "skip" THEN "D"
      ELSE Levels[IF adjustment = "upgrade" THEN base + 1 ELSE base]

Band(low, normal, high) == [downgrade |-> low, normal |-> normal, upgrade |-> high, skip |-> 0]

Bands ==
  [level \in {"A+", "A", "B", "C", "D"} |->
     CASE level = "A+" -> Band(180, 200, 250)
       [] level = "A" -> Band(120, 150, 180)
       [] level = "B" -> Band(70, 90, 120)
       [] level = "C" -> Band(30, 40, 60)
       [] level = "D" -> Band(0, 0, 0)]

Share(level, adjustment) == Bands[level][adjustment]

\* Rounded to the nearest whole unit, halves up.
Amount(bankroll, share) == (bankroll * share + 500) \div 1000

\* Market and line of the main bet, Nil for a scenario that has none: the favorite at a
\* protective line, or the goals.
OnTeam(team, quarters) == [market |-> "AH", team |-> team, line |-> - quarters * Quarter]
OnGoals(side, line) == [market |-> "totals", side |-> side, line |-> line]

Selection(i, scenario) ==
  CASE scenario = "two_goal_landing" -> OnTeam(Favorite(i), 6)
    [] scenario = "must_win_pressure" -> OnTeam(Favorite(i), 4)
    [] scenario = "narrow_win" -> OnTeam(Favorite(i), 2)
    [] scenario = "goal_market" -> OnGoals("over", i.totals)
    [] scenario = "pressure_under" -> OnGoals("under", i.totals)
    [] OTHER -> Nil

\* The plan's scenario and its main bet.
Recommend(i) ==
  LET c == Classify(i)
      adjustment == Evaluate(i, c)
      level == PickLevel(c.confidence, adjustment)
      bet == Selection(i, c.scenario)
      none == \/ adjustment = "skip" \/ bet = Nil
              \/ Amount(i.bankroll, Share(level, adjustment)) = 0
  IN  [scenario |-> c.scenario, level |-> level, adjustment |-> adjustment, team |-> Favorite(i),
       bet |-> IF none THEN Nil ELSE bet]

-----------------------------------------------------------------------------
(* Settling it. *)

\* Slip: a bet won by a quarter of a goal is won in full.
AnyGain(settled) ==
  IF settled > 0 THEN "win" ELSE IF settled = 0 THEN "push"
  ELSE IF settled = - Quarter THEN "half_lose" ELSE "lose"

\* By how much the bet was won; a gain of less than a quarter is none.
Outcome(settled) ==
  IF settled > Quarter THEN "win" ELSE IF settled = Quarter THEN "half_win"
  ELSE IF settled = 0 THEN "push" ELSE IF settled = - Quarter THEN "half_lose" ELSE "lose"

InUnits(goals) == 4 * (Quarter * goals)

\* The goals are settled at the line of the match as it is saved now, and a team that is not
\* its home team plays away.
Settle(i, bet, home, away) ==
  IF bet = Nil THEN "skipped"
  ELSE Outcome(CASE bet.market = "AH" ->
                      InUnits(IF bet.team = i.home THEN home - away ELSE away - home) + bet.line
                 [] bet.market = "totals" /\ bet.side = "over" ->
                      InUnits(home + away) - i.totals
                 [] bet.market = "totals" /\ bet.side = "under" ->
                      i.totals - InUnits(home + away))

-----------------------------------------------------------------------------
(* Limiting the exposure.  A pick is a plan with a main bet. *)

Caps == [scenario |-> 300, group |-> 250, day |-> 450]

Requested(p, half) ==
  LET share == Share(p.level, p.adjustment) IN IF half THEN share \div 2 ELSE share

\* Two picks of one group back the same team on the same market; totals have no team.
Group(p) == <<IF p.bet.market = "totals" THEN Nil ELSE p.team, p.bet.market>>

\* Slip: every pick is held against the cap on its own.
EachAlone(shares, keys, cap) ==
  [n \in DOMAIN shares |-> IF shares[n] > cap THEN cap ELSE shares[n]]

\* What the picks that are cut already leave of the cap to the n-th.
Left(cut, n, keys, cap) ==
  LET taken == SumFunctionOnSet(cut, {k \in DOMAIN cut : keys[k] = keys[n]})
  IN  IF cap > taken THEN cap - taken ELSE 0

Lesser(a, b) == IF a > b THEN b ELSE a

\* What is left of shares when the picks with one key may take no more than cap, the first
\* one first.
Capped(shares, keys, cap) ==
  LET cut[n \in 0..Len(shares)] ==
        IF n = 0 THEN <<>>
        ELSE Append(cut[n - 1], Lesser(shares[n], Left(cut[n - 1], n, keys, cap)))
  IN  cut[Len(shares)]

Scenario(p) == p.scenario

OptimizeStakes(picks, half) ==
  LET requested == [n \in DOMAIN picks |-> Requested(picks[n], half)]
      scenarios == [n \in DOMAIN picks |-> Scenario(picks[n])]
      groups == [n \in DOMAIN picks |-> Group(picks[n])]
      oneDay == [n \in DOMAIN picks |-> "day"]
      byScenario == Capped(requested, scenarios, Caps.scenario)
      byGroup == Capped(byScenario, groups, Caps.group)
  IN  Capped(byGroup, oneDay, Caps.day)
=============================================================================
