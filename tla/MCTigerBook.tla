---------------------------- MODULE MCTigerBook ----------------------------
(***************************************************************************)
(* TigerBook on a few match files.                                         *)
(***************************************************************************)
EXTENDS TigerBook

\* Lines in eighths of a goal.
File(handicap, totals, favorite, fav, und, home, away) ==
  [handicap |-> 2 * handicap, totals |-> 2 * totals, favorite |-> favorite, fav |-> fav,
   und |-> und, final |-> FALSE, parallel |-> FALSE, flags |-> 0, qualified |-> FALSE,
   home |-> home, away |-> away, bankroll |-> 1000]

Landing == File(7, 12, "home", "must_win", "draw_ok", "t1", "t3")

\* Landings of two teams, a must-win of the first away from home, open goals at a quarter
\* line and at one an eighth off it, a final round with few goals, a rotating favorite, a
\* bankroll too small for a bet.
TheInputs ==
  {Landing, [Landing EXCEPT !.home = "t2"],
   File(5, 12, "away", "must_win", "unknown", "t3", "t1"),
   File(3, 13, "home", "neutral", "unknown", "t2", "t3"),
   [File(3, 13, "home", "neutral", "unknown", "t2", "t3") EXCEPT !.totals = 27],
   [File(1, 9, "away", "draw_ok", "must_win", "t3", "t2") EXCEPT !.final = TRUE],
   File(6, 11, "home", "rotation", "must_win", "t1", "t3"),
   [File(2, 10, "away", "neutral", "neutral", "t3", "t2") EXCEPT !.parallel = TRUE,
                                                                !.bankroll = 4]}

TheScores == {<<2, 0>>, <<1, 2>>, <<1, 1>>}
=============================================================================
