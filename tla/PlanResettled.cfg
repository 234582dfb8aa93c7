\* One match, two analyses: the second saves the match and is cut short, and a review settles
\* the plan of the first at the line of the second.
SPECIFICATION TigerSpec
CONSTANTS
  MatchIds = {m1}
  Inputs <- TheInputs
  Scores <- TheScores
  MaxTime = 1
  MaxRuns = 2
  MaxPicks = 3
  Quarter = 2
  Nil = Nil
INVARIANTS SettledAsPlanned
CHECK_DEADLOCK FALSE
