\* Two matches, three analyses of eight files within two seconds, three scores.
SPECIFICATION TigerSpec
CONSTANTS
  MatchIds = {m1, m2}
  Inputs <- TheInputs
  Scores <- TheScores
  MaxTime = 1
  MaxRuns = 3
  MaxPicks = 3
  Quarter = 2
  Nil = Nil
INVARIANTS PlanExplained SettledAsTwoHalves ExposureWithinCaps
CHECK_DEADLOCK FALSE
