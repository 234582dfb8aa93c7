SPECIFICATION Spec
CONSTANTS
  Clients = {c1, c2}
  Ops = {"redeem", "accrue"}
  Sources = {}
  Points = {1, 2}
  Amounts = {50000}
  MaxEntries = 4
  None = None
INVARIANTS NoDoubleSpend
CHECK_DEADLOCK FALSE
