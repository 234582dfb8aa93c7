SPECIFICATION Spec
CONSTANTS
  Clients = {c1, c2}
  Ops = {"top_up", "spend", "redeem", "reward", "expire", "accrue", "gift"}
  Sources = {u1}
  Points = {1, 2}
  Amounts = {50000}
  MaxEntries = 4
  None = None
INVARIANTS AccountsBacked GrantedOnce
CHECK_DEADLOCK FALSE
