SPECIFICATION Spec
CONSTANTS
  t1 = t1  t2 = t2  s1 = s1  s2 = s2  s3 = s3
  o1 = o1  o2 = o2  o3 = o3  l1 = l1  l2 = l2  l3 = l3
  c1 = c1  c2 = c2  None = None
  Tables = {t1}
  Sessions = {s1}
  Orders = {o1, o2}
  Lines = {l1, l2}
  Clients = {c1}
  Ops = {"open_session", "add_line", "apply_discount", "quote"}
  Amounts = {10}
  Shares = {5}
  Discounts <- MCAmount
  Rates = {0}
  Rules <- MCAmountRules
  MaxRows = 1
SYMMETRY Ids
INVARIANTS NeverBelowPaid
CHECK_DEADLOCK FALSE
