SPECIFICATION FairSpec
CONSTANTS
  t1 = t1  t2 = t2  s1 = s1  s2 = s2  s3 = s3
  o1 = o1  o2 = o2  o3 = o3  l1 = l1  l2 = l2  l3 = l3
  c1 = c1  c2 = c2  None = None
  Tables = {t1, t2}
  Sessions = {s1, s2}
  Orders = {o1, o2}
  Lines = {l1}
  Clients = {c1, c2}
  Ops = {"open_session", "get_session_order", "quote", "merge_sessions",
         "cancel_session", "close_order"}
  Amounts = {10}
  Shares = {5}
  Discounts <- MCAmount
  Rates = {0}
  Rules <- MCNoRules
  MaxRows = 1
PROPERTIES EveryRequestEnds
CHECK_DEADLOCK FALSE
