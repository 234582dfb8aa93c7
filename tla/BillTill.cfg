SPECIFICATION Spec
CONSTANTS
  t1 = t1  t2 = t2  s1 = s1  s2 = s2  s3 = s3
  o1 = o1  o2 = o2  o3 = o3  l1 = l1  l2 = l2  l3 = l3
  c1 = c1  c2 = c2  None = None
  Tables = {t1, t2}
  Sessions = {s1, s2}
  Orders = {o1, o2}
  Lines = {l1, l2}
  Clients = {c1}
  Ops = {"open_session", "add_line", "update_line_qty", "void_line", "apply_discount",
         "set_service_charge", "quote", "pay_partial", "checkout_cash", "void_order",
         "merge_sessions"}
  Amounts = {5, 10}
  Shares = {5}
  Discounts <- MCHalf
  Rates = {10}
  Rules <- MCRatioRules
  MaxRows = 1
SYMMETRY Ids
INVARIANTS NeverBelowPaid SettledExactly StockReversedOnce EndedSeatingHasNoOpenBill
PROPERTIES SettledBillFrozen ImplementsBill
CHECK_DEADLOCK FALSE
