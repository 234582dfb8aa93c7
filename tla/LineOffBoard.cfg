\* A board of one place, and one cook.
SPECIFICATION Spec
CONSTANTS
  Hosts = {h1}
  Guests = {g1}
  Bookings = {}
  Parties = {p1}
  Tables = {t1}
  Seatings = {s1}
  Orders = {o1}
  Lines = {l1, l2}
  Cooks = {k1}
  Limit = 1
  AtOnce = 2
  MaxSeq = 4
  Shifts = {{"queue", "tables", "kitchen"}}
  None = None
INVARIANTS BoardShowsWork
CHECK_DEADLOCK FALSE
