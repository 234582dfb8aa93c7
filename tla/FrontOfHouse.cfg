\* Two hosts, the phones of two guests and two cooks.
SPECIFICATION Spec
CONSTANTS
  Hosts = {h1, h2}
  Guests = {g1, g2}
  Bookings = {b1}
  Parties = {p1, p2}
  Tables = {t1, t2}
  Seatings = {s1, s2}
  Orders = {o1, o2}
  Lines = {l1, l2}
  Cooks = {k1, k2}
  Limit = 2
  AtOnce = 2
  MaxSeq = 4
  Shifts = {{"bookings"}, {"queue", "numbers"}, {"queue", "tables"}, {"kitchen"}}
  None = None
SYMMETRY Symmetry
INVARIANTS StampsInOrder QueueKept NewestEventTells
CHECK_DEADLOCK FALSE
