SPECIFICATION Spec
CONSTANTS
  Writers = {w1}
  Tablets = {p1}
  Unread = Unread
  QueueMax = 1
  CatchUp = 1
  MaxSeq = 1
  MaxDrops = 0
  MaxAsked = 1
INVARIANTS ModalsResync
CHECK_DEADLOCK FALSE
