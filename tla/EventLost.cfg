SPECIFICATION Spec
CONSTANTS
  Writers = {w1, w2}
  Tablets = {p1}
  Unread = Unread
  QueueMax = 2
  CatchUp = 3
  MaxSeq = 2
  MaxDrops = 1
  MaxAsked = 1
INVARIANTS NoEventLost
CHECK_DEADLOCK FALSE
