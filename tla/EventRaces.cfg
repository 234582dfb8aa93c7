SPECIFICATION FairSpec
CONSTANTS
  Writers = {w1, w2}
  Tablets = {p1}
  Unread = Unread
  QueueMax = 1
  CatchUp = 1
  MaxSeq = 2
  MaxDrops = 2
  MaxAsked = 2
INVARIANTS NoPhantom GapFree LiveBoardFresh
PROPERTIES BoardCatchesUp
CHECK_DEADLOCK FALSE
