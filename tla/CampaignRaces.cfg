\* Two clients and a manager at one member's campaign; every operation.
SPECIFICATION Spec
CONSTANTS
  Clients = {c1, c2}
  Desks = {d1}
  Members = {alice}
  Prizes = {tea}
  Misses = {}
  Ops = {"spin", "redeem", "patch_campaign", "patch_window", "add_prize", "patch_prize", "stats"}
  Statuses = {"active", "paused"}
  Limits = {1, 2}
  Totals = {1, 2}
  Dailies = {1}
  Windows = {1}
  Offsets = {0}
  Validities = {1}
  MaxDay = 2
  MaxSpins = 2
  MaxEdits = 3
  Job = Job
  None = None
SYMMETRY Symmetry
INVARIANTS AwardedBacked StatsInOrder
PROPERTIES WithinQuota VouchersEndOnce
CHECK_DEADLOCK FALSE
