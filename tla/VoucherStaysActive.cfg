\* A voucher whose last day is over is presented at the counter.
SPECIFICATION Spec
CONSTANTS
  Clients = {c1}
  Desks = {d1}
  Members = {alice}
  Prizes = {tea}
  Misses = {}
  Ops = {"spin", "redeem", "patch_campaign", "add_prize"}
  Statuses = {"active", "paused"}
  Limits = {1, 2}
  Totals = {1, 2}
  Dailies = {1}
  Windows = {1}
  Offsets = {0}
  Validities = {1}
  MaxDay = 2
  MaxSpins = 2
  MaxEdits = 3
  Job = Job
  None = None
PROPERTIES RefusedIsMarked
CHECK_DEADLOCK FALSE
