SPECIFICATION ReconciledSpec
CONSTANTS
  o1 = o1  a1 = a1  a2 = a2
  e1 = e1  e2 = e2  e3 = e3  d1 = d1  d2 = d2  u1 = u1
  Order = {o1}  Attempt = {a1}  Event = {e1, e2}
  Digest = {d1}  User = {u1}  LegacyClosed = {}
  Cny = {o1}  Coded = {}
  OrderOf <- OneOrderOf
  UserOf <- EpayUserOf
  Adapter <- EpayAdapter
  Kind <- EpayKind
  Reward <- EpayReward
  EventAttempt <- OneEventAttempt
  EventKind <- OneEventKind
  EventContract <- OneContract
  OpenOrderLimit = 1  MaxCalls = 2  MaxCrashes = 1  MaxSpend = 1
PROPERTY PaidIsFulfilled
CHECK_DEADLOCK FALSE
