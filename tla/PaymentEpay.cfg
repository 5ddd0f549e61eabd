SPECIFICATION EpaySpec
CONSTANTS
  o1 = o1  a1 = a1  a2 = a2
  e1 = e1  e2 = e2  e3 = e3  d1 = d1  d2 = d2  u1 = u1
  Order = {o1}  Attempt = {a1, a2}  Event = {e1, e2, e3}
  Digest = {d1, d2}  User = {u1}  LegacyClosed = {}
  Cny = {o1}  Coded = {}
  OrderOf <- EpayOrderOf
  UserOf <- EpayUserOf
  Adapter <- EpayAdapter
  Kind <- EpayKind
  Reward <- EpayReward
  EventAttempt <- EpayEventAttempt
  EventKind <- EpayEventKind
  EventContract <- EpayContract
  OpenOrderLimit = 1  MaxCalls = 2  MaxCrashes = 1  MaxSpend = 1
INVARIANTS PaidIffEvidence OnePaidAttempt UniqueBinding CreditedExactlyOnce
 
CHECK_DEADLOCK FALSE
