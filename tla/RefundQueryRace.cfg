SPECIFICATION RecSpec
CONSTANTS
  o1 = o1  o2 = o2  o3 = o3  a1 = a1  a2 = a2  a3 = a3
  e1 = e1  e2 = e2  e3 = e3  e4 = e4  d1 = d1  u1 = u1
  r1 = r1  r2 = r2  r3 = r3  x1 = x1  x2 = x2  x3 = x3  x4 = x4
  Order = {o1}  Attempt = {a1}  Event = {e1}  Digest = {d1}  User = {u1}
  Refund = {r1}  Dispute = {}
  LegacyClosed = {}  Cny = {o1}  Coded = {o1}
  OrderOf <- MCOrderOf
  UserOf <- MCUserOf
  Adapter <- Stripe
  Kind <- MCKind
  Reward <- MCReward
  EventAttempt <- MCEventAttempt
  EventKind <- Callbacks
  EventContract <- MCContract
  RefundOrder <- MCRefundOrder
  DisputeOrder <- MCDisputeOrder
  OpenOrderLimit = 1  MaxCalls = 2  MaxCrashes = 0  MaxSpend = 0
INVARIANT FailedMeansNotReturned
CHECK_DEADLOCK FALSE
