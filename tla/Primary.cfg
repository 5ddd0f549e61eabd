SPECIFICATION PrimarySpec
CONSTANTS
  p = p  q = q  run1 = run1  run2 = run2  run3 = run3
  Owner = {p, q}  NoOwner = NoOwner  Run = {run1, run2, run3}
  OwnerOf <- MCOwnerOf
  Skew <- MCSkew
  Lease = 2  MaxTime = 4  MaxEpoch = 4
  q1 = q1  q2 = q2  roll = roll  day = day
  QuotaReq = {q1, q2}  QuotaRule = {roll, day}  Rolling = {roll}
  WindowOf <- MCWindowOf
  LimitOf <- MCLimitOf
  Maximum = {2}  Actual = {1, 2, 4}  RateNum = 5  RateDen = 6
  PlanSeconds = 2  MaxClock = 2  MaxGen = 2
  k1 = k1  Token = {k1}  MaxCrash = 2  MaxFault = 1
  Sale = {s1, s2}  Withdrawal = {w1, w2}  Request = {c1, c2}
  Fee = {2}  Amount = {1, 2}  Sqlite = TRUE
  Evidence = {x1}  PrimaryTtl = 1  PrimarySafety = 0  FailureLimit = 2
  MaxProcesses = 2  MaxRuns = 3  MaxJobs = 2
INVARIANTS QuotaConserved WindowNeverOverspent BoundedChargeSettles DispatchedKeepsQuota SpooledIsAcceptable SentIsNotForgiven SettlementAddsUp OneRunDeletes FailuresPause
PROPERTIES StaleRunNeverWrites NoReserveWhileBlocked QuotaLedger ReceiptIsFinal IssuedIsResolved
CHECK_DEADLOCK FALSE
