SPECIFICATION SalesSpec
CONSTANTS
  Sale = {s1, s2}  Withdrawal = {w1, w2}  Request = {c1, c2}
  Fee = {2}  Amount = {1, 2}  Sqlite = FALSE
INVARIANTS SettlementAddsUp
CHECK_DEADLOCK FALSE
