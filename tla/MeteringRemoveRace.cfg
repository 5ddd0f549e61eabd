SPECIFICATION MeterSpec
CONSTANTS
  d1 = d1  d2 = d2  k1 = k1
  Delta = {d1, d2}  ApiKey = {k1}
  AmountOf <- MCAmountOf
  ShipMax = 2  MaxPost = 2  MaxRestart = 1
INVARIANT OverspendInFlightOnly
CHECK_DEADLOCK FALSE
