SPECIFICATION RequestSpec
CONSTANTS
  c1 = c1  c2 = c2  r1 = r1
  Order <- MCOrder
  Req = {r1}
  Threshold = 2  Window = 1  Cooldown = 1  RateCooldown = 1  MaxRetries = 1
  IdleTtl = 2  Failback = 1  ProbeSuccess = 1  ProbeEvery = 1
  HealthMax = 1  Probed = {c1}  MaxLag = 1  MaxChange = 1
  MaxNodes <- MCMaxNodes  MaxFragments <- MCMaxFragments  MaxOpen = 2
INVARIANTS ChangeForgets StreamWellFormed 
PROPERTIES ChannelRecovers
CHECK_DEADLOCK FALSE
