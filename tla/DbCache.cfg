SPECIFICATION SceneSpec
CONSTANTS
  l1 = l1  l2 = l2  p1 = p1
  LogReq = {l1, l2}  Probe = {p1}
  Unit = 2  SpoolMax = 4  Word = 16  MaxEntries = 2  MaxStop = 1  MaxIoErr = 1
  k1 = k1  k2 = k2  u1 = u1  r1 = r1  r2 = r2  w1 = w1  w2 = w2
  Key = {k1, k2}  CacheUser = {u1}
  UserOfKey <- MCUserOfKey
  Reader = {r1, r2}  Writer = {w1, w2}  Capacity = 1  MaxWrite = 2
INVARIANTS LogNeverLost TerminalWins QuotaCovers ReadableIsCurrent AnswerNotOlder
PROPERTIES LoggedEventually
CHECK_DEADLOCK FALSE
