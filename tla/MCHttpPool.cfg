SPECIFICATION MCFairSpec
CONSTANTS
  Requests = {r1, r2}
  Workers = {w1, w2, w3}
  NumTasks = 2
  NoAnswer = NoAnswer
  Calls = {c1, c2}
  Threads = {t1, t2}
  Methods = {"GET", "POST"}
  HeaderNames = {"a"}
  Statuses = {200, 302, 404}
  NoResponse = NoResponse
  NoRequest = NoRequest
  MaxHeaders = 2
  MaxPieces = 2
  MaxRedirects = 1
  MaxExchanges = 2
INVARIANTS PoolSafe CurlSafe ResponseIsHonest
PROPERTIES ServiceSpec ClientsGoOn PanelFollows WakesForCause
CHECK_DEADLOCK FALSE
