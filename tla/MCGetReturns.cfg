SPECIFICATION SimulatorSpec
CONSTANTS
  Requests = {r1}
  Workers = {w1}
  NumTasks = 1
  NoAnswer = NoAnswer
  Calls = {c1, c2}
  Threads = {t1, t2}
  Methods = {"GET", "POST"}
  HeaderNames = {"a"}
  Statuses = {200, 302, 404}
  NoResponse = NoResponse
  NoRequest = NoRequest
  MaxHeaders = 2
  MaxPieces = 2
  MaxRedirects = 1
  MaxExchanges = 2
INVARIANT GetReturnsResponse
CHECK_DEADLOCK FALSE
