SPECIFICATION MCSpec
CONSTANTS
  Ssids = {"home", "guest"}
  Passwords = {"h", "g"}
  Good <- MCGood
  Typed <- MCTyped
  None = None
  MaxEvents = 0
  Many = 2
  Accounts = {"a1", "a2"}
  Servers = {"s1", "s2"}
  DefaultAccount = "a1"
  DefaultServer = "s1"
  Nothing = Nothing
  Torn = Torn
  Retry = 1
  Topics = {"t1", "t2"}
  Labels = {"l1", "l2"}
  Brokers = {"b1", "b2"}
  DefaultBroker = "b0"
  NoFile = NoFile
  CutOff = CutOff
  MaxQueued = 2
INVARIANTS SimFollows ServicesSafe
PROPERTIES StationTruthful ConnectionsRecover
