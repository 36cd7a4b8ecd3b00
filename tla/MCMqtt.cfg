SPECIFICATION FairSpec
CONSTANTS
  Labels = {l1, l2}
  Topics = {t1, t2}
  Values = {v1, v2}
  Brokers = {"b"}
  Accounts = {"wrong", "right"}
  Good <- MCGood
  Default <- MCDefault
  Nothing = Nothing
  Retry = 0
  MaxInbox = 1
INVARIANTS MqttSafe
PROPERTIES LabelsFollow
