SPECIFICATION MCSpec
CONSTANTS
  Keys = {vol, power}
  FifoSize = 2
  LongPress = 2
  RepeatGap = 1
  MaxDelay = 2
  MapSize = 4
  Fitted = {0, 1, 3}
  ListMax = 2
  HoldTime = 1
  MaxWait = 2
  Lights <- MCLcd
  Driven <- MCLcd
  HasSensor = TRUE
  MaxLevel = 3
  FadeSteps = 2
  Modulus = 10
  Period = 4
  RelaxTime = 2
  Slack = 1
  Delay = 1
  RelaxCalls = 3
  LowFor = 2
  Least = 2
  Full = 5
  UserTimeouts = {10, 20}
  Borrowed = 900
  MaxRaw = 3
  CurveLengths = {2, 3}
  Red = 10
INVARIANTS NoStuckKey FadeStaysBetween GaugeTruthful
PROPERTIES MeetsGestures ReleaseIsSeen KeypadFollows LightSettles TestIsSound TestEnds
