SPECIFICATION FairPowerSpec
CONSTANTS
  Lights <- MCLcd
  Driven <- MCLcd
  HasSensor = TRUE
  MaxLevel = 1
  FadeSteps = 1
  Timeouts <- MCTimes
  Choices <- MCChoices
  DefaultTimeout = 8
  DimAt = 4
  TestEvery = 2
  LowTests = 2
  MaxLate = 6
INVARIANTS NotWhileUsed DarkInLightSleep SettingsKept
PROPERTIES BatterySpared
