SPECIFICATION MCSpec
CONSTANTS
  tv = tv
  bluray = bluray
  cast = cast
  heating = heating
  images = images
  broken = broken
  tvOn = tvOn
  tvOff = tvOff
  brOn = brOn
  brOff = brOff
  ampOff = ampOff
  castOn = castOn
  volUp = volUp
  heatUp = heatUp
  NoFile = NoFile
  NoCommand = NoCommand
  Commands <- MCCommands
  Keys <- MCKeys
  SceneKey <- MCSceneKey
  PageMap <- MCPageMap
  OverrideKeys <- MCOverrideKeys
  Files <- MCFiles
  Readable <- MCReadable
  Sequenced <- MCSequenced
  StartCommands <- MCStart
  ExitCommands <- MCExit
  Bindings <- MCBindings
  MaxDevices = 3
  Offered <- MCOffered
  Default <- MCDefault
  Darkest = 1
  LogModules = {"WiFi", "IR"}
  LogLevels = {"Debug", "Warning"}
  Warning = "Warning"
  TasksPerRefresh = 2
  Heights = {0, 1}
  MaxTasks = 3
  KeySize <- MCKeySize
  TypeSize <- MCTypeSize
  MaxMembers = 3
  MaxInner = 1
  Keyboards = {"kb1", "kb2"}
INVARIANTS MembersAgree DevicesFollow SchemaIsExact ElementsSafe TasksSafe
PROPERTIES MeetsContract WakeIsSilent SettingsSurvive EveryTaskRuns
CHECK_DEADLOCK FALSE
