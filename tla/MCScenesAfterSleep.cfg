SPECIFICATION Spec
CONSTANTS
  tv = tv
  bluray = bluray
  cast = cast
  heating = heating
  images = images
  broken = broken
  tvOn = tvOn
  tvOff = tvOff
  brOn = brOn
  brOff = brOff
  ampOff = ampOff
  castOn = castOn
  volUp = volUp
  heatUp = heatUp
  NoFile = NoFile
  NoCommand = NoCommand
  Commands <- MCCommands
  Keys <- MCKeys
  SceneKey <- MCSceneKey
  PageMap <- MCPageMap
  OverrideKeys <- MCOverrideKeys
  Files <- MCFiles
  Readable <- MCReadable
  Sequenced <- MCSequenced
  StartCommands <- MCStart
  ExitCommands <- MCExit
PROPERTY OldSceneIsExited
