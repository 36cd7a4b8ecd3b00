SPECIFICATION FairSpec
CONSTANTS
  Keys <- MCKeys
  Pages <- MCPages
  Scenes <- MCScenes
  Names <- MCNames
  Protocols <- MCProtocols
  Codes <- MCCodes
  ButtonMaps <- MCButtonMaps
  CommandFile <- MCCommandFile
  Widgets <- MCWidgets
  PagesOf <- MCPagesOf
  OverrideKeys <- MCOverrideKeys
  Nothing = Nothing
  Known = {"NEC", "DELAY", "MWM"}
  Returning = {"NEC"}
  Dropping = {"MWM"}
  Malformed <- MCMalformed
  MaxBuffer = 2
PROPERTIES KeepsToFiles InfraredGoesOn
