SPECIFICATION MCSpec
CONSTANTS
  MaxFaults = 1
  Rooms <- MCRooms
  Messages <- MCMessages
  PartSize = 1
  BufferSizes = {2, 4}
INVARIANTS ApiSafe MessagesSafe
PROPERTIES HomeAssistGoesOn
CHECK_DEADLOCK FALSE
