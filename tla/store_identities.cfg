CONSTANTS
  light = light
  tv = tv
  spaced = spaced
  short = short
  long = long
  NoName = NoName
  NoWave = NoWave
  ZeroId = ZeroId
  Names = {light, spaced}
  ValidNames = {light}
  Waves = {short}
  Pulses <- MCPulses
  BridgeIds = {B1, B2}
  MaxSlots = 1
  Configs <- SmallConfig
  COMMAND_ID_LAST = 2
  REVISION_MAX = 4
  MaxDecays = 0
  StaleRestore = FALSE
SPECIFICATION Spec
SYMMETRY Symmetry
INVARIANTS
  IdsNeverReissued
  RevisionNeverBehind
PROPERTIES
  RevisionIsFresh
