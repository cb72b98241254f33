CONSTANTS
  light = light
  tv = tv
  spaced = spaced
  short = short
  long = long
  NoName = NoName
  NoWave = NoWave
  ZeroId = ZeroId
  Names = {light, tv, spaced}
  ValidNames = {light, tv}
  Waves = {short, long}
  Pulses <- MCPulses
  BridgeIds = {B1}
  MaxSlots = 2
  Configs <- BothConfigs
  COMMAND_ID_LAST = 2
  REVISION_MAX = 5
  MaxDecays = 1
  StaleRestore = TRUE
SPECIFICATION Spec
SYMMETRY Symmetry
INVARIANTS
  TypeOK
  RegistryWellFormed
  RebootIsTransparent
  CrashIsAtomic
PROPERTIES
  KeepsContract
  ReadOnlyFreezesFlash
  DroppedOnRequestOrAsNew
