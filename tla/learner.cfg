CONSTANTS
  light = light
  tv = tv
  spaced = spaced
  a = a
  b = b
  NoName = NoName
  NoWave = NoWave
  Names = {light, tv, spaced}
  ValidNames = {light, tv}
  MaxCommands = 1
  Waves = {a, b}
  Agrees <- MCAgrees
  Duration <- MCDuration
  Windows <- MCWindows
  MIN_REPEATS = 3
  SETTLE = 1
  LEARN_TIMEOUT = 2
  MIN_GAP = 1
  MAX_GAP = 2
  DEFAULT_GAP = 2
  GAP_INTERVAL_TARGET = 2
  GAP_MIN_INTERVALS = 1
  MaxGaps = 2
  MaxIntervals = 2
  Depth = 1
SPECIFICATION Spec
INVARIANTS
  TypeOK
  NoiseGate
  OneEndPerAttempt
  TimeoutIsSilence
PROPERTIES
  LearnEnds
