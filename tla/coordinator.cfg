CONSTANTS
  flow = flow
  automation = automation
  Tasks = {flow, automation}
  power = power
  mute = mute
  Names = {power, mute}
  NoName = NoName
  LEARN_TIMEOUT = 2
  learn_timeout = 3
  Others = TRUE
  MaxCalls = 3
  MaxEvents = 2
SPECIFICATION Spec
CHECK_DEADLOCK FALSE
INVARIANT
  TypeOK
PROPERTIES
  ReportIsTrue
  LearnIsWhole
  CallsReturn
