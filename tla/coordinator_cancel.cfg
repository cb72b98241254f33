CONSTANTS
  flow = flow
  automation = automation
  Tasks = {flow, automation}
  power = power
  mute = mute
  Names = {power, mute}
  NoName = NoName
  LEARN_TIMEOUT = 3
  learn_timeout = 2
  Others = FALSE
  MaxCalls = 3
  MaxEvents = 2
SPECIFICATION Spec
CHECK_DEADLOCK FALSE
PROPERTY
  CancelDisarms
