CONSTANTS
  Ours = Ours
  Other = Other
  Identities = {Ours, Other}
  MaxId = 2
  power = power
  mute = mute
  Names = {power, mute}
  NoName = NoName
  b1 = b1
  b2 = b2
  Boards = {b1, b2}
  First = b1
  tight = b2
  Nobody = Nobody
  Slots <- MCSlots
  Room <- MCRoom
  Abandoning = TRUE
  MaxRefreshes = 2
  MaxEvents = 2
SPECIFICATION Spec
CHECK_DEADLOCK FALSE
PROPERTY
  CommandsKept
