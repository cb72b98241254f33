CONSTANTS
  Ours = Ours
  Other = Other
  Identities = {Ours, Other}
  MaxId = 2
  power = power
  mute = mute
  Names = {power, mute}
  NoName = NoName
  b1 = b1
  b2 = b2
  Boards = {b1, b2}
  First = b1
  tight = tight
  Nobody = Nobody
  Slots <- MCSlots
  Room <- MCRoom
  Abandoning = FALSE
  MaxRefreshes = 2
  MaxEvents = 4
SPECIFICATION Spec
CHECK_DEADLOCK FALSE
INVARIANTS
  TypeOK
  ReplicaIsWhole
PROPERTIES
  CommandsKept
  RevisionsAdvance
  SuccessIsComplete
  MirrorConverges
