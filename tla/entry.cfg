CONSTANTS
  MaxId = 2
  power = power
  mute = mute
  NoName = NoName
  Names = {power, mute}
  fan = fan
  Targets = {fan}
  TargetsAtStart = {fan}
  Unassigned = Unassigned
  Nowhere = Nowhere
  MaxEvents = 3
SPECIFICATION Spec
SYMMETRY Symmetry
INVARIANTS
  TypeOK
  SettledIsShown
  NoIdClaimedTwice
PROPERTIES
  PlacementKept
  RecordsKept
