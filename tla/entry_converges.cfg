CONSTANTS
  MaxId = 2
  power = power
  mute = mute
  NoName = NoName
  Names = {power, mute}
  fan = fan
  Targets = {fan}
  TargetsAtStart = {}
  Unassigned = Unassigned
  Nowhere = Nowhere
  MaxEvents = 2
SPECIFICATION Spec
PROPERTY
  Converges
