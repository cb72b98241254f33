CONSTANTS
  command1 = command1
  command2 = command2
  Commands = {command1, command2}
  fan = fan
  Targets = {fan}
  plain = plain
  renamed = renamed
  Titles = {plain, renamed}
  kitchen = kitchen
  hall = hall
  Areas = {kitchen, hall}
  NoArea = NoArea
  node1 = node1
  node2 = node2
  Nodes = {node1, node2}
  NoNode = NoNode
  NoTarget = NoTarget
  NoDevice = NoDevice
  MaxEvents = 3
SPECIFICATION Spec
CHECK_DEADLOCK FALSE
INVARIANTS
  TypeOK
  HistoryKept
  DevicesFollowTargets
  AreaIsTheUsers
PROPERTIES
  MigrationEnds
