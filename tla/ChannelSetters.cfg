SPECIFICATION Spec
CONSTANTS
  Channels <- Crossed
  DeviceChannels = {1, 2, 3}
  Values = {0, 1}
  Empty = 0
  Keys <- TwoKeys
  Elements <- OneElement
  direction = direction
  level = level
  lna = lna
  Whole = whole
  TuneArgs = {none, offset}
  NoArgs = none
CHECK_DEADLOCK FALSE
INVARIANTS
  TypeOK
  ChannelsHaveTheirValues
  TuneIsRemembered
