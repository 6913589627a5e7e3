SPECIFICATION FairSpec
CONSTANTS
  Device = {d1}
  Client = {c1}
  Post = {p1}
  TTL = 2
  Capacity = 2
  NoDevice = NoDevice
  d1 = d1
  c1 = c1
  p1 = p1
PROPERTIES SilenceDetected DisconnectedLeaves
