SPECIFICATION Spec
CONSTANTS
  Device = {d1,d2}
  Client = {c1}
  Post = {p1}
  TTL = 2
  Capacity = 1
  NoDevice = NoDevice
  d1 = d1
  d2 = d2
  c1 = c1
  p1 = p1
SYMMETRY Identical
INVARIANTS TypeOK ConsoleCurrent
PROPERTIES EvictsOnlySilent
