SPECIFICATION Spec
CONSTANTS
  Invitation = {i1}
  Device = {d1,d2,d3,d4}
  Request = {r1,r2,r3}
  Org = {o1}
  DemoOrg = o1
  MaxUsesInput = {0}
  Backends = {"memory", "postgres"}
  Faults = FALSE
  Unknown = Unknown
  NoInvitation = NoInvitation
  NoDevice = NoDevice
  NoOrg = NoOrg
  i1 = i1
  d1 = d1
  d2 = d2
  d3 = d3
  d4 = d4
  r1 = r1
  r2 = r2
  r3 = r3
  o1 = o1
SYMMETRY Identical
CHECK_DEADLOCK FALSE
INVARIANTS UsesAccounted MemoryChangesOnRecord
PROPERTIES RevocationSettles ImplementsLimit
