SPECIFICATION Spec
CONSTANTS
  Invitation = {i1}
  Device = {d1,d2}
  Request = {r1,r2}
  Org = {o1}
  DemoOrg = o1
  MaxUsesInput = {1}
  Backends = {"memory", "postgres"}
  Faults = FALSE
  Unknown = Unknown
  NoInvitation = NoInvitation
  NoDevice = NoDevice
  NoOrg = NoOrg
  i1 = i1
  d1 = d1
  d2 = d2
  r1 = r1
  r2 = r2
  o1 = o1
SYMMETRY Identical
CHECK_DEADLOCK FALSE
INVARIANTS UseLimitKept
