SPECIFICATION Spec
CONSTANTS
  Group = {g1,g2,g3}
  Name = {n1}
  Device = {d1,d2}
  Org = {o1,o2}
  DemoOrg = o1
  Request = {r1,r2}
  Backends = {"memory", "postgres"}
  Faults = TRUE
  Blank = Blank
  NoGroup = NoGroup
  NoDevice = NoDevice
  NoOrg = NoOrg
  g1 = g1
  g2 = g2
  g3 = g3
  n1 = n1
  d1 = d1
  d2 = d2
  o1 = o1
  o2 = o2
  r1 = r1
  r2 = r2
SYMMETRY Identical
CHECK_DEADLOCK FALSE
INVARIANTS TypeOK MembersExist MembersWithinOrg ParentsExist
