SPECIFICATION Spec
CONSTANTS
  Invitation = {i1}
  Device = {d1,d2,d3}
  Request = {r1,r2,r3}
  Org = {o1,o2}
  DemoOrg = o1
  MaxUsesInput <- UsesSent
  Backends = {"memory", "postgres"}
  Faults = TRUE
  Unknown = Unknown
  NoInvitation = NoInvitation
  NoDevice = NoDevice
  NoOrg = NoOrg
  i1 = i1
  d1 = d1
  d2 = d2
  d3 = d3
  r1 = r1
  r2 = r2
  r3 = r3
  o1 = o1
  o2 = o2
SYMMETRY Identical
CHECK_DEADLOCK FALSE
INVARIANTS TypeOK UsageWithinLimit RecordsTruthful
PROPERTIES ImplementsLifecycle ClosedInvitationAdmitsNone
