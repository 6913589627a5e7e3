SPECIFICATION Spec
CONSTANTS
  Alert = {a1}
  User = {u1,u2}
  Package = {p1}
  Device = {d1,d2,d3}
  Request = {r1,r2}
  ValidUntil = 0
  GracePeriodDays = 1
  LastDay = 2
  Backends = {"memory", "postgres"}
  Faults = TRUE
  NoAlert = NoAlert
  NoUser = NoUser
  NoPackage = NoPackage
  a1 = a1
  u1 = u1
  u2 = u2
  p1 = p1
  d1 = d1
  d2 = d2
  d3 = d3
  r1 = r1
  r2 = r2
SYMMETRY Identical
CHECK_DEADLOCK FALSE
INVARIANTS TypeOK AcknowledgedOnRecord DeployedToTheRest LicenseAnswerCurrent
