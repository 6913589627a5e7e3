SPECIFICATION Spec
CONSTANTS
  Session = {s1,s2}
  Device = {d1}
  Request = {r1,r2}
  Backends = {"memory", "postgres"}
  Faults = TRUE
  Unknown = Unknown
  NoSession = NoSession
  NoDevice = NoDevice
  s1 = s1
  s2 = s2
  d1 = d1
  r1 = r1
  r2 = r2
SYMMETRY Identical
CHECK_DEADLOCK FALSE
INVARIANTS TypeOK ChangesOnRecord DecisionsTakeEffect
PROPERTIES NoSessionOnInactive PostgresEndedIsFinal
