SPECIFICATION Spec
CONSTANTS
  User = {u1,u2}
  MFAUser = {u2}
  Token = {t1,t2,t3}
  Request = {r1,r2}
  Backends = {"memory", "postgres"}
  Faults = TRUE
  NoUser = NoUser
  NoToken = NoToken
  u1 = u1
  u2 = u2
  t1 = t1
  t2 = t2
  t3 = t3
  r1 = r1
  r2 = r2
SYMMETRY Identical
CHECK_DEADLOCK FALSE
INVARIANTS TypeOK SuccessorsBounded MFARequired
PROPERTIES SpentIsFinal
