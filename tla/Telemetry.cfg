SPECIFICATION Spec
CONSTANTS
  Device = {d1}
  Request = {r1,r2}
  Limits <- LimitsSent
  MaxTime = 2
  MaxSamples = 3
  Backends = {"memory", "postgres"}
  Faults = TRUE
  NoDevice = NoDevice
  d1 = d1
  r1 = r1
  r2 = r2
SYMMETRY Identical
CHECK_DEADLOCK FALSE
INVARIANTS TypeOK HistoryReachesLatest MemoryAnswerCurrent
PROPERTIES SeenFollowsSample
