SPECIFICATION Spec
CONSTANTS
  Command = {c1,c2,c3}
  Device = {d1}
  Batch <- Lists
  Request = {r1,r2}
  Backends = {"memory", "postgres"}
  Faults = TRUE
  Stranger = Stranger
  Unknown = Unknown
  NoCommand = NoCommand
  NoDevice = NoDevice
  c1 = c1
  c2 = c2
  c3 = c3
  d1 = d1
  r1 = r1
  r2 = r2
SYMMETRY Identical
CHECK_DEADLOCK FALSE
INVARIANTS TypeOK PromisedIsStored ResultsOwned MemoryStatusShowsResult AnswerNotBehind
