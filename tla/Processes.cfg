CONSTANTS
  Worker = {w1, w2, w3}
  Conn = {c1, c2, c3}
  BacklogMax = 1
  Process = {p1, p2}
  SessionMax = 1
  File = {f1, f2}
  Caller = {d1, d2}
SPECIFICATION Spec
INVARIANTS
  TypeOK RaceLeavesAWorker LoggersHaveParents HandedOnce MissingIsElsewhere
PROPERTIES
  PendingAccepted EveryoneIsRead CtrlCEndsPool EverythingWritten EveryFileTaken
CHECK_DEADLOCK FALSE
