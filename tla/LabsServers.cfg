CONSTANTS
  Client = {c1, c2}
  Start = {s1, s2}
  Stop = {t1, t2}
  Conn = {c1, c2}
  Eager = {c1}
  Quota <- MCQuota
  max_cnct = 2
  PipeSize = 2
  Lines = 3
  PipeLines = 2
SPECIFICATION Spec
INVARIANTS
  FreedReadAtTwoPlaces QueueCount AnswersRight OneService PidfileRemoved
PROPERTIES
  EveryoneServed LogKept EveryStopEnds
CHECK_DEADLOCK FALSE
