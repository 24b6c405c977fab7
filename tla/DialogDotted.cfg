CONSTANTS
  anna = anna
  bert = bert
  olaf = olaf
  nobody = nobody
  Address <- DialogAddress
  Local <- DialogLocal
  NullPath = nobody
  Maildir = maildir
  MaxRecipients = 2
  DiskMayFail = FALSE
  Conn = {c1}
  Script <- DottedScript
  Calm = {}
  BacklogMax = 1
  BufferSize = 3
  SndBuf = 20
SPECIFICATION DialogSpec
INVARIANT NothingLost
CHECK_DEADLOCK FALSE
