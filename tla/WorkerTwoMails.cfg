CONSTANTS
  anna = anna
  bert = bert
  olaf = olaf
  nobody = nobody
  Address <- MCAddress
  Local <- MCLocal
  NullPath = nobody
  Maildir = maildir
  MaxRecipients = 2
  DiskMayFail = TRUE
  Conn = {c1}
  Script <- TwoMailScript
  Calm = {}
  BacklogMax = 1
  BufferSize = 2
  SndBuf = 20
SPECIFICATION Spec
INVARIANT SingleBody
CHECK_DEADLOCK FALSE
