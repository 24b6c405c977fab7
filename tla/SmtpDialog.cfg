CONSTANTS
  anna = anna
  bert = bert
  olaf = olaf
  nobody = nobody
  Address <- DialogAddress
  Local <- DialogLocal
  NullPath = nobody
  Maildir = maildir
  MaxRecipients = 2
  DiskMayFail = TRUE
  Conn = {c1, c2}
  Script <- DialogScript
  Calm = {c1}
  BacklogMax = 1
  BufferSize = 2
  SndBuf = 20
SPECIFICATION DialogSpec
INVARIANTS RepliesInOrder StoredIntact
PROPERTIES DialogCompletes TransferSpec
CHECK_DEADLOCK FALSE
