CONSTANTS
  Caller = {"c1", "c2"}
  Key <- MCKey
  Value = {"v"}
  Null = "NULL"
  Calls <- MCCalls
  N_SUBS = 3
  InputSize = 8
  buf_size = 6
  Node = {1, 2, 3, 4, 5, 6, 7}
SPECIFICATION Spec
INVARIANTS
  NoHoleRead TreeOfKeys PiecesDontMatter
PROPERTIES
  QueueSpec VdbSpec
CHECK_DEADLOCK FALSE
