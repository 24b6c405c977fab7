CONSTANTS
  Caller = {"c1"}
  Key <- AnyKey
  Value = {"v"}
  Null = "NULL"
  Calls <- MCCalls
  N_SUBS = 3
  InputSize = 8
  buf_size = 6
  Node = {1, 2, 3, 4, 5, 6, 7}
SPECIFICATION Spec
INVARIANT HashInRange
CHECK_DEADLOCK FALSE
