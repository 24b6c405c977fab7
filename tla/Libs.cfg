SPECIFICATION Spec
CONSTANTS
  Id = {i1, i2, i3}
  i1 = i1
  i2 = i2
  i3 = i3
  Lines = 5
  Key = {"k"}
  ALLOC_MIN = 1
  MARRAY_MAX = 5
  SIZE_MOD = 3
  Options = 3
  Name = {"a", "b"}
  Index = {0, 1}
  Steps = 3
  Sets = 2
  ArrayMax = 5
  Template <- Directive
  Length = 5
  LoopVar = {"v", "w"}
  Object <- Objects
  Namespace <- Names
SYMMETRY Symmetry
INVARIANTS
  OneOwner SetIsFound Rendered ServerFollowsDef SessionIsAuthorized
PROPERTY
  MadeWhatWasAsked
CHECK_DEADLOCK FALSE
