\* Two messages, six slots, one directory per page: the pointer range is 24.
SPECIFICATION Spec
CONSTANTS
  MaxMsgs = 2
  NSlots = 6
  PageSize = 6
  MaxWritten = 80
CONSTRAINT Bound
INVARIANTS
  TypeOK
  PageAtMostOneAhead
  PointersTrue
