\* Half a buffer past ptr_read lies beyond the pointer range.
SPECIFICATION Spec
CONSTANTS
  MaxMsgs = 4
  NSlots = 8
  PageSize = 8
  MustRead = TRUE
  ShareStream = FALSE
  Readers <- TwoReaders
  Start = 31
  MaxWritten = 8
  NReaders = 2
  Ids <- NextOnly
  Seeks = FALSE
  MaxClears = 0
  Restarts = FALSE
PROPERTIES
  AlwaysLostByOverrun
