\* LB_clear, then a read of the expired message, unprotects the next one.
SPECIFICATION Spec
CONSTANTS
  MaxMsgs = 2
  NSlots = 6
  PageSize = 6
  MustRead = TRUE
  ShareStream = FALSE
  Readers <- OneReader
  Start = 0
  MaxWritten = 6
  NReaders = 0
  Ids <- NextOnly
  Seeks = FALSE
  MaxClears = 1
  Restarts = FALSE
PROPERTIES
  AlwaysLostByOverrun
