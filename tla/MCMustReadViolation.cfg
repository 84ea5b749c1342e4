\* A full buffer that expires a message for space loses one more than it checked.
SPECIFICATION Spec
CONSTANTS
  MaxMsgs = 2
  NSlots = 6
  PageSize = 6
  MustRead = TRUE
  ShareStream = FALSE
  Readers <- OneReader
  Start = 0
  MaxWritten = 6
  NReaders = 0
  Ids <- NextOnly
  Seeks = FALSE
  MaxClears = 0
  Restarts = FALSE
PROPERTIES
  UnreadKept
