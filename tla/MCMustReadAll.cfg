\* Two readers that must both read every message, LB_clear and restarts, around the wrap.
SPECIFICATION FairSpec
CONSTANTS
  MaxMsgs = 4
  NSlots = 8
  PageSize = 8
  MustRead = TRUE
  ShareStream = FALSE
  Readers <- TwoReaders
  Start = 29
  MaxWritten = 9
  NReaders = 2
  Ids <- NextOnly
  Seeks = FALSE
  MaxClears = 1
  Restarts = TRUE
INVARIANTS
  TypeOK
PROPERTIES
  UnreadLostByOverrun
  WriterProceeds
