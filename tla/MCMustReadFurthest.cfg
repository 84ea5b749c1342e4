\* The furthest read message, two readers that seek and restart, LB_clear, around the wrap.
SPECIFICATION Spec
CONSTANTS
  MaxMsgs = 3
  NSlots = 7
  PageSize = 7
  MustRead = TRUE
  ShareStream = FALSE
  Readers <- TwoReaders
  Start = 25
  MaxWritten = 10
  NReaders = 0
  Ids <- NextAndLatest
  Seeks = TRUE
  MaxClears = 2
  Restarts = TRUE
INVARIANTS
  FullOnlyIfUnread
PROPERTIES
  UnreadLostByOverrun
