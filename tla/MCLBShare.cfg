\* Two readers across two turns of a page, with LB_clear, discards and restarts.
SPECIFICATION FairSpec
CONSTANTS
  MaxMsgs = 2
  NSlots = 6
  PageSize = 6
  MustRead = FALSE
  ShareStream = TRUE
  Readers <- TwoReaders
  Start = 5
  MaxWritten = 7
  ClearsToo = TRUE
  Discards = TRUE
  Restarts = TRUE
INVARIANTS
  TypeOK
  DeliveredOnce
PROPERTIES
  StalePagePassesNext
  StreamAdvances
