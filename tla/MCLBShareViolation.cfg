\* Two readers at the turn of a page.
SPECIFICATION Spec
CONSTANTS
  MaxMsgs = 2
  NSlots = 6
  PageSize = 6
  MustRead = TRUE
  ShareStream = TRUE
  Readers <- TwoReaders
  Start = 4
  MaxWritten = 6
  ClearsToo = FALSE
  Discards = FALSE
  Restarts = FALSE
INVARIANTS
  ExpiredIsTrue
