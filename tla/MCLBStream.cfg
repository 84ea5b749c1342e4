\* A writer, one lock-free reader; the pointer wraps during the behaviour.
SPECIFICATION FairSpec
CONSTANTS
  MaxMsgs = 2
  NSlots = 6
  PageSize = 6
  MaSize = 3
  Lens <- ShortAndLong
  Readers <- OneReader
  BufLen = 2
  Start = 22
  MaxWrites = 4
  MaxLead = 5
INVARIANTS
  TypeOK
  StoredIntact
  ReadsFaithful
PROPERTIES
  ImplementsQueue
  ReaderCatchesUp
