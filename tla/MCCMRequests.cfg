\* One circuit; the ring fills up, wraps and is compacted.
SPECIFICATION FairSpec
CONSTANTS
  NPvc = 1
  MaxReqs = 4
  MaxRequests = 5
INVARIANTS
  TypeOK
  IndexRight
  UserToldTruth
PROPERTIES
  AnsweredOnce
  WritesInOrder
  RequestsEnd
