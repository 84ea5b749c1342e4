\* Three writes, any of which may die, and two receivers.
SPECIFICATION FairSpec
CONSTANTS
  Receivers <- TwoReceivers
  MaxWrites = 3
  MaxPolls = 1
INVARIANTS
  NotifyTypeOK
  WaitersSeeMessage
  MissedOnlyIfRobbed
PROPERTIES
  UNsHandled
CHECK_DEADLOCK FALSE
