\* A receiver lowers the flag of the next writer.
SPECIFICATION NotifySpec
CONSTANTS
  Receivers <- OneReceiver
  MaxWrites = 2
  MaxPolls = 1
INVARIANTS
  UpdatedAfterUN
CHECK_DEADLOCK FALSE
