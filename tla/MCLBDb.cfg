\* Two messages and a third, updated, deleted and reused under one reader.
SPECIFICATION Spec
CONSTANTS
  Readers <- OneReader
  MaxMsgs = 3
  Area = 3
  IdMask = 8
  BinaryMin = 2
  UserIds = {1}
  Lengths = {1, 2}
  Before = {2}
  MaxCalls = 3
  MaxClears = 1
  MaxFaults = 1
  MaxLead = 3
INVARIANTS
  TypeOK
  SpaceRight
  ReadsWhole
  SearchFinds
CHECK_DEADLOCK FALSE
