\* Commands, deaths and a power failure, three tasks of different types.
SPECIFICATION Spec
CONSTANTS
  Op = Op
  Rms = Rms
  Owr = Owr
  Tasks = {Op, Rms, Owr}
  Respawn = {Op}
  AliveInStandby = {Rms}
  AllStates = {Owr}
  ActiveOnly = {Op}
  Redundant = TRUE
  MaxCmds = 3
  MaxDeaths = 2
  MaxPower = 1
INVARIANTS
  TypeOK
  StoppedIsQuiet
  StateIsKept
PROPERTIES
  StopEnds
  KnownTasksRun
CHECK_DEADLOCK FALSE
