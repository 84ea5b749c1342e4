\* A task dies while mrpg is dead; mrpg is resumed.
SPECIFICATION Spec
CONSTANTS
  Op = Op
  Rms = Rms
  Owr = Owr
  Tasks = {Op, Rms}
  Respawn = {Op}
  AliveInStandby = {Rms}
  AllStates = {}
  ActiveOnly = {}
  Redundant = FALSE
  MaxCmds = 1
  MaxDeaths = 2
  MaxPower = 0
PROPERTIES
  TerminatedIsRestarted
CHECK_DEADLOCK FALSE
