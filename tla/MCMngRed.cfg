\* An RDA gives up control or hands it over, something fails: any two events.
SPECIFICATION RedSpec
CONSTANTS
  A = A
  B = B
  Channels = {A, B}
  Controlling = {A}
  CmdDelay = 5
  MaxEvents = 2
INVARIANTS
  RedTypeOK
  OneInService
PROPERTIES
  FollowsRda
