\* The reminder of a channel's manager to its manage_rpg, after a lost command.
SPECIFICATION RedSpec
CONSTANTS
  A = A
  B = B
  Channels = {A, B}
  Controlling = {A}
  CmdDelay = 5
  MaxEvents = 2
PROPERTIES
  ManagerFollows
