\* Two processes at a time, three commands in all; one merge or check each
\* takes the place of a command.
SPECIFICATION Spec
CONSTANTS
  Command = {a, b}
  MaxCommands = 3
  MaxRelease = 2
  MaxEvents = 3
PROPERTIES
  WritersAreShutOut
  PurgeLeavesNothing
  RemovalIsConsented
  ProvenIsBackedUp
  OffersEnd
  CommandsEnd
\* Commands are bounded, and nobody has to release anything.
CHECK_DEADLOCK FALSE
