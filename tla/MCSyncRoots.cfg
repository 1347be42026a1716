\* One root; two clients, who may fill the backlog.
SPECIFICATION Spec
CONSTANTS
  MaxFolders = 2
  MaxCommands = 2
  MaxTrouble = 1
  Backlog = 1
INVARIANTS
  TypeOK RemovalSticks
PROPERTIES
  TreeRemovalJustified DisabledRootLeftAlone DeletedRootRetired StopReturns
