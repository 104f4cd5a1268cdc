SPECIFICATION Spec
CONSTANTS
  NCollections = 2
  MaxFiles = 2
  InitialFiles = 2
  MaxIds = 5
  MaxTabs = 3
  MaxEdits = 1
  MaxCommands = 4
  MaxStarts = 2
PROPERTIES
  DeletionKeepsOtherDrafts
CHECK_DEADLOCK FALSE
