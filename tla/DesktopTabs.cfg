SPECIFICATION Spec
CONSTANTS
  NCollections = 2
  MaxFiles = 2
  InitialFiles = 1
  MaxIds = 5
  MaxTabs = 3
  MaxEdits = 2
  MaxCommands = 4
  MaxStarts = 2
INVARIANTS
  TypeOK
  OneTabPerFile
  TabsKeepCollection
  ResponseOfShownRequest
PROPERTIES
  CleanTabsAreSaved
  DraftsSurviveCommands
  RestartRestoresDrafts
CHECK_DEADLOCK FALSE
