SPECIFICATION FairWatchSpec
CONSTANTS
  MaxEdits = 2
PROPERTIES EditsSynced
CHECK_DEADLOCK FALSE
