\* Three entries in the logs directory, two in each legacy subdirectory,
\* one log of each kind kept.
CONSTANTS
  MaxLogs = 1
  RootNames = {1, 2, 3}
  SubNames = {1, 2}

SPECIFICATION Spec

INVARIANT RootPrunedDespiteLegacyDirs





\* clearLogs is called once, when logging starts.
CHECK_DEADLOCK FALSE
