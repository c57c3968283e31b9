CONSTANTS
    MaxStarts = 2
    MaxLaunches = 3
    Worlds <- MCWorlds
SPECIFICATION FairSpec
INVARIANTS
  OneOfEach
PROPERTIES
  NothingLeftBehind
  ReadyIsReported
CHECK_DEADLOCK FALSE
