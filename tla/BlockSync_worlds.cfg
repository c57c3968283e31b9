CONSTANTS
    Hash <- MCHash
    Genesis <- MCGenesis
    NoHash <- MCNoHash
    Worlds <- MCWorlds
SPECIFICATION Spec
INVARIANTS
  HistoryIsRight
PROPERTIES
  CatchesUp
CHECK_DEADLOCK FALSE
