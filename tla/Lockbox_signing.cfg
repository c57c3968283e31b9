SPECIFICATION Spec
CONSTANTS
    Computers <- Computers_
    GenesisOuts <- GenesisOuts_
    Worlds <- Worlds_
    MaxBoxes = 2
INVARIANTS
  LockboxesKept
  ReviewIsRight
  PromisesKeptOnce
PROPERTIES
  SignaturesSafe
CHECK_DEADLOCK FALSE
