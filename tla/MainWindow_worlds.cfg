SPECIFICATION FairSpec
CONSTANTS
  Worlds <- MCWorlds
  AdWorlds <- MCAdWorlds
  Settings <- MCSettings
INVARIANTS
  NothingLost
  WindowIsCurrent
  SweptOnce
  KeptIsSigned
PROPERTIES
  EverybodyAnswered
CHECK_DEADLOCK FALSE
