SPECIFICATION FairSpec
CONSTANTS
  t1 = t1
  t2 = t2
  Proc <- MCProc
  Faults = {"crash", "ioerror", "exception"}
  SerialReads = TRUE
  MaxCalls = 2
  MaxFaults = 2
INVARIANTS
  Recoverable
  AnswersAreTrue
PROPERTIES
  ImplementsAtomicWallet
  RecoveryCompletes
