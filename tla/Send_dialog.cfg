CONSTANTS
    Wallets <- MCWallets
    Deposits <- MCDeposits
    Amounts <- MCAmounts
    FeesTyped <- MCFeesTyped
    Estimates <- MCEstimates
    Recipients <- MCRecipients
    Sources <- MCSources
    MIN_UTXO_PER_TXN = 3
    MaxEvents = 1
    MaxTries = 1
SPECIFICATION FairSpec
INVARIANTS
  SendIsRight
PROPERTIES
  LoopEnds
CHECK_DEADLOCK FALSE
