SPECIFICATION Spec
CONSTANTS
  Base = 4
  LineLen = 2
  PRIMES <- MCPrimes
  Hash <- MCHash
  Hmac <- MCHmac
  Chaincode <- MCChaincode
  MaskKey <- MCMaskKey
  Pool = 2
  RestorePool = 2
  Worlds <- MCWorlds
INVARIANTS
  WalletsKept
  BackupsRestore
  RepairIsSafe
CHECK_DEADLOCK FALSE
