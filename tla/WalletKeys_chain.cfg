SPECIFICATION Spec
CONSTANTS
  Passphrase = {p1, p2}
  Kdf = {k1, k2}
  None = None
  Destroyed = Destroyed
  Pool = 1
  MaxIndex = 3
  MaxFails = 1
  Fallible = {"next", "top", "touch", "open", "encrypt", "kdf"}
SYMMETRY Symmetry
INVARIANTS
  KeysStayReachable
  PlainKeysAreRight
  NoAddressTwice
