CONSTANTS
  N = 2
  Size <- MCSize
  BufMax = 1
  Peer = {p1, p2, p3}
  Seeds = {p1}
  Liars = {p2}
  Backlogs = {2}
  Limits <- MCLimits
SPECIFICATION Spec
INVARIANTS
  DataIsRight
  Bookkeeping

  
  
CHECK_DEADLOCK FALSE
