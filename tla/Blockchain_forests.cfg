SPECIFICATION Spec
CONSTANTS
    Hash <- MCHash4
    Genesis <- MCGenesis
    NoHash <- MCNoHash
    Trees <- MCForests
    Diffs <- MCDiffs
INVARIANTS
  IsOrganised
PROPERTIES
  ReorgIsRight
