CONSTANTS
  Cmds = {c1, c2, c3}
  NoCmd = NoCmd
  PassLabels <- NoLabels
  HelloLabels <- HelloLabel
  Ops <- HelloOps
  MaxId = 3
  MaxActive = 2
  MaxCrashes = 0
  MaxResets = 0
SPECIFICATION Spec
SYMMETRY Symmetry
INVARIANTS
  HelloKeysOutliveSlots
