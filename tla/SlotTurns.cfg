CONSTANTS
  Cmds = {c1, c2, c3}
  NoCmd = NoCmd
  PassLabels <- NoLabels
  HelloLabels <- HelloAndOther
  Ops <- AllOps
  MaxId = 4
  MaxActive = 1
  MaxCrashes = 1
  MaxResets = 1
SPECIFICATION Spec
SYMMETRY Symmetry
INVARIANTS
  HelloKeysOutliveSlots
