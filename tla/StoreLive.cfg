CONSTANTS
  Cmds = {c1, c2}
  NoCmd = NoCmd
  Kinds <- AllKinds
  DirSyncs = FALSE
  OldOrNew = FALSE
  MaxOutages = 1
SPECIFICATION FairSpec
PROPERTIES
  SaveEnds
INVARIANTS
  VaultNeverTorn
