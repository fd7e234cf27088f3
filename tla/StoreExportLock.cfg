CONSTANTS
  Cmds = {c1, c2, c3}
  NoCmd = NoCmd
  Kinds <- ExportKinds
  DirSyncs = TRUE
  OldOrNew = TRUE
  MaxOutages = 0
SPECIFICATION Spec
INVARIANTS
  NoLostUpdate
