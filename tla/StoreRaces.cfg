CONSTANTS
  Cmds = {c1, c2, c3, c4}
  NoCmd = NoCmd
  Kinds <- WriterKinds
  DirSyncs = TRUE
  OldOrNew = TRUE
  MaxOutages = 0
SPECIFICATION Spec
SYMMETRY Symmetry
INVARIANTS
  MutualExclusion
  BackupIsAncestor
  RevokedKeyIsGone
