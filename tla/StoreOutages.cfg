CONSTANTS
  Cmds = {c1, c2, c3}
  NoCmd = NoCmd
  Kinds <- VaultKinds
  DirSyncs = TRUE
  OldOrNew = TRUE
  MaxOutages = 2
SPECIFICATION Spec
SYMMETRY Symmetry
INVARIANTS
  TypeOK
  NoLostUpdate
  LoadsAreCurrent
PROPERTIES
  ImplementsAtomicVault
