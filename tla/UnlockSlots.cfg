CONSTANTS
  Cmds = {c1, c2}
  Files <- McFiles
  Options <- McOptions
  Secrets <- McSecrets
  Keys = 3
  MaxChanges = 1
  MaxFailures = 1
SPECIFICATION Spec
INVARIANTS
  TypeOK
  SilenceIsKept
  EnvPassphraseOpens
  RecoverySlotIsReached
  OneHelloPrompt
  SealedSlotsOpen
PROPERTIES
  RefusalIsFinal
  UnlockProgress
