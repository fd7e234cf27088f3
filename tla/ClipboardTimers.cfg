CONSTANTS
  Cmds = {c1, c2}
  Secrets = {s1, s2}
  UserText = UserText
  Empty = Empty
  Unset = Unset
  Garbled = Garbled
  DefaultTime <- McDefault
  Times <- McTimes
  MaxCopies = 1
  MaxFaults = 1
SPECIFICATION Spec
INVARIANTS
  TypeOK
PROPERTIES
  OnlyItsOwnText
  NotBeforeItsTime
  NoSecretStays
