CONSTANTS
  Cmds = {c1, c2, c3}
  NoCmd = NoCmd
  PassLabels <- OtherLabel
  HelloLabels <- HelloLabel
  Ops <- AllOps
  MaxId = 3
  MaxActive = 3
  MaxCrashes = 0
  MaxResets = 1
SPECIFICATION Spec
SYMMETRY Symmetry
INVARIANTS
  TypeOK
  SlotsOpenTheBody
  HeadersAreValid
  RecoverySlotRemains
  RevokedSlotsStayOut
  UserKeepsAccess
