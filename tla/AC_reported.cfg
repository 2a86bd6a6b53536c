SPECIFICATION Spec
CONSTANTS
  Calls = {c1, c2}
  Fields <- FieldsMC
  Values = {0, 1}
  Default <- DefaultMC
  Patches <- PatchesMC
  Configs = {k1}
  NoConfig = NoConfig
  Lan = Lan
  Notifies = FALSE
  TokenFits = TRUE
  MaxVersion = 3
  MaxLosses = 0
  MaxFaults = 0
  MaxOutside = 0
INVARIANTS
  ConfirmedIsReported
CHECK_DEADLOCK FALSE
