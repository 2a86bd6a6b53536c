SPECIFICATION FairSpec
CONSTANTS
  Calls = {c1}
  Fields <- FieldsMC
  Values = {0, 1}
  Default <- DefaultMC
  Patches <- PatchesMC
  Configs = {k1, k2}
  NoConfig = NoConfig
  Lan = Lan
  Notifies = TRUE
  TokenFits = TRUE
  MaxVersion = 2
  MaxLosses = 1
  MaxFaults = 1
  MaxOutside = 2
INVARIANTS
  ACInv
PROPERTIES
  Converges
CHECK_DEADLOCK FALSE
