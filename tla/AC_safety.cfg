SPECIFICATION Spec
CONSTANTS
  Calls = {c1, c2}
  Fields <- FieldsMC
  Values = {0, 1}
  Default <- DefaultMC
  Patches <- PatchesMC
  Configs = {k1, k2}
  NoConfig = NoConfig
  Lan = Lan
  Notifies = TRUE
  TokenFits = TRUE
  MaxVersion = 3
  MaxLosses = 1
  MaxFaults = 0
  MaxOutside = 1
SYMMETRY Symmetry
INVARIANTS
  VersionNamesOneState
  RowIsConfirmed
  DoneIsKept
  UnitFollows
  DoneAsAsked
PROPERTIES
  OnlyAskedChanges
  ReplicaRefinement
CHECK_DEADLOCK FALSE
