SPECIFICATION FairSpec
CONSTANTS
  Ids = {b1, b2}
  b1 = b1
  b2 = b2
  c1 = c1
  c2 = c2
  Keys <- KeysMC
  TemporaryKey <- TemporaryKeyMC
  Gap = 1000
  Remotes = {r1}
  Controllers = {c1, c2}
  Addresses = {a1, a2}
  NameOf <- NameOfMC
  Serves <- ServesMC
  Names = {"ESP32"}
  Fold <- FoldMC
  Blank = ""
  None = None
  Jobs = {beat, other}
  Beat = beat
  Typed = {None}
  Layouts <- LayoutsMC
  MaxEdits = 2
  MaxFaults = 1
INVARIANTS
  SetupInv
  SwapsDoNotCollide
PROPERTIES
  AddressesSettle
  SyncsReach
  SettledStays
CHECK_DEADLOCK FALSE
