SPECIFICATION LedgerSpec
CONSTANTS
  alice = alice
  bob = bob
  Authors <- TwoAuthors
  Keys = {"k1", "k2"}
  Personas <- TwoPersonas
  FirstPersona = "first"
  ResearchRun = TRUE
  Requests <- SomeRequests
  MaxLog = 5
SYMMETRY AuthorSymmetry
CHECK_DEADLOCK FALSE
INVARIANTS
  LedgerTypeOK
  OneEffectPerKey
  SettledOnce
  ConfiguredByLog
PROPERTIES
  HistoryIsStable
