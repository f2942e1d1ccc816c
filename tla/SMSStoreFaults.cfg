\* Every fault: refused commands, lost answers, a ME that acts on its own.
SPECIFICATION Spec
CONSTANTS
  NoStore = NoStore
  NoMessage = NoMessage
  Store = {SM, ME}
  Message = {hello}
  Slots = 1
  MaxIndex = 1
  ParamCounts = {1, 3}
  Rejects = TRUE
  LosesAnswers = TRUE
  MEActs = TRUE
SYMMETRY Symmetry
INVARIANTS
  TypeOK
  SelectionRemembered
  ReadsOwnSlot
  CacheCoherent
PROPERTIES
  NoCollateralLoss
CHECK_DEADLOCK FALSE
