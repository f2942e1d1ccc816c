\* Two entries, in one phonebook or one in each, with refused commands, and two
\* lost answers or edits at the ME.
SPECIFICATION Spec
CONSTANTS
  NoBook = NoBook
  NoText = NoText
  Jo = Jo
  Joan = Joan
  Book = {SM, ME}
  Text = {Jo, Joan}
  Telephone = {n1}
  Matches <- FindsJoan
  MaxSlots = 2
  Shapes <- TwoEntries
  CountBound = 2
  Rejects = TRUE
  FaultBound = 2
SYMMETRY Symmetry
INVARIANTS
  SelectionSound
  CacheCoherent
  SizeExact
  FoundIfThere
PROPERTIES
  NoCollateralLoss
CHECK_DEADLOCK FALSE
