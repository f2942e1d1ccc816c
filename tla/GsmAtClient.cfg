\* A slow TA, commands of every kind, events of both kinds.
SPECIFICATION Spec
CONSTANTS
  Command = {AT, CMGR, CPMS, CPBR, CMGS}
  InfoCommands = {CMGR, CPMS}
  EmptyOKs = {CMGR}
  Lists = {CPBR}
  PduCommands = {CMGS}
  Tries = 2
  Pdu = Pdu
  Cnma = CNMA
  Event = {mt, mti}
  Direct = {mt}
  Value = {text}
  Nothing = Nothing
  Slow = TRUE
  MaxPending = 2
  MaxLines = 2
INVARIANTS
  OwnAnswer
  Undisturbed
  EventsInOrder
PROPERTIES
  CallReturns
CHECK_DEADLOCK FALSE
