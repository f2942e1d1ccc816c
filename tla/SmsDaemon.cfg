\* Every option and message service; the TA refuses any command and the action fails.
SPECIFICATION Spec
CONSTANTS
  Messages = 2
  Slots = 2
  File = {f}
  Nothing = Nothing
  DirectModes = {TRUE, FALSE}
  FlushModes = {TRUE, FALSE}
  SyslogModes = {TRUE, FALSE}
  Services = {0, 1}
  RoutedBefore = {TRUE, FALSE}
  Rejects = {"CPMS", "CMGR", "CMGD", "CNMI?", "CNMI", "CSMS", "CMGS", "PDU"}
  Tries = 1
  ActionFails = TRUE
INVARIANTS
  NothingLost
  IndicationExact
  DispatchedInOrder
PROPERTIES
  Terminates
  Dispatches
CHECK_DEADLOCK FALSE
