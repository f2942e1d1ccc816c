\* An acknowledged message and the terminate signal.
SPECIFICATION Spec
CONSTANTS
  Messages = 1
  Slots = 1
  File = {}
  Nothing = Nothing
  DirectModes = {TRUE}
  FlushModes = {FALSE}
  SyslogModes = {TRUE}
  Services = {1}
  RoutedBefore = {FALSE}
  Rejects = {}
  Tries = 1
  ActionFails = FALSE
INVARIANTS
  TerminatesCleanly
CHECK_DEADLOCK FALSE
