\* An acknowledged message and a file that is sent.
SPECIFICATION Spec
CONSTANTS
  Messages = 1
  Slots = 1
  File = {f}
  Nothing = Nothing
  DirectModes = {TRUE}
  FlushModes = {FALSE}
  SyslogModes = {TRUE}
  Services = {1}
  RoutedBefore = {FALSE}
  Rejects = {}
  Tries = 1
  ActionFails = FALSE
INVARIANTS
  Acknowledges
CHECK_DEADLOCK FALSE
