\* Three levels; every combination of the options, with and without faults.
SPECIFICATION Spec
CONSTANTS
  File = {f1, f2}
  NoFile = NoFile
  Priorities = 3
  SentModes = {TRUE, FALSE}
  FailedModes = {TRUE, FALSE}
  SyslogModes = {TRUE, FALSE}
  FaultModes = {TRUE, FALSE}
  Retries = 2
INVARIANTS
  SentOnce
  PriorityRespected
  NeverLost
PROPERTIES
  Resolved
CHECK_DEADLOCK FALSE
