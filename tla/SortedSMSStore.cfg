\* Stores of up to two messages in files, on standard input or output, or in a
\* mobile with two slots, where one message arrives meanwhile; the mobile refuses,
\* writes fail, the program is killed.
SPECIFICATION Spec
CONSTANTS
  Kinds = {"file", "stdin", "stdout", "ME"}
  early = early
  twin = twin
  unsent = unsent
  Message = {early, twin, unsent}
  Date <- DateOf
  Type <- TypeOf
  Sender <- SenderOf
  Contents <- Files
  Args <- Indices
  Version = Version
  NoMessage = NoMessage
  Slots = 2
  Arrivals = 1
  Faults = TRUE
INVARIANTS
  BackupExact
  DeleteExact
  LoadedExact
  ContentSafe
CHECK_DEADLOCK FALSE
