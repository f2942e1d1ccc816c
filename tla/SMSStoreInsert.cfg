\* An inserted message is looked for in the store it was inserted into.
SPECIFICATION Spec
CONSTANTS
  NoStore = NoStore
  NoMessage = NoMessage
  Store = {SM, ME}
  Message = {hello}
  Slots = 2
  MaxIndex = 3
  ParamCounts = {3}
  Rejects = FALSE
  LosesAnswers = FALSE
  MEActs = FALSE
INVARIANT InsertedIntoOwnStore
CHECK_DEADLOCK FALSE
