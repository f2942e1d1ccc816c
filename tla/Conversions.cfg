\* All messages and strings of MCConversions; texts up to and beyond the largest
\* number of parts, with parts of three characters.
SPECIFICATION ConversionsSpec
CONSTANTS
  Texts = {0, 1, 2, 3, 4, 5, 6, 7, 8, 9, 10, 11, 12, 13, 14, 15, 16, 17}
  MaxTextLength = 4
  ConcMaxTextLength = 3
  Octet = 6
  FirstIds = {0, 5}
  Messages <- AllMessages
  CBs <- CBPDUs
  Names <- PhoneNumbers
  Lines <- AllLines
  Answers <- AllAnswers
  CutBound = 250
INVARIANTS
  Reassembled
  RoundTrip
  TruncationNoticed
  IEFound
  AddressesOrdered
  IntListMeaning
  AnswerUnderstood
CHECK_DEADLOCK FALSE
