\* Phonebooks of up to two entries, with or without indices, in files, on standard
\* input or output, or in a mobile with two slots; the mobile refuses, the file
\* system fails, the program is killed and starts again.
SPECIFICATION GsmpbSpec
CONSTANTS
  Book = {"source", "dest"}
  Kinds = {"file", "stdin", "stdout", "ME"}
  Text = {1, 2, 3}
  Lower <- LowerCase
  Tel = {1, 2, 3}
  TelOrder <- Padded
  TelNumber <- Digits
  Index = {0, 1}
  Garbage <- Uninitialised
  Contents <- Files
  Given <- Entries
  Slots = 2
  NoFile = NoFile
  SizeBound = 2
  Faults = TRUE
  TooLong = {3}
  Shelf <- Few
INVARIANTS
  Synchronised
  Copied
  CleanMeansSaved
  ContentSafe
  IndexedRereadable
  Mirrored
CHECK_DEADLOCK FALSE
