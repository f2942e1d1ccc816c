\* Two files with the same entries at other indices, synchronized without indices.
SPECIFICATION GsmpbSpec
CONSTANTS
  Book = {"source", "dest"}
  Kinds = {"file"}
  Text = {1, 2, 3}
  Lower <- LowerCase
  Tel = {1, 2, 3}
  TelOrder <- Padded
  TelNumber <- Digits
  Index = {0, 1}
  Garbage = {7}
  Contents <- Swapped
  Given <- Entries
  Slots = 2
  NoFile = NoFile
  SizeBound = 2
  Faults = FALSE
  TooLong = {3}
  Shelf <- Swapped
INVARIANTS
  Rereadable
CHECK_DEADLOCK FALSE
