SPECIFICATION Spec
CONSTANTS
  Messages <- Four
  Places <- Rooms
  NoPlace = "none"
  PlaceOf <- Busy
  Limit = 2
  MaxDays = 1
  MaxQuiet = 1
  MaxCrashes = 1
INVARIANTS NoMessageVanishes QueueIsOrderly QuietLinesConserved
CHECK_DEADLOCK FALSE
