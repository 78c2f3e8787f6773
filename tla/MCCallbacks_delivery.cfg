SPECIFICATION FairSpec
CONSTANTS
  Objects <- TwoObjects
  Function <- OtherNames
  Unregisters = {"f", "g"}
  Stops = TRUE
  MaxCalls = 2
INVARIANTS HandledOnceAsGiven
PROPERTIES CallIsHandled
CHECK_DEADLOCK FALSE
