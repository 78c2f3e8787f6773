SPECIFICATION FairSpec
CONSTANTS
  DriverType = "hal"
  Faults = {"timeout", "interrupt", "crash", "empty"}
  MaxRequests = 4
INVARIANTS AnswersAreDue SuccessWasServed
PROPERTIES NobodyWaitsForever
CHECK_DEADLOCK FALSE
