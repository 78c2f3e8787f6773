SPECIFICATION FairSpec
CONSTANTS
  MaxPolls = 2
  MaxOutput <- MCOutput
  MaxInterrupts = 2
INVARIANTS NoProcessIsLeft ReportIsTrue CancelledThreadsWake
PROPERTIES RunIsOver
CHECK_DEADLOCK FALSE
