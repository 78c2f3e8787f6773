SPECIFICATION Spec
CONSTANTS
  MaxPolls = 2
  MaxOutput <- MCOutput
  MaxInterrupts = 2
INVARIANT FrameworkRestartedNoMatterWhat
CHECK_DEADLOCK FALSE
