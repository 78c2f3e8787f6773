SPECIFICATION Spec
CONSTANTS
  Tests <- MCTests
  max_retry_count = 1
  SetupRetries = 2
  SetupOutcomes = {"ok", "skip_all", "fail", "interrupt", "restart_fails"}
  Outcomes = {"pass", "fail", "skip", "silent", "error", "heal_raises", "abort_class", "abort_all"}
  Procedures = {"ok", "raise", "abort"}
  TearDowns = {"ok", "abort"}
  Triggers = {"ok", "raise"}
  Heals = {TRUE, FALSE}
INVARIANTS OneVerdict EndsInOrder
PROPERTIES NotRunAgain
CHECK_DEADLOCK FALSE
