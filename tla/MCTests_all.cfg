SPECIFICATION TestsSpec
CONSTANTS
  Plan <- MCPlan
  Options <- MCOptions
  Devices <- MCDevices
  MaxPhones = 2
  MaxMoves = 2
  BinaryConfigs <- ConstBinaryConfigs
  GtestsOf <- ConstGtestsOf
  OutputName <- ConstOutputName
  Outcomes = {"pass", "fail", "disabled", "crash"}
  MaxSetUps = 1
  MaxAttempts = 2
  MaxCommands = 2
  MaxLosses = 2
  Firmwares <- ConstFirmwares
  MaxFlakes = 1
  MaxRetries = 1
  Modes = {0, 4, 36, 64, 128, 192, 256, 260, 266, 292, 384, 420, 438, 493, 511, 1023, 3053}
INVARIANTS FeaturesRestored   
  BroughtBack  FilesAreAsAnswered
CHECK_DEADLOCK FALSE
