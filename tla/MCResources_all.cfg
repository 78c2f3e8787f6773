SPECIFICATION ResourcesSpec
CONSTANTS
  ScalarTypes = {"uint16_t"}
  StructTypes = {"ReadParameters"}
  OtherTypes = {"UserType"}
  Uses = {"struct_result", "other_type", "exclusive_mode", "failing_read", "wrong_argument"}
  MaxObjects = 3
  MaxMirrors = 4
  Sizes = {2}
  MaxItems = 4
  MaxRings = 1
  MaxMirrored = 3
  QueueSize = 6
  MemSize = 4
  AnyOrder = FALSE
  SetupRetries = 2
  MaxTests = 2
INVARIANTS ResourcesAreKept ReadsAreInOrder TestsHold
PROPERTIES QueuesAreFifos
CHECK_DEADLOCK FALSE
