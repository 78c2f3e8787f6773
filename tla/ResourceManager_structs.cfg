CONSTANTS
  ScalarTypes = {"uint16_t"}
  StructTypes = {"ReadParameters"}
  OtherTypes = {}
  Uses = {"struct_result"}
  MaxObjects = 3
  MaxMirrors = 3
SPECIFICATION ManagerSpec
INVARIANTS EveryRequestReturns
CHECK_DEADLOCK FALSE
