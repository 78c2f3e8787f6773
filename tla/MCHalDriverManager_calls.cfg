SPECIFICATION Spec
CONSTANTS
  Interfaces = {"INfc", "IClient"}
  Loaded = "INfc"
  Addrs = {11, 12}
  Uids = {"1000"}
  Args <- SomeArgs
  MaxResults = 2
  MaxReturned = 3
  MaxObjects = 2
INVARIANTS MirrorReachesItsObject ResultReachesItsObject CallRunsAsCaller ReferencesAreOwned
CHECK_DEADLOCK FALSE
