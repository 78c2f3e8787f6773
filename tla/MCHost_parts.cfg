SPECIFICATION HostSpec
CONSTANTS
  Devices = {1, 2}
  HostPorts = {1, 2, 3, 4}
  AgentPorts = {1, 2}
  MaxEvents = 3
  HalTypes = {"audio"}
  Handlers = {"libm"}
  QueueNames = {"q"}
  AnySession = FALSE
  MaxClients = 2
  MaxQueues = 2
  Apis <- ConstApis
  Attributes <- ConstAttributes
  Values <- ConstValues
  Asked <- ConstAsked
  Sent <- ConstSent
  FirstApiLevel = 0
  SdkVersion = 27
  HasFeature = TRUE
  MaxClasses = 2
  MaxCrashes = 1
  Cpus = {0, 1}
  LogFiles <- ConstLogFiles
  CalledApis = {"getFoo", "ping"}
  OwnApis = {"getFoo"}
  MaxCases = 2
  MaxFailed = 1
  Builds <- ConstBuilds
  Paths <- ConstPaths
  Loaded <- ConstLoaded
  Pids = {1, 2, 3}
  Excluded = {"x"}
  InProject = {"a", "x"}
  MaxExecutions = 2
  Symbols <- ConstSymbols
  HalBinaries <- ConstHalBinaries
  HalOrder <- ConstHalOrder
  ExcludedFiles = {"log.h"}
  MaxRestarts = 1
  Hosts = {"h1", "h2"}
  Strings = {"a"}
  RepeatTimes = 3
  MaxTries = 1
  MaxRuns = 3
  MaxDeaths = 1
  Items <- ConstItems
  MaxItems = 2
  BinaryLists <- ConstBinaryLists
INVARIANTS ServicesAreKept  ValuesSurvive 
  FeaturesAreKept LinesCountExecutions  CorpusIsInOrder TestsAreThoseAsked
CHECK_DEADLOCK FALSE
