SPECIFICATION LibrarySpec
CONSTANTS
  Callers <- MCCallers
  Given <- MCGiven
  GivenMaps = {1, 2, 3}
  MaxList = 2
  DefaultBasePath <- MCDefaultBasePath
  Options <- MCAllOptions
  MaxOptions = 4
  Clusters = {c1, c2}
  NoCluster = NoCluster
  Home = NoCluster
  Names = {"x", "y"}
  Collections <- MCCollections
  MaxCalls = 4
  MaxReplicas = 2
  MaxGeneration = 2
  MaxPods = 3
  Writers = {w1, w2}
  Paths <- MCPaths
  Texts <- MCTexts
  NoFilter = NoFilter
  MaxEdits = 3
INVARIANTS
  ObjectIsWhatWasAsked
  ClientStaysInOneCluster
  ReportedIsComplete
  ListIsWhatIsWanted
  StoredIsInForce
  OrderMattersOnlyForLabels
  StorageKindsDoNotMix
  BuiltClassReadsBack
PROPERTIES
  CallersMapsAreKept
  CollectionIsNew
  DeploymentIsReported
CHECK_DEADLOCK FALSE
