SPECIFICATION ComponentsSpec
CONSTANTS
  VariableNames = {"a", "b"}
  Definitions <- SomeDefinitions
  Templates <- SomeTemplates
  MaxPasses = 4

  EnvironmentNames = {"Local", "local", "prod"}
  Slug <- FileNames
  VariableKeys = {"token"}
  SecretValues = {1}
  MaxSaves = 2
  MaxSaveFailures = 1

  FileProcs = {"app", "cli"}
  RequestIds = {1, 2, 3}
  IdPrefix <- SamePrefix
  RequestNames = {"a", "b"}
  MaxFileSaves = 3
  MaxFileFailures = 1

  Engines = {e1, e2}
  Cookies = {c1, c2}
  MaxCookies = 1
  MaxJarWrites = 3
  MaxJarFailures = 1

  Fetchers = {r1, r2}
  TokenKeys = {"cc", "device"}
  DeviceKeys = {"device"}
  Skew = 1
  MaxCachedTokens = 1
  Lifetimes = {1, 2}
  CodeLifetimes = {2}
  Intervals = {0, 3}
  MinInterval = 1
  MaxInterval = 2
  SlowDown = 2
  MaxDelay = 1
  MaxTime = 3

  StreamEvents = 3
  ReconnectLimit = 2

  MaxTexts = 2
  SocketReconnects = 1
  MaxUnread = 1

  InputSizes = {1, 2}
  PipeCapacity = 1
  MaxOutput = 1
  MaxProduced = 3

  WorkPlans <- OrdersOfWork

  SavedRequests <- EditedRequests
  EditorTexts = {"", "b", "{"}
  MaxEditorSteps = 3

  SentRequests <- RequestsToSend
  ChallengeLists <- Challenges
  MaxResponseBytes = 3
  ChunkSizes = {2, 4}

  Flows = {"f1", "f2"}
  MaxBacklog = 1

  Targets <- TunnelTargets
  Proxies <- SomeProxies
  AddressLength = 1
  HeaderLimit = 4
  HeaderLengths = {2, 4}
  ReadSizes = {1, 2, 3}
  TargetBytes = 2

  GrpcServices = {"a", "b"}
  GrpcRequests <- GrpcCalls
  ServerMessages = 2

  PmScopes = {"environment"}
  PmKeys = {"k"}
  PmValues = {1}
  MaxSends = 2
  MaxTestEntries = 2
  MaxScriptSteps = 3

  NativeRequests <- ScriptedRequests
  NewQueries <- NewEntries
  NewBodies <- NewContents
  MaxRequestSteps = 2

  Responses <- SomeResponses
  Schemas <- SomeSchemas
  EquivalentSchemas <- SamePairs
  OppositeSchemas <- SomeOpposites
  Folded <- LowerCase
  TextLength <- TextLengths
  Formats <- SomeFormats
  JsonPaths <- SomePaths
  MaxReferenceDepth = 3

  NativeCollections <- SomeCollections
  PostmanDocuments <- SomeDocuments
  MaxRounds = 2

  Specifications <- SomeSpecifications
  NativeApis <- SomeApis
  MaxRemoteDocuments = 3

  CurlRequests <- CopiedRequests
  SameCommands <- PastedCommands

  ComparedRequests <- RequestsToCompare
  ComparedBodies <- BodiesToCompare
  Exclusions <- SomeExclusions
  KeyOrder <- KeysToCompare
  MaxComparisonBytes = 1
  MaxChanges = 3
  MaxVisited = 5
  MaxDepth = 2
  MaxComparisonSteps = 5

  MockClients = {"c", "d"}
  MockProjects <- ServedProjects
  MockTargets <- AskedTargets
  MockHeaderLimit = 1
  MaxPieces = 2
INVARIANTS
  ComponentsTypeOK
  RequestsAreSentAsWritten
  SecretsResolve
  StoredDataIsWhole
  TokensAreOwnAndValid
  StreamsKeepOrder
  WorkersAreAccountedFor
  TranslationsKeepMeaning
PROPERTIES
  SavesKeepValues
  ImplementsRequestStore
  DeviceFlowIsPaced
  CancelledWorkEnds
CHECK_DEADLOCK FALSE
