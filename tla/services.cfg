SPECIFICATION ServicesSpec
CONSTANTS
  file1 = file1
  file2 = file2
  lost = lost
  Urls = {file1, file2, lost}
  Files = {file1, file2, lost}
  Covers <- MCCovers
  StorageOf <- MCStorage
  Misconfigured = {lost}
  NoPath = {}
  MaxRetries = 2
  ChunkSize = 2
  MaxDeaths = 1
  MaxSchedules = 2
  Workers = {w1}
  UserTags = {tag1}
  SystemTags = {tag2}
  All = All
  Timeout = 2
  Runs = {run1}
  NoRun = NoRun
  Threshold = 2
  Containers = {c1}
  Endpoints = {url1, url2}
  Loading = Loading
  ServeTimeout = 2
  NoUrl = NoUrl
  Entities = {e1}
  Tags = {tag1}
  Dummy = Dummy
  Company = Company
  parent = parent
  child = child
  Projects = {child}
  HomeOf <- MCHome
  Within <- MCWithin
  Readers = {r1, r2}
  Editors = {d1}
  Series <- MCSeries
  Recycle = 2
  Reports <- MCReports
  MaxIter = 3
  PageSizes = {1, 2}
  UrlsExpire = TRUE
  loss = loss
  score = score
  gpu = gpu
  Scalars = {loss, score, gpu}
  Batches <- MCBatches
  SkipSeries = {gpu}
  MaxMetrics = 1
  Reporters = {r1, r2}
  MaxBatches = 3
  red = red
  blue = blue
  FieldValues = {red, blue}
  None = None
  AskedQueries <- MCQueries
  Docs = {1, 2, 3}
  FieldKeys = {1, 2}
  MaxSize = 2
  Samples = {1}
  Packed = {1, 2}
  Metadata = {m1}
  MaxChanges = 2
  MaxKills = 1
  Folders = {1, 2, 3, 4}
  Pieces = {t1}
  Servers = {s1, s2}
  NoServer = NoServer
  Scripts = {1, 2}
  MonitoredFrom = 1
  Accounts = {a1, a2}
  FixedUsers = {a2}
  MaxStarts = 2
  artifact = artifact
  Operators = {"type"}
  Clients = {c1, c2}
  Legacy <- MCLegacy
  Properties <- MCProperties
  Artifacts = {artifact}
  AskedEdits <- MCEdits
  Lives = {"in_progress", "completed"}
  MaxEdits = 2
  Variants <- MCVariants
  ShownMetrics = 2
  ShownVariants = 2
  MaxGroup = 2
  MaxBuckets = 5
  LateReports <- MCLateReports
  Declared <- MCDeclared
  Stored <- MCStored
  Nobody = Nobody
  NoVersion = NoVersion
  BuiltIn <- MCBuiltIn
  VersionRequired = FALSE
  CheckMaxVersion = TRUE
  AskedCalls <- MCCalls
INVARIANTS CallsReachTheirHandlers ServicesTypeOK  LiveWorkersAreListed  CachedTagsCurrent   StatisticsAddUp ListsAreAnswered ExamplesAreWhole ExportedTreeAgrees  
PROPERTIES  StaleTagsLapse SilentTasksStop FinishedTasksStay TagsSettle RecordsSettle
CHECK_DEADLOCK FALSE
