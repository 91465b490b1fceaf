SPECIFICATION OutSpec
CONSTANTS
  Tasks = {t1, t2}
  t1 = t1
  t2 = t2
  Models = {m1, m2}
  m1 = m1
  m2 = m2
  file1 = file1
  file2 = file2
  artifact = artifact
  folder = folder
  Urls <- MCUrls
  Files = {file1, file2, artifact}
  Covers <- MCCovers
  StorageOf <- OneStorage
  Misconfigured = {}
  NoPath = {}
  MaxRetries = 1
  ChunkSize = 1
  MaxDeaths = 0
  NoTask = NoTask
  DeletedTask = DeletedTask
  DeletedModel = DeletedModel
  Controllers = {t1}
  Uri <- MCUri
  InProject = {t1, m1}
  Archived = {t1, m1}
  Folder <- MCFolder
  Starts <- TwoModels
  Options <- Defaults
  MaxRequests = 3
  MaxStops = 1
INVARIANT FilesInUseSurvive
CHECK_DEADLOCK FALSE
