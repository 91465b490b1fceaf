SPECIFICATION Spec
CONSTANTS
  Ids = {1, 2, 3, 4}
  NoProject = 0
  Gone = 99
  Clients = {c1, c2}
  c1 = c1
  c2 = c2
  e1 = e1
  e2 = e2
  a = a
  b = b
  u1 = u1
  u2 = u2
  Entities = {e1, e2}
  Archived = {e2}
  Batches <- BothTogether
  Parts = {a, b}
  Blank = Blank
  Empty = Empty
  PublicNames <- OneInDeepName
  MaxDepth = 3
  Asks <- OneMovesOneCreates
  Facts <- TwoFacts
  Owner <- Owners
  DatasetTag <- SomeDatasets
  Tags <- SomeTags
  DayAgo = 4
INVARIANTS TypeOK TreeAgrees ActiveEntitiesHaveHomes StatsCountTree
PROPERTIES IsForest
