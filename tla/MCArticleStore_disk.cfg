SPECIFICATION Spec
CONSTANTS
  s1 = s1
  s2 = s2
  s3 = s3
  a = a
  b = b
  t1 = t1
  t2 = t2
  Partial = Partial
  NoFile = NoFile
  NoCall = NoCall
  NoSession = NoSession
  Sessions = {s1, s2}
  Ids = {1, 2}
  HiddenIds = {}
  StagedIds = {2}
  TempNames = {t1, t2}
  Contents = {a, b}
  PowerLoss = TRUE
  Prefixes <- OnePrefix
  Percentages = {50, 100}
  MaxCalls = 3
  MaxCrashes = 1
  MaxFaults = 1
  MaxStaged = 1
SYMMETRY Symmetry
INVARIANTS TypeOK IndexMatchesDisk OnlyWholeArticles PromisesKept NoTempLeft
