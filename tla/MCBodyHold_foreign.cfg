SPECIFICATION Spec
CONSTANTS
  s1 = s1
  s2 = s2
  a1 = a1
  a2 = a2
  a3 = a3
  Sessions = {s1, s2}
  Articles <- MCArticles
  Stored <- MCStored
  BodyLines <- MCBodyLines
  Configs <- HoldConfigs
  InitialChaos <- HoldOneLine
  EnableTestControl = TRUE
  MaxConfigs = 1
  MaxBodies = 1
INVARIANT OnlyNamedBodiesBlocked
