SPECIFICATION Spec
CONSTANTS
  Configs <- MCConfigs
  HostNames = {"one", "other"}
  Missing = Missing
  Torn = Torn
  MaxStarts = 3
  MaxCrashes = 2
  MaxFaults = 1
  MaxDeletions = 1
INVARIANTS ExistingIsWholeButLast ServedIsTrusted FailsForAReason
PROPERTIES MaterialIsKept
