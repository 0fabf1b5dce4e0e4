SPECIFICATION Spec
CONSTANTS
  Configs <- MCConfigs
  HostNames = {"one", "other"}
  Missing = Missing
  Torn = Torn
  MaxStarts = 2
  MaxCrashes = 1
  MaxFaults = 0
  MaxDeletions = 0
INVARIANT IncompleteIsReplaced
