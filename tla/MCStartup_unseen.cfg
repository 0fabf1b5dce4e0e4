SPECIFICATION Spec
CONSTANTS
  Configs <- MCConfigs
  HostNames = {"one", "other"}
  Missing = Missing
  Torn = Torn
  MaxStarts = 2
  MaxCrashes = 0
  MaxFaults = 1
  MaxDeletions = 0
PROPERTY OnlyIncompleteIsRemoved
