SPECIFICATION Spec
CONSTANTS
  Configs <- TwoNames
  HostNames = {"one", "other"}
  Missing = Missing
  Torn = Torn
  MaxStarts = 2
  MaxCrashes = 0
  MaxFaults = 0
  MaxDeletions = 0
INVARIANT NamesAreServed
