SPECIFICATION Spec
CONSTANTS
  Paths = {"file", "env"}
  ForbiddenPaths = {"env"}
  Rules = {"key"}
  Contents <- MCContents
  LinkText <- Clean
  Missing = Missing
  Dir = Dir
  Link = Link
  MaxEdits = 3
  MaxScans = 2
  MaxCommits = 2
  MaxFaults = 1
INVARIANT PassedHistoryIsClean
PROPERTY HookedCommitIsClean
