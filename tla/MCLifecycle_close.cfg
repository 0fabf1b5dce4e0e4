SPECIFICATION FairSpec
CONSTANTS
  c1 = c1
  c2 = c2
  c3 = c3
  main = main
  ctx = ctx
  NoConn = NoConn
  Conns = {c1, c2}
  Closers = {main, ctx}
  ListenerCount = 1
  Limits = {2}
  InitialLimit = 1
  MaxChanges = 1
INVARIANTS TypeOK CloseWaitsForAll AdmissionBound
PROPERTIES CloseReturnsOrMissed AddNeverRacesWait ImplementsShutdown
