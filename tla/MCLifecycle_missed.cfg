SPECIFICATION FairSpec
CONSTANTS
  c1 = c1
  c2 = c2
  c3 = c3
  main = main
  ctx = ctx
  NoConn = NoConn
  Conns = {c1}
  Closers = {main}
  ListenerCount = 1
  Limits = {0}
  InitialLimit = 1
  MaxChanges = 0
PROPERTY CloseReturns
