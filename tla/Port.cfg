SPECIFICATION FairSpec
CONSTANTS
  w1 = w1  w2 = w2  main = main  j1 = j1  r1 = r1  r2 = r2  r3 = r3  f1 = f1  f2 = f2
  Workers = {w1, w2}
  Main = main
  Jobs = {j1}
  Reads = {r1, r2}
  None = None
  Files = {f1}
  FileOf <- OneFile
  EmptyReads = {r2}
  Faulty = {r1}
  Guarded = {j1}
  Priorities = {0, 1}
  MaxRequeue = 1
  MaxClose = 2
INVARIANTS WakeUp  PoolAlive
PROPERTIES CloseReturns 
