SPECIFICATION IconSpec
CONSTANTS
  pathA = pathA  pathB = pathB  pathC = pathC
  Paths = {pathA, pathB, pathC}
  Lists <- TwoLists
  MaxCache = 1
  Thunks = {1, 2, 3}
  Timestamps = {1, 2}
  Stopping = {}
  MaxClear = 1
CHECK_DEADLOCK FALSE
INVARIANTS WakeUpsCoverTodo TodoOrdered IconOfItsPath RedrawOnItsWay
PROPERTIES EveryIconSettles
