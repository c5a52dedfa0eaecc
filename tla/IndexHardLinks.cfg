SPECIFICATION Spec
CONSTANTS
  Frss <- RecordNumbers
  Volumes <- WholeVolumes
  Chunks <- SingleChunks
  Reserved = 6
  MaxSteps = 40
  RefusedSets <- Refusals
INVARIANTS
  EveryNameVisited
