SPECIFICATION Spec
CONSTANTS
  Frss <- RecordNumbers
  Volumes <- SplitVolumes
  Chunks <- SingleChunks
  Reserved = 6
  MaxSteps = 40
  RefusedSets <- Refusals
INVARIANTS
  ProgressNeverExceeds
