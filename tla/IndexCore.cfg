SPECIFICATION Spec
CONSTANTS
  Frss <- RecordNumbers
  Volumes <- AllVolumes
  Chunks <- SingleChunks
  Reserved = 6
  MaxSteps = 40
  RefusedSets <- Refusals
INVARIANTS
  TableAsLoaded
  ChildrenLeadToNames
  SizesConserved
  SingleNamesVisitedOnce
  PathsAgree
  ProgressHolds
