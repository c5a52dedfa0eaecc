SPECIFICATION FairSpec
CONSTANTS
  w1 = w1
  w2 = w2
  Workers = {w1, w2}
  ClusterSize = 2
  RecordSize = 1
  BitsPerByte = 2
  MaxReadSize = 4
  BitmapExtents <- TwoBitmapExtents
  DataExtents <- TwoDataExtents
  BitmapSize = 4
  Capacity <- ValidRecords
  Disks <- AllDisks
  Concurrency = 2
  MayFail = TRUE
  MayCancel = TRUE
CHECK_DEADLOCK FALSE
INVARIANTS
  ChunkAccounting
  NoUsedRecordSkipped
  PreprocessedAtTheEnd
  SearchSeesAll
PROPERTIES
  EventStays
  
  Drains
