\* An upload, a download or a hash dump, and one more request.
SPECIFICATION FairAssetSpec
CONSTANTS
  r1 = r1
  r2 = r2
  r3 = r3
  Request = {r1, r2, r3}
  Dumper = Dumper
  PipeQueueLength = 2
  BodySize = 5
  ChunkSize = 3
  ReadSize = 2
INVARIANTS
  PipeSound
  InOrder
  CompleteAtEnd
PROPERTIES
  DumpDrains
  DownloadEnds
CHECK_DEADLOCK FALSE
