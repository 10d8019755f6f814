\* The inputs of mom_files, with one restart.
CONSTANTS
  Uploads = {u1, u2}
  NoUpload = NoUpload
  Buffer = 1
  ChunkWords = 3
  OverlapWords = 1
  Transcripts = {0, 3, 5, 6}
  MaxBoots = 2
SPECIFICATION Spec
INVARIANT NoOrphans
CHECK_DEADLOCK FALSE
