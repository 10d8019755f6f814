\* Two uploads, a line of one (full while the first is not taken), transcripts of no,
\* one, two and three chunks, two restarts of qa-core and any number of qa-ai.
CONSTANTS
  Uploads = {u1, u2}
  NoUpload = NoUpload
  Buffer = 1
  ChunkWords = 3
  OverlapWords = 1
  Transcripts = {0, 3, 5, 6}
  MaxBoots = 3
SPECIFICATION FairSpec
INVARIANTS
  FTypeOK
  WorkDirFlat
  OverIsClean
  AudioOutlivesRequest
PROPERTIES
  MinutesComplete
  AudioRemoved
\* the process may stay down
CHECK_DEADLOCK FALSE
