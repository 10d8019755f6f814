\* Four Submit calls, two at once, on a channel of two with one retained result: refusals
\* while a job is with the worker, sends in the other order than the registrations,
\* evictions and a shutdown at any point all happen.
CONSTANTS
  Jobs = {j1, j2, j3, j4}
  NoJob = NoJob
  Buffer = 2
  Retain = 1
  Clients = 2
SPECIFICATION FairSpec
INVARIANTS
  TypeOK
  LineAccounted
  MapAccounted
  StateAgrees
  SubmitAgrees
  MemoryBounded
PROPERTIES
  OnlyOldestEvicted
  AheadNeverGrows
  ImplementsFifo
  GoroutinesReturn
\* the process may exit
CHECK_DEADLOCK FALSE
