\* Two submits on a channel of one, one viewer who may come and go, one plan
\* change per run: enough for a full channel, a coalesced tick and an eviction.
CONSTANTS
  Jobs = {j1, j2}
  NoJob = NoJob
  Buffer = 1
  Retain = 1
  Clients = 2
  Viewers = {v1}
  MaxSteps = 1
SPECIFICATION LFairSpec
INVARIANTS
  SettledPageCurrent
  LineNotUnderstated
PROPERTIES
  EndIsShown
\* the process may exit
CHECK_DEADLOCK FALSE
