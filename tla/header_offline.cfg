\* The daemon may stop once.
CONSTANTS
  AutoPulls = {TRUE}
  Percents = {"62%"}
  MaxFaults = 1
  Calls = {c1}
  MomCalls = {}
  MaxRetries = 0
  ChatLimit = 1
  StageLimit = 1
SPECIFICATION FairSpec
PROPERTY HeaderTellsOffline
CHECK_DEADLOCK FALSE
