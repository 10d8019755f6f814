\* A stage call and one of the minutes; two attempts of one unit each in a call of two.
CONSTANTS
  AutoPulls = {TRUE, FALSE}
  Percents = {"62%"}
  MaxFaults = 1
  Calls = {c1, c2}
  MomCalls = {c2}
  MaxRetries = 1
  ChatLimit = 1
  StageLimit = 2
SPECIFICATION FairSpec
INVARIANTS
  STypeOK
  OnlyReadyServes
  
PROPERTIES
  HeaderSettles
  WarmupEnds
  CallsEnd
\* when every call is over and the daemon rests, only polls go on
CHECK_DEADLOCK FALSE
