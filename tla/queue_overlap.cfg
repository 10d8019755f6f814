\* Two Submits at once are enough for the line shown to differ from the line served.
CONSTANTS
  Jobs = {j1, j2}
  NoJob = NoJob
  Buffer = 2
  Retain = 1
  Clients = 2
SPECIFICATION Spec
PROPERTIES
  ServedFromTheFront
CHECK_DEADLOCK FALSE
