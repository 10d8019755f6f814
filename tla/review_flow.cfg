\* Two tabs, three submissions, two edits, one retained result and one restart.
CONSTANTS
  Jobs = {j1, j2, j3}
  NoJob = NoJob
  Capacity = 1
  Tabs = {t1, t2}
  Analyses <- MCAnalyses
  Texts = {"x"}
  Retain = 1
  MaxEdits = 2
  MaxRestarts = 1
SYMMETRY Symmetry
SPECIFICATION Spec
INVARIANTS
  RTypeOK
  OwnResult
  LedPageWhole
