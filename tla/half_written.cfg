\* One tab is enough.
CONSTANTS
  Jobs = {j1, j2}
  NoJob = NoJob
  Capacity = 1
  Tabs = {t1}
  Analyses <- MCAnalyses
  Texts = {"x"}
  Retain = 1
  MaxEdits = 0
  MaxRestarts = 0
SPECIFICATION Spec
INVARIANTS AnswersAPage
