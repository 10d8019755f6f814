\* The inputs of gen_pipeline.
CONSTANTS
  Analyses <- MCAnalyses
  Curations <- MCCurations
  Assessments <- MCAssessments
  Batches <- MCBatches
  MaxACBatches = 2
SPECIFICATION FairSpec
INVARIANTS LabelIsLastDone
CHECK_DEADLOCK FALSE
