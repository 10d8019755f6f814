\* Up to three criteria with a cap of two batches; every stage may fail and the
\* job's deadline may pass anywhere.
CONSTANTS
  Analyses <- MCAnalyses
  Curations <- MCCurations
  Assessments <- MCAssessments
  Batches <- MCBatches
  MaxACBatches = 2
SPECIFICATION FairSpec
INVARIANTS
  GTypeOK
  RowsTraced
  NoSilentTruncation
  FailsOnlyEmpty
  CoverageAgrees
  RatingHonest
  SeverityFollowsCriteria
PROPERTIES
  RowsOnlyGrow
  ImplementsStepPlan
  RunEnds
\* a generation ends
CHECK_DEADLOCK FALSE
