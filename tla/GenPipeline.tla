---------------------------- MODULE GenPipeline -----------------------------
(***************************************************************************)
(* The batched generation (orchestrator.go Run): analysis, one test-case    *)
(* batch per acceptance criterion, edge cases and test data, then coverage. *)
(*                                                                          *)
(* Every call of queue.Progress takes Manager.mu and announces the change,  *)
(* so a page may read the job between any two of them: each is a step here, *)
(* together with the work the runner does before the next one.  A stage     *)
(* call of qa-ai answers or fails; once the job's context has expired it    *)
(* can only fail.                                                           *)
(*                                                                          *)
(* Abstracted: texts, the prompt, the markdown snapshot and the timing log, *)
(* which nothing reads back.                                                *)
(***************************************************************************)
EXTENDS Exports, Scoring, Progress

CONSTANTS
  Analyses,     \* criteria the analysis may answer: non-empty sequences (stage.go:25-30)
  Curations,    \* acceptance criteria of the request, <<>> for a direct generation
  Assessments,  \* what it says of the requirement: severities of ambiguities, deductions
  Batches,      \* what a batch may answer: non-empty sequences of cases (stage.go:36-41)
  MaxACBatches  \* maxACBatches

ASSUME PipelineAssumption ==
  /\ \A list \in Analyses : list \in Seq(Criteria) /\ list # <<>>
  /\ \A list \in Curations : list \in Seq(Criteria)
  /\ \A said \in Assessments :
       /\ said.ambiguities \in Seq(STRING)
       /\ said.deductions \in Seq([points : Int, reason : STRING])
  /\ \A batch \in Batches : batch \in Seq(Answers) /\ batch # <<>>
  /\ MaxACBatches \in Nat \ {0}

VARIABLES
  at,         \* where Run stands
  plan,       \* Job.Plan
  curated,    \* req.AcceptanceCriteria
  next,       \* the batch the loop is at
  cases,      \* the cases collected, not numbered yet
  result,     \* the local result
  partial,    \* Job.Partial
  expired     \* the job's context is done: GenTimeout, or the process is stopping

vars == <<at, plan, curated, next, cases, result, partial, expired>>

NoScore == [score |-> 0, rating |-> "", deductions |-> <<>>]

\* contract.Result{}
NoResult ==
  [acs |-> <<>>, ambiguities |-> <<>>, health |-> NoScore, capped |-> 0, cases |-> <<>>, aux |-> FALSE,
   matrix |-> <<>>, summary |-> [positive |-> 0, negative |-> 0, edge |-> 0], score |-> NoScore]

\* Where each Start call leads.
AfterStart == [startAnalysis |-> "analysis", startBatch |-> "batch",
               startAux |-> "aux", startCoverage |-> "coverage"]

Points == DOMAIN AfterStart \cup
  {"begin", "analysis", "batches", "batch", "publish", "aux", "closing", "coverage",
   "finalSave", "failing", "returned", "erred"}

Ended == at \in {"returned", "erred"}

\* The criteria that get a batch of their own.
Batched == SubSeq(result.acs, 1, IF Len(result.acs) > MaxACBatches THEN MaxACBatches
                                                                   ELSE Len(result.acs))

\* Variant: a case that names nothing is kept as it is.
PinnedNever(tc, ac) == tc

\* "pin traceability if the model forgot"
Pinned(tc, ac) == IF tc.covers = {} THEN [tc EXCEPT !.covers = {IdOf(ac)}] ELSE tc

\* Variant: the latest cases come first.
RenumberBackwards(cs) ==
  LET back == Reverse(cs)
  IN [i \in DOMAIN cs |->
        [no |-> i, type |-> back[i].type, covers |-> back[i].covers, marks |-> back[i].marks]]

Renumber(cs) ==
  [i \in DOMAIN cs |->
     [no |-> i, type |-> cs[i].type, covers |-> cs[i].covers, marks |-> cs[i].marks]]

Init ==
  /\ at = "begin"
  /\ plan = <<>>
  /\ curated \in Curations
  /\ next = 1
  /\ cases = <<>>
  /\ result = NoResult
  /\ partial = NoResult
  /\ expired = FALSE

-----------------------------------------------------------------------------
(* Progress calls. *)

PlanFirst ==
  /\ at = "begin"
  /\ at' = "startAnalysis"
  /\ plan' = Planned(1)
  /\ UNCHANGED <<curated, next, cases, result, partial, expired>>

\* p.Start of the step planned or appended last.
StartStep ==
  /\ at \in DOMAIN AfterStart
  /\ at' = AfterStart[at]
  /\ plan' = SetStep(plan, Len(plan), "running")
  /\ UNCHANGED <<curated, next, cases, result, partial, expired>>

AppendStep(from, to) ==
  /\ at = from
  /\ at' = to
  /\ plan' = Appended(plan)

\* p.Done or p.Fail of the running step.
SettleStep(from, s, to) ==
  /\ at = from
  /\ at' = to
  /\ plan' = SetStep(plan, Len(plan), s)

\* save
Publish(res) == partial' = res

-----------------------------------------------------------------------------
(* Stage 1: analysis and acceptance criteria. *)

AnalysisFails ==
  /\ SettleStep("analysis", "failed", "failing")
  /\ UNCHANGED <<curated, next, cases, result, partial, expired>>

\* Variant: the criteria past the cap are dropped from the result.
AnalysisAnswersTruncated ==
  /\ ~expired
  /\ SettleStep("analysis", "done", "batches")
  /\ \E list \in Analyses, said \in Assessments :
       LET acs == IF curated # <<>> THEN curated ELSE list
       IN result' = [NoResult EXCEPT
            !.acs = SubSeq(acs, 1, IF Len(acs) > MaxACBatches THEN MaxACBatches ELSE Len(acs)),
            !.ambiguities = said.ambiguities]
  /\ UNCHANGED <<curated, next, cases, partial, expired>>

\* The criteria curated on the review page replace the derived ones; those past
\* the cap are counted in missing_areas.  qa-ai bounds the health score on the way.
AnalysisAnswers ==
  /\ ~expired
  /\ SettleStep("analysis", "done", "batches")
  /\ \E list \in Analyses, said \in Assessments :
       LET acs == IF curated # <<>> THEN curated ELSE list
       IN result' = [NoResult EXCEPT
            !.acs = acs,
            !.ambiguities = said.ambiguities,
            !.health = ClampHealth(said.deductions),
            !.capped = IF Len(acs) > MaxACBatches THEN Len(acs) - MaxACBatches ELSE 0]
  /\ UNCHANGED <<curated, next, cases, partial, expired>>

-----------------------------------------------------------------------------
(* Stage 2: one batch per criterion. *)

AppendBatch ==
  /\ next <= Len(Batched)
  /\ AppendStep("batches", "startBatch")
  /\ UNCHANGED <<curated, next, cases, result, partial, expired>>

\* Variant: the failure ends the loop, not only this batch.
BatchFailsJob ==
  /\ SettleStep("batch", "failed", "failing")
  /\ UNCHANGED <<curated, next, cases, result, partial, expired>>

\* Variant: the batch is tried again until it answers.
BatchFailsRetries ==
  /\ at = "batch"
  /\ at' = "startBatch"
  /\ UNCHANGED <<plan, curated, next, cases, result, partial, expired>>

\* "One AC failing shouldn't sink the whole job"
BatchFails ==
  /\ SettleStep("batch", "failed", "batches")
  /\ next' = next + 1
  /\ UNCHANGED <<curated, cases, result, partial, expired>>

\* Variant: Done is not reported.
BatchAnswersSilently ==
  /\ ~expired
  /\ at = "batch"
  /\ at' = "publish"
  /\ \E batch \in Batches :
       cases' = cases \o [i \in DOMAIN batch |-> Pinned(batch[i], Batched[next])]
  /\ UNCHANGED <<plan, curated, next, result, partial, expired>>

BatchAnswers ==
  /\ ~expired
  /\ SettleStep("batch", "done", "publish")
  /\ \E batch \in Batches :
       cases' = cases \o [i \in DOMAIN batch |-> Pinned(batch[i], Batched[next])]
  /\ UNCHANGED <<curated, next, result, partial, expired>>

PublishBatch ==
  /\ at = "publish"
  /\ at' = "batches"
  /\ result' = [result EXCEPT !.cases = Renumber(cases)]
  /\ Publish(result')
  /\ next' = next + 1
  /\ UNCHANGED <<plan, curated, cases, expired>>

\* Run returns an error: the analysis failed, or no batch left a case.
ReturnError ==
  /\ \/ at = "failing"
     \/ at = "batches" /\ next > Len(Batched) /\ cases = <<>>
  /\ at' = "erred"
  /\ UNCHANGED <<plan, curated, next, cases, result, partial, expired>>

-----------------------------------------------------------------------------
(* Stage 3: edge cases and test data, best effort. *)

AppendAux ==
  /\ next > Len(Batched)
  /\ cases # <<>>
  /\ AppendStep("batches", "startAux")
  /\ UNCHANGED <<curated, next, cases, result, partial, expired>>

AuxFails ==
  /\ SettleStep("aux", "failed", "closing")
  /\ UNCHANGED <<curated, next, cases, result, partial, expired>>

AuxAnswers ==
  /\ ~expired
  /\ SettleStep("aux", "done", "closing")
  /\ result' = [result EXCEPT !.aux = TRUE]
  /\ UNCHANGED <<curated, next, cases, partial, expired>>

-----------------------------------------------------------------------------
(* Stage 4: coverage and traceability, without a model call. *)

AppendCoverage ==
  /\ AppendStep("closing", "startCoverage")
  /\ UNCHANGED <<curated, next, cases, result, partial, expired>>

ComputeCoverage ==
  /\ SettleStep("coverage", "done", "finalSave")
  /\ LET summary == Summary(result.cases)
     IN result' = [result EXCEPT
          !.matrix  = Matrix(result.acs, result.cases),
          !.summary = summary,
          !.score   = Traceability(result.acs, result.cases, summary, result.ambiguities)]
  /\ UNCHANGED <<curated, next, cases, partial, expired>>

FinalSave ==
  /\ at = "finalSave"
  /\ at' = "returned"
  /\ Publish(result)
  /\ UNCHANGED <<plan, curated, next, cases, result, expired>>

\* The deadline of the job passes; nothing but the next answer notices.
Expire ==
  /\ ~Ended /\ ~expired
  /\ expired' = TRUE
  /\ UNCHANGED <<at, plan, curated, next, cases, result, partial>>

-----------------------------------------------------------------------------
Run ==
  \/ PlanFirst \/ StartStep
  \/ AnalysisFails \/ AnalysisAnswers
  \/ AppendBatch \/ BatchFails \/ BatchAnswers \/ PublishBatch
  \/ AppendAux \/ AuxFails \/ AuxAnswers
  \/ AppendCoverage \/ ComputeCoverage \/ FinalSave
  \/ ReturnError

Next == Run \/ Expire

Spec == Init /\ [][Next]_vars

\* The runner is one goroutine and each of its calls ends: the HTTP client gives
\* up after the stage timeout at the latest.
FairSpec == Spec /\ WF_vars(Run)

-----------------------------------------------------------------------------
(* Properties. *)

BatchSteps(state) == {i \in StepsIn(plan, state) : i > 1 /\ i <= next}

\* Every variable has its type.
GTypeOK ==
  /\ at \in Points
  /\ plan \in Seq(StepStates)
  /\ curated \in Curations
  /\ next \in 1 .. MaxACBatches + 1
  /\ cases \in Seq(Answers)
  /\ expired \in BOOLEAN
  /\ \A res \in {result, partial} :
       /\ res.acs \in Seq(Criteria)
       /\ res.cases \in Seq(Rows)
       /\ {res.score.score, res.health.score} \subseteq 0 .. 100

\* A row once shown keeps its number and its content: whatever a page rendered of
\* the work in progress is still there, unchanged, in every later save.
RowsOnlyGrow == [][IsPrefix(partial.cases, partial'.cases)]_vars

\* Every row a page can see traces to at least one criterion and carries the
\* number of its place ("TC-1..TC-N", orchestrator.go:181-182).
RowsTraced ==
  \A res \in {result, partial} : \A i \in DOMAIN res.cases :
    res.cases[i].no = i /\ res.cases[i].covers # {}

\* "ACs beyond it are still listed, just flagged as not-yet-covered (no silent
\* truncation)" (orchestrator.go:19-21): in a finished result every criterion had
\* a batch that was answered, a batch shown as failed, or is counted as capped,
\* and the curated criteria are exactly the listed ones.
NoSilentTruncation ==
  at = "returned" =>
    /\ Len(result.acs) = Cardinality(BatchSteps("done")) + Cardinality(BatchSteps("failed"))
                          + result.capped
    /\ curated # <<>> => result.acs = curated

\* "One AC failing shouldn't sink the whole job" and "never fails the job"
\* (orchestrator.go:121, 143): the job fails only when the analysis did, or when
\* no batch at all was answered, whatever expired on the way.
FailsOnlyEmpty ==
  at = "erred" => plan[1] = "failed" \/ BatchSteps("done") = {}

\* "these never disagree with the actual suite" (coverage.go:10-12): the matrix,
\* the summary and the score count the gaps of the separately exported traceability
\* matrix, which lists the same cases; and a case's issue for Jira is linked to the stories
\* of the criteria which that matrix lists it under, and to no other, by their summaries:
\* stories of one summary are linked together, and one without a summary cannot be.
CoverageAgrees ==
  at = "returned" =>
    LET gaps == Cardinality({k \in DOMAIN result.matrix : result.matrix[k].coveredBy = {}})
        rtm  == RTMRows(result.acs, result.cases)
        issues == JiraRows(result.acs, result.cases, result.matrix)
    IN /\ gaps = GapCount(result.acs, result.cases)
       /\ \A k \in DOMAIN rtm :
            /\ rtm[k].coveredBy = result.matrix[k].coveredBy
            /\ rtm[k].status = "GAP" <=> result.matrix[k].types = {}
       /\ \A i \in DOMAIN result.cases :
            issues[Len(rtm) + i].components =
              {issues[k].summary : k \in {k \in DOMAIN rtm : i \in rtm[k].coveredBy}} \ {""}
       /\ gaps > 0 <=> \E i \in DOMAIN result.score.deductions :
                          result.score.deductions[i] = Deduct(-15 * gaps, "uncovered")
       /\ result.summary.positive + result.summary.negative + result.summary.edge
            = Len(result.cases)

\* A suite rated "Fully Covered" has no gap in the exported matrix and tests the
\* negative and the edge side: no sum of deductions and rounding hides one.  The two
\* services agree on it: qa-ai's policy makes of qa-core's deductions qa-core's score.
RatingHonest ==
  /\ result.score.rating = "Fully Covered" =>
       /\ GapCount(result.acs, result.cases) = 0
       /\ \A kind \in {"Negative", "Edge case"} :
            \E i \in DOMAIN result.cases : NormType(result.cases[i].type) = kind
  /\ at = "returned" => result.score = ClampTrace(result.score)

\* "Severity from the max severity of the ACs a test case covers" (README.md:165-166),
\* where the id is written as the criterion has it and no other criterion has it: a case
\* the traceability matrix lists under a criterion is not exported with a lower severity,
\* unless the model set one itself.
SeverityFollowsCriteria ==
  at = "returned" =>
    LET rtm  == RTMRows(result.acs, result.cases)
        rows == QARepositoryRows(result.acs, result.cases)
    IN \A k \in DOMAIN rtm, i \in DOMAIN rows :
         (/\ rows[i].tc \in rtm[k].coveredBy
          /\ result.cases[i].marks.severity = ""
          /\ IdOf(result.acs[k]) \in rows[i].covers
          /\ \A m \in DOMAIN rtm : IdOf(result.acs[m]) = IdOf(result.acs[k]) => m = k)
         => SevRank(rows[i].severity) >= SevRank(result.acs[k].severity)

\* The checklist of a generation is one a page can follow: StepPlan.
Steps == INSTANCE StepPlan WITH over <- Ended
ImplementsStepPlan == Steps!PSpec

\* Every generation ends, expired or not.
RunEnds == <>Ended

\* The label a page shows between two steps is that of the step done last, as
\* view.go:92 and :116 say ("current running (or last done) step").
LabelIsLastDone ==
  LET done == StepsIn(plan, "done")
  IN StepsIn(plan, "running") = {} /\ done # {} =>
       \A i \in done : i <= LabelledStep(plan)
=============================================================================
