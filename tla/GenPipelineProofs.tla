------------------------- MODULE GenPipelineProofs --------------------------
(* Theorems about GenPipeline, for any answers of the model and any cap. *)
EXTENDS GenPipeline, DataLemmas, FiniteSetTheorems

Settled == {"done", "failed"}

\* The points between a Start and the Done or Fail that follows it.
InStage == {"analysis", "batch", "aux", "coverage"}

\* What the last step of the plan may be, by where Run stands.
LastAt(point) ==
  IF point \in DOMAIN AfterStart THEN {"pending"}
  ELSE IF point \in InStage THEN {"running"} ELSE Settled

\* A plan whose earlier steps have settled and whose last one is in states.
Shape(p, states) ==
  /\ p \in Seq(StepStates)
  /\ p # <<>>
  /\ \A i \in 1 .. Len(p) : i # Len(p) => p[i] \in Settled
  /\ p[Len(p)] \in states

\* The inductive invariant of the plan: only its last step can be open, and where
\* Run stands says how.
PlanInv ==
  /\ at \in Points
  /\ IF at = "begin" THEN plan = <<>> ELSE Shape(plan, LastAt(at))

-----------------------------------------------------------------------------
(* The three Progress calls on a plan of that shape. *)

\* Start, Done and Fail of the last step change that step only.
LEMMA SetLastShape ==
  ASSUME NEW p, NEW old \in SUBSET StepStates, Shape(p, old), NEW s \in StepStates
  PROVE  /\ Len(p) \in DOMAIN p
         /\ DOMAIN p = 1 .. Len(p)
         /\ Shape(SetStep(p, Len(p), s), {s})
         /\ Len(SetStep(p, Len(p), s)) = Len(p)
         /\ DOMAIN SetStep(p, Len(p), s) = DOMAIN p
         /\ \A i \in DOMAIN p : SetStep(p, Len(p), s)[i] = IF i = Len(p) THEN s ELSE p[i]
<1> DEFINE q == SetStep(p, Len(p), s)
<1>1. /\ Len(p) \in Nat \ {0}
      /\ DOMAIN p = 1 .. Len(p)
      /\ \A i \in 1 .. Len(p) : p[i] \in StepStates
  BY LenProperties, EmptySeq, ElementOfSeq DEF Shape
<1>2. Len(p) \in 1 .. Len(p)
  BY <1>1
<1>3. q = [p EXCEPT ![Len(p)] = s]
  BY <1>1, <1>2 DEF SetStep
<1>4. /\ q \in Seq(StepStates)
      /\ Len(q) = Len(p)
      /\ \A i \in 1 .. Len(p) : q[i] = IF i = Len(p) THEN s ELSE p[i]
  BY <1>2, <1>3, ExceptSeq DEF Shape
<1> HIDE DEF q
<1>5. q # <<>>
  <2>1. Len(q) # 0 /\ Len(<<>>) = 0
    BY <1>1, <1>4, EmptySeq
  <2> QED
    BY <2>1
<1>6. \A i \in 1 .. Len(q) : i # Len(q) => q[i] \in Settled
  BY <1>4 DEF Shape
<1>7. q[Len(q)] \in {s}
  BY <1>2, <1>4
<1>8. Shape(q, {s})
  BY <1>4, <1>5, <1>6, <1>7 DEF Shape
<1>9. DOMAIN q = 1 .. Len(q)
  BY <1>4, LenProperties
<1> QED
  BY <1>1, <1>2, <1>4, <1>8, <1>9 DEF q

\* Append after the last step has settled.
LEMMA AppendShape ==
  ASSUME NEW p, Shape(p, Settled)
  PROVE  /\ Shape(Appended(p), {"pending"})
         /\ \A i \in DOMAIN Appended(p) : Appended(p)[i] # "pending" => i \in DOMAIN p /\ Appended(p)[i] = p[i]
         /\ 1 \in DOMAIN p
<1>1. p \in Seq(StepStates) /\ "pending" \in StepStates
  BY DEF Shape, StepStates
<1>2. /\ Append(p, "pending") \in Seq(StepStates)
      /\ Append(p, "pending") # <<>>
      /\ Len(Append(p, "pending")) = Len(p) + 1
      /\ \A i \in 1 .. Len(p) : Append(p, "pending")[i] = p[i]
      /\ Append(p, "pending")[Len(p) + 1] = "pending"
  BY <1>1, AppendProperties
<1>3. Len(p) \in Nat \ {0}
  BY <1>1, LenProperties, EmptySeq DEF Shape
<1>4. \A i \in 1 .. Len(p) : p[i] \in Settled
  BY <1>3 DEF Shape
<1>5. DOMAIN p = 1 .. Len(p) /\ DOMAIN Append(p, "pending") = 1 .. Len(p) + 1
  BY <1>1, <1>2, LenProperties
<1>6. \A i \in 1 .. Len(p) + 1 : i # Len(p) + 1 => i \in 1 .. Len(p)
  BY <1>3
<1>7. Shape(Appended(p), {"pending"})
  BY <1>2, <1>3, <1>4 DEF Shape, Appended
<1> QED
  BY <1>2, <1>3, <1>5, <1>6, <1>7 DEF Appended

\* The first plan has one pending step.
LEMMA FirstShape == Shape(Planned(1), {"pending"}) /\ Planned(1) = <<"pending">>
<1>1. Planned(1) = [i \in 1 .. 1 |-> "pending"]
  BY DEF Planned
<1>2. Planned(1) \in [1 .. 1 -> StepStates]
  BY <1>1 DEF StepStates
<1>3. Planned(1) \in Seq(StepStates)
  BY <1>2, SeqDef
<1>4. Len(Planned(1)) = 1
  BY <1>1, <1>3, LenProperties
<1>5. Planned(1)[1] = "pending" /\ Planned(1) # <<>>
  BY <1>1
<1>6. Planned(1) = <<"pending">>
  BY <1>1, <1>3, <1>4, SeqEqual
<1> QED
  BY <1>3, <1>4, <1>5, <1>6 DEF Shape

-----------------------------------------------------------------------------
(* What each kind of step does to the plan and to at. *)

PlanStep   == at = "begin" /\ at' = "startAnalysis" /\ plan' = Planned(1)
SomeAppend == \E from \in {"batches", "closing"}, to \in {"startBatch", "startAux", "startCoverage"} :
                AppendStep(from, to)
SomeSettle == \E from \in InStage, s \in Settled, to \in {"failing", "batches", "publish", "closing", "finalSave"} :
                SettleStep(from, s, to)
SomeQuiet  == /\ plan' = plan
              /\ \/ at' = at
                 \/ at = "publish" /\ at' = "batches"
SomeReturn == /\ plan' = plan
              /\ \/ at \in {"failing", "batches"} /\ at' = "erred"
                 \/ at = "finalSave" /\ at' = "returned"

LEMMA StepKinds ==
  ASSUME [Next]_vars
  PROVE  PlanStep \/ StartStep \/ SomeAppend \/ SomeSettle \/ SomeQuiet \/ SomeReturn
<1>1. CASE PlanFirst
  BY <1>1 DEF PlanFirst, PlanStep
<1>2. CASE StartStep
  BY <1>2
<1>3. CASE AppendBatch \/ AppendAux \/ AppendCoverage
  BY <1>3 DEF AppendBatch, AppendAux, AppendCoverage, SomeAppend
<1>4. CASE AnalysisFails \/ BatchFails \/ AuxFails
  BY <1>4 DEF AnalysisFails, BatchFails, AuxFails, SomeSettle, InStage, Settled
<1>5. CASE AnalysisAnswers \/ BatchAnswers \/ AuxAnswers \/ ComputeCoverage
  BY <1>5 DEF AnalysisAnswers, BatchAnswers, AuxAnswers, ComputeCoverage, SomeSettle, InStage, Settled
<1>6. CASE PublishBatch \/ Expire \/ UNCHANGED vars
  BY <1>6 DEF PublishBatch, Expire, vars, SomeQuiet
<1>7. CASE ReturnError \/ FinalSave
  BY <1>7 DEF ReturnError, FinalSave, SomeReturn
<1> QED
  BY <1>1, <1>2, <1>3, <1>4, <1>5, <1>6, <1>7 DEF Next, Run

LEMMA StepPlanInv ==
  ASSUME PlanInv, [Next]_vars
  PROVE  PlanInv'
<1> USE DEF AfterStart, InStage, LastAt, Points
<1>1. CASE PlanStep
  BY <1>1, FirstShape DEF PlanInv, PlanStep
<1>2. CASE StartStep
  <2>1. at # "begin" /\ Shape(plan, {"pending"})
    BY <1>2 DEF PlanInv, StartStep
  <2>2. Shape(plan', {"running"})
    BY <1>2, <2>1, SetLastShape DEF StartStep, StepStates
  <2>3. at' \in InStage
    BY <1>2 DEF StartStep
  <2> QED
    BY <2>2, <2>3 DEF PlanInv
<1>3. CASE SomeAppend
  <2>1. Shape(plan, Settled) /\ plan' = Appended(plan)
    BY <1>3 DEF PlanInv, SomeAppend, AppendStep
  <2>2. Shape(plan', {"pending"})
    BY <2>1, AppendShape
  <2> QED
    BY <1>3, <2>2 DEF PlanInv, SomeAppend, AppendStep
<1>4. CASE SomeSettle
  <2>1. PICK s \in Settled : plan' = SetStep(plan, Len(plan), s)
    BY <1>4 DEF SomeSettle, SettleStep
  <2>2. Shape(plan, {"running"})
    BY <1>4 DEF PlanInv, SomeSettle, SettleStep
  <2>3. Shape(plan', {s})
    BY <2>1, <2>2, SetLastShape DEF StepStates, Settled
  <2>4. Shape(plan', Settled)
    BY <2>3 DEF Shape
  <2> QED
    BY <1>4, <2>4 DEF PlanInv, SomeSettle, SettleStep
<1>5. CASE SomeQuiet
  BY <1>5 DEF PlanInv, SomeQuiet
<1>6. CASE SomeReturn
  BY <1>6 DEF PlanInv, SomeReturn
<1> QED
  BY <1>1, <1>2, <1>3, <1>4, <1>5, <1>6, StepKinds

\* The checklist invariant holds in every reachable state.
THEOREM PlanInvariance == Spec => []PlanInv
<1>1. Init => PlanInv
  BY DEF Init, PlanInv, Points
<1>2. PlanInv /\ [Next]_vars => PlanInv'
  BY StepPlanInv
<1> QED
  BY <1>1, <1>2, PTL DEF Spec

-----------------------------------------------------------------------------
(* GenPipeline implements StepPlan. *)

LEMMA StepImplements ==
  ASSUME PlanInv, [Next]_vars
  PROVE  [Steps!PNext]_(Steps!pvars)
<1> USE DEF AfterStart, InStage, LastAt, Ended, Steps!pvars, Steps!PNext
<1>1. CASE PlanStep
  <2>1. plan = <<>> /\ plan' = <<"pending">> /\ ~Ended /\ ~Ended'
    BY <1>1, FirstShape DEF PlanInv, PlanStep
  <2>2. Len(plan') = 1
    BY <2>1
  <2>3. plan' = Steps!Planned(Len(plan'))
    BY <1>1, <2>2 DEF PlanStep, Planned, Steps!Planned
  <2>4. Steps!Lay
    BY <2>1, <2>2, <2>3 DEF Steps!Lay
  <2> QED
    BY <2>1, <2>4
<1>2. CASE StartStep
  <2>1. Shape(plan, {"pending"}) /\ plan' = SetStep(plan, Len(plan), "running") /\ ~Ended /\ ~Ended'
    BY <1>2 DEF PlanInv, StartStep
  <2>2. Len(plan) \in DOMAIN plan /\ DOMAIN plan = 1 .. Len(plan)
    BY <2>1, SetLastShape DEF StepStates
  <2>3. Steps!Running = {} /\ Steps!Pending = {Len(plan)}
    BY <2>1, <2>2 DEF Shape, Settled, Steps!Running, Steps!Pending, Steps!StepsIn
  <2>4. Len(plan) <= Len(plan)
    BY <2>1, LenProperties DEF Shape
  <2>5. plan' = Steps!SetStep(plan, Len(plan), "running")
    BY <2>1 DEF SetStep, Steps!SetStep
  <2>6. Steps!Begin
    BY <2>3, <2>4, <2>5 DEF Steps!Begin
  <2> QED
    BY <2>1, <2>6
<1>3. CASE SomeAppend
  <2>1. plan # <<>> /\ plan' = Appended(plan) /\ ~Ended /\ ~Ended'
    BY <1>3 DEF PlanInv, Shape, SomeAppend, AppendStep
  <2>2. Steps!Extend
    BY <2>1 DEF Appended, Steps!Appended, Steps!Extend
  <2> QED
    BY <2>1, <2>2
<1>4. CASE SomeSettle
  <2>1. Shape(plan, {"running"}) /\ ~Ended /\ ~Ended'
    BY <1>4 DEF PlanInv, SomeSettle, SettleStep
  <2>2. PICK s \in Settled : plan' = SetStep(plan, Len(plan), s)
    BY <1>4 DEF SomeSettle, SettleStep
  <2>3. Len(plan) \in DOMAIN plan
    BY <2>1, SetLastShape DEF StepStates
  <2>4. Len(plan) \in Steps!Running
    BY <2>1, <2>3 DEF Shape, Steps!Running, Steps!StepsIn
  <2>5. plan' = Steps!SetStep(plan, Len(plan), s)
    BY <2>2 DEF SetStep, Steps!SetStep
  <2>6. Steps!Settle
    BY <2>4, <2>5 DEF Steps!Settle, Settled
  <2> QED
    BY <2>1, <2>6
<1>5. CASE SomeQuiet
  BY <1>5 DEF SomeQuiet
<1>6. CASE SomeReturn
  <2>1. Shape(plan, Settled) /\ plan' = plan /\ ~Ended /\ Ended'
    BY <1>6 DEF PlanInv, SomeReturn
  <2>2. DOMAIN plan = 1 .. Len(plan)
    BY <2>1, LenProperties DEF Shape
  <2>3. Steps!Running = {} /\ Steps!Pending = {}
    BY <2>1, <2>2 DEF Shape, Settled, Steps!Running, Steps!Pending, Steps!StepsIn
  <2> QED
    BY <2>1, <2>3 DEF Steps!Finish
<1> QED
  BY <1>1, <1>2, <1>3, <1>4, <1>5, <1>6, StepKinds

\* Every generation shows its page a checklist as StepPlan describes it: steps run
\* one at a time and in order, settle once and for good, and none is left open
\* when Run returns, whatever the stages answered and whenever the job expired.
THEOREM PlanImplemented == Spec => ImplementsStepPlan
<1>1. Init => Steps!PInit
  BY DEF Init, Steps!PInit, Ended
<1>2. PlanInv /\ [Next]_vars => [Steps!PNext]_(Steps!pvars)
  BY StepImplements
<1> QED
  BY <1>1, <1>2, PlanInvariance, PTL DEF Spec, ImplementsStepPlan, Steps!PSpec

-----------------------------------------------------------------------------
(* The rows a page shows. *)

\* The row that case i of cs becomes.
Row(cs, i) ==
  [no |-> i, type |-> cs[i].type, covers |-> cs[i].covers, marks |-> cs[i].marks]

\* Numbering keeps order and content.
LEMMA RenumberRows ==
  ASSUME NEW cs \in Seq(Answers)
  PROVE  /\ Renumber(cs) \in Seq(Rows)
         /\ Len(Renumber(cs)) = Len(cs)
         /\ \A i \in 1 .. Len(cs) : Renumber(cs)[i] = Row(cs, i)
<1>1. Len(cs) \in Nat /\ DOMAIN cs = 1 .. Len(cs)
  BY LenProperties
<1>2. \A i \in 1 .. Len(cs) : cs[i] \in Answers
  BY ElementOfSeq
<1>3. \A i \in 1 .. Len(cs) : Row(cs, i) \in Rows
  <2> SUFFICES ASSUME NEW i \in 1 .. Len(cs)
               PROVE  Row(cs, i) \in Rows
    OBVIOUS
  <2>1. i \in Nat
    BY <1>1
  <2> QED
    BY <1>2, <2>1 DEF Row, Rows, Answers
<1>4. Renumber(cs) = [i \in 1 .. Len(cs) |-> Row(cs, i)]
  BY <1>1 DEF Renumber, Row
<1>5. Renumber(cs) \in [1 .. Len(cs) -> Rows]
  BY <1>3, <1>4
<1>6. Renumber(cs) \in Seq(Rows)
  BY <1>1, <1>5, SeqDef
<1>7. Len(Renumber(cs)) = Len(cs)
  <2>1. DOMAIN Renumber(cs) = 1 .. Len(cs)
    BY <1>4
  <2>2. DOMAIN Renumber(cs) = 1 .. Len(Renumber(cs)) /\ Len(Renumber(cs)) \in Nat
    BY <1>6, LenProperties
  <2> QED
    BY <1>1, <2>1, <2>2
<1> QED
  BY <1>4, <1>6, <1>7

\* A batch with its covers pinned to a criterion still is a batch, and all of it traces.
LEMMA PinnedBatch ==
  ASSUME NEW batch \in Seq(Answers), NEW ac \in Criteria
  PROVE  LET pinned == [i \in DOMAIN batch |-> Pinned(batch[i], ac)]
         IN /\ pinned \in Seq(Answers)
            /\ Len(pinned) = Len(batch)
            /\ \A i \in 1 .. Len(pinned) : pinned[i].covers # {}
<1> DEFINE pinned == [i \in DOMAIN batch |-> Pinned(batch[i], ac)]
<1>1. Len(batch) \in Nat /\ DOMAIN batch = 1 .. Len(batch)
  BY LenProperties
<1>2. \A i \in 1 .. Len(batch) : batch[i] \in Answers
  BY ElementOfSeq
<1>3. \A i \in 1 .. Len(batch) : Pinned(batch[i], ac) \in Answers /\ Pinned(batch[i], ac).covers # {}
  <2> SUFFICES ASSUME NEW i \in 1 .. Len(batch)
               PROVE  Pinned(batch[i], ac) \in Answers /\ Pinned(batch[i], ac).covers # {}
    OBVIOUS
  <2>1. batch[i] \in Answers
    BY <1>2
  <2>2. IdOf(ac) \in Ids
    BY DEF IdOf, Ids, Criteria
  <2> QED
    BY <2>1, <2>2 DEF Pinned, Answers
<1>4. pinned \in [1 .. Len(batch) -> Answers]
  BY <1>1, <1>3
<1>5. pinned \in Seq(Answers)
  BY <1>1, <1>4, SeqDef
<1>6. Len(pinned) = Len(batch)
  <2>1. DOMAIN pinned = 1 .. Len(batch)
    BY <1>1
  <2>2. DOMAIN pinned = 1 .. Len(pinned) /\ Len(pinned) \in Nat
    BY <1>5, LenProperties
  <2> QED
    BY <1>1, <2>1, <2>2
<1>7. \A i \in 1 .. Len(pinned) : pinned[i].covers # {}
  BY <1>1, <1>3, <1>6
<1> QED
  BY <1>5, <1>6, <1>7

\* Comparing element by element is enough for a prefix.
LEMMA PrefixOf ==
  ASSUME NEW S, NEW s \in Seq(S), NEW t \in Seq(S), Len(s) <= Len(t),
         \A i \in 1 .. Len(s) : s[i] = t[i]
  PROVE  IsPrefix(s, t)
<1>1. Len(s) \in Nat /\ Len(t) \in Nat /\ Len(s) \in Int /\ 1 \in Int
  BY LenProperties
<1>2. \A i \in 1 .. Len(s) : s[i] \in S
  BY ElementOfSeq
<1>3. \A i \in 1 .. Len(s) : t[i] \in S
  BY <1>2
<1>4. /\ SubSeq(s, 1, Len(s)) \in Seq(S)
      /\ Len(SubSeq(s, 1, Len(s))) = IF 1 <= Len(s) THEN Len(s) - 1 + 1 ELSE 0
      /\ \A i \in 1 .. Len(s) - 1 + 1 : SubSeq(s, 1, Len(s))[i] = s[1 + i - 1]
  BY <1>1, <1>2, SubSeqProperties
<1>5. /\ SubSeq(t, 1, Len(s)) \in Seq(S)
      /\ Len(SubSeq(t, 1, Len(s))) = IF 1 <= Len(s) THEN Len(s) - 1 + 1 ELSE 0
      /\ \A i \in 1 .. Len(s) - 1 + 1 : SubSeq(t, 1, Len(s))[i] = t[1 + i - 1]
  BY <1>1, <1>3, SubSeqProperties
<1>6. \A i \in 1 .. Len(s) : 1 + i - 1 = i
  BY <1>1
<1>7. Len(s) - 1 + 1 = Len(s) /\ Len(SubSeq(s, 1, Len(s))) = Len(s)
  BY <1>1, <1>4
<1>8. \A i \in 1 .. Len(SubSeq(s, 1, Len(s))) : SubSeq(s, 1, Len(s))[i] = SubSeq(t, 1, Len(s))[i]
  BY <1>4, <1>5, <1>6, <1>7
<1>9. SubSeq(s, 1, Len(s)) = SubSeq(t, 1, Len(s))
  BY <1>4, <1>5, <1>8, SeqEqual
<1> QED
  BY <1>9 DEF IsPrefix

\* The batch under way is one of the batched criteria.
AcsInv ==
  /\ curated \in Seq(Criteria)
  /\ DOMAIN result = DOMAIN NoResult
  /\ result.acs \in Seq(Criteria)
  /\ next \in Nat \ {0}
  /\ at \in {"startBatch", "batch", "publish"} => next <= Len(Batched)

\* What a page sees are the first cases collected, numbered; every case collected
\* traces to a criterion; nothing is collected before the first batch.
RowsInv ==
  /\ cases \in Seq(Answers)
  /\ \A i \in 1 .. Len(cases) : cases[i].covers # {}
  /\ partial.cases = result.cases
  /\ result.cases \in Seq(Rows)
  /\ Len(result.cases) <= Len(cases)
  /\ \A i \in 1 .. Len(result.cases) : result.cases[i] = Row(cases, i)
  /\ at \in {"begin", "startAnalysis", "analysis"} => cases = <<>>

LEMMA BatchedCriteria ==
  ASSUME AcsInv
  PROVE  /\ Len(Batched) \in Nat
         /\ \A i \in 1 .. Len(Batched) : Batched[i] \in Criteria
<1> DEFINE n == IF Len(result.acs) > MaxACBatches THEN MaxACBatches ELSE Len(result.acs)
<1>1. Len(result.acs) \in Nat
  BY LenProperties DEF AcsInv
<1>2. 1 \in Int /\ n \in Int /\ n <= Len(result.acs)
  BY <1>1, PipelineAssumption
<1>3. \A i \in 1 .. Len(result.acs) : result.acs[i] \in Criteria
  BY ElementOfSeq DEF AcsInv
<1>4. \A i \in 1 .. n : result.acs[i] \in Criteria
  BY <1>1, <1>2, <1>3
<1> HIDE DEF n
<1>5. SubSeq(result.acs, 1, n) \in Seq(Criteria)
  BY <1>2, <1>4, SubSeqProperties
<1>6. Batched \in Seq(Criteria)
  BY <1>5 DEF Batched, n
<1> QED
  BY <1>6, ElementOfSeq, LenProperties

\* Steps that leave the results and the cases alone.
Silent ==
  \/ PlanFirst \/ StartStep \/ AnalysisFails \/ AppendBatch \/ BatchFails \/ AppendAux
  \/ AuxFails \/ AppendCoverage \/ ReturnError \/ Expire \/ UNCHANGED vars

\* Steps that fill other fields of the local result.
Enriches == AuxAnswers \/ ComputeCoverage

LEMMA StepAcsInv ==
  ASSUME AcsInv, [Next]_vars
  PROVE  AcsInv'
<1>1. CASE Silent
  <2>1. /\ curated' = curated /\ result' = result /\ (next' = next \/ next' = next + 1)
        /\ next' # next => at' = "batches"
    BY <1>1 DEF Silent, PlanFirst, StartStep, AnalysisFails, AppendBatch, BatchFails, AppendAux,
                AuxFails, AppendCoverage, ReturnError, Expire, vars, SettleStep
  <2>2. Batched' = Batched
    BY <2>1 DEF Batched
  <2>3. at' \in {"startBatch", "batch", "publish"} => next <= Len(Batched)
    BY <1>1 DEF Silent, PlanFirst, StartStep, AnalysisFails, AppendBatch, BatchFails, AppendAux,
                AuxFails, AppendCoverage, ReturnError, Expire, vars, SettleStep, AppendStep,
                AfterStart, AcsInv
  <2>4. next' \in Nat \ {0}
    BY <2>1 DEF AcsInv
  <2> QED
    BY <2>1, <2>2, <2>3, <2>4 DEF AcsInv
<1>2. CASE Enriches
  <2>1. /\ curated' = curated /\ next' = next /\ at' \notin {"startBatch", "batch", "publish"}
    BY <1>2 DEF Enriches, AuxAnswers, ComputeCoverage, SettleStep
  <2>2. DOMAIN result' = DOMAIN result /\ result'.acs = result.acs
    BY <1>2 DEF Enriches, AuxAnswers, ComputeCoverage, AcsInv, NoResult
  <2> QED
    BY <2>1, <2>2 DEF AcsInv
<1>3. CASE AnalysisAnswers
  <2>1. PICK list \in Analyses, said \in Assessments :
          LET acs == IF curated # <<>> THEN curated ELSE list
          IN result' = [NoResult EXCEPT
               !.acs = acs,
               !.ambiguities = said.ambiguities,
               !.health = ClampHealth(said.deductions),
               !.capped = IF Len(acs) > MaxACBatches THEN Len(acs) - MaxACBatches ELSE 0]
    BY <1>3 DEF AnalysisAnswers
  <2>2. result'.acs = IF curated # <<>> THEN curated ELSE list
    BY <2>1 DEF NoResult
  <2>3. DOMAIN result' = DOMAIN NoResult
    BY <2>1
  <2>4. result'.acs \in Seq(Criteria)
    BY <2>2, PipelineAssumption DEF AcsInv
  <2> QED
    BY <1>3, <2>3, <2>4 DEF AcsInv, AnalysisAnswers, SettleStep
<1>4. CASE BatchAnswers
  <2>1. curated' = curated /\ result' = result /\ next' = next /\ at = "batch"
    BY <1>4 DEF BatchAnswers, SettleStep
  <2>2. Batched' = Batched
    BY <2>1 DEF Batched
  <2> QED
    BY <2>1, <2>2 DEF AcsInv
<1>5. CASE PublishBatch
  <2>1. DOMAIN result' = DOMAIN result /\ result'.acs = result.acs
    BY <1>5 DEF PublishBatch, AcsInv, NoResult
  <2>2. curated' = curated /\ next' = next + 1 /\ at' = "batches"
    BY <1>5 DEF PublishBatch
  <2> QED
    BY <2>1, <2>2 DEF AcsInv
<1>6. CASE FinalSave
  BY <1>6 DEF FinalSave, AcsInv
<1> QED
  BY <1>1, <1>2, <1>3, <1>4, <1>5, <1>6 DEF Next, Run, Silent, Enriches

\* Every step keeps the rows shown and appends to them at most.
LEMMA StepRowsInv ==
  ASSUME AcsInv, RowsInv, [Next]_vars
  PROVE  RowsInv' /\ IsPrefix(partial.cases, partial'.cases)
<1>1. Len(result.cases) \in Nat /\ Len(cases) \in Nat
  BY LenProperties DEF RowsInv
<1>2. partial.cases = partial'.cases => IsPrefix(partial.cases, partial'.cases)
  BY <1>1, PrefixOf DEF RowsInv
<1>3. CASE Silent
  <2>1. cases' = cases /\ result' = result /\ partial' = partial
    BY <1>3 DEF Silent, PlanFirst, StartStep, AnalysisFails, AppendBatch, BatchFails, AppendAux,
                AuxFails, AppendCoverage, ReturnError, Expire, vars
  <2>2. at' \in {"begin", "startAnalysis", "analysis"} => at \in {"begin", "startAnalysis", "analysis"}
    BY <1>3 DEF Silent, PlanFirst, StartStep, AnalysisFails, AppendBatch, BatchFails, AppendAux,
                AuxFails, AppendCoverage, ReturnError, Expire, vars, SettleStep, AppendStep, AfterStart
  <2> QED
    BY <1>2, <2>1, <2>2 DEF RowsInv, Row
<1>4. CASE Enriches
  <2>1. cases' = cases /\ partial' = partial /\ at' \in {"closing", "finalSave"}
    BY <1>4 DEF Enriches, AuxAnswers, ComputeCoverage, SettleStep
  <2>2. result'.cases = result.cases
    BY <1>4 DEF Enriches, AuxAnswers, ComputeCoverage, AcsInv, NoResult
  <2> QED
    BY <1>2, <2>1, <2>2 DEF RowsInv, Row
<1>5. CASE AnalysisAnswers
  <2>1. cases' = cases /\ partial' = partial /\ at = "analysis" /\ at' = "batches"
    BY <1>5 DEF AnalysisAnswers, SettleStep
  <2>2. result'.cases = <<>>
    BY <1>5 DEF AnalysisAnswers, NoResult
  <2>3. cases = <<>> /\ Len(cases) = 0
    BY <2>1 DEF RowsInv
  <2>4. result.cases = <<>>
    BY <1>1, <2>3, EmptySeq DEF RowsInv
  <2> QED
    BY <1>2, <2>1, <2>2, <2>3, <2>4 DEF RowsInv, Row
<1>6. CASE BatchAnswers
  <2>1. result' = result /\ partial' = partial /\ at = "batch" /\ at' = "publish"
    BY <1>6 DEF BatchAnswers, SettleStep
  <2>2. PICK batch \in Batches :
          cases' = cases \o [i \in DOMAIN batch |-> Pinned(batch[i], Batched[next])]
    BY <1>6 DEF BatchAnswers
  <2>3. next \in 1 .. Len(Batched)
    BY <2>1, BatchedCriteria DEF AcsInv
  <2>4. Batched[next] \in Criteria /\ batch \in Seq(Answers)
    BY <2>3, BatchedCriteria, PipelineAssumption
  <2>5. PICK pinned : pinned = [i \in DOMAIN batch |-> Pinned(batch[i], Batched[next])]
    OBVIOUS
  <2>6. pinned \in Seq(Answers) /\ \A i \in 1 .. Len(pinned) : pinned[i].covers # {}
    BY <2>4, <2>5, PinnedBatch
  <2>7. Len(pinned) \in Nat
    BY <2>6, LenProperties
  <2>8. /\ cases' \in Seq(Answers)
        /\ Len(cases') = Len(cases) + Len(pinned)
        /\ \A i \in 1 .. Len(cases) + Len(pinned) :
             cases'[i] = IF i <= Len(cases) THEN cases[i] ELSE pinned[i - Len(cases)]
    BY <2>2, <2>5, <2>6, ConcatProperties DEF RowsInv
  <2>9. \A i \in 1 .. Len(cases') : cases'[i].covers # {}
    <3> SUFFICES ASSUME NEW i \in 1 .. Len(cases) + Len(pinned)
                 PROVE  cases'[i].covers # {}
      BY <2>8
    <3>1. CASE i <= Len(cases)
      <4>1. i \in 1 .. Len(cases)
        BY <1>1, <2>7, <3>1
      <4> QED
        BY <2>8, <3>1, <4>1 DEF RowsInv
    <3>2. CASE ~(i <= Len(cases))
      <4>1. i - Len(cases) \in 1 .. Len(pinned)
        BY <1>1, <2>7, <3>2
      <4> QED
        BY <2>6, <2>8, <3>2, <4>1
    <3> QED
      BY <3>1, <3>2
  <2>10. Len(result.cases) <= Len(cases')
    BY <1>1, <2>7, <2>8 DEF RowsInv
  <2>11. \A i \in 1 .. Len(result.cases) : cases'[i] = cases[i]
    <3> SUFFICES ASSUME NEW i \in 1 .. Len(result.cases)
                 PROVE  cases'[i] = cases[i]
      OBVIOUS
    <3>1. i <= Len(cases) /\ i \in 1 .. Len(cases) + Len(pinned)
      BY <1>1, <2>7 DEF RowsInv
    <3> QED
      BY <2>8, <3>1
  <2> QED
    BY <1>2, <2>1, <2>8, <2>9, <2>10, <2>11 DEF RowsInv, Row
<1>7. CASE PublishBatch
  <2>1. result'.cases = Renumber(cases) /\ partial' = result' /\ cases' = cases /\ at' = "batches"
    BY <1>7 DEF PublishBatch, Publish, AcsInv, NoResult
  <2>2. /\ Renumber(cases) \in Seq(Rows)
        /\ Len(Renumber(cases)) = Len(cases)
        /\ \A i \in 1 .. Len(cases) : Renumber(cases)[i] = Row(cases, i)
    BY RenumberRows DEF RowsInv
  <2>3. RowsInv'
    BY <1>1, <2>1, <2>2 DEF RowsInv, Row
  <2>4. \A i \in 1 .. Len(result.cases) : result.cases[i] = Renumber(cases)[i]
    BY <1>1, <2>2 DEF RowsInv
  <2>5. IsPrefix(result.cases, Renumber(cases))
    BY <2>2, <2>4, PrefixOf DEF RowsInv
  <2> QED
    BY <2>1, <2>3, <2>5 DEF RowsInv
<1>8. CASE FinalSave
  BY <1>2, <1>8 DEF FinalSave, Publish, RowsInv, Row
<1> QED
  BY <1>3, <1>4, <1>5, <1>6, <1>7, <1>8 DEF Next, Run, Silent, Enriches

THEOREM RowsInvariance == Spec => [](AcsInv /\ RowsInv)
<1>1. Init => AcsInv
  <2>1. <<>> \in Seq(Criteria) /\ NoResult.acs = <<>>
    BY EmptySeq DEF NoResult
  <2> SUFFICES ASSUME Init PROVE AcsInv
    OBVIOUS
  <2>2. result.acs \in Seq(Criteria) /\ DOMAIN result = DOMAIN NoResult
    BY <2>1 DEF Init
  <2>3. curated \in Seq(Criteria)
    BY PipelineAssumption DEF Init
  <2>4. next \in Nat \ {0} /\ at \notin {"startBatch", "batch", "publish"}
    BY DEF Init
  <2> QED
    BY <2>2, <2>3, <2>4 DEF AcsInv
<1>2. Init => RowsInv
  <2>1. <<>> \in Seq(Answers) /\ <<>> \in Seq(Rows) /\ Len(<<>>) = 0
    BY EmptySeq
  <2> QED
    BY <2>1 DEF Init, RowsInv, NoResult
<1>3. AcsInv /\ RowsInv /\ [Next]_vars => AcsInv' /\ RowsInv'
  BY StepAcsInv, StepRowsInv
<1> QED
  BY <1>1, <1>2, <1>3, PTL DEF Spec

\* Rows a page has rendered stay where and what they are, in every later save of
\* the same generation.
THEOREM RowsAreStable == Spec => RowsOnlyGrow
<1>1. AcsInv /\ RowsInv /\ [Next]_vars => [IsPrefix(partial.cases, partial'.cases)]_vars
  BY StepRowsInv
<1> QED
  BY <1>1, RowsInvariance, PTL DEF Spec, RowsOnlyGrow

\* Every row, in the work in progress as in the result, carries the number of its
\* place and traces to a criterion.
THEOREM RowsTrace == Spec => []RowsTraced
<1>1. RowsInv => RowsTraced
  <2> SUFFICES ASSUME RowsInv, NEW i \in DOMAIN result.cases
               PROVE  result.cases[i].no = i /\ result.cases[i].covers # {}
    BY DEF RowsTraced, RowsInv
  <2>1. /\ DOMAIN result.cases = 1 .. Len(result.cases)
        /\ Len(result.cases) \in Nat /\ Len(cases) \in Nat
    BY LenProperties DEF RowsInv
  <2>2. i \in 1 .. Len(result.cases) /\ i \in 1 .. Len(cases)
    BY <2>1 DEF RowsInv
  <2>3. result.cases[i] = Row(cases, i) /\ cases[i].covers # {}
    BY <2>2 DEF RowsInv
  <2> QED
    BY <2>3 DEF Row
<1> QED
  BY <1>1, RowsInvariance, PTL

-----------------------------------------------------------------------------
(* What the exports say of a row's severity. *)

\* Every severity, in whatever words, has one of five ranks.
LEMMA RankBounds == ASSUME NEW s PROVE SevRank(s) \in Int /\ -1 <= SevRank(s) /\ SevRank(s) <= 3
<1>1. \A word \in DOMAIN Ranks : Ranks[word] \in {0, 1, 2, 3}
  BY DEF Ranks
<1>2. SevRank(s) \in {-1, 0, 1, 2, 3}
  BY <1>1 DEF SevRank
<1> QED
  BY <1>2

\* Some criterion a case names has the highest rank.
LEMMA HighestRanked ==
  ASSUME NEW acs, NEW tc, Ranked(acs, tc) # {}
  PROVE  \E ac \in Ranked(acs, tc) :
           \A other \in Ranked(acs, tc) : SevRank(other.severity) <= SevRank(ac.severity)
<1> DEFINE Rank(n) == \E ac \in Ranked(acs, tc) : SevRank(ac.severity) = n
<1>1. \A ac \in Ranked(acs, tc) :
        /\ SevRank(ac.severity) \in Int
        /\ 0 <= SevRank(ac.severity) /\ SevRank(ac.severity) <= 3
  BY RankBounds DEF Ranked
<1>2. Rank(0) \/ Rank(1) \/ Rank(2) \/ Rank(3)
  BY <1>1
<1>3. CASE Rank(3)
  BY <1>1, <1>3
<1>4. CASE Rank(2) /\ ~Rank(3)
  BY <1>1, <1>4
<1>5. CASE Rank(1) /\ ~Rank(2) /\ ~Rank(3)
  BY <1>1, <1>5
<1>6. CASE Rank(0) /\ ~Rank(1) /\ ~Rank(2) /\ ~Rank(3)
  BY <1>1, <1>6
<1> QED
  BY <1>2, <1>3, <1>4, <1>5, <1>6

\* A case is not less severe than a criterion it names, if only that one has the id.
LEMMA SeverityAtLeast ==
  ASSUME NEW acs \in Seq(Criteria), NEW tc, NEW k \in DOMAIN acs,
         IdOf(acs[k]) \in tc.covers,
         \A m \in DOMAIN acs : IdOf(acs[m]) = IdOf(acs[k]) => m = k
  PROVE  SevRank(acs[k].severity) <= SevRank(SeverityForTC(acs, tc))
<1> DEFINE id == IdOf(acs[k])
<1>1. k \in Nat
  BY LenProperties
<1>2. CASE SevRank(acs[k].severity) < 0
  <2>1. /\ SevRank(acs[k].severity) \in Int /\ SevRank(SeverityForTC(acs, tc)) \in Int
        /\ -1 <= SevRank(acs[k].severity) /\ -1 <= SevRank(SeverityForTC(acs, tc))
    BY RankBounds
  <2> QED
    BY <1>2, <2>1
<1>3. CASE 0 <= SevRank(acs[k].severity)
  <2>1. AcById(acs, id) = acs[k]
    <3> DEFINE Latest(n) == n \in DOMAIN acs /\ IdOf(acs[n]) = id
                            /\ \A m \in DOMAIN acs : IdOf(acs[m]) = id => m <= n
    <3>1. Latest(k)
      BY <1>1
    <3>2. \A n : Latest(n) => n = k
      OBVIOUS
    <3> QED
      BY <3>1, <3>2 DEF AcById
  <2>2. acs[k] \in Ranked(acs, tc)
    BY <1>3, <2>1 DEF Ranked
  <2>3. \E ac \in Ranked(acs, tc) :
          /\ SeverityForTC(acs, tc) = ac.severity
          /\ \A other \in Ranked(acs, tc) : SevRank(other.severity) <= SevRank(ac.severity)
    BY <2>2, HighestRanked DEF SeverityForTC
  <2> QED
    BY <2>2, <2>3
<1>4. SevRank(acs[k].severity) \in Int
  BY RankBounds
<1> QED
  BY <1>2, <1>3, <1>4

\* No exported row understates the criteria it is listed under (common.go:77-90), for any
\* criteria and cases, as far as ids are written alike.
THEOREM SeveritiesFollow == Spec => []SeverityFollowsCriteria
<1>1. AcsInv /\ RowsInv => SeverityFollowsCriteria
  <2> SUFFICES ASSUME AcsInv, RowsInv,
                      NEW k \in DOMAIN RTMRows(result.acs, result.cases),
                      NEW i \in DOMAIN QARepositoryRows(result.acs, result.cases),
                      result.cases[i].marks.severity = "",
                      IdOf(result.acs[k]) \in QARepositoryRows(result.acs, result.cases)[i].covers,
                      \A m \in DOMAIN RTMRows(result.acs, result.cases) :
                        IdOf(result.acs[m]) = IdOf(result.acs[k]) => m = k
               PROVE  SevRank(QARepositoryRows(result.acs, result.cases)[i].severity)
                        >= SevRank(result.acs[k].severity)
    BY DEF SeverityFollowsCriteria
  <2>1. /\ DOMAIN RTMRows(result.acs, result.cases) = DOMAIN result.acs
        /\ DOMAIN QARepositoryRows(result.acs, result.cases) = DOMAIN result.cases
    BY DEF RTMRows, QARepositoryRows
  <2>2. /\ QARepositoryRows(result.acs, result.cases)[i].covers = result.cases[i].covers
        /\ QARepositoryRows(result.acs, result.cases)[i].severity
             = SeverityForTC(result.acs, result.cases[i])
    BY <2>1 DEF QARepositoryRows, Fallback
  <2>3. SevRank(result.acs[k].severity) <= SevRank(SeverityForTC(result.acs, result.cases[i]))
    BY <2>1, <2>2, SeverityAtLeast DEF AcsInv
  <2>4. /\ SevRank(result.acs[k].severity) \in Int
        /\ SevRank(SeverityForTC(result.acs, result.cases[i])) \in Int
    BY RankBounds
  <2> QED
    BY <2>2, <2>3, <2>4
<1> QED
  BY <1>1, RowsInvariance, PTL

-----------------------------------------------------------------------------
(* When a generation fails. *)

\* A batch shown as done left a case, and a run about to fail failed its analysis.
FailInv ==
  /\ at \in {"startAnalysis", "analysis"} => Len(plan) = 1
  /\ at = "failing" => plan[1] = "failed"
  /\ at \in {"publish", "startAux", "aux", "closing", "startCoverage", "coverage", "finalSave"}
       => cases # <<>>
  /\ \A i \in DOMAIN plan : i # 1 /\ plan[i] = "done" => cases # <<>>
  /\ FailsOnlyEmpty

\* In the states where Run can still return an error because nothing was generated,
\* no batch is done.
LEMMA NoCasesNoBatch ==
  ASSUME \A i \in DOMAIN plan : i # 1 /\ plan[i] = "done" => cases # <<>>, cases = <<>>
  PROVE  BatchSteps("done") = {}
<1>1. \A i \in StepsIn(plan, "done") : i = 1
  BY DEF StepsIn
<1> QED
  BY <1>1 DEF BatchSteps

LEMMA StepFailInv ==
  ASSUME PlanInv, AcsInv, RowsInv, FailInv, [Next]_vars
  PROVE  FailInv'
<1> USE DEF FailInv
<1>1. CASE PlanFirst
  <2>1. plan' = <<"pending">> /\ at' = "startAnalysis"
    BY <1>1, FirstShape DEF PlanFirst
  <2> QED
    BY <2>1 DEF FailsOnlyEmpty
<1>2. CASE StartStep
  <2>1. /\ Shape(plan, {"pending"}) /\ plan' = SetStep(plan, Len(plan), "running")
        /\ cases' = cases
    BY <1>2 DEF PlanInv, StartStep, LastAt, AfterStart
  <2>2. /\ Len(plan') = Len(plan) /\ DOMAIN plan' = DOMAIN plan
        /\ \A i \in DOMAIN plan : plan'[i] = IF i = Len(plan) THEN "running" ELSE plan[i]
    BY <2>1, SetLastShape DEF StepStates
  <2>3. /\ at' \in {"analysis", "batch", "aux", "coverage"}
        /\ at' = "analysis" => at = "startAnalysis"
        /\ at' = "aux" => at = "startAux"
        /\ at' = "coverage" => at = "startCoverage"
    BY <1>2 DEF StartStep, AfterStart
  <2>4. \A i \in DOMAIN plan' : plan'[i] = "done" => i \in DOMAIN plan /\ plan[i] = "done"
    BY <2>2
  <2> QED
    BY <2>1, <2>2, <2>3, <2>4 DEF FailsOnlyEmpty
<1>3. CASE AppendBatch \/ AppendAux \/ AppendCoverage
  <2>1. /\ plan' = Appended(plan) /\ cases' = cases
        /\ at' \in {"startBatch", "startAux", "startCoverage"}
        /\ at' # "startBatch" => cases # <<>>
    BY <1>3 DEF AppendBatch, AppendAux, AppendCoverage, AppendStep
  <2>2. Shape(plan, Settled)
    BY <1>3 DEF AppendBatch, AppendAux, AppendCoverage, AppendStep, PlanInv, LastAt, AfterStart, InStage
  <2>3. \A i \in DOMAIN plan' : plan'[i] = "done" => i \in DOMAIN plan /\ plan[i] = "done"
    BY <2>1, <2>2, AppendShape
  <2> QED
    BY <2>1, <2>3 DEF FailsOnlyEmpty
<1>4. CASE AnalysisFails \/ BatchFails \/ AuxFails
  <2>1. /\ plan' = SetStep(plan, Len(plan), "failed") /\ cases' = cases
        /\ at' \in {"failing", "batches", "closing"}
        /\ at' = "failing" => at = "analysis"
        /\ at' = "closing" => at = "aux"
    BY <1>4 DEF AnalysisFails, BatchFails, AuxFails, SettleStep
  <2>2. Shape(plan, {"running"})
    BY <1>4 DEF AnalysisFails, BatchFails, AuxFails, SettleStep, PlanInv, LastAt, AfterStart, InStage
  <2>3. /\ Len(plan) \in DOMAIN plan /\ DOMAIN plan' = DOMAIN plan
        /\ \A i \in DOMAIN plan : plan'[i] = IF i = Len(plan) THEN "failed" ELSE plan[i]
    BY <2>1, <2>2, SetLastShape DEF StepStates
  <2> QED
    BY <2>1, <2>3 DEF FailsOnlyEmpty
<1>5. CASE AnalysisAnswers
  <2>1. /\ plan' = SetStep(plan, Len(plan), "done") /\ cases' = cases
        /\ at = "analysis" /\ at' = "batches"
    BY <1>5 DEF AnalysisAnswers, SettleStep
  <2>2. Shape(plan, {"running"}) /\ Len(plan) = 1
    BY <2>1 DEF PlanInv, LastAt, AfterStart, InStage
  <2>3. DOMAIN plan' = 1 .. 1
    BY <2>1, <2>2, SetLastShape DEF StepStates
  <2> QED
    BY <2>1, <2>3 DEF FailsOnlyEmpty
<1>6. CASE BatchAnswers
  <2>1. at' = "publish"
    BY <1>6 DEF BatchAnswers, SettleStep
  <2>2. cases' # <<>>
    <3>1. PICK batch \in Batches :
            cases' = cases \o [i \in DOMAIN batch |-> Pinned(batch[i], Batched[next])]
      BY <1>6 DEF BatchAnswers
    <3>2. batch \in Seq(Answers) /\ batch # <<>>
      BY PipelineAssumption
    <3>3. next \in 1 .. Len(Batched)
      BY <1>6, BatchedCriteria DEF AcsInv, BatchAnswers, SettleStep
    <3>4. Batched[next] \in Criteria
      BY <3>3, BatchedCriteria
    <3>5. PICK pinned : pinned = [i \in DOMAIN batch |-> Pinned(batch[i], Batched[next])]
      OBVIOUS
    <3>6. pinned \in Seq(Answers) /\ Len(pinned) = Len(batch)
      BY <3>2, <3>4, <3>5, PinnedBatch
    <3>7. pinned # <<>>
      <4>1. Len(batch) # 0 /\ Len(<<>>) = 0
        BY <3>2, EmptySeq
      <4> QED
        BY <3>6, <4>1
    <3> QED
      BY <3>1, <3>5, <3>6, <3>7, ConcatEqualIffEmpty DEF RowsInv
  <2> QED
    BY <2>1, <2>2 DEF FailsOnlyEmpty
<1>7. CASE Enriches
  <2>1. /\ cases' = cases /\ at \in {"aux", "coverage"} /\ at' \in {"closing", "finalSave"}
    BY <1>7 DEF Enriches, AuxAnswers, ComputeCoverage, SettleStep
  <2> QED
    BY <2>1 DEF FailsOnlyEmpty
<1>8. CASE PublishBatch \/ FinalSave \/ Expire \/ UNCHANGED vars
  <2>1. plan' = plan /\ cases' = cases /\ (at' = at \/ at' \in {"batches", "returned"})
    BY <1>8 DEF PublishBatch, FinalSave, Expire, vars
  <2>2. at' = "erred" => next' = next
    BY <1>8 DEF PublishBatch, FinalSave, Expire, vars
  <2> QED
    BY <2>1, <2>2 DEF FailsOnlyEmpty, BatchSteps
<1>9. CASE ReturnError
  <2>1. plan' = plan /\ cases' = cases /\ next' = next /\ at' = "erred"
    BY <1>9 DEF ReturnError
  <2>2. CASE at = "failing"
    BY <2>1, <2>2 DEF FailsOnlyEmpty
  <2>3. CASE cases = <<>>
    <3>1. BatchSteps("done") = {}
      BY <2>3, NoCasesNoBatch
    <3> QED
      BY <2>1, <3>1 DEF FailsOnlyEmpty, BatchSteps
  <2> QED
    BY <1>9, <2>2, <2>3 DEF ReturnError
<1> QED
  BY <1>1, <1>2, <1>3, <1>4, <1>5, <1>6, <1>7, <1>8, <1>9 DEF Next, Run, Enriches

\* A generation fails only when its analysis failed or not one batch was answered:
\* no failing batch, no failing aux stage and no deadline loses cases already made.
THEOREM FailsOnlyWhenEmpty == Spec => []FailsOnlyEmpty
<1>1. Init => FailInv
  BY DEF Init, FailInv, FailsOnlyEmpty
<1>2. PlanInv /\ AcsInv /\ RowsInv /\ FailInv /\ [Next]_vars => FailInv'
  BY StepFailInv
<1>3. FailInv => FailsOnlyEmpty
  BY DEF FailInv
<1> QED
  BY <1>1, <1>2, <1>3, PlanInvariance, RowsInvariance, PTL DEF Spec

-----------------------------------------------------------------------------
(* No criterion is dropped without a word. *)

\* Run has taken over what the analysis said.
Analysed == at \notin {"begin", "startAnalysis", "analysis", "failing", "erred"}

\* The steps after the first are the batches begun so far, then aux and coverage; the
\* criteria that have no batch are counted.
CountInv ==
  /\ next \in Nat \ {0}
  /\ at \in {"startAnalysis", "analysis"} => Len(plan) = 1
  /\ at \in {"begin", "startAnalysis", "analysis"} => next = 1
  /\ at = "batches" => Len(plan) = next
  /\ at \in {"startBatch", "batch", "publish"} => Len(plan) = next + 1
  /\ at \in {"batches", "startBatch", "batch", "publish"} => next <= Len(Batched) + 1
  /\ at \in {"startAux", "aux", "closing"} => Len(plan) = next + 1
  /\ at \in {"startCoverage", "coverage", "finalSave", "returned"} => Len(plan) = next + 2
  /\ at \in {"startAux", "aux", "closing", "startCoverage", "coverage", "finalSave", "returned"}
       => next = Len(Batched) + 1
  /\ Analysed =>
       /\ Len(result.acs) = Len(Batched) + result.capped
       /\ curated # <<>> => result.acs = curated

\* As many criteria have a batch as there are, or as the cap allows.
LEMMA BatchedLength ==
  ASSUME NEW acs \in Seq(Criteria)
  PROVE  LET n == IF Len(acs) > MaxACBatches THEN MaxACBatches ELSE Len(acs)
         IN Len(acs) \in Nat /\ n \in Nat /\ Len(SubSeq(acs, 1, n)) = n
<1> DEFINE n == IF Len(acs) > MaxACBatches THEN MaxACBatches ELSE Len(acs)
<1>1. Len(acs) \in Nat
  BY LenProperties
<1>2. 1 \in Int /\ n \in Nat /\ n <= Len(acs)
  BY <1>1, PipelineAssumption
<1>3. \A i \in 1 .. Len(acs) : acs[i] \in Criteria
  BY ElementOfSeq
<1>4. \A i \in 1 .. n : acs[i] \in Criteria
  BY <1>1, <1>2, <1>3
<1> HIDE DEF n
<1>5. Len(SubSeq(acs, 1, n)) = IF 1 <= n THEN n - 1 + 1 ELSE 0
  BY <1>2, <1>4, SubSeqProperties
<1>6. Len(SubSeq(acs, 1, n)) = n
  BY <1>2, <1>5
<1> QED
  BY <1>1, <1>2, <1>6 DEF n

\* A step added, and a step begun or settled.
LEMMA PlanLengths ==
  ASSUME PlanInv, [Next]_vars
  PROVE  /\ PlanStep => Len(plan') = 1
         /\ SomeAppend => Len(plan') = Len(plan) + 1
         /\ SomeSettle \/ StartStep => Len(plan') = Len(plan)
<1> USE DEF AfterStart, InStage, LastAt
<1>1. PlanStep => Len(plan') = 1
  BY FirstShape DEF PlanStep
<1>2. SomeAppend => Len(plan') = Len(plan) + 1
  BY AppendProperties DEF PlanInv, Shape, SomeAppend, AppendStep, Appended, StepStates
<1>3. ASSUME SomeSettle PROVE Len(plan') = Len(plan)
  <2>1. PICK s \in Settled : plan' = SetStep(plan, Len(plan), s)
    BY <1>3 DEF SomeSettle, SettleStep
  <2>2. Shape(plan, {"running"})
    BY <1>3 DEF PlanInv, SomeSettle, SettleStep
  <2> QED
    BY <2>1, <2>2, SetLastShape DEF StepStates, Settled
<1>4. ASSUME StartStep PROVE Len(plan') = Len(plan)
  <2>1. Shape(plan, {"pending"}) /\ plan' = SetStep(plan, Len(plan), "running")
    BY <1>4 DEF PlanInv, StartStep
  <2> QED
    BY <2>1, SetLastShape DEF StepStates
<1> QED
  BY <1>1, <1>2, <1>3, <1>4

LEMMA StepCountInv ==
  ASSUME PlanInv, AcsInv, CountInv, [Next]_vars
  PROVE  CountInv'
<1> USE DEF CountInv, Analysed
<1>1. Len(Batched) \in Nat
  BY BatchedCriteria
<1>2. CASE PlanFirst
  BY <1>2, PlanLengths DEF PlanFirst, PlanStep, Batched
<1>3. CASE StartStep
  <2>1. Len(plan') = Len(plan) /\ UNCHANGED <<curated, next, result>> /\ Batched' = Batched
    BY <1>3, PlanLengths DEF StartStep, Batched
  <2>2. \/ at = "startAnalysis" /\ at' = "analysis"
        \/ at = "startBatch" /\ at' = "batch"
        \/ at = "startAux" /\ at' = "aux"
        \/ at = "startCoverage" /\ at' = "coverage"
    BY <1>3 DEF StartStep, AfterStart
  <2> QED
    BY <2>1, <2>2
<1>4. CASE AppendBatch
  <2>1. SomeAppend
    BY <1>4 DEF AppendBatch, SomeAppend
  <2>2. /\ at = "batches" /\ at' = "startBatch" /\ next <= Len(Batched)
        /\ UNCHANGED <<curated, next, result>> /\ Batched' = Batched
    BY <1>4 DEF AppendBatch, AppendStep, Batched
  <2> QED
    BY <1>1, <2>1, <2>2, PlanLengths
<1>5. CASE AppendAux
  <2>1. SomeAppend
    BY <1>5 DEF AppendAux, SomeAppend
  <2>2. /\ at = "batches" /\ at' = "startAux" /\ next > Len(Batched)
        /\ UNCHANGED <<curated, next, result>> /\ Batched' = Batched
    BY <1>5 DEF AppendAux, AppendStep, Batched
  <2> QED
    BY <1>1, <2>1, <2>2, PlanLengths
<1>6. CASE AppendCoverage
  <2>1. SomeAppend
    BY <1>6 DEF AppendCoverage, SomeAppend
  <2>2. /\ at = "closing" /\ at' = "startCoverage"
        /\ UNCHANGED <<curated, next, result>> /\ Batched' = Batched
    BY <1>6 DEF AppendCoverage, AppendStep, Batched
  <2> QED
    BY <2>1, <2>2, PlanLengths
<1>7. CASE AnalysisFails
  BY <1>7 DEF AnalysisFails, SettleStep
<1>8. CASE AnalysisAnswers
  <2>1. SomeSettle
    BY <1>8 DEF AnalysisAnswers, SomeSettle, InStage, Settled
  <2>2. at = "analysis" /\ at' = "batches" /\ next' = next /\ curated' = curated
    BY <1>8 DEF AnalysisAnswers, SettleStep
  <2>3. PICK list \in Analyses, said \in Assessments :
          LET acs == IF curated # <<>> THEN curated ELSE list
          IN result' = [NoResult EXCEPT
               !.acs = acs,
               !.ambiguities = said.ambiguities,
               !.health = ClampHealth(said.deductions),
               !.capped = IF Len(acs) > MaxACBatches THEN Len(acs) - MaxACBatches ELSE 0]
    BY <1>8 DEF AnalysisAnswers
  <2>4. /\ result'.acs = IF curated # <<>> THEN curated ELSE list
        /\ result'.capped = IF Len(result'.acs) > MaxACBatches THEN Len(result'.acs) - MaxACBatches ELSE 0
    BY <2>3 DEF NoResult
  <2>5. result'.acs \in Seq(Criteria)
    BY StepAcsInv DEF AcsInv
  <2>6. /\ Len(result'.acs) \in Nat
        /\ Len(Batched') \in Nat
        /\ Len(Batched') = IF Len(result'.acs) > MaxACBatches THEN MaxACBatches ELSE Len(result'.acs)
    BY <2>5, BatchedLength DEF Batched
  <2>7. Len(result'.acs) = Len(Batched') + result'.capped
    BY <2>4, <2>6, PipelineAssumption
  <2>8. Len(plan') = 1 /\ next' = 1 /\ next' <= Len(Batched') + 1
    <3>1. Len(plan) = 1 /\ next = 1
      BY <2>2
    <3>2. Len(plan') = Len(plan)
      BY <2>1, PlanLengths
    <3>3. 1 <= Len(Batched') + 1
      BY <2>6
    <3> QED
      BY <2>2, <3>1, <3>2, <3>3
  <2>9. curated' # <<>> => result'.acs = curated'
    BY <2>2, <2>4
  <2> QED
    BY <2>2, <2>7, <2>8, <2>9
<1>9. CASE BatchFails
  <2>1. SomeSettle
    BY <1>9 DEF BatchFails, SomeSettle, InStage, Settled
  <2>2. /\ at = "batch" /\ at' = "batches" /\ next' = next + 1
        /\ UNCHANGED <<curated, result>> /\ Batched' = Batched
    BY <1>9 DEF BatchFails, SettleStep, Batched
  <2>3. next <= Len(Batched)
    BY <2>2 DEF AcsInv
  <2> QED
    BY <1>1, <2>1, <2>2, <2>3, PlanLengths
<1>10. CASE BatchAnswers
  <2>1. SomeSettle
    BY <1>10 DEF BatchAnswers, SomeSettle, InStage, Settled
  <2>2. /\ at = "batch" /\ at' = "publish"
        /\ UNCHANGED <<curated, next, result>> /\ Batched' = Batched
    BY <1>10 DEF BatchAnswers, SettleStep, Batched
  <2> QED
    BY <2>1, <2>2, PlanLengths
<1>11. CASE PublishBatch
  <2>1. /\ at = "publish" /\ at' = "batches" /\ next' = next + 1
        /\ UNCHANGED <<plan, curated>>
        /\ result'.acs = result.acs /\ result'.capped = result.capped
    BY <1>11 DEF PublishBatch, AcsInv, NoResult
  <2>2. Batched' = Batched
    BY <2>1 DEF Batched
  <2>3. next <= Len(Batched)
    BY <2>1 DEF AcsInv
  <2> QED
    BY <1>1, <2>1, <2>2, <2>3
<1>12. CASE AuxFails
  <2>1. SomeSettle
    BY <1>12 DEF AuxFails, SomeSettle, InStage, Settled
  <2>2. /\ at = "aux" /\ at' = "closing"
        /\ UNCHANGED <<curated, next, result>> /\ Batched' = Batched
    BY <1>12 DEF AuxFails, SettleStep, Batched
  <2> QED
    BY <2>1, <2>2, PlanLengths
<1>13. CASE Enriches
  <2>1. SomeSettle
    BY <1>13 DEF Enriches, AuxAnswers, ComputeCoverage, SomeSettle, InStage, Settled
  <2>2. /\ (at = "aux" /\ at' = "closing") \/ (at = "coverage" /\ at' = "finalSave")
        /\ UNCHANGED <<curated, next>>
        /\ result'.acs = result.acs /\ result'.capped = result.capped
    BY <1>13 DEF Enriches, AuxAnswers, ComputeCoverage, SettleStep, AcsInv, NoResult
  <2>3. Batched' = Batched
    BY <2>2 DEF Batched
  <2> QED
    BY <2>1, <2>2, <2>3, PlanLengths
<1>14. CASE ReturnError
  BY <1>14 DEF ReturnError
<1>15. CASE FinalSave \/ Expire \/ UNCHANGED vars
  <2>1. UNCHANGED <<plan, curated, next, result>> /\ Batched' = Batched
    BY <1>15 DEF FinalSave, Expire, vars, Batched
  <2>2. at' = at \/ (at = "finalSave" /\ at' = "returned")
    BY <1>15 DEF FinalSave, Expire, vars
  <2> QED
    BY <2>1, <2>2
<1> QED
  BY <1>2, <1>3, <1>4, <1>5, <1>6, <1>7, <1>8, <1>9, <1>10, <1>11, <1>12, <1>13, <1>14, <1>15
     DEF Next, Run, Enriches

\* When Run has returned, the steps 2 to next are the batches, one for each criterion up to
\* the cap, and each of them shows how it ended.
LEMMA BatchesShown ==
  ASSUME PlanInv, AcsInv, CountInv, at = "returned"
  PROVE  Cardinality(BatchSteps("done")) + Cardinality(BatchSteps("failed")) = Len(Batched)
<1> DEFINE Done == BatchSteps("done")
           Fails == BatchSteps("failed")
<1>1. Shape(plan, Settled) /\ Len(plan) = next + 2 /\ next = Len(Batched) + 1 /\ next \in Nat \ {0}
  BY DEF PlanInv, CountInv, LastAt, AfterStart, InStage
<1>2. DOMAIN plan = 1 .. next + 2
  BY <1>1, LenProperties DEF Shape
<1>3. \A i \in 2 .. next : i \in DOMAIN plan /\ plan[i] \in {"done", "failed"}
  BY <1>1, <1>2 DEF Shape, Settled
<1>4. Done \cup Fails = 2 .. next /\ Done \cap Fails = {}
  BY <1>1, <1>2, <1>3 DEF BatchSteps, StepsIn
<1> HIDE DEF Done, Fails
<1>5. IsFiniteSet(2 .. next) /\ Cardinality(2 .. next) = next - 1
  <2>1. 2 \in Int /\ next \in Int
    BY <1>1
  <2>2. IsFiniteSet(2 .. next) /\ Cardinality(2 .. next) = IF 2 > next THEN 0 ELSE next - 2 + 1
    BY <2>1, FS_Interval
  <2> QED
    BY <1>1, <2>2
<1>6. IsFiniteSet(Done) /\ IsFiniteSet(Fails)
  BY <1>4, <1>5, FS_Subset
<1>7. Cardinality(Done) \in Nat /\ Cardinality(Fails) \in Nat
  BY <1>6, FS_CardinalityType
<1>8. Cardinality(Done \cup Fails) = Cardinality(Done) + Cardinality(Fails) - Cardinality(Done \cap Fails)
  BY <1>6, FS_Union
<1>9. Cardinality(Done \cap Fails) = 0
  BY <1>4, FS_EmptySet
<1>10. Cardinality(Done \cup Fails) = next - 1
  BY <1>4, <1>5
<1>11. Cardinality(Done) + Cardinality(Fails) = next - 1
  BY <1>7, <1>8, <1>9, <1>10
<1> QED
  BY <1>1, <1>11, BatchedCriteria DEF Done, Fails

\* Every criterion of a finished generation had a batch that was answered, a batch shown as
\* failed, or is counted as capped, whatever failed and expired on the way
\* (orchestrator.go:19-21).
THEOREM NothingIsTruncated == Spec => []NoSilentTruncation
<1>1. Init => CountInv
  BY DEF Init, CountInv, Analysed
<1>2. PlanInv /\ AcsInv /\ CountInv /\ [Next]_vars => CountInv'
  BY StepCountInv
<1>3. PlanInv /\ AcsInv /\ CountInv => NoSilentTruncation
  BY BatchesShown DEF CountInv, Analysed, NoSilentTruncation
<1> QED
  BY <1>1, <1>2, <1>3, PlanInvariance, RowsInvariance, PTL DEF Spec

-----------------------------------------------------------------------------
(* Deductions and scores. *)

Reasons   == {"uncovered", "no negative", "no edge", "only positive", "ambiguity"}
Penalties == [points : Int, reason : Reasons]

\* One conditional deduction.
LEMMA OneDeduction ==
  ASSUME NEW cond, NEW points \in Int, NEW reason \in Reasons
  PROVE  /\ DeductIf(cond, points, reason) \in Seq(Penalties)
         /\ \A x : Has(DeductIf(cond, points, reason), x) <=> cond /\ x = Deduct(points, reason)
<1>1. Deduct(points, reason) \in Penalties
  BY DEF Deduct, Penalties
<1>2. CASE cond
  <2>1. DeductIf(cond, points, reason) = <<Deduct(points, reason)>>
    BY <1>2 DEF DeductIf
  <2>2. DOMAIN <<Deduct(points, reason)>> = {1} /\ <<Deduct(points, reason)>>[1] = Deduct(points, reason)
    OBVIOUS
  <2>3. <<Deduct(points, reason)>> \in Seq(Penalties)
    BY <1>1
  <2> QED
    BY <1>2, <2>1, <2>2, <2>3 DEF Has
<1>3. CASE ~cond
  <2>1. DeductIf(cond, points, reason) = <<>>
    BY <1>3 DEF DeductIf
  <2>2. DOMAIN <<>> = {} /\ <<>> \in Seq(Penalties)
    OBVIOUS
  <2> QED
    BY <1>3, <2>1, <2>2 DEF Has
<1> QED
  BY <1>2, <1>3

\* The deductions for ambiguities take away, and are called so.
LEMMA AmbiguitiesDeduct ==
  ASSUME NEW ambiguities \in Seq(STRING)
  PROVE  /\ AmbiguityDeductions(ambiguities) \in Seq(Penalties)
         /\ \A x : Has(AmbiguityDeductions(ambiguities), x) => x.points <= 0 /\ x.reason = "ambiguity"
<1> DEFINE counted == Selected(ambiguities, {s \in ToSet(ambiguities) : AmbiguityPoints(s) # 0})
           Entry(k) == Deduct(AmbiguityPoints(counted[k]), "ambiguity")
<1>1. counted \in Seq(STRING)
  BY SelectedElements
<1> HIDE DEF counted
<1>2. Len(counted) \in Nat /\ DOMAIN counted = 1 .. Len(counted)
  BY <1>1, LenProperties
<1>3. \A s : AmbiguityPoints(s) \in {-15, -8, -4, -1, 0}
  BY DEF AmbiguityPoints
<1>4. \A k : Entry(k) \in Penalties /\ Entry(k).points <= 0 /\ Entry(k).reason = "ambiguity"
  <2> TAKE k
  <2>1. AmbiguityPoints(counted[k]) \in {-15, -8, -4, -1, 0}
    BY <1>3
  <2>2. AmbiguityPoints(counted[k]) \in Int /\ AmbiguityPoints(counted[k]) <= 0
    BY <2>1
  <2> QED
    BY <2>2 DEF Deduct, Penalties, Reasons
<1>5. AmbiguityDeductions(ambiguities) = [k \in 1 .. Len(counted) |-> Entry(k)]
  BY <1>2 DEF AmbiguityDeductions, counted
<1> HIDE DEF Entry
<1>6. AmbiguityDeductions(ambiguities) \in [1 .. Len(counted) -> Penalties]
  BY <1>4, <1>5
<1>7. AmbiguityDeductions(ambiguities) \in Seq(Penalties)
  BY <1>2, <1>6, SeqDef
<1> QED
  BY <1>4, <1>5, <1>7 DEF Has

\* What a traceability score deducts.
DeductsFor(x, gaps, summary, ambiguities) ==
  \/ gaps > 0 /\ x = Deduct(-15 * gaps, "uncovered")
  \/ summary.negative = 0 /\ x = Deduct(-15, "no negative")
  \/ summary.edge = 0 /\ x = Deduct(-10, "no edge")
  \/ summary.negative = 0 /\ summary.edge = 0 /\ x = Deduct(-10, "only positive")
  \/ Has(AmbiguityDeductions(ambiguities), x)

LEMMA AllDeductions ==
  ASSUME NEW acs, NEW cases1, NEW summary, NEW ambiguities \in Seq(STRING),
         Uncovered(acs, cases1) \in Nat
  PROVE  /\ Deductions(acs, cases1, summary, ambiguities) \in Seq(Penalties)
         /\ \A x : Has(Deductions(acs, cases1, summary, ambiguities), x)
                     <=> DeductsFor(x, Uncovered(acs, cases1), summary, ambiguities)
<1> DEFINE gaps == Uncovered(acs, cases1)
           a == DeductIf(gaps > 0, -15 * gaps, "uncovered")
           b == DeductIf(summary.negative = 0, -15, "no negative")
           c == DeductIf(summary.edge = 0, -10, "no edge")
           d == DeductIf(summary.negative = 0 /\ summary.edge = 0, -10, "only positive")
           e == AmbiguityDeductions(ambiguities)
<1>1. a \in Seq(Penalties) /\ \A x : Has(a, x) <=> gaps > 0 /\ x = Deduct(-15 * gaps, "uncovered")
  <2>1. -15 * gaps \in Int /\ "uncovered" \in Reasons
    BY DEF Reasons
  <2> HIDE DEF gaps
  <2> QED
    BY <2>1, OneDeduction
<1>2. b \in Seq(Penalties) /\ \A x : Has(b, x) <=> summary.negative = 0 /\ x = Deduct(-15, "no negative")
  <2> DEFINE cond == summary.negative = 0
  <2>1. -15 \in Int /\ "no negative" \in Reasons
    BY DEF Reasons
  <2>2. b = DeductIf(cond, -15, "no negative")
    OBVIOUS
  <2> HIDE DEF b, cond
  <2>3. b \in Seq(Penalties) /\ \A x : Has(b, x) <=> cond /\ x = Deduct(-15, "no negative")
    BY <2>1, <2>2, OneDeduction
  <2> QED
    BY <2>3 DEF cond
<1>3. c \in Seq(Penalties) /\ \A x : Has(c, x) <=> summary.edge = 0 /\ x = Deduct(-10, "no edge")
  <2> DEFINE cond == summary.edge = 0
  <2>1. -10 \in Int /\ "no edge" \in Reasons
    BY DEF Reasons
  <2>2. c = DeductIf(cond, -10, "no edge")
    OBVIOUS
  <2> HIDE DEF c, cond
  <2>3. c \in Seq(Penalties) /\ \A x : Has(c, x) <=> cond /\ x = Deduct(-10, "no edge")
    BY <2>1, <2>2, OneDeduction
  <2> QED
    BY <2>3 DEF cond
<1>4. /\ d \in Seq(Penalties)
      /\ \A x : Has(d, x) <=> (summary.negative = 0 /\ summary.edge = 0) /\ x = Deduct(-10, "only positive")
  <2>1. -10 \in Int /\ "only positive" \in Reasons
    BY DEF Reasons
  <2> QED
    BY <2>1, OneDeduction
<1>5. e \in Seq(Penalties)
  BY AmbiguitiesDeduct
<1> DEFINE ab   == a \o b
           abc  == ab \o c
           abcd == abc \o d
<1>6. Deductions(acs, cases1, summary, ambiguities) = abcd \o e
  BY DEF Deductions
<1> HIDE DEF a, b, c, d, e
<1>7. ab \in Seq(Penalties) /\ \A x : Has(ab, x) <=> Has(a, x) \/ Has(b, x)
  BY <1>1, <1>2, HasEither
<1> HIDE DEF ab
<1>8. abc \in Seq(Penalties) /\ \A x : Has(abc, x) <=> Has(ab, x) \/ Has(c, x)
  BY <1>3, <1>7, HasEither
<1> HIDE DEF abc
<1>9. abcd \in Seq(Penalties) /\ \A x : Has(abcd, x) <=> Has(abc, x) \/ Has(d, x)
  BY <1>4, <1>8, HasEither
<1> HIDE DEF abcd
<1>10. abcd \o e \in Seq(Penalties) /\ \A x : Has(abcd \o e, x) <=> Has(abcd, x) \/ Has(e, x)
  BY <1>5, <1>9, HasEither
<1>11. ASSUME NEW x
       PROVE  Has(abcd \o e, x) <=> DeductsFor(x, gaps, summary, ambiguities)
  <2>1. Has(abcd \o e, x) <=> Has(a, x) \/ Has(b, x) \/ Has(c, x) \/ Has(d, x) \/ Has(e, x)
    BY <1>7, <1>8, <1>9, <1>10
  <2>2. Has(e, x) <=> Has(AmbiguityDeductions(ambiguities), x)
    BY DEF e
  <2> HIDE DEF gaps
  <2> QED
    BY <1>1, <1>2, <1>3, <1>4, <2>1, <2>2 DEF DeductsFor
<1> QED
  BY <1>6, <1>10, <1>11

\* All of them take away.
LEMMA DeductionsTakeAway ==
  ASSUME NEW x, NEW gaps \in Nat, NEW summary, NEW ambiguities \in Seq(STRING),
         DeductsFor(x, gaps, summary, ambiguities)
  PROVE  x.points <= 0
<1>1. -15 * gaps <= 0 /\ -15 <= 0 /\ -10 <= 0
  OBVIOUS
<1>2. \A points, reason : Deduct(points, reason).points = points
  BY DEF Deduct
<1>3. CASE Has(AmbiguityDeductions(ambiguities), x)
  BY <1>3, AmbiguitiesDeduct
<1>4. CASE gaps > 0 /\ x = Deduct(-15 * gaps, "uncovered")
  BY <1>1, <1>2, <1>4
<1>5. CASE x = Deduct(-15, "no negative") \/ x = Deduct(-10, "no edge") \/ x = Deduct(-10, "only positive")
  BY <1>1, <1>2, <1>5
<1> QED
  BY <1>3, <1>4, <1>5 DEF DeductsFor

\* The points of a list of deductions, and what qa-ai makes of them.
PointList(deductions)   == [k \in DOMAIN deductions |-> deductions[k].points]
PenaltyList(deductions) == [k \in DOMAIN deductions |-> Penalty(deductions[k].points)]

LEMMA PointsOf ==
  ASSUME NEW D, \A d \in D : d.points \in Int, NEW deductions \in Seq(D)
  PROVE  PointList(deductions) \in Seq(Int) /\ PenaltyList(deductions) \in Seq(Int)
<1>1. /\ Len(deductions) \in Nat /\ DOMAIN deductions = 1 .. Len(deductions)
      /\ \A k \in 1 .. Len(deductions) : deductions[k] \in D
  BY LenProperties, ElementOfSeq
<1>2. \A k \in 1 .. Len(deductions) :
        deductions[k].points \in Int /\ Penalty(deductions[k].points) \in Int
  BY <1>1 DEF Penalty
<1>3. /\ PointList(deductions) \in [1 .. Len(deductions) -> Int]
      /\ PenaltyList(deductions) \in [1 .. Len(deductions) -> Int]
  BY <1>1, <1>2 DEF PointList, PenaltyList
<1> QED
  BY <1>1, <1>3, SeqDef

\* A score within its bounds.
LEMMA Clamped == \A n \in Int : (IF n < 0 THEN 0 ELSE IF n > 100 THEN 100 ELSE n) \in 0 .. 100
OBVIOUS

\* qa-ai's score is one.
LEMMA NormalizedBounds ==
  ASSUME NEW D, \A d \in D : d.points \in Int, NEW deductions \in Seq(D)
  PROVE  Normalized(deductions) \in 0 .. 100
<1>1. PenaltyList(deductions) \in Seq(Int)
  BY PointsOf
<1>2. SumFrom(100, PenaltyList(deductions)) \in Int
  BY <1>1, SumIsNumber
<1> QED
  BY <1>2, Clamped DEF Normalized, PenaltyList

\* A function on the first numbers is a list of its values.
Values(f) == {f[i] : i \in DOMAIN f}

LEMMA ListOfValues ==
  ASSUME NEW n \in Nat, NEW f, f = [i \in 1 .. n |-> f[i]]
  PROVE  f \in Seq(Values(f)) /\ Len(f) = n /\ DOMAIN f = 1 .. n
<1>1. DOMAIN f = 1 .. n
  OBVIOUS
<1>2. \A i \in 1 .. n : f[i] \in Values(f)
  BY <1>1 DEF Values
<1>3. f \in [1 .. n -> Values(f)]
  BY <1>2
<1>4. f \in Seq(Values(f))
  BY <1>3, SeqDef
<1>5. DOMAIN f = 1 .. Len(f) /\ Len(f) \in Nat
  BY <1>4, LenProperties
<1> QED
  BY <1>1, <1>4, <1>5

\* The criteria no case covers.
Gaps(acs, cs) == {k \in DOMAIN acs : Covering(cs, acs[k]) = {}}

\* The two copies of covers count the same gaps, and so does who reads the matrix.
LEMMA GapsAgree ==
  ASSUME NEW acs \in Seq(Criteria), NEW cs
  PROVE  /\ IsFiniteSet(Gaps(acs, cs))
         /\ Uncovered(acs, cs) = Cardinality(Gaps(acs, cs))
         /\ GapCount(acs, cs) = Cardinality(Gaps(acs, cs))
         /\ {k \in DOMAIN Matrix(acs, cs) : Matrix(acs, cs)[k].coveredBy = {}} = Gaps(acs, cs)
         /\ Cardinality(Gaps(acs, cs)) \in Nat
<1>1. Len(acs) \in Nat /\ DOMAIN acs = 1 .. Len(acs)
  BY LenProperties
<1>2. IsFiniteSet(1 .. Len(acs))
  BY <1>1, FS_Interval
<1>3. Gaps(acs, cs) \in SUBSET (1 .. Len(acs))
  BY <1>1 DEF Gaps
<1>4. IsFiniteSet(Gaps(acs, cs)) /\ Cardinality(Gaps(acs, cs)) \in Nat
  BY <1>2, <1>3, FS_Subset, FS_CardinalityType
<1>5. {k \in DOMAIN acs : \A i \in DOMAIN cs : ~Covers(cs[i], acs[k])} = Gaps(acs, cs)
  BY DEF Gaps, Covering
<1>6. {k \in DOMAIN acs : ~\E i \in DOMAIN cs : TcCovers(cs[i], acs[k])} = Gaps(acs, cs)
  BY DEF Gaps, Covering, Covers, TcCovers
<1>7. /\ DOMAIN Matrix(acs, cs) = DOMAIN acs
      /\ \A k \in DOMAIN acs : Matrix(acs, cs)[k].coveredBy = {cs[i].no : i \in Covering(cs, acs[k])}
  BY DEF Matrix
<1>8. \A k \in DOMAIN acs : {cs[i].no : i \in Covering(cs, acs[k])} = {} <=> Covering(cs, acs[k]) = {}
  OBVIOUS
<1>9. {k \in DOMAIN Matrix(acs, cs) : Matrix(acs, cs)[k].coveredBy = {}} = Gaps(acs, cs)
  BY <1>7, <1>8 DEF Gaps
<1> QED
  BY <1>4, <1>5, <1>6, <1>9 DEF Uncovered, GapCount

\* The cases of a kind.
OfKind(cs, kind) == {i \in DOMAIN cs : NormType(cs[i].type) = kind}

LEMMA DisjointSum ==
  ASSUME NEW S, NEW T, IsFiniteSet(S), IsFiniteSet(T), S \cap T = {}
  PROVE  IsFiniteSet(S \cup T) /\ Cardinality(S \cup T) = Cardinality(S) + Cardinality(T)
<1>1. Cardinality(S) \in Nat /\ Cardinality(T) \in Nat
  BY FS_CardinalityType
<1>2. Cardinality(S \cap T) = 0
  BY FS_EmptySet
<1>3. IsFiniteSet(S \cup T) /\ Cardinality(S \cup T) = Cardinality(S) + Cardinality(T) - Cardinality(S \cap T)
  BY FS_Union
<1> HIDE DEF Cardinality
<1> QED
  BY <1>1, <1>2, <1>3

\* computeCoverage counts every case once.
LEMMA SummaryCounts ==
  ASSUME NEW cs \in Seq(Rows)
  PROVE  LET s == Summary(cs)
         IN  /\ s.positive \in Nat /\ s.negative \in Nat /\ s.edge \in Nat
             /\ s.positive + s.negative + s.edge = Len(cs)
             /\ s.negative = 0 <=> OfKind(cs, "Negative") = {}
             /\ s.edge = 0 <=> OfKind(cs, "Edge case") = {}
<1> DEFINE P == OfKind(cs, "Positive")
           N == OfKind(cs, "Negative")
           E == OfKind(cs, "Edge case")
<1>1. Len(cs) \in Nat /\ DOMAIN cs = 1 .. Len(cs)
  BY LenProperties
<1>2. IsFiniteSet(1 .. Len(cs)) /\ Cardinality(1 .. Len(cs)) = Len(cs)
  BY <1>1, FS_Interval
<1>3. \A t : NormType(t) \in {"Positive", "Negative", "Edge case"}
  BY DEF NormType
<1>4. P \cup (N \cup E) = 1 .. Len(cs) /\ P \cap (N \cup E) = {} /\ N \cap E = {}
  BY <1>1, <1>3 DEF OfKind
<1>5. /\ Summary(cs).positive = Cardinality(P)
      /\ Summary(cs).negative = Cardinality(N)
      /\ Summary(cs).edge = Cardinality(E)
  BY DEF Summary, OfKind
<1> HIDE DEF P, N, E
<1>6. IsFiniteSet(P) /\ IsFiniteSet(N) /\ IsFiniteSet(E)
  BY <1>2, <1>4, FS_Subset
<1>7. Cardinality(P) \in Nat /\ Cardinality(N) \in Nat /\ Cardinality(E) \in Nat
  BY <1>6, FS_CardinalityType
<1>9. IsFiniteSet(N \cup E) /\ Cardinality(N \cup E) = Cardinality(N) + Cardinality(E)
  BY <1>4, <1>6, DisjointSum
<1>10. Cardinality(P \cup (N \cup E)) = Cardinality(P) + (Cardinality(N) + Cardinality(E))
  <2> DEFINE U == N \cup E
  <2>1. IsFiniteSet(P) /\ IsFiniteSet(U) /\ P \cap U = {}
    BY <1>4, <1>6, <1>9
  <2> HIDE DEF U
  <2>2. Cardinality(P \cup U) = Cardinality(P) + Cardinality(U)
    BY <2>1, DisjointSum
  <2> QED
    BY <1>9, <2>2 DEF U
<1>11. Cardinality(P) + Cardinality(N) + Cardinality(E) = Len(cs)
  <2>1. Cardinality(P \cup (N \cup E)) = Len(cs)
    BY <1>2, <1>4
  <2>2. \A a, b, c \in Nat : a + (b + c) = a + b + c
    OBVIOUS
  <2> QED
    BY <1>7, <1>10, <2>1, <2>2
<1>12. (Cardinality(N) = 0 <=> N = {}) /\ (Cardinality(E) = 0 <=> E = {})
  BY <1>6, FS_EmptySet
<1> DEFINE s == Summary(cs)
<1>13. s.positive \in Nat /\ s.negative \in Nat /\ s.edge \in Nat
  BY <1>5, <1>7
<1>14. s.positive + s.negative + s.edge = Len(cs)
  BY <1>5, <1>11
<1>15. (s.negative = 0 <=> N = {}) /\ (s.edge = 0 <=> E = {})
  BY <1>5, <1>12
<1> HIDE DEF s
<1>16. (s.negative = 0 <=> OfKind(cs, "Negative") = {}) /\ (s.edge = 0 <=> OfKind(cs, "Edge case") = {})
  BY <1>15 DEF N, E
<1> QED
  BY <1>13, <1>14, <1>16 DEF s

\* The traceability score of a result: what it deducts, and what that leaves of 100.
Scores(t, acs, cs, ambiguities) ==
  /\ t.deductions \in Seq(Penalties)
  /\ \A x : Has(t.deductions, x) <=> DeductsFor(x, Cardinality(Gaps(acs, cs)), Summary(cs), ambiguities)
  /\ \A k \in DOMAIN t.deductions : t.deductions[k].points \in Int /\ t.deductions[k].points <= 0
  /\ SumFrom(100, PointList(t.deductions)) \in Int
  /\ LET total == SumFrom(100, PointList(t.deductions))
     IN t = [score      |-> IF total < 0 THEN 0 ELSE IF total > 100 THEN 100 ELSE total,
             rating     |-> TraceRating(IF total < 0 THEN 0 ELSE IF total > 100 THEN 100 ELSE total),
             deductions |-> t.deductions]

LEMMA TraceabilityScores ==
  ASSUME NEW acs \in Seq(Criteria), NEW cs \in Seq(Rows), NEW ambiguities \in Seq(STRING)
  PROVE  Scores(Traceability(acs, cs, Summary(cs), ambiguities), acs, cs, ambiguities)
<1> DEFINE t == Traceability(acs, cs, Summary(cs), ambiguities)
           d == Deductions(acs, cs, Summary(cs), ambiguities)
<1>1. Uncovered(acs, cs) = Cardinality(Gaps(acs, cs)) /\ Cardinality(Gaps(acs, cs)) \in Nat
  BY GapsAgree
<1>2. /\ d \in Seq(Penalties)
      /\ \A x : Has(d, x) <=> DeductsFor(x, Cardinality(Gaps(acs, cs)), Summary(cs), ambiguities)
  BY <1>1, AllDeductions
<1>3. /\ t.deductions = d
      /\ t = [score      |-> IF Total(d) < 0 THEN 0 ELSE IF Total(d) > 100 THEN 100 ELSE Total(d),
              rating     |-> TraceRating(IF Total(d) < 0 THEN 0 ELSE IF Total(d) > 100 THEN 100 ELSE Total(d)),
              deductions |-> d]
  BY DEF Traceability
<1>4. Total(d) = SumFrom(100, PointList(d))
  BY DEF Total, PointList
<1> HIDE DEF t, d
<1>5. PointList(d) \in Seq(Int)
  <2>1. \A x \in Penalties : x.points \in Int
    BY DEF Penalties
  <2> QED
    BY <1>2, <2>1, PointsOf
<1>6. SumFrom(100, PointList(d)) \in Int
  BY <1>5, SumIsNumber
<1>7. ASSUME NEW k \in DOMAIN d PROVE d[k].points \in Int /\ d[k].points <= 0
  <2>1. d[k] \in Penalties
    BY <1>2, ElementOfSeq, LenProperties
  <2>2. DeductsFor(d[k], Cardinality(Gaps(acs, cs)), Summary(cs), ambiguities)
    BY <1>2 DEF Has
  <2>3. d[k].points <= 0
    BY <1>1, <2>2, DeductionsTakeAway
  <2> QED
    BY <2>1, <2>3 DEF Penalties
<1>8. Scores(t, acs, cs, ambiguities)
  BY <1>2, <1>3, <1>4, <1>6, <1>7 DEF Scores
<1> QED
  BY <1>8 DEF t

\* A score is one, and no other deduction gives back what one of them takes.
LEMMA ScoreBounds ==
  ASSUME NEW t, NEW acs, NEW cs, NEW ambiguities, Scores(t, acs, cs, ambiguities)
  PROVE  /\ t.score \in 0 .. 100
         /\ t.rating = TraceRating(t.score)
         /\ \A x : Has(t.deductions, x) /\ x.points <= -10 => t.score <= 90
<1> DEFINE total == SumFrom(100, PointList(t.deductions))
<1>1. total \in Int
  BY DEF Scores
<1>2. /\ t.score = IF total < 0 THEN 0 ELSE IF total > 100 THEN 100 ELSE total
      /\ t.rating = TraceRating(t.score)
  BY DEF Scores
<1>3. t.score \in 0 .. 100
  <2> HIDE DEF total
  <2> QED
    BY <1>1, <1>2, Clamped
<1>4. ASSUME NEW k \in DOMAIN t.deductions, t.deductions[k].points <= -10
      PROVE  t.score <= 90
  <2>1. PointList(t.deductions) \in Seq(Int)
    <3>1. \A x \in Penalties : x.points \in Int
      BY DEF Penalties
    <3>2. t.deductions \in Seq(Penalties)
      BY DEF Scores
    <3> QED
      BY <3>1, <3>2, PointsOf
  <2>2. /\ DOMAIN PointList(t.deductions) = DOMAIN t.deductions
        /\ \A i \in DOMAIN t.deductions : PointList(t.deductions)[i] = t.deductions[i].points
    BY DEF PointList
  <2>3. \A i \in DOMAIN t.deductions : t.deductions[i].points \in Int /\ t.deductions[i].points <= 0
    BY DEF Scores
  <2>4. \A i \in DOMAIN PointList(t.deductions) : PointList(t.deductions)[i] <= 0
    BY <2>2, <2>3
  <2>5. total <= 100 + PointList(t.deductions)[k]
    BY <2>1, <2>2, <2>4, SumAtMost
  <2>6. total <= 100 + t.deductions[k].points
    BY <2>2, <2>5
  <2> HIDE DEF total
  <2>7. total <= 90
    BY <1>1, <1>4, <2>3, <2>6
  <2> QED
    BY <1>1, <1>2, <2>7
<1> QED
  BY <1>2, <1>3, <1>4 DEF Has

\* qa-ai's policy makes the same score of the same deductions.
LEMMA PoliciesAgree ==
  ASSUME NEW t, NEW acs, NEW cs, NEW ambiguities, Scores(t, acs, cs, ambiguities)
  PROVE  ClampTrace(t) = t
<1>1. \A k \in DOMAIN t.deductions : Penalty(t.deductions[k].points) = t.deductions[k].points
  BY DEF Scores, Penalty
<1>2. PenaltyList(t.deductions) = PointList(t.deductions)
  BY <1>1 DEF PenaltyList, PointList
<1>3. Normalized(t.deductions) = t.score
  BY <1>2 DEF Normalized, PenaltyList, Scores
<1>4. AiTraceRating(t.score) = TraceRating(t.score)
  BY DEF AiTraceRating, TraceRating
<1>5. t.rating = TraceRating(t.score)
  BY ScoreBounds
<1>6. t = [score |-> t.score, rating |-> t.rating, deductions |-> t.deductions]
  BY DEF Scores
<1> QED
  BY <1>3, <1>4, <1>5, <1>6 DEF ClampTrace

\* The best rating is for the best scores.
LEMMA BestScores == \A n \in 0 .. 100 : TraceRating(n) = "Fully Covered" => ~(n <= 90)
BY DEF TraceRating

\* What a gap and a missing side cost.
LEMMA Costs ==
  /\ \A n \in Nat : n > 0 \/ n = 0
  /\ \A n \in Nat : n > 0 => -15 * n <= -10
  /\ -15 <= -10 /\ -10 <= -10
OBVIOUS

\* A suite with a gap, or without a negative or an edge case, is not fully covered.
LEMMA FullyCoveredMeans ==
  ASSUME NEW t, NEW acs \in Seq(Criteria), NEW cs \in Seq(Rows), NEW ambiguities,
         Scores(t, acs, cs, ambiguities), t.rating = "Fully Covered"
  PROVE  /\ Cardinality(Gaps(acs, cs)) = 0
         /\ OfKind(cs, "Negative") # {}
         /\ OfKind(cs, "Edge case") # {}
<1> DEFINE gaps == Cardinality(Gaps(acs, cs))
           summary == Summary(cs)
<1>1. t.score \in 0 .. 100 /\ TraceRating(t.score) = "Fully Covered"
  BY ScoreBounds
<1>2. ~(t.score <= 90)
  BY <1>1, BestScores
<1>3. \A x : Has(t.deductions, x) => ~(x.points <= -10)
  <2>1. \A x : Has(t.deductions, x) /\ x.points <= -10 => t.score <= 90
    BY ScoreBounds
  <2> QED
    BY <1>2, <2>1
<1>4. \A x : DeductsFor(x, gaps, summary, ambiguities) => ~(x.points <= -10)
  BY <1>3 DEF Scores
<1>5. gaps \in Nat
  BY GapsAgree
<1>6. /\ summary.negative = 0 <=> OfKind(cs, "Negative") = {}
      /\ summary.edge = 0 <=> OfKind(cs, "Edge case") = {}
  BY SummaryCounts
<1>7. \A points, reason : Deduct(points, reason).points = points
  BY DEF Deduct
<1> HIDE DEF gaps, summary
<1>8. gaps > 0 => DeductsFor(Deduct(-15 * gaps, "uncovered"), gaps, summary, ambiguities)
  BY DEF DeductsFor
<1>9. gaps = 0
  <2>1. gaps > 0 => ~(-15 * gaps <= -10)
    BY <1>4, <1>7, <1>8, Zenon
  <2> QED
    BY <1>5, <2>1, Costs, Zenon
<1>10. summary.negative # 0
  <2>1. summary.negative = 0 => DeductsFor(Deduct(-15, "no negative"), gaps, summary, ambiguities)
    BY DEF DeductsFor
  <2> DEFINE x == Deduct(-15, "no negative")
  <2>2. x.points = -15
    BY <1>7
  <2> HIDE DEF x
  <2>3. x.points <= -10
    BY <2>2, Costs, Zenon
  <2>4. ~DeductsFor(x, gaps, summary, ambiguities)
    BY <1>4, <2>3
  <2> QED
    BY <2>1, <2>4, Zenon DEF x
<1>11. summary.edge # 0
  <2>1. summary.edge = 0 => DeductsFor(Deduct(-10, "no edge"), gaps, summary, ambiguities)
    BY DEF DeductsFor
  <2> DEFINE x == Deduct(-10, "no edge")
  <2>2. x.points = -10
    BY <1>7
  <2> HIDE DEF x
  <2>3. x.points <= -10
    BY <2>2, Costs, Zenon
  <2>4. ~DeductsFor(x, gaps, summary, ambiguities)
    BY <1>4, <2>3
  <2> QED
    BY <2>1, <2>4, Zenon DEF x
<1> QED
  BY <1>6, <1>9, <1>10, <1>11 DEF gaps

-----------------------------------------------------------------------------
(* The score and the coverage of a finished result. *)

\* Stage 4 has been done.
Scored == at \in {"finalSave", "returned"}

\* What stage 4 computes, it computes of the result it is put in.
IsCoverage ==
  /\ result.matrix = Matrix(result.acs, result.cases)
  /\ result.summary = Summary(result.cases)
  /\ result.score = Traceability(result.acs, result.cases, Summary(result.cases), result.ambiguities)

\* Until then there is no score; every score published is one.
ScoreInv ==
  /\ curated \in Curations
  /\ next <= MaxACBatches + 1
  /\ expired \in BOOLEAN
  /\ result.ambiguities \in Seq(STRING)
  /\ result.health.score \in 0 .. 100
  /\ partial.acs \in Seq(Criteria)
  /\ partial.score.score \in 0 .. 100
  /\ partial.health.score \in 0 .. 100
  /\ Scored => IsCoverage
  /\ ~Scored => result.score = NoScore

LEMMA BatchedUpToCap ==
  ASSUME AcsInv
  PROVE  Len(Batched) \in Nat /\ Len(Batched) <= MaxACBatches /\ MaxACBatches \in Nat \ {0}
<1> DEFINE n == IF Len(result.acs) > MaxACBatches THEN MaxACBatches ELSE Len(result.acs)
<1>1. Len(result.acs) \in Nat /\ n \in Nat /\ Len(SubSeq(result.acs, 1, n)) = n
  BY BatchedLength DEF AcsInv
<1>2. MaxACBatches \in Nat \ {0}
  BY PipelineAssumption
<1>3. n <= MaxACBatches
  BY <1>1, <1>2
<1>4. Len(Batched) = n
  BY <1>1 DEF Batched
<1> HIDE DEF n
<1> QED
  BY <1>1, <1>2, <1>3, <1>4

LEMMA NotScored == NoScore.score \in 0 .. 100 /\ NoScore.rating # "Fully Covered"
BY DEF NoScore

\* The score of a result, before and after stage 4.
LEMMA ResultScore ==
  ASSUME AcsInv, RowsInv, ScoreInv
  PROVE  /\ result.score.score \in 0 .. 100
         /\ Scored => Scores(result.score, result.acs, result.cases, result.ambiguities)
<1>1. ASSUME Scored PROVE Scores(result.score, result.acs, result.cases, result.ambiguities)
  BY <1>1, TraceabilityScores DEF ScoreInv, IsCoverage, AcsInv, RowsInv
<1>2. CASE Scored
  BY <1>1, <1>2, ScoreBounds
<1>3. CASE ~Scored
  <2>1. result.score = NoScore
    BY <1>3 DEF ScoreInv
  <2> QED
    BY <1>3, <2>1, NotScored
<1> QED
  BY <1>1, <1>2, <1>3

LEMMA StepScoreInv ==
  ASSUME AcsInv, RowsInv, ScoreInv, [Next]_vars
  PROVE  ScoreInv'
<1>1. \A n \in Nat : Len(Batched) >= n => n + 1 <= MaxACBatches + 1
  BY BatchedUpToCap
<1>2. next \in Nat /\ (at \in {"batch", "publish"} => next <= Len(Batched))
  BY DEF AcsInv
<1>3. CASE Silent
  <2>1. /\ curated' = curated /\ result' = result /\ partial' = partial
        /\ next' = next \/ (next' = next + 1 /\ at = "batch")
        /\ expired' = expired \/ expired' = TRUE
    BY <1>3 DEF Silent, PlanFirst, StartStep, AnalysisFails, AppendBatch, BatchFails, AppendAux,
                AuxFails, AppendCoverage, ReturnError, Expire, vars, SettleStep
  <2>2. Scored' <=> Scored
    BY <1>3 DEF Silent, PlanFirst, StartStep, AnalysisFails, AppendBatch, BatchFails, AppendAux,
                AuxFails, AppendCoverage, ReturnError, Expire, vars, SettleStep, AppendStep,
                AfterStart, Scored
  <2>3. next' <= MaxACBatches + 1
    BY <1>1, <1>2, <2>1, BatchedUpToCap DEF ScoreInv
  <2>4. expired' \in BOOLEAN
    BY <2>1 DEF ScoreInv
  <2>5. IsCoverage' <=> IsCoverage
    BY <2>1 DEF IsCoverage
  <2> QED
    BY <2>1, <2>2, <2>3, <2>4, <2>5 DEF ScoreInv
<1>4. CASE AuxAnswers
  <2>1. /\ UNCHANGED <<curated, next, partial, expired>>
        /\ at = "aux" /\ at' = "closing" /\ result' = [result EXCEPT !.aux = TRUE]
    BY <1>4 DEF AuxAnswers, SettleStep
  <2>2. /\ result'.ambiguities = result.ambiguities /\ result'.health = result.health
        /\ result'.score = result.score
    BY <2>1 DEF AcsInv, NoResult
  <2>3. ~Scored /\ ~Scored'
    BY <2>1 DEF Scored
  <2> QED
    BY <2>1, <2>2, <2>3 DEF ScoreInv
<1>5. CASE ComputeCoverage
  <2>1. /\ UNCHANGED <<curated, next, partial, expired>>
        /\ at' = "finalSave"
        /\ result' = [result EXCEPT
             !.matrix  = Matrix(result.acs, result.cases),
             !.summary = Summary(result.cases),
             !.score   = Traceability(result.acs, result.cases, Summary(result.cases), result.ambiguities)]
    BY <1>5 DEF ComputeCoverage, SettleStep
  <2>2. /\ result'.ambiguities = result.ambiguities /\ result'.health = result.health
        /\ result'.acs = result.acs /\ result'.cases = result.cases
        /\ result'.matrix = Matrix(result.acs, result.cases)
        /\ result'.summary = Summary(result.cases)
        /\ result'.score = Traceability(result.acs, result.cases, Summary(result.cases), result.ambiguities)
    BY <2>1 DEF AcsInv, NoResult
  <2>3. IsCoverage'
    BY <2>2 DEF IsCoverage
  <2>4. Scored'
    BY <2>1 DEF Scored
  <2> QED
    BY <2>1, <2>2, <2>3, <2>4 DEF ScoreInv
<1>6. CASE AnalysisAnswers
  <2>1. UNCHANGED <<curated, next, partial, expired>> /\ at' = "batches"
    BY <1>6 DEF AnalysisAnswers, SettleStep
  <2>2. PICK list \in Analyses, said \in Assessments :
          LET acs == IF curated # <<>> THEN curated ELSE list
          IN result' = [NoResult EXCEPT
               !.acs = acs,
               !.ambiguities = said.ambiguities,
               !.health = ClampHealth(said.deductions),
               !.capped = IF Len(acs) > MaxACBatches THEN Len(acs) - MaxACBatches ELSE 0]
    BY <1>6 DEF AnalysisAnswers
  <2>3. /\ result'.ambiguities = said.ambiguities /\ result'.health = ClampHealth(said.deductions)
        /\ result'.score = NoScore
    BY <2>2 DEF NoResult
  <2>4. /\ said.ambiguities \in Seq(STRING)
        /\ said.deductions \in Seq([points : Int, reason : STRING])
    BY PipelineAssumption
  <2>5. Normalized(said.deductions) \in 0 .. 100
    <3>1. \A d \in [points : Int, reason : STRING] : d.points \in Int
      OBVIOUS
    <3> QED
      BY <2>4, <3>1, NormalizedBounds
  <2>6. result'.health.score \in 0 .. 100
    BY <2>3, <2>5 DEF ClampHealth
  <2>7. ~Scored'
    BY <2>1 DEF Scored
  <2> QED
    BY <2>1, <2>3, <2>4, <2>6, <2>7 DEF ScoreInv
<1>7. CASE BatchAnswers
  <2>1. UNCHANGED <<curated, next, result, partial, expired>> /\ at = "batch" /\ at' = "publish"
    BY <1>7 DEF BatchAnswers, SettleStep
  <2>2. ~Scored /\ ~Scored'
    BY <2>1 DEF Scored
  <2> QED
    BY <2>1, <2>2 DEF ScoreInv
<1>8. CASE PublishBatch
  <2>1. /\ UNCHANGED <<curated, expired>> /\ next' = next + 1 /\ at = "publish" /\ at' = "batches"
        /\ result' = [result EXCEPT !.cases = Renumber(cases)] /\ partial' = result'
    BY <1>8 DEF PublishBatch, Publish
  <2>2. /\ result'.ambiguities = result.ambiguities /\ result'.health = result.health
        /\ result'.acs = result.acs /\ result'.score = result.score
    BY <2>1 DEF AcsInv, NoResult
  <2>3. ~Scored /\ ~Scored'
    BY <2>1 DEF Scored
  <2>4. next' <= MaxACBatches + 1
    BY <1>1, <1>2, <2>1, BatchedUpToCap
  <2>5. result.score.score \in 0 .. 100 /\ result.acs \in Seq(Criteria)
    BY ResultScore DEF AcsInv
  <2> QED
    BY <2>1, <2>2, <2>3, <2>4, <2>5 DEF ScoreInv
<1>9. CASE FinalSave
  <2>1. /\ UNCHANGED <<curated, next, result, expired>> /\ partial' = result
        /\ at = "finalSave" /\ at' = "returned"
    BY <1>9 DEF FinalSave, Publish
  <2>2. Scored /\ Scored' /\ (IsCoverage' <=> IsCoverage)
    BY <2>1 DEF Scored, IsCoverage
  <2>3. result.score.score \in 0 .. 100 /\ result.acs \in Seq(Criteria)
    BY ResultScore DEF AcsInv
  <2> QED
    BY <2>1, <2>2, <2>3 DEF ScoreInv
<1> QED
  BY <1>3, <1>4, <1>5, <1>6, <1>7, <1>8, <1>9 DEF Next, Run, Silent

\* The score invariant holds in every reachable state.
THEOREM ScoreInvariance == Spec => []ScoreInv
<1>1. Init => ScoreInv
  <2> SUFFICES ASSUME Init PROVE ScoreInv
    OBVIOUS
  <2>1. /\ result.ambiguities = <<>> /\ result.health.score = 0 /\ result.score = NoScore
        /\ partial.acs = <<>> /\ partial.score.score = 0 /\ partial.health.score = 0
    BY DEF Init, NoResult, NoScore
  <2>2. <<>> \in Seq(STRING) /\ <<>> \in Seq(Criteria) /\ 0 \in 0 .. 100
    BY EmptySeq
  <2>3. 1 <= MaxACBatches + 1
    BY PipelineAssumption
  <2> QED
    BY <2>1, <2>2, <2>3 DEF Init, ScoreInv, Scored
<1>2. AcsInv /\ RowsInv /\ ScoreInv /\ [Next]_vars => ScoreInv'
  BY StepScoreInv
<1> QED
  BY <1>1, <1>2, RowsInvariance, PTL DEF Spec

\* Every variable of a generation has its type; in particular the scores are within
\* 0..100 whatever the model deducts (scoring.go:24-40, coverage.go:69-101).
THEOREM TypeCorrect == Spec => []GTypeOK
<1>1. PlanInv /\ AcsInv /\ RowsInv /\ ScoreInv => GTypeOK
  <2> SUFFICES ASSUME PlanInv, AcsInv, RowsInv, ScoreInv
               PROVE  GTypeOK
    OBVIOUS
  <2>1. at \in Points /\ plan \in Seq(StepStates)
    BY EmptySeq DEF PlanInv, Shape
  <2>2. next \in 1 .. MaxACBatches + 1
    BY BatchedUpToCap DEF AcsInv, ScoreInv
  <2>3. result.score.score \in 0 .. 100
    BY ResultScore
  <2> QED
    BY <2>1, <2>2, <2>3 DEF GTypeOK, AcsInv, RowsInv, ScoreInv
<1> QED
  BY <1>1, PlanInvariance, RowsInvariance, ScoreInvariance, PTL

\* "Fully Covered" is said of no result with a gap or without a negative or an edge
\* case, and qa-ai's policy scores the deductions of a result as qa-core does.
THEOREM RatingIsHonest == Spec => []RatingHonest
<1>1. AcsInv /\ RowsInv /\ ScoreInv => RatingHonest
  <2> SUFFICES ASSUME AcsInv, RowsInv, ScoreInv
               PROVE  RatingHonest
    OBVIOUS
  <2>1. CASE Scored
    <3>1. /\ Scores(result.score, result.acs, result.cases, result.ambiguities)
          /\ result.acs \in Seq(Criteria) /\ result.cases \in Seq(Rows)
      BY <2>1, ResultScore DEF AcsInv, RowsInv
    <3>2. result.score = ClampTrace(result.score)
      BY <3>1, PoliciesAgree
    <3>3. ASSUME result.score.rating = "Fully Covered"
          PROVE  /\ GapCount(result.acs, result.cases) = 0
                 /\ \A kind \in {"Negative", "Edge case"} :
                      \E i \in DOMAIN result.cases : NormType(result.cases[i].type) = kind
      <4>1. /\ Cardinality(Gaps(result.acs, result.cases)) = 0
            /\ OfKind(result.cases, "Negative") # {} /\ OfKind(result.cases, "Edge case") # {}
        BY <3>1, <3>3, FullyCoveredMeans
      <4>2. GapCount(result.acs, result.cases) = 0
        BY <3>1, <4>1, GapsAgree
      <4> QED
        BY <4>1, <4>2 DEF OfKind
    <3> QED
      BY <3>2, <3>3 DEF RatingHonest
  <2>2. CASE ~Scored
    <3>1. result.score = NoScore
      BY <2>2 DEF ScoreInv
    <3>2. result.score.rating # "Fully Covered"
      BY <3>1, NotScored
    <3>3. at # "returned"
      BY <2>2 DEF Scored
    <3> QED
      BY <3>2, <3>3 DEF RatingHonest
  <2> QED
    BY <2>1, <2>2
<1> QED
  BY <1>1, RowsInvariance, ScoreInvariance, PTL

-----------------------------------------------------------------------------
(* The coverage computed and the coverage exported. *)

\* Row by row, the exported matrix lists the cases the computed one does, and calls a
\* gap what has no type there.
LEMMA MatrixExported ==
  ASSUME NEW acs, NEW cs, NEW k \in DOMAIN acs
  PROVE  /\ RTMRows(acs, cs)[k].coveredBy = {cs[i].no : i \in Covering(cs, acs[k])}
         /\ Matrix(acs, cs)[k].coveredBy = {cs[i].no : i \in Covering(cs, acs[k])}
         /\ RTMRows(acs, cs)[k].status = "GAP" <=> Matrix(acs, cs)[k].types = {}
<1>1. {i \in DOMAIN cs : TcCovers(cs[i], acs[k])} = Covering(cs, acs[k])
  BY DEF TcCovers, Covers, Covering
<1>2. /\ RTMRows(acs, cs)[k].coveredBy = {cs[i].no : i \in Covering(cs, acs[k])}
      /\ RTMRows(acs, cs)[k].status = IF Covering(cs, acs[k]) = {} THEN "GAP" ELSE "Covered"
  BY <1>1 DEF RTMRows
<1>3. /\ Matrix(acs, cs)[k].coveredBy = {cs[i].no : i \in Covering(cs, acs[k])}
      /\ Matrix(acs, cs)[k].types = {NormType(cs[i].type) : i \in Covering(cs, acs[k])}
  BY DEF Matrix
<1>4. {NormType(cs[i].type) : i \in Covering(cs, acs[k])} = {} <=> Covering(cs, acs[k]) = {}
  OBVIOUS
<1> QED
  BY <1>2, <1>3, <1>4

\* With every case numbered by its place, those are the covering cases.
LEMMA NumbersArePlaces ==
  ASSUME NEW cs, \A i \in DOMAIN cs : cs[i].no = i, NEW ac
  PROVE  {cs[i].no : i \in Covering(cs, ac)} = Covering(cs, ac)
BY DEF Covering

Stories(acs) ==
  [k \in DOMAIN acs |->
     [issue |-> "Story", summary |-> acs[k].desc, priority |-> PriorityForTC(acs[k].severity)]]

Tests(cs, matrix) ==
  [i \in DOMAIN cs |->
     [issue |-> "Test", components |-> ReqPoints(matrix, cs[i].no),
      priority |-> PriorityForTC(cs[i].marks.risk)]]

\* The stories come first, each with the description of its criterion; then comes the issue
\* of each case, with the requirement points of the matrix.
LEMMA IssuesInOrder ==
  ASSUME NEW acs \in Seq(Criteria), NEW cs \in Seq(Rows), NEW matrix
  PROVE  /\ \A k \in DOMAIN acs : JiraRows(acs, cs, matrix)[k].summary = acs[k].desc
         /\ \A i \in DOMAIN cs :
              JiraRows(acs, cs, matrix)[Len(acs) + i].components = ReqPoints(matrix, cs[i].no)
<1> DEFINE s == Stories(acs)
           t == Tests(cs, matrix)
           V == Values(s) \cup Values(t)
<1>1. /\ Len(acs) \in Nat /\ DOMAIN acs = 1 .. Len(acs)
      /\ Len(cs) \in Nat /\ DOMAIN cs = 1 .. Len(cs)
  BY LenProperties
<1>2. s = [k \in 1 .. Len(acs) |-> s[k]] /\ t = [k \in 1 .. Len(cs) |-> t[k]]
  BY <1>1 DEF Stories, Tests
<1>3. /\ JiraRows(acs, cs, matrix) = s \o t
      /\ \A k \in DOMAIN acs : s[k].summary = acs[k].desc
      /\ \A i \in DOMAIN cs : t[i].components = ReqPoints(matrix, cs[i].no)
  BY DEF JiraRows, Stories, Tests
<1> HIDE DEF s, t
<1>4. s \in Seq(Values(s)) /\ Len(s) = Len(acs) /\ t \in Seq(Values(t)) /\ Len(t) = Len(cs)
  BY <1>1, <1>2, ListOfValues
<1>5. s \in Seq(V) /\ t \in Seq(V)
  BY <1>4
<1> HIDE DEF V
<1>6. \A m \in 1 .. Len(s) + Len(t) : (s \o t)[m] = IF m <= Len(s) THEN s[m] ELSE t[m - Len(s)]
  BY <1>5, ConcatProperties
<1>7. ASSUME NEW k \in DOMAIN acs PROVE (s \o t)[k] = s[k]
  <2>1. k \in 1 .. Len(s) + Len(t) /\ k <= Len(s)
    BY <1>1, <1>4
  <2> QED
    BY <1>6, <2>1
<1>8. ASSUME NEW i \in DOMAIN cs PROVE (s \o t)[Len(acs) + i] = t[i]
  <2>1. /\ Len(acs) + i \in 1 .. Len(s) + Len(t) /\ ~ (Len(acs) + i <= Len(s))
        /\ (Len(acs) + i) - Len(s) = i
    BY <1>1, <1>4
  <2> QED
    BY <1>6, <2>1
<1> QED
  BY <1>3, <1>7, <1>8

\* The gaps a score deducts are the gaps there are.
LEMMA GapsDeducted ==
  ASSUME NEW t, NEW acs \in Seq(Criteria), NEW cs, NEW ambiguities \in Seq(STRING),
         Scores(t, acs, cs, ambiguities)
  PROVE  LET gaps == Cardinality(Gaps(acs, cs))
         IN gaps > 0 <=> Has(t.deductions, Deduct(-15 * gaps, "uncovered"))
<1> DEFINE gaps == Cardinality(Gaps(acs, cs))
           x == Deduct(-15 * gaps, "uncovered")
<1>1. Has(t.deductions, x) <=> DeductsFor(x, gaps, Summary(cs), ambiguities)
  BY DEF Scores
<1>2. x.reason = "uncovered"
  BY DEF Deduct
<1>3. \A points, reason : Deduct(points, reason).reason = reason
  BY DEF Deduct
<1>4. ~Has(AmbiguityDeductions(ambiguities), x)
  <2> HIDE DEF x
  <2>1. "uncovered" # "ambiguity"
    OBVIOUS
  <2> QED
    BY <1>2, <2>1, AmbiguitiesDeduct
<1>5. x # Deduct(-15, "no negative") /\ x # Deduct(-10, "no edge") /\ x # Deduct(-10, "only positive")
  <2> HIDE DEF x
  <2>1. "uncovered" # "no negative" /\ "uncovered" # "no edge" /\ "uncovered" # "only positive"
    OBVIOUS
  <2> QED
    BY <1>2, <1>3, <2>1, Zenon
<1>6. DeductsFor(x, gaps, Summary(cs), ambiguities) <=> gaps > 0
  <2>1. gaps > 0 => DeductsFor(x, gaps, Summary(cs), ambiguities)
    BY DEF DeductsFor
  <2> HIDE DEF x, gaps
  <2>2. DeductsFor(x, gaps, Summary(cs), ambiguities) => gaps > 0
    BY <1>4, <1>5, Zenon DEF DeductsFor
  <2> QED
    BY <2>1, <2>2
<1> QED
  BY <1>1, <1>6

\* The matrix, the summary, the score, the exported matrix and the issues of a finished
\* result never disagree: they count the same gaps and list the same cases, and a case's
\* issue names the summaries of the stories of the criteria it is listed under, for any
\* criteria, with blank or equal descriptions too, and any suite ("these never disagree
\* with the actual suite", coverage.go:10-12).
THEOREM CoverageNeverDisagrees == Spec => []CoverageAgrees
<1>1. AcsInv /\ RowsInv /\ RowsTraced /\ ScoreInv => CoverageAgrees
  <2> SUFFICES ASSUME AcsInv, RowsInv, RowsTraced, ScoreInv, at = "returned"
               PROVE  CoverageAgrees
    BY DEF CoverageAgrees
  <2> DEFINE acs  == result.acs
             cs   == result.cases
             gaps == Cardinality({k \in DOMAIN result.matrix : result.matrix[k].coveredBy = {}})
             rtm  == RTMRows(acs, cs)
             issues == JiraRows(acs, cs, result.matrix)
  <2>1. /\ acs \in Seq(Criteria) /\ cs \in Seq(Rows) /\ result.ambiguities \in Seq(STRING)
        /\ \A i \in DOMAIN cs : cs[i].no = i
    BY DEF AcsInv, RowsInv, RowsTraced, ScoreInv
  <2>2. Scored /\ IsCoverage
    BY DEF Scored, ScoreInv
  <2>3. result.matrix = Matrix(acs, cs) /\ result.summary = Summary(cs)
    BY <2>2 DEF IsCoverage
  <2>4. Scores(result.score, acs, cs, result.ambiguities)
    BY <2>2, ResultScore
  <2> HIDE DEF acs, cs
  <2>5. gaps = Cardinality(Gaps(acs, cs))
    BY <2>1, <2>3, GapsAgree
  <2>6. gaps = GapCount(acs, cs)
    BY <2>1, <2>5, GapsAgree
  <2>7. gaps > 0 <=> Has(result.score.deductions, Deduct(-15 * gaps, "uncovered"))
    <3> HIDE DEF gaps
    <3> QED
      BY <2>1, <2>4, <2>5, GapsDeducted
  <2>8. result.summary.positive + result.summary.negative + result.summary.edge = Len(cs)
    BY <2>1, <2>3, SummaryCounts
  <2>9. DOMAIN rtm = DOMAIN acs /\ DOMAIN result.matrix = DOMAIN acs /\ Len(rtm) = Len(acs)
    <3>1. DOMAIN rtm = DOMAIN acs /\ DOMAIN result.matrix = DOMAIN acs
      BY <2>3 DEF RTMRows, Matrix
    <3>2. Len(acs) \in Nat /\ DOMAIN acs = 1 .. Len(acs)
      BY <2>1, LenProperties
    <3>3. rtm = [k \in 1 .. Len(acs) |-> rtm[k]]
      BY <3>2 DEF RTMRows
    <3> HIDE DEF rtm
    <3>4. Len(rtm) = Len(acs)
      BY <3>2, <3>3, ListOfValues
    <3> QED
      BY <3>1, <3>4
  <2>10. ASSUME NEW k \in DOMAIN rtm
         PROVE  /\ rtm[k].coveredBy = result.matrix[k].coveredBy
                /\ rtm[k].status = "GAP" <=> result.matrix[k].types = {}
                /\ rtm[k].coveredBy = Covering(cs, acs[k])
    <3>1. k \in DOMAIN acs
      BY <2>9
    <3>2. /\ rtm[k].coveredBy = {cs[i].no : i \in Covering(cs, acs[k])}
          /\ Matrix(acs, cs)[k].coveredBy = {cs[i].no : i \in Covering(cs, acs[k])}
          /\ rtm[k].status = "GAP" <=> Matrix(acs, cs)[k].types = {}
      BY <3>1, MatrixExported
    <3>3. {cs[i].no : i \in Covering(cs, acs[k])} = Covering(cs, acs[k])
      BY <2>1, NumbersArePlaces
    <3> QED
      BY <2>3, <3>2, <3>3
  <2>11. ASSUME NEW i \in DOMAIN cs
         PROVE  issues[Len(rtm) + i].components =
                  {issues[k].summary : k \in {k \in DOMAIN rtm : i \in rtm[k].coveredBy}} \ {""}
    <3> DEFINE listed == {k \in DOMAIN rtm : i \in rtm[k].coveredBy}
    <3>1. /\ \A k \in DOMAIN acs : issues[k].summary = acs[k].desc
          /\ issues[Len(acs) + i].components = ReqPoints(result.matrix, cs[i].no)
      <4> DEFINE matrix == result.matrix
      <4> HIDE DEF matrix
      <4>1. /\ \A k \in DOMAIN acs : JiraRows(acs, cs, matrix)[k].summary = acs[k].desc
            /\ JiraRows(acs, cs, matrix)[Len(acs) + i].components = ReqPoints(matrix, cs[i].no)
        BY <2>1, IssuesInOrder
      <4> QED
        BY <4>1 DEF matrix
    <3>2. \A k \in DOMAIN acs : result.matrix[k].point = acs[k].desc
      BY <2>3 DEF Matrix
    <3>3. {k \in DOMAIN result.matrix : i \in result.matrix[k].coveredBy} = listed
      BY <2>9, <2>10
    <3>4. cs[i].no = i /\ listed \subseteq DOMAIN acs
      BY <2>1, <2>9
    <3> HIDE DEF listed
    <3>5. ReqPoints(result.matrix, i) = {result.matrix[k].point : k \in listed} \ {""}
      BY <3>3 DEF ReqPoints
    <3> HIDE DEF rtm, issues
    <3>6. {result.matrix[k].point : k \in listed} = {issues[k].summary : k \in listed}
      BY <3>1, <3>2, <3>4
    <3>7. issues[Len(rtm) + i].components = {issues[k].summary : k \in listed} \ {""}
      BY <2>9, <3>1, <3>4, <3>5, <3>6
    <3> QED
      BY <3>7 DEF listed
  <2> HIDE DEF gaps, rtm, issues
  <2>12. /\ gaps = GapCount(acs, cs)
         /\ \A k \in DOMAIN rtm :
              /\ rtm[k].coveredBy = result.matrix[k].coveredBy
              /\ rtm[k].status = "GAP" <=> result.matrix[k].types = {}
         /\ \A i \in DOMAIN cs :
              issues[Len(rtm) + i].components =
                {issues[k].summary : k \in {k \in DOMAIN rtm : i \in rtm[k].coveredBy}} \ {""}
         /\ gaps > 0 <=> \E i \in DOMAIN result.score.deductions :
                            result.score.deductions[i] = Deduct(-15 * gaps, "uncovered")
         /\ result.summary.positive + result.summary.negative + result.summary.edge = Len(cs)
    <3>1. Has(result.score.deductions, Deduct(-15 * gaps, "uncovered"))
            <=> \E i \in DOMAIN result.score.deductions :
                  result.score.deductions[i] = Deduct(-15 * gaps, "uncovered")
      BY DEF Has
    <3> QED
      BY <2>6, <2>7, <2>8, <2>10, <2>11, <3>1
  <2> QED
    BY <2>12 DEF CoverageAgrees, gaps, rtm, issues, acs, cs
<1> QED
  BY <1>1, RowsInvariance, RowsTrace, ScoreInvariance, PTL
=============================================================================
