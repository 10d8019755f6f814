------------------------------ MODULE Coverage ------------------------------
(***************************************************************************)
(* Coverage, traceability score and requirement traceability matrix: the    *)
(* deterministic half of a generation (orchestrator/coverage.go), and the   *)
(* export that answers the same question again (export/rtm.go).             *)
(*                                                                          *)
(* An id as somebody wrote it is [name, form]: "exact", "cased" (another    *)
(* letter case) or "padded" (blanks around it); a criterion is its id with  *)
(* its severity and its description, which may be blank or that of another  *)
(* criterion.  A test case has its TC number, its type as written, the ids  *)
(* it says it covers, and the marks the model gave it.                      *)
(***************************************************************************)
EXTENDS Lists

Forms == {"exact", "cased", "padded"}
Ids   == [name : STRING, form : Forms]

Criteria == [name : STRING, form : Forms, severity : STRING, desc : STRING]
IdOf(ac) == [name |-> ac.name, form |-> ac.form]

\* What the model says of a case's weight, in its own words or not at all.
Marks == [risk : STRING, severity : STRING, priority : STRING]

\* Types as the model writes them; every one not named in NormType is positive.
TestTypes == {"Positive", "Negative", "Edge case", "Edge", "Security"}

\* A test case as the model answers it.
Answers == [type : TestTypes, covers : SUBSET Ids, marks : Marks]

\* A row of the result: a numbered case.
Rows == [no : Nat, type : TestTypes, covers : SUBSET Ids, marks : Marks]

NormType(t) ==
  CASE t = "Negative"            -> "Negative"
    [] t \in {"Edge case", "Edge"} -> "Edge case"
    [] OTHER                     -> "Positive"

\* Variant: the two ids are compared as they are written.
CoversVerbatim(tc, ac) == IdOf(ac) \in tc.covers

\* EqualFold(TrimSpace(c), acID): letter case never matters, blanks are taken
\* off the test case's entry only.
Covers(tc, ac) == ac.form # "padded" /\ \E c \in tc.covers : c.name = ac.name

Covering(cases, ac) == {i \in DOMAIN cases : Covers(cases[i], ac)}

\* computeCoverage's counts.
Summary(cases) ==
  LET Count(kind) == Cardinality({i \in DOMAIN cases : NormType(cases[i].type) = kind})
  IN [positive |-> Count("Positive"), negative |-> Count("Negative"), edge |-> Count("Edge case")]

\* computeCoverage's rows, one per acceptance criterion.
Matrix(acs, cases) ==
  [k \in DOMAIN acs |->
     [point     |-> acs[k].desc,
      coveredBy |-> {cases[i].no : i \in Covering(cases, acs[k])},
      types     |-> {NormType(cases[i].type) : i \in Covering(cases, acs[k])}]]

-----------------------------------------------------------------------------
(* computeTraceability. *)

Deduct(points, reason) == [points |-> points, reason |-> reason]

\* sub(points, reason), when the condition holds.
DeductIf(cond, points, reason) == IF cond THEN <<Deduct(points, reason)>> ELSE <<>>

\* "med" is read as Medium; a severity outside the four deducts nothing.
AmbiguityPoints(severity) ==
  CASE severity = "Critical"         -> -15
    [] severity = "High"             -> -8
    [] severity \in {"Medium", "med"} -> -4
    [] severity = "Low"              -> -1
    [] OTHER                         -> 0

AmbiguityDeductions(ambiguities) ==
  LET counted == Selected(ambiguities, {s \in ToSet(ambiguities) : AmbiguityPoints(s) # 0})
  IN [k \in DOMAIN counted |-> Deduct(AmbiguityPoints(counted[k]), "ambiguity")]

Uncovered(acs, cases) ==
  Cardinality({k \in DOMAIN acs : \A i \in DOMAIN cases : ~Covers(cases[i], acs[k])})

Deductions(acs, cases, summary, ambiguities) ==
  LET gaps == Uncovered(acs, cases)
  IN DeductIf(gaps > 0, -15 * gaps, "uncovered")
     \o DeductIf(summary.negative = 0, -15, "no negative")
     \o DeductIf(summary.edge = 0, -10, "no edge")
     \o DeductIf(summary.negative = 0 /\ summary.edge = 0, -10, "only positive")
     \o AmbiguityDeductions(ambiguities)

Total(deductions) == SumFrom(100, [k \in DOMAIN deductions |-> deductions[k].points])

\* Variant: the lower bound of the best rating is off by ten.
TraceRatingLenient(score) ==
  CASE score >= 85        -> "Fully Covered"
    [] score \in 70 .. 84 -> "Coverage Risk"
    [] score \in 50 .. 69 -> "Significant Gaps"
    [] OTHER              -> "Unsafe To Release"

TraceRating(score) ==
  CASE score >= 95        -> "Fully Covered"
    [] score \in 85 .. 94 -> "Minor Gaps"
    [] score \in 70 .. 84 -> "Coverage Risk"
    [] score \in 50 .. 69 -> "Significant Gaps"
    [] OTHER              -> "Unsafe To Release"

\* Variant: the score is not kept within its bounds.
TraceabilityUnbounded(acs, cases, summary, ambiguities) ==
  LET deductions == Deductions(acs, cases, summary, ambiguities)
  IN [score |-> Total(deductions), rating |-> TraceRating(Total(deductions)), deductions |-> deductions]

Traceability(acs, cases, summary, ambiguities) ==
  LET deductions == Deductions(acs, cases, summary, ambiguities)
      total == Total(deductions)
      score == IF total < 0 THEN 0 ELSE IF total > 100 THEN 100 ELSE total
  IN [score |-> score, rating |-> TraceRating(score), deductions |-> deductions]

-----------------------------------------------------------------------------
(* export/rtm.go has its own copy of covers. *)

TcCovers(tc, ac) == ac.form # "padded" /\ \E c \in tc.covers : c.name = ac.name

RTMRows(acs, cases) ==
  [k \in DOMAIN acs |->
     LET covering == {i \in DOMAIN cases : TcCovers(cases[i], acs[k])}
     IN [coveredBy |-> {cases[i].no : i \in covering},
         types     |-> {cases[i].type : i \in covering},
         status    |-> IF covering = {} THEN "GAP" ELSE "Covered"]]

GapCount(acs, cases) ==
  Cardinality({k \in DOMAIN acs : ~\E i \in DOMAIN cases : TcCovers(cases[i], acs[k])})
=============================================================================
