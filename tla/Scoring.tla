------------------------------ MODULE Scoring ------------------------------
(***************************************************************************)
(* The scores qa-ai bounds before it answers (scoring.go): a score is       *)
(* recomputed from its deductions, whatever the model called it, and the    *)
(* rating follows from the score.  qa-core has a policy of its own for the  *)
(* traceability score (Coverage); the bands are written down twice.         *)
(***************************************************************************)
EXTENDS Lists

\* "deductions are penalties; treat any positive as a sign slip"
Penalty(points) == IF points > 0 THEN -points ELSE points

\* normalize: what the deductions leave of 100.
Normalized(deductions) ==
  LET total == SumFrom(100, [k \in DOMAIN deductions |-> Penalty(deductions[k].points)])
  IN IF total < 0 THEN 0 ELSE IF total > 100 THEN 100 ELSE total

HealthRating(score) ==
  CASE score >= 90        -> "Excellent"
    [] score \in 75 .. 89 -> "Good"
    [] score \in 60 .. 74 -> "Needs Clarification"
    [] score \in 40 .. 59 -> "High Risk"
    [] OTHER              -> "Not Test Ready"

AiTraceRating(score) ==
  CASE score >= 95        -> "Fully Covered"
    [] score \in 85 .. 94 -> "Minor Gaps"
    [] score \in 70 .. 84 -> "Coverage Risk"
    [] score \in 50 .. 69 -> "Significant Gaps"
    [] OTHER              -> "Unsafe To Release"

\* ClampHealth, the last step of an analysis.
ClampHealth(deductions) ==
  LET score == Normalized(deductions)
  IN [score |-> score, rating |-> HealthRating(score), deductions |-> deductions]

\* What Clamp makes of a traceability score.
ClampTrace(trace) ==
  LET score == Normalized(trace.deductions)
  IN [score |-> score, rating |-> AiTraceRating(score), deductions |-> trace.deductions]
=============================================================================
