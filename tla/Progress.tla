------------------------------ MODULE Progress ------------------------------
(***************************************************************************)
(* The step plan a runner reports through queue.Progress, and what a page   *)
(* makes of it (web/view.go jobView).  A plan is the sequence of the states *)
(* of its steps; labels and details are left out.                           *)
(***************************************************************************)
EXTENDS Naturals, Sequences, FiniteSets

StepStates == {"pending", "running", "done", "failed"}

\* Progress.Plan with n labels; it replaces whatever plan there was.
Planned(n) == [i \in 1 .. n |-> "pending"]

\* Progress.Append; the new step's index is the length of the plan it returns.
Appended(plan) == Append(plan, "pending")

\* Progress.set, behind Start, Done and Fail: an index out of range is ignored.
SetStep(plan, i, s) == IF i \in DOMAIN plan THEN [plan EXCEPT ![i] = s] ELSE plan

StepsIn(plan, s) == {i \in DOMAIN plan : plan[i] = s}

\* The step whose label jobView shows: the last running one; between steps, the
\* one at the place numbered like the count of done steps; 0 is no label.
LabelledStep(plan) ==
  LET open == StepsIn(plan, "running")
  IN IF open # {} THEN CHOOSE i \in open : \A k \in open : k <= i
                  ELSE Cardinality(StepsIn(plan, "done"))
=============================================================================
