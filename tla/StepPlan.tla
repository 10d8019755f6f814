------------------------------ MODULE StepPlan ------------------------------
(***************************************************************************)
(* What a runner promises the page that follows it (queue.go:40-41, "the    *)
(* 1..N checklist a multi-step runner advances through"): steps run one at  *)
(* a time and in order, each settles once and for good, the list only       *)
(* grows, and no step is left open when the runner returns.                 *)
(***************************************************************************)
EXTENDS Progress

VARIABLES
  plan,       \* the states of the steps so far
  over        \* the runner has returned

pvars == <<plan, over>>

Running == StepsIn(plan, "running")
Pending == StepsIn(plan, "pending")

PInit ==
  /\ plan = <<>>
  /\ over = FALSE

\* The first list of steps.
Lay ==
  /\ plan = <<>>
  /\ Len(plan') > 0
  /\ plan' = Planned(Len(plan'))

Extend ==
  /\ plan # <<>>
  /\ plan' = Appended(plan)

\* The first step that has not run starts; no other is running.
Begin ==
  /\ Running = {}
  /\ \E i \in Pending :
       /\ \A k \in Pending : i <= k
       /\ plan' = SetStep(plan, i, "running")

Settle ==
  \E i \in Running, s \in {"done", "failed"} : plan' = SetStep(plan, i, s)

Finish ==
  /\ Running = {}
  /\ Pending = {}
  /\ over' = TRUE
  /\ UNCHANGED plan

PNext ==
  /\ ~over
  /\ \/ (Lay \/ Extend \/ Begin \/ Settle) /\ UNCHANGED over
     \/ Finish

PSpec == PInit /\ [][PNext]_pvars
=============================================================================
