---------------------------- MODULE MCReviewFlow ----------------------------
(* ReviewFlow for TLC. *)
EXTENDS ReviewFlow

Row(desc, severity) == [desc |-> desc, severity |-> severity]

\* One criterion, and two of which the model left the first one's description blank.
MCAnalyses == { <<Row("a", "High"), Row("b", "Low")>>, <<Row("", "High"), Row("b", "Low")>> }

\* Tabs and job ids are interchangeable.
Symmetry == Permutations(Tabs) \cup Permutations(Jobs)
=============================================================================
