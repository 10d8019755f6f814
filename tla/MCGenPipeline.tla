--------------------------- MODULE MCGenPipeline ----------------------------
(* GenPipeline for TLC: what the model may answer, and what the review page posts. *)
EXTENDS GenPipeline, ReviewForm

Id(name, form) == [name |-> name, form |-> form]
Exact(name)    == Id(name, "exact")

AC(name, form, severity, desc) ==
  [name |-> name, form |-> form, severity |-> severity, desc |-> desc]

Mark(risk, severity, priority) == [risk |-> risk, severity |-> severity, priority |-> priority]
Unmarked == Mark("", "", "")
TC(type, covers, marks) == [type |-> type, covers |-> covers, marks |-> marks]

\* One criterion; two of which one has an id in capitals and no description; three (one
\* more than the cap), two of them with one description; one whose id no test case can
\* match; and two with one id.
MCAnalyses == {
  <<AC("A", "exact", "Low", "a")>>,
  <<AC("A", "exact", "med", "a"), AC("B", "cased", "High", "")>>,
  <<AC("A", "exact", "Critical", "a"), AC("B", "exact", "Low", "b"), AC("C", "exact", "", "a")>>,
  <<AC("A", "padded", "High", "a"), AC("B", "exact", "serious", "b")>>,
  <<AC("A", "exact", "High", "a"), AC("A", "exact", "Low", "b")>> }

\* The review page was left with three rows and a blank one, or was never seen.
Page == <<[desc |-> "a", severity |-> "Low"], [desc |-> "", severity |-> "Low"],
          [desc |-> "b", severity |-> "Critical"], [desc |-> "c", severity |-> ""]>>

Curated(list) ==
  [i \in DOMAIN list |-> AC(<<"A", "B", "C">>[list[i].id], "exact", list[i].severity, list[i].desc)]

MCCurations == {<<>>, Curated(ParseCuratedACs(Fields(Page)))}

\* Deductions past the bound, and one with its sign slipped.
MCAssessments ==
  { [ambiguities |-> a, deductions |-> <<>>] : a \in {<<>>, <<"Low">>, <<"med", "unclear">>} }
  \cup { [ambiguities |-> <<"Critical", "Critical", "High", "Medium">>,
          deductions  |-> <<Deduct(-60, "vague"), Deduct(50, "untestable")>>] }

\* Forgotten covers, the own or other criteria, one nobody has, ids written in another
\* way, every kind of type, and every mark set or left out.
MCBatches == {
  <<TC("Positive", {}, Mark("high", "", ""))>>,
  <<TC("Negative", {}, Unmarked), TC("Edge", {Exact("B")}, Mark("", "Low", "P0"))>>,
  <<TC("Security", {Id("A", "cased"), Id("B", "padded")}, Mark("Low", "", ""))>>,
  <<TC("Edge case", {Exact("Z")}, Mark("dire", "", "")),
    TC("Negative", {Exact("B"), Exact("C"), Exact("A")}, Unmarked)>> }
=============================================================================
