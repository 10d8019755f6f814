------------------------------ MODULE Exports ------------------------------
(***************************************************************************)
(* What the exported tables say of a result beyond the traceability matrix  *)
(* (export/common.go, csv.go, jira.go): the QA repository, which is also    *)
(* the table on the result page, and the issues for Jira.  All of them are  *)
(* pure functions of the result.                                            *)
(*                                                                          *)
(* A case covers a set of ids here; where the code takes the first of       *)
(* equally severe criteria, the severity is the same up to its spelling.    *)
(* The requirement points of a case are a set: each is listed once, and in  *)
(* which order is left out.                                                 *)
(***************************************************************************)
EXTENDS Coverage

\* normalizeSeverity: a vocabulary of four; anything else stays as it is.
NormalizeSeverity(s) ==
  CASE s \in {"Critical", "critical"}      -> "Critical"
    [] s \in {"High", "high"}              -> "High"
    [] s \in {"Medium", "medium", "med"}   -> "Medium"
    [] s \in {"Low", "low"}                -> "Low"
    [] OTHER                               -> s

Ranks == [Low |-> 0, Medium |-> 1, High |-> 2, Critical |-> 3]

SevRank(s) ==
  LET word == NormalizeSeverity(s) IN IF word \in DOMAIN Ranks THEN Ranks[word] ELSE -1

\* derived.acByID: of two criteria with one id the later is found.
AcById(acs, id) == acs[CHOOSE k \in DOMAIN acs :
  IdOf(acs[k]) = id /\ \A m \in DOMAIN acs : IdOf(acs[m]) = id => m <= k]

\* The criteria a case names character by character, with a severity of the four.
Ranked(acs, tc) ==
  LET named == {id \in tc.covers : \E k \in DOMAIN acs : IdOf(acs[k]) = id}
  IN {ac \in {AcById(acs, id) : id \in named} : SevRank(ac.severity) >= 0}

\* Variant: the first criterion found decides.
SeverityOfAny(acs, tc) ==
  IF Ranked(acs, tc) = {} THEN NormalizeSeverity(tc.marks.risk)
                          ELSE (CHOOSE ac \in Ranked(acs, tc) : TRUE).severity

\* The highest severity among them, or the case's own risk.
SeverityForTC(acs, tc) ==
  IF Ranked(acs, tc) = {}
    THEN NormalizeSeverity(tc.marks.risk)
    ELSE (CHOOSE ac \in Ranked(acs, tc) :
            \A other \in Ranked(acs, tc) : SevRank(other.severity) <= SevRank(ac.severity)).severity

\* The form always asks for P0-P3; a risk outside the vocabulary is P2.
PriorityForTC(risk) ==
  CASE SevRank(risk) = 3 -> "P0"
    [] SevRank(risk) = 2 -> "P1"
    [] SevRank(risk) = 0 -> "P3"
    [] OTHER             -> "P2"

Fallback(said, derived) == IF said = "" THEN derived ELSE said

\* One row per case; what the model said of it comes before what is derived.
QARepositoryRows(acs, cases) ==
  [i \in DOMAIN cases |->
     [tc       |-> cases[i].no,
      covers   |-> cases[i].covers,
      priority |-> Fallback(cases[i].marks.priority, PriorityForTC(cases[i].marks.risk)),
      severity |-> Fallback(cases[i].marks.severity, SeverityForTC(acs, cases[i])),
      type     |-> cases[i].type]]

\* reqPointsByTC: the descriptions of the criteria that the matrix says a case covers, equal
\* ones once; a blank one is none.
ReqPoints(matrix, no) ==
  {matrix[k].point : k \in {k \in DOMAIN matrix : no \in matrix[k].coveredBy}} \ {""}

\* A story per criterion, named by its description, then a test per case, whose components
\* are its requirement points.  A story's component is its module, which is left out.
JiraRows(acs, cases, matrix) ==
  [k \in DOMAIN acs |->
     [issue |-> "Story", summary |-> acs[k].desc, priority |-> PriorityForTC(acs[k].severity)]]
  \o [i \in DOMAIN cases |->
     [issue |-> "Test", components |-> ReqPoints(matrix, cases[i].no),
      priority |-> PriorityForTC(cases[i].marks.risk)]]
=============================================================================
