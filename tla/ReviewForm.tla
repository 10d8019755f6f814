----------------------------- MODULE ReviewForm -----------------------------
(***************************************************************************)
(* The acceptance criteria on their way through the review page: rows on    *)
(* the page (validation.html), parallel arrays in the form it posts, and    *)
(* the criteria the server makes of them (handlers.go parseCuratedACs).     *)
(*                                                                          *)
(* A row is [desc, severity]; "" is a blank description, or the severity of *)
(* a row the reviewer added.  Module and risk travel like the severity.     *)
(***************************************************************************)
EXTENDS Lists

PageRows == [desc : STRING, severity : STRING]

\* The hidden inputs, in the order of the rows.
Fields(rows) ==
  [desc     |-> [i \in DOMAIN rows |-> rows[i].desc],
   severity |-> [i \in DOMAIN rows |-> rows[i].severity]]

\* at: an array that is too short has blanks at its end.
At(list, i) == IF i \in DOMAIN list THEN list[i] ELSE ""

\* The places of the rows that have a description.
Filled(form) ==
  Selected([i \in DOMAIN form.desc |-> i], {i \in DOMAIN form.desc : form.desc[i] # ""})

\* Variant: the other arrays are read at the number the criterion gets.
ParseCuratedShifted(form) ==
  LET filled == Filled(form)
  IN [n \in DOMAIN filled |->
        [id |-> n, desc |-> form.desc[filled[n]], severity |-> At(form.severity, n)]]

\* Blank rows are dropped, the others numbered AC-1..N; the other arrays are read at
\* the place of the row.
ParseCuratedACs(form) ==
  LET filled == Filled(form)
  IN [n \in DOMAIN filled |->
        [id |-> n, desc |-> form.desc[filled[n]], severity |-> At(form.severity, filled[n])]]
=============================================================================
