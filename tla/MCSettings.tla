---------------------------- MODULE MCSettings -----------------------------
(* Settings for TLC: what a form or a file may hold. *)
EXTENDS Settings

Line(word, form) == [word |-> word, form |-> form]

\* Saves are interchangeable.
Symmetry == Permutations(Saves)

MCDefaults == <<Line("web", "cased"), Line("mobile", "cased"), Line("desktop", "cased")>>

\* A wiped list, one of blanks, the same choice in three ways, fewer and more choices
\* than the defaults have.
MCSubmitted == {
  <<>>,
  <<Line("", "padded")>>,
  <<Line("web", "padded"), Line("web", "cased"), Line("api", "exact"), Line("web", "exact")>>,
  <<Line("api", "exact")>>,
  <<Line("web", "exact"), Line("api", "padded"), Line("cli", "exact"), Line("mobile", "cased")>> }
=============================================================================
