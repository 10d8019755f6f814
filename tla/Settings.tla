------------------------------ MODULE Settings ------------------------------
(***************************************************************************)
(* The editable vocabularies of the form (internal/options/options.go) and  *)
(* the page that saves them (web/handlers.go).  Set changes the memory      *)
(* under the lock and writes the file after it, in two steps: the file is   *)
(* emptied when it is opened and written then.  Saves may overlap, fail, or *)
(* be cut by the end of the process; the next one loads what it finds.      *)
(*                                                                          *)
(* One list stands for the three, which are treated alike.  A line of the   *)
(* form is [word, form]: "exact", "cased" (another letter case), "padded"   *)
(* (blanks around it); a line of blanks has the word "".                    *)
(***************************************************************************)
EXTENDS Integers, SequencesExt

\* A line, trimmed or not.
Lines == [word : STRING, form : {"exact", "cased", "padded"}]

\* The choices a form can show: some, none of them blank, with blanks around it, or
\* there twice in any letter case.
Shows(list) ==
  /\ list # <<>>
  /\ \A i, k \in DOMAIN list : list[i].word = list[k].word => i = k
  /\ \A i \in DOMAIN list : list[i].word # "" /\ list[i].form # "padded"

CONSTANTS
  Saves,      \* one element per POST /settings
  Submitted,  \* the lists of lines a form, or somebody editing the file, may bring
  Defaults,   \* defaults()
  MaxBoots    \* bound on the starts of the process

ASSUME SettingsAssumption ==
  /\ Submitted \subseteq Seq(Lines)
  /\ Defaults \in Seq(Lines) /\ Shows(Defaults)
  /\ MaxBoots \in Nat \ {0}

VARIABLES
  up,         \* the process runs
  boots,      \* how often it was started
  cur,        \* Store.cur
  file,       \* what is on disk
  save,       \* where each handleSaveSettings stands
  mine,       \* the sanitized list it saves
  troubled    \* saves overlapped, or one was cut or failed, since all were one last

vars == <<up, boots, cur, file, save, mine, troubled>>

SavePoints == {"new", "opening", "writing", "returned", "lost"}
AtWork     == {s \in Saves : save[s] \in {"opening", "writing"}}

-----------------------------------------------------------------------------
(* sanitize. *)

Trimmed(line) == IF line.form = "padded" THEN [line EXCEPT !.form = "exact"] ELSE line

\* A blank line, and what was there in any letter case, is dropped.
Kept(out, line) ==
  IF line.word = "" \/ \E i \in DOMAIN out : out[i].word = line.word
  THEN out ELSE Append(out, Trimmed(line))

Clean(list) == FoldLeft(Kept, <<>>, list)

OrDefault(list) == IF list = <<>> THEN Defaults ELSE list

Sanitize(list) == OrDefault(Clean(list))

\* Every list a save can bring.
Vocabularies == {Sanitize(list) : list \in Submitted} \cup {Defaults}

-----------------------------------------------------------------------------
(* The file: the list written at its start and how long it is.  A list fills as many *)
(* units as it has choices; when a longer file had been there its rest follows, and   *)
(* the file does not parse.                                                           *)

Holding(list) == [start |-> list, size |-> Len(list)]
Emptied       == [start |-> <<>>, size |-> 0]
Parses(f)     == f.start # <<>> /\ f.size = Len(f.start)

Load == IF Parses(file) THEN Sanitize(file.start) ELSE Defaults

Written(list) == [start |-> list, size |-> IF file.size > Len(list) THEN file.size ELSE Len(list)]

-----------------------------------------------------------------------------
\* A file somebody wrote by hand, or none.
Init ==
  /\ up = TRUE /\ boots = 1
  /\ file \in {Holding(list) : list \in Submitted}
  /\ cur = Load
  /\ save = [s \in Saves |-> "new"]
  /\ mine = [s \in Saves |-> <<>>]
  /\ troubled = FALSE

\* The form is read and Set changes the memory.
SetMemory(s) ==
  /\ up /\ save[s] = "new"
  /\ \E list \in Submitted :
       /\ cur' = Sanitize(list)
       /\ mine' = [mine EXCEPT ![s] = Sanitize(list)]
  /\ save' = [save EXCEPT ![s] = "opening"]
  /\ troubled' = (AtWork # {})
  /\ UNCHANGED <<up, boots, file>>

\* Variant: the file is opened without being emptied.
OpenFileKeeps(s) ==
  /\ up /\ save[s] = "opening"
  /\ save' = [save EXCEPT ![s] = "writing"]
  /\ UNCHANGED <<up, boots, cur, file, mine, troubled>>

\* The file is opened for writing, which empties it.
OpenFile(s) ==
  /\ up /\ save[s] = "opening"
  /\ file' = Emptied
  /\ save' = [save EXCEPT ![s] = "writing"]
  /\ UNCHANGED <<up, boots, cur, mine, troubled>>

WriteFile(s) ==
  /\ up /\ save[s] = "writing"
  /\ file' = Written(mine[s])
  /\ save' = [save EXCEPT ![s] = "returned"]
  /\ UNCHANGED <<up, boots, cur, mine, troubled>>

\* The file cannot be opened, or takes only a part: a warning is logged, the page is
\* told that it was saved.
PersistFails(s) ==
  /\ up /\ save[s] \in {"opening", "writing"}
  /\ \/ UNCHANGED file
     \/ /\ save[s] = "writing"
        /\ \E n \in 1 .. Len(mine[s]) - 1 :
             file' = [start |-> <<>>, size |-> IF file.size > n THEN file.size ELSE n]
  /\ save' = [save EXCEPT ![s] = "returned"]
  /\ troubled' = TRUE
  /\ UNCHANGED <<up, boots, cur, mine>>

\* The process ends, between any two steps of a save.
Crash ==
  /\ up
  /\ up' = FALSE
  /\ save' = [s \in Saves |-> IF s \in AtWork THEN "lost" ELSE save[s]]
  /\ troubled' = (troubled \/ AtWork # {})
  /\ UNCHANGED <<boots, cur, file, mine>>

\* Variant: what is read is taken as it is.
BootTrusting ==
  /\ ~up /\ boots < MaxBoots
  /\ up' = TRUE /\ boots' = boots + 1
  /\ cur' = IF Parses(file) THEN file.start ELSE Defaults
  /\ troubled' = FALSE
  /\ UNCHANGED <<file, save, mine>>

Boot ==
  /\ ~up /\ boots < MaxBoots
  /\ up' = TRUE /\ boots' = boots + 1
  /\ cur' = Load
  /\ troubled' = FALSE
  /\ UNCHANGED <<file, save, mine>>

HandleSaveSettings(s) == SetMemory(s) \/ OpenFile(s) \/ WriteFile(s) \/ PersistFails(s)

Next == (\E s \in Saves : HandleSaveSettings(s)) \/ Crash \/ Boot

Spec == Init /\ [][Next]_vars

-----------------------------------------------------------------------------
(* Properties. *)

\* Every variable has its type, and the choices every form shows are ones it can show:
\* "a Settings save that wiped a whole list shouldn't brick the form" (options.go:79-80),
\* nor does a file that somebody edited or that a crash left in pieces.
VTypeOK ==
  /\ up \in BOOLEAN /\ boots \in 1 .. MaxBoots /\ troubled \in BOOLEAN
  /\ save \in [Saves -> SavePoints]
  /\ mine \in [Saves -> Vocabularies \cup {<<>>}]
  /\ file.size \in Nat
  /\ up => Shows(cur)

\* "Set validates, stores, and persists" (options.go:61): once a save that no other
\* overlapped has returned, and its file could be written, a restart brings back what
\* every form shows, whatever an earlier save had left on disk.
RestartKeeps == up /\ AtWork = {} /\ ~troubled => Load = cur
=============================================================================
