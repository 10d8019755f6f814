--------------------------- MODULE SettingsProofs ---------------------------
(* Theorems about Settings, for any lists submitted and any number of saves. *)
EXTENDS Settings, DataLemmas

\* A list a form can show but that it may be empty.
Clear(list) ==
  /\ list \in Seq(Lines)
  /\ \A i, k \in DOMAIN list : list[i].word = list[k].word => i = k
  /\ \A i \in DOMAIN list : list[i].word # "" /\ list[i].form # "padded"

\* What a form shows.
Vocabulary(list) == list \in Seq(Lines) /\ Shows(list)

-----------------------------------------------------------------------------
(* What sanitize returns. *)

\* Keeping a line keeps a list clear, and a line not dropped is there as it was trimmed.
LEMMA KeptClear ==
  ASSUME NEW out \in Seq(Lines), Clear(out), NEW line \in Lines
  PROVE  Clear(Kept(out, line))
<1>1. CASE line.word = "" \/ \E i \in DOMAIN out : out[i].word = line.word
  BY <1>1 DEF Kept
<1>2. CASE line.word # "" /\ \A i \in DOMAIN out : out[i].word # line.word
  <2> DEFINE trimmed == Trimmed(line)
             more    == Append(out, trimmed)
  <2>1. trimmed \in Lines /\ trimmed.word = line.word /\ trimmed.form # "padded"
    BY DEF Trimmed, Lines
  <2>2. Kept(out, line) = more
    BY <1>2 DEF Kept
  <2> HIDE DEF trimmed
  <2>3. /\ more \in Seq(Lines) /\ Len(more) = Len(out) + 1 /\ Len(out) \in Nat
        /\ \A i \in 1 .. Len(out) : more[i] = out[i]
        /\ more[Len(out) + 1] = trimmed
        /\ DOMAIN out = 1 .. Len(out)
    BY <2>1, AppendProperties, LenProperties
  <2> HIDE DEF more
  <2>4. DOMAIN more = 1 .. Len(out) + 1
    BY <2>3, LenProperties
  <2>5. \A i \in DOMAIN more : i \in DOMAIN out \/ i = Len(out) + 1
    BY <2>3, <2>4
  <2>6. \A i \in DOMAIN more : more[i].word # "" /\ more[i].form # "padded"
    BY <1>2, <2>1, <2>3, <2>5 DEF Clear
  <2>7. \A i \in DOMAIN out : more[i].word # more[Len(out) + 1].word
    BY <1>2, <2>1, <2>3
  <2>8. \A i, k \in DOMAIN more : more[i].word = more[k].word => i = k
    BY <2>3, <2>5, <2>7 DEF Clear
  <2> QED
    BY <2>2, <2>3, <2>6, <2>8 DEF Clear
<1> QED
  BY <1>1, <1>2

\* The loop of clean, line by line.
Cleaning(run, list) ==
  /\ run \in [0 .. Len(list) -> Seq(Lines)]
  /\ run[0] = <<>>
  /\ \A i \in 1 .. Len(list) : run[i] = Kept(run[i - 1], list[i])
  /\ run[Len(list)] = Clean(list)

LEMMA CleaningRun ==
  ASSUME NEW list \in Seq(Lines)
  PROVE  \E run : Cleaning(run, list)
<1> DEFINE g == [p \in Seq(Lines) \X Lines |-> Kept(p[1], p[2])]
           Equation(it) ==
             it = [s \in SUBSET DOMAIN list |->
                     IF s = {} THEN <<>> ELSE Kept(it[s \ {Max(s)}], list[Max(s)])]
<1>1. Len(list) \in Nat /\ DOMAIN list = 1 .. Len(list) /\ \A i \in 1 .. Len(list) : list[i] \in Lines
  BY LenProperties, ElementOfSeq
<1>2. g \in [Seq(Lines) \X Lines -> Seq(Lines)] /\ <<>> \in Seq(Lines)
  <2>1. \A s \in Seq(Lines), x \in Lines : Kept(s, x) \in Seq(Lines)
    <3> SUFFICES ASSUME NEW s \in Seq(Lines), NEW x \in Lines PROVE Kept(s, x) \in Seq(Lines)
      OBVIOUS
    <3>1. Trimmed(x) \in Lines
      BY DEF Trimmed, Lines
    <3>2. Append(s, Trimmed(x)) \in Seq(Lines)
      BY <3>1, AppendProperties
    <3> QED
      BY <3>2 DEF Kept
  <2>2. \A p \in Seq(Lines) \X Lines : p[1] \in Seq(Lines) /\ p[2] \in Lines
    OBVIOUS
  <2>3. \A p \in Seq(Lines) \X Lines : Kept(p[1], p[2]) \in Seq(Lines)
    BY <2>1, <2>2
  <2> QED
    BY <2>3
<1>3. \A s \in Seq(Lines), x \in Lines : g[<<s, x>>] = Kept(s, x)
  OBVIOUS
<1> HIDE DEF g
<1>4. \E it : Equation(it)
  <2>0. PICK it : FoldsWith(it, Seq(Lines), <<>>, g, list)
    BY <1>2, FoldTable
  <2>1. /\ it \in [SUBSET DOMAIN list -> Seq(Lines)] /\ it[{}] = <<>>
        /\ \A s \in SUBSET DOMAIN list : s # {} => it[s] = g[<<it[s \ {Max(s)}], list[Max(s)]>>]
    BY <2>0 DEF FoldsWith
  <2>2. ASSUME NEW s \in SUBSET DOMAIN list, s # {}
        PROVE  it[s] = Kept(it[s \ {Max(s)}], list[Max(s)])
    <3>1. Max(s) \in 1 .. Len(list)
      BY <1>1, <2>2, GreatestIndex
    <3>2. it[s \ {Max(s)}] \in Seq(Lines) /\ list[Max(s)] \in Lines
      BY <1>1, <2>1, <3>1
    <3> QED
      BY <1>3, <2>1, <2>2, <3>2
  <2> QED
    BY <2>1, <2>2
<1>5. PICK it : Equation(it) /\ Clean(list) = it[DOMAIN list]
  BY <1>4 DEF Clean, FoldLeft, MapThenFoldSet
<1>6. it[{}] = <<>>
  BY <1>5
<1>7. ASSUME NEW i \in 1 .. Len(list)
      PROVE  it[1 .. i] = Kept(it[1 .. (i - 1)], list[i])
  <2>1. Max(1 .. i) = i /\ (1 .. i) \ {i} = 1 .. (i - 1) /\ 1 .. i # {}
    BY <1>1, FirstIndices
  <2>2. 1 .. i \in SUBSET DOMAIN list
    BY <1>1
  <2> QED
    BY <1>5, <2>1, <2>2
<1> HIDE DEF Equation
<1>8. StepsWith(it, Seq(Lines), <<>>, g, list)
  BY <1>1, <1>3, <1>6, <1>7 DEF StepsWith
<1>9. PICK run : RunsWith(run, Seq(Lines), <<>>, g, list, it[DOMAIN list])
  BY <1>2, <1>8, PrefixRun
<1>10. \A i \in 1 .. Len(list) : run[i - 1] \in Seq(Lines) /\ list[i] \in Lines
  BY <1>1, <1>9 DEF RunsWith
<1>11. \A i \in 1 .. Len(list) : run[i] = Kept(run[i - 1], list[i])
  BY <1>3, <1>9, <1>10 DEF RunsWith
<1> QED
  BY <1>5, <1>9, <1>11 DEF RunsWith, Cleaning

\* A list is clear once it was cleaned.
LEMMA CleanIsClear ==
  ASSUME NEW list \in Seq(Lines)
  PROVE  Clear(Clean(list))
<1>1. Len(list) \in Nat /\ \A i \in 1 .. Len(list) : list[i] \in Lines
  BY LenProperties, ElementOfSeq
<1>2. PICK run : Cleaning(run, list)
  BY CleaningRun
<1>3. /\ run \in [0 .. Len(list) -> Seq(Lines)] /\ run[0] = <<>>
      /\ \A i \in 1 .. Len(list) : run[i] = Kept(run[i - 1], list[i])
      /\ run[Len(list)] = Clean(list)
  BY <1>2 DEF Cleaning
<1> DEFINE T == {i \in Nat : i <= Len(list) => Clear(run[i])}
<1>4. 0 \in T
  <2>1. Clear(<<>>)
    BY EmptySeq DEF Clear
  <2> QED
    BY <1>3, <2>1
<1>5. ASSUME NEW n \in Nat, n \in T PROVE n + 1 \in T
  <2> SUFFICES ASSUME n + 1 <= Len(list)
               PROVE  Clear(run[n + 1])
    OBVIOUS
  <2>1. n + 1 \in 1 .. Len(list) /\ (n + 1) - 1 = n /\ n \in 0 .. Len(list) /\ n <= Len(list)
    BY <1>1
  <2>2. Clear(run[n]) /\ run[n] \in Seq(Lines) /\ list[n + 1] \in Lines
    BY <1>1, <1>3, <1>5, <2>1
  <2>3. run[n + 1] = Kept(run[n], list[n + 1])
    BY <1>3, <2>1
  <2> QED
    BY <2>2, <2>3, KeptClear
<1>6. Len(list) \in T
  <2> HIDE DEF T
  <2> QED
    BY <1>1, <1>4, <1>5, NumberInduction
<1> QED
  BY <1>1, <1>3, <1>6

\* Cleaning changes nothing in a clear list.
LEMMA ClearIsClean ==
  ASSUME NEW list, Clear(list)
  PROVE  Clean(list) = list
<1>1. /\ list \in Seq(Lines) /\ Len(list) \in Nat /\ DOMAIN list = 1 .. Len(list)
      /\ \A i \in 1 .. Len(list) : list[i] \in Lines
  BY LenProperties, ElementOfSeq DEF Clear
<1>2. PICK run : Cleaning(run, list)
  BY <1>1, CleaningRun
<1>3. /\ run \in [0 .. Len(list) -> Seq(Lines)] /\ run[0] = <<>>
      /\ \A i \in 1 .. Len(list) : run[i] = Kept(run[i - 1], list[i])
      /\ run[Len(list)] = Clean(list)
  BY <1>2 DEF Cleaning
<1> DEFINE Same(i) == Len(run[i]) = i /\ \A k \in 1 .. i : run[i][k] = list[k]
           T == {i \in Nat : i <= Len(list) => Same(i)}
<1>4. 0 \in T
  BY <1>3, EmptySeq
<1>5. ASSUME NEW n \in Nat, n \in T PROVE n + 1 \in T
  <2> SUFFICES ASSUME n + 1 <= Len(list)
               PROVE  Same(n + 1)
    <3> HIDE DEF Same
    <3> QED
      OBVIOUS
  <2>1. n + 1 \in 1 .. Len(list) /\ (n + 1) - 1 = n /\ n \in 0 .. Len(list) /\ n <= Len(list)
    BY <1>1
  <2>2. Same(n)
    <3> HIDE DEF Same
    <3> QED
      BY <1>5, <2>1
  <2>3. run[n] \in Seq(Lines) /\ run[n + 1] = Kept(run[n], list[n + 1]) /\ DOMAIN run[n] = 1 .. n
    <3>1. run[n] \in Seq(Lines) /\ run[n + 1] = Kept(run[n], list[n + 1])
      BY <1>3, <2>1
    <3> QED
      BY <2>2, <3>1, LenProperties
  <2>4. \A i \in DOMAIN run[n] : run[n][i].word # list[n + 1].word
    <3> SUFFICES ASSUME NEW i \in 1 .. n PROVE list[i].word # list[n + 1].word
      BY <2>2, <2>3
    <3>1. i \in DOMAIN list /\ n + 1 \in DOMAIN list /\ i # n + 1
      BY <1>1, <2>1
    <3> QED
      BY <3>1 DEF Clear
  <2>5. Trimmed(list[n + 1]) = list[n + 1] /\ list[n + 1].word # "" /\ list[n + 1] \in Lines
    BY <1>1, <2>1 DEF Clear, Trimmed
  <2>6. run[n + 1] = Append(run[n], list[n + 1])
    BY <2>3, <2>4, <2>5 DEF Kept
  <2>7. /\ Len(run[n + 1]) = Len(run[n]) + 1
        /\ \A k \in 1 .. Len(run[n]) : run[n + 1][k] = run[n][k]
        /\ run[n + 1][Len(run[n]) + 1] = list[n + 1]
    <3>1. run[n] \in Seq(Lines) /\ list[n + 1] \in Lines
      BY <2>3, <2>5
    <3>2. /\ Len(Append(run[n], list[n + 1])) = Len(run[n]) + 1
          /\ \A k \in 1 .. Len(run[n]) : Append(run[n], list[n + 1])[k] = run[n][k]
          /\ Append(run[n], list[n + 1])[Len(run[n]) + 1] = list[n + 1]
      BY <3>1, AppendProperties
    <3> QED
      BY <2>6, <3>2
  <2>8. Len(run[n + 1]) = n + 1
    BY <2>2, <2>7
  <2>9. ASSUME NEW k \in 1 .. n + 1 PROVE run[n + 1][k] = list[k]
    <3>1. CASE k = n + 1
      BY <2>2, <2>7, <3>1
    <3>2. CASE k # n + 1
      <4>1. k \in 1 .. n
        BY <3>2
      <4> QED
        BY <2>2, <2>7, <4>1
    <3> QED
      BY <3>1, <3>2
  <2> QED
    BY <2>8, <2>9
<1>6. Len(list) \in T
  <2> HIDE DEF T
  <2> QED
    BY <1>1, <1>4, <1>5, NumberInduction
<1>7. Same(Len(list)) /\ run[Len(list)] \in Seq(Lines)
  <2>1. Len(list) \in 0 .. Len(list) /\ Len(list) <= Len(list)
    BY <1>1
  <2>2. Same(Len(list))
    <3> HIDE DEF Same
    <3> QED
      BY <1>6, <2>1
  <2> QED
    BY <1>3, <2>1, <2>2
<1>8. run[Len(list)] = list
  BY <1>1, <1>7, SeqEqual
<1> QED
  BY <1>3, <1>8

\* What sanitize returns a form can show, and it leaves alone what a form can show: a
\* list written by one process is what the next one loads.
LEMMA SanitizeShows ==
  ASSUME NEW list \in Seq(Lines)
  PROVE  Vocabulary(Sanitize(list))
<1>1. Clear(Clean(list))
  BY CleanIsClear
<1>2. Vocabulary(Defaults)
  BY SettingsAssumption DEF Vocabulary
<1> QED
  BY <1>1, <1>2 DEF Sanitize, OrDefault, Clear, Vocabulary, Shows

LEMMA SanitizeKeeps ==
  ASSUME NEW list, Vocabulary(list)
  PROVE  Sanitize(list) = list
<1>1. Clear(list) /\ list # <<>>
  BY DEF Vocabulary, Shows, Clear
<1> QED
  BY <1>1, ClearIsClean DEF Sanitize, OrDefault

LEMMA VocabulariesShow == \A list \in Vocabularies : Vocabulary(list)
<1>1. \A list \in Submitted : list \in Seq(Lines)
  BY SettingsAssumption
<1>2. \A list \in Submitted : Vocabulary(Sanitize(list))
  BY <1>1, SanitizeShows
<1>3. Vocabulary(Defaults)
  BY SettingsAssumption DEF Vocabulary
<1> QED
  BY <1>2, <1>3 DEF Vocabularies

-----------------------------------------------------------------------------
(* The inductive invariant. *)

\* Types, and who saves nothing when the process is down.
StoreInv ==
  /\ up \in BOOLEAN /\ boots \in 1 .. MaxBoots /\ troubled \in BOOLEAN
  /\ save \in [Saves -> SavePoints]
  /\ mine \in [Saves -> Vocabularies \cup {<<>>}]
  /\ file.start \in Seq(Lines) /\ file.size \in Nat
  /\ Vocabulary(cur)
  /\ \A s \in AtWork : mine[s] \in Vocabularies
  /\ ~up => AtWork = {}

\* Without trouble at most one save is at work, of the list in memory, and it starts to
\* write on an empty file; when none is, the file brings back what is in memory.
LastSaveInv ==
  up /\ ~troubled =>
    /\ \A s, t \in AtWork : s = t
    /\ \A s \in AtWork : mine[s] = cur /\ (save[s] = "writing" => file = Emptied)
    /\ AtWork = {} => Load = cur

IInv == StoreInv /\ LastSaveInv

\* What is loaded, a form can show.
LEMMA LoadShows ==
  ASSUME file.start \in Seq(Lines)
  PROVE  Vocabulary(Load)
<1>1. Vocabulary(Defaults)
  BY SettingsAssumption DEF Vocabulary
<1> QED
  BY <1>1, SanitizeShows DEF Load

\* The saves at work after one has gone on or returned.
LEMMA AtWorkMoves ==
  ASSUME save \in [Saves -> SavePoints], NEW s \in Saves, NEW point \in SavePoints,
         save' = [save EXCEPT ![s] = point]
  PROVE  AtWork' = IF point \in {"opening", "writing"} THEN AtWork \cup {s} ELSE AtWork \ {s}
BY DEF AtWork

LEMMA SetMemoryKeeps ==
  ASSUME IInv, NEW s \in Saves, SetMemory(s)
  PROVE  IInv'
<1>1. PICK list \in Submitted :
        /\ cur' = Sanitize(list)
        /\ mine' = [mine EXCEPT ![s] = Sanitize(list)]
  BY DEF SetMemory
<1>2. /\ up /\ save[s] = "new" /\ save' = [save EXCEPT ![s] = "opening"]
      /\ troubled' = (AtWork # {})
      /\ UNCHANGED <<up, boots, file>>
  BY DEF SetMemory
<1>3. AtWork' = AtWork \cup {s}
  BY <1>2, AtWorkMoves DEF IInv, StoreInv, SavePoints
<1>4. Sanitize(list) \in Vocabularies /\ Vocabulary(cur')
  BY <1>1, VocabulariesShow DEF Vocabularies
<1>5. StoreInv'
  <2>1. save' \in [Saves -> SavePoints]
    BY <1>2 DEF IInv, StoreInv, SavePoints
  <2>2. mine' \in [Saves -> Vocabularies \cup {<<>>}]
    BY <1>1, <1>4 DEF IInv, StoreInv
  <2>3. \A r \in AtWork' : mine'[r] \in Vocabularies
    <3> SUFFICES ASSUME NEW r \in AtWork' PROVE mine'[r] \in Vocabularies
      OBVIOUS
    <3>1. r \in Saves
      BY DEF AtWork
    <3>2. mine'[r] = IF r = s THEN Sanitize(list) ELSE mine[r]
      BY <1>1, <3>1 DEF IInv, StoreInv
    <3>3. r # s => mine[r] \in Vocabularies
      BY <1>3 DEF IInv, StoreInv
    <3> QED
      BY <1>4, <3>2, <3>3
  <2>4. troubled' \in BOOLEAN
    BY <1>2
  <2> QED
    BY <1>2, <1>4, <2>1, <2>2, <2>3, <2>4 DEF IInv, StoreInv
<1>6. LastSaveInv'
  <2> SUFFICES ASSUME ~troubled' PROVE LastSaveInv'
    BY DEF LastSaveInv
  <2>1. AtWork' = {s}
    BY <1>2, <1>3
  <2>2. mine'[s] = cur' /\ save'[s] = "opening"
    BY <1>1, <1>2 DEF IInv, StoreInv
  <2> QED
    BY <2>1, <2>2 DEF LastSaveInv
<1> QED
  BY <1>5, <1>6 DEF IInv

LEMMA OpenFileKeepsInv ==
  ASSUME IInv, NEW s \in Saves, OpenFile(s)
  PROVE  IInv'
<1>1. /\ up /\ save[s] = "opening" /\ save' = [save EXCEPT ![s] = "writing"]
      /\ file' = Emptied
      /\ UNCHANGED <<up, boots, cur, mine, troubled>>
  BY DEF OpenFile
<1>2. AtWork' = AtWork /\ s \in AtWork
  <2>1. AtWork' = AtWork \cup {s}
    BY <1>1, AtWorkMoves DEF IInv, StoreInv, SavePoints
  <2>2. s \in AtWork
    BY <1>1 DEF AtWork
  <2> QED
    BY <2>1, <2>2
<1>3. file'.start \in Seq(Lines) /\ file'.size \in Nat
  BY <1>1 DEF Emptied
<1>4. save' \in [Saves -> SavePoints]
  BY <1>1 DEF IInv, StoreInv, SavePoints
<1>5. StoreInv'
  BY <1>1, <1>2, <1>3, <1>4 DEF IInv, StoreInv
<1>6. LastSaveInv'
  BY <1>1, <1>2 DEF IInv, LastSaveInv
<1> QED
  BY <1>5, <1>6 DEF IInv

\* A list written on an empty file is what is loaded.
LEMMA WrittenLoads ==
  ASSUME NEW list, Vocabulary(list), file = Emptied, file' = Written(list)
  PROVE  Load' = list
<1>1. Len(list) \in Nat /\ list # <<>>
  BY LenProperties DEF Vocabulary, Shows
<1>2. file'.start = list /\ file'.size = Len(list)
  BY <1>1 DEF Emptied, Written
<1>3. Parses(file')
  BY <1>1, <1>2 DEF Parses
<1>4. Load' = Sanitize(list)
  BY <1>2, <1>3 DEF Load
<1> QED
  BY <1>4, SanitizeKeeps

LEMMA WriteFileKeeps ==
  ASSUME IInv, NEW s \in Saves, WriteFile(s)
  PROVE  IInv'
<1>1. /\ up /\ save[s] = "writing" /\ save' = [save EXCEPT ![s] = "returned"]
      /\ file' = Written(mine[s])
      /\ UNCHANGED <<up, boots, cur, mine, troubled>>
  BY DEF WriteFile
<1>2. AtWork' = AtWork \ {s} /\ s \in AtWork
  <2>1. s \in AtWork
    BY <1>1 DEF AtWork
  <2> QED
    BY <1>1, <2>1, AtWorkMoves DEF IInv, StoreInv, SavePoints
<1>3. Vocabulary(mine[s])
  BY <1>2, VocabulariesShow DEF IInv, StoreInv
<1>4. file'.start \in Seq(Lines) /\ file'.size \in Nat
  BY <1>1, <1>3, LenProperties DEF Written, Vocabulary, IInv, StoreInv
<1>5. save' \in [Saves -> SavePoints]
  BY <1>1 DEF IInv, StoreInv, SavePoints
<1>6. StoreInv'
  BY <1>1, <1>2, <1>4, <1>5 DEF IInv, StoreInv
<1>7. LastSaveInv'
  <2> SUFFICES ASSUME ~troubled PROVE LastSaveInv'
    BY <1>1 DEF LastSaveInv
  <2>1. mine[s] = cur /\ file = Emptied /\ AtWork = {s}
    BY <1>1, <1>2 DEF IInv, LastSaveInv
  <2>2. Load' = cur
    BY <1>1, <1>3, <2>1, WrittenLoads
  <2>3. AtWork' = {}
    BY <1>2, <2>1
  <2> QED
    BY <1>1, <2>2, <2>3 DEF LastSaveInv
<1> QED
  BY <1>6, <1>7 DEF IInv

LEMMA PersistFailsKeeps ==
  ASSUME IInv, NEW s \in Saves, PersistFails(s)
  PROVE  IInv'
<1>1. /\ up /\ save[s] \in {"opening", "writing"} /\ save' = [save EXCEPT ![s] = "returned"]
      /\ troubled' = TRUE
      /\ UNCHANGED <<up, boots, cur, mine>>
  BY DEF PersistFails
<1>2. AtWork' = AtWork \ {s}
  BY <1>1, AtWorkMoves DEF IInv, StoreInv, SavePoints
<1>3. file'.start \in Seq(Lines) /\ file'.size \in Nat
  <2>1. CASE file' = file
    BY <2>1 DEF IInv, StoreInv
  <2>2. CASE ~ (file' = file)
    <3>1. s \in AtWork
      BY <1>1 DEF AtWork
    <3>2. Len(mine[s]) \in Nat
      BY <3>1, VocabulariesShow, LenProperties DEF IInv, StoreInv, Vocabulary
    <3>3. PICK n \in 1 .. Len(mine[s]) - 1 :
            file' = [start |-> <<>>, size |-> IF file.size > n THEN file.size ELSE n]
      BY <2>2 DEF PersistFails
    <3>4. n \in Nat
      BY <3>2
    <3>5. (IF file.size > n THEN file.size ELSE n) \in Nat
      BY <3>4 DEF IInv, StoreInv
    <3>6. <<>> \in Seq(Lines)
      BY EmptySeq
    <3> QED
      BY <3>3, <3>5, <3>6
  <2> QED
    BY <2>1, <2>2
<1>4. save' \in [Saves -> SavePoints]
  BY <1>1 DEF IInv, StoreInv, SavePoints
<1>5. StoreInv'
  BY <1>1, <1>2, <1>3, <1>4 DEF IInv, StoreInv
<1>6. LastSaveInv'
  BY <1>1 DEF LastSaveInv
<1> QED
  BY <1>5, <1>6 DEF IInv

LEMMA CrashKeeps ==
  ASSUME IInv, Crash
  PROVE  IInv'
<1>1. /\ up' = FALSE
      /\ save' = [s \in Saves |-> IF s \in AtWork THEN "lost" ELSE save[s]]
      /\ troubled' = (troubled \/ AtWork # {})
      /\ UNCHANGED <<boots, cur, file, mine>>
  BY DEF Crash
<1>2. AtWork' = {} /\ save' \in [Saves -> SavePoints]
  BY <1>1 DEF AtWork, IInv, StoreInv, SavePoints
<1>3. troubled' \in BOOLEAN
  BY <1>1
<1>4. StoreInv'
  BY <1>1, <1>2, <1>3 DEF IInv, StoreInv
<1>5. LastSaveInv'
  BY <1>1 DEF LastSaveInv
<1> QED
  BY <1>4, <1>5 DEF IInv

LEMMA BootKeeps ==
  ASSUME IInv, Boot
  PROVE  IInv'
<1>1. /\ ~up /\ boots < MaxBoots /\ up' = TRUE /\ boots' = boots + 1
      /\ cur' = Load /\ troubled' = FALSE
      /\ UNCHANGED <<file, save, mine>>
  BY DEF Boot
<1>2. AtWork = {} /\ AtWork' = {}
  BY <1>1 DEF IInv, StoreInv, AtWork
<1>3. boots' \in 1 .. MaxBoots
  BY <1>1, SettingsAssumption DEF IInv, StoreInv
<1>4. Vocabulary(cur')
  BY <1>1, LoadShows DEF IInv, StoreInv
<1>5. StoreInv'
  BY <1>1, <1>2, <1>3, <1>4 DEF IInv, StoreInv
<1>6. Load' = Load
  BY <1>1 DEF Load
<1>7. LastSaveInv'
  BY <1>1, <1>2, <1>6 DEF LastSaveInv
<1> QED
  BY <1>5, <1>7 DEF IInv

-----------------------------------------------------------------------------
(* The theorems. *)

LEMMA InitEstablishes == Init => IInv
<1> SUFFICES ASSUME Init PROVE IInv
  OBVIOUS
<1>1. PICK list \in Submitted : file = Holding(list)
  BY DEF Init
<1>2. list \in Seq(Lines) /\ Len(list) \in Nat
  BY SettingsAssumption, LenProperties
<1>3. file.start \in Seq(Lines) /\ file.size \in Nat
  BY <1>1, <1>2 DEF Holding
<1>4. Vocabulary(cur) /\ cur = Load
  BY <1>3, LoadShows DEF Init
<1>5. AtWork = {}
  BY DEF Init, AtWork
<1>6. boots \in 1 .. MaxBoots
  BY SettingsAssumption DEF Init
<1>7. save \in [Saves -> SavePoints] /\ mine \in [Saves -> Vocabularies \cup {<<>>}]
  BY DEF Init, SavePoints
<1> QED
  BY <1>3, <1>4, <1>5, <1>6, <1>7 DEF Init, IInv, StoreInv, LastSaveInv

LEMMA StepKeeps == IInv /\ [Next]_vars => IInv'
<1> SUFFICES ASSUME IInv, [Next]_vars PROVE IInv'
  OBVIOUS
<1>1. ASSUME NEW s \in Saves, HandleSaveSettings(s) PROVE IInv'
  BY <1>1, SetMemoryKeeps, OpenFileKeepsInv, WriteFileKeeps, PersistFailsKeeps DEF HandleSaveSettings
<1>2. CASE Crash \/ Boot
  BY <1>2, CrashKeeps, BootKeeps
<1>3. CASE UNCHANGED vars
  BY <1>3 DEF vars, IInv, StoreInv, LastSaveInv, AtWork, Load
<1> QED
  BY <1>1, <1>2, <1>3 DEF Next

\* The inductive invariant: what is in memory can be shown, and without trouble the file
\* is on its way to it.
THEOREM Invariance == Spec => []IInv
BY InitEstablishes, StepKeeps, PTL DEF Spec

\* Whatever a form or a hand-edited file brings, whatever saves overlap, fail or are cut,
\* every form can show the choices in memory (options.go:77-107).
THEOREM TypeCorrect == Spec => []VTypeOK
<1>1. IInv => VTypeOK
  BY DEF IInv, StoreInv, Vocabulary, VTypeOK
<1> QED
  BY <1>1, Invariance, PTL

\* A save that no other overlapped and that could be written is what the next process
\* loads, whatever was on disk before it (options.go:42-75).
THEOREM RestartsKeep == Spec => []RestartKeeps
<1>1. IInv => RestartKeeps
  BY DEF IInv, LastSaveInv, RestartKeeps
<1> QED
  BY <1>1, Invariance, PTL
=============================================================================
