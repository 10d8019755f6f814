----------------------------- MODULE DataLemmas -----------------------------
(***************************************************************************)
(* Lemmas about the data of the models: induction over numbers, what a fold *)
(* over a list computes, element by element, and what the operators on      *)
(* sequences return.                                                        *)
(*                                                                          *)
(* Induction is over a set of numbers: the least number outside it is found *)
(* by WFMin, whose parameters are no operators.  FoldLeft is a function on  *)
(* the sets of indices of its list, chosen to satisfy the equation of its   *)
(* definition: FoldTable shows that there is one, PrefixRun what it is on   *)
(* the first i indices.                                                     *)
(***************************************************************************)
EXTENDS Lists, SequenceTheorems, WellFoundedInduction, TLAPS

-----------------------------------------------------------------------------
(* Numbers. *)

\* A set of numbers has a least one.
LEMMA SmallestNumber ==
  ASSUME NEW T \in SUBSET Nat, T # {}
  PROVE  \E n \in T : \A m \in T : n <= m
<1> DEFINE R == {ss \in Nat \X Nat : ss[1] < ss[2]}
<1>1. IsWellFoundedOn(R, Nat)
  BY NatLessThanWellFounded DEF OpToRel
<1>2. PICK n \in T : \A m \in T : ~ (<<m, n>> \in R)
  <2> HIDE DEF R
  <2> QED
    BY <1>1, WFMin
<1>3. \A m \in T : ~ (m < n)
  BY <1>2
<1> QED
  BY <1>3

\* Induction: a set with 0 and the successors of its elements has every number.
LEMMA NumberInduction ==
  ASSUME NEW T, 0 \in T, \A n \in Nat : n \in T => n + 1 \in T
  PROVE  Nat \subseteq T
<1> DEFINE Out == Nat \ T
<1> SUFFICES ASSUME Out # {}
             PROVE  FALSE
  OBVIOUS
<1>1. PICK n \in Out : \A m \in Out : n <= m
  <2>1. Out \in SUBSET Nat
    OBVIOUS
  <2> HIDE DEF Out
  <2> QED
    BY <2>1, SmallestNumber
<1>2. n # 0 /\ n - 1 \in Nat /\ n - 1 \notin Out
  BY <1>1
<1> QED
  BY <1>1, <1>2

\* The greatest of some indices.
LEMMA GreatestIndex ==
  ASSUME NEW n \in Nat, NEW T \in SUBSET (1 .. n), T # {}
  PROVE  Max(T) \in T /\ \A m \in T : Max(T) >= m
<1> DEFINE Rest == {k \in Nat : n - k \in T}
<1>1. Rest \in SUBSET Nat /\ Rest # {}
  <2>1. PICK m \in T : TRUE
    OBVIOUS
  <2>2. n - m \in Nat /\ n - (n - m) = m
    BY <2>1
  <2> QED
    BY <2>1, <2>2
<1>2. PICK k \in Rest : \A m \in Rest : k <= m
  <2> HIDE DEF Rest
  <2> QED
    BY <1>1, SmallestNumber
<1>3. n - k \in T
  BY <1>2
<1>4. ASSUME NEW m \in T PROVE n - k >= m
  <2>1. m \in Int /\ n - m \in Nat /\ n - (n - m) = m
    BY <1>4
  <2>2. n - m \in Rest
    BY <2>1
  <2>3. k <= n - m /\ k \in Nat
    BY <1>2, <2>2
  <2> QED
    BY <2>1, <2>3
<1>5. \E x \in T : \A y \in T : x >= y
  BY <1>3, <1>4
<1> QED
  BY <1>5 DEF Max

\* The greatest of the first i, and the others.
LEMMA FirstIndices ==
  ASSUME NEW i \in Nat \ {0}
  PROVE  Max(1 .. i) = i /\ (1 .. i) \ {i} = 1 .. (i - 1) /\ 1 .. i # {}
<1>1. 1 .. i \in SUBSET (1 .. i) /\ i \in 1 .. i
  OBVIOUS
<1>2. Max(1 .. i) \in 1 .. i /\ \A m \in 1 .. i : Max(1 .. i) >= m
  BY <1>1, GreatestIndex
<1>3. Max(1 .. i) = i
  BY <1>1, <1>2
<1>4. (1 .. i) \ {i} = 1 .. (i - 1) /\ 1 .. i # {}
  BY <1>1
<1> QED
  BY <1>3, <1>4

-----------------------------------------------------------------------------
(* Folds. *)

\* A function on sets of indices that takes the elements of a list one by one, the last
\* first, with g: what FoldLeft chooses.
FoldsWith(it, S, base, g, list) ==
  /\ it \in [SUBSET DOMAIN list -> S]
  /\ it[{}] = base
  /\ \A s \in SUBSET DOMAIN list : s # {} => it[s] = g[<<it[s \ {Max(s)}], list[Max(s)]>>]

\* A run of the loop: what it has after i elements, and in the end.
RunsWith(run, S, base, g, list, outcome) ==
  /\ run \in [0 .. Len(list) -> S]
  /\ run[0] = base
  /\ run[Len(list)] = outcome
  /\ \A i \in 1 .. Len(list) : run[i] = g[<<run[i - 1], list[i]>>]

\* All that a run needs of such a function, the type of its values apart.
StepsWith(it, S, base, g, list) ==
  /\ it[{}] = base
  /\ \A i \in 1 .. Len(list) :
       it[1 .. (i - 1)] \in S => it[1 .. i] = g[<<it[1 .. (i - 1)], list[i]>>]

\* There is such a function.
LEMMA FoldTable ==
  ASSUME NEW S, NEW E, NEW base \in S, NEW g \in [S \X E -> S], NEW list \in Seq(E)
  PROVE  \E it : FoldsWith(it, S, base, g, list)
<1> DEFINE Table(k, it) ==
             /\ it \in [SUBSET (1 .. k) -> S]
             /\ it[{}] = base
             /\ \A s \in SUBSET (1 .. k) :
                  s # {} => it[s] = g[<<it[s \ {Max(s)}], list[Max(s)]>>]
           T == {k \in Nat : k <= Len(list) => \E it : Table(k, it)}
<1>1. Len(list) \in Nat /\ DOMAIN list = 1 .. Len(list) /\ \A i \in 1 .. Len(list) : list[i] \in E
  BY LenProperties, ElementOfSeq
<1>2. 0 \in T
  <2> DEFINE it == [s \in SUBSET (1 .. 0) |-> base]
  <2>1. 1 .. 0 = {}
    OBVIOUS
  <2>2. Table(0, it)
    BY <2>1
  <2> HIDE DEF Table
  <2> QED
    BY <2>2
<1>3. ASSUME NEW k \in Nat, k \in T PROVE k + 1 \in T
  <2> SUFFICES ASSUME k + 1 <= Len(list)
               PROVE  \E it : Table(k + 1, it)
    <3> HIDE DEF Table
    <3> QED
      OBVIOUS
  <2>1. k <= Len(list) /\ k + 1 \in 1 .. Len(list)
    BY <1>1
  <2>2. PICK it : Table(k, it)
    BY <1>3, <2>1
  <2> DEFINE more == [s \in SUBSET (1 .. (k + 1)) |->
                        IF k + 1 \in s THEN g[<<it[s \ {k + 1}], list[k + 1]>>] ELSE it[s]]
  <2>3. \A s \in SUBSET (1 .. (k + 1)) :
          /\ s \ {k + 1} \in SUBSET (1 .. k)
          /\ k + 1 \notin s => s \in SUBSET (1 .. k)
    OBVIOUS
  <2>4. more \in [SUBSET (1 .. (k + 1)) -> S]
    <3> SUFFICES ASSUME NEW s \in SUBSET (1 .. (k + 1))
                 PROVE  (IF k + 1 \in s THEN g[<<it[s \ {k + 1}], list[k + 1]>>] ELSE it[s]) \in S
      OBVIOUS
    <3>1. it[s \ {k + 1}] \in S /\ list[k + 1] \in E
      BY <1>1, <2>1, <2>2, <2>3
    <3>2. g[<<it[s \ {k + 1}], list[k + 1]>>] \in S
      BY <3>1
    <3>3. k + 1 \notin s => it[s] \in S
      BY <2>2, <2>3
    <3> QED
      BY <3>2, <3>3
  <2>5. more[{}] = base
    BY <2>2
  <2>6. ASSUME NEW s \in SUBSET (1 .. (k + 1)), s # {}
        PROVE  more[s] = g[<<more[s \ {Max(s)}], list[Max(s)]>>]
    <3>1. Max(s) \in s /\ \A m \in s : Max(s) >= m
      <4>1. k + 1 \in Nat
        OBVIOUS
      <4> QED
        BY <2>6, <4>1, GreatestIndex
    <3>2. CASE k + 1 \in s
      <4>1. Max(s) = k + 1
        <5>1. Max(s) \in 1 .. (k + 1) /\ Max(s) >= k + 1
          BY <3>1, <3>2
        <5> QED
          BY <5>1
      <4>2. more[s \ {k + 1}] = it[s \ {k + 1}]
        BY <2>3
      <4> QED
        BY <3>2, <4>1, <4>2
    <3>3. CASE k + 1 \notin s
      <4>1. s \in SUBSET (1 .. k) /\ s \ {Max(s)} \in SUBSET (1 .. (k + 1)) /\ k + 1 \notin s \ {Max(s)}
        BY <2>3, <3>3
      <4>2. more[s] = it[s] /\ more[s \ {Max(s)}] = it[s \ {Max(s)}]
        BY <3>3, <4>1
      <4>3. it[s] = g[<<it[s \ {Max(s)}], list[Max(s)]>>]
        BY <2>2, <2>6, <4>1
      <4> QED
        BY <4>2, <4>3
    <3> QED
      BY <3>2, <3>3
  <2> HIDE DEF more
  <2>7. Table(k + 1, more)
    BY <2>4, <2>5, <2>6
  <2> QED
    BY <2>7
<1>4. Len(list) \in T
  <2> HIDE DEF T
  <2> QED
    BY <1>1, <1>2, <1>3, NumberInduction
<1>5. PICK it : Table(Len(list), it)
  <2> HIDE DEF Table
  <2> QED
    BY <1>1, <1>4
<1> QED
  BY <1>1, <1>5 DEF FoldsWith

\* A function on sets of indices that takes the elements one by one, read on the first i
\* of them, is the run of the loop: base, and g of what it had and the next element.
LEMMA PrefixRun ==
  ASSUME NEW S, NEW E, NEW base \in S, NEW g \in [S \X E -> S], NEW list \in Seq(E), NEW it,
         StepsWith(it, S, base, g, list)
  PROVE  \E run : RunsWith(run, S, base, g, list, it[DOMAIN list])
<1> DEFINE T == {k \in Nat : k <= Len(list) => it[1 .. k] \in S}
<1>1. Len(list) \in Nat /\ DOMAIN list = 1 .. Len(list) /\ \A i \in 1 .. Len(list) : list[i] \in E
  BY LenProperties, ElementOfSeq
<1>2. 1 .. 0 = {} /\ 0 \in T
  BY DEF StepsWith
<1>3. ASSUME NEW k \in Nat, k \in T PROVE k + 1 \in T
  <2> SUFFICES ASSUME k + 1 <= Len(list)
               PROVE  it[1 .. (k + 1)] \in S
    OBVIOUS
  <2>1. k + 1 \in 1 .. Len(list) /\ (k + 1) - 1 = k /\ k <= Len(list)
    BY <1>1
  <2>2. it[1 .. k] \in S /\ list[k + 1] \in E
    BY <1>1, <1>3, <2>1
  <2>3. it[1 .. (k + 1)] = g[<<it[1 .. k], list[k + 1]>>]
    BY <2>1, <2>2 DEF StepsWith
  <2> QED
    BY <2>2, <2>3
<1>4. Nat \subseteq T
  <2> HIDE DEF T
  <2> QED
    BY <1>2, <1>3, NumberInduction
<1> DEFINE run == [i \in 0 .. Len(list) |-> it[1 .. i]]
<1>5. run \in [0 .. Len(list) -> S]
  BY <1>1, <1>4
<1>6. run[0] = base
  BY <1>1, <1>2 DEF StepsWith
<1>7. ASSUME NEW i \in 1 .. Len(list) PROVE run[i] = g[<<run[i - 1], list[i]>>]
  <2>1. i \in 0 .. Len(list) /\ i - 1 \in 0 .. Len(list) /\ i - 1 \in Nat /\ i - 1 <= Len(list)
    BY <1>1
  <2>2. it[1 .. (i - 1)] \in S
    BY <1>4, <2>1
  <2> QED
    BY <2>1, <2>2 DEF StepsWith
<1>8. run[Len(list)] = it[DOMAIN list]
  BY <1>1
<1> HIDE DEF run
<1> QED
  BY <1>5, <1>6, <1>7, <1>8 DEF RunsWith

-----------------------------------------------------------------------------
(* What Selected returns. *)

\* The loop, element by element.
Selecting(run, S, list, good) ==
  /\ run \in [0 .. Len(list) -> Seq(S)]
  /\ run[0] = <<>>
  /\ \A i \in 1 .. Len(list) :
       run[i] = IF list[i] \in good THEN Append(run[i - 1], list[i]) ELSE run[i - 1]
  /\ run[Len(list)] = Selected(list, good)

LEMMA SelectedRun ==
  ASSUME NEW S, NEW list \in Seq(S), NEW good
  PROVE  \E run : Selecting(run, S, list, good)
<1> DEFINE g == [p \in Seq(S) \X S |-> IF p[2] \in good THEN Append(p[1], p[2]) ELSE p[1]]
           Equation(it) ==
             it = [s \in SUBSET DOMAIN list |->
                     IF s = {} THEN <<>>
                     ELSE IF list[Max(s)] \in good THEN Append(it[s \ {Max(s)}], list[Max(s)])
                                                   ELSE it[s \ {Max(s)}]]
<1>1. Len(list) \in Nat /\ DOMAIN list = 1 .. Len(list) /\ \A i \in 1 .. Len(list) : list[i] \in S
  BY LenProperties, ElementOfSeq
<1>2. g \in [Seq(S) \X S -> Seq(S)] /\ <<>> \in Seq(S)
  <2>1. \A s \in Seq(S), x \in S : Append(s, x) \in Seq(S)
    BY AppendProperties
  <2>2. \A p \in Seq(S) \X S : p[1] \in Seq(S) /\ p[2] \in S
    OBVIOUS
  <2> QED
    BY <2>1, <2>2
<1>3. \A s \in Seq(S), x \in S : g[<<s, x>>] = IF x \in good THEN Append(s, x) ELSE s
  OBVIOUS
<1> HIDE DEF g
<1>4. \E it : Equation(it)
  <2>0. PICK it : FoldsWith(it, Seq(S), <<>>, g, list)
    BY <1>2, FoldTable
  <2>1. /\ it \in [SUBSET DOMAIN list -> Seq(S)] /\ it[{}] = <<>>
        /\ \A s \in SUBSET DOMAIN list : s # {} => it[s] = g[<<it[s \ {Max(s)}], list[Max(s)]>>]
    BY <2>0 DEF FoldsWith
  <2>2. ASSUME NEW s \in SUBSET DOMAIN list, s # {}
        PROVE  it[s] = IF list[Max(s)] \in good THEN Append(it[s \ {Max(s)}], list[Max(s)])
                                                ELSE it[s \ {Max(s)}]
    <3>1. Max(s) \in 1 .. Len(list)
      BY <1>1, <2>2, GreatestIndex
    <3>2. it[s \ {Max(s)}] \in Seq(S) /\ list[Max(s)] \in S
      BY <1>1, <2>1, <3>1
    <3> QED
      BY <1>3, <2>1, <2>2, <3>2
  <2>3. it = [s \in SUBSET DOMAIN list |-> it[s]]
    BY <2>1
  <2>4. Equation(it)
    BY <2>1, <2>2, <2>3
  <2> HIDE DEF Equation
  <2> QED
    BY <2>4
<1>5. PICK it : Equation(it) /\ Selected(list, good) = it[DOMAIN list]
  BY <1>4 DEF Selected, FoldLeft, MapThenFoldSet
<1>6. it[{}] = <<>>
  BY <1>5
<1>7. ASSUME NEW i \in 1 .. Len(list)
      PROVE  it[1 .. i] = IF list[i] \in good THEN Append(it[1 .. (i - 1)], list[i]) ELSE it[1 .. (i - 1)]
  <2>1. Max(1 .. i) = i /\ (1 .. i) \ {i} = 1 .. (i - 1) /\ 1 .. i # {}
    BY <1>1, FirstIndices
  <2>2. 1 .. i \in SUBSET DOMAIN list
    BY <1>1
  <2> QED
    BY <1>5, <2>1, <2>2
<1> HIDE DEF Equation
<1>8. StepsWith(it, Seq(S), <<>>, g, list)
  BY <1>1, <1>3, <1>6, <1>7 DEF StepsWith
<1>9. PICK run : RunsWith(run, Seq(S), <<>>, g, list, it[DOMAIN list])
  BY <1>2, <1>8, PrefixRun
<1>10. \A i \in 1 .. Len(list) : run[i - 1] \in Seq(S) /\ list[i] \in S
  BY <1>1, <1>9 DEF RunsWith
<1>11. \A i \in 1 .. Len(list) :
         run[i] = IF list[i] \in good THEN Append(run[i - 1], list[i]) ELSE run[i - 1]
  BY <1>3, <1>9, <1>10 DEF RunsWith
<1> QED
  BY <1>5, <1>9, <1>11 DEF RunsWith, Selecting

\* It is a list of elements of the list, all of them good.
LEMMA SelectedElements ==
  ASSUME NEW S, NEW list \in Seq(S), NEW good
  PROVE  /\ Selected(list, good) \in Seq(S)
         /\ \A k \in 1 .. Len(Selected(list, good)) :
              Selected(list, good)[k] \in good /\ \E i \in DOMAIN list : Selected(list, good)[k] = list[i]
<1>1. Len(list) \in Nat /\ DOMAIN list = 1 .. Len(list) /\ \A i \in 1 .. Len(list) : list[i] \in S
  BY LenProperties, ElementOfSeq
<1>0. PICK run : Selecting(run, S, list, good)
  BY SelectedRun
<1>2. /\ run \in [0 .. Len(list) -> Seq(S)] /\ run[0] = <<>>
      /\ \A i \in 1 .. Len(list) :
           run[i] = IF list[i] \in good THEN Append(run[i - 1], list[i]) ELSE run[i - 1]
      /\ run[Len(list)] = Selected(list, good)
  BY <1>0 DEF Selecting
<1> DEFINE Fine(s) == \A k \in 1 .. Len(s) : s[k] \in good /\ \E i \in DOMAIN list : s[k] = list[i]
           T == {i \in Nat : i <= Len(list) => Fine(run[i])}
<1>3. 0 \in T
  BY <1>2, EmptySeq
<1>4. ASSUME NEW n \in Nat, n \in T PROVE n + 1 \in T
  <2> SUFFICES ASSUME n + 1 <= Len(list)
               PROVE  Fine(run[n + 1])
    <3> HIDE DEF Fine
    <3> QED
      OBVIOUS
  <2>1. n + 1 \in 1 .. Len(list) /\ (n + 1) - 1 = n /\ n \in 0 .. Len(list)
    BY <1>1
  <2>2. Fine(run[n]) /\ run[n] \in Seq(S) /\ list[n + 1] \in S
    <3>1. n <= Len(list)
      BY <2>1
    <3>2. Fine(run[n])
      <4> HIDE DEF Fine
      <4> QED
        BY <1>4, <3>1
    <3>3. run[n] \in Seq(S)
      BY <1>2, <2>1
    <3> QED
      BY <1>1, <2>1, <3>2, <3>3
  <2>3. CASE list[n + 1] \notin good
    <3>1. run[n + 1] = run[n]
      BY <1>2, <2>1, <2>3
    <3> QED
      BY <2>2, <3>1
  <2>4. CASE list[n + 1] \in good
    <3>1. run[n + 1] = Append(run[n], list[n + 1])
      BY <1>2, <2>1, <2>4
    <3>2. /\ Len(run[n + 1]) = Len(run[n]) + 1 /\ Len(run[n]) \in Nat
          /\ \A k \in 1 .. Len(run[n]) : run[n + 1][k] = run[n][k]
          /\ run[n + 1][Len(run[n]) + 1] = list[n + 1]
      BY <2>2, <3>1, AppendProperties, LenProperties
    <3>3. ASSUME NEW k \in 1 .. Len(run[n]) + 1
          PROVE  run[n + 1][k] \in good /\ \E i \in DOMAIN list : run[n + 1][k] = list[i]
      <4>1. CASE k = Len(run[n]) + 1
        BY <1>1, <2>1, <2>4, <3>2, <4>1
      <4>2. CASE k # Len(run[n]) + 1
        <5>1. k \in 1 .. Len(run[n])
          BY <3>2, <4>2
        <5> QED
          BY <2>2, <3>2, <5>1
      <4> QED
        BY <4>1, <4>2
    <3> QED
      BY <3>2, <3>3
  <2> QED
    BY <2>3, <2>4
<1>5. Len(list) \in T
  <2> HIDE DEF T
  <2> QED
    BY <1>1, <1>3, <1>4, NumberInduction
<1> QED
  BY <1>1, <1>2, <1>5

\* Selecting rows is selecting their indices.
LEMMA SelectedByIndex ==
  ASSUME NEW S, NEW rows \in Seq(S), NEW good, NEW which,
         \A i \in DOMAIN rows : i \in which <=> rows[i] \in good
  PROVE  LET places == Selected([i \in DOMAIN rows |-> i], which)
         IN  /\ places \in Seq(DOMAIN rows)
             /\ Len(places) = Len(Selected(rows, good))
             /\ \A k \in 1 .. Len(places) : Selected(rows, good)[k] = rows[places[k]]
<1> DEFINE index == [i \in DOMAIN rows |-> i]
<1>1. Len(rows) \in Nat /\ DOMAIN rows = 1 .. Len(rows) /\ \A i \in 1 .. Len(rows) : rows[i] \in S
  BY LenProperties, ElementOfSeq
<1>2. index \in Seq(DOMAIN rows) /\ Len(index) = Len(rows) /\ \A i \in 1 .. Len(rows) : index[i] = i
  <2>1. index \in [1 .. Len(rows) -> DOMAIN rows]
    BY <1>1
  <2>2. index \in Seq(DOMAIN rows)
    BY <1>1, <2>1, SeqDef
  <2>3. DOMAIN index = 1 .. Len(index) /\ Len(index) \in Nat
    BY <2>2, LenProperties
  <2>4. Len(index) = Len(rows)
    BY <1>1, <2>1, <2>3
  <2> QED
    BY <1>1, <2>2, <2>4
<1> HIDE DEF index
<1>a. PICK run : Selecting(run, S, rows, good)
  BY SelectedRun
<1>3. /\ run \in [0 .. Len(rows) -> Seq(S)] /\ run[0] = <<>>
      /\ \A i \in 1 .. Len(rows) :
           run[i] = IF rows[i] \in good THEN Append(run[i - 1], rows[i]) ELSE run[i - 1]
      /\ run[Len(rows)] = Selected(rows, good)
  BY <1>a DEF Selecting
<1>b. PICK runi : Selecting(runi, DOMAIN rows, index, which)
  BY <1>2, SelectedRun
<1>4. /\ runi \in [0 .. Len(rows) -> Seq(DOMAIN rows)] /\ runi[0] = <<>>
      /\ \A i \in 1 .. Len(rows) :
           runi[i] = IF rows[i] \in good THEN Append(runi[i - 1], i) ELSE runi[i - 1]
      /\ runi[Len(rows)] = Selected(index, which)
  <2>1. /\ runi \in [0 .. Len(rows) -> Seq(DOMAIN rows)] /\ runi[0] = <<>>
        /\ \A i \in 1 .. Len(rows) :
             runi[i] = IF index[i] \in which THEN Append(runi[i - 1], index[i]) ELSE runi[i - 1]
        /\ runi[Len(rows)] = Selected(index, which)
    BY <1>2, <1>b DEF Selecting
  <2>2. \A i \in 1 .. Len(rows) : index[i] = i /\ (i \in which <=> rows[i] \in good)
    BY <1>1, <1>2
  <2> QED
    BY <2>1, <2>2
<1> DEFINE Same(s, p) == Len(p) = Len(s) /\ \A k \in 1 .. Len(p) : s[k] = rows[p[k]]
           T == {i \in Nat : i <= Len(rows) => Same(run[i], runi[i])}
<1>5. 0 \in T
  BY <1>3, <1>4, EmptySeq
<1>6. ASSUME NEW n \in Nat, n \in T PROVE n + 1 \in T
  <2> SUFFICES ASSUME n + 1 <= Len(rows)
               PROVE  Same(run[n + 1], runi[n + 1])
    <3> HIDE DEF Same
    <3> QED
      OBVIOUS
  <2>1. n + 1 \in 1 .. Len(rows) /\ (n + 1) - 1 = n /\ n \in 0 .. Len(rows)
    BY <1>1
  <2>2. /\ Same(run[n], runi[n]) /\ run[n] \in Seq(S) /\ runi[n] \in Seq(DOMAIN rows)
        /\ rows[n + 1] \in S /\ n + 1 \in DOMAIN rows
        /\ index[n + 1] = n + 1
    <3>1. n <= Len(rows)
      BY <2>1
    <3>2. Same(run[n], runi[n])
      <4> HIDE DEF Same
      <4> QED
        BY <1>6, <3>1
    <3>3. run[n] \in Seq(S)
      BY <1>3, <2>1
    <3>4. runi[n] \in Seq(DOMAIN rows)
      BY <1>4, <2>1
    <3> QED
      BY <1>1, <1>2, <2>1, <3>2, <3>3, <3>4
  <2>3. CASE rows[n + 1] \notin good
    <3>1. run[n + 1] = run[n] /\ runi[n + 1] = runi[n]
      BY <1>2, <1>3, <1>4, <2>1, <2>2, <2>3
    <3> QED
      BY <2>2, <3>1
  <2>4. CASE rows[n + 1] \in good
    <3>1. run[n + 1] = Append(run[n], rows[n + 1]) /\ runi[n + 1] = Append(runi[n], n + 1)
      BY <1>2, <1>3, <1>4, <2>1, <2>2, <2>4
    <3>2. /\ Len(run[n + 1]) = Len(run[n]) + 1 /\ Len(run[n]) \in Nat
          /\ \A k \in 1 .. Len(run[n]) : run[n + 1][k] = run[n][k]
          /\ run[n + 1][Len(run[n]) + 1] = rows[n + 1]
      BY <2>2, <3>1, AppendProperties, LenProperties
    <3>3. /\ Len(runi[n + 1]) = Len(runi[n]) + 1 /\ Len(runi[n]) \in Nat
          /\ \A k \in 1 .. Len(runi[n]) : runi[n + 1][k] = runi[n][k]
          /\ runi[n + 1][Len(runi[n]) + 1] = n + 1
      BY <2>2, <3>1, AppendProperties, LenProperties
    <3>4. Len(runi[n + 1]) = Len(run[n + 1]) /\ Len(runi[n]) = Len(run[n])
      BY <2>2, <3>2, <3>3
    <3>5. ASSUME NEW k \in 1 .. Len(runi[n]) + 1
          PROVE  run[n + 1][k] = rows[runi[n + 1][k]]
      <4>1. CASE k = Len(runi[n]) + 1
        BY <3>2, <3>3, <3>4, <4>1
      <4>2. CASE k # Len(runi[n]) + 1
        <5>1. k \in 1 .. Len(runi[n])
          BY <3>3, <4>2
        <5> QED
          BY <2>2, <3>2, <3>3, <3>4, <5>1
      <4> QED
        BY <4>1, <4>2
    <3> QED
      BY <3>3, <3>4, <3>5
  <2> QED
    BY <2>3, <2>4
<1>7. Len(rows) \in T
  <2> HIDE DEF T
  <2> QED
    BY <1>1, <1>5, <1>6, NumberInduction
<1>8. Same(Selected(rows, good), Selected(index, which)) /\ Selected(index, which) \in Seq(DOMAIN rows)
  BY <1>1, <1>2, <1>3, <1>4, <1>7
<1> QED
  BY <1>8 DEF index

-----------------------------------------------------------------------------
(* What SumFrom returns. *)

Adding(run, start, numbers) ==
  /\ run \in [0 .. Len(numbers) -> Int]
  /\ run[0] = start
  /\ \A i \in 1 .. Len(numbers) : run[i] = run[i - 1] + numbers[i]
  /\ run[Len(numbers)] = SumFrom(start, numbers)

LEMMA AddingRun ==
  ASSUME NEW start \in Int, NEW numbers \in Seq(Int)
  PROVE  \E run : Adding(run, start, numbers)
<1> DEFINE g == [p \in Int \X Int |-> p[1] + p[2]]
           Equation(it) ==
             it = [s \in SUBSET DOMAIN numbers |->
                     IF s = {} THEN start ELSE it[s \ {Max(s)}] + numbers[Max(s)]]
<1>1. /\ Len(numbers) \in Nat /\ DOMAIN numbers = 1 .. Len(numbers)
      /\ \A i \in 1 .. Len(numbers) : numbers[i] \in Int
  BY LenProperties, ElementOfSeq
<1>2. g \in [Int \X Int -> Int]
  OBVIOUS
<1>3. \A sum \in Int, n \in Int : g[<<sum, n>>] = sum + n
  OBVIOUS
<1> HIDE DEF g
<1>4. \E it : Equation(it)
  <2>0. PICK it : FoldsWith(it, Int, start, g, numbers)
    BY <1>2, FoldTable
  <2>1. /\ it \in [SUBSET DOMAIN numbers -> Int] /\ it[{}] = start
        /\ \A s \in SUBSET DOMAIN numbers : s # {} => it[s] = g[<<it[s \ {Max(s)}], numbers[Max(s)]>>]
    BY <2>0 DEF FoldsWith
  <2>2. ASSUME NEW s \in SUBSET DOMAIN numbers, s # {}
        PROVE  it[s] = it[s \ {Max(s)}] + numbers[Max(s)]
    <3>1. Max(s) \in 1 .. Len(numbers)
      BY <1>1, <2>2, GreatestIndex
    <3>2. it[s \ {Max(s)}] \in Int /\ numbers[Max(s)] \in Int
      BY <1>1, <2>1, <3>1
    <3> QED
      BY <1>3, <2>1, <2>2, <3>2
  <2>3. it = [s \in SUBSET DOMAIN numbers |-> it[s]]
    BY <2>1
  <2>4. Equation(it)
    BY <2>1, <2>2, <2>3
  <2> HIDE DEF Equation
  <2> QED
    BY <2>4
<1>5. PICK it : Equation(it) /\ SumFrom(start, numbers) = it[DOMAIN numbers]
  BY <1>4 DEF SumFrom, FoldLeft, MapThenFoldSet
<1>6. it[{}] = start
  BY <1>5
<1>7. ASSUME NEW i \in 1 .. Len(numbers)
      PROVE  it[1 .. i] = it[1 .. (i - 1)] + numbers[i]
  <2>0. i \in Nat \ {0}
    BY <1>1
  <2>1. Max(1 .. i) = i /\ (1 .. i) \ {i} = 1 .. (i - 1) /\ 1 .. i # {}
    BY <2>0, FirstIndices
  <2>2. 1 .. i \in SUBSET DOMAIN numbers
    BY <1>1
  <2> QED
    BY <1>5, <2>1, <2>2
<1> HIDE DEF Equation
<1>8. StepsWith(it, Int, start, g, numbers)
  BY <1>1, <1>3, <1>6, <1>7 DEF StepsWith
<1>9. PICK run : RunsWith(run, Int, start, g, numbers, it[DOMAIN numbers])
  BY <1>2, <1>8, PrefixRun
<1>10. \A i \in 1 .. Len(numbers) : run[i - 1] \in Int /\ numbers[i] \in Int
  <2>1. \A i \in 1 .. Len(numbers) : i - 1 \in 0 .. Len(numbers)
    BY <1>1
  <2>2. run \in [0 .. Len(numbers) -> Int]
    BY <1>9 DEF RunsWith
  <2> QED
    BY <1>1, <2>1, <2>2
<1>11. \A i \in 1 .. Len(numbers) : run[i] = run[i - 1] + numbers[i]
  BY <1>3, <1>9, <1>10 DEF RunsWith
<1> QED
  BY <1>5, <1>9, <1>11 DEF RunsWith, Adding

\* A sum of numbers is a number.
LEMMA SumIsNumber ==
  ASSUME NEW start \in Int, NEW numbers \in Seq(Int)
  PROVE  SumFrom(start, numbers) \in Int
<1>1. PICK run : Adding(run, start, numbers)
  BY AddingRun
<1>2. Len(numbers) \in 0 .. Len(numbers)
  BY LenProperties
<1> QED
  BY <1>1, <1>2 DEF Adding

\* What one summand takes away, others that take away too do not give back.
LEMMA SumAtMost ==
  ASSUME NEW start \in Int, NEW numbers \in Seq(Int), NEW k \in DOMAIN numbers,
         \A i \in DOMAIN numbers : numbers[i] <= 0
  PROVE  SumFrom(start, numbers) <= start + numbers[k]
<1>1. /\ Len(numbers) \in Nat /\ DOMAIN numbers = 1 .. Len(numbers)
      /\ \A i \in 1 .. Len(numbers) : numbers[i] \in Int
  BY LenProperties, ElementOfSeq
<1>2. PICK run : Adding(run, start, numbers)
  BY AddingRun
<1>3. /\ run \in [0 .. Len(numbers) -> Int] /\ run[0] = start
      /\ \A i \in 1 .. Len(numbers) : run[i] = run[i - 1] + numbers[i]
      /\ run[Len(numbers)] = SumFrom(start, numbers)
  BY <1>2 DEF Adding
<1> DEFINE Low(i) == run[i] <= start /\ (k <= i => run[i] <= start + numbers[k])
           T == {i \in Nat : i <= Len(numbers) => Low(i)}
<1>4. 0 \in T
  BY <1>1, <1>3
<1>5. ASSUME NEW n \in Nat, n \in T PROVE n + 1 \in T
  <2> SUFFICES ASSUME n + 1 <= Len(numbers)
               PROVE  Low(n + 1)
    <3> HIDE DEF Low
    <3> QED
      OBVIOUS
  <2>1. /\ n + 1 \in 1 .. Len(numbers) /\ (n + 1) - 1 = n /\ n \in 0 .. Len(numbers)
        /\ n <= Len(numbers)
    BY <1>1
  <2>2. Low(n)
    <3> HIDE DEF Low
    <3> QED
      BY <1>5, <2>1
  <2>3. run[n + 1] = run[n] + numbers[n + 1] /\ run[n] \in Int
    BY <1>3, <2>1
  <2>4. numbers[n + 1] \in Int /\ numbers[n + 1] <= 0 /\ numbers[k] \in Int /\ k \in Int
    BY <1>1, <2>1
  <2>5. run[n + 1] <= start
    BY <2>2, <2>3, <2>4
  <2>6. ASSUME k <= n + 1 PROVE run[n + 1] <= start + numbers[k]
    <3>1. CASE k = n + 1
      BY <2>2, <2>3, <2>4, <3>1
    <3>2. CASE k # n + 1
      <4>1. k <= n
        BY <2>4, <2>6, <3>2
      <4> QED
        BY <2>2, <2>3, <2>4, <4>1
    <3> QED
      BY <3>1, <3>2
  <2> QED
    BY <2>5, <2>6
<1>6. Len(numbers) \in T
  <2> HIDE DEF T
  <2> QED
    BY <1>1, <1>4, <1>5, NumberInduction
<1>7. k <= Len(numbers)
  BY <1>1
<1> QED
  BY <1>1, <1>3, <1>6, <1>7

-----------------------------------------------------------------------------
(* The elements of a list of lists put together. *)

Has(list, x) == \E i \in DOMAIN list : list[i] = x

LEMMA HasEither ==
  ASSUME NEW S, NEW s \in Seq(S), NEW t \in Seq(S)
  PROVE  s \o t \in Seq(S) /\ \A x : Has(s \o t, x) <=> Has(s, x) \/ Has(t, x)
<1>1. /\ s \o t \in Seq(S) /\ Len(s \o t) = Len(s) + Len(t)
      /\ \A i \in 1 .. Len(s) + Len(t) :
           (s \o t)[i] = IF i <= Len(s) THEN s[i] ELSE t[i - Len(s)]
  BY ConcatProperties
<1>2. /\ Len(s) \in Nat /\ Len(t) \in Nat /\ DOMAIN s = 1 .. Len(s) /\ DOMAIN t = 1 .. Len(t)
      /\ DOMAIN (s \o t) = 1 .. Len(s) + Len(t)
  BY <1>1, LenProperties
<1>3. ASSUME NEW i \in DOMAIN (s \o t) PROVE Has(s, (s \o t)[i]) \/ Has(t, (s \o t)[i])
  <2>1. CASE i <= Len(s)
    BY <1>1, <1>2, <2>1 DEF Has
  <2>2. CASE ~ (i <= Len(s))
    <3>1. i - Len(s) \in 1 .. Len(t) /\ (s \o t)[i] = t[i - Len(s)]
      BY <1>1, <1>2, <2>2
    <3> QED
      BY <1>2, <3>1 DEF Has
  <2> QED
    BY <2>1, <2>2
<1>4. ASSUME NEW i \in DOMAIN s PROVE Has(s \o t, s[i])
  <2>1. i \in 1 .. Len(s) + Len(t) /\ i <= Len(s)
    BY <1>2
  <2> QED
    BY <1>1, <1>2, <2>1 DEF Has
<1>5. ASSUME NEW i \in DOMAIN t PROVE Has(s \o t, t[i])
  <2>1. i + Len(s) \in 1 .. Len(s) + Len(t) /\ ~ (i + Len(s) <= Len(s)) /\ (i + Len(s)) - Len(s) = i
    BY <1>2
  <2>2. (s \o t)[i + Len(s)] = t[i]
    BY <1>1, <2>1
  <2> QED
    BY <1>2, <2>1, <2>2 DEF Has
<1>6. ASSUME NEW x, Has(s \o t, x) PROVE Has(s, x) \/ Has(t, x)
  BY <1>3, <1>6 DEF Has
<1>7. ASSUME NEW x, Has(s, x) \/ Has(t, x) PROVE Has(s \o t, x)
  <2>1. CASE Has(s, x)
    <3>1. PICK i \in DOMAIN s : s[i] = x
      BY <2>1 DEF Has
    <3> QED
      BY <1>4, <3>1
  <2>2. CASE Has(t, x)
    <3>1. PICK i \in DOMAIN t : t[i] = x
      BY <2>2 DEF Has
    <3> QED
      BY <1>5, <3>1
  <2> QED
    BY <1>7, <2>1, <2>2
<1> QED
  BY <1>1, <1>6, <1>7

-----------------------------------------------------------------------------
(* Lists edited in place. *)

\* A list with an element taken out.
LEMMA Removed ==
  ASSUME NEW S, NEW s \in Seq(S), NEW i \in DOMAIN s
  PROVE  RemoveAt(s, i) \in Seq(S) /\ Len(RemoveAt(s, i)) = Len(s) - 1
<1>1. Len(s) \in Nat /\ i \in 1 .. Len(s) /\ \A k \in 1 .. Len(s) : s[k] \in S
  BY LenProperties, ElementOfSeq
<1>2. SubSeq(s, 1, i - 1) \in Seq(S) /\ Len(SubSeq(s, 1, i - 1)) = i - 1
  <2>1. i - 1 \in Int /\ \A k \in 1 .. (i - 1) : s[k] \in S
    BY <1>1
  <2>2. SubSeq(s, 1, i - 1) \in Seq(S) /\ Len(SubSeq(s, 1, i - 1)) = IF 1 <= i - 1 THEN (i - 1) - 1 + 1 ELSE 0
    BY <2>1, SubSeqProperties
  <2> QED
    BY <1>1, <2>2
<1>3. SubSeq(s, i + 1, Len(s)) \in Seq(S) /\ Len(SubSeq(s, i + 1, Len(s))) = Len(s) - i
  <2>1. i + 1 \in Int /\ Len(s) \in Int /\ \A k \in (i + 1) .. Len(s) : s[k] \in S
    BY <1>1
  <2>2. /\ SubSeq(s, i + 1, Len(s)) \in Seq(S)
        /\ Len(SubSeq(s, i + 1, Len(s))) = IF i + 1 <= Len(s) THEN Len(s) - (i + 1) + 1 ELSE 0
    BY <2>1, SubSeqProperties
  <2> QED
    BY <1>1, <2>2
<1>4. /\ SubSeq(s, 1, i - 1) \o SubSeq(s, i + 1, Len(s)) \in Seq(S)
      /\ Len(SubSeq(s, 1, i - 1) \o SubSeq(s, i + 1, Len(s))) = (i - 1) + (Len(s) - i)
  BY <1>2, <1>3, ConcatProperties
<1>5. (i - 1) + (Len(s) - i) = Len(s) - 1
  BY <1>1
<1> QED
  BY <1>4, <1>5 DEF RemoveAt

\* A list with an element put in.
LEMMA Inserted ==
  ASSUME NEW S, NEW s \in Seq(S), NEW k \in 1 .. (Len(s) + 1), NEW e \in S
  PROVE  InsertAt(s, k, e) \in Seq(S)
<1>1. Len(s) \in Nat /\ \A i \in 1 .. Len(s) : s[i] \in S
  BY LenProperties, ElementOfSeq
<1>2. SubSeq(s, 1, k - 1) \in Seq(S)
  <2>1. k - 1 \in Int /\ \A i \in 1 .. (k - 1) : s[i] \in S
    BY <1>1
  <2> QED
    BY <2>1, SubSeqProperties
<1>3. SubSeq(s, k, Len(s)) \in Seq(S)
  <2>1. k \in Int /\ Len(s) \in Int /\ \A i \in k .. Len(s) : s[i] \in S
    BY <1>1
  <2> QED
    BY <2>1, SubSeqProperties
<1>4. <<e>> \in Seq(S)
  OBVIOUS
<1>5. SubSeq(s, 1, k - 1) \o <<e>> \in Seq(S)
  BY <1>2, <1>4, ConcatProperties
<1> QED
  BY <1>3, <1>5, ConcatProperties DEF InsertAt
=============================================================================
