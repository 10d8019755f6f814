--------------------------- MODULE JobQueueProofs ---------------------------
(* Theorems about JobQueue, for any number of jobs and any capacities: its invariants,
   and that it implements the safety of FifoService. *)
EXTENDS MCJobQueue, SequenceTheorems, FiniteSetTheorems, TLAPS

-----------------------------------------------------------------------------
(* Lemmas on the sequence operations, as facts about sets of elements. *)

\* append adds one element, once.
LEMMA AppendElements ==
  ASSUME NEW S, NEW s \in Seq(S), NEW e \in S
  PROVE  /\ Append(s, e) \in Seq(S)
         /\ ToSet(Append(s, e)) = ToSet(s) \cup {e}
         /\ NoRepeats(s) /\ e \notin ToSet(s) => NoRepeats(Append(s, e))
<1>1. /\ Append(s, e) \in Seq(S)
      /\ Len(Append(s, e)) = Len(s) + 1
      /\ \A i \in 1 .. Len(s) : Append(s, e)[i] = s[i]
      /\ Append(s, e)[Len(s) + 1] = e
  BY AppendProperties
<1>2. DOMAIN s = 1 .. Len(s) /\ DOMAIN Append(s, e) = 1 .. (Len(s) + 1) /\ Len(s) \in Nat
  BY <1>1, LenProperties
<1>3. ToSet(Append(s, e)) = ToSet(s) \cup {e}
  BY <1>1, <1>2 DEF ToSet
<1>4. NoRepeats(s) /\ e \notin ToSet(s) => NoRepeats(Append(s, e))
  BY <1>1, <1>2 DEF ToSet, NoRepeats
<1> QED
  BY <1>1, <1>3, <1>4

\* Receiving takes the head and leaves the others.
LEMMA TailElements ==
  ASSUME NEW S, NEW s \in Seq(S), s # <<>>, NoRepeats(s)
  PROVE  /\ Head(s) \in S
         /\ Tail(s) \in Seq(S)
         /\ Head(s) \in ToSet(s)
         /\ ToSet(Tail(s)) = ToSet(s) \ {Head(s)}
         /\ NoRepeats(Tail(s))
<1>1. /\ Head(s) \in S /\ Tail(s) \in Seq(S)
      /\ Len(Tail(s)) = Len(s) - 1
      /\ \A i \in 1 .. Len(Tail(s)) : Tail(s)[i] = s[i + 1]
  BY HeadTailProperties
<1>2. /\ DOMAIN s = 1 .. Len(s) /\ Len(s) \in Nat \ {0}
      /\ DOMAIN Tail(s) = 1 .. (Len(s) - 1)
      /\ Head(s) = s[1]
  BY <1>1, LenProperties, EmptySeq
<1>3. NoRepeats(Tail(s))
  BY <1>1, <1>2 DEF NoRepeats
<1>4. ToSet(Tail(s)) \subseteq ToSet(s) \ {Head(s)}
  BY <1>1, <1>2 DEF NoRepeats, ToSet
<1>5. ToSet(s) \ {Head(s)} \subseteq ToSet(Tail(s))
  <2> SUFFICES ASSUME NEW i \in 1 .. Len(s), i # 1
               PROVE  s[i] \in ToSet(Tail(s))
    BY <1>2 DEF ToSet
  <2>1. i - 1 \in 1 .. Len(Tail(s)) /\ Tail(s)[i - 1] = s[i]
    BY <1>1, <1>2
  <2> QED
    BY <2>1, <1>1, <1>2 DEF ToSet
<1>6. Head(s) \in ToSet(s)
  BY <1>2 DEF ToSet
<1> QED
  BY <1>1, <1>3, <1>4, <1>5, <1>6

LEMMA HeadAndTail ==
  ASSUME NEW S, NEW s \in Seq(S), s # <<>>
  PROVE  ToSet(s) = {Head(s)} \cup ToSet(Tail(s))
<1>1. /\ Tail(s) \in Seq(S)
      /\ Len(Tail(s)) = Len(s) - 1
      /\ \A i \in 1 .. Len(Tail(s)) : Tail(s)[i] = s[i + 1]
  BY HeadTailProperties
<1>2. /\ DOMAIN s = 1 .. Len(s) /\ Len(s) \in Nat \ {0}
      /\ DOMAIN Tail(s) = 1 .. (Len(s) - 1)
      /\ Head(s) = s[1]
  BY <1>1, LenProperties, EmptySeq
<1>3. ToSet(Tail(s)) \subseteq ToSet(s) /\ Head(s) \in ToSet(s)
  BY <1>1, <1>2 DEF ToSet
<1>4. ToSet(s) \subseteq {Head(s)} \cup ToSet(Tail(s))
  <2> SUFFICES ASSUME NEW i \in 1 .. Len(s), i # 1
               PROVE  s[i] \in ToSet(Tail(s))
    BY <1>2 DEF ToSet
  <2>1. i - 1 \in 1 .. Len(Tail(s)) /\ Tail(s)[i - 1] = s[i]
    BY <1>1, <1>2
  <2> QED
    BY <2>1, <1>1, <1>2 DEF ToSet
<1> QED
  BY <1>3, <1>4

\* The community modules' RemoveAt closes the gap and changes nothing else.
LEMMA RemoveAtElements ==
  ASSUME NEW S, NEW s \in Seq(S), NEW i \in 1 .. Len(s)
  PROVE  /\ RemoveAt(s, i) \in Seq(S)
         /\ Len(RemoveAt(s, i)) = Len(s) - 1
         /\ DOMAIN RemoveAt(s, i) = 1 .. (Len(s) - 1)
         /\ \A k \in 1 .. (Len(s) - 1) :
              RemoveAt(s, i)[k] = IF k < i THEN s[k] ELSE s[k + 1]
<1>1. DOMAIN s = 1 .. Len(s) /\ Len(s) \in Nat
  BY LenProperties
<1>2. PICK a, b, r : a = SubSeq(s, 1, i - 1) /\ b = SubSeq(s, i + 1, Len(s)) /\ r = RemoveAt(s, i)
  OBVIOUS
<1>3. \A k \in 1 .. Len(s) : s[k] \in S
  BY <1>1, ElementOfSeq
<1>4. /\ a \in Seq(S) /\ Len(a) = i - 1
      /\ \A k \in 1 .. (i - 1) : a[k] = s[k]
  <2>1. 1 \in Int /\ i - 1 \in Int /\ \A k \in 1 .. (i - 1) : s[k] \in S
    BY <1>1, <1>3
  <2>2. /\ a \in Seq(S)
        /\ Len(a) = IF 1 <= i - 1 THEN (i - 1) - 1 + 1 ELSE 0
        /\ \A k \in 1 .. (i - 1) - 1 + 1 : a[k] = s[1 + k - 1]
    BY <1>2, <2>1, SubSeqProperties
  <2> QED
    BY <1>1, <2>2
<1>5. /\ b \in Seq(S) /\ Len(b) = Len(s) - i
      /\ \A k \in 1 .. (Len(s) - i) : b[k] = s[k + i]
  <2>1. i + 1 \in Int /\ Len(s) \in Int /\ \A k \in (i + 1) .. Len(s) : s[k] \in S
    BY <1>1, <1>3
  <2>2. /\ b \in Seq(S)
        /\ Len(b) = IF i + 1 <= Len(s) THEN Len(s) - (i + 1) + 1 ELSE 0
        /\ \A k \in 1 .. Len(s) - (i + 1) + 1 : b[k] = s[(i + 1) + k - 1]
    BY <1>2, <2>1, SubSeqProperties
  <2>3. Len(b) = Len(s) - i
    <3>1. i \in Int /\ Len(s) \in Int /\ i <= Len(s)
      BY <1>1
    <3>2. Len(b) = IF i + 1 <= Len(s) THEN Len(s) - (i + 1) + 1 ELSE 0
      BY <2>2
    <3> QED
      BY <3>1, <3>2
  <2>4. ASSUME NEW k \in 1 .. (Len(s) - i) PROVE b[k] = s[k + i]
    <3>1. k \in 1 .. Len(s) - (i + 1) + 1 /\ (i + 1) + k - 1 = k + i
      BY <1>1
    <3> QED
      BY <2>2, <3>1
  <2> QED
    BY <2>2, <2>3, <2>4
<1>6. r = a \o b
  BY <1>2 DEF RemoveAt
<1>7. /\ r \in Seq(S) /\ Len(r) = Len(a) + Len(b)
      /\ \A k \in 1 .. Len(a) + Len(b) : r[k] = IF k <= Len(a) THEN a[k] ELSE b[k - Len(a)]
  <2>1. a \in Seq(S) /\ b \in Seq(S)
    BY <1>4, <1>5
  <2>2. /\ a \o b \in Seq(S) /\ Len(a \o b) = Len(a) + Len(b)
        /\ \A k \in 1 .. Len(a) + Len(b) :
             (a \o b)[k] = IF k <= Len(a) THEN a[k] ELSE b[k - Len(a)]
    BY <2>1, ConcatProperties
  <2> QED
    BY <1>6, <2>2
<1>8. Len(r) = Len(s) - 1
  BY <1>1, <1>4, <1>5, <1>7
<1>9. DOMAIN r = 1 .. (Len(s) - 1)
  BY <1>7, <1>8, LenProperties
<1>10. ASSUME NEW k \in 1 .. (Len(s) - 1)
       PROVE  r[k] = IF k < i THEN s[k] ELSE s[k + 1]
  <2>1. CASE k < i
    BY <1>1, <1>4, <1>5, <1>7, <2>1
  <2>2. CASE ~(k < i)
    <3>1. /\ k \in 1 .. Len(a) + Len(b) /\ ~(k <= Len(a))
          /\ k - Len(a) \in 1 .. (Len(s) - i) /\ (k - Len(a)) + i = k + 1
      BY <1>1, <1>4, <1>5, <2>2
    <3>2. r[k] = b[k - Len(a)] /\ b[k - Len(a)] = s[(k - Len(a)) + i]
      BY <1>5, <1>7, <3>1
    <3> QED
      BY <3>1, <3>2, <2>2
  <2> QED
    BY <2>1, <2>2
<1> QED
  BY <1>2, <1>7, <1>8, <1>9, <1>10

\* removeID takes exactly the id out.
LEMMA RemoveElements ==
  ASSUME NEW S, NEW s \in Seq(S), NoRepeats(s), NEW e
  PROVE  /\ removeID(s, e) \in Seq(S)
         /\ ToSet(removeID(s, e)) = ToSet(s) \ {e}
         /\ NoRepeats(removeID(s, e))
<1>1. DOMAIN s = 1 .. Len(s) /\ Len(s) \in Nat
  BY LenProperties
<1>2. CASE ~ \E i \in 1 .. Len(s) : s[i] = e
  BY <1>1, <1>2 DEF removeID, RemoveFirst, ToSet
<1>3. CASE \E i \in 1 .. Len(s) : s[i] = e
  <2>1. PICK i \in 1 .. Len(s) : s[i] = e
    BY <1>3
  <2>2. removeID(s, e) = RemoveAt(s, i)
    <3>1. {k \in 1 .. Len(s) : s[k] = e} = {i}
      BY <1>1, <2>1 DEF NoRepeats
    <3>2. Min({i}) = i
      BY DEF Min
    <3>3. RemoveFirst(s, e) = RemoveAt(s, IF {k \in 1 .. Len(s) : s[k] = e} # {}
                                          THEN Min({k \in 1 .. Len(s) : s[k] = e}) ELSE 0)
      BY <1>3 DEF RemoveFirst, SelectInSeq
    <3> QED
      BY <3>1, <3>2, <3>3 DEF removeID
  <2> DEFINE r == RemoveAt(s, i)
  <2>4. /\ r \in Seq(S) /\ DOMAIN r = 1 .. (Len(s) - 1)
        /\ \A k \in 1 .. (Len(s) - 1) : r[k] = IF k < i THEN s[k] ELSE s[k + 1]
    BY RemoveAtElements
  <2> HIDE DEF r
  <2>5. NoRepeats(r)
    <3> SUFFICES ASSUME NEW k \in 1 .. (Len(s) - 1), NEW m \in 1 .. (Len(s) - 1), r[k] = r[m]
                 PROVE  k = m
      BY <2>4 DEF NoRepeats
    <3> DEFINE at(n) == IF n < i THEN n ELSE n + 1
    <3>1. at(k) \in DOMAIN s /\ at(m) \in DOMAIN s /\ s[at(k)] = s[at(m)]
      BY <1>1, <2>4
    <3>2. at(k) = at(m)
      BY <3>1 DEF NoRepeats
    <3> QED
      BY <1>1, <3>2
  <2>6. ToSet(r) \subseteq ToSet(s) \ {e}
    <3> SUFFICES ASSUME NEW k \in 1 .. (Len(s) - 1)
                 PROVE  \E m \in 1 .. Len(s) : m # i /\ r[k] = s[m]
      BY <1>1, <2>1, <2>4 DEF NoRepeats, ToSet
    <3>1. CASE k < i
      BY <1>1, <2>4, <3>1
    <3>2. CASE ~(k < i)
      <4>1. k + 1 \in 1 .. Len(s) /\ k + 1 # i /\ r[k] = s[k + 1]
        BY <1>1, <2>4, <3>2
      <4> QED
        BY <4>1
    <3> QED
      BY <3>1, <3>2
  <2>7. ToSet(s) \ {e} \subseteq ToSet(r)
    <3> SUFFICES ASSUME NEW k \in 1 .. Len(s), k # i
                 PROVE  s[k] \in ToSet(r)
      BY <1>1, <2>1 DEF ToSet
    <3>1. CASE k < i
      <4>1. k \in DOMAIN r /\ r[k] = s[k]
        BY <1>1, <2>4, <3>1
      <4> QED
        BY <4>1 DEF ToSet
    <3>2. CASE k > i
      <4>1. k - 1 \in DOMAIN r /\ r[k - 1] = s[k]
        BY <1>1, <2>4, <3>2
      <4> QED
        BY <4>1 DEF ToSet
    <3> QED
      BY <3>1, <3>2, <1>1
  <2> QED
    BY <2>2, <2>4, <2>5, <2>6, <2>7 DEF r
<1> QED
  BY <1>2, <1>3

\* evictLocked keeps Retain entries at most, and drops from the map what it drops
\* from the list.
LEMMA KeptElements ==
  ASSUME NEW S, NEW f \in Seq(S), NoRepeats(f), Len(f) <= Retain + 1
  PROVE  /\ Kept(f) \in Seq(S)
         /\ ToSet(Kept(f)) = ToSet(f) \ Evicted(f)
         /\ NoRepeats(Kept(f))
         /\ Len(Kept(f)) <= Retain
         /\ Evicted(f) = IF Len(f) > Retain THEN {Head(f)} ELSE {}
<1>1. /\ DOMAIN f = 1 .. Len(f) /\ Len(f) \in Nat /\ Retain \in Nat \ {0}
  BY LenProperties, ConstantsAssumption
<1>2. CASE Len(f) <= Retain
  <2>1. Evicted(f) = {} /\ Kept(f) = f
    BY <1>1, <1>2 DEF Evicted, Kept
  <2> QED
    BY <2>1, <1>1, <1>2
<1>3. CASE Len(f) = Retain + 1
  <2>1. f # <<>> /\ Head(f) = f[1] /\ Tail(f) = SubSeq(f, 2, Len(f)) /\ Len(Tail(f)) = Retain
    BY <1>1, <1>3
  <2>2. Kept(f) = Tail(f)
    BY <1>1, <1>3, <2>1 DEF Kept
  <2>3. Evicted(f) = {Head(f)}
    BY <1>1, <1>3, <2>1 DEF Evicted
  <2> QED
    BY <1>1, <1>3, <2>1, <2>2, <2>3, TailElements
<1>4. Len(f) <= Retain \/ Len(f) = Retain + 1
  <2>1. Len(f) \in Int /\ Retain \in Int /\ Len(f) <= Retain + 1
    BY <1>1
  <2> QED
    BY <2>1
<1> QED
  BY <1>2, <1>3, <1>4

-----------------------------------------------------------------------------
(* The inductive invariant. *)

\* The worker's local job is the running one from its first critical section
\* to its second, and no job is running otherwise.
WorkerAgrees ==
  /\ worker \in {"received", "starting", "running"} => held \in Jobs
  /\ running = IF worker \in {"starting", "running"} THEN held ELSE NoJob

\* The channel and the retained list stay within their configured sizes.
CapacityKept == Len(ch) <= Buffer /\ Len(finished) <= Retain

\* The invariants the runs check support each other; the last two conjuncts are
\* what they lack to be inductive.
IInv ==
  /\ TypeOK
  /\ LineAccounted
  /\ MapAccounted
  /\ StateAgrees
  /\ OneAtATime
  /\ SubmitAgrees
  /\ WorkerAgrees
  /\ CapacityKept

\* It holds before the first Submit.
LEMMA InitIInv == Init => IInv
<1> SUFFICES ASSUME Init PROVE IInv
  OBVIOUS
<1>1. /\ <<>> \in Seq(Jobs) /\ Len(<<>>) = 0 /\ ToSet(<<>>) = {} /\ NoRepeats(<<>>)
  BY EmptySeq DEF ToSet, NoRepeats
<1> USE ConstantsAssumption
<1>2. TypeOK
  BY <1>1 DEF Init, TypeOK, SubmitPoints, WorkerPoints, States
<1>3. LineAccounted /\ MapAccounted
  BY <1>1 DEF Init, LineAccounted, MapAccounted, InFlight, InHand, ToSetOf
<1>4. StateAgrees /\ OneAtATime /\ SubmitAgrees
  BY <1>1 DEF Init, StateAgrees, OneAtATime, SubmitAgrees, InHand, ToSetOf
<1>5. WorkerAgrees /\ CapacityKept
  BY <1>1 DEF Init, WorkerAgrees, CapacityKept
<1> QED
  BY <1>2, <1>3, <1>4, <1>5 DEF IInv

\* Every step keeps it: one case per action, and in each the conjuncts that the
\* action can disturb one by one, then the others.
LEMMA StepIInv == IInv /\ [Next]_vars => IInv'
<1> SUFFICES ASSUME IInv, [Next]_vars PROVE IInv'
  OBVIOUS
<1> USE ConstantsAssumption
<1>1. ASSUME NEW j \in Jobs, SubmitRegister(j) PROVE IInv'
  <2>1. j \notin ToSet(queued)
    BY <1>1 DEF SubmitRegister, IInv, LineAccounted, SubmitAgrees, InFlight, InHand
  <2>2. /\ queued' \in Seq(Jobs)
        /\ ToSet(queued') = ToSet(queued) \cup {j}
        /\ NoRepeats(queued')
    BY <1>1, <2>1, AppendElements DEF SubmitRegister, IInv, TypeOK, LineAccounted
  <2>3. TypeOK'
    BY <1>1, <2>1, <2>2 DEF SubmitRegister, IInv, TypeOK, SubmitPoints, States
  <2>4. LineAccounted'
    BY <1>1, <2>1, <2>2 DEF SubmitRegister, IInv, TypeOK, LineAccounted, InFlight, InHand
  <2>5. MapAccounted'
    BY <1>1, <2>1, <2>2
       DEF SubmitRegister, IInv, MapAccounted, ToSetOf, SubmitAgrees, Outcomes, StateAgrees
  <2>6. StateAgrees'
    BY <1>1, <2>1, <2>2
       DEF SubmitRegister, IInv, TypeOK, StateAgrees, SubmitAgrees, Outcomes, MapAccounted, ToSetOf
  <2>7. OneAtATime'
    BY <1>1, <2>1, <2>2 DEF SubmitRegister, IInv, OneAtATime, SubmitAgrees
  <2>8. SubmitAgrees'
    BY <1>1, <2>1, <2>2 DEF SubmitRegister, IInv, TypeOK, SubmitAgrees, InHand
  <2>9. WorkerAgrees' /\ CapacityKept'
    BY <1>1 DEF SubmitRegister, IInv, WorkerAgrees, CapacityKept
  <2> QED
    BY <2>3, <2>4, <2>5, <2>6, <2>7, <2>8, <2>9 DEF IInv
<1>2. ASSUME NEW j \in Jobs, SubmitSend(j) PROVE IInv'
  <2>1. j \notin ToSet(ch)
    BY <1>2 DEF SubmitSend, IInv, LineAccounted, InFlight
  <2>2. /\ ch' \in Seq(Jobs) /\ Len(ch') = Len(ch) + 1
        /\ ToSet(ch') = ToSet(ch) \cup {j}
        /\ NoRepeats(ch')
    BY <1>2, <2>1, AppendElements, AppendProperties DEF SubmitSend, IInv, TypeOK, LineAccounted
  <2>3. TypeOK'
    BY <1>2, <2>1, <2>2 DEF SubmitSend, IInv, TypeOK, SubmitPoints
  <2>4. LineAccounted'
    BY <1>2, <2>1, <2>2 DEF SubmitSend, IInv, TypeOK, LineAccounted, InFlight, InHand
  <2>5. SubmitAgrees'
    BY <1>2, <2>1, <2>2 DEF SubmitSend, IInv, TypeOK, SubmitAgrees, InHand
  <2>6. CapacityKept'
    BY <1>2, <2>1, <2>2 DEF SubmitSend, IInv, CapacityKept
  <2>7. MapAccounted' /\ StateAgrees' /\ OneAtATime' /\ WorkerAgrees'
    BY <1>2
       DEF SubmitSend, IInv, MapAccounted, ToSetOf, StateAgrees, OneAtATime, WorkerAgrees
  <2> QED
    BY <2>3, <2>4, <2>5, <2>6, <2>7 DEF IInv
<1>3. ASSUME NEW j \in Jobs, SubmitFull(j) PROVE IInv'
  <2>1. TypeOK'
    BY <1>3 DEF SubmitFull, IInv, TypeOK, SubmitPoints
  <2>2. LineAccounted'
    BY <1>3 DEF SubmitFull, IInv, TypeOK, LineAccounted, InFlight, InHand
  <2>3. SubmitAgrees'
    BY <1>3 DEF SubmitFull, IInv, TypeOK, SubmitAgrees, InHand
  <2>4. MapAccounted' /\ StateAgrees' /\ OneAtATime' /\ WorkerAgrees' /\ CapacityKept'
    BY <1>3
       DEF SubmitFull, IInv, MapAccounted, ToSetOf, StateAgrees, OneAtATime, WorkerAgrees, CapacityKept
  <2> QED
    BY <2>1, <2>2, <2>3, <2>4 DEF IInv
<1>4. ASSUME NEW j \in Jobs, SubmitRollback(j) PROVE IInv'
  <2>1. /\ queued' \in Seq(Jobs)
        /\ ToSet(queued') = ToSet(queued) \ {j}
        /\ NoRepeats(queued')
    BY <1>4, RemoveElements DEF SubmitRollback, IInv, TypeOK, LineAccounted
  <2>2. TypeOK'
    BY <1>4, <2>1 DEF SubmitRollback, IInv, TypeOK, SubmitPoints
  <2>3. LineAccounted'
    BY <1>4, <2>1 DEF SubmitRollback, IInv, TypeOK, LineAccounted, InFlight, InHand
  <2>4. MapAccounted'
    BY <1>4, <2>1 DEF SubmitRollback, IInv, MapAccounted, LineAccounted, InFlight
  <2>5. StateAgrees'
    BY <1>4, <2>1 DEF SubmitRollback, IInv, TypeOK, StateAgrees
  <2>6. SubmitAgrees'
    BY <1>4, <2>1 DEF SubmitRollback, IInv, TypeOK, SubmitAgrees, InHand
  <2>7. OneAtATime' /\ WorkerAgrees' /\ CapacityKept'
    BY <1>4 DEF SubmitRollback, IInv, OneAtATime, ToSetOf, WorkerAgrees, CapacityKept
  <2> QED
    BY <2>2, <2>3, <2>4, <2>5, <2>6, <2>7 DEF IInv
<1>5. ASSUME NEW j \in Jobs, SubmitAnnounce(j) PROVE IInv'
  <2>1. TypeOK'
    BY <1>5 DEF SubmitAnnounce, IInv, TypeOK, SubmitPoints
  <2>2. LineAccounted'
    BY <1>5 DEF SubmitAnnounce, IInv, TypeOK, LineAccounted, InFlight, InHand
  <2>3. SubmitAgrees'
    BY <1>5 DEF SubmitAnnounce, IInv, TypeOK, SubmitAgrees, InHand
  <2>4. MapAccounted' /\ StateAgrees' /\ OneAtATime' /\ WorkerAgrees' /\ CapacityKept'
    BY <1>5
       DEF SubmitAnnounce, IInv, MapAccounted, ToSetOf, StateAgrees, OneAtATime, WorkerAgrees, CapacityKept
  <2> QED
    BY <2>1, <2>2, <2>3, <2>4 DEF IInv
<1>6. CASE WorkerReceive
  <2>1. /\ Head(ch) \in Jobs /\ Head(ch) \in ToSet(ch)
        /\ ch' \in Seq(Jobs) /\ Len(ch') = Len(ch) - 1
        /\ ToSet(ch') = ToSet(ch) \ {Head(ch)}
        /\ NoRepeats(ch')
    BY <1>6, TailElements, HeadTailProperties DEF WorkerReceive, IInv, TypeOK, LineAccounted
  <2>2. TypeOK'
    BY <1>6, <2>1 DEF WorkerReceive, IInv, TypeOK, WorkerPoints
  <2>3. LineAccounted'
    BY <1>6, <2>1 DEF WorkerReceive, IInv, TypeOK, LineAccounted, InFlight, InHand
  <2>4. SubmitAgrees'
    BY <1>6, <2>1 DEF WorkerReceive, IInv, TypeOK, SubmitAgrees, InHand
  <2>5. WorkerAgrees'
    BY <1>6, <2>1 DEF WorkerReceive, IInv, TypeOK, WorkerAgrees
  <2>6. CapacityKept'
    BY <1>6, <2>1 DEF WorkerReceive, IInv, CapacityKept
  <2>7. MapAccounted' /\ StateAgrees' /\ OneAtATime'
    BY <1>6 DEF WorkerReceive, IInv, MapAccounted, ToSetOf, StateAgrees, OneAtATime
  <2> QED
    BY <2>2, <2>3, <2>4, <2>5, <2>6, <2>7 DEF IInv
<1>7. CASE WorkerStop
  <2>1. TypeOK'
    BY <1>7 DEF WorkerStop, IInv, TypeOK, WorkerPoints
  <2>2. LineAccounted'
    BY <1>7 DEF WorkerStop, IInv, TypeOK, LineAccounted, InFlight, InHand
  <2>3. SubmitAgrees'
    BY <1>7 DEF WorkerStop, IInv, TypeOK, SubmitAgrees, InHand
  <2>4. WorkerAgrees'
    BY <1>7 DEF WorkerStop, IInv, TypeOK, WorkerAgrees
  <2>5. MapAccounted' /\ StateAgrees' /\ OneAtATime' /\ CapacityKept'
    BY <1>7
       DEF WorkerStop, IInv, MapAccounted, ToSetOf, StateAgrees, OneAtATime, CapacityKept
  <2> QED
    BY <2>1, <2>2, <2>3, <2>4, <2>5 DEF IInv
<1>8. CASE WorkerBegin
  <2>1. /\ queued' \in Seq(Jobs)
        /\ ToSet(queued') = ToSet(queued) \ {held}
        /\ NoRepeats(queued')
    BY <1>8, RemoveElements DEF WorkerBegin, IInv, TypeOK, LineAccounted
  <2>2. TypeOK'
    BY <1>8, <2>1 DEF WorkerBegin, IInv, TypeOK, WorkerPoints, States
  <2>3. LineAccounted'
    BY <1>8, <2>1 DEF WorkerBegin, IInv, TypeOK, LineAccounted, InFlight, InHand
  <2>4. MapAccounted'
    BY <1>8, <2>1
       DEF WorkerBegin, IInv, MapAccounted, ToSetOf, LineAccounted, InHand, WorkerAgrees
  <2>5. StateAgrees'
    BY <1>8, <2>1
       DEF WorkerBegin, IInv, TypeOK, StateAgrees, LineAccounted, InHand, WorkerAgrees, Outcomes
  <2>6. OneAtATime'
    BY <1>8, <2>1 DEF WorkerBegin, IInv, TypeOK, OneAtATime, ToSetOf, WorkerAgrees
  <2>7. SubmitAgrees'
    BY <1>8, <2>1 DEF WorkerBegin, IInv, SubmitAgrees, InHand, LineAccounted
  <2>8. WorkerAgrees'
    BY <1>8, <2>1 DEF WorkerBegin, IInv, TypeOK, WorkerAgrees
  <2>9. CapacityKept'
    BY <1>8 DEF WorkerBegin, IInv, CapacityKept
  <2> QED
    BY <2>2, <2>3, <2>4, <2>5, <2>6, <2>7, <2>8, <2>9 DEF IInv
<1>9. CASE WorkerAnnounceStart
  <2>1. TypeOK'
    BY <1>9 DEF WorkerAnnounceStart, IInv, TypeOK, WorkerPoints
  <2>2. LineAccounted'
    BY <1>9 DEF WorkerAnnounceStart, IInv, TypeOK, LineAccounted, InFlight, InHand
  <2>3. SubmitAgrees'
    BY <1>9 DEF WorkerAnnounceStart, IInv, TypeOK, SubmitAgrees, InHand
  <2>4. WorkerAgrees'
    BY <1>9 DEF WorkerAnnounceStart, IInv, TypeOK, WorkerAgrees
  <2>5. MapAccounted' /\ StateAgrees' /\ OneAtATime' /\ CapacityKept'
    BY <1>9
       DEF WorkerAnnounceStart, IInv, MapAccounted, ToSetOf, StateAgrees, OneAtATime, CapacityKept
  <2> QED
    BY <2>1, <2>2, <2>3, <2>4, <2>5 DEF IInv
<1>10. ASSUME NEW outcome \in Outcomes, WorkerFinish(outcome) PROVE IInv'
  <2>1. held \in Jobs /\ held \notin ToSet(finished)
    BY <1>10 DEF WorkerFinish, IInv, TypeOK, WorkerAgrees, MapAccounted, ToSetOf
  <2> DEFINE all == Append(finished, held)
  <2>2. /\ all \in Seq(Jobs) /\ Len(all) = Len(finished) + 1
        /\ ToSet(all) = ToSet(finished) \cup {held}
        /\ NoRepeats(all)
    BY <2>1, AppendElements, AppendProperties DEF IInv, TypeOK, MapAccounted
  <2>3. Len(all) <= Retain + 1
    <3>1. Len(finished) \in Nat /\ Len(finished) <= Retain /\ Retain \in Nat
      BY LenProperties, ConstantsAssumption DEF IInv, TypeOK, CapacityKept
    <3> QED
      BY <2>2, <3>1
  <2>4. /\ finished' \in Seq(Jobs)
        /\ ToSet(finished') = (ToSet(finished) \cup {held}) \ Evicted(all)
        /\ NoRepeats(finished')
        /\ Len(finished') <= Retain
        /\ jobs' = jobs \ Evicted(all)
        /\ Evicted(all) \subseteq ToSet(finished) \cup {held}
    <3>1. Evicted(all) \subseteq ToSet(all)
      <4>1. Evicted(all) = IF Len(all) > Retain THEN {Head(all)} ELSE {}
        BY <2>2, <2>3, KeptElements
      <4>2. all # <<>> => Head(all) \in ToSet(all)
        BY <2>2, TailElements
      <4> QED
        BY <2>2, <4>1, <4>2, EmptySeq
    <3>2. finished' = Kept(all) /\ jobs' = jobs \ Evicted(all)
      BY <1>10 DEF WorkerFinish
    <3> HIDE DEF all
    <3> QED
      BY <2>2, <2>3, <3>1, <3>2, KeptElements
  <2> HIDE DEF all
  <2>5. TypeOK'
    BY <1>10, <2>1, <2>4 DEF WorkerFinish, IInv, TypeOK, WorkerPoints, States, Outcomes
  <2>6. LineAccounted'
    BY <1>10, <2>1, <2>4 DEF WorkerFinish, IInv, TypeOK, LineAccounted, InFlight, InHand
  <2>7. MapAccounted'
    BY <1>10, <2>1, <2>4 DEF WorkerFinish, IInv, MapAccounted, ToSetOf, TypeOK, WorkerAgrees
  <2>8. StateAgrees'
    BY <1>10, <2>1, <2>4 DEF WorkerFinish, IInv, TypeOK, StateAgrees, WorkerAgrees, Outcomes
  <2>9. OneAtATime'
    BY <1>10, <2>1, <2>4
       DEF WorkerFinish, IInv, TypeOK, OneAtATime, ToSetOf, WorkerAgrees, Outcomes
  <2>10. SubmitAgrees'
    BY <1>10, <2>1, <2>4
       DEF WorkerFinish, IInv, SubmitAgrees, InHand, WorkerAgrees, Outcomes, MapAccounted, StateAgrees, ToSetOf
  <2>11. WorkerAgrees'
    BY <1>10, <2>1, <2>4 DEF WorkerFinish, IInv, TypeOK, WorkerAgrees
  <2>12. CapacityKept'
    BY <1>10, <2>1, <2>4 DEF WorkerFinish, IInv, CapacityKept
  <2> QED
    BY <2>5, <2>6, <2>7, <2>8, <2>9, <2>10, <2>11, <2>12 DEF IInv
<1>11. CASE WorkerAnnounceEnd
  <2>1. TypeOK'
    BY <1>11 DEF WorkerAnnounceEnd, IInv, TypeOK, WorkerPoints
  <2>2. LineAccounted'
    BY <1>11 DEF WorkerAnnounceEnd, IInv, TypeOK, LineAccounted, InFlight, InHand
  <2>3. SubmitAgrees'
    BY <1>11 DEF WorkerAnnounceEnd, IInv, TypeOK, SubmitAgrees, InHand
  <2>4. WorkerAgrees'
    BY <1>11 DEF WorkerAnnounceEnd, IInv, TypeOK, WorkerAgrees
  <2>5. MapAccounted' /\ StateAgrees' /\ OneAtATime' /\ CapacityKept'
    BY <1>11
       DEF WorkerAnnounceEnd, IInv, MapAccounted, ToSetOf, StateAgrees, OneAtATime, CapacityKept
  <2> QED
    BY <2>1, <2>2, <2>3, <2>4, <2>5 DEF IInv
<1>12. CASE Cancel
  <2>1. TypeOK'
    BY <1>12 DEF Cancel, IInv, TypeOK
  <2>2. /\ LineAccounted' /\ MapAccounted' /\ StateAgrees' /\ OneAtATime'
        /\ SubmitAgrees' /\ WorkerAgrees' /\ CapacityKept'
    BY <1>12
       DEF Cancel, IInv, LineAccounted, InFlight, InHand, MapAccounted, ToSetOf, StateAgrees, OneAtATime, SubmitAgrees, WorkerAgrees, CapacityKept
  <2> QED
    BY <2>1, <2>2 DEF IInv
<1>13. CASE Exit
  <2>1. TypeOK'
    BY <1>13 DEF Exit, IInv, TypeOK
  <2>2. /\ LineAccounted' /\ MapAccounted' /\ StateAgrees' /\ OneAtATime'
        /\ SubmitAgrees' /\ WorkerAgrees' /\ CapacityKept'
    BY <1>13
       DEF Exit, IInv, LineAccounted, InFlight, InHand, MapAccounted, ToSetOf, StateAgrees, OneAtATime, SubmitAgrees, WorkerAgrees, CapacityKept
  <2> QED
    BY <2>1, <2>2 DEF IInv
<1>14. CASE UNCHANGED vars
  BY <1>14 DEF vars, IInv, TypeOK, LineAccounted, MapAccounted, StateAgrees, OneAtATime, SubmitAgrees, WorkerAgrees, CapacityKept,
     InFlight, InHand
<1> QED
  BY <1>1, <1>2, <1>3, <1>4, <1>5, <1>6, <1>7, <1>8,
     <1>9, <1>10, <1>11, <1>12, <1>13, <1>14 DEF Next, Submit, Worker

-----------------------------------------------------------------------------
(* The theorems. *)

\* The bookkeeping invariant holds in every state of the specification.
THEOREM Invariance == Spec => []IInv
<1> QED
  BY InitIInv, StepIInv, PTL DEF Spec

\* Every variable keeps its type: in particular the worker never dereferences a
\* job it did not receive (runOne, queue.go:247).
THEOREM TypeCorrect == Spec => []TypeOK
<1>1. IInv => TypeOK
  BY DEF IInv
<1> QED
  BY <1>1, Invariance, PTL

\* Manager.queued is, once each, the jobs in the channel, the one in the worker's
\* hand and those whose Submit may still be refused, whatever the interleaving.
THEOREM LineIsAccounted == Spec => []LineAccounted
<1>1. IInv => LineAccounted
  BY DEF IInv
<1> QED
  BY <1>1, Invariance, PTL

\* Manager.jobs holds exactly the jobs in line, running, or retained after they
\* ended: eviction and rollback neither leak a job nor lose one.
THEOREM MapIsAccounted == Spec => []MapAccounted
<1>1. IInv => MapAccounted
  BY DEF IInv
<1> QED
  BY <1>1, Invariance, PTL

\* A registered job's State says where the manager keeps it.
THEOREM StatesAgree == Spec => []StateAgrees
<1>1. IInv => StateAgrees
  BY DEF IInv
<1> QED
  BY <1>1, Invariance, PTL

\* At most one job is running, over every job ever submitted.
THEOREM NeverTwoAtOnce == Spec => []OneAtATime
<1>1. IInv => OneAtATime
  BY DEF IInv
<1> QED
  BY <1>1, Invariance, PTL

\* A refused Submit's job never reaches the worker, and one the channel took is
\* never refused, although the map, the line and the channel are changed in
\* different critical sections.
THEOREM SubmitsAgree == Spec => []SubmitAgrees
<1>1. IInv => SubmitAgrees
  BY DEF IInv
<1> QED
  BY <1>1, Invariance, PTL

\* A step moves a job forward or leaves it.
LEMMA AdvanceStep ==
  ASSUME IInv, [Next]_vars
  PROVE  \A j \in Jobs : state'[j] = state[j] \/ Advances(j)
<1> DEFINE Forward == \A j \in Jobs : state'[j] = state[j] \/ Advances(j)
<1>1. ASSUME NEW j \in Jobs, SubmitRegister(j) PROVE Forward
  BY <1>1 DEF SubmitRegister, Advances, IInv, TypeOK, SubmitAgrees
<1>2. CASE WorkerBegin
  BY <1>2 DEF WorkerBegin, Advances, IInv, TypeOK, SubmitAgrees, InHand
<1>3. ASSUME NEW outcome \in Outcomes, WorkerFinish(outcome) PROVE Forward
  <2>1. held \in Jobs /\ running = held
    BY <1>3 DEF WorkerFinish, IInv, WorkerAgrees
  <2>2. state[held] = "running"
    BY <2>1, ConstantsAssumption DEF IInv, OneAtATime, ToSetOf
  <2> QED
    BY <1>3, <2>2 DEF WorkerFinish, Advances, IInv, TypeOK
<1>4. ASSUME UNCHANGED state PROVE Forward
  BY <1>4
<1> QED
  BY <1>1, <1>2, <1>3, <1>4
     DEF Next, Submit, Worker, SubmitSend, SubmitFull, SubmitRollback, SubmitAnnounce,
         WorkerReceive, WorkerStop, WorkerAnnounceStart, WorkerAnnounceEnd, Cancel, Exit, vars

\* A job's state only moves forward, and the worker never starts a job that was
\* refused: what it received from the channel is queued and was accepted.
THEOREM JobsOnlyAdvance == Spec => OnlyAdvances
<1> DEFINE Forward == \A j \in Jobs : state'[j] = state[j] \/ Advances(j)
<1>1. IInv /\ [Next]_vars => [Forward]_vars
  BY AdvanceStep
<1> QED
  BY <1>1, Invariance, PTL DEF Spec, OnlyAdvances

\* A job leaves the map by its own rollback, or because it is the one that ended
\* longest ago and Retain others have ended since.
THEOREM EvictionTakesTheOldest == Spec => OnlyOldestEvicted
<1> DEFINE Oldest == \A j \in jobs \ jobs' :
                       \/ submit[j] = "rejecting"
                       \/ Len(finished) = Retain /\ j = Head(finished)
<1>1. IInv /\ [Next]_vars => [Oldest]_vars
  <2> SUFFICES ASSUME IInv, Next PROVE Oldest
    BY DEF vars
  <2>1. ASSUME NEW j \in Jobs, SubmitRollback(j) PROVE Oldest
    BY <2>1 DEF SubmitRollback
  <2>2. ASSUME NEW outcome \in Outcomes, WorkerFinish(outcome) PROVE Oldest
    <3> DEFINE all == Append(finished, held)
    <3>1. /\ held \in Jobs /\ held \notin ToSet(finished)
          /\ finished \in Seq(Jobs) /\ NoRepeats(finished) /\ Len(finished) <= Retain
      BY <2>2 DEF WorkerFinish, IInv, TypeOK, WorkerAgrees, MapAccounted, CapacityKept
    <3>2. /\ all \in Seq(Jobs) /\ Len(all) = Len(finished) + 1 /\ NoRepeats(all)
          /\ \A i \in 1 .. Len(finished) : all[i] = finished[i]
      BY <3>1, AppendElements, AppendProperties
    <3>3. Len(finished) \in Nat /\ Retain \in Nat \ {0} /\ Len(all) <= Retain + 1
      BY <3>1, <3>2, LenProperties, ConstantsAssumption
    <3>4. Evicted(all) = IF Len(all) > Retain THEN {Head(all)} ELSE {}
      BY <3>2, <3>3, KeptElements
    <3>5. Len(all) > Retain => Len(finished) = Retain /\ Head(all) = Head(finished)
      <4> SUFFICES ASSUME Len(all) > Retain
                   PROVE  Len(finished) = Retain /\ Head(all) = Head(finished)
        OBVIOUS
      <4>1. Len(finished) = Retain /\ 1 \in 1 .. Len(finished)
        BY <3>1, <3>2, <3>3
      <4>2. Head(all) = all[1] /\ Head(finished) = finished[1]
        BY <3>1, <3>2, <4>1
      <4> QED
        BY <3>2, <4>1, <4>2
    <3>6. jobs' = jobs \ Evicted(all)
      BY <2>2 DEF WorkerFinish
    <3> QED
      BY <3>4, <3>5, <3>6
  <2>3. ASSUME jobs \subseteq jobs' PROVE Oldest
    BY <2>3
  <2> QED
    BY <2>1, <2>2, <2>3
       DEF Next, Submit, Worker, SubmitRegister, SubmitSend, SubmitFull, SubmitAnnounce,
           WorkerReceive, WorkerStop, WorkerBegin, WorkerAnnounceStart, WorkerAnnounceEnd,
           Cancel, Exit
<1> QED
  BY <1>1, Invariance, PTL DEF Spec, OnlyOldestEvicted

-----------------------------------------------------------------------------
(* The bound on memory: what Submit calls add to it is what they have in flight. *)

\* A sequence without repetitions has as many places as elements.
LEMMA ElementCount ==
  ASSUME NEW S, NEW s \in Seq(S), NoRepeats(s)
  PROVE  IsFiniteSet(ToSet(s)) /\ Cardinality(ToSet(s)) = Len(s)
<1>1. Len(s) \in Nat /\ DOMAIN s = 1 .. Len(s) /\ s = [i \in 1 .. Len(s) |-> s[i]]
  BY LenProperties
<1>2. ToSet(s) = {s[i] : i \in 1 .. Len(s)}
  BY <1>1 DEF ToSet
<1>3. s \in [1 .. Len(s) -> ToSet(s)]
  BY <1>1, <1>2
<1>4. /\ s \in Surjection(1 .. Len(s), ToSet(s))
      /\ s \in Injection(1 .. Len(s), ToSet(s))
  BY <1>1, <1>2, <1>3 DEF Surjection, Injection, IsInjective, NoRepeats
<1>5. IsFiniteSet(1 .. Len(s)) /\ Cardinality(1 .. Len(s)) = Len(s)
  <2>1. \A a, b \in Int : IsFiniteSet(a .. b) /\ Cardinality(a .. b) = IF a > b THEN 0 ELSE b - a + 1
    BY FS_Interval
  <2>2. \A n \in Nat : (IF 1 > n THEN 0 ELSE n - 1 + 1) = n /\ n \in Int /\ 1 \in Int
    OBVIOUS
  <2>3. \A n \in Nat : IsFiniteSet(1 .. n) /\ Cardinality(1 .. n) = n
    BY <2>1, <2>2, Zenon
  <2> QED
    BY <1>1, <2>3, Zenon
<1> QED
  BY <1>4, <1>5, FS_Surjection

\* The bound Clients on Submits in flight.
ClientsKept == Cardinality(InFlight) <= Clients

\* InFlight is finite, and what shrinks it keeps the bound.
LEMMA FlightShrinks ==
  ASSUME ClientsKept, InFlight' \subseteq InFlight
  PROVE  ClientsKept'
<1>1. IsFiniteSet(InFlight)
  BY FS_Subset, ConstantsAssumption DEF InFlight
<1>2. /\ IsFiniteSet(InFlight') /\ Cardinality(InFlight') <= Cardinality(InFlight)
      /\ Cardinality(InFlight) \in Nat /\ Cardinality(InFlight') \in Nat
  BY <1>1, FS_Subset, FS_CardinalityType
<1> QED
  BY <1>2, ConstantsAssumption DEF ClientsKept

\* Submit enters a job only while there is room for one more in flight.
LEMMA StepClients == TypeOK /\ ClientsKept /\ [Next]_vars => ClientsKept'
<1> SUFFICES ASSUME TypeOK, ClientsKept, [Next]_vars PROVE ClientsKept'
  OBVIOUS
<1>1. ASSUME NEW j \in Jobs, SubmitRegister(j) PROVE ClientsKept'
  <2>1. InFlight' = InFlight \cup {j} /\ j \notin InFlight
    BY <1>1 DEF SubmitRegister, TypeOK, InFlight
  <2>2. IsFiniteSet(InFlight)
    BY FS_Subset, ConstantsAssumption DEF InFlight
  <2>3. Cardinality(InFlight') = Cardinality(InFlight) + 1 /\ Cardinality(InFlight) \in Nat
    BY <2>1, <2>2, FS_AddElement, FS_CardinalityType
  <2>4. Cardinality(InFlight) < Clients
    BY <1>1 DEF SubmitRegister
  <2> QED
    BY <2>3, <2>4, ConstantsAssumption DEF ClientsKept
<1>2. ASSUME NEW j \in Jobs, SubmitSend(j) \/ SubmitFull(j) \/ SubmitRollback(j) \/ SubmitAnnounce(j)
      PROVE  ClientsKept'
  <2>1. InFlight' \subseteq InFlight
    BY <1>2 DEF SubmitSend, SubmitFull, SubmitRollback, SubmitAnnounce, TypeOK, InFlight
  <2> QED
    BY <2>1, FlightShrinks
<1>3. ASSUME UNCHANGED submit PROVE ClientsKept'
  <2>1. InFlight' = InFlight
    BY <1>3 DEF InFlight
  <2> QED
    BY <2>1 DEF ClientsKept
<1> QED
  BY <1>1, <1>2, <1>3
     DEF Next, Submit, Worker, WorkerReceive, WorkerStop, WorkerBegin, WorkerAnnounceStart,
         WorkerFinish, WorkerAnnounceEnd, Cancel, Exit, vars

\* What the invariants say of each part of the map, added up.
LEMMA PartsBound == IInv => MemoryBounded
<1> SUFFICES ASSUME IInv PROVE MemoryBounded
  OBVIOUS
<1>1. /\ queued \in Seq(Jobs) /\ NoRepeats(queued) /\ ch \in Seq(Jobs) /\ NoRepeats(ch)
  BY DEF IInv, TypeOK, LineAccounted
<1>2. /\ IsFiniteSet(ToSet(queued)) /\ Cardinality(ToSet(queued)) = Len(queued) /\ Len(queued) \in Nat
      /\ IsFiniteSet(ToSet(ch)) /\ Cardinality(ToSet(ch)) = Len(ch) /\ Len(ch) \in Nat
  BY <1>1, ElementCount, LenProperties
<1>3. IsFiniteSet(InFlight) /\ Cardinality(InFlight) \in Nat
  BY FS_Subset, FS_CardinalityType, ConstantsAssumption DEF InFlight
<1> DEFINE aux == InFlight \cup ToSet(ch)
           one == ToSetOf(running)
           left == ToSet(queued) \cup one
           f == Cardinality(InFlight)
           h == Cardinality(InHand)
           o == Cardinality(one)
<1>4. IsFiniteSet(aux) /\ Cardinality(aux) \in Nat /\ Cardinality(aux) <= f + Buffer
  <2>1. /\ IsFiniteSet(aux) /\ Cardinality(aux) \in Nat
        /\ Cardinality(aux) = f + Len(ch) - Cardinality(InFlight \cap ToSet(ch))
    BY <1>2, <1>3, FS_Union, FS_CardinalityType
  <2>2. Cardinality(InFlight \cap ToSet(ch)) = 0
    BY FS_EmptySet DEF IInv, LineAccounted
  <2>3. Len(ch) <= Buffer
    BY DEF IInv, CapacityKept
  <2> QED
    BY <1>2, <1>3, <2>1, <2>2, <2>3, ConstantsAssumption
<1>5. /\ IsFiniteSet(InHand) /\ IsFiniteSet(one)
      /\ h = IF worker = "received" THEN 1 ELSE 0
      /\ o = IF running # NoJob THEN 1 ELSE 0
  BY FS_EmptySet, FS_Singleton DEF InHand, ToSetOf
<1>6. h + o <= 1 /\ h \in Nat /\ o \in Nat
  BY <1>5 DEF IInv, WorkerAgrees
<1>7. Len(queued) <= f + Buffer + h
  <2>1. ToSet(queued) = aux \cup InHand
    BY DEF IInv, LineAccounted
  <2>2. /\ Cardinality(aux \cup InHand) = Cardinality(aux) + h - Cardinality(aux \cap InHand)
        /\ Cardinality(aux \cap InHand) \in Nat
    BY <1>4, <1>5, FS_Union, FS_Intersection, FS_CardinalityType
  <2>3. Len(queued) = Cardinality(aux \cup InHand)
    BY <1>2, <2>1
  <2> HIDE DEF aux, f, h
  <2> QED
    BY <1>3, <1>4, <1>6, <2>2, <2>3, ConstantsAssumption DEF f
<1>8. /\ IsFiniteSet(left) /\ Cardinality(left) \in Nat
      /\ Cardinality(left) = Len(queued) + o - Cardinality(ToSet(queued) \cap one)
      /\ Cardinality(ToSet(queued) \cap one) \in Nat
  BY <1>2, <1>5, FS_Union, FS_Intersection, FS_CardinalityType
<1>9. Cardinality(jobs \ ToSet(finished)) <= Cardinality(left) /\ Cardinality(jobs \ ToSet(finished)) \in Nat
  <2>1. jobs \ ToSet(finished) \subseteq left
    BY DEF IInv, MapAccounted
  <2> HIDE DEF left
  <2> QED
    BY <1>8, <2>1, FS_Subset, FS_CardinalityType
<1>10. Buffer \in Nat /\ f \in Nat /\ Len(finished) <= Retain
  BY <1>3, ConstantsAssumption DEF IInv, CapacityKept
<1> DEFINE n == Cardinality(jobs \ ToSet(finished))
           l == Cardinality(left)
           x == Cardinality(ToSet(queued) \cap one)
<1>11. n \in Nat /\ l \in Nat /\ x \in Nat /\ n <= l /\ l = Len(queued) + o - x
  BY <1>8, <1>9
<1> HIDE DEF aux, one, left, f, h, o, n, l, x
<1>12. Len(queued) <= Buffer + 1 + f /\ n <= Buffer + 1 + f
  BY <1>2, <1>6, <1>7, <1>10, <1>11
<1> QED
  BY <1>10, <1>12 DEF MemoryBounded, n, f

\* Neither overlapping Submits nor refusals nor retained results make the line or the map
\* grow past what the configuration allows.
THEOREM MemoryStaysBounded == Spec => []MemoryBounded
BY PartsBound, Invariance, PTL

\* In figures of the configuration: a full channel, one job with the worker, one for each of
\* the Submits that may overlap, and the retained results.
MapBounded == Cardinality(jobs) <= Buffer + 1 + Clients + Retain

\* The retained results are counted once each.
LEMMA MapBound == IInv /\ ClientsKept => MapBounded
<1> SUFFICES ASSUME IInv, ClientsKept PROVE MapBounded
  OBVIOUS
<1>1. /\ IsFiniteSet(ToSet(finished)) /\ Cardinality(ToSet(finished)) = Len(finished)
      /\ Len(finished) \in Nat
  BY ElementCount, LenProperties DEF IInv, TypeOK, MapAccounted
<1> DEFINE live == jobs \ ToSet(finished)
           n == Cardinality(live)
           f == Cardinality(InFlight)
<1>2. IsFiniteSet(live) /\ n \in Nat /\ f \in Nat
  BY FS_Subset, FS_CardinalityType, ConstantsAssumption DEF InFlight, IInv, TypeOK
<1>3. live \cup ToSet(finished) = jobs /\ live \cap ToSet(finished) = {}
  BY DEF IInv, MapAccounted
<1>4. Cardinality(jobs) = n + Len(finished)
  <2> HIDE DEF live
  <2>1. Cardinality(live \cup ToSet(finished)) = n + Len(finished) - Cardinality(live \cap ToSet(finished))
    BY <1>1, <1>2, FS_Union
  <2>2. Cardinality(live \cap ToSet(finished)) = 0
    BY <1>3, FS_EmptySet
  <2>3. Cardinality(live \cup ToSet(finished)) = Cardinality(jobs)
    BY <1>3, Zenon
  <2> DEFINE u == Cardinality(live \cup ToSet(finished))
             x == Cardinality(live \cap ToSet(finished))
  <2>4. u = n + Len(finished) - x /\ x = 0 /\ u = Cardinality(jobs)
    BY <2>1, <2>2, <2>3, Zenon
  <2> HIDE DEF n, u, x
  <2> QED
    BY <1>1, <1>2, <2>4
<1>5. n <= Buffer + 1 + f /\ Len(finished) <= Retain /\ f <= Clients
  BY PartsBound DEF MemoryBounded, ClientsKept
<1> HIDE DEF n, f
<1> QED
  BY <1>1, <1>2, <1>4, <1>5, ConstantsAssumption DEF MapBounded

\* Manager.jobs keeps within the configured sizes, whatever is submitted.
THEOREM MapStaysBounded == Spec => []MapBounded
<1>1. Init => ClientsKept
  <2> SUFFICES ASSUME Init PROVE ClientsKept
    OBVIOUS
  <2>1. InFlight = {}
    BY DEF Init, InFlight
  <2> QED
    BY <2>1, FS_EmptySet, ConstantsAssumption DEF ClientsKept
<1>2. IInv => TypeOK
  BY DEF IInv
<1>3. Spec => []ClientsKept
  BY <1>1, <1>2, StepClients, Invariance, PTL DEF Spec
<1> QED
  BY <1>3, MapBound, Invariance, PTL

-----------------------------------------------------------------------------
(* The line: who is in it, in which place, and how long it is. *)

\* Position(j), for any line.
Place(s, j) == SelectInSeq(s, LAMBDA id : id = j)

\* In a line without repetitions the place of a job is where it is, and 0 if it is not.
LEMMA PlaceIs ==
  ASSUME NEW s \in Seq(Jobs), NoRepeats(s), NEW j
  PROVE  /\ \A i \in 1 .. Len(s) : s[i] = j => Place(s, j) = i
         /\ j \notin ToSet(s) => Place(s, j) = 0
         /\ Place(s, j) \in Nat
         /\ j \in ToSet(s) => Place(s, j) \in 1 .. Len(s) /\ s[Place(s, j)] = j
<1>1. DOMAIN s = 1 .. Len(s) /\ Len(s) \in Nat
  BY LenProperties
<1>2. Place(s, j) = IF {i \in 1 .. Len(s) : s[i] = j} # {}
                      THEN Min({i \in 1 .. Len(s) : s[i] = j}) ELSE 0
  BY DEF Place, SelectInSeq
<1>3. ASSUME NEW i \in 1 .. Len(s), s[i] = j PROVE Place(s, j) = i
  <2>1. {k \in 1 .. Len(s) : s[k] = j} = {i}
    BY <1>1, <1>3 DEF NoRepeats
  <2>2. Min({i}) = i
    BY DEF Min
  <2> QED
    BY <1>2, <2>1, <2>2
<1>4. j \notin ToSet(s) => Place(s, j) = 0
  BY <1>1, <1>2 DEF ToSet
<1>5. j \in ToSet(s) => \E i \in 1 .. Len(s) : s[i] = j
  BY <1>1 DEF ToSet
<1> QED
  BY <1>1, <1>3, <1>4, <1>5

\* Leaving the line shortens it by one, moves nobody back, and those behind forward.
LEMMA LeavingTheLine ==
  ASSUME NEW s \in Seq(Jobs), NoRepeats(s), NEW e \in ToSet(s)
  PROVE  /\ Len(removeID(s, e)) = Len(s) - 1
         /\ \A j : Place(removeID(s, e), j) <= Place(s, j)
         /\ \A j \in ToSet(removeID(s, e)) :
              /\ j \in ToSet(s) /\ j # e
              /\ Place(s, e) < Place(s, j) => Place(removeID(s, e), j) = Place(s, j) - 1
              /\ Place(s, e) # Place(s, j)
<1>1. DOMAIN s = 1 .. Len(s) /\ Len(s) \in Nat
  BY LenProperties
<1>2. PICK i \in 1 .. Len(s) : s[i] = e
  BY <1>1 DEF ToSet
<1>3. removeID(s, e) = RemoveAt(s, i)
  <2>1. Place(s, e) = i
    BY <1>2, PlaceIs
  <2>2. SelectInSeq(s, LAMBDA k : k = e) = i
    BY <2>1 DEF Place
  <2>3. removeID(s, e) = IF \E k \in 1 .. Len(s) : s[k] = e
                           THEN RemoveAt(s, SelectInSeq(s, LAMBDA k : k = e)) ELSE s
    BY DEF removeID, RemoveFirst
  <2>4. \E k \in 1 .. Len(s) : s[k] = e
    BY <1>2
  <2>5. removeID(s, e) = RemoveAt(s, SelectInSeq(s, LAMBDA k : k = e))
    BY <2>3, <2>4, Zenon
  <2> QED
    BY <2>2, <2>5, Zenon
<1> DEFINE r == removeID(s, e)
<1>4. /\ r \in Seq(Jobs) /\ Len(r) = Len(s) - 1
      /\ \A k \in 1 .. (Len(s) - 1) : r[k] = IF k < i THEN s[k] ELSE s[k + 1]
  <2>1. /\ RemoveAt(s, i) \in Seq(Jobs) /\ Len(RemoveAt(s, i)) = Len(s) - 1
        /\ \A k \in 1 .. (Len(s) - 1) : RemoveAt(s, i)[k] = IF k < i THEN s[k] ELSE s[k + 1]
    BY RemoveAtElements
  <2> QED
    BY <1>3, <2>1, Zenon
<1>5. NoRepeats(r)
  BY RemoveElements
<1> HIDE DEF r
<1>6. ASSUME NEW j PROVE Place(r, j) <= Place(s, j)
  <2>1. Place(s, j) \in Nat
    BY PlaceIs
  <2>2. CASE j \notin ToSet(r)
    <3>1. Place(r, j) = 0
      BY <1>4, <1>5, <2>2, PlaceIs
    <3> QED
      BY <2>1, <3>1
  <2>3. CASE j \in ToSet(r)
    <3> DEFINE k == Place(r, j)
    <3>1. k \in 1 .. (Len(s) - 1) /\ r[k] = j
      BY <1>4, <1>5, <2>3, PlaceIs
    <3> HIDE DEF k
    <3>2. CASE k < i
      <4>1. k \in 1 .. Len(s) /\ s[k] = j
        BY <1>1, <1>4, <3>1, <3>2
      <4>2. Place(s, j) = k
        BY <4>1, PlaceIs
      <4> QED
        BY <3>1, <4>2 DEF k
    <3>3. CASE ~ (k < i)
      <4>1. k + 1 \in 1 .. Len(s) /\ s[k + 1] = j
        BY <1>1, <1>4, <3>1, <3>3
      <4>2. Place(s, j) = k + 1
        BY <4>1, PlaceIs
      <4>3. k <= k + 1
        BY <3>1
      <4> QED
        BY <4>2, <4>3 DEF k
    <3> QED
      BY <3>2, <3>3
  <2> QED
    BY <2>2, <2>3
<1>7. ASSUME NEW j \in ToSet(r)
      PROVE  /\ j \in ToSet(s) /\ j # e
             /\ Place(s, e) < Place(s, j) => Place(r, j) = Place(s, j) - 1
             /\ Place(s, e) # Place(s, j)
  <2> DEFINE k == Place(r, j)
  <2>1. k \in 1 .. (Len(s) - 1) /\ r[k] = j
    BY <1>4, <1>5, <1>7, PlaceIs
  <2> HIDE DEF k
  <2>2. Place(s, e) = i
    BY <1>2, PlaceIs
  <2>3. CASE k < i
    <3>1. k \in 1 .. Len(s) /\ s[k] = j
      BY <1>1, <1>4, <2>1, <2>3
    <3>2. Place(s, j) = k /\ j \in ToSet(s)
      BY <1>1, <3>1, PlaceIs DEF ToSet
    <3>3. j # e
      BY <1>1, <1>2, <2>3, <3>1 DEF NoRepeats
    <3> QED
      BY <1>1, <2>1, <2>2, <2>3, <3>2, <3>3
  <2>4. CASE ~ (k < i)
    <3>1. k + 1 \in 1 .. Len(s) /\ s[k + 1] = j
      BY <1>1, <1>4, <2>1, <2>4
    <3>2. Place(s, j) = k + 1 /\ j \in ToSet(s)
      BY <1>1, <3>1, PlaceIs DEF ToSet
    <3>3. k + 1 # i
      BY <1>2, <2>1, <2>4
    <3>4. j # e
      BY <1>1, <1>2, <3>1, <3>3 DEF NoRepeats
    <3> QED
      BY <1>1, <2>1, <2>2, <2>4, <3>2, <3>3, <3>4 DEF k
  <2> QED
    BY <2>3, <2>4
<1> QED
  BY <1>4, <1>6, <1>7 DEF r

\* Joining it changes nobody else's place.
LEMMA JoiningTheLine ==
  ASSUME NEW s \in Seq(Jobs), NoRepeats(s), NEW e \in Jobs, e \notin ToSet(s), NEW j, j # e
  PROVE  Len(Append(s, e)) = Len(s) + 1 /\ Place(Append(s, e), j) = Place(s, j)
<1>1. /\ Append(s, e) \in Seq(Jobs) /\ Len(Append(s, e)) = Len(s) + 1 /\ Len(s) \in Nat
      /\ \A i \in 1 .. Len(s) : Append(s, e)[i] = s[i]
  BY AppendProperties, LenProperties
<1>2. NoRepeats(Append(s, e)) /\ ToSet(Append(s, e)) = ToSet(s) \cup {e}
  BY AppendElements
<1>3. CASE j \in ToSet(s)
  <2>1. Place(s, j) \in 1 .. Len(s) /\ s[Place(s, j)] = j
    BY <1>3, PlaceIs
  <2>2. Place(s, j) \in 1 .. Len(Append(s, e)) /\ Append(s, e)[Place(s, j)] = j
    BY <1>1, <2>1
  <2> QED
    BY <1>1, <1>2, <2>2, PlaceIs
<1>4. CASE j \notin ToSet(s)
  BY <1>1, <1>2, <1>4, PlaceIs
<1> QED
  BY <1>1, <1>3, <1>4

\* While a job waits, the durations its estimate is made of grow in no step but the one in
\* which the worker starts a job shown behind it (JobView, queue.go), whoever else submits,
\* is refused or ends; that start does lengthen the wait of the job it passes.
\* A job that leaves from in front makes room for itself as the running one.
THEOREM WaitsGrowOnlyByOvertaking == Spec => AheadNeverGrows
<1> DEFINE Shrinks(j) == \/ Ahead(j)' <= Ahead(j)
                         \/ running' \in ToSet(queued) /\ Position(j) < Position(running')
<1>1. ASSUME IInv, [Next]_vars, NEW j \in ToSet(queued) \cap ToSet(queued')
      PROVE  Shrinks(j)
  <2> DEFINE Busy == IF running # NoJob THEN 1 ELSE 0
  <2>1. /\ queued \in Seq(Jobs) /\ NoRepeats(queued)
        /\ Ahead(j) = Place(queued, j) + Busy
        /\ Ahead(j)' = Place(queued', j) + Busy'
        /\ \A k : Position(k) = Place(queued, k)
    <3>1. \A k : Position(k) = Place(queued, k)
      BY DEF Position, Place
    <3>2. Ahead(j) = Place(queued, j) + Busy
      BY <3>1 DEF Ahead
    <3>3. Position(j)' = Place(queued', j)
      BY DEF Position, Place, SelectInSeq
    <3>4. Ahead(j)' = Place(queued', j) + Busy'
      BY <3>3 DEF Ahead
    <3> QED
      BY <1>1, <3>1, <3>2, <3>4 DEF IInv, TypeOK, LineAccounted
  <2>2. \A k : Place(queued, k) \in Nat
    BY <2>1, PlaceIs
  <2>3. CASE UNCHANGED <<queued, running>>
    BY <2>1, <2>2, <2>3
  <2>4. ASSUME NEW k \in Jobs, SubmitRegister(k) PROVE Shrinks(j)
    <3>1. k \notin ToSet(queued) /\ queued' = Append(queued, k) /\ running' = running
      BY <1>1, <2>4 DEF SubmitRegister, IInv, LineAccounted, SubmitAgrees, InFlight, InHand
    <3>2. Place(queued', j) = Place(queued, j)
      BY <2>1, <3>1, JoiningTheLine
    <3> QED
      BY <2>1, <2>2, <3>1, <3>2
  <2>5. ASSUME NEW k \in Jobs, SubmitRollback(k) PROVE Shrinks(j)
    <3>1. k \in ToSet(queued) /\ queued' = removeID(queued, k) /\ running' = running
      BY <1>1, <2>5 DEF SubmitRollback, IInv, LineAccounted, InFlight
    <3>2. Place(queued', j) <= Place(queued, j)
      BY <2>1, <3>1, LeavingTheLine
    <3>3. Place(queued', j) + Busy <= Place(queued, j) + Busy
      <4>1. Place(queued', j) \in Nat
        BY <2>1, <3>1, RemoveElements, PlaceIs
      <4> QED
        BY <2>2, <3>2, <4>1
    <3> QED
      BY <2>1, <3>1, <3>3
  <2>6. CASE WorkerBegin
    <3>1. /\ held \in ToSet(queued) /\ queued' = removeID(queued, held)
          /\ running = NoJob /\ running' = held
      BY <1>1, <2>6 DEF WorkerBegin, IInv, LineAccounted, InHand, WorkerAgrees
    <3>2. CASE Place(queued, held) < Place(queued, j)
      <4>1. Place(queued', j) = Place(queued, j) - 1
        BY <2>1, <3>1, <3>2, LeavingTheLine
      <4> QED
        BY <2>1, <2>2, <3>1, <4>1
    <3>3. CASE ~ (Place(queued, held) < Place(queued, j))
      <4>1. Place(queued, held) # Place(queued, j)
        BY <2>1, <3>1, LeavingTheLine
      <4>2. Place(queued, j) < Place(queued, held)
        BY <2>2, <3>3, <4>1
      <4> QED
        BY <2>1, <3>1, <4>2
    <3> QED
      BY <3>2, <3>3
  <2>7. ASSUME NEW outcome \in Outcomes, WorkerFinish(outcome) PROVE Shrinks(j)
    <3>1. UNCHANGED queued /\ running' = NoJob
      BY <1>1, <2>7 DEF WorkerFinish
    <3> QED
      BY <2>1, <2>2, <3>1
  <2>8. CASE \/ \E k \in Jobs : SubmitSend(k) \/ SubmitFull(k) \/ SubmitAnnounce(k)
             \/ WorkerReceive \/ WorkerStop \/ WorkerAnnounceStart \/ WorkerAnnounceEnd
             \/ Cancel \/ Exit \/ UNCHANGED vars
    <3>1. UNCHANGED <<queued, running>>
      BY <2>8 DEF SubmitSend, SubmitFull, SubmitAnnounce, WorkerReceive, WorkerStop,
                  WorkerAnnounceStart, WorkerAnnounceEnd, Cancel, Exit, vars
    <3> QED
      BY <2>3, <3>1
  <2> QED
    BY <1>1, <2>4, <2>5, <2>6, <2>7, <2>8 DEF Next, Submit, Worker
<1>2. IInv /\ [Next]_vars => \A j \in ToSet(queued) \cap ToSet(queued') : Shrinks(j)
  BY <1>1
<1> QED
  BY <1>2, Invariance, PTL DEF Spec, AheadNeverGrows

-----------------------------------------------------------------------------
(* JobQueue implements FifoService. *)

\* What the refinement mapping makes of the queue.
Line   == IF worker = "received" THEN <<held>> \o ch ELSE ch
Status == [j \in Jobs |-> FifoStatus(j)]
Open   == ctx = "live"

-----------------------------------------------------------------------------
(* A job in the worker's hand is in front of the channel. *)

LEMMA InFront ==
  ASSUME NEW S, NEW s \in Seq(S), NEW h \in S
  PROVE  /\ <<h>> \o s \in Seq(S) /\ Len(<<h>> \o s) = Len(s) + 1
         /\ <<h>> \o s # <<>> /\ Head(<<h>> \o s) = h /\ Tail(<<h>> \o s) = s
<1> DEFINE t == <<h>> \o s
<1>1. <<h>> \in Seq(S) /\ Len(<<h>>) = 1 /\ <<h>>[1] = h
  OBVIOUS
<1>2. Len(s) \in Nat
  BY LenProperties
<1>3. /\ t \in Seq(S) /\ Len(t) = 1 + Len(s)
      /\ \A i \in 1 .. 1 + Len(s) : t[i] = IF i <= 1 THEN h ELSE s[i - 1]
  <2>1. /\ t \in Seq(S) /\ Len(t) = Len(<<h>>) + Len(s)
        /\ \A i \in 1 .. Len(<<h>>) + Len(s) :
             t[i] = IF i <= Len(<<h>>) THEN <<h>>[i] ELSE s[i - Len(<<h>>)]
    BY <1>1, ConcatProperties
  <2> HIDE DEF t
  <2>2. \A i \in 1 .. 1 + Len(s) : t[i] = IF i <= 1 THEN h ELSE s[i - 1]
    <3> SUFFICES ASSUME NEW i \in 1 .. 1 + Len(s)
                 PROVE  t[i] = IF i <= 1 THEN h ELSE s[i - 1]
      OBVIOUS
    <3>1. i <= 1 => i = 1
      BY <1>2
    <3> QED
      BY <1>1, <2>1, <3>1
  <2> QED
    BY <1>1, <2>1, <2>2
<1> HIDE DEF t
<1>4. t # <<>>
  BY <1>2, <1>3
<1>5. Head(t) = h
  <2>1. 1 \in 1 .. 1 + Len(s) /\ t[1] = h
    BY <1>2, <1>3
  <2> QED
    BY <1>3, <1>4, <2>1
<1>6. Tail(t) = s
  <2>1. /\ Tail(t) \in Seq(S) /\ Len(Tail(t)) = Len(t) - 1
        /\ \A i \in 1 .. Len(Tail(t)) : Tail(t)[i] = t[i + 1]
    BY <1>3, <1>4, HeadTailProperties
  <2>2. \A i \in 1 .. Len(s) : Tail(t)[i] = s[i]
    BY <1>2, <1>3, <2>1
  <2>3. Len(Tail(t)) = Len(s)
    BY <1>2, <1>3, <2>1
  <2> QED
    BY <2>1, <2>2, <2>3, SeqEqual
<1> QED
  BY <1>2, <1>3, <1>4, <1>5, <1>6 DEF t

\* Sending behind it is sending to the line.
LEMMA SentBehind ==
  ASSUME NEW S, NEW s \in Seq(S), NEW h \in S, NEW e \in S
  PROVE  Append(<<h>> \o s, e) = <<h>> \o Append(s, e)
<1>1. <<h>> \in Seq(S) /\ <<e>> \in Seq(S)
  OBVIOUS
<1>2. Append(<<h>> \o s, e) = (<<h>> \o s) \o <<e>>
  BY InFront, AppendIsConcat
<1>3. Append(s, e) = s \o <<e>>
  BY AppendIsConcat
<1>4. (<<h>> \o s) \o <<e>> = <<h>> \o (s \o <<e>>)
  BY <1>1, ConcatAssociative
<1> QED
  BY <1>2, <1>3, <1>4

\* Receiving moves the first job from the channel to the hand and leaves the line alone.
LEMMA ReceivedFirst ==
  ASSUME NEW S, NEW s \in Seq(S), s # <<>>
  PROVE  <<Head(s)>> \o Tail(s) = s
<1> DEFINE t == <<Head(s)>> \o Tail(s)
<1>1. /\ Head(s) \in S /\ Head(s) = s[1]
      /\ Tail(s) \in Seq(S) /\ Len(Tail(s)) = Len(s) - 1
      /\ \A i \in 1 .. Len(Tail(s)) : Tail(s)[i] = s[i + 1]
  BY HeadTailProperties
<1>2. Len(s) \in Nat \ {0}
  BY LenProperties, EmptySeq
<1>3. /\ t \in Seq(S) /\ Len(t) = Len(Tail(s)) + 1 /\ t # <<>>
      /\ Head(t) = Head(s) /\ Tail(t) = Tail(s)
  BY <1>1, InFront
<1> HIDE DEF t
<1>4. \A i \in 1 .. Len(t) : t[i] = s[i]
  <2>1. t[1] = s[1]
    BY <1>1, <1>3
  <2>2. \A i \in 1 .. Len(Tail(t)) : Tail(t)[i] = t[i + 1]
    BY <1>3, HeadTailProperties
  <2> SUFFICES ASSUME NEW i \in 1 .. Len(t), i # 1 PROVE t[i] = s[i]
    BY <2>1
  <2>3. /\ i - 1 \in 1 .. Len(Tail(s)) /\ (i - 1) + 1 = i
    BY <1>1, <1>2, <1>3
  <2>4. Tail(s)[i - 1] = s[(i - 1) + 1] /\ Tail(t)[i - 1] = t[(i - 1) + 1]
    BY <1>1, <1>3, <2>2, <2>3
  <2> QED
    BY <1>3, <2>3, <2>4
<1>5. t = s
  BY <1>1, <1>2, <1>3, <1>4, SeqEqual
<1> QED
  BY <1>5 DEF t

-----------------------------------------------------------------------------
(* The actions of FifoService in the terms of the mapping. *)

LEMMA Mapping ==
  /\ Fifo!FInit <=> /\ Line = <<>> /\ running = NoJob /\ Open = TRUE
                    /\ Status = [j \in Jobs |-> "new"]
  /\ \A j : Fifo!Accept(j) <=>
       /\ Status[j] = "new" /\ Len(Line) < Buffer + 1
       /\ Line' = Append(Line, j) /\ Status' = [Status EXCEPT ![j] = "waiting"]
       /\ running' = running /\ Open' = Open
  /\ \A j : Fifo!Refuse(j) <=>
       /\ Status[j] = "new" /\ Status' = [Status EXCEPT ![j] = "refused"]
       /\ Line' = Line /\ running' = running /\ Open' = Open
  /\ Fifo!Serve <=>
       /\ running = NoJob /\ Line # <<>>
       /\ running' = Head(Line) /\ Line' = Tail(Line)
       /\ Status' = [Status EXCEPT ![Head(Line)] = "served"] /\ Open' = Open
  /\ \A o : Fifo!Complete(o) <=>
       /\ running # NoJob /\ Status' = [Status EXCEPT ![running] = o]
       /\ running' = NoJob /\ Line' = Line /\ Open' = Open
  /\ Fifo!Close <=>
       /\ Open /\ Open' = FALSE
       /\ Line' = Line /\ running' = running /\ Status' = Status
  /\ (UNCHANGED Fifo!fvars) <=>
       /\ Line' = Line /\ running' = running /\ Status' = Status /\ Open' = Open
BY DEF Fifo!FInit, Fifo!Accept, Fifo!Refuse, Fifo!Serve, Fifo!Complete, Fifo!Close, Fifo!fvars,
       Line, Status, Open

\* A step after which every job but j stands as before changes Status at j only.
LEMMA StatusChange ==
  ASSUME NEW j \in Jobs, \A k \in Jobs \ {j} : state'[k] = state[k] /\ submit'[k] = submit[k]
  PROVE  Status' = [Status EXCEPT ![j] = FifoStatus(j)']
<1>1. \A k \in Jobs \ {j} : FifoStatus(k)' = FifoStatus(k)
  BY DEF FifoStatus
<1> QED
  BY <1>1 DEF Status

LEMMA StatusStays ==
  ASSUME UNCHANGED <<state, submit>>
  PROVE  Status' = Status
BY DEF Status, FifoStatus

\* Every step of the queue is a step of the service or none.
LEMMA StepServes == IInv /\ [Next]_vars => [Fifo!FNext]_(Fifo!fvars)
<1> SUFFICES ASSUME IInv, [Next]_vars PROVE Fifo!FNext \/ UNCHANGED Fifo!fvars
  BY Zenon
<1> USE ConstantsAssumption
<1>1. /\ ch \in Seq(Jobs) /\ Len(ch) \in Nat /\ state \in [Jobs -> States]
      /\ submit \in [Jobs -> SubmitPoints] /\ worker \in WorkerPoints
      /\ worker = "received" => held \in Jobs
      /\ Buffer \in Nat
  BY LenProperties DEF IInv, TypeOK, WorkerAgrees
<1>2. \A j \in Jobs : Status[j] = FifoStatus(j)
  BY DEF Status
<1>3. ASSUME Line' = Line, running' = running, Open' = Open, Status' = Status
      PROVE  Fifo!FNext \/ UNCHANGED Fifo!fvars
  BY <1>3, Mapping
<1>4. ASSUME NEW j \in Jobs, SubmitRegister(j) PROVE Fifo!FNext \/ UNCHANGED Fifo!fvars
  <2>1. /\ UNCHANGED <<ch, running, worker, held, ctx>>
        /\ submit[j] = "idle" /\ submit'[j] = "sending"
        /\ \A k \in Jobs \ {j} : state'[k] = state[k] /\ submit'[k] = submit[k]
    BY <1>1, <1>4 DEF SubmitRegister
  <2>2. FifoStatus(j) = "new" /\ FifoStatus(j)' = "new"
    BY <2>1 DEF FifoStatus
  <2>3. Status' = Status
    <3>1. Status' = [Status EXCEPT ![j] = Status[j]]
      BY <1>2, <2>1, <2>2, StatusChange
    <3> QED
      BY <3>1 DEF Status
  <2>4. Line' = Line /\ Open' = Open
    BY <2>1 DEF Line, Open
  <2> QED
    BY <1>3, <2>1, <2>3, <2>4
<1>5. ASSUME NEW j \in Jobs, SubmitSend(j) PROVE Fifo!FNext
  <2>1. /\ UNCHANGED <<state, running, worker, held, ctx>>
        /\ submit[j] = "sending" /\ submit'[j] = "announcing"
        /\ \A k \in Jobs \ {j} : state'[k] = state[k] /\ submit'[k] = submit[k]
        /\ Len(ch) < Buffer /\ ch' = Append(ch, j)
    BY <1>1, <1>5 DEF SubmitSend
  <2>2. state[j] = "queued"
    BY <2>1 DEF IInv, SubmitAgrees
  <2>3. FifoStatus(j) = "new" /\ FifoStatus(j)' = "waiting"
    BY <2>1, <2>2 DEF FifoStatus
  <2>4. Status' = [Status EXCEPT ![j] = "waiting"]
    BY <2>1, <2>3, StatusChange
  <2>5. Len(Line) < Buffer + 1 /\ Line' = Append(Line, j)
    <3>1. CASE worker = "received"
      <4>1. Len(Line) = Len(ch) + 1
        BY <1>1, <3>1, InFront DEF Line
      <4>2. Line' = <<held>> \o Append(ch, j) /\ Line = <<held>> \o ch
        BY <2>1, <3>1 DEF Line
      <4>3. Line' = Append(Line, j)
        BY <1>1, <3>1, <4>2, SentBehind
      <4> QED
        BY <1>1, <2>1, <4>1, <4>3
    <3>2. CASE worker # "received"
      BY <1>1, <2>1, <3>2 DEF Line
    <3> QED
      BY <3>1, <3>2
  <2>6. Fifo!Accept(j)
    BY <1>2, <2>1, <2>3, <2>4, <2>5, Mapping DEF Open
  <2> QED
    BY <2>6 DEF Fifo!FNext
<1>6. ASSUME NEW j \in Jobs, SubmitFull(j) PROVE Fifo!FNext
  <2>1. /\ UNCHANGED <<state, ch, running, worker, held, ctx>>
        /\ submit[j] = "sending" /\ submit'[j] = "rejecting"
        /\ \A k \in Jobs \ {j} : state'[k] = state[k] /\ submit'[k] = submit[k]
    BY <1>1, <1>6 DEF SubmitFull
  <2>2. FifoStatus(j) = "new" /\ FifoStatus(j)' = "refused"
    BY <2>1 DEF FifoStatus
  <2>3. Status' = [Status EXCEPT ![j] = "refused"]
    BY <2>1, <2>2, StatusChange
  <2>4. Fifo!Refuse(j)
    BY <1>2, <2>1, <2>2, <2>3, Mapping DEF Line, Open
  <2> QED
    BY <2>4 DEF Fifo!FNext
<1>7. ASSUME NEW j \in Jobs, SubmitRollback(j) \/ SubmitAnnounce(j)
      PROVE  Fifo!FNext \/ UNCHANGED Fifo!fvars
  <2>1. /\ UNCHANGED <<state, ch, running, worker, held, ctx>>
        /\ \/ submit[j] = "rejecting" /\ submit'[j] = "rejected"
           \/ submit[j] = "announcing" /\ submit'[j] = "accepted"
        /\ \A k \in Jobs \ {j} : state'[k] = state[k] /\ submit'[k] = submit[k]
    BY <1>1, <1>7 DEF SubmitRollback, SubmitAnnounce
  <2>2. FifoStatus(j)' = FifoStatus(j)
    BY <2>1 DEF FifoStatus
  <2>3. Status' = Status
    <3>1. Status' = [Status EXCEPT ![j] = Status[j]]
      BY <1>2, <2>1, <2>2, StatusChange
    <3> QED
      BY <3>1 DEF Status
  <2> QED
    BY <1>3, <2>1, <2>3 DEF Line, Open
<1>8. ASSUME WorkerReceive PROVE Fifo!FNext \/ UNCHANGED Fifo!fvars
  <2>1. /\ UNCHANGED <<state, running, submit, ctx>>
        /\ worker = "selecting" /\ worker' = "received"
        /\ ch # <<>> /\ held' = Head(ch) /\ ch' = Tail(ch)
    BY <1>8 DEF WorkerReceive
  <2>2. Line' = Line
    BY <1>1, <2>1, ReceivedFirst DEF Line
  <2> QED
    BY <1>3, <2>1, <2>2, StatusStays DEF Open
<1>9. ASSUME WorkerStop \/ WorkerAnnounceStart \/ WorkerAnnounceEnd \/ UNCHANGED vars
      PROVE  Fifo!FNext \/ UNCHANGED Fifo!fvars
  <2>1. /\ UNCHANGED <<state, ch, running, submit, ctx, held>>
        /\ worker' = "received" <=> worker = "received"
    BY <1>9 DEF WorkerStop, WorkerAnnounceStart, WorkerAnnounceEnd, vars
  <2> QED
    BY <1>3, <2>1, StatusStays DEF Line, Open
<1>10. ASSUME WorkerBegin PROVE Fifo!FNext
  <2>1. /\ UNCHANGED <<ch, submit, ctx, held>>
        /\ worker = "received" /\ worker' = "starting" /\ held \in Jobs
        /\ state' = [state EXCEPT ![held] = "running"] /\ running' = held /\ running = NoJob
    BY <1>1, <1>10 DEF WorkerBegin, IInv, WorkerAgrees
  <2>2. submit[held] \in {"announcing", "accepted"}
    BY <2>1 DEF IInv, SubmitAgrees, InHand
  <2>3. FifoStatus(held)' = "served"
    BY <1>1, <2>1, <2>2 DEF FifoStatus
  <2>4. Status' = [Status EXCEPT ![held] = "served"]
    BY <1>1, <2>1, <2>3, StatusChange
  <2>5. Line = <<held>> \o ch /\ Line' = ch
    BY <2>1 DEF Line
  <2>6. Line # <<>> /\ Head(Line) = held /\ Tail(Line) = Line'
    BY <1>1, <2>1, <2>5, InFront
  <2>7. Fifo!Serve
    BY <2>1, <2>4, <2>6, Mapping DEF Open
  <2> QED
    BY <2>7 DEF Fifo!FNext, Fifo!Progress
<1>11. ASSUME NEW outcome \in Outcomes, WorkerFinish(outcome) PROVE Fifo!FNext
  <2>1. /\ UNCHANGED <<ch, submit, ctx, held>>
        /\ worker = "running" /\ worker' = "finishing" /\ held \in Jobs /\ running = held
        /\ state' = [state EXCEPT ![held] = outcome] /\ running' = NoJob
    BY <1>11 DEF WorkerFinish, IInv, WorkerAgrees
  <2>2. state[held] = "running"
    BY <2>1 DEF IInv, OneAtATime, ToSetOf
  <2>3. submit[held] \in {"announcing", "accepted"}
    BY <1>1, <2>1, <2>2 DEF IInv, SubmitAgrees, SubmitPoints
  <2>4. FifoStatus(held)' = outcome
    BY <1>1, <2>1, <2>3 DEF FifoStatus, Outcomes
  <2>5. Status' = [Status EXCEPT ![running] = outcome]
    BY <1>1, <2>1, <2>4, StatusChange
  <2>6. Fifo!Complete(outcome)
    BY <2>1, <2>5, Mapping DEF Line, Open
  <2> QED
    BY <2>6 DEF Fifo!FNext, Fifo!Progress, Outcomes
<1>12. ASSUME Cancel PROVE Fifo!FNext
  <2>1. UNCHANGED <<state, ch, running, submit, worker, held>> /\ Open = TRUE /\ Open' = FALSE
    BY <1>12 DEF Cancel, Open
  <2>2. Fifo!Close
    BY <2>1, StatusStays, Mapping DEF Line
  <2> QED
    BY <2>2 DEF Fifo!FNext
<1>13. ASSUME Exit PROVE Fifo!FNext \/ UNCHANGED Fifo!fvars
  <2>1. UNCHANGED <<state, ch, running, submit, worker, held>> /\ Open' = Open
    BY <1>13 DEF Exit, Open
  <2> QED
    BY <1>3, <2>1, StatusStays DEF Line
<1> QED
  BY <1>4, <1>5, <1>6, <1>7, <1>8, <1>9, <1>10, <1>11, <1>12, <1>13 DEF Next, Submit, Worker

LEMMA InitServes == Init => Fifo!FInit
<1> SUFFICES ASSUME Init PROVE Fifo!FInit
  OBVIOUS
<1>1. Line = <<>> /\ running = NoJob /\ Open = TRUE
  BY DEF Init, Line, Open
<1>2. Status = [j \in Jobs |-> "new"]
  BY DEF Init, Status, FifoStatus
<1> QED
  BY <1>1, <1>2, Mapping

\* The queue does what FifoService says, however Submits and the worker interleave: it
\* serves strictly in the order in which the channel took the jobs, one at a time, each
\* once, refuses for good, and gives every job one outcome.
THEOREM ServesInOrder == Spec => Fifo!FSafety
BY InitServes, StepServes, Invariance, PTL DEF Spec, Fifo!FSafety

-----------------------------------------------------------------------------
(* What of the map ReviewFlow models: the jobs that the channel took. *)

Taken == {j \in Jobs : submit[j] \in {"announcing", "accepted"}}

\* Of the jobs that the service accepted, the map holds the one being served, those in its
\* line and the results it retains.  In between there are only Submits that may be undone.
MapIsService == jobs \cap Taken = ToSetOf(running) \cup ToSet(Line) \cup ToSet(finished)

\* A result joins the retained ones, and takes the place of the oldest, in the step that
\* completes its job and in no other.
RetainsInService ==
  [][finished' = IF running # NoJob /\ running' = NoJob
                   THEN Kept(Append(finished, running)) ELSE finished]_vars

LEMMA LineElements ==
  ASSUME IInv
  PROVE  ToSet(Line) = ToSet(ch) \cup InHand
<1>1. CASE worker = "received"
  <2>1. held \in Jobs /\ ch \in Seq(Jobs)
    BY <1>1 DEF IInv, TypeOK, WorkerAgrees
  <2>2. /\ Line \in Seq(Jobs) /\ Line # <<>> /\ Head(Line) = held /\ Tail(Line) = ch
    BY <1>1, <2>1, InFront DEF Line
  <2>3. ToSet(Line) = {Head(Line)} \cup ToSet(Tail(Line))
    BY <2>2, HeadAndTail
  <2> QED
    BY <1>1, <2>2, <2>3 DEF InHand
<1>2. CASE worker # "received"
  BY <1>2 DEF Line, InHand
<1> QED
  BY <1>1, <1>2

\* What ReviewFlow calls Kept is this part of the map, and its Ended is this retention
\* (queue.go:207-234, 247-296): nothing else that the queue does can make a result come or go.
THEOREM ResultsAreTheService == Spec => []MapIsService /\ RetainsInService
<1>1. IInv => MapIsService
  <2> SUFFICES ASSUME IInv PROVE MapIsService
    OBVIOUS
  <2>1. jobs = InFlight \cup ToSet(Line) \cup ToSetOf(running) \cup ToSet(finished)
    BY LineElements DEF IInv, LineAccounted, MapAccounted
  <2>2. InFlight \cap Taken = {}
    BY DEF InFlight, Taken
  <2>3. ToSet(Line) \subseteq Taken
    BY LineElements DEF IInv, SubmitAgrees, Taken, LineAccounted, MapAccounted, TypeOK
  <2>4. \A j \in Jobs : state[j] \in {"running"} \cup Outcomes => j \in Taken
    BY DEF IInv, TypeOK, SubmitAgrees, SubmitPoints, Outcomes, Taken
  <2>5. ToSetOf(running) \subseteq Taken
    BY <2>4 DEF IInv, OneAtATime
  <2>6. ToSet(finished) \subseteq Taken
    BY <2>4 DEF IInv, TypeOK, StateAgrees, MapAccounted
  <2> QED
    BY <2>1, <2>2, <2>3, <2>5, <2>6 DEF MapIsService
<1>2. IInv /\ [Next]_vars =>
        [finished' = IF running # NoJob /\ running' = NoJob
                       THEN Kept(Append(finished, running)) ELSE finished]_vars
  <2> DEFINE Retains == finished' = IF running # NoJob /\ running' = NoJob
                                      THEN Kept(Append(finished, running)) ELSE finished
  <2> SUFFICES ASSUME IInv, Next PROVE Retains
    OBVIOUS
  <2>1. ASSUME NEW outcome \in Outcomes, WorkerFinish(outcome) PROVE Retains
    BY <2>1, ConstantsAssumption DEF WorkerFinish, IInv, WorkerAgrees
  <2>2. CASE WorkerBegin
    BY <2>2, ConstantsAssumption DEF WorkerBegin, IInv, TypeOK, WorkerAgrees
  <2>3. ASSUME UNCHANGED <<running, finished>> PROVE Retains
    BY <2>3
  <2> QED
    BY <2>1, <2>2, <2>3
       DEF Next, Submit, Worker, SubmitRegister, SubmitSend, SubmitFull, SubmitRollback,
           SubmitAnnounce, WorkerReceive, WorkerStop, WorkerAnnounceStart, WorkerAnnounceEnd,
           Cancel, Exit
<1> QED
  BY <1>1, <1>2, Invariance, PTL DEF Spec, RetainsInService
=============================================================================
