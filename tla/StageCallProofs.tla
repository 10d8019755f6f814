-------------------------- MODULE StageCallProofs ---------------------------
(* Theorems about StageCall, for any calls, limits, retries and faults. *)
EXTENDS StageCall, TLAPS

\* A readiness of ready is the last word of the warmup in this process.
ReadyIsFinal == rd.state = "ready" => aiUp /\ warm = "over"

\* How far a call is, what it has used up and what its caller knows go together.
Accounted ==
  \A c \in Calls :
    /\ at[c] = "unsent" => got[c] = "none"
    /\ at[c] \in {"unsent", "gate", "refuse"} => attempt[c] = 0 /\ rejected[c] = 0
    /\ at[c] = "chat" => attempt[c] >= 1 /\ rejected[c] = attempt[c] - 1
    /\ got[c] \in Errors \cup {"ok"} => at[c] = "over"

\* The part of OutcomeHonest that counts attempts, and the part that counts time.
Counts ==
  \A c \in Calls :
    /\ got[c] = "exhausted" => rejected[c] = MaxRetries + 1
    /\ got[c] \in {"llm_failed", "ok"} => rejected[c] = attempt[c] - 1
    /\ got[c] = "ok" /\ c \notin MomCalls => parts[c] = {attempt[c]}

CutOff == \A c \in Calls : got[c] = "timeout" => ChatTime(rejected[c] + 1) >= StageLimit

\* A caller has waited only for the chats that were rejected and for the one that runs.
TimeKept ==
  \A c \in Calls :
    /\ at[c] # "chat" => spent[c] = 0
    /\ got[c] = "waiting" => /\ at[c] \in {"gate", "refuse", "chat"}
                             /\ spent[c] <= ChatTime(rejected[c]) + age[c]

CTypeOK ==
  /\ at \in [Calls -> CallPoints]
  /\ attempt \in [Calls -> 0 .. MaxRetries + 1]
  /\ rejected \in [Calls -> 0 .. MaxRetries + 1]
  /\ parts \in [Calls -> SUBSET (1 .. MaxRetries + 1)]
  /\ age \in [Calls -> 0 .. ChatLimit] /\ spent \in [Calls -> 0 .. StageLimit]
  /\ got \in [Calls -> Outcomes]

WarmInv == WTypeOK /\ ReadyIsFinal
CallInv == CTypeOK /\ Accounted /\ Counts
TimeInv == TimeKept /\ CutOff

\* The inductive invariant.
SInv == WarmInv /\ CallInv /\ TimeInv /\ OnlyReadyServes

-----------------------------------------------------------------------------
(* The warmup, the daemon, the process and the monitor. *)

Outside == Ollama \/ WarmLoop \/ AiBoots \/ Monitor

\* How the fault counter may move.
Counted == UNCHANGED faults \/ (faults < MaxFaults /\ faults' = faults + 1)

\* A counter that moves up only below its bound keeps within it.
LEMMA FaultsBounded ==
  ASSUME faults \in 0 .. MaxFaults, Counted
  PROVE  faults' \in 0 .. MaxFaults
<1>1. MaxFaults \in Nat
  BY WarmupAssumption, Zenon DEF WarmupAssumption
<1> QED
  BY <1>1 DEF Counted

\* The two writes of the readiness keep its type.
LEMMA ReadinessKept ==
  ASSUME rd \in Readiness
  PROVE  /\ \A s \in States : Set(s) => rd' \in Readiness /\ rd'.state = s
         /\ \A p \in Percents : SetProgress(p) => rd' \in Readiness /\ rd'.state = rd.state
<1>1. rd = [state |-> rd.state, progress |-> rd.progress] /\ rd.state \in States
  BY DEF Readiness
<1>2. rd.progress \in Percents \cup {""}
  BY DEF Readiness
<1>3. ASSUME NEW s \in States, Set(s)
      PROVE  rd' \in Readiness /\ rd'.state = s
  BY <1>2, <1>3 DEF Readiness, Set
<1>4. ASSUME NEW p \in Percents, SetProgress(p)
      PROVE  rd' \in Readiness /\ rd'.state = rd.state
  <2>1. rd' = [state |-> rd.state, progress |-> p]
    BY <1>1, <1>4 DEF SetProgress
  <2> QED
    BY <1>1, <2>1 DEF Readiness
<1> QED
  BY <1>3, <1>4

\* Every step of them keeps the types and the finality of ready.
LEMMA OutsideKeeps ==
  ASSUME WarmInv, Outside \/ AiDies
  PROVE  WarmInv'
<1> USE WarmupAssumption
<1>1. CASE Ollama
  <2>1. Counted /\ daemon' \in BOOLEAN /\ present' \in BOOLEAN
    BY <1>1, Zenon DEF Ollama, DaemonStops, DaemonStarts, ModelInstalled, Counted, WarmInv, WTypeOK
  <2>2. UNCHANGED <<autoPull, aiUp, warm, rd, poll, cur>>
    BY <1>1 DEF Ollama, DaemonStops, DaemonStarts, ModelInstalled
  <2> QED
    BY <2>1, <2>2, FaultsBounded DEF WarmInv, WTypeOK, ReadyIsFinal
<1>2. CASE WarmLoop
  <2>1. /\ rd' \in Readiness /\ warm' \in WarmPoints
        /\ present' \in BOOLEAN /\ faults' \in 0 .. MaxFaults
        /\ rd'.state = "ready" => aiUp /\ warm' = "over"
    <3>1. CASE CheckDaemon
      <4>1. /\ warm = "daemon" /\ warm' \in {"model", "sleep"} /\ UNCHANGED <<present, faults>>
            /\ UNCHANGED rd \/ Set("ollama_down")
        BY <3>1 DEF CheckDaemon, Health, Wait, WarmStep
      <4>2. rd' \in Readiness /\ rd'.state # "ready"
        BY <4>1, ReadinessKept DEF WarmInv, WTypeOK, ReadyIsFinal, States
      <4> QED
        BY <4>1, <4>2 DEF WarmInv, WTypeOK, WarmPoints
    <3>2. CASE ModelReady
      BY <1>2, <3>2 DEF ModelReady, HasModel, WarmStep, Set, WarmInv, WTypeOK, ReadyIsFinal, WarmPoints, Readiness, States
    <3>3. CASE ModelBlocked
      BY <1>2, <3>3 DEF ModelBlocked, WarmStep, Wait, Set, WarmInv, WTypeOK, ReadyIsFinal, WarmPoints, Readiness, States
    <3>4. CASE StartPull
      BY <1>2, <3>4 DEF StartPull, WarmStep, Set, WarmInv, WTypeOK, ReadyIsFinal, WarmPoints, Readiness, States
    <3>5. CASE PullReports
      <4>1. /\ warm = "pull" /\ warm' = "pull" /\ UNCHANGED <<present, faults>>
            /\ rd.state # "ready"
        BY <3>5 DEF PullReports, WarmStep, WarmInv, ReadyIsFinal
      <4>2. rd' \in Readiness /\ rd'.state # "ready"
        BY <3>5, <4>1, ReadinessKept DEF PullReports, WarmInv, WTypeOK, States
      <4> QED
        BY <4>1, <4>2 DEF WarmInv, WTypeOK, WarmPoints
    <3>6. CASE PullEnds
      BY <1>2, <3>6 DEF PullEnds, WarmStep, Set, WarmInv, WTypeOK, ReadyIsFinal, WarmPoints, Readiness, States
    <3>7. CASE PullFails
      <4>1. warm' = "sleep" /\ rd' \in Readiness /\ rd'.state = "ollama_down"
        BY <3>7, ReadinessKept DEF PullFails, Wait, WarmStep, WarmInv, WTypeOK, States
      <4>2. faults' \in 0 .. MaxFaults
        BY <3>7, FaultsBounded, Zenon DEF PullFails, Counted, WarmInv, WTypeOK
      <4> QED
        BY <3>7, <4>1, <4>2 DEF PullFails, WarmInv, WTypeOK, WarmPoints
    <3>8. CASE Retry
      BY <1>2, <3>8 DEF Retry, WarmStep, WarmInv, WTypeOK, ReadyIsFinal, WarmPoints, Readiness, States
    <3> QED
      BY <1>2, <3>1, <3>2, <3>3, <3>4, <3>5, <3>6, <3>7, <3>8 DEF WarmLoop
  <2>2. UNCHANGED <<autoPull, daemon, aiUp, poll, cur>>
    BY <1>2 DEF WarmLoop, CheckDaemon, ModelReady, ModelBlocked, StartPull, PullReports, PullEnds, PullFails, Retry, Wait, WarmStep
  <2> QED
    BY <2>1, <2>2, Zenon DEF WarmInv, WTypeOK, ReadyIsFinal
<1>3. CASE AiBoots \/ AiDies
  <2>1. /\ warm' \in {"daemon", "over"} /\ rd' = Starting /\ aiUp' \in BOOLEAN
        /\ UNCHANGED <<autoPull, daemon, present, poll, cur>>
    BY <1>3 DEF AiBoots, AiDies
  <2>2. rd' \in Readiness /\ rd'.state # "ready"
    BY <2>1 DEF Starting, Readiness, States
  <2>3. faults' \in 0 .. MaxFaults
    BY <1>3, FaultsBounded, Zenon DEF AiBoots, AiDies, Counted, WarmInv, WTypeOK
  <2> QED
    BY <2>1, <2>2, <2>3 DEF WarmInv, WTypeOK, ReadyIsFinal, WarmPoints
<1>4. CASE Monitor
  BY <1>4 DEF Monitor, PollFetch, PollStore, Status, Idle, Unreached, WarmInv, WTypeOK, ReadyIsFinal
<1> QED
  BY <1>1, <1>2, <1>3, <1>4 DEF Outside

\* Only a crash takes ready away.
LEMMA ReadyStays ==
  ASSUME ReadyIsFinal, Outside, rd.state = "ready"
  PROVE  aiUp' /\ rd'.state = "ready"
<1>1. aiUp /\ warm = "over"
  BY DEF ReadyIsFinal
<1>2. ~WarmLoop
  BY <1>1 DEF WarmLoop, CheckDaemon, ModelReady, ModelBlocked, StartPull, PullReports, PullEnds, PullFails, Retry, Wait, WarmStep
<1> QED
  BY <1>1, <1>2 DEF Outside, Ollama, DaemonStops, DaemonStarts, ModelInstalled, AiBoots, Monitor, PollFetch, PollStore

-----------------------------------------------------------------------------
(* The calls. *)

\* What Return leaves of the types and of the account.
LEMMA ReturnKeeps ==
  ASSUME CTypeOK, Accounted, NEW c \in Calls, at[c] # "unsent",
         NEW outcome \in Errors \cup {"ok"}, Return(c, outcome)
  PROVE  /\ at' \in [Calls -> CallPoints] /\ got' \in [Calls -> Outcomes]
         /\ age' \in [Calls -> 0 .. ChatLimit] /\ spent' \in [Calls -> 0 .. StageLimit]
         /\ at'[c] = "over" /\ (got'[c] = outcome \/ got'[c] = got[c])
         /\ got'[c] # "waiting"
         /\ \A d \in Calls \ {c} : at'[d] = at[d] /\ got'[d] = got[d]
BY StageAssumption DEF Return, CTypeOK, CallPoints, Outcomes, Errors

\* Every step of a handler or its caller keeps types, account and honesty.
LEMMA CallStep ==
  ASSUME CallInv, NEW c \in Calls, Send(c) \/ Serve(c) \/ CallerTimesOut(c)
  PROVE  CallInv'
<1> USE StageAssumption DEF CallInv
<1>1. CASE Send(c)
  BY <1>1 DEF Send, CTypeOK, Accounted, Counts, CallPoints, Outcomes, Errors
<1>2. CASE Gate(c)
  BY <1>2 DEF Gate, CTypeOK, Accounted, Counts, CallPoints, Outcomes, Errors
<1>3. CASE Refuse(c)
  <2>1. UNCHANGED <<attempt, rejected, parts>>
    BY <1>3 DEF Refuse
  <2> QED
    BY <1>3, <2>1, ReturnKeeps DEF Refuse, CTypeOK, Accounted, Counts, CallPoints, Outcomes, Errors
<1>4. CASE ChatFails(c)
  BY <1>4, ReturnKeeps DEF ChatFails, CTypeOK, Accounted, Counts, CallPoints, Outcomes, Errors
<1>5. CASE ChatUsable(c)
  BY <1>5, ReturnKeeps DEF ChatUsable, Decoded, CTypeOK, Accounted, Counts, CallPoints, Outcomes, Errors
<1>6. ASSUME NEW kept \in SUBSET (1 .. MaxRetries + 1), Reject(c, kept)
      PROVE  CallInv'
  <2>1. /\ at[c] = "chat"
        /\ rejected' = [rejected EXCEPT ![c] = @ + 1] /\ parts' = [parts EXCEPT ![c] = kept]
    BY <1>6 DEF Reject
  <2>2. CASE attempt[c] <= MaxRetries
    <3>1. /\ attempt' = [attempt EXCEPT ![c] = @ + 1] /\ age' = [age EXCEPT ![c] = 0]
          /\ UNCHANGED <<at, got, spent>>
      BY <1>6, <2>2 DEF Reject
    <3>2. CTypeOK'
      <4>1. attempt[c] + 1 \in 0 .. MaxRetries + 1 /\ rejected[c] + 1 \in 0 .. MaxRetries + 1
        BY <2>1, <2>2 DEF CTypeOK, Accounted
      <4>2. attempt' \in [Calls -> 0 .. MaxRetries + 1] /\ rejected' \in [Calls -> 0 .. MaxRetries + 1]
        BY <2>1, <3>1, <4>1 DEF CTypeOK
      <4>3. parts' \in [Calls -> SUBSET (1 .. MaxRetries + 1)] /\ age' \in [Calls -> 0 .. ChatLimit]
        BY <1>6, <2>1, <3>1 DEF CTypeOK
      <4> QED
        BY <3>1, <4>2, <4>3 DEF CTypeOK, CallPoints, Outcomes, Errors
    <3>3. Accounted' /\ Counts'
      BY <1>6, <2>1, <3>1 DEF CTypeOK, Accounted, Counts, CallPoints, Outcomes, Errors
    <3> QED
      BY <3>2, <3>3
  <2>3. CASE ~(attempt[c] <= MaxRetries)
    <3>1. Return(c, "exhausted") /\ UNCHANGED attempt
      BY <1>6, <2>3 DEF Reject
    <3>2. CTypeOK'
      BY <1>6, <2>1, <2>3, <3>1, ReturnKeeps DEF CTypeOK, Accounted, CallPoints, Outcomes, Errors
    <3>3. Accounted' /\ Counts'
      BY <1>6, <2>1, <2>3, <3>1, ReturnKeeps DEF CTypeOK, Accounted, Counts, CallPoints, Outcomes, Errors
    <3> QED
      BY <3>2, <3>3
  <2> QED
    BY <2>2, <2>3
<1>7. CASE ChatNoJSON(c) \/ ChatUndecodable(c) \/ ChatIncomplete(c)
  <2>1. at[c] = "chat" /\ \E kept \in {parts[c], Decoded(c)} : Reject(c, kept)
    BY <1>7 DEF ChatNoJSON, ChatUndecodable, ChatIncomplete, Reject
  <2>2. parts[c] \in SUBSET (1 .. MaxRetries + 1) /\ attempt[c] \in 1 .. MaxRetries + 1
    BY <2>1 DEF CTypeOK, Accounted
  <2>3. Decoded(c) \in SUBSET (1 .. MaxRetries + 1)
    BY <2>2 DEF Decoded
  <2> QED
    BY <1>6, <2>1, <2>2, <2>3
<1>8. CASE CallerTimesOut(c)
  BY <1>8 DEF CallerTimesOut, CTypeOK, Accounted, Counts, CallPoints, Outcomes, Errors
<1> QED
  BY <1>1, <1>2, <1>3, <1>4, <1>5, <1>7, <1>8 DEF Serve, HandleStage, HandleMinutes

\* Time passes for chats and callers alone.
LEMMA TickStep ==
  ASSUME CallInv, Tick
  PROVE  CallInv'
BY StageAssumption DEF Tick, CallInv, CTypeOK, Accounted, Counts

\* A crash ends every call that was sent.
LEMMA CrashStep ==
  ASSUME CallInv, AiCrashes
  PROVE  CallInv'
<1>1. CTypeOK'
  BY StageAssumption DEF AiCrashes, CallInv, CTypeOK, CallPoints, Outcomes, Errors
<1>2. Accounted' /\ Counts'
  BY DEF AiCrashes, CallInv, CTypeOK, Accounted, Counts, Outcomes, Errors
<1> QED
  BY <1>1, <1>2 DEF CallInv

-----------------------------------------------------------------------------
(* The time of a call. *)

\* One chat more may take one limit more.
LEMMA ChatTimes ==
  ASSUME NEW n \in Nat
  PROVE  /\ ChatTime(n) \in Nat /\ ChatTime(n + 1) \in Nat
         /\ ChatTime(n + 1) = ChatTime(n) + ChatLimit
<1>1. ChatLimit \in Nat
  BY StageAssumption
<1>2. n * ChatLimit \in Nat /\ (n + 1) * ChatLimit \in Nat
  BY <1>1
<1>3. (n + 1) * ChatLimit = n * ChatLimit + ChatLimit
  BY <1>1
<1> QED
  BY <1>2, <1>3 DEF ChatTime

\* A caller that has waited for nothing, or for no longer than it could before, has
\* waited for no longer than its chats take.
LEMMA TimeStays ==
  ASSUME CTypeOK, TimeInv, NEW d \in Calls,
         rejected'[d] = rejected[d],
         got'[d] = got[d] \/ got'[d] \notin {"waiting", "timeout"},
         \/ at'[d] = at[d] /\ age'[d] = age[d] /\ spent'[d] = spent[d]
         \/ got'[d] # "waiting" /\ spent'[d] = 0
  PROVE  /\ at'[d] # "chat" => spent'[d] = 0
         /\ got'[d] = "waiting" => /\ at'[d] \in {"gate", "refuse", "chat"}
                                   /\ spent'[d] <= ChatTime(rejected'[d]) + age'[d]
         /\ got'[d] = "timeout" => ChatTime(rejected'[d] + 1) >= StageLimit
BY DEF TimeInv, TimeKept, CutOff

\* Every step of a handler or its caller keeps the account of time: a rejected chat
\* moves the time it ran into that of the rejected ones, which is at most its limit.
LEMMA TimeCallStep ==
  ASSUME CallInv, TimeInv, NEW c \in Calls, Send(c) \/ Serve(c) \/ CallerTimesOut(c)
  PROVE  TimeInv'
<1> DEFINE Fine(d) ==
      /\ at'[d] # "chat" => spent'[d] = 0
      /\ got'[d] = "waiting" => /\ at'[d] \in {"gate", "refuse", "chat"}
                                /\ spent'[d] <= ChatTime(rejected'[d]) + age'[d]
      /\ got'[d] = "timeout" => ChatTime(rejected'[d] + 1) >= StageLimit
<1> SUFFICES ASSUME NEW d \in Calls
             PROVE  Fine(d)
  BY DEF TimeInv, TimeKept, CutOff
<1>1. /\ at[c] \in CallPoints /\ got[c] \in Outcomes /\ rejected[c] \in Nat
      /\ age[c] \in 0 .. ChatLimit /\ spent[c] \in 0 .. StageLimit /\ rejected[c] + 1 \in Nat
  BY StageAssumption DEF CallInv, CTypeOK
<1>2. /\ ChatTime(rejected[c]) \in Nat /\ ChatTime(rejected[c] + 1) \in Nat
      /\ ChatTime(rejected[c] + 1) = ChatTime(rejected[c]) + ChatLimit
      /\ ChatTime((rejected[c] + 1) + 1) \in Nat
      /\ ChatTime((rejected[c] + 1) + 1) = ChatTime(rejected[c] + 1) + ChatLimit
  BY <1>1, ChatTimes
<1>3. ChatLimit \in Nat /\ StageLimit \in Nat \ {0}
  BY StageAssumption
<1>4. /\ at[c] # "chat" => spent[c] = 0
      /\ got[c] = "waiting" => /\ at[c] \in {"gate", "refuse", "chat"}
                               /\ spent[c] <= ChatTime(rejected[c]) + age[c]
      /\ got[c] = "timeout" => ChatTime(rejected[c] + 1) >= StageLimit
  BY DEF TimeInv, TimeKept, CutOff
<1>5. CASE d # c
  <2>1. /\ at'[d] = at[d] /\ got'[d] = got[d] /\ rejected'[d] = rejected[d]
        /\ age'[d] = age[d] /\ spent'[d] = spent[d]
    BY <1>5 DEF CallInv, CTypeOK, Send, Serve, HandleStage, HandleMinutes, Gate, Refuse, ChatFails, ChatUsable, ChatNoJSON, ChatUndecodable, ChatIncomplete, Reject, Return, CallerTimesOut
  <2> QED
    BY <2>1, TimeStays DEF CallInv
<1>6. CASE d = c /\ Send(c)
  <2>1. /\ at'[c] \in {"gate", "over"} /\ (got'[c] = "waiting" <=> at'[c] = "gate")
        /\ got'[c] # "timeout"
        /\ rejected'[c] = rejected[c] /\ age'[c] = age[c] /\ spent'[c] = 0
    BY <1>4, <1>6 DEF Send, CallInv, CTypeOK
  <2> QED
    BY <1>1, <1>2, <1>6, <2>1
<1>7. CASE d = c /\ Gate(c)
  <2>1. /\ at'[c] \in {"chat", "refuse"} /\ got'[c] = got[c]
        /\ rejected'[c] = rejected[c] /\ age'[c] = age[c] /\ spent'[c] = 0
    BY <1>4, <1>7 DEF Gate, CallInv, CTypeOK
  <2> QED
    BY <1>1, <1>2, <1>4, <1>7, <2>1
<1>8. ASSUME NEW outcome \in Errors \cup {"ok"}, d = c, Return(c, outcome),
             rejected'[c] = rejected[c] \/ rejected'[c] = rejected[c] + 1
      PROVE  Fine(d)
  <2>1. /\ spent'[c] = 0 /\ got'[c] # "waiting"
        /\ got'[c] = "timeout" => got[c] = "timeout"
    BY <1>8 DEF Return, CallInv, CTypeOK, Errors
  <2> QED
    BY <1>2, <1>3, <1>4, <1>8, <2>1
<1>9. CASE d = c /\ (Refuse(c) \/ ChatFails(c) \/ ChatUsable(c))
  BY <1>8, <1>9 DEF Refuse, ChatFails, ChatUsable, Errors
<1>10. ASSUME NEW kept, d = c, Reject(c, kept)
       PROVE  Fine(d)
  <2>1. rejected'[c] = rejected[c] + 1 /\ at[c] = "chat"
    BY <1>10 DEF Reject, CallInv, CTypeOK
  <2>2. CASE attempt[c] <= MaxRetries
    <3>1. age'[c] = 0 /\ UNCHANGED <<at, got, spent>>
      BY <1>10, <2>2 DEF Reject, CallInv, CTypeOK
    <3> QED
      BY <1>1, <1>2, <1>3, <1>4, <1>10, <2>1, <3>1
  <2>3. CASE ~(attempt[c] <= MaxRetries)
    BY <1>8, <1>10, <2>1, <2>3 DEF Reject, Errors
  <2> QED
    BY <2>2, <2>3
<1>11. CASE d = c /\ (ChatNoJSON(c) \/ ChatUndecodable(c) \/ ChatIncomplete(c))
  BY <1>10, <1>11 DEF ChatNoJSON, ChatUndecodable, ChatIncomplete
<1>12. CASE d = c /\ CallerTimesOut(c)
  <2>1. /\ got[c] = "waiting" /\ spent[c] = StageLimit /\ spent'[c] = 0
        /\ got'[c] = "timeout" /\ rejected'[c] = rejected[c]
    BY <1>12 DEF CallerTimesOut, CallInv, CTypeOK
  <2> QED
    BY <1>1, <1>2, <1>3, <1>4, <1>12, <2>1
<1> HIDE DEF Fine
<1> QED
  BY <1>5, <1>6, <1>7, <1>9, <1>11, <1>12 DEF Serve, HandleStage, HandleMinutes

\* Time passes for a caller only while its chat runs.
LEMMA TimeTickStep ==
  ASSUME CallInv, TimeInv, Tick
  PROVE  TimeInv'
<1> SUFFICES ASSUME NEW d \in Calls
             PROVE  /\ at'[d] # "chat" => spent'[d] = 0
                    /\ got'[d] = "waiting" => /\ at'[d] \in {"gate", "refuse", "chat"}
                                              /\ spent'[d] <= ChatTime(rejected'[d]) + age'[d]
                    /\ got'[d] = "timeout" => ChatTime(rejected'[d] + 1) >= StageLimit
  BY DEF TimeInv, TimeKept, CutOff
<1>1. /\ rejected[d] \in Nat /\ age[d] \in Nat /\ spent[d] \in Nat
  BY StageAssumption DEF CallInv, CTypeOK
<1>2. ChatTime(rejected[d]) \in Nat
  BY <1>1, ChatTimes
<1>3. /\ at[d] # "chat" => spent[d] = 0
      /\ got[d] = "waiting" => /\ at[d] \in {"gate", "refuse", "chat"}
                               /\ spent[d] <= ChatTime(rejected[d]) + age[d]
      /\ got[d] = "timeout" => ChatTime(rejected[d] + 1) >= StageLimit
  BY DEF TimeInv, TimeKept, CutOff
<1>4. /\ at'[d] = at[d] /\ got'[d] = got[d] /\ rejected'[d] = rejected[d]
      /\ at[d] \notin {"gate", "refuse"}
      /\ age'[d] = IF at[d] = "chat" THEN age[d] + 1 ELSE age[d]
      /\ spent'[d] = IF got[d] = "waiting" THEN spent[d] + 1 ELSE spent[d]
  BY DEF Tick
<1> QED
  BY <1>1, <1>2, <1>3, <1>4

\* A crash lets no caller wait on.
LEMMA TimeCrashStep ==
  ASSUME CallInv, TimeInv, AiCrashes
  PROVE  TimeInv'
<1> SUFFICES ASSUME NEW d \in Calls
             PROVE  /\ at'[d] # "chat" => spent'[d] = 0
                    /\ got'[d] = "waiting" => /\ at'[d] \in {"gate", "refuse", "chat"}
                                              /\ spent'[d] <= ChatTime(rejected'[d]) + age'[d]
                    /\ got'[d] = "timeout" => ChatTime(rejected'[d] + 1) >= StageLimit
  BY DEF TimeInv, TimeKept, CutOff
<1>1. /\ spent'[d] = 0 /\ got'[d] # "waiting" /\ rejected'[d] = rejected[d]
      /\ got'[d] = got[d] \/ got'[d] = "unreachable"
  BY DEF AiCrashes
<1> QED
  BY <1>1, TimeStays DEF CallInv

-----------------------------------------------------------------------------
(* The whole specification. *)

\* The invariant holds at the start: nothing is ready and nothing was sent.
LEMMA SInit == Init => SInv
<1> SUFFICES ASSUME Init
             PROVE  SInv
  OBVIOUS
<1>1. faults \in 0 .. MaxFaults
  <2>1. faults = 0 /\ MaxFaults \in Nat
    BY WarmupAssumption, Zenon DEF Init, WInit, WarmupAssumption
  <2> QED
    BY <2>1
<1>2. WarmInv
  BY <1>1, Zenon DEF Init, WInit, WarmInv, WTypeOK, ReadyIsFinal, WarmPoints, Readiness, Starting, States, Idle, Unreached
<1>3. TimeInv
  <2>1. \A c \in Calls : ChatTime(0) \in Nat
    BY ChatTimes
  <2> QED
    BY <2>1 DEF Init, TimeInv, TimeKept, CutOff
<1>4. CallInv /\ OnlyReadyServes
  BY StageAssumption DEF Init, CallInv, CTypeOK, Accounted, Counts, OnlyReadyServes, CallPoints, Outcomes, Errors
<1> QED
  BY <1>2, <1>3, <1>4 DEF SInv

\* A chat begins at a gate that found ready; what ready rests on changes only in a
\* crash, which ends the chats.
LEMMA ServesStep ==
  ASSUME SInv, Next
  PROVE  OnlyReadyServes'
<1>1. CASE \E c \in Calls : Send(c) \/ Serve(c) \/ CallerTimesOut(c)
  <2>1. PICK c \in Calls : Send(c) \/ Serve(c) \/ CallerTimesOut(c)
    BY <1>1
  <2>2. UNCHANGED warmVars
    BY <2>1 DEF Send, Serve, HandleStage, HandleMinutes, Gate, Refuse, ChatFails, ChatUsable, ChatNoJSON, ChatUndecodable, ChatIncomplete, Reject, CallerTimesOut
  <2>3. \A d \in Calls : at'[d] = "chat" =>
          at[d] = "chat" \/ (at[d] = "gate" /\ rd.state = "ready")
    BY <2>1 DEF SInv, CallInv, CTypeOK, Send, Serve, HandleStage, HandleMinutes, Gate, Refuse, ChatFails, ChatUsable, ChatNoJSON, ChatUndecodable, ChatIncomplete, Reject, Return, CallerTimesOut
  <2> QED
    BY <2>2, <2>3 DEF SInv, WarmInv, ReadyIsFinal, OnlyReadyServes, warmVars
<1>2. CASE Tick
  BY <1>2 DEF Tick, warmVars, SInv, OnlyReadyServes
<1>3. CASE AiCrashes
  BY <1>3 DEF AiCrashes, SInv, CallInv, CTypeOK, OnlyReadyServes
<1>4. CASE Outside /\ UNCHANGED callVars
  BY <1>4, ReadyStays DEF SInv, WarmInv, OnlyReadyServes, callVars
<1> QED
  BY <1>1, <1>2, <1>3, <1>4 DEF Next, Outside

\* Every step keeps the invariant.
LEMMA SStep == SInv /\ [Next]_vars => SInv'
<1> SUFFICES ASSUME SInv, [Next]_vars
             PROVE  SInv'
  OBVIOUS
<1>1. CASE \E c \in Calls : Send(c) \/ Serve(c) \/ CallerTimesOut(c)
  <2>1. PICK c \in Calls : Send(c) \/ Serve(c) \/ CallerTimesOut(c)
    BY <1>1
  <2>2. UNCHANGED warmVars
    BY <2>1 DEF Send, Serve, HandleStage, HandleMinutes, Gate, Refuse, ChatFails, ChatUsable, ChatNoJSON, ChatUndecodable, ChatIncomplete, Reject, CallerTimesOut
  <2>3. WarmInv'
    BY <2>2 DEF warmVars, SInv, WarmInv, WTypeOK, ReadyIsFinal
  <2> QED
    BY <1>1, <2>1, <2>3, CallStep, TimeCallStep, ServesStep DEF SInv, Next
<1>2. CASE Tick
  <2>1. WarmInv'
    BY <1>2 DEF Tick, warmVars, SInv, WarmInv, WTypeOK, ReadyIsFinal
  <2> QED
    BY <1>2, <2>1, TickStep, TimeTickStep, ServesStep DEF SInv, Next
<1>3. CASE AiCrashes
  BY <1>3, OutsideKeeps, CrashStep, TimeCrashStep, ServesStep DEF AiCrashes, SInv, Next
<1>4. CASE Outside /\ UNCHANGED callVars
  <2>1. CallInv' /\ TimeInv'
    BY <1>4 DEF callVars, SInv, CallInv, CTypeOK, Accounted, Counts, TimeInv, TimeKept, CutOff
  <2> QED
    BY <1>4, <2>1, OutsideKeeps, ServesStep DEF SInv, Next, Outside
<1>5. CASE UNCHANGED vars
  BY <1>5 DEF vars, warmVars, callVars, SInv, WarmInv, WTypeOK, ReadyIsFinal, CallInv, CTypeOK, Accounted, Counts, TimeInv, TimeKept, CutOff, OnlyReadyServes
<1> QED
  BY <1>1, <1>2, <1>3, <1>4, <1>5 DEF Next, Outside

\* The invariant holds in every behaviour, and with it the three invariants of the run.
LEMMA SInvariant == Spec => []SInv
BY SInit, SStep, PTL DEF Spec

\* Every variable of a call and of the warmup keeps its type, the attempts their budget.
THEOREM StageTypes == Spec => []STypeOK
<1>1. SInv => STypeOK
  BY DEF SInv, WarmInv, CallInv, CTypeOK, STypeOK
<1> QED
  BY <1>1, SInvariant, PTL

\* No model is asked by a process that is not ready, through crashes and restarts.
THEOREM ServesOnlyReady == Spec => []OnlyReadyServes
<1>1. SInv => OnlyReadyServes
  BY DEF SInv
<1> QED
  BY <1>1, SInvariant, PTL

\* What a caller is told is what happened, for any retry budget, and it gives up no earlier
\* than its chats fill its own limit, for any limits.
THEOREM OutcomesAreHonest == Spec => []OutcomeHonest
<1>1. SInv => OutcomeHonest
  BY DEF SInv, CallInv, TimeInv, Counts, CutOff, OutcomeHonest
<1> QED
  BY <1>1, SInvariant, PTL
=============================================================================
