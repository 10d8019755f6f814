-------------------------- MODULE ReviewFlowProofs --------------------------
(* Theorems about ReviewFlow, for any tabs, jobs, analyses, texts and bounds. *)
EXTENDS ReviewFlow, DataLemmas

Statuses == {"new", "waiting", "served", "done", "failed", "refused", "lost"}

\* No job waits twice.
NoRepeats(s) == \A i, k \in DOMAIN s : s[i] = s[k] => i = k

\* The queue: a waiting job is in line once, the served one is in no line.
LineInv ==
  /\ line \in Seq(Jobs) /\ NoRepeats(line)
  /\ status \in [Jobs -> Statuses]
  /\ \A j \in ToSet(line) : status[j] = "waiting"
  /\ serving # NoJob => serving \in Jobs /\ status[serving] = "served"

\* The jobs: the worker writes about a served job; a job has a result once it is done,
\* and none before; the result answers the job's own request.
ResultInv ==
  /\ writing \in {"no", "done", "failed"}
  /\ writing # "no" => serving # NoJob
  /\ DOMAIN result = Jobs /\ DOMAIN request = Jobs
  /\ \A j \in Jobs :
       /\ status[j] = "done" => result[j] # {}
       /\ status[j] \in {"new", "waiting", "served"} => result[j] = {}
       /\ \A res \in result[j] :
            /\ res.requirement = request[j].requirement
            /\ result[j] = {res}

\* A tab whose page is about a job: the job is its own; a page that shows a result shows
\* what the job has; a request that a frame led to is about a job that has ended.
TabInv(t) ==
  /\ call[t] # "none" => view[t] = "waiting"
  /\ view[t] \in {"waiting", "review", "result"} =>
       /\ about[t] \in Jobs
       /\ status[about[t]] # "new"
       /\ request[about[t]].requirement = t
  /\ view[t] \in {"review", "result"} => result[about[t]] # {}
  /\ view[t] = "result" => \A res \in result[about[t]] : rows[t] = Shown(res.acs)
  /\ call[t] # "none" /\ led[t] => status[about[t]] \in {"done", "failed"}
  /\ call[t] = "stated" /\ led[t] => status[about[t]] = "done"
  /\ view[t] = "broken" => ~led[t]

TabsTyped ==
  /\ DOMAIN view = Tabs /\ DOMAIN about = Tabs /\ DOMAIN rows = Tabs
  /\ DOMAIN call = Tabs /\ DOMAIN led = Tabs

IInv == LineInv /\ ResultInv /\ TabsTyped /\ \A t \in Tabs : TabInv(t)

-----------------------------------------------------------------------------
(* The line. *)

\* Accepting a job puts it into the line once.
LEMMA AppendedLine ==
  ASSUME NEW S, NEW s \in Seq(S), NEW e \in S, NoRepeats(s), e \notin ToSet(s)
  PROVE  /\ Append(s, e) \in Seq(S)
         /\ NoRepeats(Append(s, e))
         /\ ToSet(Append(s, e)) = ToSet(s) \cup {e}
<1>1. /\ Append(s, e) \in Seq(S)
      /\ Len(Append(s, e)) = Len(s) + 1
      /\ \A i \in 1 .. Len(s) : Append(s, e)[i] = s[i]
      /\ Append(s, e)[Len(s) + 1] = e
  BY AppendProperties
<1>2. DOMAIN s = 1 .. Len(s) /\ DOMAIN Append(s, e) = 1 .. (Len(s) + 1) /\ Len(s) \in Nat
  BY <1>1, LenProperties
<1>3. ToSet(Append(s, e)) = ToSet(s) \cup {e}
  BY <1>1, <1>2 DEF ToSet
<1>4. NoRepeats(Append(s, e))
  BY <1>1, <1>2 DEF ToSet, NoRepeats
<1> QED
  BY <1>1, <1>3, <1>4

\* The job taken from the line is there no more.
LEMMA LineServed ==
  ASSUME NEW S, NEW s \in Seq(S), s # <<>>, NoRepeats(s)
  PROVE  /\ Head(s) \in S /\ Head(s) \in ToSet(s)
         /\ Tail(s) \in Seq(S) /\ NoRepeats(Tail(s))
         /\ ToSet(Tail(s)) \subseteq ToSet(s) \ {Head(s)}
<1>1. /\ Head(s) \in S /\ Tail(s) \in Seq(S)
      /\ Len(Tail(s)) = Len(s) - 1
      /\ \A i \in 1 .. Len(Tail(s)) : Tail(s)[i] = s[i + 1]
  BY HeadTailProperties
<1>2. /\ DOMAIN s = 1 .. Len(s) /\ Len(s) \in Nat \ {0}
      /\ DOMAIN Tail(s) = 1 .. (Len(s) - 1)
      /\ Head(s) = s[1]
  BY <1>1, LenProperties, EmptySeq
<1>3. NoRepeats(Tail(s))
  BY <1>1, <1>2 DEF NoRepeats
<1>4. ToSet(Tail(s)) \subseteq ToSet(s) \ {Head(s)}
  BY <1>1, <1>2 DEF NoRepeats, ToSet
<1>5. Head(s) \in ToSet(s)
  BY <1>2 DEF ToSet
<1> QED
  BY <1>1, <1>3, <1>4, <1>5

\* What a step may do to the statuses: an ended job keeps its own, none is new again.
Onward ==
  \A j \in Jobs :
    /\ status[j] \in {"done", "failed"} => status'[j] = status[j]
    /\ status[j] # "new" => status'[j] # "new"

LEMMA AcceptKeeps ==
  ASSUME LineInv, NEW j \in Jobs, Accept(j)
  PROVE  /\ LineInv' /\ Onward /\ serving' = serving
         /\ status[j] = "new" /\ status' = [status EXCEPT ![j] = "waiting"]
<1>1. status[j] = "new" /\ j \notin ToSet(line)
  BY DEF Accept, LineInv
<1>2. /\ line' \in Seq(Jobs) /\ NoRepeats(line')
      /\ ToSet(line') = ToSet(line) \cup {j}
  BY <1>1, AppendedLine DEF Accept, LineInv
<1>3. status' = [status EXCEPT ![j] = "waiting"] /\ serving' = serving
  BY DEF Accept
<1>4. status' \in [Jobs -> Statuses]
  BY <1>3 DEF LineInv, Statuses
<1>5. \A i \in ToSet(line') : status'[i] = "waiting"
  BY <1>2, <1>3 DEF LineInv
<1>6. serving' # NoJob => serving' \in Jobs /\ status'[serving'] = "served"
  BY <1>1, <1>3 DEF LineInv
<1>7. Onward
  BY <1>1, <1>3 DEF LineInv, Onward
<1> QED
  BY <1>1, <1>2, <1>3, <1>4, <1>5, <1>6, <1>7 DEF LineInv

LEMMA RefuseKeeps ==
  ASSUME LineInv, NEW j \in Jobs, Refuse(j)
  PROVE  /\ LineInv' /\ Onward /\ serving' = serving
         /\ status[j] = "new" /\ status' = [status EXCEPT ![j] = "refused"]
  BY DEF Refuse, LineInv, Onward, Statuses, NoRepeats, ToSet

LEMMA ServeKeeps ==
  ASSUME LineInv, Serve
  PROVE  /\ LineInv' /\ Onward
         /\ Head(line) \in Jobs /\ serving' = Head(line)
         /\ status[Head(line)] = "waiting" /\ status' = [status EXCEPT ![Head(line)] = "served"]
<1>1. line # <<>> /\ line \in Seq(Jobs) /\ NoRepeats(line) /\ line' = Tail(line)
  BY DEF Serve, LineInv
<1>2. /\ Head(line) \in Jobs /\ Head(line) \in ToSet(line)
      /\ line' \in Seq(Jobs) /\ NoRepeats(line')
      /\ ToSet(line') \subseteq ToSet(line) \ {Head(line)}
  BY <1>1, LineServed
<1>3. /\ status' = [status EXCEPT ![Head(line)] = "served"]
      /\ status[Head(line)] = "waiting"
      /\ serving' = Head(line)
  BY <1>2 DEF Serve, LineInv
<1>4. status' \in [Jobs -> Statuses]
  BY <1>3 DEF LineInv, Statuses
<1>5. \A i \in ToSet(line') : status'[i] = "waiting"
  BY <1>2, <1>3 DEF LineInv
<1>6. serving' \in Jobs /\ status'[serving'] = "served"
  BY <1>2, <1>3 DEF LineInv
<1>7. Onward
  BY <1>2, <1>3 DEF LineInv, Onward
<1> QED
  BY <1>2, <1>3, <1>4, <1>5, <1>6, <1>7 DEF LineInv

LEMMA CompleteKeeps ==
  ASSUME LineInv, NEW outcome \in {"done", "failed"}, Complete(outcome)
  PROVE  /\ LineInv' /\ Onward
         /\ serving \in Jobs /\ serving' = NoJob
         /\ status[serving] = "served" /\ status' = [status EXCEPT ![serving] = outcome]
<1>1. /\ serving \in Jobs /\ status[serving] = "served" /\ serving' = NoJob
      /\ status' = [status EXCEPT ![serving] = outcome] /\ line' = line
  BY DEF Complete, LineInv
<1>2. status' \in [Jobs -> Statuses]
  BY <1>1 DEF LineInv, Statuses
<1>3. \A i \in ToSet(line') : status'[i] = "waiting"
  BY <1>1 DEF LineInv
<1>4. Onward
  BY <1>1 DEF LineInv, Onward
<1> QED
  BY <1>1, <1>2, <1>3, <1>4 DEF LineInv

-----------------------------------------------------------------------------
(* The inductive step. *)

\* What the tabs rely on: requests and results that are there stay as they are.
Lasting ==
  /\ \A j \in Jobs : status[j] # "new" => request'[j] = request[j]
  /\ \A j \in Jobs : result[j] # {} => result'[j] = result[j]

\* A tab that takes no part in a step keeps its invariant.
LEMMA OtherTab ==
  ASSUME NEW t \in Tabs, TabInv(t), Onward, Lasting,
         view'[t] = view[t], about'[t] = about[t], rows'[t] = rows[t],
         call'[t] = call[t], led'[t] = led[t]
  PROVE  TabInv(t)'
<1>1. view[t] \in {"waiting", "review", "result"} =>
        /\ about[t] \in Jobs
        /\ status'[about[t]] # "new"
        /\ request'[about[t]].requirement = t
  BY DEF TabInv, Onward, Lasting
<1>2. view[t] \in {"review", "result"} => result'[about[t]] = result[about[t]]
  BY DEF TabInv, Lasting
<1>3. call[t] # "none" /\ led[t] => status'[about[t]] = status[about[t]]
  BY DEF TabInv, Onward
<1> QED
  BY <1>1, <1>2, <1>3 DEF TabInv

LEMMA InitIInv == Init => IInv
<1> SUFFICES ASSUME Init
             PROVE  IInv
  OBVIOUS
<1>1. LineInv
  BY EmptySeq DEF Init, FInit, LineInv, Statuses, NoRepeats, ToSet
<1>2. ResultInv
  BY DEF Init, FInit, ResultInv
<1>3. TabsTyped /\ \A t \in Tabs : TabInv(t)
  BY DEF Init, TabsTyped, TabInv
<1> QED
  BY <1>1, <1>2, <1>3 DEF IInv

\* The worker.
LEMMA WorkerStep == IInv /\ Worker => IInv'
<1> SUFFICES ASSUME IInv, Worker
             PROVE  IInv'
  OBVIOUS
<1>1. LineInv /\ ResultInv /\ TabsTyped /\ \A t \in Tabs : TabInv(t)
  BY DEF IInv
<1>2. UNCHANGED tabVars /\ UNCHANGED request
  BY DEF Worker, Start, WriteState, WriteResult
<1>3. LineInv' /\ Onward /\ ResultInv' /\ Lasting
  <2>1. CASE Start
    <3>1. LineInv' /\ Onward /\ status' = [status EXCEPT ![Head(line)] = "served"]
          /\ Head(line) \in Jobs /\ status[Head(line)] = "waiting"
      BY <1>1, <2>1, ServeKeeps DEF Start
    <3>2. UNCHANGED <<request, result, writing>> /\ writing = "no"
      BY <2>1 DEF Start
    <3> QED
      BY <1>1, <3>1, <3>2 DEF ResultInv, LineInv, Lasting
  <2>2. CASE \E outcome \in {"done", "failed"} : WriteState(outcome)
    <3>1. UNCHANGED <<line, serving, status, result, request>> /\ serving # NoJob
          /\ writing' \in {"done", "failed"}
      BY <2>2 DEF WriteState, fvars
    <3> QED
      BY <1>1, <3>1 DEF ResultInv, LineInv, Lasting, Onward
  <2>3. CASE WriteResult
    <3>1. writing \in {"done", "failed"} /\ writing' = "no"
      BY <1>1, <2>3 DEF WriteResult, ResultInv
    <3>2. /\ LineInv' /\ Onward
          /\ serving \in Jobs /\ status[serving] = "served"
          /\ status' = [status EXCEPT ![serving] = writing]
      BY <1>1, <2>3, <3>1, CompleteKeeps DEF WriteResult
    <3>3. result[serving] = {}
      BY <1>1, <3>2 DEF ResultInv
    <3>4. CASE writing = "done"
      <4>1. PICK res \in Answers(request[serving]) : result' = [result EXCEPT ![serving] = {res}]
        BY <2>3, <3>4 DEF WriteResult
      <4>2. res.requirement = request[serving].requirement
        BY <4>1 DEF Answers
      <4>3. DOMAIN result' = Jobs /\ \A j \in Jobs : result'[j] = IF j = serving THEN {res} ELSE result[j]
        BY <1>1, <4>1 DEF ResultInv
      <4>4. Lasting
        BY <1>2, <3>3, <4>3 DEF Lasting
      <4>5. ResultInv'
        <5>1. \A j \in Jobs : status'[j] = IF j = serving THEN "done" ELSE status[j]
          BY <1>1, <3>2, <3>4 DEF LineInv
        <5>2. \A j \in Jobs :
                /\ status'[j] = "done" => result'[j] # {}
                /\ status'[j] \in {"new", "waiting", "served"} => result'[j] = {}
          BY <1>1, <4>3, <5>1 DEF ResultInv
        <5>3. ASSUME NEW j \in Jobs, NEW any \in result'[j]
              PROVE  any.requirement = request'[j].requirement /\ result'[j] = {any}
          <6>1. CASE j = serving
            BY <1>2, <4>2, <4>3, <5>3, <6>1
          <6>2. CASE j # serving
            BY <1>1, <1>2, <4>3, <5>3, <6>2 DEF ResultInv
          <6> QED
            BY <6>1, <6>2
        <5> QED
          BY <1>1, <1>2, <3>1, <4>3, <5>2, <5>3 DEF ResultInv
      <4> QED
        BY <3>2, <4>4, <4>5
    <3>5. CASE writing # "done"
      <4>1. result' = result /\ writing = "failed"
        BY <2>3, <3>1, <3>5 DEF WriteResult
      <4> QED
        BY <1>1, <1>2, <3>1, <3>2, <4>1 DEF ResultInv, LineInv, Lasting
    <3> QED
      BY <3>4, <3>5
  <2> QED
    BY <2>1, <2>2, <2>3 DEF Worker
<1>4. TabsTyped' /\ \A t \in Tabs : TabInv(t)'
  BY <1>1, <1>2, <1>3, OtherTab DEF TabsTyped, tabVars
<1> QED
  BY <1>3, <1>4 DEF IInv

\* What the jobs of a step that leaves the queue alone keep.
LEMMA QueueLeft ==
  ASSUME LineInv, ResultInv, UNCHANGED jobVars
  PROVE  LineInv' /\ ResultInv' /\ Onward /\ Lasting
<1>1. UNCHANGED <<line, serving, status, request, result, writing>>
  BY DEF jobVars, fvars
<1> QED
  BY <1>1 DEF LineInv, ResultInv, Onward, Lasting

\* A tab sends its form.
LEMMA SendStep ==
  ASSUME IInv, NEW t \in Tabs, NEW j \in Jobs, Send(t, j) \/ SendRefused(t, j)
  PROVE  IInv'
<1>1. LineInv /\ ResultInv /\ TabsTyped /\ \A u \in Tabs : TabInv(u)
  BY DEF IInv
<1>2. /\ LineInv' /\ Onward /\ status[j] = "new" /\ serving' = serving
      /\ status' = [status EXCEPT ![j] = "waiting"] \/ status' = [status EXCEPT ![j] = "refused"]
  BY <1>1, AcceptKeeps, RefuseKeeps DEF Send, SendRefused
<1>3. UNCHANGED <<result, writing, call, led>> /\ call[t] = "none"
  BY DEF Send, SendRefused, Sends
<1>4. /\ DOMAIN request' = Jobs
      /\ \A i \in Jobs : i # j => request'[i] = request[i]
  BY <1>1 DEF Send, SendRefused, ResultInv
<1>5. Lasting
  BY <1>2, <1>3, <1>4 DEF Lasting
<1>6. ResultInv'
  <2>1. \A i \in Jobs : i # j => status'[i] = status[i]
    BY <1>1, <1>2 DEF LineInv
  <2>2. status'[j] \in {"waiting", "refused"} /\ result[j] = {}
    BY <1>1, <1>2 DEF LineInv, ResultInv
  <2> QED
    BY <1>1, <1>2, <1>3, <1>4, <2>1, <2>2 DEF ResultInv
<1>7. ASSUME NEW u \in Tabs
      PROVE  TabInv(u)'
  <2>1. CASE u # t
    <3>1. view'[u] = view[u] /\ about'[u] = about[u] /\ rows'[u] = rows[u]
      BY <1>1, <2>1 DEF Send, SendRefused, TabsTyped
    <3> QED
      BY <1>1, <1>2, <1>3, <1>5, <3>1, OtherTab
  <2>2. CASE u = t /\ Send(t, j)
    <3>1. view'[t] = "waiting" /\ about'[t] = j /\ call'[t] = "none"
      BY <1>1, <1>3, <2>2 DEF Send, TabsTyped
    <3>2. request'[j].requirement = t
      BY <1>1, <2>2 DEF Send, Request, ResultInv
    <3>3. status'[j] # "new"
      BY <1>1, <1>2 DEF LineInv
    <3> QED
      BY <2>2, <3>1, <3>2, <3>3 DEF TabInv
  <2>3. CASE u = t /\ SendRefused(t, j)
    <3>1. view'[t] = "error" /\ call'[t] = "none"
      BY <1>1, <1>3, <2>3 DEF SendRefused, TabsTyped
    <3> QED
      BY <2>3, <3>1 DEF TabInv
  <2> QED
    BY <2>1, <2>2, <2>3
<1>8. TabsTyped'
  BY <1>1, <1>3 DEF Send, SendRefused, TabsTyped
<1> QED
  BY <1>2, <1>6, <1>7, <1>8 DEF IInv

\* A step of a tab that leaves the queue alone, and the other tabs with it.
OwnStep(t) ==
  \/ SendBlank(t) \/ Lead(t) \/ Peek(t) \/ Handler(t) \/ Edit(t) \/ Reload(t)

LEMMA OthersLeft ==
  ASSUME IInv, NEW t \in Tabs, OwnStep(t)
  PROVE  /\ UNCHANGED jobVars /\ TabsTyped'
         /\ \A u \in Tabs : u # t =>
              /\ view'[u] = view[u] /\ about'[u] = about[u] /\ rows'[u] = rows[u]
              /\ call'[u] = call[u] /\ led'[u] = led[u]
<1>1. TabsTyped
  BY DEF IInv
<1>2. CASE SendBlank(t)
  BY <1>1, <1>2 DEF SendBlank, TabsTyped
<1>3. CASE Lead(t) \/ Peek(t)
  BY <1>1, <1>3 DEF Lead, Peek, Asks, TabsTyped
<1>4. CASE AnswerOther(t) \/ GetJob(t)
  BY <1>1, <1>4 DEF AnswerOther, GetJob, Answer, TabsTyped
<1>5. CASE ReadState(t)
  BY <1>1, <1>5 DEF ReadState, Answer, TabsTyped
<1>6. CASE ReadResult(t)
  BY <1>1, <1>6 DEF ReadResult, Answer, TabsTyped
<1>7. CASE Edit(t) \/ Reload(t)
  BY <1>1, <1>7 DEF Edit, Reload, TabsTyped
<1> QED
  BY <1>2, <1>3, <1>4, <1>5, <1>6, <1>7 DEF OwnStep, Handler

\* What such a step does to its own tab.
LEMMA OwnTab ==
  ASSUME IInv, NEW t \in Tabs, OwnStep(t)
  PROVE  TabInv(t)'
<1>1. LineInv /\ ResultInv /\ TabsTyped /\ TabInv(t)
  BY DEF IInv
<1>2. UNCHANGED <<line, serving, status, request, result, writing>>
  BY OthersLeft DEF jobVars, fvars
<1>3. CASE SendBlank(t)
  <2>1. view'[t] = "error" /\ call'[t] = "none"
    BY <1>1, <1>3 DEF SendBlank, Sends, TabsTyped
  <2> QED
    BY <2>1 DEF TabInv
<1>4. CASE Lead(t) \/ Peek(t)
  <2>1. /\ view'[t] = "waiting" /\ about'[t] = about[t] /\ call'[t] = "asked"
        /\ view[t] = "waiting"
    BY <1>1, <1>4 DEF Lead, Peek, Asks, TabsTyped
  <2>2. led'[t] => Lead(t)
    BY <1>1, <1>4 DEF Peek, Asks, TabsTyped
  <2>3. Lead(t) => status[about[t]] \in {"done", "failed"}
    BY DEF Lead, State
  <2> QED
    BY <1>1, <1>2, <2>1, <2>2, <2>3 DEF TabInv
<1>5. CASE AnswerOther(t)
  <2>1. view'[t] \in {"access", "error"} /\ call'[t] = "none"
    BY <1>1, <1>5 DEF AnswerOther, Answer, TabsTyped
  <2> QED
    BY <2>1 DEF TabInv
<1>6. CASE GetJob(t)
  <2>1. /\ view'[t] = view[t] /\ about'[t] = about[t] /\ led'[t] = led[t] /\ rows'[t] = rows[t]
        /\ call[t] = "asked" /\ call'[t] = "reading"
    BY <1>1, <1>6 DEF GetJob, TabsTyped
  <2> QED
    BY <1>1, <1>2, <2>1 DEF TabInv
<1>7. CASE ReadState(t)
  <2>1. call[t] = "reading" /\ about'[t] = about[t] /\ view[t] = "waiting"
    BY <1>1, <1>7 DEF ReadState, Answer, TabInv
  <2>2. CASE State(about[t]) = "done"
    <3>1. /\ call'[t] = "stated" /\ view'[t] = view[t] /\ led'[t] = led[t]
      BY <1>1, <1>7, <2>2 DEF ReadState, TabsTyped
    <3>2. led[t] => status[about[t]] = "done"
      BY <1>1, <2>1, <2>2 DEF TabInv, State, LineInv, ResultInv
    <3> QED
      BY <1>1, <1>2, <2>1, <3>1, <3>2 DEF TabInv
  <2>3. CASE State(about[t]) # "done"
    <3>1. /\ call'[t] = "none" /\ view'[t] \in {"error", "waiting"}
      BY <1>1, <1>7, <2>3 DEF ReadState, Answer, TabsTyped
    <3> QED
      BY <1>1, <1>2, <2>1, <3>1 DEF TabInv
  <2> QED
    BY <2>2, <2>3
<1>8. CASE ReadResult(t)
  <2>1. /\ call[t] = "stated" /\ about'[t] = about[t] /\ view[t] = "waiting" /\ call'[t] = "none"
        /\ about[t] \in Jobs
    BY <1>1, <1>8 DEF ReadResult, Answer, TabInv, TabsTyped
  <2>2. CASE result[about[t]] = {}
    <3>1. view'[t] = "broken" /\ ~led'[t]
      BY <1>1, <1>8, <2>1, <2>2 DEF ReadResult, Answer, TabInv, ResultInv, TabsTyped
    <3> QED
      BY <2>1, <3>1 DEF TabInv
  <2>3. CASE result[about[t]] # {}
    <3>1. view'[t] \in {"review", "result"}
      BY <1>1, <1>8, <2>3 DEF ReadResult, Answer, TabsTyped
    <3>2. \A res \in result[about[t]] : rows'[t] = Shown(res.acs)
      <4>1. PICK res \in result[about[t]] : rows' = [rows EXCEPT ![t] = Shown(res.acs)]
        BY <1>8, <2>3 DEF ReadResult
      <4>2. result[about[t]] = {res}
        BY <1>1, <2>1, <4>1 DEF ResultInv
      <4> QED
        BY <1>1, <4>1, <4>2 DEF TabsTyped
    <3> QED
      BY <1>1, <1>2, <2>1, <2>3, <3>1, <3>2 DEF TabInv
  <2> QED
    BY <2>2, <2>3
<1>9. CASE Edit(t)
  <2>1. /\ view'[t] = view[t] /\ about'[t] = about[t] /\ led'[t] = led[t] /\ call'[t] = call[t]
        /\ view[t] = "review"
    BY <1>1, <1>9 DEF Edit
  <2> QED
    BY <1>1, <1>2, <2>1 DEF TabInv
<1>10. CASE Reload(t)
  <2>1. view'[t] \in {"form", "access"} /\ call'[t] = "none"
    BY <1>1, <1>10 DEF Reload, TabsTyped
  <2> QED
    BY <2>1 DEF TabInv
<1> QED
  BY <1>3, <1>4, <1>5, <1>6, <1>7, <1>8, <1>9, <1>10 DEF OwnStep, Handler

\* The process is replaced: every request under way ends, no job is new again.
LEMMA RestartStep == IInv /\ Restart => IInv'
<1> SUFFICES ASSUME IInv, Restart
             PROVE  IInv'
  OBVIOUS
<1>1. LineInv /\ ResultInv /\ TabsTyped /\ \A t \in Tabs : TabInv(t)
  BY DEF IInv
<1>2. /\ \A j \in Jobs : status'[j] = IF Gone(j) THEN "lost" ELSE status[j]
      /\ status' \in [Jobs -> Statuses]
  BY <1>1 DEF Restart, LineInv, Statuses
<1>3. line' = <<>> /\ serving' = NoJob /\ writing' = "no" /\ UNCHANGED <<request, result, view, about, rows>>
  BY DEF Restart
<1>4. LineInv'
  BY <1>2, <1>3, EmptySeq DEF LineInv, NoRepeats, ToSet
<1>5. Onward /\ Lasting
  BY <1>2, <1>3 DEF Onward, Lasting, Gone
<1>6. ResultInv'
  BY <1>1, <1>2, <1>3 DEF ResultInv, Gone
<1>7. TabsTyped' /\ \A t \in Tabs : call'[t] = "none" /\ ~led'[t]
  BY <1>1 DEF Restart, TabsTyped
<1>8. ASSUME NEW t \in Tabs
      PROVE  TabInv(t)'
  <2>1. view'[t] = view[t] /\ about'[t] = about[t] /\ rows'[t] = rows[t]
    BY <1>3
  <2> QED
    BY <1>1, <1>3, <1>5, <1>7, <2>1 DEF TabInv, Onward, Lasting
<1> QED
  BY <1>4, <1>6, <1>7, <1>8 DEF IInv

LEMMA StepIInv == IInv /\ [Next]_vars => IInv'
<1> SUFFICES ASSUME IInv, [Next]_vars
             PROVE  IInv'
  OBVIOUS
<1>1. ASSUME NEW t \in Tabs, Tab(t)
      PROVE  IInv'
  <2>1. CASE \E j \in Jobs : Send(t, j) \/ SendRefused(t, j)
    BY <2>1, SendStep
  <2>2. CASE OwnStep(t)
    <3>1. LineInv' /\ ResultInv' /\ Onward /\ Lasting
      BY <2>2, OthersLeft, QueueLeft DEF IInv
    <3>2. ASSUME NEW u \in Tabs
          PROVE  TabInv(u)'
      <4>1. CASE u = t
        BY <2>2, <4>1, OwnTab
      <4>2. CASE u # t
        BY <2>2, <3>1, <4>2, OthersLeft, OtherTab DEF IInv
      <4> QED
        BY <4>1, <4>2
    <3> QED
      BY <2>2, <3>1, <3>2, OthersLeft DEF IInv
  <2> QED
    BY <1>1, <2>1, <2>2 DEF Tab, OwnStep
<1>2. CASE Worker
  BY <1>2, WorkerStep
<1>3. CASE SignIn \/ SignOut \/ UNCHANGED vars
  <2>1. UNCHANGED tabVars /\ UNCHANGED jobVars
    BY <1>3 DEF SignIn, SignOut, vars
  <2>2. LineInv' /\ ResultInv' /\ Onward /\ Lasting
    BY <2>1, QueueLeft DEF IInv
  <2> QED
    BY <2>1, <2>2, OtherTab DEF IInv, TabsTyped, tabVars
<1>4. CASE Restart
  BY <1>4, RestartStep
<1> QED
  BY <1>1, <1>2, <1>3, <1>4 DEF Next

\* The inductive invariant: a job's result is made of its own request, and what a tab shows
\* or asks for goes with the job it is about.
THEOREM Invariance == Spec => []IInv
<1> QED
  BY InitIInv, StepIInv, PTL DEF Spec

-----------------------------------------------------------------------------
(* What the reader of a page gets of it. *)

\* A page led to its result by a frame always gets a whole page: the handler's reads
\* without the lock (handlers.go:243, 262) come after the worker's last write.
THEOREM LedPagesAreWhole == Spec => []LedPageWhole
<1>1. IInv => LedPageWhole
  BY DEF IInv, TabInv, LedPageWhole
<1> QED
  BY <1>1, Invariance, PTL

\* Whatever other tabs submit, whatever is evicted or lost in a restart, no tab ever
\* shows or downloads what another one asked for (handlers.go handleResult, handleExport).
THEOREM PagesAreOwn == Spec => []OwnPage
<1>1. IInv => OwnPage
  BY DEF IInv, TabInv, ResultInv, OwnPage, Download
<1> QED
  BY <1>1, Invariance, PTL

-----------------------------------------------------------------------------
(* The lists: the criteria of a request, of a result and of a page. *)

Criteria == [id : Nat, desc : STRING, severity : STRING]

\* What a tab's page has; the list that went out with the form is the one it left.
TabListInv(t) ==
  /\ rows[t] \in Seq(PageRows) /\ left[t] \in Seq(PageRows)
  /\ view[t] \in {"waiting", "review", "result"} => request[about[t]].kind \in {"validate", "generate"}
  /\ view[t] = "result" => request[about[t]].kind = "generate"
  /\ view[t] \in {"waiting", "result"} /\ request[about[t]].kind = "generate" =>
       request[about[t]].acs = Numbered(left[t])

\* A result has the criteria of its request, if the request has some.
JobListInv(j) ==
  /\ status[j] \in {"waiting", "served"} => request[j].acs \in Seq(Criteria)
  /\ \A res \in result[j] :
       /\ res.acs \in Seq(Criteria)
       /\ request[j].acs # <<>> => res.acs = request[j].acs

BoundsInv ==
  /\ Len(line) <= Capacity
  /\ finished \in Seq(Jobs) /\ Len(finished) <= Retain

Typed ==
  /\ view \in [Tabs -> Views] /\ call \in [Tabs -> CallPoints] /\ led \in [Tabs -> BOOLEAN]
  /\ about \in [Tabs -> Jobs \cup {NoJob}]
  /\ DOMAIN left = Tabs
  /\ signedIn \in BOOLEAN

ListInv == Typed /\ BoundsInv /\ (\A j \in Jobs : JobListInv(j)) /\ \A t \in Tabs : TabListInv(t)

\* Numbering a list of rows, and showing a list of criteria.
LEMMA NumberedRows ==
  ASSUME NEW list \in Seq(PageRows)
  PROVE  Numbered(list) \in Seq(Criteria) /\ (list # <<>> => Numbered(list) # <<>>)
<1>1. /\ Len(list) \in Nat /\ DOMAIN list = 1 .. Len(list)
      /\ \A i \in 1 .. Len(list) : list[i] \in PageRows
  BY LenProperties, ElementOfSeq
<1>2. \A i \in 1 .. Len(list) :
        [id |-> i, desc |-> list[i].desc, severity |-> list[i].severity] \in Criteria
  BY <1>1 DEF Criteria, PageRows
<1>3. Numbered(list) \in [1 .. Len(list) -> Criteria]
  BY <1>1, <1>2 DEF Numbered
<1>4. Numbered(list) \in Seq(Criteria)
  BY <1>1, <1>3, SeqDef
<1>5. list # <<>> => DOMAIN Numbered(list) # {}
  BY <1>1, <1>3, EmptySeq
<1> QED
  BY <1>4, <1>5

LEMMA ShownRows ==
  ASSUME NEW acs \in Seq(Criteria)
  PROVE  Shown(acs) \in Seq(PageRows)
<1>1. Len(acs) \in Nat /\ DOMAIN acs = 1 .. Len(acs) /\ \A i \in 1 .. Len(acs) : acs[i] \in Criteria
  BY LenProperties, ElementOfSeq
<1>2. \A i \in 1 .. Len(acs) : [desc |-> acs[i].desc, severity |-> acs[i].severity] \in PageRows
  BY <1>1 DEF Criteria, PageRows
<1>3. Shown(acs) \in [1 .. Len(acs) -> PageRows]
  BY <1>1, <1>2 DEF Shown
<1> QED
  BY <1>1, <1>3, SeqDef

\* What the server parses of a form is what the reviewer left on the page, numbered:
\* blank rows drop out of every array of the form at once (parseCuratedACs).
LEMMA CuratedIsLeft ==
  ASSUME NEW list \in Seq(PageRows)
  PROVE  /\ Selected(list, Described(list)) \in Seq(PageRows)
         /\ ParseCuratedACs(Fields(list)) = Numbered(Selected(list, Described(list)))
<1> DEFINE which  == {i \in DOMAIN list : list[i].desc # ""}
           places == Selected([i \in DOMAIN list |-> i], which)
           kept   == Selected(list, Described(list))
<1>1. /\ Len(list) \in Nat /\ DOMAIN list = 1 .. Len(list)
      /\ \A i \in 1 .. Len(list) : list[i] \in PageRows
  BY LenProperties, ElementOfSeq
<1>2. kept \in Seq(PageRows)
  BY SelectedElements
<1>3. \A i \in DOMAIN list : i \in which <=> list[i] \in Described(list)
  BY DEF Described, ToSet
<1>4. /\ places \in Seq(DOMAIN list)
      /\ Len(places) = Len(kept)
      /\ \A k \in 1 .. Len(places) : kept[k] = list[places[k]]
  <2> HIDE DEF which
  <2> QED
    BY <1>3, SelectedByIndex
<1>5. Filled(Fields(list)) = places
  <2>1. /\ DOMAIN Fields(list).desc = DOMAIN list
        /\ \A i \in DOMAIN list : Fields(list).desc[i] = list[i].desc
    BY DEF Fields
  <2>2. {i \in DOMAIN Fields(list).desc : Fields(list).desc[i] # ""} = which
    BY <2>1
  <2> QED
    BY <2>1, <2>2 DEF Filled
<1> HIDE DEF places, kept
<1>6. /\ DOMAIN places = 1 .. Len(places) /\ DOMAIN kept = DOMAIN places
      /\ \A k \in DOMAIN places : places[k] \in DOMAIN list /\ kept[k] = list[places[k]]
  BY <1>2, <1>4, LenProperties, ElementOfSeq
<1>7. \A k \in DOMAIN places :
        /\ Fields(list).desc[places[k]] = kept[k].desc
        /\ At(Fields(list).severity, places[k]) = kept[k].severity
  BY <1>6 DEF Fields, At
<1>8. ParseCuratedACs(Fields(list)) = Numbered(kept)
  BY <1>5, <1>6, <1>7 DEF ParseCuratedACs, Numbered
<1> QED
  BY <1>2, <1>8 DEF kept

\* An edit makes rows of rows.
LEMMA EditedRows ==
  ASSUME NEW list \in Seq(PageRows), NEW new \in Edited(list)
  PROVE  new \in Seq(PageRows)
<1>1. /\ Len(list) \in Nat /\ DOMAIN list = 1 .. Len(list)
      /\ \A i \in DOMAIN list : list[i] \in PageRows
  BY LenProperties, ElementOfSeq
<1>2. ASSUME NEW i \in DOMAIN list, NEW text \in Texts, new = [list EXCEPT ![i].desc = text]
      PROVE  new \in Seq(PageRows)
  <2>0. text \in STRING /\ list[i] \in PageRows
    BY <1>1, FlowAssumption
  <2>1. [list[i] EXCEPT !.desc = text] \in PageRows
    BY <2>0 DEF PageRows
  <2>2. new = [list EXCEPT ![i] = [list[i] EXCEPT !.desc = text]]
    BY <1>2
  <2> QED
    BY <1>1, <2>1, <2>2, ExceptSeq
<1>3. ASSUME NEW text \in Texts, new = Append(list, [desc |-> text, severity |-> ""])
      PROVE  new \in Seq(PageRows)
  <2>1. text \in STRING /\ "" \in STRING
    BY FlowAssumption
  <2>2. [desc |-> text, severity |-> ""] \in PageRows
    BY <2>1 DEF PageRows
  <2> QED
    BY <1>3, <2>2, AppendProperties
<1>4. ASSUME NEW i \in DOMAIN list, new = RemoveAt(list, i)
      PROVE  new \in Seq(PageRows)
  BY <1>4, Removed
<1>5. ASSUME NEW i \in DOMAIN list, NEW k \in DOMAIN list,
             new = InsertAt(RemoveAt(list, i), k, list[i])
      PROVE  new \in Seq(PageRows)
  <2>1. RemoveAt(list, i) \in Seq(PageRows) /\ Len(RemoveAt(list, i)) = Len(list) - 1
    BY Removed
  <2>2. k \in 1 .. (Len(RemoveAt(list, i)) + 1)
    BY <1>1, <2>1
  <2> QED
    BY <1>1, <1>5, <2>1, <2>2, Inserted
<1>6. new \in Rewritten(list) => new \in Seq(PageRows)
  BY <1>2 DEF Rewritten
<1>7. new \in Added(list) => new \in Seq(PageRows)
  BY <1>3 DEF Added
<1>8. new \in Dropped(list) => new \in Seq(PageRows)
  BY <1>4 DEF Dropped
<1>9. new \in Moved(list) => new \in Seq(PageRows)
  BY <1>5 DEF Moved
<1> QED
  BY <1>6, <1>7, <1>8, <1>9 DEF Edited

\* A tab whose page a step leaves alone.
LEMMA OtherLists ==
  ASSUME NEW t \in Tabs, TabInv(t), TabListInv(t),
         \A j \in Jobs : status[j] # "new" => request'[j] = request[j],
         view'[t] = view[t], about'[t] = about[t], rows'[t] = rows[t], left'[t] = left[t]
  PROVE  TabListInv(t)'
<1>1. view[t] \in {"waiting", "review", "result"} => request'[about[t]] = request[about[t]]
  BY DEF TabInv
<1> QED
  BY <1>1 DEF TabListInv

\* Jobs whose request and result a step leaves alone.
LEMMA OtherJobs ==
  ASSUME \A j \in Jobs : JobListInv(j), UNCHANGED <<request, result>>,
         \A j \in Jobs : status'[j] \in {"waiting", "served"} => status[j] \in {"waiting", "served"}
  PROVE  \A j \in Jobs : JobListInv(j)'
BY DEF JobListInv

LEMMA InitListInv == Init => ListInv
<1> SUFFICES ASSUME Init
             PROVE  ListInv
  OBVIOUS
<1>1. Typed
  BY DEF Init, Typed, Views, CallPoints
<1>2. BoundsInv
  <2>1. Capacity \in Nat /\ Retain \in Nat
    BY FlowAssumption
  <2>2. line = <<>> /\ finished = <<>>
    BY DEF Init, FInit
  <2>3. \A s : s = <<>> => Len(s) = 0 /\ s \in Seq(Jobs)
    OBVIOUS
  <2>4. Len(line) = 0 /\ Len(finished) = 0 /\ finished \in Seq(Jobs)
    BY <2>2, <2>3
  <2> QED
    BY <2>1, <2>4 DEF BoundsInv
<1>3. \A j \in Jobs : JobListInv(j)
  BY DEF Init, FInit, JobListInv
<1>4. \A t \in Tabs : TabListInv(t)
  BY EmptySeq DEF Init, TabListInv
<1> QED
  BY <1>1, <1>2, <1>3, <1>4 DEF ListInv

\* The list of ended jobs, cut from its front.
LEMMA EndedIsBounded ==
  ASSUME NEW list \in Seq(Jobs)
  PROVE  Ended(list) \in Seq(Jobs) /\ Len(Ended(list)) <= Retain
<1>1. Len(list) \in Nat /\ Retain \in Nat /\ \A i \in 1 .. Len(list) : list[i] \in Jobs
  BY FlowAssumption, LenProperties, ElementOfSeq
<1>2. CASE Len(list) <= Retain
  BY <1>1, <1>2 DEF Ended
<1>3. CASE ~ (Len(list) <= Retain)
  <2>1. Len(list) - Retain + 1 \in 1 .. Len(list) + 1 /\ Len(list) - Retain + 1 \in Int /\ Len(list) \in Int
    BY <1>1, <1>3
  <2>2. \A i \in (Len(list) - Retain + 1) .. Len(list) : list[i] \in Jobs
    BY <1>1, <2>1
  <2>3. /\ SubSeq(list, Len(list) - Retain + 1, Len(list)) \in Seq(Jobs)
        /\ Len(SubSeq(list, Len(list) - Retain + 1, Len(list)))
             = IF Len(list) - Retain + 1 <= Len(list) THEN Len(list) - (Len(list) - Retain + 1) + 1 ELSE 0
    BY <2>1, <2>2, SubSeqProperties
  <2>4. Ended(list) = SubSeq(list, Len(list) - Retain + 1, Len(list))
    BY <1>1, <1>3 DEF Ended
  <2>5. Len(SubSeq(list, Len(list) - Retain + 1, Len(list))) <= Retain
    BY <1>1, <1>3, <2>3
  <2> QED
    BY <2>3, <2>4, <2>5
<1> QED
  BY <1>2, <1>3

\* What the runner makes of a request with criteria has just these.
LEMMA AnswerLists ==
  ASSUME NEW req, req.acs \in Seq(Criteria), NEW res \in Answers(req)
  PROVE  res.acs \in Seq(Criteria) /\ (req.acs # <<>> => res.acs = req.acs)
<1>1. PICK acs \in IF req.acs # <<>> THEN {req.acs} ELSE {Numbered(list) : list \in Analyses} :
        res = [requirement |-> req.requirement, acs |-> acs]
  BY DEF Answers
<1>2. \A list \in Analyses : Numbered(list) \in Seq(Criteria)
  BY FlowAssumption, NumberedRows
<1> QED
  BY <1>1, <1>2

LEMMA WorkerLists == IInv /\ ListInv /\ Worker => ListInv'
<1> SUFFICES ASSUME IInv, ListInv, Worker
             PROVE  ListInv'
  OBVIOUS
<1>1. /\ LineInv /\ ResultInv /\ Typed /\ BoundsInv
      /\ \A t \in Tabs : TabInv(t) /\ TabListInv(t)
      /\ \A j \in Jobs : JobListInv(j)
  BY DEF IInv, ListInv
<1>2. UNCHANGED <<view, about, rows, left, call, led, request, signedIn>>
  BY DEF Worker, Start, WriteState, WriteResult, tabVars
<1>3. Typed' /\ \A t \in Tabs : TabListInv(t)'
  BY <1>1, <1>2, OtherLists DEF Typed
<1>4. BoundsInv' /\ \A j \in Jobs : JobListInv(j)'
  <2>1. CASE Start
    <3>1. /\ Head(line) \in Jobs /\ status' = [status EXCEPT ![Head(line)] = "served"]
          /\ status[Head(line)] = "waiting"
      BY <1>1, <2>1, ServeKeeps DEF Start
    <3>2. UNCHANGED <<request, result, finished>>
      BY <2>1 DEF Start
    <3>3. \A j \in Jobs : status'[j] \in {"waiting", "served"} => status[j] \in {"waiting", "served"}
      BY <1>1, <3>1 DEF LineInv
    <3>4. Len(line') = Len(line) - 1 /\ Len(line) \in Nat
      BY <1>1, <2>1, HeadTailProperties, LenProperties DEF Start, Serve, LineInv
    <3>5. Len(line') <= Capacity
      <4>1. Capacity \in Nat /\ Len(line) <= Capacity
        BY <1>1, FlowAssumption DEF BoundsInv
      <4> QED
        BY <3>4, <4>1
    <3> QED
      BY <1>1, <3>2, <3>3, <3>5, OtherJobs DEF BoundsInv
  <2>2. CASE \E outcome \in {"done", "failed"} : WriteState(outcome)
    <3>1. UNCHANGED <<line, status, result, request, finished>>
      BY <2>2 DEF WriteState, fvars
    <3> QED
      BY <1>1, <3>1, OtherJobs DEF BoundsInv
  <2>3. CASE WriteResult
    <3>1. writing \in {"done", "failed"}
      BY <1>1, <2>3 DEF WriteResult, ResultInv
    <3>2. /\ serving \in Jobs /\ status[serving] = "served"
          /\ status' = [status EXCEPT ![serving] = writing]
      BY <1>1, <2>3, <3>1, CompleteKeeps DEF WriteResult
    <3>3. line' = line
      BY <2>3 DEF WriteResult, Complete
    <3>4. BoundsInv'
      <4>1. Append(finished, serving) \in Seq(Jobs)
        BY <1>1, <3>2, AppendProperties DEF BoundsInv
      <4>2. finished' = Ended(Append(finished, serving))
        BY <2>3 DEF WriteResult
      <4> QED
        BY <1>1, <3>3, <4>1, <4>2, EndedIsBounded DEF BoundsInv
    <3>5. \A j \in Jobs : status'[j] \in {"waiting", "served"} => status[j] \in {"waiting", "served"}
      BY <1>1, <3>1, <3>2 DEF LineInv
    <3>6. CASE result' = result
      BY <1>1, <1>2, <3>4, <3>5, <3>6, OtherJobs
    <3>7. CASE \E res \in Answers(request[serving]) : result' = [result EXCEPT ![serving] = {res}]
      <4>1. PICK res \in Answers(request[serving]) : result' = [result EXCEPT ![serving] = {res}]
        BY <3>7
      <4>2. request[serving].acs \in Seq(Criteria)
        BY <1>1, <3>2 DEF JobListInv
      <4>3. /\ res.acs \in Seq(Criteria)
            /\ request[serving].acs # <<>> => res.acs = request[serving].acs
        BY <4>1, <4>2, AnswerLists
      <4>4. \A j \in Jobs : result'[j] = IF j = serving THEN {res} ELSE result[j]
        BY <1>1, <4>1 DEF ResultInv
      <4>5. ASSUME NEW j \in Jobs PROVE JobListInv(j)'
        <5>1. JobListInv(j) /\ request'[j] = request[j]
          BY <1>1, <1>2
        <5>2. CASE j = serving
          BY <3>5, <4>3, <4>4, <5>1, <5>2 DEF JobListInv
        <5>3. CASE j # serving
          BY <3>5, <4>4, <5>1, <5>3 DEF JobListInv
        <5> QED
          BY <5>2, <5>3
      <4> QED
        BY <3>4, <4>5
    <3> QED
      BY <2>3, <3>6, <3>7 DEF WriteResult
  <2> QED
    BY <2>1, <2>2, <2>3 DEF Worker
<1> QED
  BY <1>3, <1>4 DEF ListInv

\* A tab sends its form: the request has the rows it left on the page.
LEMMA SendLists ==
  ASSUME IInv, ListInv, NEW t \in Tabs, NEW j \in Jobs, Send(t, j) \/ SendRefused(t, j)
  PROVE  ListInv'
<1>1. /\ LineInv /\ ResultInv /\ TabsTyped /\ Typed /\ BoundsInv
      /\ \A u \in Tabs : TabInv(u) /\ TabListInv(u)
      /\ \A i \in Jobs : JobListInv(i)
  BY DEF IInv, ListInv
<1>2. /\ status[j] = "new"
      /\ \A i \in Jobs : i # j => status'[i] = status[i] /\ request'[i] = request[i]
      /\ UNCHANGED <<result, finished, call, led, signedIn>>
  <2>1. /\ status[j] = "new"
        /\ status' = [status EXCEPT ![j] = "waiting"] \/ status' = [status EXCEPT ![j] = "refused"]
    BY <1>1, AcceptKeeps, RefuseKeeps DEF Send, SendRefused
  <2> QED
    BY <1>1, <2>1 DEF Send, SendRefused, LineInv, ResultInv
<1>3. result[j] = {}
  BY <1>1, <1>2 DEF ResultInv
<1>4. \A i \in Jobs : i # j => JobListInv(i)'
  BY <1>1, <1>2 DEF JobListInv
<1>5. ASSUME NEW u \in Tabs, u # t
      PROVE  TabListInv(u)'
  <2>1. view'[u] = view[u] /\ about'[u] = about[u] /\ rows'[u] = rows[u] /\ left'[u] = left[u]
    BY <1>1, <1>5 DEF Send, SendRefused, TabsTyped, Typed
  <2>2. \A i \in Jobs : status[i] # "new" => request'[i] = request[i]
    BY <1>2
  <2> QED
    BY <1>1, <2>1, <2>2, OtherLists
<1>6. CASE Send(t, j)
  <2> DEFINE kept == Selected(rows[t], Described(rows[t]))
  <2>1. kept \in Seq(PageRows) /\ ParseCuratedACs(Fields(rows[t])) = Numbered(kept)
    BY <1>1, CuratedIsLeft DEF TabListInv
  <2>2. /\ view'[t] = "waiting" /\ about'[t] = j /\ left'[t] = kept /\ rows'[t] = <<>>
        /\ request'[j] = Request(t)
        /\ status' = [status EXCEPT ![j] = "waiting"]
    BY <1>1, <1>6 DEF Send, Accept, TabsTyped, Typed, ResultInv
  <2> HIDE DEF kept
  <2>3. /\ Request(t).kind \in {"validate", "generate"}
        /\ Request(t).kind = "generate" => Request(t).acs = Numbered(kept)
        /\ Request(t).acs \in Seq(Criteria)
    <3>1. Numbered(kept) \in Seq(Criteria)
      BY <2>1, NumberedRows
    <3>2. CASE view[t] = "form"
      BY <3>2, EmptySeq DEF Request
    <3>3. CASE view[t] # "form"
      BY <2>1, <3>1, <3>3 DEF Request
    <3> QED
      BY <3>2, <3>3
  <2>4. TabListInv(t)'
    BY <2>1, <2>2, <2>3, EmptySeq DEF TabListInv
  <2>5. JobListInv(j)'
    BY <1>2, <1>3, <2>2, <2>3 DEF JobListInv
  <2>6. BoundsInv'
    <3>1. Len(line') = Len(line) + 1 /\ Len(line) \in Nat /\ Len(line) < Capacity
      BY <1>1, <1>6, AppendProperties, LenProperties DEF Send, Accept, LineInv
    <3>2. Len(line') <= Capacity
      <4>1. Capacity \in Nat
        BY FlowAssumption
      <4> QED
        BY <3>1, <4>1
    <3> QED
      BY <1>1, <1>2, <3>2 DEF BoundsInv
  <2>7. Typed'
    BY <1>1, <1>2, <1>6 DEF Typed, Views, Send
  <2> QED
    BY <1>4, <1>5, <2>4, <2>5, <2>6, <2>7 DEF ListInv
<1>7. CASE SendRefused(t, j)
  <2>1. /\ view'[t] = "error" /\ rows'[t] = <<>> /\ left' = left /\ about' = about /\ line' = line
        /\ request' = request /\ status' = [status EXCEPT ![j] = "refused"]
    BY <1>1, <1>7 DEF SendRefused, Refuse, TabsTyped
  <2>2. TabListInv(t)'
    BY <1>1, <2>1, EmptySeq DEF TabListInv
  <2>3. JobListInv(j)'
    BY <1>1, <1>2, <1>3, <2>1 DEF JobListInv, LineInv
  <2>4. BoundsInv'
    BY <1>1, <1>2, <2>1 DEF BoundsInv
  <2>5. Typed'
    BY <1>1, <1>2, <1>7, <2>1 DEF Typed, Views, SendRefused
  <2> QED
    BY <1>4, <1>5, <2>2, <2>3, <2>4, <2>5 DEF ListInv
<1> QED
  BY <1>6, <1>7

\* A step of a tab that leaves the queue alone.
LEMMA OwnTyped ==
  ASSUME IInv, Typed, NEW t \in Tabs, OwnStep(t)
  PROVE  Typed' /\ \A u \in Tabs : u # t => left'[u] = left[u]
<1>1. TabsTyped
  BY DEF IInv
<1>2. CASE SendBlank(t)
  BY <1>2 DEF SendBlank, Typed, Views
<1>3. CASE Lead(t) \/ Peek(t)
  BY <1>3 DEF Lead, Peek, Asks, Typed, CallPoints
<1>4. ASSUME NEW page \in Views, Answer(t, page)
      PROVE  Typed' /\ left' = left
  <2>1. led' \in [Tabs -> BOOLEAN]
    BY <1>4 DEF Answer, Typed
  <2> QED
    BY <1>4, <2>1 DEF Answer, Typed, CallPoints
<1>5. CASE AnswerOther(t)
  BY <1>4, <1>5 DEF AnswerOther, Views
<1>6. CASE GetJob(t)
  BY <1>6 DEF GetJob, Typed, CallPoints
<1>7. CASE ReadState(t)
  <2>1. CASE State(about[t]) = "done"
    BY <1>7, <2>1 DEF ReadState, Typed, CallPoints
  <2>2. CASE State(about[t]) # "done"
    BY <1>4, <1>7, <2>2 DEF ReadState, Views
  <2> QED
    BY <2>1, <2>2
<1>8. CASE ReadResult(t)
  BY <1>4, <1>8 DEF ReadResult, Views
<1>9. CASE Edit(t)
  BY <1>9 DEF Edit, Typed
<1>10. CASE Reload(t)
  BY <1>10 DEF Reload, Typed, Views, CallPoints
<1> QED
  BY <1>2, <1>3, <1>5, <1>6, <1>7, <1>8, <1>9, <1>10 DEF OwnStep, Handler

LEMMA OwnLists ==
  ASSUME IInv, ListInv, NEW t \in Tabs, OwnStep(t)
  PROVE  TabListInv(t)'
<1>1. LineInv /\ ResultInv /\ TabsTyped /\ TabInv(t) /\ Typed /\ TabListInv(t)
      /\ \A j \in Jobs : JobListInv(j)
  BY DEF IInv, ListInv
<1>2. UNCHANGED <<request, result>>
  BY OthersLeft DEF jobVars
<1>3. CASE SendBlank(t)
  BY <1>1, <1>2, <1>3 DEF SendBlank, TabsTyped, TabListInv
<1>4. CASE Lead(t) \/ Peek(t) \/ GetJob(t)
  BY <1>1, <1>2, <1>4 DEF Lead, Peek, Asks, GetJob, TabListInv
<1>5. CASE AnswerOther(t)
  <2>1. view'[t] \in {"access", "error"} /\ UNCHANGED <<about, left, rows>>
    BY <1>1, <1>5 DEF AnswerOther, Answer, TabsTyped
  <2> QED
    BY <1>1, <2>1 DEF TabListInv
<1>6. CASE ReadState(t)
  <2>1. view[t] = "waiting" /\ UNCHANGED <<about, left, rows>>
    BY <1>1, <1>6 DEF ReadState, Answer, TabInv
  <2>2. view'[t] \in {"waiting", "error"}
    BY <1>1, <1>6, <2>1 DEF ReadState, Answer, TabsTyped
  <2> QED
    BY <1>1, <1>2, <2>1, <2>2 DEF TabListInv
<1>7. CASE ReadResult(t)
  <2>1. /\ call[t] = "stated" /\ view[t] = "waiting" /\ about[t] \in Jobs
        /\ UNCHANGED <<about, left>>
    BY <1>1, <1>7 DEF ReadResult, Answer, TabInv
  <2>2. CASE result[about[t]] = {}
    <3>1. view'[t] = "broken" /\ rows' = rows
      BY <1>1, <1>7, <2>2 DEF ReadResult, Answer, TabsTyped
    <3> QED
      BY <1>1, <2>1, <3>1 DEF TabListInv
  <2>3. CASE result[about[t]] # {}
    <3>1. view'[t] = IF request[about[t]].kind = "validate" THEN "review" ELSE "result"
      BY <1>1, <1>7, <2>3 DEF ReadResult, Answer, TabsTyped
    <3>2. PICK res \in result[about[t]] : rows' = [rows EXCEPT ![t] = Shown(res.acs)]
      BY <1>7, <2>3 DEF ReadResult
    <3>3. rows'[t] \in Seq(PageRows)
      <4>1. res.acs \in Seq(Criteria)
        BY <1>1, <2>1 DEF JobListInv
      <4> QED
        BY <1>1, <3>2, <4>1, ShownRows DEF TabsTyped
    <3> QED
      BY <1>1, <1>2, <2>1, <3>1, <3>3 DEF TabListInv
  <2> QED
    BY <2>2, <2>3
<1>8. CASE Edit(t)
  <2>1. PICK list \in Edited(rows[t]) : rows' = [rows EXCEPT ![t] = list]
    BY <1>8 DEF Edit
  <2>2. list \in Seq(PageRows)
    BY <1>1, EditedRows DEF TabListInv
  <2>3. rows'[t] = list /\ UNCHANGED <<view, about, left>>
    BY <1>1, <1>8, <2>1 DEF Edit, TabsTyped
  <2> QED
    BY <1>1, <1>2, <1>8, <2>2, <2>3 DEF TabListInv, Edit
<1>9. CASE Reload(t)
  <2>1. view'[t] \in {"form", "access"} /\ rows'[t] = <<>> /\ left'[t] = <<>>
    BY <1>1, <1>9 DEF Reload, TabsTyped, Typed
  <2> QED
    BY <2>1, EmptySeq DEF TabListInv
<1> QED
  BY <1>3, <1>4, <1>5, <1>6, <1>7, <1>8, <1>9 DEF OwnStep, Handler

LEMMA RestartLists == IInv /\ ListInv /\ Restart => ListInv'
<1> SUFFICES ASSUME IInv, ListInv, Restart
             PROVE  ListInv'
  OBVIOUS
<1>1. /\ LineInv /\ ResultInv /\ TabsTyped /\ Typed /\ BoundsInv
      /\ \A t \in Tabs : TabInv(t) /\ TabListInv(t)
      /\ \A j \in Jobs : JobListInv(j)
  BY DEF IInv, ListInv
<1>2. /\ line' = <<>> /\ finished' = <<>> /\ UNCHANGED <<request, result, view, about, rows, left, signedIn>>
      /\ call' = [t \in Tabs |-> "none"] /\ led' = [t \in Tabs |-> FALSE]
      /\ \A j \in Jobs : status'[j] \in {"waiting", "served"} => status[j] \in {"waiting", "served"}
  BY DEF Restart, Gone
<1>3. \A j \in Jobs : JobListInv(j)'
  BY <1>1, <1>2, OtherJobs
<1>4. \A t \in Tabs : TabListInv(t)'
  BY <1>1, <1>2, OtherLists
<1>5. BoundsInv'
  <2>1. Capacity \in Nat /\ Retain \in Nat
    BY FlowAssumption
  <2>2. \A s : s = <<>> => Len(s) = 0 /\ s \in Seq(Jobs)
    OBVIOUS
  <2>3. Len(line') = 0 /\ Len(finished') = 0 /\ finished' \in Seq(Jobs)
    BY <1>2, <2>2
  <2> QED
    BY <2>1, <2>3 DEF BoundsInv
<1>6. Typed'
  BY <1>1, <1>2 DEF Typed, CallPoints
<1> QED
  BY <1>3, <1>4, <1>5, <1>6 DEF ListInv

LEMMA StepListInv == IInv /\ ListInv /\ [Next]_vars => ListInv'
<1> SUFFICES ASSUME IInv, ListInv, [Next]_vars
             PROVE  ListInv'
  OBVIOUS
<1>1. UNCHANGED jobVars => BoundsInv' /\ \A j \in Jobs : JobListInv(j)'
  BY DEF jobVars, fvars, ListInv, BoundsInv, JobListInv
<1>2. ASSUME NEW t \in Tabs, Tab(t)
      PROVE  ListInv'
  <2>1. CASE \E j \in Jobs : Send(t, j) \/ SendRefused(t, j)
    BY <2>1, SendLists
  <2>2. CASE OwnStep(t)
    <3>1. Typed' /\ \A u \in Tabs : u # t => left'[u] = left[u]
      BY <2>2, OwnTyped DEF ListInv
    <3>2. UNCHANGED jobVars
      BY <2>2, OthersLeft
    <3>3. ASSUME NEW u \in Tabs
          PROVE  TabListInv(u)'
      <4>1. CASE u = t
        BY <2>2, <4>1, OwnLists
      <4>2. CASE u # t
        <5>1. /\ view'[u] = view[u] /\ about'[u] = about[u] /\ rows'[u] = rows[u] /\ left'[u] = left[u]
              /\ request' = request
          BY <2>2, <3>1, <3>2, <4>2, OthersLeft DEF jobVars
        <5> QED
          BY <5>1, OtherLists DEF IInv, ListInv
      <4> QED
        BY <4>1, <4>2
    <3> QED
      BY <1>1, <3>1, <3>2, <3>3 DEF ListInv
  <2> QED
    BY <1>2, <2>1, <2>2 DEF Tab, OwnStep
<1>3. CASE Worker
  BY <1>3, WorkerLists
<1>4. CASE SignIn \/ SignOut \/ UNCHANGED vars
  <2>1. UNCHANGED tabVars /\ UNCHANGED jobVars /\ (signedIn' \in BOOLEAN \/ signedIn' = signedIn)
    BY <1>4 DEF SignIn, SignOut, vars
  <2>2. Typed'
    BY <2>1 DEF ListInv, Typed, tabVars
  <2>3. \A t \in Tabs : TabListInv(t)'
    BY <2>1 DEF ListInv, TabListInv, tabVars, jobVars
  <2> QED
    BY <1>1, <2>1, <2>2, <2>3 DEF ListInv
<1>5. CASE Restart
  BY <1>5, RestartLists
<1> QED
  BY <1>2, <1>3, <1>4, <1>5 DEF Next

\* The second invariant, relative to the first: the lists that travel between the page,
\* the request and the result.
THEOREM ListInvariance == Spec => []ListInv
<1> QED
  BY InitListInv, StepListInv, Invariance, PTL DEF Spec

\* Every variable has its type, the line has its capacity, and no more ended jobs are kept
\* than the manager retains (queue.go evictLocked).
THEOREM TypeCorrect == Spec => []RTypeOK
<1>1. IInv /\ ListInv => RTypeOK
  BY DEF IInv, LineInv, ResultInv, ListInv, Typed, BoundsInv, TabListInv, RTypeOK
<1> QED
  BY <1>1, Invariance, ListInvariance, PTL

\* "generation uses exactly this list" (validation.html:58), for any rows and any edits:
\* the suite a tab shows is made of the rows it left on its review page, in their order,
\* numbered from 1, unless it left none (handlers.go parseCuratedACs, generation.go).
THEOREM GeneratesThisList == Spec => []ExactlyThisList
<1>1. IInv /\ ListInv => ExactlyThisList
  <2> SUFFICES ASSUME IInv, ListInv, NEW t \in Tabs, view[t] = "result", left[t] # <<>>,
                      NEW res \in result[about[t]]
               PROVE  res.acs = Numbered(left[t])
    BY DEF ExactlyThisList
  <2>1. about[t] \in Jobs /\ request[about[t]].acs = Numbered(left[t]) /\ left[t] \in Seq(PageRows)
    BY DEF IInv, TabInv, ListInv, TabListInv
  <2>2. Numbered(left[t]) # <<>>
    BY <2>1, NumberedRows
  <2> QED
    BY <2>1, <2>2 DEF ListInv, JobListInv
<1> QED
  BY <1>1, Invariance, ListInvariance, PTL

\* The two-step flow gives each tab the suite it asked for.
THEOREM ResultsAreOwn == Spec => []OwnResult
<1>1. OwnPage /\ ExactlyThisList => OwnResult
  BY DEF OwnResult
<1> QED
  BY <1>1, PagesAreOwn, GeneratesThisList, PTL
=============================================================================
