-------------------------- MODULE LiveStatusProofs --------------------------
(* Theorems about LiveStatus, for any jobs, viewers, capacities and plans. *)
EXTENDS LiveStatus, JobQueueProofs

-----------------------------------------------------------------------------
(* The queue underneath. *)

\* A step of the composition is a step of the queue, or leaves it alone.
LEMMA QueueSteps == [LNext]_allVars => [Next]_vars
<1>1. LNext => Next \/ UNCHANGED vars
  BY DEF LNext, LiveSubmit, QuietSubmit, AnnouncedSubmit, LiveWorker, QuietWorker,
         AnnouncedWorker, RunnerProgress, RunnerAnnounce, MonitorAnnounce, Connect, Handler,
         ReadSnapshot, ReadOwn, TakeTick, CloseStream, FetchResult, Leave, Next, Submit, Worker
<1> QED
  BY <1>1 DEF allVars

\* The queue goes through no other behaviours for being watched: handlers, ticks and
\* announcements (handlers.go:283-332, sse.go) are no steps of it.
THEOREM WatchingChangesNothing == LSpec => Spec
<1>1. LInit => Init
  BY DEF LInit
<1> QED
  BY <1>1, QueueSteps, PTL DEF LSpec, Spec

\* What JobQueueProofs says of the queue is true of the composition.
LEMMA QueueKept == LSpec => []IInv
BY WatchingChangesNothing, Invariance, PTL

-----------------------------------------------------------------------------
(* The pages. *)

\* What the worker or its runner changed has been announced.
Told == worker \notin {"starting", "finishing"} /\ ~reporting

\* Who is where: a viewer that reads or waits is subscribed, a watched job was accepted,
\* and only a running job's plan is reported on.
ViewersInv ==
  /\ tick \in [Viewers -> {"absent", "empty", "pending"}]
  /\ DOMAIN viewer = Viewers /\ DOMAIN watch = Viewers /\ DOMAIN frame = Viewers
  /\ reporting \in BOOLEAN /\ (reporting => worker = "running")
  /\ DOMAIN steps = Jobs
  /\ \A v \in Viewers :
       /\ viewer[v] \in {"reading", "readingOwn", "waiting"} => tick[v] # "absent"
       /\ watch[v] # NoJob => watch[v] \in Jobs /\ submit[watch[v]] = "accepted"
       /\ frame[v] = [global |-> frame[v].global, you |-> frame[v].you]

\* A frame that no tick calls back is current as soon as what changed has been announced.
CurrentGlobal(v) ==
  /\ frame[v].global.busy = (running # NoJob)
  /\ frame[v].global.known = EtaKnown

CurrentOwn(v) ==
  /\ frame[v].you.state = OwnView(watch[v]).state
  /\ frame[v].you.steps = OwnView(watch[v]).steps

CurrentInv ==
  \A v \in Viewers : tick[v] # "pending" /\ Told =>
    /\ viewer[v] \in {"readingOwn", "waiting"} => CurrentGlobal(v)
    /\ viewer[v] = "waiting" => CurrentOwn(v)

PageInv == ViewersInv /\ CurrentInv

\* What is published reaches everybody who reads or waits.
LEMMA PublishReaches ==
  ASSUME ViewersInv, Publish
  PROVE  /\ tick' \in [Viewers -> {"absent", "empty", "pending"}]
         /\ \A v \in Viewers : tick[v] # "absent" => tick'[v] = "pending"
         /\ \A v \in Viewers : tick[v] = "absent" => tick'[v] = "absent"
  BY DEF ViewersInv, Publish, Subscribed

\* An announced step leaves no page that nothing calls back.
LEMMA PublishKeeps ==
  ASSUME PageInv, Publish,
         UNCHANGED <<viewer, watch, frame>>, DOMAIN steps' = DOMAIN steps,
         reporting' \in BOOLEAN, reporting' => worker' = "running",
         \A j \in Jobs : submit[j] = "accepted" => submit'[j] = "accepted"
  PROVE  PageInv'
<1>1. ViewersInv'
  BY PublishReaches DEF PageInv, ViewersInv
<1>2. CurrentInv'
  BY PublishReaches DEF PageInv, ViewersInv, CurrentInv
<1> QED
  BY <1>1, <1>2 DEF PageInv

\* A step that leaves ticks and pages alone keeps the pages current unless somebody now
\* owes an announcement.
LEMMA SilentKeeps ==
  ASSUME PageInv, UNCHANGED <<tick, viewer, watch, frame>>, DOMAIN steps' = DOMAIN steps,
         reporting' \in BOOLEAN, reporting' => worker' = "running",
         \A j \in Jobs : submit[j] = "accepted" => submit'[j] = "accepted",
         Told' => /\ Told /\ (running' # NoJob) = (running # NoJob) /\ EtaKnown' = EtaKnown
                  /\ \A v \in Viewers : /\ OwnView(watch[v])'.state = OwnView(watch[v]).state
                                        /\ OwnView(watch[v])'.steps = OwnView(watch[v]).steps
  PROVE  PageInv'
<1>1. ViewersInv'
  BY DEF PageInv, ViewersInv
<1>2. CurrentInv'
  BY DEF PageInv, CurrentInv, CurrentGlobal, CurrentOwn
<1> QED
  BY <1>1, <1>2 DEF PageInv

\* The two fields of OwnView that the page of a job follows.
LEMMA OwnFields ==
  \A j : /\ OwnView(j).state = IF j \in jobs THEN state[j] ELSE "none"
         /\ OwnView(j).steps = IF j \in jobs THEN steps[j] ELSE 0
  BY DEF OwnView, NoView

\* What a frame says of the whole queue.
LEMMA GlobalFields ==
  /\ SnapshotView.busy = (running # NoJob)
  /\ SnapshotView.known = EtaKnown
<1>1. \A b, l, k, a : [busy |-> b, len |-> l, known |-> k, ahead |-> a].busy = b
                  /\ [busy |-> b, len |-> l, known |-> k, ahead |-> a].known = k
  OBVIOUS
<1> QED
  BY <1>1, Zenon DEF SnapshotView

\* The view of a job stays as long as its record does.
LEMMA OwnViewStays ==
  ASSUME UNCHANGED steps, NEW j,
         j \in jobs' <=> j \in jobs, j \in jobs => state'[j] = state[j]
  PROVE  /\ OwnView(j)'.state = OwnView(j).state
         /\ OwnView(j)'.steps = OwnView(j).steps
  BY DEF OwnView, NoView

-----------------------------------------------------------------------------
(* The steps of the queue. *)

LEMMA QuietSubmitKeeps ==
  ASSUME IInv, PageInv, NEW j \in Jobs, QuietSubmit(j)
  PROVE  PageInv'
<1>1. /\ submit[j] # "accepted" /\ DOMAIN submit = Jobs
      /\ \E p \in SubmitPoints : submit' = [submit EXCEPT ![j] = p]
      /\ jobs' \ {j} = jobs \ {j}
      /\ \A k \in Jobs \ {j} : state'[k] = state[k]
      /\ DOMAIN state' = Jobs
      /\ state'[j] # "done" /\ state[j] # "done"
      /\ UNCHANGED <<running, worker, tick, liveVars>>
  BY DEF QuietSubmit, SubmitRegister, SubmitSend, SubmitFull, SubmitRollback, IInv, TypeOK,
         SubmitAgrees, SubmitPoints, States
<1>2. UNCHANGED <<steps, reporting, viewer, watch, frame, tick, worker, running>>
  BY <1>1 DEF liveVars
<1>3. \A k \in Jobs : submit[k] = "accepted" => submit'[k] = "accepted"
  BY <1>1
<1>4. EtaKnown' = EtaKnown
  BY <1>1 DEF EtaKnown
<1>5. \A v \in Viewers : watch[v] # j /\ watch[v] \in Jobs \cup {NoJob}
  BY <1>1, ConstantsAssumption DEF PageInv, ViewersInv
<1>6. jobs \subseteq Jobs
  BY DEF IInv, TypeOK
<1>7. ASSUME NEW v \in Viewers
      PROVE  /\ OwnView(watch[v])'.state = OwnView(watch[v]).state
             /\ OwnView(watch[v])'.steps = OwnView(watch[v]).steps
  <2> DEFINE w == watch[v]
  <2>1. w \in jobs' <=> w \in jobs
    BY <1>1, <1>5
  <2>2. w \in jobs => state'[w] = state[w]
    BY <1>1, <1>5, <1>6
  <2>3. watch'[v] = w
    BY <1>2
  <2> QED
    BY <1>2, <2>1, <2>2, <2>3 DEF OwnView, NoView
<1>8. Told' => Told
  BY <1>2 DEF Told
<1> QED
  BY <1>2, <1>3, <1>4, <1>7, <1>8, SilentKeeps DEF PageInv, ViewersInv

LEMMA QuietWorkerKeeps ==
  ASSUME IInv, PageInv, QuietWorker
  PROVE  PageInv'
<1>1. UNCHANGED <<steps, reporting, viewer, watch, frame, tick, submit>>
  BY DEF QuietWorker, WorkerReceive, WorkerStop, WorkerBegin, WorkerFinish, liveVars
<1>2. reporting' \in BOOLEAN /\ (reporting' => worker' = "running")
  BY <1>1 DEF QuietWorker, WorkerReceive, WorkerStop, WorkerBegin, WorkerFinish, PageInv, ViewersInv
<1>3. CASE WorkerReceive \/ WorkerStop
  <2>1. UNCHANGED <<jobs, state, running>> /\ Told
    BY <1>2, <1>3, <1>1 DEF WorkerReceive, WorkerStop, Told
  <2>2. /\ EtaKnown' = EtaKnown
        /\ \A v \in Viewers : /\ OwnView(watch[v])'.state = OwnView(watch[v]).state
                              /\ OwnView(watch[v])'.steps = OwnView(watch[v]).steps
    BY <1>1, <2>1 DEF EtaKnown, OwnView, NoView
  <2> QED
    BY <1>1, <1>2, <2>1, <2>2, SilentKeeps
<1>4. CASE WorkerBegin \/ \E outcome \in Outcomes : WorkerFinish(outcome)
  <2>1. ~ Told'
    BY <1>4 DEF WorkerBegin, WorkerFinish, Told
  <2> QED
    BY <1>1, <1>2, <2>1, SilentKeeps
<1> QED
  BY <1>3, <1>4 DEF QuietWorker

LEMMA AnnouncedKeeps ==
  ASSUME IInv, PageInv,
         \/ \E j \in Jobs : AnnouncedSubmit(j)
         \/ AnnouncedWorker \/ RunnerAnnounce \/ MonitorAnnounce
  PROVE  PageInv'
<1>1. Publish /\ UNCHANGED <<viewer, watch, frame, steps>>
  BY DEF AnnouncedSubmit, AnnouncedWorker, RunnerAnnounce, MonitorAnnounce, liveVars
<1>2. reporting \in BOOLEAN /\ (reporting => worker = "running")
  BY DEF PageInv, ViewersInv
<1>3. CASE \E j \in Jobs : AnnouncedSubmit(j)
  <2>1. PICK j \in Jobs : AnnouncedSubmit(j)
    BY <1>3
  <2>2. UNCHANGED <<reporting, worker>> /\ submit' = [submit EXCEPT ![j] = "accepted"]
    BY <2>1 DEF AnnouncedSubmit, SubmitAnnounce, liveVars
  <2>3. \A k \in Jobs : submit[k] = "accepted" => submit'[k] = "accepted"
    BY <2>2 DEF IInv, TypeOK
  <2> QED
    BY <1>1, <1>2, <2>2, <2>3, PublishKeeps
<1>4. CASE AnnouncedWorker
  <2>1. UNCHANGED <<reporting, submit>> /\ worker # "running"
    BY <1>4 DEF AnnouncedWorker, WorkerAnnounceStart, WorkerAnnounceEnd, liveVars
  <2> QED
    BY <1>1, <1>2, <2>1, PublishKeeps
<1>5. CASE RunnerAnnounce
  <2>1. reporting' = FALSE /\ UNCHANGED submit
    BY <1>5 DEF RunnerAnnounce, vars
  <2> QED
    BY <1>1, <2>1, PublishKeeps
<1>6. CASE MonitorAnnounce
  <2>1. UNCHANGED <<reporting, worker, submit>>
    BY <1>6 DEF MonitorAnnounce, vars, liveVars
  <2> QED
    BY <1>1, <1>2, <2>1, PublishKeeps
<1> QED
  BY <1>3, <1>4, <1>5, <1>6

LEMMA RunnerProgressKeeps ==
  ASSUME PageInv, RunnerProgress
  PROVE  PageInv'
<1>1. /\ UNCHANGED <<tick, viewer, watch, frame, submit, worker>>
      /\ DOMAIN steps' = DOMAIN steps
      /\ reporting' = TRUE /\ worker = "running"
  BY DEF RunnerProgress, vars
<1> QED
  BY <1>1, SilentKeeps DEF Told

LEMMA ProcessKeeps ==
  ASSUME PageInv, Cancel \/ Exit, UNCHANGED <<tick, liveVars>>
  PROVE  PageInv'
<1>1. /\ UNCHANGED <<tick, viewer, watch, frame, steps, reporting>>
      /\ UNCHANGED <<submit, worker, jobs, state, running>>
  BY DEF Cancel, Exit, liveVars
<1>2. Told' = Told /\ EtaKnown' = EtaKnown
  BY <1>1 DEF Told, EtaKnown
<1>3. \A v \in Viewers : /\ OwnView(watch[v])'.state = OwnView(watch[v]).state
                        /\ OwnView(watch[v])'.steps = OwnView(watch[v]).steps
  <2> TAKE v \in Viewers
  <2>1. /\ OwnView(watch[v])'.state = IF watch[v] \in jobs THEN state[watch[v]] ELSE "none"
        /\ OwnView(watch[v])'.steps = IF watch[v] \in jobs THEN steps[watch[v]] ELSE 0
    BY <1>1 DEF OwnView, NoView
  <2> QED
    BY <2>1, OwnFields
<1> QED
  BY <1>1, <1>2, <1>3, SilentKeeps DEF PageInv, ViewersInv

-----------------------------------------------------------------------------
(* The steps of a viewer, which leave the queue and the other viewers alone. *)

\* The other viewers' pages are as current as they were.
LEMMA OthersKeep ==
  ASSUME PageInv, UNCHANGED <<vars, steps, reporting>>, NEW v \in Viewers,
         NEW u \in Viewers \ {v},
         tick'[u] = tick[u], viewer'[u] = viewer[u], watch'[u] = watch[u], frame'[u] = frame[u]
  PROVE  tick'[u] # "pending" /\ Told' =>
           /\ viewer'[u] \in {"readingOwn", "waiting"} => CurrentGlobal(u)'
           /\ viewer'[u] = "waiting" => CurrentOwn(u)'
<1>1. UNCHANGED <<jobs, state, running, worker>>
  BY DEF vars
<1>2. /\ OwnView(watch[u])'.state = OwnView(watch[u]).state
      /\ OwnView(watch[u])'.steps = OwnView(watch[u]).steps
  BY <1>1 DEF OwnView, NoView
<1>3. EtaKnown' = EtaKnown /\ Told' = Told
  BY <1>1 DEF EtaKnown, Told
<1> QED
  BY <1>1, <1>2, <1>3 DEF PageInv, CurrentInv, CurrentGlobal, CurrentOwn

LEMMA ViewerKeeps ==
  ASSUME PageInv, NEW v \in Viewers, Connect(v) \/ Handler(v) \/ Leave(v)
  PROVE  PageInv'
<1> USE DEF PageInv
<1>1. UNCHANGED <<vars, steps, reporting>> /\ UNCHANGED <<submit, worker, jobs, state, running>>
  BY DEF Connect, Handler, ReadSnapshot, ReadOwn, TakeTick, CloseStream, FetchResult, Leave, vars
<1>2. /\ \A u \in Viewers \ {v} : /\ tick'[u] = tick[u] /\ viewer'[u] = viewer[u]
                                 /\ watch'[u] = watch[u] /\ frame'[u] = frame[u]
      /\ DOMAIN viewer' = Viewers /\ DOMAIN watch' = Viewers /\ DOMAIN frame' = Viewers
  BY DEF Connect, Handler, ReadSnapshot, ReadOwn, TakeTick, CloseStream, FetchResult, Leave,
         Subscribe, Receive, Unsubscribe, ViewersInv
<1>3. tick' \in [Viewers -> {"absent", "empty", "pending"}]
  BY DEF Connect, Handler, ReadSnapshot, ReadOwn, TakeTick, CloseStream, FetchResult, Leave,
         Subscribe, Receive, Unsubscribe, ViewersInv
<1>4. ASSUME /\ viewer'[v] \in {"reading", "readingOwn", "waiting"} => tick'[v] # "absent"
             /\ watch'[v] # NoJob => watch'[v] \in Jobs /\ submit[watch'[v]] = "accepted"
             /\ frame'[v] = [global |-> frame'[v].global, you |-> frame'[v].you]
             /\ tick'[v] # "pending" /\ Told =>
                  /\ viewer'[v] \in {"readingOwn", "waiting"} => CurrentGlobal(v)'
                  /\ viewer'[v] = "waiting" => CurrentOwn(v)'
      PROVE  PageInv'
  <2>1. ViewersInv'
    BY <1>1, <1>2, <1>3, <1>4 DEF ViewersInv
  <2>2. Told' = Told
    BY <1>1 DEF Told
  <2>3. CurrentInv'
    BY <1>1, <1>2, <1>4, <2>2, OthersKeep DEF CurrentInv
  <2> QED
    BY <2>1, <2>3
<1>5. CASE Connect(v)
  BY <1>4, <1>5 DEF Connect, Subscribe, ViewersInv
<1>6. CASE ReadSnapshot(v)
  <2>1. /\ viewer[v] = "reading" /\ viewer'[v] = "readingOwn"
        /\ tick' = tick /\ watch' = watch
        /\ frame'[v] = [global |-> SnapshotView, you |-> frame[v].you]
    BY <1>6 DEF ReadSnapshot, ViewersInv
  <2>2. CurrentGlobal(v)'
    <3>1. frame'[v].global = SnapshotView
      BY <2>1
    <3>2. (running' # NoJob) = (running # NoJob) /\ EtaKnown' = EtaKnown
      BY <1>1 DEF EtaKnown
    <3> QED
      BY <3>1, <3>2, GlobalFields, Zenon DEF CurrentGlobal
  <2> QED
    BY <1>4, <2>1, <2>2 DEF ViewersInv
<1>7. CASE ReadOwn(v)
  <2>1. /\ viewer[v] = "readingOwn" /\ viewer'[v] = "waiting"
        /\ tick' = tick /\ watch' = watch
        /\ frame'[v] = [global |-> frame[v].global, you |-> OwnView(watch[v])]
    BY <1>7 DEF ReadOwn, ViewersInv
  <2>2. CurrentOwn(v)'
    BY <1>1, <2>1 DEF CurrentOwn, OwnView, NoView
  <2>3. tick[v] # "pending" /\ Told => CurrentGlobal(v)'
    <3>1. tick[v] # "pending" /\ Told => CurrentGlobal(v)
      BY <2>1 DEF CurrentInv
    <3>2. frame'[v].global = frame[v].global
      BY <2>1
    <3>3. (running' # NoJob) = (running # NoJob) /\ EtaKnown' = EtaKnown
      BY <1>1 DEF EtaKnown
    <3> QED
      BY <3>1, <3>2, <3>3, Zenon DEF CurrentGlobal
  <2> QED
    BY <1>4, <2>1, <2>2, <2>3 DEF ViewersInv
<1>8. CASE TakeTick(v)
  BY <1>4, <1>8 DEF TakeTick, Receive, ViewersInv
<1>9. CASE CloseStream(v) \/ FetchResult(v) \/ Leave(v)
  BY <1>4, <1>9 DEF CloseStream, FetchResult, Leave, Unsubscribe, ViewersInv
<1> QED
  BY <1>5, <1>6, <1>7, <1>8, <1>9 DEF Handler

-----------------------------------------------------------------------------

LEMMA PagesStart == LInit => PageInv
<1> SUFFICES ASSUME LInit PROVE PageInv
  OBVIOUS
<1>1. /\ tick = [v \in Viewers |-> "absent"] /\ viewer = [v \in Viewers |-> "away"]
      /\ watch = [v \in Viewers |-> NoJob] /\ reporting = FALSE
      /\ steps = [j \in Jobs |-> 0]
      /\ frame = [v \in Viewers |-> [global |-> [busy |-> FALSE, len |-> 0, known |-> FALSE, ahead |-> 0], you |-> NoView]]
  BY DEF LInit, BInit
<1>2. ViewersInv
  BY <1>1 DEF ViewersInv
<1>3. CurrentInv
  BY <1>1 DEF CurrentInv
<1> QED
  BY <1>2, <1>3 DEF PageInv

LEMMA PagesStep == IInv /\ PageInv /\ [LNext]_allVars => PageInv'
<1> SUFFICES ASSUME IInv, PageInv, [LNext]_allVars PROVE PageInv'
  OBVIOUS
<1>1. ASSUME NEW j \in Jobs, LiveSubmit(j) PROVE PageInv'
  BY <1>1, QuietSubmitKeeps, AnnouncedKeeps DEF LiveSubmit
<1>2. CASE LiveWorker \/ MonitorAnnounce
  BY <1>2, QuietWorkerKeeps, AnnouncedKeeps, RunnerProgressKeeps DEF LiveWorker
<1>3. CASE (Cancel \/ Exit) /\ UNCHANGED <<tick, liveVars>>
  BY <1>3, ProcessKeeps
<1>4. ASSUME NEW v \in Viewers, Connect(v) \/ Handler(v) \/ Leave(v) PROVE PageInv'
  BY <1>4, ViewerKeeps
<1>5. CASE UNCHANGED allVars
  BY <1>5 DEF allVars, liveVars, vars, PageInv, ViewersInv, CurrentInv, Told, CurrentGlobal,
              CurrentOwn, EtaKnown, OwnView, NoView
<1> QED
  BY <1>1, <1>2, <1>3, <1>4, <1>5 DEF LNext

\* Everybody who reads or waits is subscribed, and a page that no tick calls back has
\* seen the last announced change: the invariant behind SettledPageCurrent.
THEOREM PagesInvariance == LSpec => []PageInv
BY PagesStart, PagesStep, QueueKept, PTL DEF LSpec

\* A page that nothing calls back any more shows how its job and the worker are now: a
\* tick that a full channel swallows never hides a change.
THEOREM SettledPagesAreCurrent == LSpec => []SettledPageCurrent
<1>1. PageInv => SettledPageCurrent
  BY DEF PageInv, CurrentInv, SettledPageCurrent, Settled, AnnouncementOwed, Told,
         CurrentGlobal, CurrentOwn
<1> QED
  BY <1>1, PagesInvariance, PTL

-----------------------------------------------------------------------------
(* What a step of the queue does to the line. *)

\* Jobs put into the line by a Submit that has neither announced nor undone it.
Owing == {j \in Jobs : submit[j] \in {"sending", "rejecting", "announcing"}}

\* Nobody whose Submit has returned moves back, and the line grows by no more than is
\* going to be announced.
LineMoves ==
  /\ \A j \in Jobs : submit[j] = "accepted" => Place(queued', j) <= Place(queued, j)
  /\ (\A j \in Jobs : ~ SubmitAnnounce(j)) =>
       Len(queued') + Cardinality(Owing) <= Len(queued) + Cardinality(Owing')

LEMMA OwingCount ==
  /\ IsFiniteSet(Owing) /\ Cardinality(Owing) \in Nat
  /\ \A j \in Jobs : j \notin Owing => Cardinality(Owing \cup {j}) = Cardinality(Owing) + 1
  /\ \A j \in Owing : Cardinality(Owing \ {j}) = Cardinality(Owing) - 1
<1>1. IsFiniteSet(Owing)
  BY FS_Subset, ConstantsAssumption DEF Owing
<1> QED
  BY <1>1, FS_CardinalityType, FS_AddElement, FS_RemoveElement

LEMMA QueueMovesLine ==
  ASSUME IInv, [Next]_vars
  PROVE  LineMoves
<1>1. /\ queued \in Seq(Jobs) /\ NoRepeats(queued) /\ Len(queued) \in Nat
      /\ \A j : Place(queued, j) \in Nat
  BY PlaceIs, LenProperties DEF IInv, TypeOK, LineAccounted
<1>2. ASSUME UNCHANGED queued, Owing' = Owing PROVE LineMoves
  BY <1>1, <1>2, OwingCount DEF LineMoves
<1>3. ASSUME NEW j \in Jobs, SubmitRegister(j) PROVE LineMoves
  <2>1. j \notin ToSet(queued) /\ queued' = Append(queued, j) /\ submit[j] = "idle"
    BY <1>3 DEF SubmitRegister, IInv, LineAccounted, SubmitAgrees, InFlight, InHand
  <2>2. Owing' = Owing \cup {j} /\ j \notin Owing
    BY <1>3 DEF SubmitRegister, Owing, IInv, TypeOK
  <2>3. /\ Len(queued') = Len(queued) + 1
        /\ \A k \in Jobs : k # j => Place(queued', k) = Place(queued, k)
    <3>1. /\ Len(queued') = Len(queued) + 1
      BY <1>1, <2>1, AppendProperties
    <3> QED
      BY <1>1, <2>1, <3>1, JoiningTheLine
  <2>4. Cardinality(Owing') = Cardinality(Owing) + 1 /\ Cardinality(Owing) \in Nat
    BY <2>2, OwingCount
  <2>5. \A k \in Jobs : submit[k] = "accepted" => k # j
    BY <2>1
  <2> QED
    BY <1>1, <2>3, <2>4, <2>5 DEF LineMoves
<1>4. ASSUME NEW j \in Jobs, SubmitSend(j) \/ SubmitFull(j) PROVE LineMoves
  BY <1>2, <1>4 DEF SubmitSend, SubmitFull, Owing, IInv, TypeOK
<1>5. ASSUME NEW j \in Jobs, SubmitRollback(j) PROVE LineMoves
  <2>1. j \in ToSet(queued) /\ queued' = removeID(queued, j)
    BY <1>5 DEF SubmitRollback, IInv, LineAccounted, InFlight
  <2>2. Owing' = Owing \ {j} /\ j \in Owing
    BY <1>5 DEF SubmitRollback, Owing, IInv, TypeOK
  <2>3. /\ Len(queued') = Len(queued) - 1
        /\ \A k : Place(queued', k) <= Place(queued, k)
    BY <1>1, <2>1, LeavingTheLine
  <2>4. Cardinality(Owing') = Cardinality(Owing) - 1 /\ Cardinality(Owing) \in Nat
    BY <2>2, OwingCount
  <2> QED
    BY <1>1, <2>3, <2>4 DEF LineMoves
<1>6. ASSUME NEW j \in Jobs, SubmitAnnounce(j) PROVE LineMoves
  <2>1. UNCHANGED queued
    BY <1>6 DEF SubmitAnnounce
  <2> QED
    BY <1>1, <1>6, <2>1 DEF LineMoves
<1>7. CASE WorkerBegin
  <2>1. held \in ToSet(queued) /\ queued' = removeID(queued, held) /\ Owing' = Owing
    BY <1>7 DEF WorkerBegin, IInv, LineAccounted, InHand, Owing
  <2>2. /\ Len(queued') = Len(queued) - 1
        /\ \A k : Place(queued', k) <= Place(queued, k)
    BY <1>1, <2>1, LeavingTheLine
  <2> QED
    BY <1>1, <2>1, <2>2, OwingCount DEF LineMoves
<1>8. CASE \/ WorkerReceive \/ WorkerStop \/ WorkerAnnounceStart \/ WorkerAnnounceEnd
           \/ (\E outcome \in Outcomes : WorkerFinish(outcome))
           \/ Cancel \/ Exit \/ UNCHANGED vars
  <2>1. UNCHANGED <<queued, submit>>
    BY <1>8 DEF WorkerReceive, WorkerStop, WorkerAnnounceStart, WorkerAnnounceEnd, WorkerFinish,
                Cancel, Exit, vars
  <2> QED
    BY <1>2, <2>1 DEF Owing
<1> QED
  BY <1>3, <1>4, <1>5, <1>6, <1>7, <1>8 DEF Next, Submit, Worker

-----------------------------------------------------------------------------
(* What the pages say of the line. *)

Busy == IF running # NoJob THEN 1 ELSE 0

\* A frame's numbers are numbers, and the banner's estimate is made of its own figures.
NumbersFit(f) ==
  /\ f.global.len \in Nat /\ f.global.ahead = StatusView(f.global.busy, f.global.len)
  /\ f.you.position \in Nat /\ f.you.ahead \in Nat

\* A frame that no tick calls back shows the line no shorter than it is without the jobs
\* whose Submit owes an announcement.  Nobody's own place grows after the frame, nor, once
\* what the worker did was announced, the number of jobs ahead.
NotShorter(v) ==
  /\ viewer[v] \in {"readingOwn", "waiting"} /\ tick[v] # "pending" =>
       Len(queued) <= frame[v].global.len + Cardinality(Owing)
  /\ viewer[v] = "waiting" => Place(queued, watch[v]) <= frame[v].you.position
  /\ viewer[v] = "waiting" /\ tick[v] # "pending" /\ Told /\ watch[v] \in ToSet(queued) =>
       Place(queued, watch[v]) + Busy <= frame[v].you.ahead

LineInv == \A v \in Viewers : NumbersFit(frame[v]) /\ NotShorter(v)

\* The numbers of the two reads, in any state of the queue.
LEMMA ReadNumbers ==
  ASSUME IInv
  PROVE  /\ SnapshotView.len = Len(queued) /\ Len(queued) \in Nat
         /\ SnapshotView.ahead = StatusView(SnapshotView.busy, SnapshotView.len)
         /\ \A j \in Jobs \cup {NoJob} :
              /\ Place(queued, j) \in Nat
              /\ OwnView(j).position = Place(queued, j)
              /\ OwnView(j).ahead = IF j \in ToSet(queued) THEN Place(queued, j) + Busy ELSE 0
              /\ j \in ToSet(queued) => j \in jobs /\ state[j] = "queued" /\ j # NoJob
<1>1. queued \in Seq(Jobs) /\ NoRepeats(queued) /\ Len(queued) \in Nat
  BY LenProperties DEF IInv, TypeOK, LineAccounted
<1>2. /\ SnapshotView.len = Len(queued)
      /\ SnapshotView.ahead = StatusView(SnapshotView.busy, SnapshotView.len)
  <2>1. \A b, l, k, a : [busy |-> b, len |-> l, known |-> k, ahead |-> a].len = l
                    /\ [busy |-> b, len |-> l, known |-> k, ahead |-> a].ahead = a
    OBVIOUS
  <2> QED
    BY <2>1, GlobalFields, Zenon DEF SnapshotView
<1>3. ASSUME NEW j \in Jobs \cup {NoJob}
      PROVE  /\ Place(queued, j) \in Nat
             /\ OwnView(j).position = Place(queued, j)
             /\ OwnView(j).ahead = IF j \in ToSet(queued) THEN Place(queued, j) + Busy ELSE 0
             /\ j \in ToSet(queued) => j \in jobs /\ state[j] = "queued" /\ j # NoJob
  <2>1. j \in ToSet(queued) <=> j \in jobs /\ state[j] = "queued"
    BY DEF IInv, MapAccounted, StateAgrees
  <2>2. Place(queued, j) \in Nat /\ (j \notin ToSet(queued) => Place(queued, j) = 0)
    BY <1>1, PlaceIs
  <2>3. Position(j) = Place(queued, j) /\ Ahead(j) = Place(queued, j) + Busy
    BY DEF Position, Place, Ahead, Busy
  <2>4. j \in jobs => j # NoJob
    BY ConstantsAssumption DEF IInv, TypeOK
  <2>5. /\ OwnView(j).position = IF j \in jobs /\ state[j] = "queued" THEN Position(j) ELSE 0
        /\ OwnView(j).ahead = IF j \in jobs /\ state[j] = "queued" THEN Ahead(j) ELSE 0
    BY DEF OwnView, NoView
  <2> QED
    BY <2>1, <2>2, <2>3, <2>4, <2>5
<1> QED
  BY <1>1, <1>2, <1>3

\* The pages stay right about the line when the queue moves.
LEMMA LineStays ==
  ASSUME IInv, IInv', ViewersInv, LineInv, [Next]_vars, UNCHANGED <<viewer, watch, frame>>,
         \/ Publish
         \/ /\ tick' = tick
            /\ \A j \in Jobs : ~ SubmitAnnounce(j)
            /\ Told' => Told /\ running' = running
  PROVE  LineInv'
<1> SUFFICES ASSUME NEW v \in Viewers PROVE NotShorter(v)'
  BY DEF LineInv
<1> DEFINE w == watch[v]
<1>1. LineMoves
  BY QueueMovesLine
<1>2. /\ w \in Jobs \cup {NoJob} /\ (w # NoJob => submit[w] = "accepted")
      /\ viewer[v] \in {"readingOwn", "waiting"} => tick[v] # "absent"
  BY DEF ViewersInv
<1>3. /\ queued \in Seq(Jobs) /\ NoRepeats(queued) /\ Len(queued) \in Nat
      /\ queued' \in Seq(Jobs) /\ NoRepeats(queued') /\ Len(queued') \in Nat
  BY LenProperties DEF IInv, TypeOK, LineAccounted
<1>4. /\ Place(queued, w) \in Nat /\ Place(queued', w) \in Nat
      /\ w \in ToSet(queued') => Place(queued', w) >= 1
      /\ w \notin ToSet(queued) => Place(queued, w) = 0
      /\ w \notin ToSet(queued') => Place(queued', w) = 0
  BY <1>3, PlaceIs
<1>5. NoJob \notin ToSet(queued')
  BY <1>3, ConstantsAssumption DEF IInv, TypeOK, MapAccounted
<1>6. Place(queued', w) <= Place(queued, w)
  BY <1>1, <1>2, <1>4, <1>5 DEF LineMoves
<1>7. w \in ToSet(queued') => w \in ToSet(queued)
  BY <1>4, <1>6
<1> HIDE DEF w
<1>8. viewer'[v] = viewer[v] /\ watch'[v] = w /\ frame'[v] = frame[v] /\ watch[v] = w
  BY DEF w
<1>9. NumbersFit(frame[v]) /\ NotShorter(v)
  BY DEF LineInv
<1>10. viewer[v] = "waiting" => Place(queued', w) <= frame[v].you.position
  BY <1>4, <1>6, <1>8, <1>9 DEF NumbersFit, NotShorter
<1>11. CASE Publish
  <2>1. viewer[v] \in {"readingOwn", "waiting"} => tick'[v] = "pending"
    BY <1>2, <1>11, PublishReaches
  <2> QED
    BY <1>8, <1>10, <2>1 DEF NotShorter
<1>12. CASE /\ tick' = tick
            /\ \A j \in Jobs : ~ SubmitAnnounce(j)
            /\ Told' => Told /\ running' = running
  <2>1. Len(queued') + Cardinality(Owing) <= Len(queued) + Cardinality(Owing')
    BY <1>1, <1>12 DEF LineMoves
  <2>2. Cardinality(Owing) \in Nat /\ Cardinality(Owing') \in Nat
    BY OwingCount, FS_Subset, FS_CardinalityType, ConstantsAssumption DEF Owing
  <2>3. viewer[v] \in {"readingOwn", "waiting"} /\ tick[v] # "pending" =>
          Len(queued') <= frame[v].global.len + Cardinality(Owing')
    BY <1>3, <1>9, <2>1, <2>2 DEF NumbersFit, NotShorter
  <2>4. Told' => Busy' = Busy /\ Busy \in Nat
    BY <1>12 DEF Busy
  <2>5. viewer[v] = "waiting" /\ tick[v] # "pending" /\ Told' /\ w \in ToSet(queued') =>
          Place(queued', w) + Busy' <= frame[v].you.ahead
    BY <1>4, <1>6, <1>7, <1>8, <1>9, <1>12, <2>4 DEF NumbersFit, NotShorter
  <2> QED
    BY <1>8, <1>10, <1>12, <2>3, <2>5 DEF NotShorter
<1> QED
  BY <1>11, <1>12

LEMMA ViewerKeepsLine ==
  ASSUME IInv, ViewersInv, LineInv, NEW v \in Viewers, Connect(v) \/ Handler(v) \/ Leave(v)
  PROVE  LineInv'
<1>1. UNCHANGED vars /\ UNCHANGED <<reporting, submit, worker, queued, running>>
  BY DEF Connect, Handler, ReadSnapshot, ReadOwn, TakeTick, CloseStream, FetchResult, Leave, vars
<1>2. \A u \in Viewers \ {v} : /\ tick'[u] = tick[u] /\ viewer'[u] = viewer[u]
                             /\ watch'[u] = watch[u] /\ frame'[u] = frame[u]
  BY DEF Connect, Handler, ReadSnapshot, ReadOwn, TakeTick, CloseStream, FetchResult, Leave,
         Subscribe, Receive, Unsubscribe, ViewersInv
<1>3. Owing' = Owing /\ Busy' = Busy /\ Told' = Told
  BY <1>1 DEF Owing, Busy, Told
<1>4. ASSUME NEW u \in Viewers \ {v} PROVE NumbersFit(frame'[u]) /\ NotShorter(u)'
  BY <1>1, <1>2, <1>3 DEF LineInv, NotShorter
<1>5. SUFFICES NumbersFit(frame'[v]) /\ NotShorter(v)'
  BY <1>4 DEF LineInv
<1>6. NumbersFit(frame[v]) /\ NotShorter(v) /\ Cardinality(Owing) \in Nat
  BY OwingCount DEF LineInv
<1>7. watch[v] \in Jobs \cup {NoJob}
  BY DEF ViewersInv
<1>8. CASE ReadSnapshot(v)
  <2>1. /\ viewer'[v] = "readingOwn"
        /\ frame'[v] = [global |-> SnapshotView, you |-> frame[v].you]
    BY <1>8 DEF ReadSnapshot, ViewersInv
  <2>2. frame'[v].global = SnapshotView /\ frame'[v].you = frame[v].you
    BY <2>1
  <2>3. NumbersFit(frame'[v])
    BY <1>6, <2>2, ReadNumbers DEF NumbersFit
  <2>4. Len(queued) <= frame'[v].global.len + Cardinality(Owing)
    BY <1>6, <2>2, ReadNumbers
  <2> QED
    BY <1>1, <1>3, <2>1, <2>3, <2>4 DEF NotShorter
<1>9. CASE ReadOwn(v)
  <2>1. /\ viewer[v] = "readingOwn" /\ tick' = tick /\ watch' = watch
        /\ frame'[v] = [global |-> frame[v].global, you |-> OwnView(watch[v])]
    BY <1>9 DEF ReadOwn, ViewersInv
  <2>2. frame'[v].global = frame[v].global /\ frame'[v].you = OwnView(watch[v])
    BY <2>1
  <2>3. /\ Place(queued, watch[v]) \in Nat
        /\ OwnView(watch[v]).position = Place(queued, watch[v])
        /\ OwnView(watch[v]).ahead =
             IF watch[v] \in ToSet(queued) THEN Place(queued, watch[v]) + Busy ELSE 0
    BY <1>7, ReadNumbers
  <2>4. NumbersFit(frame'[v])
    BY <1>6, <2>2, <2>3 DEF NumbersFit, Busy
  <2>5. /\ OwnView(watch[v]).position \in Nat /\ OwnView(watch[v]).ahead \in Nat
        /\ Place(queued, watch[v]) <= frame'[v].you.position
        /\ watch[v] \in ToSet(queued) => Place(queued, watch[v]) + Busy <= frame'[v].you.ahead
    BY <2>2, <2>3 DEF Busy
  <2>6. tick[v] # "pending" => Len(queued) <= frame'[v].global.len + Cardinality(Owing)
    BY <1>6, <2>1, <2>2 DEF NotShorter
  <2> QED
    BY <1>1, <1>3, <2>1, <2>4, <2>5, <2>6 DEF NotShorter
<1>10. CASE Connect(v) \/ TakeTick(v) \/ CloseStream(v) \/ FetchResult(v) \/ Leave(v)
  <2>1. frame' = frame /\ viewer'[v] \notin {"readingOwn", "waiting"}
    BY <1>10 DEF Connect, TakeTick, CloseStream, FetchResult, Leave, ViewersInv
  <2> QED
    BY <1>6, <2>1 DEF NotShorter
<1> QED
  BY <1>8, <1>9, <1>10 DEF Handler

LEMMA LineStarts == LInit => LineInv
<1> SUFFICES ASSUME LInit PROVE LineInv
  OBVIOUS
<1>1. /\ viewer = [v \in Viewers |-> "away"]
      /\ frame = [v \in Viewers |-> [global |-> [busy |-> FALSE, len |-> 0, known |-> FALSE, ahead |-> 0], you |-> NoView]]
  BY DEF LInit
<1>2. \A v \in Viewers : NumbersFit(frame[v]) /\ NotShorter(v)
  BY <1>1 DEF NumbersFit, NotShorter, StatusView, NoView
<1> QED
  BY <1>2 DEF LineInv

LEMMA LineStep == IInv /\ PageInv /\ LineInv /\ [LNext]_allVars => LineInv'
<1> SUFFICES ASSUME IInv, PageInv, LineInv, [LNext]_allVars PROVE LineInv'
  OBVIOUS
<1>1. [Next]_vars /\ IInv' /\ ViewersInv
  BY QueueSteps, StepIInv DEF PageInv
<1>2. ASSUME NEW j \in Jobs, QuietSubmit(j) PROVE LineInv'
  <2>1. /\ UNCHANGED <<tick, viewer, watch, frame, reporting, worker, running>>
        /\ \A k \in Jobs : ~ SubmitAnnounce(k)
    BY <1>2 DEF QuietSubmit, SubmitRegister, SubmitSend, SubmitFull, SubmitRollback, liveVars,
                SubmitAnnounce, IInv, TypeOK
  <2> QED
    BY <1>1, <2>1, LineStays DEF Told
<1>3. CASE QuietWorker
  <2>1. /\ UNCHANGED <<tick, viewer, watch, frame, reporting, submit>>
        /\ Told' => Told /\ running' = running
    BY <1>3 DEF QuietWorker, WorkerReceive, WorkerStop, WorkerBegin, WorkerFinish, liveVars, Told
  <2>2. \A k \in Jobs : ~ SubmitAnnounce(k)
    BY <2>1 DEF SubmitAnnounce, IInv, TypeOK
  <2> QED
    BY <1>1, <2>1, <2>2, LineStays
<1>4. CASE (\E j \in Jobs : AnnouncedSubmit(j)) \/ AnnouncedWorker \/ RunnerAnnounce
           \/ MonitorAnnounce
  <2>1. Publish /\ UNCHANGED <<viewer, watch, frame>>
    BY <1>4 DEF AnnouncedSubmit, AnnouncedWorker, RunnerAnnounce, MonitorAnnounce, liveVars
  <2> QED
    BY <1>1, <2>1, LineStays
<1>5. CASE RunnerProgress \/ ((Cancel \/ Exit) /\ UNCHANGED <<tick, liveVars>>)
           \/ UNCHANGED allVars
  <2>1. /\ UNCHANGED <<tick, viewer, watch, frame, submit, worker, running>>
        /\ Told' => Told
    BY <1>5 DEF RunnerProgress, Cancel, Exit, allVars, vars, liveVars, Told
  <2>2. \A k \in Jobs : ~ SubmitAnnounce(k)
    BY <2>1 DEF SubmitAnnounce, IInv, TypeOK
  <2> QED
    BY <1>1, <2>1, <2>2, LineStays
<1>6. ASSUME NEW v \in Viewers, Connect(v) \/ Handler(v) \/ Leave(v) PROVE LineInv'
  BY <1>1, <1>6, ViewerKeepsLine
<1> QED
  BY <1>2, <1>3, <1>4, <1>5, <1>6 DEF LNext, LiveSubmit, LiveWorker

\* With nothing owed the page's figures are no smaller than the line's.
LEMMA LineTold == IInv /\ PageInv /\ LineInv => LineNotUnderstated
<1> SUFFICES ASSUME IInv, PageInv, LineInv, NEW v \in Viewers, Settled(v)
             PROVE  /\ frame[v].global.len >= Len(queued)
                    /\ frame[v].you.position >= OwnView(watch[v]).position
                    /\ frame[v].global.ahead >= Len(queued) + Cardinality(ToSetOf(running))
                    /\ frame[v].you.state = "queued" => frame[v].you.ahead >= Ahead(watch[v])
  BY DEF LineNotUnderstated
<1>1. viewer[v] = "waiting" /\ tick[v] # "pending" /\ Told /\ Owing = {}
  BY DEF Settled, AnnouncementOwed, Told, Owing
<1>2. Cardinality(Owing) = 0
  BY <1>1, FS_EmptySet
<1>3. NumbersFit(frame[v]) /\ NotShorter(v) /\ CurrentGlobal(v) /\ CurrentOwn(v)
  BY <1>1 DEF LineInv, PageInv, CurrentInv
<1>4. watch[v] \in Jobs \cup {NoJob} /\ Len(queued) \in Nat
  BY ReadNumbers DEF PageInv, ViewersInv
<1>5. /\ Place(queued, watch[v]) \in Nat
      /\ OwnView(watch[v]).position = Place(queued, watch[v])
  BY <1>4, ReadNumbers
<1>6. Len(queued) <= frame[v].global.len
  BY <1>1, <1>2, <1>3, <1>4 DEF NotShorter, NumbersFit
<1>7. frame[v].you.position >= OwnView(watch[v]).position
  BY <1>1, <1>3, <1>5 DEF NotShorter, NumbersFit
<1>8. frame[v].global.ahead >= Len(queued) + Cardinality(ToSetOf(running))
  <2>1. Cardinality(ToSetOf(running)) = Busy /\ Busy \in {0, 1}
    BY FS_EmptySet, FS_Singleton DEF ToSetOf, Busy
  <2>2. frame[v].global.busy <=> running # NoJob
    BY <1>3 DEF CurrentGlobal
  <2>3. frame[v].global.ahead =
          IF ~(running # NoJob) /\ frame[v].global.len = 0 THEN 0 ELSE 1 + frame[v].global.len
    BY <1>3, <2>2 DEF NumbersFit, StatusView, CurrentGlobal
  <2> QED
    BY <1>3, <1>4, <1>6, <2>1, <2>3 DEF NumbersFit, Busy
<1>9. frame[v].you.state = "queued" => frame[v].you.ahead >= Ahead(watch[v])
  <2> SUFFICES ASSUME frame[v].you.state = "queued"
               PROVE  frame[v].you.ahead >= Ahead(watch[v])
    OBVIOUS
  <2>1. watch[v] \in jobs /\ state[watch[v]] = "queued"
    BY <1>3, OwnFields DEF CurrentOwn
  <2>2. watch[v] \in ToSet(queued)
    BY <2>1 DEF IInv, StateAgrees
  <2>3. Ahead(watch[v]) = Place(queued, watch[v]) + Busy
    BY DEF Ahead, Position, Place, Busy
  <2> QED
    BY <1>1, <1>3, <1>5, <2>2, <2>3 DEF NotShorter, NumbersFit, Busy
<1> QED
  BY <1>3, <1>4, <1>6, <1>7, <1>8, <1>9 DEF NumbersFit

\* A page that nothing calls back may show the line too long, for a refused Submit is not
\* announced, but never too short: neither the line, nor the place of the own job, nor the
\* number of jobs its estimates are made of.
THEOREM LineIsNotUnderstated == LSpec => []LineNotUnderstated
<1>1. LSpec => []LineInv
  BY LineStarts, LineStep, QueueKept, PagesInvariance, PTL DEF LSpec
<1> QED
  BY <1>1, LineTold, QueueKept, PagesInvariance, PTL

-----------------------------------------------------------------------------
(* How a page ends. *)

\* A page whose frame says that its job has ended.
ToldOfEnd(v) == viewer[v] \in {"waiting", "fetching", "closed"} /\ frame[v].you.state \in Outcomes

\* Such a frame keeps its word: the job has ended so and will not end otherwise, however
\* long the page takes to close its stream and to ask for the result.  What it is then
\* shown is that end, unless the result was evicted on the way, and then it is gone for good.
EndsAsTold ==
  \A v \in Viewers :
    /\ ToldOfEnd(v) => watch[v] \in Jobs /\ state[watch[v]] = frame[v].you.state
    /\ viewer[v] \in {"fetching", "closed"} => ToldOfEnd(v)
    /\ viewer[v] = "closed" => \/ panel[v] = frame[v].you.state
                               \/ panel[v] = "expired" /\ watch[v] \notin jobs

PanelsInv == DOMAIN panel = Viewers /\ EndsAsTold

\* What has ended stays as it ended, and what was accepted does not come back into the map.
LEMMA QueueKeepsEnds ==
  ASSUME IInv, [Next]_vars, NEW j \in Jobs
  PROVE  /\ state[j] \in Outcomes => state'[j] = state[j]
         /\ submit[j] = "accepted" /\ j \notin jobs => j \notin jobs'
<1>1. state[j] \in Outcomes => state'[j] = state[j]
  BY AdvanceStep DEF Advances, Outcomes
<1>2. submit[j] = "accepted" /\ j \notin jobs => j \notin jobs'
  BY DEF Next, Submit, SubmitRegister, SubmitSend, SubmitFull, SubmitRollback, SubmitAnnounce,
         Worker, WorkerReceive, WorkerStop, WorkerBegin, WorkerAnnounceStart, WorkerFinish,
         WorkerAnnounceEnd, Cancel, Exit, vars
<1> QED
  BY <1>1, <1>2

\* Steps that leave the pages alone.
LEMMA PanelsStay ==
  ASSUME IInv, ViewersInv, PanelsInv, [Next]_vars, UNCHANGED <<viewer, watch, frame, panel>>
  PROVE  PanelsInv'
<1>1. ASSUME NEW v \in Viewers
      PROVE  /\ ToldOfEnd(v)' => watch'[v] \in Jobs /\ state'[watch'[v]] = frame'[v].you.state
             /\ viewer'[v] \in {"fetching", "closed"} => ToldOfEnd(v)'
             /\ viewer'[v] = "closed" => \/ panel'[v] = frame'[v].you.state
                                         \/ panel'[v] = "expired" /\ watch'[v] \notin jobs'
  <2>1. ToldOfEnd(v)' = ToldOfEnd(v)
    BY DEF ToldOfEnd
  <2>2. ToldOfEnd(v) => watch[v] \in Jobs /\ state[watch[v]] \in Outcomes
    BY DEF PanelsInv, EndsAsTold, ToldOfEnd
  <2>3. ToldOfEnd(v) => submit[watch[v]] = "accepted"
    BY <2>2, ConstantsAssumption DEF ViewersInv
  <2>4. ToldOfEnd(v) => /\ state'[watch[v]] = state[watch[v]]
                        /\ watch[v] \notin jobs => watch[v] \notin jobs'
    BY <2>2, <2>3, QueueKeepsEnds
  <2> QED
    BY <2>1, <2>4 DEF PanelsInv, EndsAsTold
<1> QED
  BY <1>1 DEF PanelsInv, EndsAsTold

\* The steps of a viewer.
LEMMA ViewerEnds ==
  ASSUME IInv, ViewersInv, PanelsInv, NEW v \in Viewers, Connect(v) \/ Handler(v) \/ Leave(v)
  PROVE  PanelsInv'
<1>1. UNCHANGED <<state, jobs>>
  BY DEF Connect, Handler, ReadSnapshot, ReadOwn, TakeTick, CloseStream, FetchResult, Leave, vars
<1>2. /\ DOMAIN panel' = Viewers
      /\ \A u \in Viewers \ {v} : /\ viewer'[u] = viewer[u] /\ watch'[u] = watch[u]
                                 /\ frame'[u] = frame[u] /\ panel'[u] = panel[u]
  BY DEF Connect, Handler, ReadSnapshot, ReadOwn, TakeTick, CloseStream, FetchResult, Leave,
         ViewersInv, PanelsInv
<1>3. ASSUME /\ ToldOfEnd(v)' => watch'[v] \in Jobs /\ state[watch'[v]] = frame'[v].you.state
             /\ viewer'[v] \in {"fetching", "closed"} => ToldOfEnd(v)'
             /\ viewer'[v] = "closed" => \/ panel'[v] = frame'[v].you.state
                                         \/ panel'[v] = "expired" /\ watch'[v] \notin jobs
      PROVE  PanelsInv'
  BY <1>1, <1>2, <1>3 DEF PanelsInv, EndsAsTold, ToldOfEnd
<1>4. CASE viewer'[v] \notin {"waiting", "fetching", "closed"}
  BY <1>3, <1>4 DEF ToldOfEnd
<1>5. CASE ReadOwn(v)
  <2>1. viewer'[v] = "waiting" /\ watch' = watch /\ frame'[v].you = OwnView(watch[v])
    BY <1>5 DEF ReadOwn, ViewersInv
  <2>2. jobs \subseteq Jobs
    BY DEF IInv, TypeOK
  <2>3. OwnView(watch[v]).state \in Outcomes =>
          watch[v] \in jobs /\ OwnView(watch[v]).state = state[watch[v]]
    BY OwnFields DEF Outcomes
  <2> QED
    BY <1>3, <2>1, <2>2, <2>3, Zenon DEF ToldOfEnd
<1>6. CASE CloseStream(v)
  <2>1. /\ ToldOfEnd(v) /\ viewer'[v] = "fetching" /\ watch' = watch /\ frame' = frame
    BY <1>6 DEF CloseStream, ViewersInv, ToldOfEnd
  <2> QED
    BY <1>3, <2>1 DEF PanelsInv, EndsAsTold, ToldOfEnd
<1>7. CASE FetchResult(v)
  <2>1. /\ viewer[v] = "fetching" /\ viewer'[v] = "closed" /\ watch' = watch /\ frame' = frame
        /\ panel'[v] = IF watch[v] \in jobs THEN state[watch[v]] ELSE "expired"
    BY <1>7 DEF FetchResult, ViewersInv, PanelsInv
  <2>2. ToldOfEnd(v) /\ state[watch[v]] = frame[v].you.state /\ watch[v] \in Jobs
    BY <2>1 DEF PanelsInv, EndsAsTold
  <2> QED
    BY <1>3, <2>1, <2>2 DEF ToldOfEnd
<1> QED
  BY <1>4, <1>5, <1>6, <1>7
     DEF Connect, Handler, ReadSnapshot, TakeTick, Leave, ViewersInv

\* A frame that told a page of the end of its job is true for good: the page that closes
\* its stream for it asks about a job that has ended, as ReviewFlow's Lead takes for
\* granted, and is shown that end or that it expired (handlers.go:283-332, 236-281).
THEOREM PagesEndAsTold == LSpec => []EndsAsTold
<1>1. LInit => PanelsInv
  BY DEF LInit, PanelsInv, EndsAsTold, ToldOfEnd
<1>2. IInv /\ PageInv /\ PanelsInv /\ [LNext]_allVars => PanelsInv'
  <2> SUFFICES ASSUME IInv, PageInv, PanelsInv, [LNext]_allVars PROVE PanelsInv'
    OBVIOUS
  <2>1. ASSUME NEW v \in Viewers, Connect(v) \/ Handler(v) \/ Leave(v) PROVE PanelsInv'
    BY <2>1, ViewerEnds DEF PageInv
  <2>2. ASSUME UNCHANGED <<viewer, watch, frame, panel>> PROVE PanelsInv'
    BY <2>2, QueueSteps, PanelsStay DEF PageInv
  <2> QED
    BY <2>1, <2>2 DEF LNext, LiveSubmit, QuietSubmit, AnnouncedSubmit, LiveWorker, QuietWorker,
                      AnnouncedWorker, RunnerProgress, RunnerAnnounce, MonitorAnnounce,
                      liveVars, allVars
<1>3. PanelsInv => EndsAsTold
  BY DEF PanelsInv
<1> QED
  BY <1>1, <1>2, <1>3, QueueKept, PagesInvariance, PTL DEF LSpec
=============================================================================
