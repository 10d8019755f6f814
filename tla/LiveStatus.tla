----------------------------- MODULE LiveStatus -----------------------------
(***************************************************************************)
(* What a browser sees of the queue: JobQueue, the Broadcaster its onChange *)
(* drives, the event-stream handler (web/handlers.go handleEvents), and the *)
(* result a page asks for once its job has ended (handleResult).            *)
(*                                                                          *)
(* A change of the queue and its announcement are two steps, and so are the *)
(* two reads of the queue that make a frame; a viewer may come, read or     *)
(* leave between any of them.                                               *)
(***************************************************************************)
EXTENDS JobQueue, Broadcaster

CONSTANT MaxSteps   \* bound on the plan changes of one run

VARIABLES
  steps,      \* how far the plan of each job has advanced
  reporting,  \* the runner changed its plan and has not called onChange yet
  viewer,     \* where each handleEvents call stands
  watch,      \* the job id of its ?job= parameter
  frame,      \* the frame it wrote last, which is what its page shows
  panel       \* what GET /result put in the place of the waiting card

liveVars == <<steps, reporting, viewer, watch, frame, panel>>
allVars  == <<vars, tick, liveVars>>

ViewerPoints == {"away", "reading", "readingOwn", "waiting", "fetching", "closed"}
Panels       == {"waiting", "expired"} \cup Outcomes

-----------------------------------------------------------------------------
(* The two reads of writeEvent; each takes Manager.mu once. *)

\* eta.Tracker: there is an average once a job was done; failures are not recorded.
EtaKnown == \E j \in Jobs : state[j] = "done"

\* The banner for a bystander: the jobs a newcomer would wait for.
StatusView(busy, len) == IF ~busy /\ len = 0 THEN 0 ELSE 1 + len

SnapshotView ==
  [busy  |-> running # NoJob,
   len   |-> Len(queued),
   known |-> EtaKnown,
   ahead |-> StatusView(running # NoJob, Len(queued))]

NoView == [state |-> "none", position |-> 0, ahead |-> 0, steps |-> 0]

\* Variant: the estimate leaves the running job out.
OwnViewWithoutRunning(j) ==
  IF j \in jobs
  THEN [state    |-> state[j],
        position |-> IF state[j] = "queued" THEN Position(j) ELSE 0,
        ahead    |-> IF state[j] = "queued" THEN Position(j) ELSE 0,
        steps    |-> steps[j]]
  ELSE NoView

\* JobView; ahead is how many average durations the estimate is made of, shown when
\* there is an average.  A job the map no longer holds leaves the frame without "you".
OwnView(j) ==
  IF j \in jobs
  THEN [state    |-> state[j],
        position |-> IF state[j] = "queued" THEN Position(j) ELSE 0,
        ahead    |-> IF state[j] = "queued" THEN Ahead(j) ELSE 0,
        steps    |-> steps[j]]
  ELSE NoView

LInit ==
  /\ Init
  /\ BInit
  /\ steps = [j \in Jobs |-> 0]
  /\ reporting = FALSE
  /\ viewer = [v \in Viewers |-> "away"]
  /\ watch = [v \in Viewers |-> NoJob]
  /\ frame = [v \in Viewers |-> [global |-> [busy |-> FALSE, len |-> 0, known |-> FALSE, ahead |-> 0], you |-> NoView]]
  /\ panel = [v \in Viewers |-> "waiting"]

-----------------------------------------------------------------------------
(* The queue's steps.  onChange is Publish. *)

QuietSubmit(j) ==
  /\ SubmitRegister(j) \/ SubmitSend(j) \/ SubmitFull(j) \/ SubmitRollback(j)
  /\ UNCHANGED <<tick, liveVars>>

AnnouncedSubmit(j) ==
  /\ SubmitAnnounce(j)
  /\ Publish
  /\ UNCHANGED liveVars

\* A job cannot end while its runner is inside a Progress call.
QuietWorker ==
  /\ \/ WorkerReceive
     \/ WorkerStop
     \/ WorkerBegin
     \/ ~reporting /\ \E outcome \in Outcomes : WorkerFinish(outcome)
  /\ UNCHANGED <<tick, liveVars>>

\* Variant: the end of a job is not announced.
AnnouncedWorkerStartOnly ==
  /\ \/ WorkerAnnounceStart /\ Publish
     \/ WorkerAnnounceEnd /\ UNCHANGED tick
  /\ UNCHANGED liveVars

AnnouncedWorker ==
  /\ WorkerAnnounceStart \/ WorkerAnnounceEnd
  /\ Publish
  /\ UNCHANGED liveVars

\* Progress.Plan, Append, Start, Done, Fail or Partial: the change, under the lock.
RunnerProgress ==
  /\ Up
  /\ worker = "running" /\ ~reporting
  /\ steps[held] < MaxSteps
  /\ steps' = [steps EXCEPT ![held] = @ + 1]
  /\ reporting' = TRUE
  /\ UNCHANGED <<vars, tick, viewer, watch, frame, panel>>

\* The onChange that ends each of them.
RunnerAnnounce ==
  /\ Up
  /\ reporting
  /\ reporting' = FALSE
  /\ Publish
  /\ UNCHANGED <<vars, steps, viewer, watch, frame, panel>>

\* backend.Monitor calls onChange after every poll, changed or not.
MonitorAnnounce ==
  /\ Up
  /\ Publish
  /\ UNCHANGED <<vars, liveVars>>

-----------------------------------------------------------------------------
(* handleEvents. *)

\* A page opens, or its EventSource reconnects: subscribe first, then the first
\* frame.  The page of a job exists once Submit took it; the others watch no job.
Connect(v) ==
  /\ Up
  /\ viewer[v] = "away"
  /\ Subscribe(v)
  /\ \E j \in {k \in Jobs : submit[k] = "accepted"} \cup {NoJob} :
       watch' = [watch EXCEPT ![v] = j]
  /\ viewer' = [viewer EXCEPT ![v] = "reading"]
  /\ UNCHANGED <<vars, steps, reporting, frame, panel>>

ReadSnapshot(v) ==
  /\ Up
  /\ viewer[v] = "reading"
  /\ frame' = [frame EXCEPT ![v].global = SnapshotView]
  /\ viewer' = [viewer EXCEPT ![v] = "readingOwn"]
  /\ UNCHANGED <<vars, tick, steps, reporting, watch, panel>>

\* The second read, and the frame goes out.
ReadOwn(v) ==
  /\ Up
  /\ viewer[v] = "readingOwn"
  /\ frame' = [frame EXCEPT ![v].you = OwnView(watch[v])]
  /\ viewer' = [viewer EXCEPT ![v] = "waiting"]
  /\ UNCHANGED <<vars, tick, steps, reporting, watch, panel>>

TakeTick(v) ==
  /\ Up
  /\ viewer[v] = "waiting"
  /\ Receive(v)
  /\ viewer' = [viewer EXCEPT ![v] = "reading"]
  /\ UNCHANGED <<vars, steps, reporting, watch, frame, panel>>

\* Variant: the script looks for done only.
CloseStreamDone(v) ==
  /\ Up
  /\ viewer[v] = "waiting" /\ frame[v].you.state = "done"
  /\ Unsubscribe(v)
  /\ viewer' = [viewer EXCEPT ![v] = "fetching"]
  /\ UNCHANGED <<vars, steps, reporting, watch, frame, panel>>

\* The script of the waiting card: a frame that says the job has ended closes the
\* stream, which runs the deferred cancel, and asks for the result.
CloseStream(v) ==
  /\ Up
  /\ viewer[v] = "waiting" /\ frame[v].you.state \in Outcomes
  /\ Unsubscribe(v)
  /\ viewer' = [viewer EXCEPT ![v] = "fetching"]
  /\ UNCHANGED <<vars, steps, reporting, watch, frame, panel>>

\* handleResult: the rows, the error, or "it may have expired" when the result was
\* evicted since the frame was read.
FetchResult(v) ==
  /\ Up
  /\ viewer[v] = "fetching"
  /\ viewer' = [viewer EXCEPT ![v] = "closed"]
  /\ panel' = [panel EXCEPT ![v] = IF watch[v] \in jobs THEN state[watch[v]] ELSE "expired"]
  /\ UNCHANGED <<vars, tick, steps, reporting, watch, frame>>

\* r.Context().Done(): the browser went away; the deferred cancel runs.
Leave(v) ==
  /\ Up
  /\ \/ viewer[v] = "waiting" /\ Unsubscribe(v)
     \/ viewer[v] = "closed" /\ UNCHANGED tick
  /\ viewer' = [viewer EXCEPT ![v] = "away"]
  /\ watch' = [watch EXCEPT ![v] = NoJob]
  /\ panel' = [panel EXCEPT ![v] = "waiting"]
  /\ UNCHANGED <<vars, steps, reporting, frame>>

Handler(v) == ReadSnapshot(v) \/ ReadOwn(v) \/ TakeTick(v) \/ CloseStream(v) \/ FetchResult(v)

LiveSubmit(j) == QuietSubmit(j) \/ AnnouncedSubmit(j)
LiveWorker    == QuietWorker \/ AnnouncedWorker \/ RunnerProgress \/ RunnerAnnounce

LNext ==
  \/ \E j \in Jobs : LiveSubmit(j)
  \/ LiveWorker
  \/ MonitorAnnounce
  \/ (Cancel \/ Exit) /\ UNCHANGED <<tick, liveVars>>
  \/ \E v \in Viewers : Connect(v) \/ Handler(v) \/ Leave(v)

LSpec == LInit /\ [][LNext]_allVars

\* The goroutines of the queue and the handlers run on, and a page's script runs when
\* a frame arrives; nothing makes a browser come or go, and no property may lean on
\* the monitor's polls.  Once the page has closed its stream the handler's select has
\* both a tick and the end of the context to choose from and chooses at random, which
\* cannot go against the end for ever: strong fairness.
LFairSpec ==
  /\ LSpec
  /\ \A j \in Jobs : WF_allVars(LiveSubmit(j) /\ submit[j] # "idle")
  /\ WF_allVars(LiveWorker)
  /\ \A v \in Viewers : WF_allVars(Handler(v)) /\ SF_allVars(CloseStream(v))

-----------------------------------------------------------------------------
(* Properties. *)

\* Somebody changed the queue and owes the announcement.
AnnouncementOwed ==
  \/ \E j \in Jobs : submit[j] \in {"sending", "rejecting", "announcing"}
  \/ worker \in {"starting", "finishing"}
  \/ reporting

\* The page has nothing coming: no tick, no frame under way, no announcement owed.
Settled(v) == viewer[v] = "waiting" /\ tick[v] # "pending" /\ ~AnnouncementOwed

\* "losing a duplicate is harmless" (sse.go:37-39): a coalesced tick never hides
\* a change of the watched job.  A settled page shows the state and the plan the
\* job has now, whether the worker is busy, and whether there is an estimate.
SettledPageCurrent ==
  \A v \in Viewers : Settled(v) =>
    /\ frame[v].global.busy = (running # NoJob)
    /\ frame[v].global.known = EtaKnown
    /\ frame[v].you.state = OwnView(watch[v]).state
    /\ frame[v].you.steps = OwnView(watch[v]).steps

\* "queue position/status and ETA always truthful and live" (PRD.md:386), as far as
\* it goes: a settled page may overstate the line (a refused Submit is not announced),
\* but never shows the line, the viewer's own place in it, or the number of jobs its
\* two estimates are made of, shorter than it is.
LineNotUnderstated ==
  \A v \in Viewers : Settled(v) =>
    /\ frame[v].global.len >= Len(queued)
    /\ frame[v].you.position >= OwnView(watch[v]).position
    /\ frame[v].global.ahead >= Len(queued) + Cardinality(ToSetOf(running))
    /\ frame[v].you.state = "queued" => frame[v].you.ahead >= Ahead(watch[v])

\* An open page gets to its result: how its own job ended, unless the browser leaves,
\* the result is evicted first, or the process goes.
EndIsShown ==
  \A v \in Viewers, j \in Jobs :
    (watch[v] = j /\ state[j] \in Outcomes) ~>
      \/ watch[v] # j
      \/ panel[v] = state[j]
      \/ j \notin jobs
      \/ ~Up
=============================================================================
