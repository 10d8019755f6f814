------------------------------ MODULE JobQueue ------------------------------
(***************************************************************************)
(* The job queue of qa-core (internal/queue/queue.go): concurrent Submit    *)
(* calls, a buffered channel, and one worker goroutine.                     *)
(*                                                                          *)
(* One action stands for what the code does between two points where        *)
(* another goroutine can get in: a critical section of Manager.mu, a        *)
(* channel operation, or a call of onChange.  Submit registers a job under  *)
(* the lock, releases it, and only then tries the channel; runOne receives  *)
(* first and takes the lock afterwards.  Those gaps are the subject here.   *)
(*                                                                          *)
(* Abstracted: the request, the kind (it selects one of three runners with  *)
(* the same interface), times, the step plan, and why a runner failed.      *)
(***************************************************************************)
EXTENDS Naturals, FiniteSets, SequencesExt

CONSTANTS
  Jobs,       \* one element per Submit call; newID's 72 random bits make ids distinct
  NoJob,      \* the nil *Job
  Buffer,     \* Config.Buffer, the channel's capacity
  Retain,     \* Config.Retain, finished jobs kept
  Clients     \* bound on Submit calls between their first lock and their channel attempt

ASSUME ConstantsAssumption ==
  /\ NoJob \notin Jobs
  /\ IsFiniteSet(Jobs)
  /\ Buffer \in Nat \ {0}    \* New replaces values below 1
  /\ Retain \in Nat \ {0}
  /\ Clients \in Nat \ {0}

VARIABLES
  jobs,       \* keys of Manager.jobs
  state,      \* Job.State of each job, "none" before Submit builds it
  queued,     \* Manager.queued
  ch,         \* contents of the channel
  running,    \* Manager.running
  finished,   \* Manager.finished
  submit,     \* where each Submit call stands
  worker,     \* where the worker goroutine stands
  held,       \* the job the worker received last
  ctx         \* the process context: live, cancelled by a signal, process gone

vars == <<jobs, state, queued, ch, running, finished, submit, worker, held, ctx>>

SubmitPoints == {"idle", "sending", "rejecting", "announcing", "accepted", "rejected"}
WorkerPoints == {"selecting", "received", "starting", "running", "finishing", "stopped"}
Outcomes     == {"done", "failed"}
States       == {"none", "queued", "running"} \cup Outcomes

\* Jobs whose Submit has registered them and not yet learnt what the channel said.
InFlight == {j \in Jobs : submit[j] \in {"sending", "rejecting"}}

Up == ctx # "exited"

-----------------------------------------------------------------------------
(* What the code computes from the bookkeeping. *)

\* removeID: the ids are distinct, the first occurrence is the only one.
removeID(s, id) == RemoveFirst(s, id)

\* Variants, here and below, are plausible mistakes in the code that no
\* specification uses; each is there to be caught by a property.
EvictedNone(f)    == {}
EvictedNewest(f)  == {f[i] : i \in (Retain + 1) .. Len(f)}

\* evictLocked: the finished list after dropping the oldest beyond the cap, and what it drops.
Kept(f)    == IF Len(f) > Retain THEN SubSeq(f, Len(f) - Retain + 1, Len(f)) ELSE f
Evicted(f) == {f[i] : i \in 1 .. (Len(f) - Retain)}

\* indexOf + 1: the 1-based place JobView shows a queued job; 0 when it is not in line.
Position(j) == SelectInSeq(queued, LAMBDA id : id = j)

\* The number of job durations JobView multiplies the average by.
Ahead(j) == Position(j) + (IF running # NoJob THEN 1 ELSE 0)

-----------------------------------------------------------------------------
Init ==
  /\ jobs = {}
  /\ state = [j \in Jobs |-> "none"]
  /\ queued = <<>>
  /\ ch = <<>>
  /\ running = NoJob
  /\ finished = <<>>
  /\ submit = [j \in Jobs |-> "idle"]
  /\ worker = "selecting"
  /\ held = NoJob
  /\ ctx = "live"

(* Submit, called from any number of request handlers at once. *)

\* Variant: the newcomer is put in front.
SubmitRegisterInFront(j) ==
  /\ Up
  /\ submit[j] = "idle"
  /\ Cardinality(InFlight) < Clients
  /\ jobs' = jobs \cup {j}
  /\ state' = [state EXCEPT ![j] = "queued"]
  /\ queued' = <<j>> \o queued
  /\ submit' = [submit EXCEPT ![j] = "sending"]
  /\ UNCHANGED <<ch, running, finished, worker, held, ctx>>

\* The job is built and entered in both indexes under the lock.
SubmitRegister(j) ==
  /\ Up
  /\ submit[j] = "idle"
  /\ Cardinality(InFlight) < Clients
  /\ jobs' = jobs \cup {j}
  /\ state' = [state EXCEPT ![j] = "queued"]
  /\ queued' = Append(queued, j)
  /\ submit' = [submit EXCEPT ![j] = "sending"]
  /\ UNCHANGED <<ch, running, finished, worker, held, ctx>>

\* Variant: the channel takes whatever comes.
SubmitSendUnbounded(j) ==
  /\ Up
  /\ submit[j] = "sending"
  /\ ch' = Append(ch, j)
  /\ submit' = [submit EXCEPT ![j] = "announcing"]
  /\ UNCHANGED <<jobs, state, queued, running, finished, worker, held, ctx>>

\* select { case ch <- job: ... } with room in the channel.
SubmitSend(j) ==
  /\ Up
  /\ submit[j] = "sending"
  /\ Len(ch) < Buffer
  /\ ch' = Append(ch, j)
  /\ submit' = [submit EXCEPT ![j] = "announcing"]
  /\ UNCHANGED <<jobs, state, queued, running, finished, worker, held, ctx>>

\* Variant: the job is handed over after all, and still reported as refused.
SubmitFullHandsOver(j) ==
  /\ Up
  /\ submit[j] = "sending"
  /\ Len(ch) >= Buffer
  /\ ch' = Append(ch, j)
  /\ submit' = [submit EXCEPT ![j] = "rejecting"]
  /\ UNCHANGED <<jobs, state, queued, running, finished, worker, held, ctx>>

\* select { default: ... }: the channel is full at the one moment Submit looks.
SubmitFull(j) ==
  /\ Up
  /\ submit[j] = "sending"
  /\ Len(ch) >= Buffer
  /\ submit' = [submit EXCEPT ![j] = "rejecting"]
  /\ UNCHANGED <<jobs, state, queued, ch, running, finished, worker, held, ctx>>

\* Variant: the rollback marks the job, with a state of its own.
SubmitRollbackMarks(j) ==
  /\ Up
  /\ submit[j] = "rejecting"
  /\ jobs' = jobs \ {j}
  /\ queued' = removeID(queued, j)
  /\ state' = [state EXCEPT ![j] = "rejected"]
  /\ submit' = [submit EXCEPT ![j] = "rejected"]
  /\ UNCHANGED <<ch, running, finished, worker, held, ctx>>

\* Variant: the rollback forgets the line.
SubmitRollbackHalf(j) ==
  /\ Up
  /\ submit[j] = "rejecting"
  /\ jobs' = jobs \ {j}
  /\ submit' = [submit EXCEPT ![j] = "rejected"]
  /\ UNCHANGED <<state, queued, ch, running, finished, worker, held, ctx>>

\* The rollback, in a critical section of its own.
SubmitRollback(j) ==
  /\ Up
  /\ submit[j] = "rejecting"
  /\ jobs' = jobs \ {j}
  /\ queued' = removeID(queued, j)
  /\ submit' = [submit EXCEPT ![j] = "rejected"]
  /\ UNCHANGED <<state, ch, running, finished, worker, held, ctx>>

\* onChange after a successful send; Submit returns.
SubmitAnnounce(j) ==
  /\ Up
  /\ submit[j] = "announcing"
  /\ submit' = [submit EXCEPT ![j] = "accepted"]
  /\ UNCHANGED <<jobs, state, queued, ch, running, finished, worker, held, ctx>>

-----------------------------------------------------------------------------
(* worker and runOne, the single consumer. *)

\* Variant: the newest job is served first.
WorkerReceiveNewest ==
  /\ Up
  /\ worker = "selecting"
  /\ ch # <<>>
  /\ held' = Last(ch)
  /\ ch' = Front(ch)
  /\ worker' = "received"
  /\ UNCHANGED <<jobs, state, queued, running, finished, submit, ctx>>

\* case job := <-m.ch.  Go picks at random when ctx.Done is ready too, so a
\* cancelled context does not disable this.
WorkerReceive ==
  /\ Up
  /\ worker = "selecting"
  /\ ch # <<>>
  /\ held' = Head(ch)
  /\ ch' = Tail(ch)
  /\ worker' = "received"
  /\ UNCHANGED <<jobs, state, queued, running, finished, submit, ctx>>

\* Variant: the select has no ctx.Done case.
WorkerStopNever == worker = "selecting" /\ ctx = "cancelled" /\ UNCHANGED vars

\* case <-ctx.Done().
WorkerStop ==
  /\ Up
  /\ worker = "selecting"
  /\ ctx = "cancelled"
  /\ worker' = "stopped"
  /\ UNCHANGED <<jobs, state, queued, ch, running, finished, submit, held, ctx>>

\* Variant: the started job stays in line.
WorkerBeginStays ==
  /\ Up
  /\ worker = "received"
  /\ state' = [state EXCEPT ![held] = "running"]
  /\ running' = held
  /\ worker' = "starting"
  /\ UNCHANGED <<jobs, queued, ch, finished, submit, held, ctx>>

\* runOne's first critical section.
WorkerBegin ==
  /\ Up
  /\ worker = "received"
  /\ state' = [state EXCEPT ![held] = "running"]
  /\ queued' = removeID(queued, held)
  /\ running' = held
  /\ worker' = "starting"
  /\ UNCHANGED <<jobs, ch, finished, submit, held, ctx>>

\* onChange, then the runner is chosen and called.
WorkerAnnounceStart ==
  /\ Up
  /\ worker = "starting"
  /\ worker' = "running"
  /\ UNCHANGED <<jobs, state, queued, ch, running, finished, submit, held, ctx>>

\* The runner returned (by itself, or because jobCtx expired or was cancelled,
\* after which it may report either outcome); runOne's second critical section.
WorkerFinish(outcome) ==
  LET all == Append(finished, held)
  IN  /\ Up
      /\ worker = "running"
      /\ state' = [state EXCEPT ![held] = outcome]
      /\ running' = NoJob
      /\ finished' = Kept(all)
      /\ jobs' = jobs \ Evicted(all)
      /\ worker' = "finishing"
      /\ UNCHANGED <<queued, ch, submit, held, ctx>>

\* onChange after the job ended; back to the select.
WorkerAnnounceEnd ==
  /\ Up
  /\ worker = "finishing"
  /\ worker' = "selecting"
  /\ UNCHANGED <<jobs, state, queued, ch, running, finished, submit, held, ctx>>

-----------------------------------------------------------------------------
(* main: a signal cancels the context; the process leaves after the HTTP     *)
(* server shut down, without waiting for the worker.                         *)

Cancel ==
  /\ ctx = "live"
  /\ ctx' = "cancelled"
  /\ UNCHANGED <<jobs, state, queued, ch, running, finished, submit, worker, held>>

Exit ==
  /\ ctx = "cancelled"
  /\ ctx' = "exited"
  /\ UNCHANGED <<jobs, state, queued, ch, running, finished, submit, worker, held>>

Submit(j) ==
  \/ SubmitRegister(j)
  \/ SubmitSend(j)
  \/ SubmitFull(j)
  \/ SubmitRollback(j)
  \/ SubmitAnnounce(j)

Worker ==
  \/ WorkerReceive
  \/ WorkerStop
  \/ WorkerBegin
  \/ WorkerAnnounceStart
  \/ \E outcome \in Outcomes : WorkerFinish(outcome)
  \/ WorkerAnnounceEnd

Next ==
  \/ \E j \in Jobs : Submit(j)
  \/ Worker
  \/ Cancel
  \/ Exit

Spec == Init /\ [][Next]_vars

\* A Submit that started keeps going and the worker goroutine keeps being
\* scheduled; every runner call ends because jobCtx carries GenTimeout.  Nobody
\* has to submit, and nobody has to stop the process.
FairSpec ==
  /\ Spec
  /\ \A j \in Jobs : WF_vars(Submit(j) /\ submit[j] # "idle")
  /\ WF_vars(Worker)
-----------------------------------------------------------------------------
(* Safety. *)

ToSetOf(j) == IF j = NoJob THEN {} ELSE {j}

\* Received from the channel, runOne's lock not taken yet: the job is in no
\* structure but Manager.queued.
InHand == IF worker = "received" THEN {held} ELSE {}

\* Every variable has its type.
TypeOK ==
  /\ jobs \in SUBSET Jobs
  /\ state \in [Jobs -> States]
  /\ queued \in Seq(Jobs)
  /\ ch \in Seq(Jobs)
  /\ running \in Jobs \cup {NoJob}
  /\ finished \in Seq(Jobs)
  /\ submit \in [Jobs -> SubmitPoints]
  /\ worker \in WorkerPoints
  /\ held \in Jobs \cup {NoJob}
  /\ ctx \in {"live", "cancelled", "exited"}

NoRepeats(s) == \A i, k \in DOMAIN s : s[i] = s[k] => i = k

\* The line shown to everybody (Snapshot.QueueLen, JobView.Position) holds, once
\* each, the jobs in the channel, the one in the worker's hand, and those whose
\* Submit has not heard from the channel yet, which may still be refused.
LineAccounted ==
  /\ NoRepeats(queued) /\ NoRepeats(ch)
  /\ ToSet(queued) = InFlight \cup ToSet(ch) \cup InHand
  /\ InFlight \cap ToSet(ch) = {}
  /\ InHand \cap (InFlight \cup ToSet(ch)) = {}

\* Manager.jobs holds exactly the jobs in line, the running one and the retained
\* finished ones, and none of them twice: no lookup fails for a live job, and no
\* refused or evicted job stays behind in memory.
MapAccounted ==
  /\ NoRepeats(finished)
  /\ jobs = ToSet(queued) \cup ToSetOf(running) \cup ToSet(finished)
  /\ ToSet(queued) \cap (ToSetOf(running) \cup ToSet(finished)) = {}
  /\ running \notin ToSet(finished)

\* A job's own State agrees with where the manager keeps it: a registered job
\* is queued exactly while it is in line (so JobView's position is never 0 for
\* it), running exactly while it is Manager.running, and ended once in finished.
StateAgrees ==
  \A j \in jobs :
    /\ state[j] = "queued" <=> j \in ToSet(queued)
    /\ state[j] = "running" <=> j = running
    /\ state[j] \in Outcomes <=> j \in ToSet(finished)

\* "the single worker never runs two jobs concurrently" (queue_test.go:15-16),
\* over every job ever submitted, evicted and refused ones included.
OneAtATime == {j \in Jobs : state[j] = "running"} = ToSetOf(running)

\* A job whose Submit has not heard from the channel, or was told that it is full,
\* has not started and is not on its way to the worker; one on its way to the
\* worker has not started and is not going to be refused.
SubmitAgrees ==
  \A j \in Jobs :
    /\ state[j] = "none" <=> submit[j] = "idle"
    /\ submit[j] \in {"sending", "rejecting", "rejected"} => state[j] = "queued"
    /\ j \in ToSet(ch) \cup InHand =>
         state[j] = "queued" /\ submit[j] \in {"announcing", "accepted"}

\* "backpressure instead of unbounded memory growth" (queue.go:144-145): besides the
\* retained results the map holds no more than a full channel, one job with the worker,
\* and the Submits that overlap at that moment; a job that was refused, however often
\* that happened, leaves no room taken.
MemoryBounded ==
  /\ Cardinality(jobs \ ToSet(finished)) <= Buffer + 1 + Cardinality(InFlight)
  /\ Len(queued) <= Buffer + 1 + Cardinality(InFlight)
  /\ Len(finished) <= Retain

(* What a step may never do. *)

\* A job only moves forward, and a refused one never starts; an outcome is final.
Advances(j) ==
  \/ state[j] = "none" /\ state'[j] = "queued"
  \/ state[j] = "queued" /\ state'[j] = "running" /\ submit[j] \notin {"rejecting", "rejected"}
  \/ state[j] = "running" /\ state'[j] \in Outcomes
OnlyAdvances == [][\A j \in Jobs : state'[j] = state[j] \/ Advances(j)]_vars

\* A job leaves the map only by its own rollback, or as the longest-finished job
\* once Retain others have ended after it: nobody's running or queued job and no
\* fresher result is ever dropped to make room.
OnlyOldestEvicted ==
  [][\A j \in jobs \ jobs' :
       \/ submit[j] = "rejecting"
       \/ Len(finished) = Retain /\ j = Head(finished)]_vars

\* The worker starts the job shown first in line.
ServedFromTheFront ==
  [][running' # running /\ running' # NoJob =>
       queued # <<>> /\ running' = Head(queued)]_vars

\* While a job waits, the number of job durations its ETA is made of only ever grows
\* when the worker starts a job shown behind it, whose Submit overlapped.
AheadNeverGrows ==
  [][\A j \in ToSet(queued) \cap ToSet(queued') :
       \/ Ahead(j)' <= Ahead(j)
       \/ running' \in ToSet(queued) /\ Position(j) < Position(running')]_vars

(* Liveness. *)

\* No goroutine is stuck: every Submit that started returns, with the job or with
\* ErrQueueFull, and the worker "returns when ctx is cancelled (graceful shutdown)"
\* (queue.go:199-200), although its select may prefer the channel while jobs wait.
GoroutinesReturn ==
  /\ \A j \in Jobs : submit[j] = "sending" ~> submit[j] \in {"accepted", "rejected"} \/ ~Up
  /\ ctx = "cancelled" ~> worker = "stopped" \/ ~Up
=============================================================================
