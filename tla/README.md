# Verification of the QA test-case generator

This directory models qa-core and qa-ai, the two services of this repository, in TLA+.
TLC checks the models on small instances; TLAPS proves what matters most for every
instance. `PROJECT.json` maps each definition to the lines it models and lists the runs,
the theorems, the hazards of the code and the findings.

To run a check: `tlc -config queue.cfg MCJobQueue` (the run's module is in `PROJECT.json`).
To check the proofs: `tlapm JobQueueProofs.tla`, and likewise `LiveStatusProofs`,
`GenPipelineProofs`, `MomFilesProofs`, `StageCallProofs`, `ReviewFlowProofs`, `SettingsProofs`
and the lemmas they share, `DataLemmas`.

Paths below are relative to `src/services/`; `queue.go:219` and the like name files that
are unique in the repository.

## 1. The system

A browser posts a requirement, or a recording of a meeting, to **qa-core**. It becomes a
job in a FIFO queue with one worker. The worker calls **qa-ai** once per stage, qa-ai calls
**Ollama** (or ffmpeg and whisper.cpp). Every change of a job or of the backend is
announced to the browsers over an event stream; a page follows its job and asks for the
result when told that it has ended.

### Inventory

| Component | State | Operations | Talks to | What is hard |
|---|---|---|---|---|
| Job queue `queue.go` | map of jobs, line shown, channel, running job, finished list | Submit (three steps), receive, begin, finish, evict, snapshot | runners; `onChange` to the broadcaster | Submit and the worker interleave between the lock and the channel; rollback of a refused job; eviction; shutdown |
| Step progress `queue.go:66-142` | a job's checklist and partial result | Plan, Append, Start, Done, Fail, Partial | page through `jobView` | read between any two calls; failed steps |
| Broadcaster `sse.go` | one capacity-1 channel per viewer | Subscribe, Publish, cancel | event-stream handlers | a full channel drops the tick |
| Live status, result page `handlers.go:232-333`, `waiting.html` | the frame last written, the stream | connect, two reads, tick, leave, fetch | queue, broadcaster | frame from two critical sections; change and announcement are two steps; eviction before the page looks |
| ETA tracker `eta.go` | last 20 durations | Record, Average | queue | only done jobs are recorded |
| Batched generation `orchestrator.go` | local result, cases, step plan | one stage call after the other | qa-ai, Progress | any stage may fail, the job's deadline may pass anywhere, numbering while published |
| Coverage and score `coverage.go`; exports `rtm.go`, `common.go`, `csv.go`, `jira.go`; score clamp `scoring.go` | none | pure functions | generation, result page, downloads | copies that must agree; ids and severities written in several ways; bounds of the scores |
| Minutes runner `momorch.go` | working directory, transcript, chunks, partials | nine places to return from, two deferred removals | qa-ai, Progress | files against every exit and crash; windows of words |
| Audio upload `web/mom.go` | temporary audio file | save, submit, drop | queue, runner | file outlives the request; ownership passes from handler to runner |
| Transcription `qa-ai httpapi/mom.go`, `transcribe.go` | copy of the audio | save, transcribe, remove | ffmpeg, whisper.cpp | outlives a caller that timed out |
| Warmup `bootstrap.go`, `readiness.go` | readiness, pull percentage | health, model, pull, retry | Ollama | retries without end; never taken back |
| Gate and JSON loops `server.go`, `stage.go`, `qa-ai mom.go`, `generate.go` | the attempt, the decoded value | gate, chat, decode, reject, map errors | readiness, Ollama | retry budget inside nested time limits |
| Backend monitor, header `backend.go`, `view.go:130-151` | last status | poll (fetch, then store) | qa-ai's `/healthz`, broadcaster | a value fetched and stored in two steps |
| Clients `aiclient`, `ollama` | none | HTTP calls with time limits | qa-ai, Ollama | how a failure is told |
| Wiring `qa-core/main.go`, `qa-ai/main.go` | signal context | boot sweep, shutdown | all | main does not wait for the worker |
| Form vocabularies `options.go` | memory, JSON file | load, get, set | settings page | memory and file in two steps |
| Validation run, review page, form `handlers.go:205-279, 405-481`, `main.go:143-160`, `validation.html` | the rows on each page; the job's request and result | submit, edit, generate, ask for the result, download | queue, result page | the handler reads a job without its lock; parallel arrays; a restart or an eviction under an open page |
| Access gate `access.go` | a cookie in the browser | grant, revoke, check | every handler | a page that outlives its cookie |
| Prompts, platform figures, contracts, templates | none or constants | | | see section 5 |

### What makes each correct

- *Queue*: line, map, channel and states tell the same story in every state; at most one job
  runs; refused jobs never run; only the oldest result is forgotten; served in FIFO order;
  nobody waits for ever.
- *Progress and generation*: a checklist a page can follow; rows once shown stay; nothing is
  dropped silently; one failing stage does not sink the job.
- *Coverage and exports*: score, matrix, summary, exported matrix and issues count the same gaps;
  no exported row understates the criteria it stands for; both services give one score.
- *Review flow*: each tab gets a suite for its own requirement made of exactly the rows left on it;
  a page told of the end gets a whole page.
- *Live status*: a page with nothing more to come shows the truth, and gets to its result.
- *Minutes*: every word of the recording reaches the minutes; no file stays behind.
- *qa-ai*: only a ready process asks the model; callers are told what happened; the warmup
  gets there; the header settles on the truth.

## 2. Modules

| Module | Models | Remarks |
|---|---|---|
| `JobQueue` | `queue.go` Submit, worker, runOne, eviction; the signal in `main.go` | one action per critical section, channel operation or `onChange` |
| `FifoService` | what the queue promises | abstract: accept, refuse, serve, complete, close |
| `MCJobQueue` | | refinement mapping to `FifoService` |
| `Broadcaster` | `sse.go` | one action per operation; each holds the lock throughout |
| `LiveStatus` | `handlers.go` event stream and result, the waiting card's script, ETA of `JobView` | composes `JobQueue` and `Broadcaster`: onChange is Publish |
| `Lists` | two loops: keep some elements, add up | folds, for the modules on lists below |
| `Progress` | the checklist and the label `jobView` takes from it | operators shared by the two runners |
| `StepPlan` | what a runner promises the page | abstract: lay, extend, begin, settle, finish |
| `Coverage` | `coverage.go`, `rtm.go` | pure operators, folds instead of recursion |
| `Exports` | severity, priority and rows of `common.go`, `csv.go`, `jira.go` | pure operators |
| `Scoring` | qa-ai's `scoring.go` | pure operators |
| `GenPipeline` | `orchestrator.go` Run | one action per Progress call with the work up to the next; composes `Progress`, `Coverage`, `Exports` and `Scoring`, refines `StepPlan` |
| `MCGenPipeline` | | what the model may answer; curated criteria come through `ReviewForm` |
| `ReviewForm` | `parseCuratedACs` and the form's arrays | pure operators |
| `ReviewFlow` | submission, the served job's end, `handleResult`, the review page, the gate, a restart | composes `ReviewForm` with `FifoService`, which the queue is proved to implement |
| `MCReviewFlow` | | rows an analysis may propose, symmetry |
| `Chunks` | `chunkText` | a recursive function |
| `MomFiles` | upload handler, `momorch.run`, qa-ai's transcription handler, both processes' deaths | composes `Progress`, `Chunks`, and the queue reduced to the FIFO line it is shown to implement |
| `Warmup` | `bootstrap.go`, `readiness.go`, the monitor and the header | Ollama is external |
| `StageCall` | a call from the worker through gate and JSON loop to Ollama and back | composes with `Warmup` |
| `Settings`, `MCSettings` | `options.go`, the settings page's save | memory and file in separate steps; a file is its start and its length |
| `JobQueueProofs`, `LiveStatusProofs`, `GenPipelineProofs`, `MomFilesProofs`, `StageCallProofs`, `ReviewFlowProofs`, `SettingsProofs` | | theorems |
| `DataLemmas` | | lemmas on numbers, folds and lists that the proofs share |

Definitions named "Variant" in a comment are plausible mistakes in the definition that
follows them. No specification uses them. Each is there to show that some property would
notice: put in the place of the original, it makes the property fail in its own run.

### How state and actions correspond to the code

**JobQueue.** `jobs`, `queued`, `ch`, `running`, `finished` are the fields of `Manager`;
`state` is `Job.State`; `submit[j]` and `worker` say between which two statements each
goroutine is; `held` is the worker's local job. Submit is `SubmitRegister` (first lock),
`SubmitSend` or `SubmitFull` (the select), `SubmitRollback` (second lock) or
`SubmitAnnounce` (`onChange`). The worker is `WorkerReceive` / `WorkerStop` (the select, in
which Go chooses at random when both are ready), `WorkerBegin` (lock), `WorkerAnnounceStart`,
`WorkerFinish` (lock, eviction included), `WorkerAnnounceEnd`. `ctx` is the signal context;
`Exit` may come at any time after it because main does not wait for the worker.

**LiveStatus.** `steps` counts the changes a runner made to its job's plan, `reporting` is
true between such a change and its `onChange`. A frame is read in two steps, `ReadSnapshot`
and `ReadOwn`. `ahead` is the number of average durations an estimate adds up. `CloseStream`
and `FetchResult` are the script of the waiting card and `handleResult`.

**GenPipeline.** `at` is where Run stands, `plan` the job's checklist, `partial` what a page
reads through `Progress.Partial`, `result` the runner's own value. A test case is its number,
its type as written and the ids it says it covers; an id is a name and a form (exact, another
case, blanks around), because the comparison tells just these apart.

**MomFiles.** `life[u]` is an upload from the request to its end, `audio`, `dirs` and `copies`
are the files on the two disks, `runner` is where `momorch.run` stands, `ears[u]` where the
handler of its transcription in qa-ai is. `Crash` covers a kill, a panic, a power cut and an
orderly stop: what was in memory is gone, what was on disk stays.

**ReviewFlow.** `view[t]` is what a tab shows, `about[t]` the job its page is about, `rows[t]` the
criteria on it and `left[t]` those that were on it when it was sent. `request` and `result` are
`Job.Req` and `Job.Result`. The queue is `FifoService` except for the end of a job: `WriteState` and
`WriteResult` are the two assignments of `runOne` (queue.go:275, 276) under the lock, with `writing`
the state written so far, because `handleResult` reads both without the lock, in `ReadState` and
`ReadResult`. Whatever takes the lock (Submit, a frame, Get) waits for `writing = "no"`. `led[t]` tells a
request that the waiting card's script made because a frame said the job had ended (`Lead`) from one
that was made by opening the address (`Peek`). `Restart` forgets all that was in memory and leaves the
open pages.

**Settings.** `cur` is `Store.cur`; `file` is the list written at its start and the length of what is
there, so that a shorter list over a longer one does not parse; `save[s]` is where each request is.
`troubled` is a history variable: saves overlapped, failed or were cut since the last undisturbed one
began.

**Warmup and StageCall.** `rd` is `Readiness`, `warm` where `Warm` stands, `poll` what the
monitor has fetched and not stored, `cur` what every header shows. `at[c]` is where the
handler of a call is, `got[c]` what its caller knows: the two part when the caller times out.
`parts[c]` are the attempts whose output has gone into the value to be returned. A model
output is usable, without JSON, undecodable or incomplete. Time is `age` (of the chat) and
`spent` (of the caller), both capped by their limits; it passes only while a chat runs, and the gate and
a refusal take none.

## 3. Runs

| Run | Asks | Instance | Distinct states |
|---|---|---|---|
| `queue` | Do line, map, channel, running job and states agree in every state? Is memory bounded, is only the oldest result dropped? Does the queue implement `FifoService`? Does every Submit return, and the worker when told? | four jobs, two Submits at once, channel of 2, 1 retained | 402,933 |
| `live_status` | Does a page with nothing more to come show the truth? Does it get to its result? | two jobs, channel of 1, 1 retained, one viewer, one plan change per job | 445,925 |
| `gen_pipeline` | Generation with any mix of failing stages and the deadline anywhere | five analyses of up to three criteria, cap of two, four answers, four assessments | 14,748 |
| `review_flow` | Does each tab get the suite of its own rows? Does a page told of the end get one? | two tabs, three submissions, two edits, 1 retained, one restart | 2,616,852 (symmetry) |
| `mom_files` | Files and words of two uploads over failures and deaths of either process | line of 1, transcripts of 0, 3, 5, 6 words in windows of 3 with 1 repeated, three starts | 96,022 |
| `ai_service` | qa-ai from boot to answer | two calls (one of the minutes), two attempts of 1 in a limit of 2, one fault | 227,760 |
| `settings` | Are the form's choices usable whatever the file holds, and does an undisturbed save survive a restart? | three saves that may overlap, lists from empty to longer than the defaults, three starts | 35,729 (symmetry) |

Five runs end in the violation of what a document or comment says (section 6):
`queue_overlap`, `step_label`, `mom_orphans`, `header_offline`, `half_written`.

### Properties

- **queue.** `LineAccounted`: the line shown is, once each, the channel, the job in the worker's hand
  and the Submits that may still be refused. `MapAccounted`: the map is the line, the running job and
  the retained results. `StateAgrees`, `SubmitAgrees` (a refused job never reaches the worker),
  `MemoryBounded` (the line, and the map without the results, hold no more than the channel, the
  worker's hand and the Submits in flight); action properties `OnlyOldestEvicted`, `AheadNeverGrows` (a wait grows only when the
  worker starts a job shown behind, whose Submit overlapped; either may be an accepted job). `ImplementsFifo`: strict FIFO in the order
  in which the *channel* took the jobs, with the liveness of `FifoService`: an accepted job ends unless
  the process is told to stop. `GoroutinesReturn`: every Submit, and the worker when told.
- **live_status.** `SettledPageCurrent`: a dropped tick never hides a change of the watched job.
  `LineNotUnderstated`: a settled page may show the line longer than it is, because a rollback
  is not announced, but not shorter, and neither estimate is made of fewer jobs than are ahead.
  `EndIsShown`: an open page gets to its job's outcome, unless the result is evicted first.
- **gen_pipeline.** `RowsTraced`, `RowsOnlyGrow` (rows once shown keep number and content),
  `NoSilentTruncation` (each criterion had a batch or is counted as capped), `FailsOnlyEmpty`,
  `CoverageAgrees` (matrix, summary, score and exported matrix count the same gaps and list the same
  cases; a case's issue for Jira names the summaries of the stories of the criteria it is listed under:
  stories of one summary are one link, and one with a blank summary is none), `RatingHonest` ("Fully Covered" has no gap and has negative and edge cases, and qa-ai's
  policy gives qa-core's score), `SeverityFollowsCriteria` (a derived severity is not below that of a
  criterion the case is listed under), `ImplementsStepPlan`, `RunEnds`.
- **review_flow.** `OwnResult`, which is `OwnPage` (a page shows, and a download has, what the tab's own
  requirement got) and `ExactlyThisList` (the suite is made of the rows left, in their order, with their
  severities, numbered without a gap). `LedPageWhole`: a request that a frame led to never meets the
  half-written end of a job. `RTypeOK`.
- **mom_files.** `WorkDirFlat` (after a sweep at most one working directory), `OverIsClean`,
  `AudioOutlivesRequest`, `MinutesComplete` (all words reach the consolidation, in windows that
  overlap as they should), `AudioRemoved` (liveness, on both disks).
- **ai_service.** `OnlyReadyServes`, `OutcomeHonest` (422 after exactly 1 + MaxRetries rejected
  outputs; a failed chat spends no attempt; the value of a stage comes from one output; a caller gives
  up no earlier than its chats, each within its limit, fill the limit of the call),
  `HeaderSettles`, `WarmupEnds`, `CallsEnd`.
- **settings.** `VTypeOK` (what every form shows is non-empty, trimmed and without repetitions, after a
  wiped form, a file edited by hand or one left in pieces), `RestartKeeps` (a save that nothing
  overlapped, cut or failed is what a restart brings back, whatever was on disk before).

### Bounds, and why they are enough

- *Jobs, Buffer, Retain, Clients.* Four jobs on a channel of two: a job is refused while the worker holds
  another and two wait, the two wait in an order that FIFO is about, two Submits send in another order
  than they registered, and one result evicts another. `Clients` bounds Submits between their lock and
  their send, not their number; a third at once adds no new pair of neighbouring steps (three jobs
  submitted all at once hold as well, 21,524 states). Four jobs meet both bounds of `MemoryBounded`
  exactly, with one Submit in flight, and would pass them if the channel took the fourth. The bound in
  figures of the configuration alone needs more jobs; it is `MapStaysBounded`, proved for any numbers.
- *MaxSteps, Viewers.* Viewers share nothing but the broadcaster, which treats each alone, so one
  viewer sees all that one can see; one plan change per job is enough to have it land between any
  two steps of the handler. Two jobs with one retained make an eviction.
- *Answers of the model.* Chosen by what the code tells apart: covers forgotten, own, foreign and
  unknown; ids exact, in another case, padded; each branch of `normType`; severities of every
  deduction and one unknown; two criteria with one id, two with one description, one with none; marks set and left out; sums below zero, and a
  deduction with its sign slipped.
- *MaxACBatches = 2* against three criteria: one past the cap.
- *ChunkWords = 3, OverlapWords = 1.* Lengths 0, 3, 5 and 6 are no window, exactly one, two that
  end on a seam, and a last window that is short.
- *MaxBoots.* A second start meets what one crash left, a third what a failed sweep left.
- *Tabs, MaxEdits, MaxRestarts.* Two tabs and a third submission: a suite and its validation, or the
  other tab's, and an eviction between them. Two edits remove both rows, or move one and rewrite it. An
  analysis may leave a description blank, so that the arrays and the numbers part. After a second
  restart nothing is in memory that was not after the first.
- *Saves, Submitted.* Three saves: two overlap, a third comes undisturbed after them; lists of one,
  three and four choices overwrite each other in both orders.
- *MaxFaults = 1.* One stop of the daemon, failing pull or crash of qa-ai, at any point. With two
  faults all properties hold as well (a run of several minutes).
- *MaxRetries = 1, ChatLimit = 1, StageLimit = 2* in `ai_service`: the caller's limit is met by two
  chats as long as may be, so it can give up in the second attempt and not in the first, as with the
  defaults in the fourth only.
- *Symmetry* is used in `review_flow` and `settings`, which check no liveness; no action or property
  of theirs names a tab, a job or a save.

TLC's bounds in guards are `Clients` (SubmitRegister), `MaxSteps` (RunnerProgress), `MaxBoots`
(Boot of MomFiles and of Settings), `MaxFaults` (DaemonStops, PullFails, AiDies), `MaxEdits` (Edit) and
`MaxRestarts` (Restart).

### Deadlock

`review_flow` checks for it. The other runs say `CHECK_DEADLOCK FALSE`, for the system may stop: the
queue's process exits, a generation ends, qa-core may stay down, and when calls are over and the daemon
rests only polls that change nothing go on.

### Fairness

`Settings` and `ReviewFlow` are checked for safety only and state none.

- *Queue*: weak fairness of each Submit that has started and of the worker. Goroutines are
  scheduled; the runner returns because `jobCtx` carries `GenTimeout` (queue.go:265) and every call
  of qa-ai ends by the client's limit. No fairness of starting a Submit, of the signal or of exit.
  `GoroutinesReturn` needs no more: `WorkerReceive` can be preferred to `WorkerStop` only as long as
  the channel holds jobs, and the number of jobs is finite.
- *LiveStatus*: in addition weak fairness of each handler, and strong fairness of `CloseStream`: once
  the page has closed its stream, the handler's select (handlers.go:303) has a tick and the end
  of the request to choose from and chooses at random, so it cannot choose the tick for ever. No
  fairness of the monitor's polls: they would repair a missed announcement within three seconds
  and hide it.
- *GenPipeline*: weak fairness of Run, one goroutine whose calls all end.
- *MomFiles*: weak fairness of handlers and worker while their process runs. No fairness of uploads,
  crashes or boots.
- *Warmup, StageCall*: weak fairness of the warmup loop, of the monitor's ticker, of a handler's
  next step. A pull ends or breaks: assumed of the daemon, because the code gives a pull no time
  limit. None of the daemon's stopping, starting or being given the model.

## 4. Proofs

All theorems hold for every value of the constants that meets the named assumptions
(`ConstantsAssumption`, `PipelineAssumption`, `FilesAssumption`, `ChunksAssumption`, `WarmupAssumption`,
`StageAssumption`, `FlowAssumption`, `SettingsAssumption`); TLC evaluates these in the runs as well. One
conjunct, `"" \in STRING`, only tells the provers the type of a literal, and one theorem has a hypothesis
of its own: `MinutesAreComplete` assumes a window larger than its overlap, as the code's 800 and 100
words are. Every safety property a passing run checks is stated by a theorem, except that the refinement
of `FifoService` is proved for its safety part.

**DataLemmas.** Much of what the services compute is a loop over a list, so its proof is an induction.
The library's induction rules take an operator as parameter, which the installed provers cannot
instantiate; `NumberInduction` is induction over a *set* of numbers, from `WFMin` of the library, which
takes none. `FoldTable` shows by it that the function `FoldLeft` chooses exists, `PrefixRun` that read on
the first `i` elements it is the run of the loop. `SelectedElements`, `SelectedByIndex`, `SumIsNumber` and
`SumAtMost` say what the two loops of `Lists` return.

**JobQueueProofs.** `Invariance`: `IInv` is inductive. It is the conjunction of the state properties
of `queue` with `OneAtATime`, `WorkerAgrees` (the worker's local job is `Manager.running` from its first
critical section to its second) and `CapacityKept`. None of them is inductive alone:
`WorkerBegin` keeps `MapAccounted` only because `LineAccounted` says that the job in hand is in the
line, and that needs `SubmitAgrees`, by which a job on its way to the worker cannot be rolled back. The
proof has one case per action and one step for each conjunct it can disturb; lemmas state what
`append`, a receive, `removeID` and `evictLocked` do to the *set* of elements and to
repetitions. From it follow `TypeCorrect`, `LineIsAccounted`, `MapIsAccounted`, `StatesAgree`,
`NeverTwoAtOnce`, `SubmitsAgree` and the action properties `JobsOnlyAdvance` and
`EvictionTakesTheOldest`. `MemoryStaysBounded` counts: a line without repetitions is as long as the set
of its elements, and that set is the channel, the hand and the Submits in flight. `MapStaysBounded` adds
the results and bounds the Submits in flight by `Clients`.
`WaitsGrowOnlyByOvertaking` follows a waiting job's place: removing another from the line moves it up by one if
that one was in front (`LeavingTheLine`), and then the removed one runs, so that the sum falls in no step
but the start of a job shown behind.

`ServesInOrder`: with `IInv`, every step of the queue is a step or a stutter of
`FifoService` under the mapping of `MCJobQueue`, so `JobQueue` has the safety of `ImplementsFifo` for any
jobs and capacities. The mapped line is the channel behind the job in the worker's hand, so a receive
is a stutter and a begin takes the head. `MomFiles` and `ReviewFlow` use this service in place of the queue.
`ReviewFlow` says more of the queue than the service does: which jobs a lookup finds (its `Kept`) and when
a result comes and goes (`Ended`). `ResultsAreTheService` proves both of `JobQueue`: of the jobs that the
channel took the map holds the one served, the line and the results retained (`MapIsService`), and these
change in no step but the one that completes a job (`RetainsInService`).

**LiveStatusProofs.** `WatchingChangesNothing`: the composition has only behaviours of the queue, so what
is proved of `JobQueue` holds of it. `PageInv`: as soon as what changed has been announced, a page that
no tick calls back shows it. A publish puts a tick in front of everybody who reads or waits, full channel or not
(`PublishReaches`); everything else leaves what such a page shows alone. Hence
`SettledPagesAreCurrent`. `LineInv` adds the numbers: the line of such a page is short by no more than
the jobs whose Submit still owes its announcement (`Owing`), and nobody's place grows
(`QueueMovesLine`, which carries over what the queue does to the line). Hence `LineIsNotUnderstated`.
`PagesEndAsTold`: a frame that told a page of the end of its job stays true (`EndsAsTold`), because an
outcome is final (`AdvanceStep`) and a page is closed by nothing but such a frame; the partial it fetches
shows that end, or that the result was evicted. `ReviewFlow` starts from this where its `Lead` lets a page
ask only once the job has ended.

**GenPipelineProofs.** `PlanInvariance`: only the last step of the plan can be open, and where Run
stands says how. With it every step of `GenPipeline` is a step or a stutter of `StepPlan`:
`PlanImplemented`. `RowsInvariance`: the published rows are the first cases collected, numbered;
hence `RowsAreStable` and `RowsTrace`. `FailsOnlyWhenEmpty` rests on `FailInv`: a batch shown as done
left a case. `CountInv` ties the length of the plan to the batch the loop is at, so that when Run returns
the steps between the first and the last two are the batches, each settled: `NothingIsTruncated`.
`SeveritiesFollow` needs that the greatest rank among the criteria a case names exists, and that an id no
other criterion has leads to its own. The proofs of the plan and the rows hold whatever `Coverage`
computes, as long as it leaves the rows alone, for any answers and any cap. `ScoreInv` says what it does
compute: from the coverage step on, matrix, summary and score are those of the criteria and rows of the
result. `DeductionsTakeAway` makes every deduction negative, so that one of them alone bounds the score
from above (`SumAtMost`): `RatingIsHonest`, since 95 points leave room for none of 10 or more.
`PoliciesAgree` runs qa-core's score through qa-ai's bounds. `CoverageNeverDisagrees` compares the counts
of gaps as cardinalities of one set of places, finds the deduction of the gaps first in the list,
whatever ambiguities follow, and reads the issues at their places (`IssuesInOrder`): both a story's summary
and the requirement point of a row are the criterion's description. `TypeCorrect` has the bounds of every score.

**StageCallProofs.** `SInv`: types, `ReadyIsFinal` (ready is the last word of a warmup), and `Accounted`
(attempts, rejected outputs, position and outcome of a call go together). `TimeKept`: a caller has waited
for no longer than its rejected chats may have taken and the one that runs has, since time passes only in
chats; so its limit is not met before its chats can fill it (`CutOff`). From it `StageTypes`,
`ServesOnlyReady` and `OutcomesAreHonest`, for any number of calls at once, any retry budget, limits
and faults.

**MomFilesProofs.** `IInv`: where an upload is tells which of its files exist. `PlaceInv` says of the line
and of the worker which uploads they hold, `DiskInv` which audio and which directory is there (the
directory only of the running upload between its making and its removal, or of one a crash took),
`CopyInv` the same of qa-ai's disk. Neither is inductive without the line: that no upload waits twice is
what keeps a removed file from being waited for. Hence `WorkDirsStayFlat`, `OverLeavesNothing` and
`AudioStaysForTheRunner`, for any uploads, transcripts, windows and number of crashes.

`chunkText` is proved for a transcript of any length (`ChunksCover`): the windows from a start on are
shown to cover the words after it by induction over how many words are left, the last start first,
after the same induction has shown that the recursive function exists (`CutsExist`). `RunInv` follows the
runner: the notes held are those of the chunks before the one the loop is at, and the plan has one settled
step for each; past the loop they are all, and a removal without an error has the whole plan done.
Hence `TypeCorrect`, by which the loop never reads past the last chunk, and `MinutesAreComplete`.

`LineIsTheService` closes the composition: but for crashes, every step of `MomFiles` is a step or a stutter
of `FifoService`, the service that `ServesInOrder` shows `JobQueue` to be (`ReviewFlow` takes that
service's actions themselves).

**ReviewFlowProofs.** `LineInv` and `ResultInv` (a job has a result from the moment it is done, none
before, and it answers its own request) with `TabInv`, by which a tab's page, its request under way and
what led to it go with the job it is about. What others do to a job is reduced to `Onward` (a status
moves on) and `Lasting` (a result stays), so that each tab is proved by itself. Hence `LedPagesAreWhole`
and `PagesAreOwn`. `ListInv`, relative to the first, follows the rows themselves from the page through the
posted arrays and the request into the suite, with `CuratedIsLeft`: dropping the blank rows by their
places in parallel arrays keeps what dropping them from the list of rows keeps. Hence
`GeneratesThisList` and, of both halves, `ResultsAreOwn`; `TypeCorrect` adds the bounds of the line and of
the ended jobs kept.

**SettingsProofs.** `Clean` is followed line by line (`CleaningRun`): what it keeps is trimmed, without
blanks and repetitions (`CleanIsClear`), and it changes nothing in a list that is so already
(`SanitizeKeeps`). Hence what is loaded from any file can be shown: `TypeCorrect`. `RestartsKeep` needs
`LastSaveInv`: while nothing is `troubled` at most one save is at work, it writes what memory holds to an
empty file, and when none is at work a load brings back what memory holds.

**Only model-checked.** Liveness (`GoroutinesReturn`, `EndIsShown`, `RunEnds`, `AudioRemoved`,
`HeaderSettles`, `WarmupEnds`, `CallsEnd`) and the fair part of `ImplementsFifo`: liveness under fairness
is beyond the prover. The violations of section 6 are counterexamples found by TLC.

**Only proved.** `EndsAsTold`, `MapIsService` and `RetainsInService` tie modules together; no run lists
them, since the properties of `live_status` and `queue` rest on the same invariants.

## 5. Not modelled, or in part

- *The active model*, chosen on the settings page and copied into each request, and the form's other
  fields: they travel unread from the page to qa-ai.
- *Exports*: texts, the Markdown layout, the choice of a case's test data and module, which are
  formatting; what is derived (severity, priority, rows, links) is in `Exports`.
- *The in-memory mode of the vocabularies* (no path): qa-core always has one.
- *The access code*: comparing it is a constant; the cookie's life is in `ReviewFlow`.
- *Two results at once in one page*: a tab asks once at a time, as the script's swap does.
- *Prompts, platform figures, contracts, templates*: text, readings and type declarations no state
  depends on. Two scripts are the exception: the waiting card's is in `LiveStatus` and `ReviewFlow`, the
  review page's in `ReviewFlow`.
- *ETA in seconds*: wall-clock; only the number of durations is modelled.
- *Snapshot files and timing log*: written, never read.
- *`Server.Shutdown`'s ten seconds*: `Exit` may come at any time after the signal.
- *Progress on a job that has ended*: a runner returns before its outcome is recorded, so no
  Progress call comes later.

## 6. Findings

Where the code and what is said of it part. The first five have a run.

1. `queue_overlap`. queue.go:151 calls `queued` the "FIFO order of queued job IDs". Submit appends
   under the lock and sends after releasing it, so two overlapping Submits may be shown in one
   order and served in the other. Service is FIFO in channel order.
2. `step_label`. view.go:116 means to show the last finished step's label; it indexes by the number
   of done steps, which is another step's label once a batch has failed.
3. `mom_orphans`. docs/mom-orchestrator.md:91 says orphan files never accumulate. The boot sweep
   clears the working directories, not the uploaded audio in the temporary directory.
4. `half_written`. handlers.go:234-235 promises a result, an error or the waiting card. The handler reads
   State and Result without the lock, and between the two writes of the worker it finds a done job
   without a result and answers none. Only a request that no frame led to can meet it.
5. `header_offline`. README.md:61-62 promises "LLM offline" when the daemon is down. Readiness is set
   once and never taken back.
6. A refused Submit's rollback is not announced, against queue.go:173.
7. `covers` (coverage.go:124-131) trims the case's entry but not the criterion's id.
8. A transcript or partial that cannot be written leaves its step "running" in a failed job.
9. A transcription may take 1200 s in qa-ai and is given up after 600 s in qa-core.
10. A refusal of qa-ai may give "ready" as its reason: gate and reason are two reads.
11. `callJSON` decodes every attempt into the same value: minutes may carry fields of a rejected one.
12. A page whose result was evicted before it saw the end waits for ever (waiting.html:58).
13. Of two saves of the vocabularies that overlap, one may end in memory and the other in the file,
    or a mixture that does not parse (options.go:68-76).
14. PRD.md:206 says qa-ai never receives concurrent requests; a handler whose caller timed out is
    still at work when the next call comes.
15. main.go:186-187 says a retrying stage is not cut off. Four attempts of 180 s do not fit the default
    600 s: the fourth may be cut.
16. validation.html:58 says that the generation uses exactly this list; an emptied list is taken for a
    direct generation, and criteria the reviewer removed are derived again (handlers.go:450).
17. index.html:60 allows 3,000 characters; `trimLimit` cuts at 3,000 bytes (view.go:300).
18. README.md:165-166 derives a case's severity from the criteria it covers; the export looks ids up as
    written while coverage compares them without case and blanks (common.go:82).
19. csv.go:19-21 calls its rows the single source of truth; the Markdown report shows a dash for a mark
    the rows derive (markdown.go:57).

## 7. Plan

Done, in this order: `JobQueue` with `FifoService` and its proofs; `Broadcaster` and `LiveStatus`;
`Progress`, `StepPlan`, `Coverage`, `GenPipeline` and its proofs; `MomFiles` and `Chunks`; `Warmup`,
`StageCall` and its proofs; `Settings`; `ReviewForm`, `ReviewFlow` and its proofs; `Exports` and `Scoring`;
the proofs of `LiveStatus`, `MomFiles`, the memory bound, the order of service and the count of batches;
`DataLemmas` and with them the proofs of estimates, scores, coverage, reviewed lists, minutes and
vocabularies, which leave no safety property of a run without a theorem; the theorems that tie
`ReviewFlow` to the queue and to the frames (`ResultsAreTheService`, `PagesEndAsTold`).

Left: the active model, listed by qa-ai, chosen on the settings page and copied into each request at
submission. The loop of qa-ai's `/validate` is not mapped by itself: it has the shape of `/stage`'s, a
fresh value for every attempt and an output to reject, which `StageCall` models, and qa-core does not
call it.
