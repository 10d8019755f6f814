------------------------------ MODULE MomFiles ------------------------------
(***************************************************************************)
(* Minutes of meeting: the files of an upload from the request that saves   *)
(* it to the runner that removes it (web/mom.go, momorch/momorch.go), and   *)
(* of its copy in qa-ai (httpapi/mom.go), over crashes and restarts.        *)
(*                                                                          *)
(* An upload owns a temporary audio file and, while it is served, a working *)
(* directory.  The queue is the FIFO line JobQueue is shown to implement.   *)
(* qa-core may die between any two steps; an orderly stop is no better,     *)
(* because main does not wait for the worker.  A handler of qa-ai outlives  *)
(* the call that timed out.                                                 *)
(***************************************************************************)
EXTENDS Progress, Chunks

CONSTANTS
  Uploads,    \* one element per POST /pm/process
  NoUpload,   \* the worker is idle
  Buffer,     \* how many accepted uploads may wait
  Transcripts,\* how many words a transcript may have
  MaxBoots    \* bound on the starts of the process

ASSUME FilesAssumption ==
  /\ NoUpload \notin Uploads
  /\ Buffer \in Nat \ {0} /\ Transcripts \subseteq Nat /\ MaxBoots \in Nat \ {0}

VARIABLES
  up,         \* the process runs
  boots,      \* how often it was started
  swept,      \* the boot sweep of the work directory succeeded
  life,       \* what became of each upload
  audio,      \* uploads whose temporary audio file is on disk
  dirs,       \* uploads whose working directory is on disk
  line,       \* accepted uploads, oldest first
  serving,    \* the upload the worker runs
  runner,     \* where momorch.run stands
  words,      \* how many words its transcript has
  chunk,      \* the chunk the loop is at
  lines,      \* partials.jsonl: the windows whose notes it holds
  plan,       \* its steps
  err,        \* it is returning an error
  heard,      \* its transcription was answered
  ears,       \* qa-ai: where the handler of each transcription stands
  copies,     \* qa-ai: uploads whose copy is on its disk
  fell        \* qa-ai died with a handler at work

diskVars   == <<audio, dirs>>
scratch    == <<words, chunk, lines, heard>>
memoryVars == <<line, serving, runner, scratch, plan, err>>
aiVars     == <<ears, copies, fell>>
vars       == <<up, boots, swept, life, diskVars, memoryVars, aiVars>>

EarPoints == {"none", "asked", "saving", "whisper", "closing"}

RunnerPoints == {"idle", "mkdir", "start", "transcribe", "await", "chunk", "map", "extract",
                 "reduce", "consolidate", "removeDir", "removeAudio", "finish"}

Over == {"refused", "done", "failed"}       \* the upload needs its files no more
Live == {"saving", "saved", "rejecting", "queued", "running"}

Fresh == /\ line = <<>> /\ serving = NoUpload /\ runner = "idle"
         /\ words = 0 /\ chunk = 1 /\ lines = <<>> /\ plan = <<>> /\ err = FALSE
         /\ heard = FALSE

Init ==
  /\ up = TRUE /\ boots = 1 /\ swept = TRUE
  /\ life = [u \in Uploads |-> "new"]
  /\ audio = {} /\ dirs = {}
  /\ Fresh
  /\ ears = [u \in Uploads |-> "none"] /\ copies = {} /\ fell = FALSE

-----------------------------------------------------------------------------
(* handlePMProcess. *)

Become(u, state) == life' = [life EXCEPT ![u] = state]

\* saveAudioUpload creates the file and starts to copy.
CreateTemp(u) ==
  /\ up /\ life[u] = "new"
  /\ audio' = audio \cup {u}
  /\ Become(u, "saving")
  /\ UNCHANGED <<up, boots, swept, dirs, memoryVars, aiVars>>

CopyUpload(u) ==
  /\ up /\ life[u] = "saving"
  /\ \/ Become(u, "saved") /\ UNCHANGED audio
     \/ Become(u, "refused") /\ audio' = audio \ {u}
  /\ UNCHANGED <<up, boots, swept, dirs, memoryVars, aiVars>>

\* Variant: the file goes with the request that brought it.
SubmitUploadDeferred(u) ==
  /\ up /\ life[u] = "saved"
  /\ Len(line) < Buffer
  /\ line' = Append(line, u)
  /\ Become(u, "queued")
  /\ audio' = audio \ {u}
  /\ UNCHANGED <<up, boots, swept, dirs, serving, runner, scratch, plan, err, aiVars>>

SubmitUpload(u) ==
  /\ up /\ life[u] = "saved"
  /\ Len(line) < Buffer
  /\ line' = Append(line, u)
  /\ Become(u, "queued")
  /\ UNCHANGED <<up, boots, swept, diskVars, serving, runner, scratch, plan, err, aiVars>>

\* The queue is full: of uploads, or of the generations it is shared with.
RefuseUpload(u) ==
  /\ up /\ life[u] = "saved"
  /\ Become(u, "rejecting")
  /\ UNCHANGED <<up, boots, swept, diskVars, memoryVars, aiVars>>

DropUpload(u) ==
  /\ up /\ life[u] = "rejecting"
  /\ audio' = audio \ {u}
  /\ Become(u, "refused")
  /\ UNCHANGED <<up, boots, swept, dirs, memoryVars, aiVars>>

-----------------------------------------------------------------------------
(* momorch.run, on the worker. *)

TakeUpload ==
  /\ up /\ runner = "idle" /\ line # <<>>
  /\ serving' = Head(line)
  /\ line' = Tail(line)
  /\ Become(Head(line), "running")
  /\ runner' = "mkdir"
  /\ UNCHANGED <<up, boots, swept, diskVars, scratch, plan, err, aiVars>>

\* A step of run that touches no file: p is the plan it leaves, e whether it has failed.
RunStep(from, to, p, e) ==
  /\ up /\ runner = from
  /\ runner' = to
  /\ plan' = p /\ err' = e
  /\ UNCHANGED <<up, boots, swept, life, audio, line, serving, aiVars>>

Proceed(from, to, p) == RunStep(from, to, p, FALSE)
GiveUp(from, p)      == RunStep(from, "removeDir", p, TRUE)

Settle(s) == SetStep(plan, Len(plan), s)
Opened(p) == SetStep(Appended(p), Len(p) + 1, "running")

\* Variant: the removal of the audio is deferred after the directory is made.
MakeDirBeforeDefer ==
  /\ \/ Proceed("mkdir", "start", plan) /\ dirs' = dirs \cup {serving}
     \/ RunStep("mkdir", "finish", plan, TRUE) /\ UNCHANGED dirs
  /\ UNCHANGED scratch

\* The directory's removal is deferred only once it exists.
MakeDir ==
  /\ \/ Proceed("mkdir", "start", plan) /\ dirs' = dirs \cup {serving}
     \/ RunStep("mkdir", "removeAudio", plan, TRUE) /\ UNCHANGED dirs
  /\ UNCHANGED scratch

StartTranscription ==
  /\ Proceed("start", "transcribe", Opened(<<>>))
  /\ UNCHANGED <<dirs, scratch>>

\* The audio is streamed to qa-ai.
SendAudio ==
  /\ up /\ runner = "transcribe"
  /\ runner' = "await"
  /\ ears' = [ears EXCEPT ![serving] = "asked"]
  /\ UNCHANGED <<up, boots, swept, life, diskVars, line, serving, scratch, plan, err, copies, fell>>

\* The upload cannot be opened, or the call fails: unreachable, refused, timeout, job
\* expired.
TranscriptionFails ==
  /\ GiveUp("transcribe", Settle("failed")) \/ GiveUp("await", Settle("failed"))
  /\ UNCHANGED <<dirs, scratch>>

\* The transcript is written; when that fails run returns with the step running.
Transcribed ==
  /\ heard
  /\ \/ Proceed("await", "chunk", Settle("done")) /\ words' \in Transcripts
     \/ GiveUp("await", plan) /\ UNCHANGED words
  /\ UNCHANGED <<dirs, chunk, lines, heard>>

\* chunks.jsonl is written and partials.jsonl created, or run returns.
WriteChunks ==
  /\ Proceed("chunk", "map", plan) \/ GiveUp("chunk", plan)
  /\ UNCHANGED <<dirs, scratch>>

\* Variant: the loop runs once too often.
StartExtractPastEnd ==
  /\ chunk <= Len(ChunkText(words)) + 1
  /\ Proceed("map", "extract", Opened(plan))
  /\ UNCHANGED <<dirs, scratch>>

StartExtract ==
  /\ chunk <= Len(ChunkText(words))
  /\ Proceed("map", "extract", Opened(plan))
  /\ UNCHANGED <<dirs, scratch>>

\* Variant: a chunk that fails is skipped, as a batch of a generation is.
ExtractFailsSkips ==
  /\ Proceed("extract", "map", Settle("failed"))
  /\ chunk' = chunk + 1
  /\ UNCHANGED <<dirs, words, lines, heard>>

\* One chunk failing ends the job, other than in a generation.
ExtractFails ==
  /\ GiveUp("extract", Settle("failed"))
  /\ UNCHANGED <<dirs, scratch>>

\* One line is appended; when that fails run returns with the step running.
Extracted ==
  /\ \/ /\ Proceed("extract", "map", Settle("done"))
        /\ lines' = Append(lines, ChunkText(words)[chunk])
        /\ chunk' = chunk + 1
     \/ GiveUp("extract", plan) /\ UNCHANGED <<chunk, lines>>
  /\ UNCHANGED <<dirs, words, heard>>

StartConsolidate ==
  /\ chunk > Len(ChunkText(words))
  /\ Proceed("map", "reduce", Opened(plan))
  /\ UNCHANGED <<dirs, scratch>>

\* partials.jsonl is read back line by line; a line too long or broken ends the job.
ReadPartials ==
  /\ Proceed("reduce", "consolidate", plan) \/ GiveUp("reduce", Settle("failed"))
  /\ UNCHANGED <<dirs, scratch>>

Consolidate ==
  /\ Proceed("consolidate", "removeDir", Settle("done")) \/ GiveUp("consolidate", Settle("failed"))
  /\ UNCHANGED <<dirs, scratch>>

\* The two deferred removals, last deferred first.
RemoveDir ==
  /\ RunStep("removeDir", "removeAudio", plan, err)
  /\ dirs' = dirs \ {serving}
  /\ UNCHANGED scratch

RemoveAudio ==
  /\ up /\ runner = "removeAudio"
  /\ runner' = "finish"
  /\ audio' = audio \ {serving}
  /\ UNCHANGED <<up, boots, swept, life, dirs, line, serving, scratch, plan, err, aiVars>>

\* runOne records the outcome.
FinishUpload ==
  /\ up /\ runner = "finish"
  /\ Become(serving, IF err THEN "failed" ELSE "done")
  /\ serving' = NoUpload
  /\ runner' = "idle"
  /\ words' = 0 /\ chunk' = 1 /\ lines' = <<>> /\ plan' = <<>> /\ err' = FALSE
  /\ heard' = FALSE
  /\ UNCHANGED <<up, boots, swept, diskVars, line, aiVars>>

-----------------------------------------------------------------------------
(* handleTranscribe, in qa-ai. *)

Hear(u, from, to) ==
  /\ ears[u] = from
  /\ ears' = [ears EXCEPT ![u] = to]
  /\ UNCHANGED <<up, boots, swept, life, diskVars, line, serving, runner, words, chunk, lines,
                 plan, err, fell>>

\* Nothing to transcribe with, no audio in the form, or a temporary file for it.
TakeAudio(u) ==
  /\ \/ Hear(u, "asked", "none") /\ UNCHANGED copies
     \/ Hear(u, "asked", "saving") /\ copies' = copies \cup {u}
  /\ UNCHANGED heard

\* saveUpload copies what comes, or removes the file when no more comes.
SaveUpload(u) ==
  /\ \/ Hear(u, "saving", "whisper") /\ UNCHANGED copies
     \/ Hear(u, "saving", "none") /\ copies' = copies \ {u}
  /\ UNCHANGED heard

\* ffmpeg and whisper give a transcript or fail; the answer reaches a worker that
\* still waits for it.
Whisper(u) ==
  /\ Hear(u, "whisper", "closing")
  /\ heard' \in {heard, heard \/ (serving = u /\ runner = "await")}
  /\ UNCHANGED copies

\* Variant: the copy stays.
CloseAudioForgets(u) == Hear(u, "closing", "none") /\ UNCHANGED <<copies, heard>>

\* The deferred removal.
CloseAudio(u) ==
  /\ Hear(u, "closing", "none")
  /\ copies' = copies \ {u}
  /\ UNCHANGED heard

AiHandler(u) == TakeAudio(u) \/ SaveUpload(u) \/ Whisper(u) \/ CloseAudio(u)

\* qa-ai dies and is started again; nothing sweeps what it had saved.
AiFalls ==
  /\ \E u \in Uploads : ears[u] # "none"
  /\ ears' = [u \in Uploads |-> "none"]
  /\ fell' = TRUE
  /\ UNCHANGED <<up, boots, swept, life, diskVars, memoryVars, copies>>

-----------------------------------------------------------------------------
(* The process. *)

\* SIGKILL, panic, power loss, or main returning under the worker: what was in
\* memory is gone, what was on disk stays.
Crash ==
  /\ up
  /\ up' = FALSE
  /\ life' = [u \in Uploads |-> IF life[u] \in Live THEN "lost" ELSE life[u]]
  /\ line' = <<>> /\ serving' = NoUpload /\ runner' = "idle"
  /\ words' = 0 /\ chunk' = 1 /\ lines' = <<>> /\ plan' = <<>> /\ err' = FALSE
  /\ heard' = FALSE
  /\ UNCHANGED <<boots, swept, diskVars, aiVars>>

\* Variant: no boot sweep.
BootUnswept ==
  /\ ~up /\ boots < MaxBoots
  /\ up' = TRUE /\ boots' = boots + 1 /\ swept' = TRUE
  /\ UNCHANGED <<life, diskVars, memoryVars, aiVars>>

\* main sweeps the work directory before it starts the queue; a failing sweep is
\* logged and main goes on.
Boot ==
  /\ ~up /\ boots < MaxBoots
  /\ up' = TRUE /\ boots' = boots + 1
  /\ \/ swept' = TRUE  /\ dirs' = {}
     \/ swept' = FALSE /\ UNCHANGED dirs
  /\ UNCHANGED <<life, audio, memoryVars, aiVars>>

Upload(u) == CreateTemp(u) \/ CopyUpload(u) \/ SubmitUpload(u) \/ RefuseUpload(u) \/ DropUpload(u)

Worker ==
  \/ TakeUpload \/ MakeDir
  \/ StartTranscription \/ SendAudio \/ TranscriptionFails \/ Transcribed
  \/ WriteChunks \/ StartExtract \/ ExtractFails \/ Extracted
  \/ StartConsolidate \/ ReadPartials \/ Consolidate
  \/ RemoveDir \/ RemoveAudio \/ FinishUpload

Next ==
  \/ \E u \in Uploads : Upload(u) \/ AiHandler(u)
  \/ Worker \/ Crash \/ Boot \/ AiFalls

Spec == Init /\ [][Next]_vars

\* A handler and the worker run on while the process does: stage calls end with an
\* answer or an error.  Nobody has to upload, and nothing restarts a dead process.
FairSpec ==
  /\ Spec
  /\ \A u \in Uploads : WF_vars(Upload(u) /\ life[u] # "new")
  /\ WF_vars(Worker)
  /\ \A u \in Uploads : WF_vars(AiHandler(u))

-----------------------------------------------------------------------------
(* Properties. *)

\* Every variable has its type.
FTypeOK ==
  /\ up \in BOOLEAN /\ swept \in BOOLEAN /\ boots \in 1 .. MaxBoots
  /\ life \in [Uploads -> Live \cup Over \cup {"new", "lost"}]
  /\ audio \subseteq Uploads /\ dirs \subseteq Uploads
  /\ line \in Seq(Uploads) /\ Len(line) <= Buffer
  /\ serving \in Uploads \cup {NoUpload} /\ runner \in RunnerPoints
  /\ words \in Transcripts \cup {0}
  /\ runner = "extract" => chunk \in DOMAIN ChunkText(words)
  /\ lines \in Seq([first : Nat, last : Nat])
  /\ plan \in Seq(StepStates) /\ err \in BOOLEAN /\ heard \in BOOLEAN
  /\ ears \in [Uploads -> EarPoints] /\ copies \subseteq Uploads /\ fell \in BOOLEAN

\* "so working files never accumulate as junk" (main.go:45-46): after a sweep at
\* most one working directory exists, that of the upload being served, whatever
\* earlier processes left behind.
WorkDirFlat == up /\ swept => dirs \subseteq {serving}

\* "The MOM runner removes the file when it's done" (mom.go:40-41): on every path
\* through handler and runner an upload that is over has left neither file, and in
\* qa-ai there is no copy without its handler, unless a handler was killed.
OverIsClean ==
  \A u \in Uploads :
    /\ life[u] \in Over => u \notin audio \cup dirs
    /\ u \in copies => ears[u] # "none" \/ fell

\* "the bytes must outlive this request" (mom.go:40-41): an accepted upload has its
\* audio until the runner itself removes it.
AudioOutlivesRequest ==
  \A u \in Uploads :
    (life[u] = "queued" \/ (serving = u /\ runner # "finish")) => u \in audio

\* Minutes are made of the whole meeting: an upload is only done when every word of
\* its transcript is in a chunk whose notes reached the consolidation, each chunk in a
\* step of its own and no larger than a window, and two neighbours share the overlap,
\* so that a "topic spanning the seam is seen by both" (momorch.go:124-125).
MinutesComplete ==
  [][\A u \in Uploads : life[u] = "running" /\ life'[u] = "done" =>
        /\ WordsOf(lines) = 1 .. words
        /\ StepsIn(plan, "failed") = {} /\ StepsIn(plan, "running") = {}
        /\ Len(plan) = Len(lines) + 2
        /\ \A k \in DOMAIN lines : lines[k].last - lines[k].first < ChunkWords
        /\ \A k \in 2 .. Len(lines) : lines[k-1].last - lines[k].first + 1 = OverlapWords]_vars

\* Both disks get rid of every audio file while the process that saved it lives.
AudioRemoved ==
  \A u \in Uploads :
    /\ (life[u] = "saving") ~> (u \notin audio \/ life[u] = "lost")
    /\ (u \in copies) ~> (u \notin copies \/ fell)

\* "Together these guarantee orphan files never accumulate, even after a crash"
\* (docs/mom-orchestrator.md:91): a process that swept at boot has none of the files
\* of uploads an earlier process lost.
NoOrphans ==
  up /\ swept => \A u \in Uploads : life[u] = "lost" => u \notin audio \cup dirs
=============================================================================
