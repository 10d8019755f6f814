--------------------------- MODULE MomFilesProofs ---------------------------
(* Theorems about MomFiles, for any uploads, line, transcripts and windows. *)
EXTENDS MomFiles, DataLemmas

LifeStates == Live \cup Over \cup {"new", "lost"}

\* Where the runner stands while its upload's working directory may be on disk.
InDir == RunnerPoints \ {"idle", "mkdir", "removeAudio", "finish"}

TypesInv ==
  /\ up \in BOOLEAN /\ swept \in BOOLEAN
  /\ life \in [Uploads -> LifeStates]
  /\ audio \subseteq Uploads /\ dirs \subseteq Uploads
  /\ line \in Seq(Uploads)
  /\ runner \in RunnerPoints
  /\ ears \in [Uploads -> EarPoints]

\* The line and the worker's upload, told by what became of each upload.  Nothing is
\* alive in a process that is down.
PlaceInv ==
  /\ \A i \in DOMAIN line : life[line[i]] = "queued"
  /\ \A i, k \in DOMAIN line : line[i] = line[k] => i = k
  /\ runner = "idle" <=> serving = NoUpload
  /\ serving # NoUpload => serving \in Uploads /\ life[serving] = "running"
  /\ ~up => line = <<>> /\ serving = NoUpload /\ \A u \in Uploads : life[u] \notin Live

\* What is on qa-core's disk, and for whom.
DiskInv ==
  /\ \A u \in Uploads :
       /\ life[u] \in {"saving", "saved", "rejecting", "queued"} => u \in audio
       /\ life[u] \in Over => u \notin audio
       /\ u \in dirs => life[u] = "lost" \/ (u = serving /\ runner \in InDir)
       /\ up /\ swept /\ u \in dirs => u = serving
  /\ serving # NoUpload => (serving \in audio <=> runner # "finish")

\* What is on qa-ai's disk.  Its handlers start with the call of the upload's one run.
CopyInv ==
  \A u \in Uploads :
    /\ u \in copies => ears[u] # "none" \/ fell
    /\ ears[u] = "asked" => u \notin copies
    /\ \/ life[u] \in {"new", "saving", "saved", "rejecting", "queued"}
       \/ u = serving /\ runner \in {"mkdir", "start", "transcribe"}
       => ears[u] = "none" /\ u \notin copies

IInv == TypesInv /\ PlaceInv /\ DiskInv /\ CopyInv

\* The steps of run that touch neither files nor the line.
Quiet ==
  \/ StartTranscription \/ TranscriptionFails \/ Transcribed
  \/ WriteChunks \/ StartExtract \/ ExtractFails \/ Extracted
  \/ StartConsolidate \/ ReadPartials \/ Consolidate

-----------------------------------------------------------------------------

\* Whatever a quiet step does to the plan, the runner stays between the making of the
\* directory and its removal, and has not sent the audio again.
LEMMA QuietSteps ==
  ASSUME Quiet
  PROVE  /\ up
         /\ runner \in InDir \ {"removeDir"} /\ runner' \in InDir
         /\ runner' \in {"mkdir", "start", "transcribe"} => runner = "start"
         /\ UNCHANGED <<up, boots, swept, life, audio, dirs, line, serving, aiVars>>
  BY DEF Quiet, StartTranscription, TranscriptionFails, Transcribed, WriteChunks, StartExtract,
         ExtractFails, Extracted, StartConsolidate, ReadPartials, Consolidate, Proceed, GiveUp,
         RunStep, scratch, InDir, RunnerPoints

LEMMA QuietKeeps ==
  ASSUME IInv, Quiet
  PROVE  IInv'
<1>1. /\ up
      /\ runner \in InDir \ {"removeDir"} /\ runner' \in InDir
      /\ runner' \in {"mkdir", "start", "transcribe"} => runner = "start"
      /\ up' = up /\ swept' = swept /\ life' = life /\ audio' = audio /\ dirs' = dirs
      /\ line' = line /\ serving' = serving /\ ears' = ears /\ copies' = copies /\ fell' = fell
  BY QuietSteps DEF aiVars
<1>2. TypesInv'
  BY <1>1 DEF IInv, TypesInv, InDir
<1>3. PlaceInv'
  BY <1>1 DEF IInv, PlaceInv, InDir
<1>4. DiskInv'
  BY <1>1 DEF IInv, DiskInv, PlaceInv, InDir
<1>5. CopyInv'
  BY <1>1 DEF IInv, CopyInv
<1> QED
  BY <1>2, <1>3, <1>4, <1>5 DEF IInv

-----------------------------------------------------------------------------
(* The handlers of the upload, in qa-core and in qa-ai. *)

LEMMA UploadKeeps ==
  ASSUME IInv, NEW u \in Uploads, Upload(u)
  PROVE  IInv'
<1> USE DEF Become, diskVars, memoryVars, aiVars, scratch
<1>1. CASE CreateTemp(u)
  <2>1. /\ up /\ life[u] = "new" /\ life' = [life EXCEPT ![u] = "saving"]
        /\ audio' = audio \cup {u} /\ u # serving
        /\ UNCHANGED <<up, swept, dirs, line, serving, runner, ears, copies, fell>>
    BY <1>1, FilesAssumption DEF CreateTemp, IInv, PlaceInv
  <2>2. TypesInv'
    BY <2>1 DEF IInv, TypesInv, LifeStates, Live
  <2>3. PlaceInv'
    BY <2>1 DEF IInv, TypesInv, PlaceInv
  <2>4. DiskInv'
    BY <2>1 DEF IInv, TypesInv, PlaceInv, DiskInv, Over
  <2>5. CopyInv'
    BY <2>1 DEF IInv, TypesInv, CopyInv
  <2> QED
    BY <2>2, <2>3, <2>4, <2>5 DEF IInv
<1>2. CASE CopyUpload(u)
  <2>1. /\ up /\ life[u] = "saving" /\ u # serving
        /\ \/ life' = [life EXCEPT ![u] = "saved"] /\ audio' = audio
           \/ life' = [life EXCEPT ![u] = "refused"] /\ audio' = audio \ {u}
        /\ UNCHANGED <<up, swept, dirs, line, serving, runner, ears, copies, fell>>
    BY <1>2, FilesAssumption DEF CopyUpload, IInv, PlaceInv
  <2>2. TypesInv'
    BY <2>1 DEF IInv, TypesInv, LifeStates, Live, Over
  <2>3. PlaceInv'
    BY <2>1 DEF IInv, TypesInv, PlaceInv
  <2>4. DiskInv'
    BY <2>1 DEF IInv, TypesInv, PlaceInv, DiskInv, Over
  <2>5. CopyInv'
    BY <2>1 DEF IInv, TypesInv, CopyInv
  <2> QED
    BY <2>2, <2>3, <2>4, <2>5 DEF IInv
<1>3. CASE SubmitUpload(u)
  <2>1. /\ up /\ life[u] = "saved" /\ life' = [life EXCEPT ![u] = "queued"] /\ u # serving
        /\ line' = Append(line, u)
        /\ UNCHANGED <<up, swept, audio, dirs, serving, runner, ears, copies, fell>>
    BY <1>3, FilesAssumption DEF SubmitUpload, IInv, PlaceInv
  <2>2. /\ line' \in Seq(Uploads) /\ Len(line) \in Nat
        /\ DOMAIN line = 1 .. Len(line) /\ DOMAIN line' = 1 .. (Len(line) + 1)
        /\ \A i \in DOMAIN line : line'[i] = line[i]
        /\ line'[Len(line) + 1] = u
    BY <2>1, AppendProperties, LenProperties DEF IInv, TypesInv
  <2>3. TypesInv'
    BY <2>1, <2>2 DEF IInv, TypesInv, LifeStates, Live
  <2>4. \A i \in DOMAIN line : line[i] # u /\ line[i] \in Uploads
    BY <2>1, <2>2, LenProperties DEF IInv, TypesInv, PlaceInv
  <2>5. PlaceInv'
    <3>1. \A i \in DOMAIN line' : life'[line'[i]] = "queued"
      BY <2>1, <2>2, <2>4 DEF IInv, TypesInv, PlaceInv
    <3>2. \A i, k \in DOMAIN line' : line'[i] = line'[k] => i = k
      BY <2>2, <2>4 DEF IInv, PlaceInv
    <3> QED
      BY <2>1, <3>1, <3>2 DEF IInv, TypesInv, PlaceInv
  <2>6. DiskInv'
    BY <2>1 DEF IInv, TypesInv, PlaceInv, DiskInv, Over
  <2>7. CopyInv'
    BY <2>1 DEF IInv, TypesInv, CopyInv
  <2> QED
    BY <2>3, <2>5, <2>6, <2>7 DEF IInv
<1>4. CASE RefuseUpload(u)
  <2>1. /\ up /\ life[u] = "saved" /\ life' = [life EXCEPT ![u] = "rejecting"] /\ u # serving
        /\ UNCHANGED <<up, swept, audio, dirs, line, serving, runner, ears, copies, fell>>
    BY <1>4, FilesAssumption DEF RefuseUpload, IInv, PlaceInv
  <2>2. TypesInv'
    BY <2>1 DEF IInv, TypesInv, LifeStates, Live
  <2>3. PlaceInv'
    BY <2>1 DEF IInv, TypesInv, PlaceInv
  <2>4. DiskInv'
    BY <2>1 DEF IInv, TypesInv, PlaceInv, DiskInv, Over
  <2>5. CopyInv'
    BY <2>1 DEF IInv, TypesInv, CopyInv
  <2> QED
    BY <2>2, <2>3, <2>4, <2>5 DEF IInv
<1>5. CASE DropUpload(u)
  <2>1. /\ up /\ life[u] = "rejecting" /\ life' = [life EXCEPT ![u] = "refused"] /\ u # serving
        /\ audio' = audio \ {u}
        /\ UNCHANGED <<up, swept, dirs, line, serving, runner, ears, copies, fell>>
    BY <1>5, FilesAssumption DEF DropUpload, IInv, PlaceInv
  <2>2. TypesInv'
    BY <2>1 DEF IInv, TypesInv, LifeStates, Over
  <2>3. PlaceInv'
    BY <2>1 DEF IInv, TypesInv, PlaceInv
  <2>4. DiskInv'
    BY <2>1 DEF IInv, TypesInv, PlaceInv, DiskInv, Over
  <2>5. CopyInv'
    BY <2>1 DEF IInv, TypesInv, CopyInv
  <2> QED
    BY <2>2, <2>3, <2>4, <2>5 DEF IInv
<1> QED
  BY <1>1, <1>2, <1>3, <1>4, <1>5 DEF Upload

LEMMA AiHandlerKeeps ==
  ASSUME IInv, NEW u \in Uploads, AiHandler(u)
  PROVE  IInv'
<1>1. /\ ears[u] # "none"
      /\ \/ /\ ears[u] = "asked"
            /\ \/ ears' = [ears EXCEPT ![u] = "none"] /\ copies' = copies
               \/ ears' = [ears EXCEPT ![u] = "saving"] /\ copies' = copies \cup {u}
         \/ ears' = [ears EXCEPT ![u] = "whisper"] /\ copies' = copies
         \/ ears' = [ears EXCEPT ![u] = "closing"] /\ copies' = copies
         \/ ears' = [ears EXCEPT ![u] = "none"] /\ copies' = copies \ {u}
      /\ UNCHANGED <<up, swept, life, audio, dirs, line, serving, runner, fell>>
  BY DEF AiHandler, TakeAudio, SaveUpload, Whisper, CloseAudio, Hear, diskVars
<1>2. TypesInv'
  BY <1>1 DEF IInv, TypesInv, EarPoints
<1>3. PlaceInv' /\ DiskInv'
  BY <1>1 DEF IInv, PlaceInv, DiskInv
<1>4. CopyInv'
  BY <1>1 DEF IInv, TypesInv, CopyInv
<1> QED
  BY <1>2, <1>3, <1>4 DEF IInv

-----------------------------------------------------------------------------
(* The worker, from the line to the outcome. *)

LEMMA TakeKeeps ==
  ASSUME IInv, TakeUpload
  PROVE  IInv'
<1> DEFINE u == Head(line)
<1>1. /\ up /\ runner = "idle" /\ serving = NoUpload /\ line # <<>> /\ line \in Seq(Uploads)
      /\ life' = [life EXCEPT ![u] = "running"]
      /\ serving' = u /\ line' = Tail(line) /\ runner' = "mkdir"
      /\ UNCHANGED <<up, swept, audio, dirs, ears, copies, fell>>
  BY DEF TakeUpload, Become, diskVars, aiVars, IInv, TypesInv, PlaceInv
<1>2. /\ u \in Uploads /\ line' \in Seq(Uploads) /\ Len(line) \in Nat \ {0}
      /\ DOMAIN line = 1 .. Len(line) /\ DOMAIN line' = 1 .. (Len(line) - 1)
      /\ \A i \in DOMAIN line' : line'[i] = line[i + 1]
      /\ u = line[1]
  BY <1>1, HeadTailProperties, LenProperties, EmptySeq
<1>3. /\ life[u] = "queued"
      /\ \A i \in DOMAIN line' : i + 1 \in DOMAIN line /\ line'[i] # u
  <2>1. life[u] = "queued"
    BY <1>2 DEF IInv, PlaceInv
  <2>2. \A i \in DOMAIN line' : i + 1 \in DOMAIN line /\ i + 1 # 1 /\ 1 \in DOMAIN line
    BY <1>2
  <2> QED
    BY <1>2, <2>1, <2>2 DEF IInv, PlaceInv
<1>4. u # NoUpload
  BY <1>2, FilesAssumption
<1> HIDE DEF u
<1>5. TypesInv'
  BY <1>1, <1>2 DEF IInv, TypesInv, LifeStates, Live, RunnerPoints
<1>6. PlaceInv'
  <2>1. \A i \in DOMAIN line' : life'[line'[i]] = "queued"
    BY <1>1, <1>2, <1>3 DEF IInv, TypesInv, PlaceInv
  <2>2. \A i, k \in DOMAIN line' : line'[i] = line'[k] => i = k
    <3> SUFFICES ASSUME NEW i \in DOMAIN line', NEW k \in DOMAIN line', line'[i] = line'[k]
                 PROVE  i = k
      OBVIOUS
    <3>1. i \in Int /\ k \in Int /\ i + 1 \in DOMAIN line /\ k + 1 \in DOMAIN line
      BY <1>2, <1>3
    <3>2. line[i + 1] = line[k + 1]
      BY <1>2
    <3>3. i + 1 = k + 1
      BY <3>1, <3>2 DEF IInv, PlaceInv
    <3> QED
      BY <3>1, <3>3
  <2> QED
    BY <1>1, <1>2, <1>4, <2>1, <2>2 DEF IInv, TypesInv, PlaceInv
<1>7. DiskInv'
  BY <1>1, <1>2, <1>3, <1>4, FilesAssumption DEF IInv, TypesInv, PlaceInv, DiskInv, Over
<1>8. CopyInv'
  BY <1>1, <1>2, <1>3 DEF IInv, TypesInv, CopyInv
<1> QED
  BY <1>5, <1>6, <1>7, <1>8 DEF IInv

\* The steps of run on the files.
FileStep == MakeDir \/ SendAudio \/ RemoveDir \/ RemoveAudio

LEMMA FileStepKeeps ==
  ASSUME IInv, FileStep
  PROVE  IInv'
<1> USE DEF diskVars, aiVars, scratch, RunStep, Proceed
<1>1. /\ up /\ runner # "idle" /\ serving \in Uploads /\ serving # NoUpload
      /\ life[serving] = "running"
      /\ UNCHANGED <<up, swept, life, line, serving, fell>>
  BY FilesAssumption DEF FileStep, MakeDir, SendAudio, RemoveDir, RemoveAudio, IInv, PlaceInv
<1>2. CASE MakeDir
  <2>1. /\ runner = "mkdir"
        /\ \/ runner' = "start" /\ dirs' = dirs \cup {serving}
           \/ runner' = "removeAudio" /\ dirs' = dirs
        /\ UNCHANGED <<audio, ears, copies>>
    BY <1>2 DEF MakeDir
  <2>2. TypesInv' /\ PlaceInv'
    BY <1>1, <2>1 DEF IInv, TypesInv, PlaceInv, RunnerPoints
  <2>3. DiskInv'
    BY <1>1, <2>1 DEF IInv, DiskInv, InDir, RunnerPoints
  <2>4. CopyInv'
    BY <1>1, <2>1 DEF IInv, CopyInv
  <2> QED
    BY <2>2, <2>3, <2>4 DEF IInv
<1>3. CASE SendAudio
  <2>1. /\ runner = "transcribe" /\ runner' = "await"
        /\ ears' = [ears EXCEPT ![serving] = "asked"]
        /\ UNCHANGED <<audio, dirs, copies>>
    BY <1>3 DEF SendAudio
  <2>2. TypesInv' /\ PlaceInv'
    BY <1>1, <2>1 DEF IInv, TypesInv, PlaceInv, RunnerPoints, EarPoints
  <2>3. DiskInv'
    BY <1>1, <2>1 DEF IInv, DiskInv, InDir, RunnerPoints
  <2>4. CopyInv'
    BY <1>1, <2>1 DEF IInv, TypesInv, CopyInv
  <2> QED
    BY <2>2, <2>3, <2>4 DEF IInv
<1>4. CASE RemoveDir
  <2>1. /\ runner = "removeDir" /\ runner' = "removeAudio"
        /\ dirs' = dirs \ {serving}
        /\ UNCHANGED <<audio, ears, copies>>
    BY <1>4 DEF RemoveDir
  <2>2. TypesInv' /\ PlaceInv'
    BY <1>1, <2>1 DEF IInv, TypesInv, PlaceInv, RunnerPoints
  <2>3. DiskInv'
    BY <1>1, <2>1 DEF IInv, DiskInv, InDir, RunnerPoints
  <2>4. CopyInv'
    BY <1>1, <2>1 DEF IInv, CopyInv
  <2> QED
    BY <2>2, <2>3, <2>4 DEF IInv
<1>5. CASE RemoveAudio
  <2>1. /\ runner = "removeAudio" /\ runner' = "finish"
        /\ audio' = audio \ {serving}
        /\ UNCHANGED <<dirs, ears, copies>>
    BY <1>5 DEF RemoveAudio
  <2>2. TypesInv' /\ PlaceInv'
    BY <1>1, <2>1 DEF IInv, TypesInv, PlaceInv, RunnerPoints
  <2>3. DiskInv'
    BY <1>1, <2>1 DEF IInv, DiskInv, InDir, RunnerPoints
  <2>4. CopyInv'
    BY <1>1, <2>1 DEF IInv, CopyInv
  <2> QED
    BY <2>2, <2>3, <2>4 DEF IInv
<1> QED
  BY <1>2, <1>3, <1>4, <1>5 DEF FileStep

LEMMA FinishKeeps ==
  ASSUME IInv, FinishUpload
  PROVE  IInv'
<1>1. /\ up /\ runner = "finish" /\ serving \in Uploads /\ serving # NoUpload
      /\ life[serving] = "running"
      /\ runner' = "idle" /\ serving' = NoUpload
      /\ UNCHANGED <<up, swept, audio, dirs, line, ears, copies, fell>>
  BY FilesAssumption DEF FinishUpload, diskVars, aiVars, IInv, PlaceInv
<1>2. PICK out \in {"done", "failed"} : life' = [life EXCEPT ![serving] = out]
  BY DEF FinishUpload, Become
<1>3. TypesInv'
  BY <1>1, <1>2 DEF IInv, TypesInv, LifeStates, Over, RunnerPoints
<1>4. PlaceInv'
  BY <1>1, <1>2 DEF IInv, TypesInv, PlaceInv
<1>5. DiskInv'
  BY <1>1, <1>2 DEF IInv, TypesInv, PlaceInv, DiskInv, InDir, Over
<1>6. CopyInv'
  BY <1>1, <1>2 DEF IInv, TypesInv, CopyInv
<1> QED
  BY <1>3, <1>4, <1>5, <1>6 DEF IInv

-----------------------------------------------------------------------------
(* The processes come and go. *)

LEMMA AiFallsKeeps ==
  ASSUME IInv, AiFalls
  PROVE  IInv'
<1>1. /\ ears' = [u \in Uploads |-> "none"] /\ fell' = TRUE
      /\ UNCHANGED <<up, swept, life, audio, dirs, line, serving, runner, copies>>
  BY DEF AiFalls, diskVars, memoryVars
<1>2. TypesInv'
  BY <1>1 DEF IInv, TypesInv, EarPoints
<1>3. PlaceInv' /\ DiskInv'
  BY <1>1 DEF IInv, PlaceInv, DiskInv
<1>4. CopyInv'
  BY <1>1 DEF IInv, TypesInv, CopyInv
<1> QED
  BY <1>2, <1>3, <1>4 DEF IInv

LEMMA CrashKeeps ==
  ASSUME IInv, Crash
  PROVE  IInv'
<1>1. /\ up' = FALSE /\ line' = <<>> /\ serving' = NoUpload /\ runner' = "idle"
      /\ life' = [u \in Uploads |-> IF life[u] \in Live THEN "lost" ELSE life[u]]
      /\ UNCHANGED <<swept, audio, dirs, ears, copies, fell>>
  BY DEF Crash, diskVars, aiVars
<1>2. TypesInv'
  BY <1>1, EmptySeq DEF IInv, TypesInv, LifeStates, Live, Over, RunnerPoints
<1>3. PlaceInv'
  BY <1>1, EmptySeq DEF IInv, TypesInv, PlaceInv, LifeStates, Live, Over
<1>4. DiskInv'
  BY <1>1 DEF IInv, TypesInv, PlaceInv, DiskInv, Live, Over
<1>5. CopyInv'
  BY <1>1, FilesAssumption DEF IInv, TypesInv, CopyInv, Live
<1> QED
  BY <1>2, <1>3, <1>4, <1>5 DEF IInv

LEMMA BootKeeps ==
  ASSUME IInv, Boot
  PROVE  IInv'
<1>1. /\ ~up /\ up' = TRUE
      /\ \/ swept' = TRUE  /\ dirs' = {}
         \/ swept' = FALSE /\ dirs' = dirs
      /\ UNCHANGED <<life, audio, line, serving, runner, ears, copies, fell>>
  BY DEF Boot, memoryVars, aiVars
<1>2. TypesInv' /\ PlaceInv' /\ CopyInv'
  BY <1>1 DEF IInv, TypesInv, PlaceInv, CopyInv
<1>3. DiskInv'
  BY <1>1 DEF IInv, DiskInv
<1> QED
  BY <1>2, <1>3 DEF IInv

-----------------------------------------------------------------------------
(* The theorems. *)

LEMMA InitEstablishes == Init => IInv
<1> SUFFICES ASSUME Init PROVE IInv
  OBVIOUS
<1> USE DEF Init, Fresh
<1>1. TypesInv
  BY EmptySeq DEF TypesInv, LifeStates, RunnerPoints, EarPoints
<1>2. PlaceInv
  BY EmptySeq DEF PlaceInv
<1>3. DiskInv /\ CopyInv
  BY FilesAssumption DEF DiskInv, CopyInv, Over
<1> QED
  BY <1>1, <1>2, <1>3 DEF IInv

LEMMA StepKeeps == IInv /\ [Next]_vars => IInv'
<1> SUFFICES ASSUME IInv, [Next]_vars PROVE IInv'
  OBVIOUS
<1>1. ASSUME NEW u \in Uploads, Upload(u) PROVE IInv'
  BY <1>1, UploadKeeps
<1>2. ASSUME NEW u \in Uploads, AiHandler(u) PROVE IInv'
  BY <1>2, AiHandlerKeeps
<1>3. CASE Worker
  <2>1. TakeUpload \/ FileStep \/ Quiet \/ FinishUpload
    BY <1>3 DEF Worker, FileStep, Quiet
  <2> QED
    BY <2>1, TakeKeeps, FileStepKeeps, QuietKeeps, FinishKeeps
<1>4. CASE Crash \/ Boot \/ AiFalls
  BY <1>4, CrashKeeps, BootKeeps, AiFallsKeeps
<1>5. CASE UNCHANGED vars
  BY <1>5 DEF vars, diskVars, memoryVars, aiVars, IInv, TypesInv, PlaceInv, DiskInv, CopyInv
<1> QED
  BY <1>1, <1>2, <1>3, <1>4, <1>5 DEF Next

\* The inductive invariant: where an upload is tells which of its files exist.
THEOREM Invariance == Spec => []IInv
BY InitEstablishes, StepKeeps, PTL DEF Spec

\* Working files never accumulate, whatever crashes and whatever a failed sweep left.
THEOREM WorkDirsStayFlat == Spec => []WorkDirFlat
<1>1. IInv => WorkDirFlat
  BY DEF IInv, TypesInv, DiskInv, WorkDirFlat
<1> QED
  BY <1>1, Invariance, PTL

\* On every path through handlers and runner an upload that is over has no file left in
\* qa-core, and qa-ai has no copy without its handler unless a handler was killed.
THEOREM OverLeavesNothing == Spec => []OverIsClean
<1>1. IInv => OverIsClean
  <2> SUFFICES ASSUME IInv, NEW u \in Uploads
               PROVE  /\ life[u] \in Over => u \notin audio \cup dirs
                      /\ u \in copies => ears[u] # "none" \/ fell
    BY DEF OverIsClean
  <2>1. life[u] \in Over => u # serving
    BY FilesAssumption DEF IInv, PlaceInv, Over
  <2> QED
    BY <2>1 DEF IInv, DiskInv, CopyInv, Over
<1> QED
  BY <1>1, Invariance, PTL

\* The audio outlives the request that brought it: it is there from the moment the
\* upload is accepted until the runner removes it.
THEOREM AudioStaysForTheRunner == Spec => []AudioOutlivesRequest
<1>1. IInv => AudioOutlivesRequest
  BY FilesAssumption DEF IInv, DiskInv, AudioOutlivesRequest
<1> QED
  BY <1>1, Invariance, PTL

-----------------------------------------------------------------------------
(* What chunkText returns, for every transcript and every window. *)

Spans == [first : Nat, last : Nat]

\* A list of windows that has all the words after start: each fits in a call, and two
\* neighbours share the overlap, when it is less than a window.
Covers(list, start, n) ==
  /\ list \in Seq(Spans) /\ Len(list) \in Nat \ {0}
  /\ list[1].first = start + 1
  /\ WordsOf(list) = (start + 1) .. n
  /\ \A k \in 1 .. Len(list) : list[k].last - list[k].first < ChunkWords
  /\ ChunkWords > OverlapWords =>
       \A k \in 2 .. Len(list) : list[k-1].last - list[k].first + 1 = OverlapWords

\* The windows from start on, with those that from has of what follows.
Cut(from, start, n) ==
  IF start + ChunkWords >= n THEN <<Window(start, n)>>
  ELSE <<Window(start, n)>> \o from[start + Stride]

\* The loop comes forward, by no more than a window.
LEMMA StrideForward == Stride \in 1 .. ChunkWords
BY ChunksAssumption DEF Stride

LEMMA WindowSpan ==
  ASSUME NEW n \in Nat, NEW start \in 0 .. n
  PROVE  Window(start, n) \in Spans
<1>1. start + 1 \in Nat /\ start + ChunkWords \in Nat
  BY ChunksAssumption
<1> QED
  BY <1>1 DEF Window, Spans

\* A window in front of others.
LEMMA InFrontOf ==
  ASSUME NEW w \in Spans, NEW rest \in Seq(Spans)
  PROVE  /\ <<w>> \o rest \in Seq(Spans)
         /\ Len(<<w>> \o rest) = Len(rest) + 1 /\ Len(rest) \in Nat
         /\ (<<w>> \o rest)[1] = w
         /\ \A k \in 1 .. Len(rest) : (<<w>> \o rest)[k + 1] = rest[k]
         /\ WordsOf(<<w>> \o rest) = (w.first .. w.last) \cup WordsOf(rest)
<1> DEFINE both == <<w>> \o rest
<1>1. <<w>> \in Seq(Spans) /\ Len(<<w>>) = 1 /\ <<w>>[1] = w
  OBVIOUS
<1>2. /\ both \in Seq(Spans) /\ Len(both) = 1 + Len(rest)
      /\ \A i \in 1 .. 1 + Len(rest) : both[i] = IF i <= 1 THEN <<w>>[i] ELSE rest[i - 1]
  BY <1>1, ConcatProperties
<1>3. /\ Len(rest) \in Nat /\ DOMAIN rest = 1 .. Len(rest) /\ DOMAIN both = 1 .. Len(both)
  BY <1>2, LenProperties
<1> HIDE DEF both
<1>4. both[1] = w
  BY <1>1, <1>2, <1>3
<1>5. \A k \in 1 .. Len(rest) : both[k + 1] = rest[k] /\ k + 1 \in DOMAIN both
  <2> SUFFICES ASSUME NEW k \in 1 .. Len(rest) PROVE both[k + 1] = rest[k] /\ k + 1 \in DOMAIN both
    OBVIOUS
  <2>1. k + 1 \in 1 .. 1 + Len(rest) /\ ~ (k + 1 <= 1) /\ (k + 1) - 1 = k
    BY <1>3
  <2> QED
    BY <1>2, <1>3, <2>1
<1>6. \A i \in DOMAIN both : i = 1 \/ (i - 1 \in DOMAIN rest /\ both[i] = rest[i - 1])
  <2> SUFFICES ASSUME NEW i \in DOMAIN both, i # 1 PROVE i - 1 \in DOMAIN rest /\ both[i] = rest[i - 1]
    OBVIOUS
  <2>1. i - 1 \in 1 .. Len(rest) /\ (i - 1) + 1 = i
    BY <1>2, <1>3
  <2> QED
    BY <1>3, <1>5, <2>1
<1>7. 1 \in DOMAIN both
  BY <1>2, <1>3
<1>8. WordsOf(both) = (w.first .. w.last) \cup WordsOf(rest)
  <2>1. ASSUME NEW x \in WordsOf(both) PROVE x \in (w.first .. w.last) \cup WordsOf(rest)
    <3>1. PICK i \in DOMAIN both : x \in both[i].first .. both[i].last
      BY <2>1 DEF WordsOf
    <3> QED
      BY <1>4, <1>6, <3>1 DEF WordsOf
  <2>2. ASSUME NEW x \in w.first .. w.last PROVE x \in WordsOf(both)
    BY <1>4, <1>7, <2>2 DEF WordsOf
  <2>3. ASSUME NEW x \in WordsOf(rest) PROVE x \in WordsOf(both)
    <3>1. PICK i \in DOMAIN rest : x \in rest[i].first .. rest[i].last
      BY <2>3 DEF WordsOf
    <3>2. i + 1 \in DOMAIN both /\ both[i + 1] = rest[i]
      BY <1>3, <1>5
    <3> QED
      BY <3>1, <3>2 DEF WordsOf
  <2> QED
    BY <2>1, <2>2, <2>3
<1> QED
  BY <1>2, <1>3, <1>4, <1>5, <1>8 DEF both

LEMMA LastWindow ==
  ASSUME NEW n \in Nat, NEW start \in 0 .. (n - 1), start + ChunkWords >= n
  PROVE  Covers(<<Window(start, n)>>, start, n)
<1> DEFINE w == Window(start, n)
<1>1. start \in Nat /\ start + 1 \in Nat /\ start \in 0 .. n
  OBVIOUS
<1>2. w \in Spans /\ w.first = start + 1 /\ w.last = n
  <2>1. ~ (start + ChunkWords < n)
    BY <1>1, ChunksAssumption
  <2>2. w \in Spans
    BY <1>1, WindowSpan
  <2> QED
    BY <2>1, <2>2 DEF Window
<1>3. w.last - w.first < ChunkWords
  BY <1>1, <1>2, ChunksAssumption
<1> HIDE DEF w
<1>4. <<w>> \in Seq(Spans) /\ Len(<<w>>) = 1 /\ <<w>>[1] = w /\ DOMAIN <<w>> = {1}
  BY <1>2
<1>5. WordsOf(<<w>>) = w.first .. w.last
  BY <1>4 DEF WordsOf
<1>6. \A k \in 1 .. 1 : k = 1
  OBVIOUS
<1>7. 2 .. 1 = {}
  OBVIOUS
<1>8. Covers(<<w>>, start, n)
  BY <1>2, <1>3, <1>4, <1>5, <1>6, <1>7 DEF Covers
<1> QED
  BY <1>8 DEF w

LEMMA AnotherWindow ==
  ASSUME NEW n \in Nat, NEW start \in 0 .. (n - 1), start + ChunkWords < n,
         NEW rest, Covers(rest, start + Stride, n)
  PROVE  Covers(<<Window(start, n)>> \o rest, start, n)
<1> DEFINE w == Window(start, n)
           both == <<w>> \o rest
<1>1. start \in Nat /\ start \in 0 .. n /\ Stride \in 1 .. ChunkWords
  BY StrideForward
<1>2. w \in Spans /\ w.first = start + 1 /\ w.last = start + ChunkWords
  BY <1>1, WindowSpan DEF Window
<1> HIDE DEF w
<1>3. rest \in Seq(Spans) /\ WordsOf(rest) = (start + Stride + 1) .. n
      /\ rest[1].first = start + Stride + 1 /\ Len(rest) \in Nat \ {0}
  BY DEF Covers
<1>4. /\ both \in Seq(Spans) /\ Len(both) = Len(rest) + 1
      /\ both[1] = w
      /\ \A k \in 1 .. Len(rest) : both[k + 1] = rest[k]
      /\ WordsOf(both) = (w.first .. w.last) \cup WordsOf(rest)
  BY <1>2, <1>3, InFrontOf
<1> HIDE DEF both
<1>5. WordsOf(both) = (start + 1) .. n
  <2>1. \A s, d, c, m \in Nat : 1 <= d /\ d <= c /\ s + c < m =>
          ((s + 1) .. (s + c)) \cup ((s + d + 1) .. m) = (s + 1) .. m
    OBVIOUS
  <2>2. Stride \in Nat /\ 1 <= Stride /\ Stride <= ChunkWords /\ ChunkWords \in Nat
    BY <1>1, ChunksAssumption
  <2>3. ((start + 1) .. (start + ChunkWords)) \cup ((start + Stride + 1) .. n) = (start + 1) .. n
    BY <1>1, <2>1, <2>2
  <2> QED
    BY <1>2, <1>3, <1>4, <2>3
<1>6. \A k \in 1 .. Len(both) : k = 1 \/ (k - 1 \in 1 .. Len(rest) /\ both[k] = rest[k - 1])
  <2> SUFFICES ASSUME NEW k \in 1 .. Len(both), k # 1
               PROVE  k - 1 \in 1 .. Len(rest) /\ both[k] = rest[k - 1]
    OBVIOUS
  <2>1. k - 1 \in 1 .. Len(rest) /\ (k - 1) + 1 = k
    BY <1>3, <1>4
  <2> QED
    BY <1>4, <2>1
<1>7. \A k \in 1 .. Len(both) : both[k].last - both[k].first < ChunkWords
  <2>1. w.last - w.first < ChunkWords
    BY <1>1, <1>2, ChunksAssumption
  <2> QED
    BY <1>4, <1>6, <2>1 DEF Covers
<1>8. ASSUME ChunkWords > OverlapWords, NEW k \in 2 .. Len(both)
      PROVE  both[k-1].last - both[k].first + 1 = OverlapWords
  <2>1. CASE k = 2
    <3>1. both[k - 1] = w /\ both[k] = rest[1]
      BY <1>3, <1>4, <1>6, <2>1
    <3>2. Stride = ChunkWords - OverlapWords
      BY <1>8 DEF Stride
    <3>3. w.last = start + ChunkWords /\ rest[1].first = start + Stride + 1
      BY <1>2, <1>3
    <3>4. both[k - 1].last = start + ChunkWords
          /\ both[k].first = start + (ChunkWords - OverlapWords) + 1
      BY <3>1, <3>2, <3>3
    <3> QED
      BY <1>1, <3>4, ChunksAssumption
  <2>2. CASE k # 2
    <3>1. k \in 1 .. Len(both) /\ k - 1 \in 1 .. Len(both) /\ k # 1 /\ k - 1 # 1 /\ k - 1 \in 2 .. Len(rest)
      BY <1>3, <1>4, <1>8, <2>2
    <3>2. both[k] = rest[k - 1] /\ both[k - 1] = rest[(k - 1) - 1]
      BY <1>6, <3>1
    <3>3. rest[(k - 1) - 1].last - rest[k - 1].first + 1 = OverlapWords
      BY <1>8, <3>1 DEF Covers
    <3> QED
      BY <3>2, <3>3
  <2> QED
    BY <2>1, <2>2
<1>9. Covers(both, start, n)
  BY <1>2, <1>3, <1>4, <1>5, <1>7, <1>8 DEF Covers
<1> QED
  BY <1>9 DEF both, w

\* Windows from each start: those of the starts from n - k on, the windows of a start
\* depending on those of a later one.
CutsLast(from, k, n) ==
  /\ from \in [(n - k) .. n -> Seq(Spans)]
  /\ \A start \in (n - k) .. n : from[start] = Cut(from, start, n)

LEMMA CutsExist ==
  ASSUME NEW n \in Nat
  PROVE  \E from : CutsLast(from, n, n)
<1> DEFINE T == {k \in Nat : k <= n => \E from : CutsLast(from, k, n)}
<1>1. 0 \in T
  <2> DEFINE from == [start \in (n - 0) .. n |-> <<Window(start, n)>>]
  <2>1. \A start \in (n - 0) .. n : start = n /\ start \in 0 .. n /\ start + ChunkWords >= n
    BY ChunksAssumption
  <2>2. \A start \in (n - 0) .. n : <<Window(start, n)>> \in Seq(Spans)
    <3> SUFFICES ASSUME NEW start \in (n - 0) .. n PROVE <<Window(start, n)>> \in Seq(Spans)
      OBVIOUS
    <3>1. Window(start, n) \in Spans
      BY <2>1, WindowSpan
    <3> QED
      BY <3>1
  <2>3. CutsLast(from, 0, n)
    BY <2>1, <2>2 DEF CutsLast, Cut
  <2> QED
    BY <2>3
<1>2. ASSUME NEW k \in Nat, k \in T PROVE k + 1 \in T
  <2> SUFFICES ASSUME k + 1 <= n PROVE \E from : CutsLast(from, k + 1, n)
    OBVIOUS
  <2>1. PICK from : CutsLast(from, k, n)
    BY <1>2
  <2> DEFINE here == n - (k + 1)
             more == [start \in here .. n |-> IF start = here THEN Cut(from, here, n) ELSE from[start]]
  <2>2. /\ here \in 0 .. (n - 1)
        /\ \A start \in here .. n : start = here \/ start \in (n - k) .. n
        /\ \A start \in (n - k) .. n : start \in here .. n /\ start # here
    OBVIOUS
  <2>3. \A start \in here .. n : start + ChunkWords < n =>
          start + Stride \in (n - k) .. n
    BY <2>2, StrideForward, ChunksAssumption
  <2> HIDE DEF here
  <2>4. Cut(from, here, n) \in Seq(Spans)
    <3>1. Window(here, n) \in Spans
      BY <2>2, WindowSpan
    <3>2. <<Window(here, n)>> \in Seq(Spans)
      BY <3>1
    <3>3. here + ChunkWords < n => <<Window(here, n)>> \o from[here + Stride] \in Seq(Spans)
      <4> SUFFICES ASSUME here + ChunkWords < n
                   PROVE  <<Window(here, n)>> \o from[here + Stride] \in Seq(Spans)
        OBVIOUS
      <4>1. here \in here .. n
        BY <2>2
      <4>2. from[here + Stride] \in Seq(Spans)
        BY <2>1, <2>3, <4>1 DEF CutsLast
      <4> QED
        BY <3>1, <4>2, InFrontOf
    <3>4. here + ChunkWords < n \/ here + ChunkWords >= n
      BY <2>2, ChunksAssumption
    <3> QED
      BY <3>2, <3>3, <3>4 DEF Cut
  <2>5. more \in [here .. n -> Seq(Spans)]
    <3> SUFFICES ASSUME NEW start \in here .. n
                 PROVE  (IF start = here THEN Cut(from, here, n) ELSE from[start]) \in Seq(Spans)
      OBVIOUS
    <3> QED
      BY <2>1, <2>2, <2>4 DEF CutsLast
  <2>6. ASSUME NEW start \in here .. n PROVE more[start] = Cut(more, start, n)
    <3>1. more[start] = Cut(from, start, n)
      <4>1. CASE start = here
        BY <4>1
      <4>2. CASE start # here
        BY <2>1, <2>2, <4>2 DEF CutsLast
      <4> QED
        BY <4>1, <4>2
    <3>2. start + ChunkWords < n => more[start + Stride] = from[start + Stride]
      BY <2>2, <2>3
    <3>3. start + ChunkWords < n \/ start + ChunkWords >= n
      BY <2>2, ChunksAssumption
    <3> HIDE DEF more
    <3> QED
      BY <3>1, <3>2, <3>3 DEF Cut
  <2> HIDE DEF more
  <2>7. CutsLast(more, k + 1, n)
    BY <2>5, <2>6 DEF CutsLast, here
  <2> QED
    BY <2>7
<1>3. n \in T
  <2> HIDE DEF T
  <2> QED
    BY <1>1, <1>2, NumberInduction
<1> QED
  BY <1>3

\* The windows from each start on are those of the loop.
LEMMA WindowsLoop ==
  ASSUME NEW n \in Nat
  PROVE  \A start \in 0 .. n : WindowsFrom(n)[start] = Cut(WindowsFrom(n), start, n)
<1> DEFINE Equation(from) ==
             from = [start \in 0 .. n |->
                       IF start + ChunkWords >= n THEN <<Window(start, n)>>
                       ELSE <<Window(start, n)>> \o from[start + Stride]]
<1>1. \E from : Equation(from)
  <2>1. PICK from : CutsLast(from, n, n)
    BY CutsExist
  <2>2. n - n = 0
    OBVIOUS
  <2>3. from \in [0 .. n -> Seq(Spans)] /\ \A start \in 0 .. n : from[start] = Cut(from, start, n)
    BY <2>1, <2>2 DEF CutsLast
  <2>4. Equation(from)
    BY <2>3 DEF Cut
  <2> HIDE DEF Equation
  <2> QED
    BY <2>4
<1>2. Equation(WindowsFrom(n))
  BY <1>1 DEF WindowsFrom
<1>3. ASSUME NEW start \in 0 .. n
      PROVE  WindowsFrom(n)[start] = IF start + ChunkWords >= n THEN <<Window(start, n)>>
                       ELSE <<Window(start, n)>> \o WindowsFrom(n)[start + Stride]
  BY <1>2
<1> QED
  BY <1>3 DEF Cut

\* chunkText covers the transcript, whatever its length: no words lost at a seam or the
\* end, no window too large, and every seam seen by both its windows.
LEMMA ChunksCover ==
  ASSUME NEW n \in Nat \ {0}
  PROVE  Covers(ChunkText(n), 0, n)
<1> DEFINE T == {k \in Nat : k <= n => \A start \in (n - k) .. (n - 1) :
                               Covers(WindowsFrom(n)[start], start, n)}
<1>1. 0 \in T
  <2>1. (n - 0) .. (n - 1) = {}
    OBVIOUS
  <2> QED
    BY <2>1
<1>2. ASSUME NEW k \in Nat, k \in T PROVE k + 1 \in T
  <2> SUFFICES ASSUME k + 1 <= n, NEW start \in (n - (k + 1)) .. (n - 1)
               PROVE  Covers(WindowsFrom(n)[start], start, n)
    OBVIOUS
  <2>1. start \in 0 .. (n - 1) /\ start \in 0 .. n /\ k <= n
    OBVIOUS
  <2>2. \A later \in (n - k) .. (n - 1) : Covers(WindowsFrom(n)[later], later, n)
    BY <1>2, <2>1
  <2>3. WindowsFrom(n)[start] = Cut(WindowsFrom(n), start, n)
    BY <2>1, WindowsLoop
  <2>4. CASE start + ChunkWords >= n
    BY <2>1, <2>3, <2>4, LastWindow DEF Cut
  <2>5. CASE start + ChunkWords < n
    <3>1. start + Stride \in (n - k) .. (n - 1) /\ ~ (start + ChunkWords >= n)
      BY <2>1, <2>5, StrideForward, ChunksAssumption
    <3>2. Covers(WindowsFrom(n)[start + Stride], start + Stride, n)
      BY <2>2, <3>1
    <3>3. WindowsFrom(n)[start] = <<Window(start, n)>> \o WindowsFrom(n)[start + Stride]
      BY <2>3, <3>1 DEF Cut
    <3> QED
      BY <2>1, <2>5, <3>2, <3>3, AnotherWindow
  <2> QED
    BY <2>1, <2>4, <2>5, ChunksAssumption
<1>3. n \in T
  <2> HIDE DEF T
  <2> QED
    BY <1>1, <1>2, NumberInduction
<1>4. 0 \in (n - n) .. (n - 1)
  OBVIOUS
<1>5. Covers(WindowsFrom(n)[0], 0, n)
  BY <1>3, <1>4
<1> QED
  BY <1>5 DEF ChunkText

-----------------------------------------------------------------------------
(* The minutes: the plan and the notes, wherever the runner stands. *)

\* All m steps are done, and the m before the last one, which runs.
AllDone(p, m) ==
  p \in Seq(StepStates) /\ Len(p) = m /\ \A i \in 1 .. m : p[i] = "done"
LastRuns(p, m) ==
  /\ p \in Seq(StepStates) /\ Len(p) = m + 1 /\ p[m + 1] = "running"
  /\ \A i \in 1 .. m : p[i] = "done"

\* The notes of the chunks before the one the loop is at.
NotesSoFar ==
  /\ chunk = Len(lines) + 1
  /\ Len(lines) <= Len(ChunkText(words))
  /\ \A i \in 1 .. Len(lines) : lines[i] = ChunkText(words)[i]

NoNotes == lines = <<>> /\ chunk = 1

RunTypes ==
  /\ boots \in 1 .. MaxBoots /\ Len(line) <= Buffer
  /\ words \in Transcripts \cup {0} /\ chunk \in Nat /\ lines \in Seq(Spans)
  /\ plan \in Seq(StepStates) /\ err \in BOOLEAN /\ heard \in BOOLEAN
  /\ copies \subseteq Uploads /\ fell \in BOOLEAN

NotesInv ==
  /\ runner \in {"idle", "mkdir", "start", "transcribe", "await", "chunk"} => NoNotes
  /\ runner \in {"transcribe", "await"} => LastRuns(plan, 0)
  /\ runner = "chunk" => AllDone(plan, 1)
  /\ runner = "map" => NotesSoFar /\ AllDone(plan, Len(lines) + 1)
  /\ runner = "extract" =>
       /\ NotesSoFar /\ LastRuns(plan, Len(lines) + 1)
       /\ chunk <= Len(ChunkText(words))
  /\ runner \in {"reduce", "consolidate"} =>
       lines = ChunkText(words) /\ LastRuns(plan, Len(lines) + 1)
  /\ runner \in {"removeDir", "removeAudio", "finish"} /\ ~err =>
       lines = ChunkText(words) /\ AllDone(plan, Len(lines) + 2)

RunInv == RunTypes /\ NotesInv

\* A new step runs after the done ones; settling it as done leaves all done.
LEMMA PlanOpens ==
  ASSUME NEW p, NEW m \in Nat, AllDone(p, m)
  PROVE  LastRuns(Opened(p), m)
<1>1. p \in Seq(StepStates) /\ Len(p) = m /\ \A i \in 1 .. m : p[i] = "done"
  BY DEF AllDone
<1> DEFINE q == Append(p, "pending")
<1>2. /\ q \in Seq(StepStates) /\ Len(q) = m + 1
      /\ \A i \in 1 .. m : q[i] = p[i]
  BY <1>1, AppendProperties DEF StepStates
<1> HIDE DEF q
<1>3. DOMAIN q = 1 .. m + 1 /\ m + 1 \in DOMAIN q /\ \A i \in 1 .. m : i \in DOMAIN q /\ i # m + 1
  BY <1>2, LenProperties
<1> DEFINE r == [q EXCEPT ![m + 1] = "running"]
<1>4. Opened(p) = r
  BY <1>1, <1>3 DEF Opened, SetStep, Appended, q
<1>5. r \in Seq(StepStates) /\ Len(r) = m + 1
  BY <1>2, <1>3, ExceptSeq DEF StepStates
<1>6. r[m + 1] = "running" /\ \A i \in 1 .. m : r[i] = "done"
  BY <1>1, <1>2, <1>3
<1> QED
  BY <1>4, <1>5, <1>6 DEF LastRuns

LEMMA PlanSettles ==
  ASSUME NEW p, NEW m \in Nat, LastRuns(p, m)
  PROVE  AllDone(SetStep(p, Len(p), "done"), m + 1)
<1>1. /\ p \in Seq(StepStates) /\ Len(p) = m + 1
      /\ \A i \in 1 .. m : p[i] = "done"
  BY DEF LastRuns
<1>2. DOMAIN p = 1 .. m + 1 /\ m + 1 \in DOMAIN p
  BY <1>1, LenProperties
<1> DEFINE r == [p EXCEPT ![m + 1] = "done"]
<1>3. SetStep(p, Len(p), "done") = r
  BY <1>1, <1>2 DEF SetStep
<1>4. r \in Seq(StepStates) /\ Len(r) = m + 1
  BY <1>1, <1>2, ExceptSeq DEF StepStates
<1>5. \A i \in 1 .. m + 1 : r[i] = "done"
  <2>1. \A i \in 1 .. m + 1 : i \in DOMAIN p /\ (i = m + 1 \/ i \in 1 .. m)
    BY <1>2
  <2> QED
    BY <1>1, <2>1
<1> QED
  BY <1>3, <1>4, <1>5 DEF AllDone

LEMMA PlanTyped ==
  ASSUME NEW p \in Seq(StepStates), NEW s \in StepStates
  PROVE  Opened(p) \in Seq(StepStates) /\ SetStep(p, Len(p), s) \in Seq(StepStates)
<1>1. \A q \in Seq(StepStates) : \A i : SetStep(q, i, s) \in Seq(StepStates)
  BY ExceptSeq DEF SetStep
<1>2. \A q \in Seq(StepStates) : \A i : SetStep(q, i, "running") \in Seq(StepStates)
  BY ExceptSeq DEF SetStep, StepStates
<1>3. Appended(p) \in Seq(StepStates)
  BY AppendProperties DEF Appended, StepStates
<1> QED
  BY <1>1, <1>2, <1>3 DEF Opened

\* No transcript, no chunks.
LEMMA ChunksTyped ==
  ASSUME NEW n \in Nat
  PROVE  ChunkText(n) \in Seq(Spans) /\ Len(ChunkText(n)) \in Nat
<1>1. CASE n = 0
  BY <1>1, EmptySeq DEF ChunkText
<1>2. CASE n # 0
  BY <1>2, ChunksCover DEF Covers
<1> QED
  BY <1>1, <1>2

LEMMA NumberOfWords == RunTypes => words \in Nat
BY FilesAssumption DEF RunTypes

\* What the handlers do leaves the run alone, but for the answer it waits for.
LEMMA HandlersKeepRun ==
  ASSUME TypesInv, RunInv, (\E u \in Uploads : Upload(u) \/ AiHandler(u)) \/ AiFalls
  PROVE  RunInv'
<1> USE DEF diskVars, memoryVars, aiVars, scratch
<1>1. UNCHANGED <<boots, runner, words, chunk, lines, plan, err>>
  BY DEF Upload, CreateTemp, CopyUpload, SubmitUpload, RefuseUpload, DropUpload,
         AiHandler, TakeAudio, SaveUpload, Whisper, CloseAudio, Hear, AiFalls
<1>2. Len(line') <= Buffer
  <2>1. CASE \E u \in Uploads : SubmitUpload(u)
    <3>1. PICK u \in Uploads : SubmitUpload(u)
      BY <2>1
    <3>2. Len(line) < Buffer /\ line' = Append(line, u)
      BY <3>1 DEF SubmitUpload
    <3>3. Len(line') = Len(line) + 1 /\ Len(line) \in Nat
      BY <3>2, AppendProperties, LenProperties DEF TypesInv
    <3> QED
      BY <3>2, <3>3, FilesAssumption
  <2>2. CASE ~ \E u \in Uploads : SubmitUpload(u)
    <3>1. line' = line
      BY <2>2 DEF Upload, CreateTemp, CopyUpload, RefuseUpload, DropUpload,
             AiHandler, TakeAudio, SaveUpload, Whisper, CloseAudio, Hear, AiFalls
    <3> QED
      BY <3>1 DEF RunInv, RunTypes
  <2> QED
    BY <2>1, <2>2
<1>3. heard' \in BOOLEAN
  BY DEF Upload, CreateTemp, CopyUpload, SubmitUpload, RefuseUpload, DropUpload,
         AiHandler, TakeAudio, SaveUpload, Whisper, CloseAudio, Hear, AiFalls, RunInv, RunTypes
<1>4. copies' \subseteq Uploads /\ fell' \in BOOLEAN
  BY DEF Upload, CreateTemp, CopyUpload, SubmitUpload, RefuseUpload, DropUpload,
         AiHandler, TakeAudio, SaveUpload, Whisper, CloseAudio, Hear, AiFalls, RunInv, RunTypes
<1>5. RunTypes'
  BY <1>1, <1>2, <1>3, <1>4 DEF RunInv, RunTypes
<1>6. NotesInv'
  BY <1>1 DEF RunInv, NotesInv, NoNotes, NotesSoFar
<1> QED
  BY <1>5, <1>6 DEF RunInv

\* The process starts, stops, takes an upload and records its outcome with nothing of a
\* run in hand.
LEMMA EndsKeepRun ==
  ASSUME IInv, RunInv, TakeUpload \/ FinishUpload \/ Crash \/ Boot
  PROVE  RunInv'
<1> USE DEF diskVars, memoryVars, aiVars, scratch
<1>1. /\ runner' \in {"idle", "mkdir"}
      /\ NoNotes'
      /\ copies' = copies /\ fell' = fell
  <2>1. ~up => runner = "idle"
    BY DEF IInv, PlaceInv
  <2> QED
    BY <2>1 DEF TakeUpload, FinishUpload, Crash, Boot, RunInv, NotesInv, NoNotes
<1>2. boots' \in 1 .. MaxBoots
  BY FilesAssumption DEF TakeUpload, FinishUpload, Crash, Boot, RunInv, RunTypes
<1>3. Len(line') <= Buffer
  <2>1. CASE TakeUpload
    <3>1. line # <<>> /\ line' = Tail(line) /\ line \in Seq(Uploads)
      BY <2>1 DEF TakeUpload, IInv, TypesInv
    <3>2. Len(line') = Len(line) - 1 /\ Len(line) \in Nat
      BY <3>1, HeadTailProperties, LenProperties
    <3>3. Len(line) <= Buffer
      BY DEF RunInv, RunTypes
    <3> QED
      BY <3>2, <3>3, FilesAssumption
  <2>2. CASE ~ TakeUpload
    <3>1. line' = line \/ line' = <<>>
      BY <2>2 DEF FinishUpload, Crash, Boot
    <3> QED
      BY <3>1, EmptySeq, FilesAssumption DEF RunInv, RunTypes
  <2> QED
    BY <2>1, <2>2
<1>4. /\ words' \in Transcripts \cup {0}
      /\ plan' \in Seq(StepStates) /\ err' \in BOOLEAN /\ heard' \in BOOLEAN
  BY EmptySeq DEF TakeUpload, FinishUpload, Crash, Boot, RunInv, RunTypes
<1>5. RunTypes'
  BY <1>1, <1>2, <1>3, <1>4, EmptySeq DEF RunInv, RunTypes, NoNotes
<1>6. NotesInv'
  BY <1>1 DEF NotesInv
<1> QED
  BY <1>5, <1>6 DEF RunInv

\* What a step of run shares with every other.
LEMMA StepShares ==
  ASSUME NEW from, NEW to, NEW p, NEW e, RunStep(from, to, p, e)
  PROVE  /\ runner = from /\ runner' = to /\ plan' = p /\ err' = e
         /\ UNCHANGED <<boots, line, copies, fell>>
BY DEF RunStep, aiVars

\* Giving up leaves a plan and nothing else to keep.
LEMMA FailuresKeepRun ==
  ASSUME RunInv,
         \/ TranscriptionFails \/ ExtractFails
         \/ /\ Transcribed \/ WriteChunks \/ Extracted \/ ReadPartials \/ Consolidate
            /\ err'
  PROVE  RunInv'
<1>1. /\ runner' = "removeDir" /\ err' = TRUE
      /\ plan' = plan \/ plan' = Settle("failed")
      /\ UNCHANGED <<words, chunk, lines, heard, boots, line, copies, fell>>
  <2> USE DEF Proceed, GiveUp, RunStep, scratch, aiVars
  <2>1. CASE TranscriptionFails \/ ExtractFails
    BY <2>1 DEF TranscriptionFails, ExtractFails
  <2>2. CASE Transcribed /\ err'
    BY <2>2 DEF Transcribed
  <2>3. CASE WriteChunks /\ err'
    BY <2>3 DEF WriteChunks
  <2>4. CASE Extracted /\ err'
    BY <2>4 DEF Extracted
  <2>5. CASE (ReadPartials \/ Consolidate) /\ err'
    BY <2>5 DEF ReadPartials, Consolidate
  <2> QED
    BY <2>1, <2>2, <2>3, <2>4, <2>5
<1>2. plan' \in Seq(StepStates)
  BY <1>1, PlanTyped DEF RunInv, RunTypes, Settle, StepStates
<1>3. RunTypes'
  BY <1>1, <1>2 DEF RunInv, RunTypes
<1>4. NotesInv'
  BY <1>1 DEF NotesInv
<1> QED
  BY <1>3, <1>4 DEF RunInv

-----------------------------------------------------------------------------
(* The steps of run that go on. *)

\* To the plan and the notes: the types that a step leaves alone.
LEMMA TypesStay ==
  ASSUME RunTypes, UNCHANGED <<boots, line, copies, fell>>,
         words' \in Transcripts \cup {0}, chunk' \in Nat, lines' \in Seq(Spans),
         plan' \in Seq(StepStates), err' \in BOOLEAN, heard' \in BOOLEAN
  PROVE  RunTypes'
BY DEF RunTypes

LEMMA BeginKeepsRun ==
  ASSUME RunInv, MakeDir \/ StartTranscription \/ SendAudio
  PROVE  RunInv'
<1> USE DEF Proceed, RunStep, scratch, diskVars, aiVars
<1>1. UNCHANGED <<boots, line, words, chunk, lines, heard, copies, fell>> /\ NoNotes
  BY DEF MakeDir, StartTranscription, SendAudio, RunInv, NotesInv
<1>2. CASE MakeDir
  <2>1. /\ plan' = plan
        /\ \/ runner' = "start" /\ err' = FALSE
           \/ runner' = "removeAudio" /\ err' = TRUE
    BY <1>2 DEF MakeDir
  <2>2. RunTypes'
    BY <1>1, <2>1 DEF RunInv, RunTypes
  <2>3. NotesInv'
    BY <1>1, <2>1 DEF NotesInv, NoNotes
  <2> QED
    BY <2>2, <2>3 DEF RunInv
<1>3. CASE StartTranscription
  <2>1. plan' = Opened(<<>>) /\ runner' = "transcribe" /\ err' = FALSE
    BY <1>3 DEF StartTranscription
  <2>2. AllDone(<<>>, 0)
    BY EmptySeq DEF AllDone
  <2>3. LastRuns(plan', 0)
    BY <2>1, <2>2, PlanOpens
  <2>4. RunTypes'
    BY <1>1, <2>1, <2>3 DEF RunInv, RunTypes, LastRuns
  <2>5. NotesInv'
    BY <1>1, <2>1, <2>3 DEF NotesInv, NoNotes
  <2> QED
    BY <2>4, <2>5 DEF RunInv
<1>4. CASE SendAudio
  <2>1. plan' = plan /\ runner = "transcribe" /\ runner' = "await" /\ err' = err
    BY <1>4 DEF SendAudio
  <2>2. RunTypes'
    BY <1>1, <2>1 DEF RunInv, RunTypes
  <2>3. NotesInv'
    BY <1>1, <2>1 DEF RunInv, NotesInv, NoNotes
  <2> QED
    BY <2>2, <2>3 DEF RunInv
<1> QED
  BY <1>2, <1>3, <1>4

LEMMA TranscribedKeepsRun ==
  ASSUME RunInv, Transcribed, ~err'
  PROVE  RunInv'
<1>1. /\ runner = "await" /\ runner' = "chunk" /\ err' = FALSE
      /\ plan' = SetStep(plan, Len(plan), "done") /\ words' \in Transcripts
      /\ UNCHANGED <<boots, line, chunk, lines, heard, copies, fell>>
  BY DEF Transcribed, Proceed, GiveUp, RunStep, Settle, aiVars
<1>2. NoNotes /\ LastRuns(plan, 0)
  BY <1>1 DEF RunInv, NotesInv
<1>3. AllDone(plan', 0 + 1)
  BY <1>1, <1>2, PlanSettles
<1>4. AllDone(plan', 1)
  BY <1>3
<1>5. RunTypes'
  BY <1>1, <1>4 DEF RunInv, RunTypes, AllDone
<1>6. NotesInv'
  BY <1>1, <1>2, <1>4 DEF NotesInv, NoNotes
<1> QED
  BY <1>5, <1>6 DEF RunInv

LEMMA WriteChunksKeepsRun ==
  ASSUME RunInv, WriteChunks, ~err'
  PROVE  RunInv'
<1>1. /\ runner = "chunk" /\ runner' = "map" /\ err' = FALSE
      /\ UNCHANGED <<plan, boots, line, words, chunk, lines, heard, copies, fell>>
  BY DEF WriteChunks, Proceed, GiveUp, RunStep, scratch, aiVars
<1>2. lines' = <<>> /\ chunk' = 1 /\ AllDone(plan', 1)
  BY <1>1 DEF RunInv, NotesInv, NoNotes
<1>3. Len(lines') = 0
  BY <1>2
<1>4. Len(ChunkText(words')) \in Nat
  BY <1>1, ChunksTyped, NumberOfWords DEF RunInv
<1>5. NotesSoFar' /\ AllDone(plan', Len(lines') + 1)
  BY <1>2, <1>3, <1>4 DEF NotesSoFar
<1>6. RunTypes'
  BY <1>1 DEF RunInv, RunTypes
<1>7. NotesInv'
  BY <1>1, <1>5 DEF NotesInv
<1> QED
  BY <1>6, <1>7 DEF RunInv

LEMMA StartExtractKeepsRun ==
  ASSUME RunInv, StartExtract
  PROVE  RunInv'
<1>1. /\ runner = "map" /\ runner' = "extract" /\ err' = FALSE
      /\ plan' = Opened(plan) /\ chunk <= Len(ChunkText(words))
      /\ UNCHANGED <<boots, line, words, chunk, lines, heard, copies, fell>>
  BY DEF StartExtract, Proceed, RunStep, scratch, aiVars
<1>2. NotesSoFar /\ AllDone(plan, Len(lines) + 1)
  BY <1>1 DEF RunInv, NotesInv
<1>3. Len(lines) + 1 \in Nat
  BY LenProperties DEF RunInv, RunTypes
<1>4. LastRuns(plan', Len(lines) + 1)
  BY <1>1, <1>2, <1>3, PlanOpens
<1>5. RunTypes'
  BY <1>1, <1>4 DEF RunInv, RunTypes, LastRuns
<1>6. NotesInv'
  BY <1>1, <1>2, <1>4 DEF NotesInv, NotesSoFar
<1> QED
  BY <1>5, <1>6 DEF RunInv

LEMMA ExtractedKeepsRun ==
  ASSUME RunInv, Extracted, ~err'
  PROVE  RunInv'
<1> DEFINE all == ChunkText(words)
           m   == Len(lines)
<1>1. /\ runner = "extract" /\ runner' = "map" /\ err' = FALSE
      /\ plan' = SetStep(plan, Len(plan), "done")
      /\ lines' = Append(lines, all[chunk]) /\ chunk' = chunk + 1
      /\ UNCHANGED <<boots, line, words, heard, copies, fell>>
  BY DEF Extracted, Proceed, GiveUp, RunStep, Settle, aiVars
<1>2. NotesSoFar /\ LastRuns(plan, m + 1) /\ chunk <= Len(all)
  BY <1>1 DEF RunInv, NotesInv
<1>3. all \in Seq(Spans) /\ Len(all) \in Nat
  BY ChunksTyped, NumberOfWords DEF RunInv
<1>4. lines \in Seq(Spans) /\ m \in Nat
  BY LenProperties DEF RunInv, RunTypes
<1> HIDE DEF all, m
<1>5. chunk = m + 1 /\ chunk \in 1 .. Len(all)
  BY <1>2, <1>3, <1>4 DEF NotesSoFar, m, all
<1>6. all[chunk] \in Spans
  BY <1>3, <1>5, ElementOfSeq
<1>7. /\ lines' \in Seq(Spans) /\ Len(lines') = m + 1
      /\ \A i \in 1 .. m : lines'[i] = lines[i]
      /\ lines'[m + 1] = all[chunk]
  BY <1>1, <1>4, <1>6, AppendProperties DEF m
<1>8. \A i \in 1 .. m + 1 : lines'[i] = all[i]
  <2>1. \A i \in 1 .. m + 1 : i \in 1 .. m \/ i = m + 1
    BY <1>4
  <2>2. \A i \in 1 .. m : lines[i] = all[i]
    BY <1>2 DEF NotesSoFar, m, all
  <2> QED
    BY <1>5, <1>7, <2>1, <2>2
<1>9. ChunkText(words') = all
  BY <1>1 DEF all
<1>10. NotesSoFar'
  <2>1. m + 1 <= Len(all) /\ chunk' = (m + 1) + 1
    BY <1>1, <1>3, <1>5
  <2> QED
    BY <1>7, <1>8, <1>9, <2>1 DEF NotesSoFar
<1>11. AllDone(plan', (m + 1) + 1)
  BY <1>1, <1>2, <1>4, PlanSettles
<1>12. RunTypes'
  <2>1. chunk' \in Nat /\ plan' \in Seq(StepStates)
    BY <1>1, <1>5, <1>11 DEF AllDone
  <2> QED
    BY <1>1, <1>7, <2>1 DEF RunInv, RunTypes
<1>13. NotesInv'
  BY <1>1, <1>7, <1>10, <1>11 DEF NotesInv
<1> QED
  BY <1>12, <1>13 DEF RunInv

LEMMA StartConsolidateKeepsRun ==
  ASSUME RunInv, StartConsolidate
  PROVE  RunInv'
<1> DEFINE all == ChunkText(words)
<1>1. /\ runner = "map" /\ runner' = "reduce" /\ err' = FALSE
      /\ plan' = Opened(plan) /\ chunk > Len(all)
      /\ UNCHANGED <<boots, line, words, chunk, lines, heard, copies, fell>>
  BY DEF StartConsolidate, Proceed, RunStep, scratch, aiVars
<1>2. NotesSoFar /\ AllDone(plan, Len(lines) + 1)
  BY <1>1 DEF RunInv, NotesInv
<1>3. lines \in Seq(Spans) /\ Len(lines) + 1 \in Nat /\ Len(lines) \in Nat
  BY LenProperties DEF RunInv, RunTypes
<1>4. LastRuns(plan', Len(lines) + 1)
  BY <1>1, <1>2, <1>3, PlanOpens
<1>5. all \in Seq(Spans) /\ Len(all) \in Nat
  BY ChunksTyped, NumberOfWords DEF RunInv
<1>6. lines = all
  <2>1. Len(lines) = Len(all) /\ \A i \in 1 .. Len(lines) : lines[i] = all[i]
    BY <1>1, <1>2, <1>3, <1>5 DEF NotesSoFar
  <2> HIDE DEF all
  <2> QED
    BY <1>3, <1>5, <2>1, SeqEqual
<1>7. RunTypes'
  BY <1>1, <1>4 DEF RunInv, RunTypes, LastRuns
<1>8. NotesInv'
  BY <1>1, <1>4, <1>6 DEF NotesInv
<1> QED
  BY <1>7, <1>8 DEF RunInv

LEMMA ReduceKeepsRun ==
  ASSUME RunInv, ReadPartials \/ Consolidate, ~err'
  PROVE  RunInv'
<1>1. UNCHANGED <<boots, line, words, chunk, lines, heard, copies, fell>> /\ err' = FALSE
  BY DEF ReadPartials, Consolidate, Proceed, GiveUp, RunStep, scratch, aiVars
<1>2. CASE ReadPartials
  <2>1. runner = "reduce" /\ runner' = "consolidate" /\ plan' = plan
    BY <1>2 DEF ReadPartials, Proceed, GiveUp, RunStep
  <2>2. RunTypes'
    BY <1>1, <2>1 DEF RunInv, RunTypes
  <2>3. NotesInv'
    BY <1>1, <2>1 DEF RunInv, NotesInv
  <2> QED
    BY <2>2, <2>3 DEF RunInv
<1>3. CASE Consolidate
  <2>1. /\ runner = "consolidate" /\ runner' = "removeDir"
        /\ plan' = SetStep(plan, Len(plan), "done")
    BY <1>3 DEF Consolidate, Proceed, GiveUp, RunStep, Settle
  <2>2. lines = ChunkText(words) /\ LastRuns(plan, Len(lines) + 1)
    BY <2>1 DEF RunInv, NotesInv
  <2>3. Len(lines) + 1 \in Nat /\ (Len(lines) + 1) + 1 = Len(lines) + 2
    BY LenProperties DEF RunInv, RunTypes
  <2>4. AllDone(plan', Len(lines) + 2)
    BY <2>1, <2>2, <2>3, PlanSettles
  <2>5. RunTypes'
    BY <1>1, <2>4 DEF RunInv, RunTypes, AllDone
  <2>6. NotesInv'
    BY <1>1, <2>1, <2>2, <2>4 DEF NotesInv
  <2> QED
    BY <2>5, <2>6 DEF RunInv
<1> QED
  BY <1>2, <1>3

LEMMA RemovalsKeepRun ==
  ASSUME RunInv, RemoveDir \/ RemoveAudio
  PROVE  RunInv'
<1>1. /\ runner \in {"removeDir", "removeAudio"} /\ runner' \in {"removeAudio", "finish"}
      /\ UNCHANGED <<boots, line, words, chunk, lines, heard, plan, err, copies, fell>>
  BY DEF RemoveDir, RemoveAudio, RunStep, scratch, aiVars
<1>2. RunTypes'
  BY <1>1 DEF RunInv, RunTypes
<1>3. NotesInv'
  BY <1>1 DEF RunInv, NotesInv
<1> QED
  BY <1>2, <1>3 DEF RunInv

-----------------------------------------------------------------------------

LEMMA RunStarts == Init => RunInv
<1> SUFFICES ASSUME Init PROVE RunInv
  OBVIOUS
<1> USE DEF Init, Fresh
<1>1. RunTypes
  <2>1. <<>> \in Seq(StepStates) /\ <<>> \in Seq(Spans) /\ Len(line) = 0
    BY EmptySeq
  <2>2. boots \in 1 .. MaxBoots /\ Len(line) <= Buffer /\ chunk \in Nat
    BY <2>1, FilesAssumption
  <2>3. plan \in Seq(StepStates) /\ lines \in Seq(Spans) /\ words \in Transcripts \cup {0}
    BY <2>1
  <2>4. err \in BOOLEAN /\ heard \in BOOLEAN /\ copies \subseteq Uploads /\ fell \in BOOLEAN
    OBVIOUS
  <2> HIDE DEF Init, Fresh
  <2> QED
    BY <2>2, <2>3, <2>4 DEF RunTypes
<1>2. NotesInv
  BY DEF NotesInv, NoNotes
<1> QED
  BY <1>1, <1>2 DEF RunInv

LEMMA RunKeeps == IInv /\ RunInv /\ [Next]_vars => RunInv'
<1> SUFFICES ASSUME IInv, RunInv, [Next]_vars PROVE RunInv'
  OBVIOUS
<1>1. CASE (\E u \in Uploads : Upload(u) \/ AiHandler(u)) \/ AiFalls
  BY <1>1, HandlersKeepRun DEF IInv
<1>2. CASE TakeUpload \/ FinishUpload \/ Crash \/ Boot
  BY <1>2, EndsKeepRun
<1>3. CASE Worker /\ ~ (TakeUpload \/ FinishUpload)
  BY <1>3, FailuresKeepRun, BeginKeepsRun, TranscribedKeepsRun, WriteChunksKeepsRun,
     StartExtractKeepsRun, ExtractedKeepsRun, StartConsolidateKeepsRun, ReduceKeepsRun,
     RemovalsKeepRun DEF Worker
<1>4. CASE UNCHANGED vars
  BY <1>4 DEF vars, diskVars, memoryVars, scratch, aiVars, RunInv, RunTypes, NotesInv, NoNotes, NotesSoFar
<1> QED
  BY <1>1, <1>2, <1>3, <1>4 DEF Next

\* The notes held are those of the chunks before the one the loop is at, each from a step
\* that was done, wherever the runner stands and whatever the processes go through.
THEOREM NotesInvariance == Spec => []RunInv
<1>1. Spec => []IInv
  BY Invariance
<1> QED
  BY <1>1, RunStarts, RunKeeps, PTL DEF Spec

\* Every variable of MomFiles has its type, for any uploads, transcripts and restarts.
THEOREM TypeCorrect == Spec => []FTypeOK
<1>1. IInv /\ RunInv => FTypeOK
  <2> SUFFICES ASSUME IInv, RunInv PROVE FTypeOK
    OBVIOUS
  <2>1. runner = "extract" => chunk \in DOMAIN ChunkText(words)
    <3> SUFFICES ASSUME runner = "extract" PROVE chunk \in DOMAIN ChunkText(words)
      OBVIOUS
    <3>1. chunk = Len(lines) + 1 /\ chunk <= Len(ChunkText(words))
      BY DEF RunInv, NotesInv, NotesSoFar
    <3>2. Len(lines) \in Nat
      BY LenProperties DEF RunInv, RunTypes
    <3>3. ChunkText(words) \in Seq(Spans)
      BY ChunksTyped, NumberOfWords DEF RunInv
    <3>4. DOMAIN ChunkText(words) = 1 .. Len(ChunkText(words)) /\ Len(ChunkText(words)) \in Nat
      BY <3>3, LenProperties
    <3> QED
      BY <3>1, <3>2, <3>4
  <2>2. serving \in Uploads \cup {NoUpload}
    BY DEF IInv, PlaceInv
  <2> QED
    BY <2>1, <2>2 DEF IInv, TypesInv, LifeStates, RunInv, RunTypes, FTypeOK, Spans
<1> QED
  BY <1>1, Invariance, NotesInvariance, PTL

\* An upload becomes done only by the worker that records it, and without an error.
LEMMA OnlyFinishIsDone ==
  ASSUME IInv, [Next]_vars, NEW u \in Uploads, life[u] = "running", life'[u] = "done"
  PROVE  FinishUpload /\ ~err
<1> USE DEF Become, diskVars, memoryVars, aiVars, scratch, IInv, TypesInv
<1>1. ASSUME NEW v \in Uploads, Upload(v) PROVE FALSE
  BY <1>1 DEF Upload, CreateTemp, CopyUpload, SubmitUpload, RefuseUpload, DropUpload
<1>2. ASSUME NEW v \in Uploads, AiHandler(v) PROVE FALSE
  BY <1>2 DEF AiHandler, TakeAudio, SaveUpload, Whisper, CloseAudio, Hear
<1>3. CASE Quiet \/ FileStep
  BY <1>3, QuietSteps DEF FileStep, MakeDir, SendAudio, RemoveDir, RemoveAudio, RunStep, Proceed
<1>4. CASE TakeUpload
  BY <1>4 DEF TakeUpload
<1>5. CASE Crash \/ Boot \/ AiFalls
  BY <1>5 DEF Crash, Boot, AiFalls
<1>6. CASE UNCHANGED vars
  BY <1>6 DEF vars
<1>7. CASE FinishUpload
  BY <1>7, FilesAssumption DEF FinishUpload, PlaceInv
<1> QED
  BY <1>1, <1>2, <1>3, <1>4, <1>5, <1>6, <1>7 DEF Next, Worker, FileStep, Quiet

\* The minutes of an upload that becomes done are made of every word of its transcript,
\* each window in a step of its own that was done, no window larger than a call takes,
\* and each seam seen by both its windows: for every transcript, and every window larger
\* than its overlap, as the 800 and 100 words of momorch.go:28-29 are.
THEOREM MinutesAreComplete ==
  ASSUME ChunkWords > OverlapWords
  PROVE  Spec => MinutesComplete
<1> DEFINE Complete(u) ==
             life[u] = "running" /\ life'[u] = "done" =>
               /\ WordsOf(lines) = 1 .. words
               /\ StepsIn(plan, "failed") = {} /\ StepsIn(plan, "running") = {}
               /\ Len(plan) = Len(lines) + 2
               /\ \A k \in DOMAIN lines : lines[k].last - lines[k].first < ChunkWords
               /\ \A k \in 2 .. Len(lines) : lines[k-1].last - lines[k].first + 1 = OverlapWords
<1>1. IInv /\ RunInv /\ [Next]_vars => [\A u \in Uploads : Complete(u)]_vars
  <2> SUFFICES ASSUME IInv, RunInv, [Next]_vars, NEW u \in Uploads,
                      life[u] = "running", life'[u] = "done"
               PROVE  /\ WordsOf(lines) = 1 .. words
                      /\ StepsIn(plan, "failed") = {} /\ StepsIn(plan, "running") = {}
                      /\ Len(plan) = Len(lines) + 2
                      /\ \A k \in DOMAIN lines : lines[k].last - lines[k].first < ChunkWords
                      /\ \A k \in 2 .. Len(lines) : lines[k-1].last - lines[k].first + 1 = OverlapWords
    OBVIOUS
  <2>1. FinishUpload /\ ~err
    BY OnlyFinishIsDone
  <2>2. lines = ChunkText(words) /\ AllDone(plan, Len(lines) + 2)
    BY <2>1 DEF FinishUpload, RunInv, NotesInv
  <2>3. words \in Nat
    BY NumberOfWords DEF RunInv
  <2>4. StepsIn(plan, "failed") = {} /\ StepsIn(plan, "running") = {} /\ Len(plan) = Len(lines) + 2
    <3>1. DOMAIN plan = 1 .. Len(lines) + 2
      BY <2>2, LenProperties DEF AllDone
    <3> QED
      BY <2>2, <3>1 DEF StepsIn, AllDone
  <2>5. CASE words = 0
    <3>1. lines = <<>>
      BY <2>2, <2>5 DEF ChunkText
    <3>2. Len(lines) = 0 /\ DOMAIN lines = {} /\ WordsOf(lines) = {}
      BY <3>1 DEF WordsOf
    <3>3. 1 .. words = {} /\ 2 .. Len(lines) = {}
      BY <2>5, <3>2
    <3> QED
      BY <2>4, <3>2, <3>3
  <2>6. CASE words # 0
    <3>1. Covers(lines, 0, words)
      BY <2>2, <2>3, <2>6, ChunksCover
    <3>2. DOMAIN lines = 1 .. Len(lines)
      BY <3>1, LenProperties DEF Covers
    <3>3. (0 + 1) .. words = 1 .. words
      OBVIOUS
    <3> QED
      BY <2>4, <3>1, <3>2, <3>3 DEF Covers
  <2> QED
    BY <2>5, <2>6
<1>2. Spec => [][\A u \in Uploads : Complete(u)]_vars
  <2> HIDE DEF Complete
  <2> QED
    BY <1>1, Invariance, NotesInvariance, PTL DEF Spec
<1> QED
  BY <1>2 DEF MinutesComplete

-----------------------------------------------------------------------------
(* The line of MomFiles is that of the service the queue implements. *)

\* What the service calls the state of an upload.  One that the queue refused waits for
\* its handler to drop it.
ServiceStatus(u) ==
  CASE life[u] \in {"new", "saving", "saved"} -> "new"
    [] life[u] = "queued"                     -> "waiting"
    [] life[u] = "running"                    -> "served"
    [] life[u] = "rejecting"                  -> "refused"
    [] OTHER                                  -> life[u]

Statuses == [u \in Uploads |-> ServiceStatus(u)]

Fifo == INSTANCE FifoService WITH
  Jobs <- Uploads, NoJob <- NoUpload, Capacity <- Buffer, status <- Statuses, open <- TRUE

\* Its actions, in the terms of the mapping.
LEMMA ServiceActions ==
  /\ Fifo!FInit <=> line = <<>> /\ serving = NoUpload /\ Statuses = [u \in Uploads |-> "new"]
  /\ \A u : Fifo!Accept(u) <=>
       /\ Statuses[u] = "new" /\ Len(line) < Buffer
       /\ line' = Append(line, u) /\ Statuses' = [Statuses EXCEPT ![u] = "waiting"]
       /\ serving' = serving
  /\ \A u : Fifo!Refuse(u) <=>
       /\ Statuses[u] = "new" /\ Statuses' = [Statuses EXCEPT ![u] = "refused"]
       /\ line' = line /\ serving' = serving
  /\ Fifo!Serve <=>
       /\ serving = NoUpload /\ line # <<>>
       /\ serving' = Head(line) /\ line' = Tail(line)
       /\ Statuses' = [Statuses EXCEPT ![Head(line)] = "served"]
  /\ \A o : Fifo!Complete(o) <=>
       /\ serving # NoUpload /\ Statuses' = [Statuses EXCEPT ![serving] = o]
       /\ serving' = NoUpload /\ line' = line
  /\ (UNCHANGED Fifo!fvars) <=> line' = line /\ serving' = serving /\ Statuses' = Statuses
BY DEF Fifo!FInit, Fifo!Accept, Fifo!Refuse, Fifo!Serve, Fifo!Complete, Fifo!fvars, Statuses

\* One upload moves on.
LEMMA StatusMoves ==
  ASSUME TypesInv, NEW u \in Uploads, NEW state \in LifeStates,
         life' = [life EXCEPT ![u] = state]
  PROVE  Statuses' = [Statuses EXCEPT ![u] = ServiceStatus(u)'] /\ life'[u] = state
<1>1. life'[u] = state /\ \A v \in Uploads \ {u} : life'[v] = life[v]
  BY DEF TypesInv
<1>2. \A v \in Uploads \ {u} : ServiceStatus(v)' = ServiceStatus(v)
  BY <1>1 DEF ServiceStatus
<1> QED
  BY <1>1, <1>2 DEF Statuses

\* Every step but a crash is a step of the service or none.
LEMMA StepUsesService ==
  IInv /\ [Next]_vars => Crash \/ Fifo!FNext \/ UNCHANGED Fifo!fvars
<1> SUFFICES ASSUME IInv, [Next]_vars, ~Crash PROVE Fifo!FNext \/ UNCHANGED Fifo!fvars
  BY Zenon
<1> USE DEF Become, diskVars, memoryVars, aiVars, scratch
<1>1. TypesInv /\ \A u \in Uploads : Statuses[u] = ServiceStatus(u)
  BY DEF IInv, Statuses
<1>2. ASSUME line' = line, serving' = serving, Statuses' = Statuses
      PROVE  Fifo!FNext \/ UNCHANGED Fifo!fvars
  BY <1>2, ServiceActions
<1>3. ASSUME line' = line, serving' = serving, life' = life
      PROVE  Fifo!FNext \/ UNCHANGED Fifo!fvars
  <2>1. Statuses' = Statuses
    BY <1>3 DEF Statuses, ServiceStatus
  <2> QED
    BY <1>2, <1>3, <2>1
<1>4. ASSUME NEW u \in Uploads, Upload(u) PROVE Fifo!FNext \/ UNCHANGED Fifo!fvars
  <2>1. PICK state \in LifeStates : life' = [life EXCEPT ![u] = state]
    BY <1>4 DEF Upload, CreateTemp, CopyUpload, SubmitUpload, RefuseUpload, DropUpload,
           LifeStates, Live, Over
  <2>2. Statuses' = [Statuses EXCEPT ![u] = ServiceStatus(u)'] /\ life'[u] = state
    BY <1>1, <2>1, StatusMoves
  <2>3. CASE SubmitUpload(u)
    <3>1. /\ life[u] = "saved" /\ life'[u] = "queued" /\ Len(line) < Buffer
          /\ line' = Append(line, u) /\ serving' = serving
      BY <1>1, <2>3 DEF SubmitUpload, TypesInv
    <3>2. ServiceStatus(u) = "new" /\ ServiceStatus(u)' = "waiting"
      BY <3>1 DEF ServiceStatus
    <3>3. Fifo!Accept(u)
      BY <1>1, <2>2, <3>1, <3>2, ServiceActions
    <3> QED
      BY <3>3 DEF Fifo!FNext
  <2>4. CASE ~ SubmitUpload(u)
    <3>1. line' = line /\ serving' = serving
      BY <1>4, <2>4 DEF Upload, CreateTemp, CopyUpload, RefuseUpload, DropUpload
    <3>2. \/ life[u] \in {"new", "saving"} /\ life'[u] \in {"saving", "saved"}
          \/ life[u] = "rejecting" /\ life'[u] = "refused"
          \/ life[u] \in {"saving", "saved"} /\ life'[u] \in {"refused", "rejecting"}
      BY <1>1, <1>4, <2>4 DEF TypesInv, Upload, CreateTemp, CopyUpload, RefuseUpload, DropUpload
    <3>3. CASE ServiceStatus(u)' = ServiceStatus(u)
      <4>1. Statuses' = Statuses
        BY <1>1, <2>2, <3>3 DEF Statuses
      <4> QED
        BY <1>2, <3>1, <4>1
    <3>4. CASE ServiceStatus(u)' # ServiceStatus(u)
      <4>1. ServiceStatus(u) = "new" /\ ServiceStatus(u)' = "refused"
        BY <3>2, <3>4 DEF ServiceStatus
      <4>2. Fifo!Refuse(u)
        BY <1>1, <2>2, <3>1, <4>1, ServiceActions
      <4> QED
        BY <4>2 DEF Fifo!FNext
    <3> QED
      BY <3>3, <3>4
  <2> QED
    BY <2>3, <2>4
<1>5. ASSUME NEW u \in Uploads, AiHandler(u) PROVE Fifo!FNext \/ UNCHANGED Fifo!fvars
  BY <1>3, <1>5 DEF AiHandler, TakeAudio, SaveUpload, Whisper, CloseAudio, Hear
<1>6. CASE TakeUpload
  <2>1. /\ runner = "idle" /\ serving = NoUpload /\ line # <<>> /\ line \in Seq(Uploads)
        /\ life' = [life EXCEPT ![Head(line)] = "running"]
        /\ serving' = Head(line) /\ line' = Tail(line)
    BY <1>6 DEF TakeUpload, IInv, TypesInv, PlaceInv
  <2>2. PICK u \in Uploads : u = Head(line)
    BY <2>1, HeadTailProperties
  <2>3. life'[u] = "running" /\ \A v \in Uploads \ {u} : life'[v] = life[v]
    BY <1>1, <2>1, <2>2 DEF TypesInv
  <2>4. Statuses' = [Statuses EXCEPT ![u] = "served"]
    <3>1. \A v \in Uploads : ServiceStatus(v)' = IF v = u THEN "served" ELSE ServiceStatus(v)
      BY <2>3 DEF ServiceStatus
    <3> QED
      BY <3>1 DEF Statuses
  <2>5. Fifo!Serve
    BY <2>1, <2>2, <2>4, ServiceActions
  <2> QED
    BY <2>5 DEF Fifo!FNext, Fifo!Progress
<1>7. CASE FinishUpload
  <2>1. /\ runner = "finish" /\ serving # NoUpload /\ serving \in Uploads
        /\ serving' = NoUpload /\ line' = line
    BY <1>7, FilesAssumption DEF FinishUpload, IInv, PlaceInv
  <2>2. PICK out \in {"done", "failed"} : life' = [life EXCEPT ![serving] = out]
    BY <1>7 DEF FinishUpload
  <2>3. Statuses' = [Statuses EXCEPT ![serving] = out]
    <3>1. \A v \in Uploads \ {serving} : life'[v] = life[v]
      BY <1>1, <2>2 DEF TypesInv
    <3>2. life'[serving] = out
      BY <1>1, <2>1, <2>2 DEF TypesInv
    <3>3. \A v \in Uploads : ServiceStatus(v)' = IF v = serving THEN out ELSE ServiceStatus(v)
      BY <3>1, <3>2 DEF ServiceStatus
    <3> QED
      BY <3>3 DEF Statuses
  <2>4. Fifo!Complete(out)
    BY <2>1, <2>3, ServiceActions
  <2> QED
    BY <2>4 DEF Fifo!FNext, Fifo!Progress
<1>8. CASE Quiet \/ FileStep
  BY <1>3, <1>8, QuietSteps DEF FileStep, MakeDir, SendAudio, RemoveDir, RemoveAudio, RunStep, Proceed
<1>9. CASE Boot \/ AiFalls \/ UNCHANGED vars
  BY <1>3, <1>9 DEF Boot, AiFalls, vars
<1> QED
  BY <1>4, <1>5, <1>6, <1>7, <1>8, <1>9 DEF Next, Worker, FileStep, Quiet

\* The line of MomFiles starts as FifoService does and takes no other steps until the
\* process dies, nor after a start: what it assumes of the queue (queue.go) is what
\* JobQueue is proved to keep.
THEOREM LineIsTheService ==
  Spec => Fifo!FInit /\ [][Crash \/ Fifo!FNext]_(Fifo!fvars)
<1>1. Init => Fifo!FInit
  <2> SUFFICES ASSUME Init PROVE Fifo!FInit
    OBVIOUS
  <2>1. Statuses = [u \in Uploads |-> "new"]
    BY DEF Init, Statuses, ServiceStatus
  <2> QED
    BY <2>1, ServiceActions DEF Init, Fresh
<1>2. IInv /\ [Next]_vars => [Crash \/ Fifo!FNext]_(Fifo!fvars)
  BY StepUsesService
<1> QED
  BY <1>1, <1>2, Invariance, PTL DEF Spec
=============================================================================
