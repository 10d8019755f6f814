------------------------------- MODULE Warmup -------------------------------
(***************************************************************************)
(* From the daemon to the header: qa-ai's warmup loop (bootstrap.go), the    *)
(* readiness it keeps (readiness.go), and the monitor by which qa-core       *)
(* shows it (backend.go, view.go).  Ollama is external: a daemon that stops  *)
(* and starts, with or without the model.                                    *)
(***************************************************************************)
EXTENDS Naturals

CONSTANTS
  AutoPulls,  \* the settings of OLLAMA_AUTO_PULL considered
  Percents,   \* what a pull may report
  MaxFaults   \* bound on stops of the daemon, failing pulls and crashes of qa-ai

ASSUME WarmupAssumption ==
  AutoPulls \subseteq BOOLEAN /\ AutoPulls # {} /\ "" \notin Percents /\ MaxFaults \in Nat

VARIABLES
  autoPull,   \* OLLAMA_AUTO_PULL
  daemon,     \* the Ollama daemon answers
  present,    \* it has the model
  faults,     \* faults so far
  aiUp,       \* the qa-ai process runs
  warm,       \* where Warm stands; "over" once it has returned
  rd,         \* qa-ai's readiness
  poll,       \* the monitor: idle, or what it has fetched and not stored
  cur         \* the monitor's last status, what every header shows

warmVars == <<autoPull, daemon, present, faults, aiUp, warm, rd, poll, cur>>

WarmPoints == {"daemon", "model", "pull", "sleep", "over"}
States     == {"starting", "ollama_down", "pulling", "ready"}
Readiness  == [state : States, progress : Percents \cup {""}]
Idle       == [state |-> "idle", progress |-> ""]
Unreached  == [state |-> "unreachable", progress |-> ""]
Starting   == [state |-> "starting", progress |-> ""]

WInit ==
  /\ autoPull \in AutoPulls
  /\ daemon \in BOOLEAN /\ present \in BOOLEAN
  /\ faults = 0
  /\ aiUp = TRUE /\ warm = "daemon" /\ rd = Starting
  /\ poll = Idle /\ cur = Unreached

-----------------------------------------------------------------------------
(* Ollama, and whoever runs it. *)

DaemonStops ==
  /\ daemon /\ faults < MaxFaults
  /\ daemon' = FALSE /\ faults' = faults + 1
  /\ UNCHANGED <<autoPull, present, aiUp, warm, rd, poll, cur>>

DaemonStarts ==
  /\ ~daemon
  /\ daemon' = TRUE
  /\ UNCHANGED <<autoPull, present, faults, aiUp, warm, rd, poll, cur>>

\* Somebody follows the guidance: ollama pull.
ModelInstalled ==
  /\ daemon /\ ~present
  /\ present' = TRUE
  /\ UNCHANGED <<autoPull, daemon, faults, aiUp, warm, rd, poll, cur>>

Ollama == DaemonStops \/ DaemonStarts \/ ModelInstalled

-----------------------------------------------------------------------------
(* Warm; Set and SetProgress are the only writes of the readiness. *)

Set(s)         == rd' = [state |-> s, progress |-> IF s = "pulling" THEN rd.progress ELSE ""]
SetProgress(p) == rd' = [rd EXCEPT !.progress = p]

\* What Warm asks the daemon: does it answer (Health), does it list the model (HasModel).
Health   == daemon
HasModel == daemon /\ present

WarmStep(from, to) ==
  /\ aiUp /\ warm = from
  /\ warm' = to
  /\ UNCHANGED <<autoPull, daemon, aiUp, poll, cur>>

\* What fails is told and tried again after a while.
Wait(from) == WarmStep(from, "sleep") /\ Set("ollama_down")

CheckDaemon ==
  /\ \/ Health  /\ WarmStep("daemon", "model") /\ UNCHANGED rd
     \/ ~Health /\ Wait("daemon")
  /\ UNCHANGED <<present, faults>>

ModelReady ==
  /\ HasModel
  /\ WarmStep("model", "over") /\ Set("ready")
  /\ UNCHANGED <<present, faults>>

\* HasModel fails, or the model is missing and must not be pulled.
ModelBlocked ==
  /\ ~daemon \/ (~present /\ ~autoPull)
  /\ Wait("model")
  /\ UNCHANGED <<present, faults>>

StartPull ==
  /\ daemon /\ ~present /\ autoPull
  /\ WarmStep("model", "pull") /\ Set("pulling")
  /\ UNCHANGED <<present, faults>>

\* One line of the stream: a percentage, or a status that keeps the percentage.
PullReports ==
  /\ daemon
  /\ WarmStep("pull", "pull")
  /\ Set("pulling") \/ \E p \in Percents : SetProgress(p)
  /\ UNCHANGED <<present, faults>>

\* The stream ends; Warm looks no further.
PullEnds ==
  /\ daemon
  /\ WarmStep("pull", "over") /\ Set("ready")
  /\ present' = TRUE
  /\ UNCHANGED faults

\* Variant: a failing pull ends the warmup.
PullFailsForGood ==
  /\ \/ ~daemon /\ UNCHANGED faults
     \/ daemon /\ faults < MaxFaults /\ faults' = faults + 1
  /\ WarmStep("pull", "over") /\ Set("ollama_down")
  /\ UNCHANGED present

\* The daemon is gone, or the registry, the network or the disk lets it down.
PullFails ==
  /\ \/ ~daemon /\ UNCHANGED faults
     \/ daemon /\ faults < MaxFaults /\ faults' = faults + 1
  /\ Wait("pull")
  /\ UNCHANGED present

Retry ==
  /\ WarmStep("sleep", "daemon")
  /\ UNCHANGED <<present, faults, rd>>

WarmLoop ==
  \/ CheckDaemon \/ ModelReady \/ ModelBlocked
  \/ StartPull \/ PullReports \/ PullEnds \/ PullFails \/ Retry

-----------------------------------------------------------------------------
(* The process. *)

AiDies ==
  /\ aiUp /\ faults < MaxFaults
  /\ aiUp' = FALSE /\ faults' = faults + 1
  /\ warm' = "over" /\ rd' = Starting
  /\ UNCHANGED <<autoPull, daemon, present, poll, cur>>

\* A supervisor, or somebody, starts it again.
AiBoots ==
  /\ ~aiUp
  /\ aiUp' = TRUE
  /\ warm' = "daemon" /\ rd' = Starting
  /\ UNCHANGED <<autoPull, daemon, present, faults, poll, cur>>

-----------------------------------------------------------------------------
(* The monitor in qa-core. *)

\* The body of /healthz is the readiness; its status code is not looked at.
Status == IF aiUp THEN rd ELSE Unreached

PollFetch ==
  /\ poll = Idle
  /\ poll' = Status
  /\ UNCHANGED <<autoPull, daemon, present, faults, aiUp, warm, rd, cur>>

\* Variant: a poll that did not get through is not stored.
PollStoreReached ==
  /\ poll # Idle
  /\ cur' = IF poll = Unreached THEN cur ELSE poll
  /\ poll' = Idle
  /\ UNCHANGED <<autoPull, daemon, present, faults, aiUp, warm, rd>>

PollStore ==
  /\ poll # Idle
  /\ cur' = poll
  /\ poll' = Idle
  /\ UNCHANGED <<autoPull, daemon, present, faults, aiUp, warm, rd>>

Monitor == PollFetch \/ PollStore

\* backendView.
HeaderState(s) ==
  CASE s.state = "unreachable" -> "offline"
    [] s.state = "ollama_down" -> "offline"
    [] OTHER -> s.state
HeaderProgress(s) == IF s.state = "pulling" THEN s.progress ELSE ""

-----------------------------------------------------------------------------
(* Fairness and properties. *)

\* Warm's calls return: Health, HasModel by the client's timeout, a pull because it
\* ends or breaks, which is assumed of the daemon.  The monitor's ticker goes on.
WarmFairness ==
  /\ WF_warmVars(CheckDaemon \/ ModelReady \/ ModelBlocked \/ StartPull \/ Retry)
  /\ WF_warmVars(PullEnds \/ PullFails)
  /\ WF_warmVars(Monitor)

WTypeOK ==
  /\ autoPull \in AutoPulls /\ daemon \in BOOLEAN /\ present \in BOOLEAN
  /\ faults \in 0 .. MaxFaults /\ aiUp \in BOOLEAN /\ warm \in WarmPoints
  /\ rd \in Readiness
  /\ poll \in Readiness \cup {Idle, Unreached} /\ cur \in Readiness \cup {Unreached}

\* "the UI can show its real state" (backend.go:1-5): once qa-ai stays in a state, or
\* stays down, the header comes to show exactly that, and the percentage with it.
HeaderSettles ==
  /\ <>[](~aiUp) => <>[](HeaderState(cur) = "offline")
  /\ \A r \in Readiness :
       <>[](aiUp /\ rd = r) =>
         <>[](HeaderState(cur) = HeaderState(r) /\ HeaderProgress(cur) = r.progress)

\* "waits for Ollama to become reachable ... then ensures the model is present"
\* (bootstrap.go:1-5): with a daemon that stays and the model there or allowed to be
\* pulled, qa-ai gets ready, whatever failed before.
WarmupEnds ==
  <>[](aiUp /\ daemon /\ (present \/ autoPull)) => <>[](rd.state = "ready")

\* "The UI header shows the live backend state — model name when ready, ... or 'LLM
\* offline' if the daemon is down" (README.md:61-62).
HeaderTellsOffline == <>[](aiUp /\ ~daemon) => <>[](HeaderState(cur) = "offline")
=============================================================================
