---------------------------- MODULE FifoService ----------------------------
(***************************************************************************)
(* What the queue package promises its callers, without locks, channels or  *)
(* goroutines: "strict FIFO, one-job-at-a-time execution" with              *)
(* "backpressure instead of unbounded memory growth" (queue.go:1-5,         *)
(* 144-146).  A request is accepted into a bounded line or refused for      *)
(* good; accepted jobs are served one at a time in the order of acceptance, *)
(* each exactly once, with a final outcome.                                 *)
(***************************************************************************)
EXTENDS Naturals, Sequences

CONSTANTS
  Jobs,       \* requests
  NoJob,      \* not a request
  Capacity    \* how many accepted requests may wait

VARIABLES
  line,       \* accepted, not started, oldest first
  serving,    \* the job being served
  status,     \* what became of each request
  open        \* FALSE once the service shuts down: it then promises no progress

fvars == <<line, serving, status, open>>

FInit ==
  /\ line = <<>>
  /\ serving = NoJob
  /\ status = [j \in Jobs |-> "new"]
  /\ open = TRUE

Accept(j) ==
  /\ status[j] = "new"
  /\ Len(line) < Capacity
  /\ line' = Append(line, j)
  /\ status' = [status EXCEPT ![j] = "waiting"]
  /\ UNCHANGED <<serving, open>>

Refuse(j) ==
  /\ status[j] = "new"
  /\ status' = [status EXCEPT ![j] = "refused"]
  /\ UNCHANGED <<line, serving, open>>

Serve ==
  /\ serving = NoJob
  /\ line # <<>>
  /\ serving' = Head(line)
  /\ line' = Tail(line)
  /\ status' = [status EXCEPT ![Head(line)] = "served"]
  /\ UNCHANGED open

Complete(outcome) ==
  /\ serving # NoJob
  /\ status' = [status EXCEPT ![serving] = outcome]
  /\ serving' = NoJob
  /\ UNCHANGED <<line, open>>

Close ==
  /\ open
  /\ open' = FALSE
  /\ UNCHANGED <<line, serving, status>>

Progress ==
  \/ Serve
  \/ \E outcome \in {"done", "failed"} : Complete(outcome)

FNext ==
  \/ \E j \in Jobs : Accept(j) \/ Refuse(j)
  \/ Progress
  \/ Close

FSafety == FInit /\ [][FNext]_fvars

\* While it is open the service keeps serving.
FSpec == FSafety /\ WF_fvars(open /\ Progress)
=============================================================================
