---------------------------- MODULE MCJobQueue -----------------------------
(* JobQueue for TLC, with the refinement of FifoService. *)
EXTENDS JobQueue

\* A job counts as accepted when the channel takes it, and as refused when
\* Submit found the channel full.  Accepted jobs wait in the channel or in the
\* worker's hand.
FifoStatus(j) ==
  IF submit[j] \in {"idle", "sending"} THEN "new"
  ELSE IF submit[j] \in {"rejecting", "rejected"} THEN "refused"
  ELSE CASE state[j] = "queued"  -> "waiting"
         [] state[j] = "running" -> "served"
         [] OTHER                -> state[j]

Fifo == INSTANCE FifoService WITH
  Capacity <- Buffer + 1,
  line     <- IF worker = "received" THEN <<held>> \o ch ELSE ch,
  serving  <- running,
  status   <- [j \in Jobs |-> FifoStatus(j)],
  open     <- ctx = "live"

\* The queue implements strict FIFO service in the order the channel accepted
\* the jobs, one at a time, each exactly once, and keeps serving until the
\* context is cancelled.
ImplementsFifo == Fifo!FSpec
=============================================================================
