----------------------------- MODULE StageCall ------------------------------
(***************************************************************************)
(* One call of qa-core to qa-ai, from the worker that sends it to the model  *)
(* and back (aiclient.go, server.go, stage.go, mom.go, ollama.go): the       *)
(* readiness gate, the attempts of the JSON loop, the time limit of each     *)
(* chat and the one of the whole call.  The worker has one call out at a     *)
(* time, but the handler of a call it gave up on may still be at work.       *)
(*                                                                           *)
(* A model output is one of four: usable, without a JSON object, a JSON      *)
(* object that does not decode, or one that decodes and fails the stage's    *)
(* check.  Time is counted in units that pass only while a chat runs.        *)
(***************************************************************************)
EXTENDS Warmup, FiniteSets

CONSTANTS
  Calls,      \* one element per call
  MomCalls,   \* those to /mom/extract and /mom/consolidate; the others go to /stage, or
              \* to /generate or /validate, which have the same gate and the same loop
  MaxRetries, \* MAX_JSON_RETRIES
  ChatLimit,  \* GEN_TIMEOUT
  StageLimit  \* STAGE_TIMEOUT

ASSUME StageAssumption ==
  /\ MomCalls \subseteq Calls /\ MaxRetries \in Nat
  /\ ChatLimit \in Nat \ {0} /\ StageLimit \in Nat \ {0}

VARIABLES
  at,         \* where the call is: unsent, a point of its handler, or over
  attempt,    \* the attempt its handler is in
  parts,      \* the attempts whose output has gone into the value to be returned
  rejected,   \* outputs rejected so far
  age,        \* how long the chat has run
  spent,      \* how long the caller has waited
  got         \* what the caller got

callVars == <<at, attempt, parts, rejected, age, spent, got>>
vars     == <<warmVars, callVars>>

CallPoints == {"unsent", "gate", "refuse", "chat", "over"}
Errors     == {"unreachable", "refused", "llm_failed", "exhausted"}
Outcomes   == {"none", "waiting", "timeout", "ok"} \cup Errors

Init ==
  /\ WInit
  /\ at       = [c \in Calls |-> "unsent"]
  /\ attempt  = [c \in Calls |-> 0]
  /\ parts    = [c \in Calls |-> {}]
  /\ rejected = [c \in Calls |-> 0]
  /\ age      = [c \in Calls |-> 0]
  /\ spent    = [c \in Calls |-> 0]
  /\ got      = [c \in Calls |-> "none"]

\* The handler returns; its caller gets the outcome if it still waits.
Return(c, outcome) ==
  /\ at'    = [at EXCEPT ![c] = "over"]
  /\ got'   = [got EXCEPT ![c] = IF @ = "waiting" THEN outcome ELSE @]
  /\ age'   = [age EXCEPT ![c] = 0]
  /\ spent' = [spent EXCEPT ![c] = 0]

\* The worker is sequential: it sends when it has no call out.
Send(c) ==
  /\ at[c] = "unsent"
  /\ \A d \in Calls : got[d] # "waiting"
  /\ at'  = [at EXCEPT ![c] = IF aiUp THEN "gate" ELSE "over"]
  /\ got' = [got EXCEPT ![c] = IF aiUp THEN "waiting" ELSE "unreachable"]
  /\ UNCHANGED <<warmVars, attempt, parts, rejected, age, spent>>

\* Variant: the handler does not ask for readiness.
GateOpen(c) ==
  /\ at[c] = "gate"
  /\ at'      = [at EXCEPT ![c] = "chat"]
  /\ attempt' = [attempt EXCEPT ![c] = 1]
  /\ UNCHANGED <<warmVars, parts, rejected, age, spent, got>>

\* Variant: the handler waits until the warmup is over.
GateWaits(c) ==
  /\ at[c] = "gate" /\ rd.state = "ready"
  /\ at'      = [at EXCEPT ![c] = "chat"]
  /\ attempt' = [attempt EXCEPT ![c] = 1]
  /\ UNCHANGED <<warmVars, parts, rejected, age, spent, got>>

Gate(c) ==
  /\ at[c] = "gate"
  /\ at'      = [at EXCEPT ![c] = IF rd.state = "ready" THEN "chat" ELSE "refuse"]
  /\ attempt' = [attempt EXCEPT ![c] = IF rd.state = "ready" THEN 1 ELSE 0]
  /\ UNCHANGED <<warmVars, parts, rejected, age, spent, got>>

\* 503, with a reason read afresh.
Refuse(c) ==
  /\ at[c] = "refuse"
  /\ Return(c, "refused")
  /\ UNCHANGED <<warmVars, attempt, parts, rejected>>

\* Time passes for the one that waits and for the chats that run; a handler that has
\* not come to its first chat takes none.
Tick ==
  /\ \A c \in Calls : at[c] \notin {"gate", "refuse"}
  /\ \E c \in Calls : at[c] = "chat"
  /\ \A c \in Calls : at[c] = "chat" => age[c] < ChatLimit
  /\ \A c \in Calls : got[c] = "waiting" => spent[c] < StageLimit
  /\ age'   = [c \in Calls |-> IF at[c] = "chat" THEN age[c] + 1 ELSE age[c]]
  /\ spent' = [c \in Calls |-> IF got[c] = "waiting" THEN spent[c] + 1 ELSE spent[c]]
  /\ UNCHANGED <<warmVars, at, attempt, parts, rejected, got>>

\* The daemon is gone, answers with an error, or takes too long; or the caller has
\* left, which cancels the request: no attempt is spent on it.
ChatFails(c) ==
  /\ at[c] = "chat"
  /\ Return(c, "llm_failed")
  /\ UNCHANGED <<warmVars, attempt, parts, rejected>>

\* Variant: one value for all attempts of a stage, too.
DecodedShared(c) == parts[c] \cup {attempt[c]}

\* The value a handler returns: /stage decodes each output into a new one, the loop of
\* the minutes decodes them all into the same.
Decoded(c) == IF c \in MomCalls THEN parts[c] \cup {attempt[c]} ELSE {attempt[c]}

ChatUsable(c) ==
  /\ at[c] = "chat" /\ daemon /\ present
  /\ parts' = [parts EXCEPT ![c] = Decoded(c)]
  /\ Return(c, "ok")
  /\ UNCHANGED <<warmVars, attempt, rejected>>

\* Variant: one attempt too many.
RejectOnceMore(c, kept) ==
  /\ at[c] = "chat" /\ daemon /\ present
  /\ rejected' = [rejected EXCEPT ![c] = @ + 1]
  /\ parts'    = [parts EXCEPT ![c] = kept]
  /\ IF attempt[c] <= MaxRetries + 1
     THEN /\ attempt' = [attempt EXCEPT ![c] = @ + 1]
          /\ age'     = [age EXCEPT ![c] = 0]
          /\ UNCHANGED <<at, got, spent>>
     ELSE Return(c, "exhausted") /\ UNCHANGED attempt
  /\ UNCHANGED warmVars

\* An output that is rejected: the prompt is corrected and tried again, or the budget
\* is used up.  kept are the parts that are left of it.
Reject(c, kept) ==
  /\ at[c] = "chat" /\ daemon /\ present
  /\ rejected' = [rejected EXCEPT ![c] = @ + 1]
  /\ parts'    = [parts EXCEPT ![c] = kept]
  /\ IF attempt[c] <= MaxRetries
     THEN /\ attempt' = [attempt EXCEPT ![c] = @ + 1]
          /\ age'     = [age EXCEPT ![c] = 0]
          /\ UNCHANGED <<at, got, spent>>
     ELSE Return(c, "exhausted") /\ UNCHANGED attempt
  /\ UNCHANGED warmVars

ChatNoJSON(c)      == Reject(c, parts[c])
\* A decoding that fails half way leaves what it decoded.
ChatUndecodable(c) == Reject(c, Decoded(c))
ChatIncomplete(c)  == Reject(c, Decoded(c))

\* The client's time limit for the call, however many attempts it takes.
CallerTimesOut(c) ==
  /\ got[c] = "waiting" /\ spent[c] = StageLimit
  /\ got'   = [got EXCEPT ![c] = "timeout"]
  /\ spent' = [spent EXCEPT ![c] = 0]
  /\ UNCHANGED <<warmVars, at, attempt, parts, rejected, age>>

\* A crash cuts every call.
AiCrashes ==
  /\ AiDies
  /\ at'  = [c \in Calls |-> IF at[c] = "unsent" THEN "unsent" ELSE "over"]
  /\ got' = [c \in Calls |-> IF got[c] = "waiting" THEN "unreachable" ELSE got[c]]
  /\ age' = [c \in Calls |-> 0] /\ spent' = [c \in Calls |-> 0]
  /\ UNCHANGED <<attempt, parts, rejected>>

HandleStage(c) ==
  /\ c \notin MomCalls
  /\ \/ Gate(c) \/ Refuse(c)
     \/ ChatFails(c) \/ ChatUsable(c) \/ ChatNoJSON(c) \/ ChatUndecodable(c) \/ ChatIncomplete(c)

\* Whatever decodes makes notes or minutes: nothing is asked of it.
HandleMinutes(c) ==
  /\ c \in MomCalls
  /\ \/ Gate(c) \/ Refuse(c)
     \/ ChatFails(c) \/ ChatUsable(c) \/ ChatNoJSON(c) \/ ChatUndecodable(c)

Serve(c) == HandleStage(c) \/ HandleMinutes(c)

Next ==
  \/ \E c \in Calls : Send(c) \/ Serve(c) \/ CallerTimesOut(c)
  \/ Tick \/ AiCrashes
  \/ (Ollama \/ WarmLoop \/ AiBoots \/ Monitor) /\ UNCHANGED callVars

Spec == Init /\ [][Next]_vars

\* A handler goes on: a chat ends by its own limit at the latest.
FairSpec == Spec /\ WarmFairness /\ \A c \in Calls : WF_vars(Serve(c))

-----------------------------------------------------------------------------
(* Properties. *)

\* Every variable has its type; the attempts keep within 1 + MaxRetries.
STypeOK ==
  /\ WTypeOK
  /\ at \in [Calls -> CallPoints]
  /\ attempt \in [Calls -> 0 .. MaxRetries + 1]
  /\ rejected \in [Calls -> 0 .. MaxRetries + 1]
  /\ parts \in [Calls -> SUBSET (1 .. MaxRetries + 1)]
  /\ age \in [Calls -> 0 .. ChatLimit] /\ spent \in [Calls -> 0 .. StageLimit]
  /\ got \in [Calls -> Outcomes]

\* "generations are refused with a clear reason until warmup completes"
\* (bootstrap.go:4-5): the model is asked only by a process that is ready, through
\* crashes and restarts.
OnlyReadyServes == \A c \in Calls : at[c] = "chat" => aiUp /\ rd.state = "ready"

\* The longest that a number of chats can take.
ChatTime(n) == n * ChatLimit

\* What the caller is told is what happened: "exhausted" (422) after exactly
\* 1 + MaxRetries rejected outputs, a failed chat (502) spends no attempt
\* (generate.go:44), and the value of a stage comes from one output, the first that
\* was not rejected.  A caller gives up no earlier than its chats, each as long as it may
\* be, fill its own limit: with the defaults not before the fourth attempt.
OutcomeHonest ==
  \A c \in Calls :
    /\ got[c] = "exhausted" => rejected[c] = MaxRetries + 1
    /\ got[c] \in {"llm_failed", "ok"} => rejected[c] = attempt[c] - 1
    /\ got[c] = "ok" /\ c \notin MomCalls => parts[c] = {attempt[c]}
    /\ got[c] = "timeout" => ChatTime(rejected[c] + 1) >= StageLimit

\* Every call is answered, and no handler outlives its caller for ever.
CallsEnd ==
  \A c \in Calls : (at[c] = "gate") ~> (at[c] = "over" /\ got[c] # "waiting")
=============================================================================
