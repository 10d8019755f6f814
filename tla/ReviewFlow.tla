----------------------------- MODULE ReviewFlow -----------------------------
(***************************************************************************)
(* The two-step flow in the browser: a requirement is validated, the        *)
(* reviewer edits the proposed criteria, the suite is generated from them   *)
(* and downloaded (web/handlers.go, access.go, validation.html).            *)
(*                                                                          *)
(* Tabs of one browser share the queue, which is FifoService: JobQueue      *)
(* implements it.  What FifoService does in one step and runOne in two is   *)
(* the end of a job: State is written before Result, both under the lock,   *)
(* and handleResult reads them without it.                                  *)
(*                                                                          *)
(* A tab's requirement is the tab itself, so that a mix-up shows.  The      *)
(* other fields of the form travel with it unread.                          *)
(***************************************************************************)
EXTENDS ReviewForm, FifoService

CONSTANTS
  Tabs,
  Analyses,     \* criteria an analysis may propose: non-empty sequences of rows
  Texts,        \* what a reviewer may write
  Retain,       \* finished jobs kept
  MaxEdits,     \* bound on the reviewers' edits
  MaxRestarts   \* bound on restarts of qa-core

ASSUME FlowAssumption ==
  /\ NoJob \notin Jobs
  /\ Capacity \in Nat
  /\ "" \in STRING     \* the provers do not know the type of a literal
  /\ Texts \subseteq STRING \ {""}
  /\ Analyses \subseteq Seq(PageRows) \ {<<>>}
  /\ Retain \in Nat \ {0} /\ MaxEdits \in Nat /\ MaxRestarts \in Nat

VARIABLES
  view,       \* the page of each tab
  about,      \* the job the page is about
  rows,       \* the criteria on the page
  left,       \* what the reviewer left on the page sent last (read by the properties only)
  call,       \* where the handler of the tab's request for a result stands
  led,        \* it was made because a frame said that the job had ended (kept on a broken page)
  signedIn,   \* the browser has the access cookie
  request,    \* Job.Kind and Job.Req
  result,     \* Job.Result: {} is nil, {res} points to res
  writing,    \* Job.State of the served job while runOne holds the lock: "no" before that
  finished,   \* Manager.finished
  edits, restarts

tabVars == <<view, about, rows, left, call, led>>
jobVars == <<fvars, request, result, writing, finished>>
vars    == <<tabVars, jobVars, signedIn, edits, restarts>>

Views == {"form", "waiting", "review", "result", "error", "access", "broken"}
CallPoints == {"none", "asked", "reading", "stated"}

NoRequest == [kind |-> "none"]

\* Manager.jobs, whose bookkeeping is JobQueue's subject.
Kept == {j \in Jobs : j = serving \/ j \in ToSet(line) \cup ToSet(finished)}

\* Job.State as the handler reads it.
State(j) == IF j = serving /\ writing # "no" THEN writing ELSE status[j]

Init ==
  /\ FInit
  /\ view = [t \in Tabs |-> "form"] /\ about = [t \in Tabs |-> NoJob]
  /\ rows = [t \in Tabs |-> <<>>]   /\ left = [t \in Tabs |-> <<>>]
  /\ call = [t \in Tabs |-> "none"] /\ led = [t \in Tabs |-> FALSE]
  /\ signedIn = TRUE
  /\ request = [j \in Jobs |-> NoRequest] /\ result = [j \in Jobs |-> {}]
  /\ writing = "no"
  /\ finished = <<>>
  /\ edits = 0 /\ restarts = 0

-----------------------------------------------------------------------------
(* The access gate: a cookie that is there or not.  A POST without it is     *)
(* answered 401, which leaves the page alone; a GET leads to the code page.  *)

SignIn ==
  /\ ~signedIn
  /\ signedIn' = TRUE
  /\ UNCHANGED <<tabVars, jobVars, edits, restarts>>

\* Revoke, or the cookie's seven days are over.
SignOut ==
  /\ signedIn
  /\ signedIn' = FALSE
  /\ UNCHANGED <<tabVars, jobVars, edits, restarts>>

(* submitForm. *)

\* The form posts to /validate, the review page to /generate.
Request(t) ==
  IF view[t] = "form"
    THEN [kind |-> "validate", requirement |-> t, acs |-> <<>>]
    ELSE [kind |-> "generate", requirement |-> t, acs |-> ParseCuratedACs(Fields(rows[t]))]

\* The rows that are not blank.
Described(list) == {row \in ToSet(list) : row.desc # ""}

Sends(t) == signedIn /\ call[t] = "none" /\ view[t] \in {"form", "review"}

\* The answer is the waiting card of a new job.
Send(t, j) ==
  /\ Sends(t)
  /\ writing = "no"
  /\ Accept(j)
  /\ request' = [request EXCEPT ![j] = Request(t)]
  /\ view' = [view EXCEPT ![t] = "waiting"]
  /\ about' = [about EXCEPT ![t] = j]
  /\ left' = [left EXCEPT ![t] = Selected(rows[t], Described(rows[t]))]
  /\ rows' = [rows EXCEPT ![t] = <<>>]
  /\ UNCHANGED <<call, led, signedIn, result, writing, finished, edits, restarts>>

\* The queue is full: the error partial replaces the page, edited rows included.
SendRefused(t, j) ==
  /\ Sends(t)
  /\ writing = "no"
  /\ Refuse(j)
  /\ view' = [view EXCEPT ![t] = "error"]
  /\ rows' = [rows EXCEPT ![t] = <<>>]
  /\ UNCHANGED <<about, left, call, led, signedIn, request, result, writing, finished, edits, restarts>>

\* "Requirement is required.": the browser's own check lets blanks pass.
SendBlank(t) ==
  /\ Sends(t)
  /\ view[t] = "form"
  /\ view' = [view EXCEPT ![t] = "error"]
  /\ UNCHANGED <<about, rows, left, call, led, jobVars, signedIn, edits, restarts>>

-----------------------------------------------------------------------------
(* The worker. *)

Start ==
  /\ writing = "no"
  /\ Serve
  /\ UNCHANGED <<tabVars, request, result, writing, finished, signedIn, edits, restarts>>

\* runOne takes the lock for the second time and writes State.
WriteState(outcome) ==
  /\ serving # NoJob
  /\ writing = "no"
  /\ writing' = outcome
  /\ UNCHANGED <<tabVars, fvars, request, result, finished, signedIn, edits, restarts>>

Numbered(list) ==
  [i \in DOMAIN list |-> [id |-> i, desc |-> list[i].desc, severity |-> list[i].severity]]

\* What the runner returned: the analysis, by validateRunner, or a suite for the
\* curated criteria, for the derived ones if there are none.
Answers(req) ==
  LET derived == {Numbered(list) : list \in Analyses}
  IN {[requirement |-> req.requirement, acs |-> acs] :
        acs \in IF req.acs # <<>> THEN {req.acs} ELSE derived}

\* Variant: nothing is evicted.
EndedAll(list) == list

\* evictLocked.
Ended(list) == IF Len(list) > Retain THEN SubSeq(list, Len(list) - Retain + 1, Len(list)) ELSE list

\* Result, m.running, m.finished, eviction; the lock is released.
WriteResult ==
  /\ writing # "no"
  /\ Complete(writing)
  /\ IF writing = "done"
       THEN \E res \in Answers(request[serving]) : result' = [result EXCEPT ![serving] = {res}]
       ELSE UNCHANGED result
  /\ writing' = "no"
  /\ finished' = Ended(Append(finished, serving))
  /\ UNCHANGED <<tabVars, request, signedIn, edits, restarts>>

-----------------------------------------------------------------------------
(* handleResult. *)

Asks(t, because) ==
  /\ view[t] = "waiting"
  /\ call[t] = "none"
  /\ call' = [call EXCEPT ![t] = "asked"]
  /\ led' = [led EXCEPT ![t] = because]
  /\ UNCHANGED <<view, about, rows, left, jobVars, signedIn, edits, restarts>>

\* Variant: the script asks as soon as the job is no longer queued.
LeadEarly(t) ==
  /\ about[t] \in Kept
  /\ writing = "no"
  /\ State(about[t]) \in {"served", "done", "failed"}
  /\ Asks(t, TRUE)

\* A frame, read under the lock, says that the job has ended: the script of the waiting
\* card asks for the result.
Lead(t) ==
  /\ about[t] \in Kept
  /\ writing = "no"
  /\ State(about[t]) \in {"done", "failed"}
  /\ Asks(t, TRUE)

\* The address is opened by itself, ended or not.
Peek(t) == Asks(t, FALSE)

Answer(t, page) ==
  /\ call' = [call EXCEPT ![t] = "none"]
  /\ view' = [view EXCEPT ![t] = page]
  /\ led' = [led EXCEPT ![t] = led[t] /\ page = "broken"]
  /\ UNCHANGED <<about, left, jobVars, signedIn, edits, restarts>>

\* The gate sends the GET to the code page; m.jobs has the job no more.
AnswerOther(t) ==
  /\ call[t] = "asked"
  /\ \/ ~signedIn /\ Answer(t, "access")
     \/ signedIn /\ writing = "no" /\ about[t] \notin Kept /\ Answer(t, "error")
  /\ UNCHANGED rows

\* Get, under the lock.
GetJob(t) ==
  /\ call[t] = "asked"
  /\ signedIn /\ writing = "no" /\ about[t] \in Kept
  /\ call' = [call EXCEPT ![t] = "reading"]
  /\ UNCHANGED <<view, about, rows, left, led, jobVars, signedIn, edits, restarts>>

\* switch job.State, without the lock.
ReadState(t) ==
  /\ call[t] = "reading"
  /\ CASE State(about[t]) = "done" ->
            /\ call' = [call EXCEPT ![t] = "stated"]
            /\ UNCHANGED <<view, about, left, led, jobVars, signedIn, edits, restarts>>
       [] State(about[t]) = "failed" -> Answer(t, "error")
       [] OTHER -> Answer(t, "waiting")
  /\ UNCHANGED rows

Shown(acs) == [i \in DOMAIN acs |-> [desc |-> acs[i].desc, severity |-> acs[i].severity]]

\* job.Result, without the lock either.  On nil, the template of a validation fails and
\* the exports of a suite panic: the browser gets no page.
ReadResult(t) ==
  LET j == about[t]
  IN /\ call[t] = "stated"
     /\ IF result[j] = {}
          THEN Answer(t, "broken") /\ UNCHANGED rows
          ELSE /\ Answer(t, IF request[j].kind = "validate" THEN "review" ELSE "result")
               /\ \E res \in result[j] : rows' = [rows EXCEPT ![t] = Shown(res.acs)]

-----------------------------------------------------------------------------
(* The page itself. *)

\* The script's set and make, the trash can, and a drag; the dialog refuses a blank text.
Rewritten(list) == {[list EXCEPT ![i].desc = text] : i \in DOMAIN list, text \in Texts}
Added(list)     == {Append(list, [desc |-> text, severity |-> ""]) : text \in Texts}
Dropped(list)   == {RemoveAt(list, i) : i \in DOMAIN list}
Moved(list)     == {InsertAt(RemoveAt(list, i), k, list[i]) : i, k \in DOMAIN list}

Edited(list) == Rewritten(list) \cup Added(list) \cup Dropped(list) \cup Moved(list)

Edit(t) ==
  /\ view[t] = "review"
  /\ edits < MaxEdits
  /\ edits' = edits + 1
  /\ \E list \in Edited(rows[t]) : rows' = [rows EXCEPT ![t] = list]
  /\ UNCHANGED <<view, about, left, call, led, jobVars, signedIn, restarts>>

\* "New", "Start over", or the browser's own reload; an answer under way is not shown.
Reload(t) ==
  /\ view[t] # "form"
  /\ view' = [view EXCEPT ![t] = IF signedIn THEN "form" ELSE "access"]
  /\ about' = [about EXCEPT ![t] = NoJob]
  /\ rows' = [rows EXCEPT ![t] = <<>>]
  /\ left' = [left EXCEPT ![t] = <<>>]
  /\ call' = [call EXCEPT ![t] = "none"]
  /\ led' = [led EXCEPT ![t] = FALSE]
  /\ UNCHANGED <<jobVars, signedIn, edits, restarts>>

\* handleExport: what a download is made of, nothing for a 404.
Download(j) == IF j \in Kept THEN result[j] ELSE {}

-----------------------------------------------------------------------------
(* qa-core goes and comes back: everything it kept was in memory.  Requests  *)
(* under way get no answer, the pages stay.                                  *)

Gone(j) == status[j] \in {"waiting", "served"}

\* Job ids are random: none is given out twice.
Restart ==
  /\ restarts < MaxRestarts
  /\ restarts' = restarts + 1
  /\ line' = <<>> /\ serving' = NoJob
  /\ status' = [j \in Jobs |-> IF Gone(j) THEN "lost" ELSE status[j]]
  /\ writing' = "no"
  /\ finished' = <<>>
  /\ call' = [t \in Tabs |-> "none"] /\ led' = [t \in Tabs |-> FALSE]
  /\ UNCHANGED <<view, about, rows, left, open, request, result, signedIn, edits>>

Handler(t) == AnswerOther(t) \/ GetJob(t) \/ ReadState(t) \/ ReadResult(t)

Tab(t) ==
  \/ \E j \in Jobs : Send(t, j) \/ SendRefused(t, j)
  \/ SendBlank(t)
  \/ Lead(t) \/ Peek(t)
  \/ Handler(t)
  \/ Edit(t)
  \/ Reload(t)

Worker ==
  \/ Start
  \/ \E outcome \in {"done", "failed"} : WriteState(outcome)
  \/ WriteResult

Next == (\E t \in Tabs : Tab(t)) \/ Worker \/ SignIn \/ SignOut \/ Restart

Spec == Init /\ [][Next]_vars

-----------------------------------------------------------------------------
(* Properties. *)

\* Every variable has its type, and the queue keeps no more than it may.
RTypeOK ==
  /\ view \in [Tabs -> Views] /\ call \in [Tabs -> CallPoints] /\ led \in [Tabs -> BOOLEAN]
  /\ about \in [Tabs -> Jobs \cup {NoJob}]
  /\ \A t \in Tabs : rows[t] \in Seq(PageRows) /\ left[t] \in Seq(PageRows)
  /\ serving \in Jobs \cup {NoJob}
  /\ writing \in {"no", "done", "failed"}
  /\ writing # "no" => serving # NoJob
  /\ Len(line) <= Capacity /\ Len(finished) <= Retain
  /\ signedIn \in BOOLEAN

\* Whatever other tabs do, and across evictions and restarts: the page a tab ends up
\* with is about its own requirement, and a download has what the page shows.
OwnPage ==
  \A t \in Tabs : view[t] \in {"review", "result"} =>
    \A res \in result[about[t]] :
      /\ res.requirement = t
      /\ Download(about[t]) \in {{res}, {}}
      /\ view[t] = "result" => rows[t] = Shown(res.acs)

\* "generation uses exactly this list" (validation.html:58): the suite of a tab is made of
\* the rows left on its review page, in their order with their severities, as AC-1..N.  A
\* list left empty is the exception: then it is made of derived criteria.
ExactlyThisList ==
  \A t \in Tabs : view[t] = "result" /\ left[t] # <<>> =>
    \A res \in result[about[t]] : res.acs = Numbered(left[t])

\* The two-step flow gives each tab the suite it asked for.
OwnResult == OwnPage /\ ExactlyThisList

\* The page that asks because a frame said the job has ended gets a page, although the
\* handler reads State and Result without the lock: both are written by then.
LedPageWhole == \A t \in Tabs : view[t] = "broken" => ~led[t]

\* handleResult "returns the rendered result, an error partial, or the waiting partial if
\* still in flight" (handlers.go:234-235), whenever it is asked.
AnswersAPage == \A t \in Tabs : view[t] # "broken"
=============================================================================
