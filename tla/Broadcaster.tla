---------------------------- MODULE Broadcaster ----------------------------
(***************************************************************************)
(* The Server-Sent-Events broadcaster (internal/sse/sse.go): every listener *)
(* owns a channel of capacity one, Publish offers each of them a tick and   *)
(* never waits.  All three operations hold Broadcaster.mu throughout, so    *)
(* each is one step; a tick carries no payload.                             *)
(***************************************************************************)
CONSTANT Viewers    \* the event-stream connections that may be open

VARIABLE tick       \* each listener's channel: absent from subs, empty, or holding a tick

BInit == tick = [v \in Viewers |-> "absent"]

Subscribed == {v \in Viewers : tick[v] # "absent"}

\* make(chan struct{}, 1), entered in subs.
Subscribe(v) ==
  /\ tick[v] = "absent"
  /\ tick' = [tick EXCEPT ![v] = "empty"]

\* A full channel swallows the tick: one pending tick already says "go re-read".
Publish ==
  tick' = [v \in Viewers |-> IF v \in Subscribed THEN "pending" ELSE tick[v]]

\* case _, open := <-ticks
Receive(v) ==
  /\ tick[v] = "pending"
  /\ tick' = [tick EXCEPT ![v] = "empty"]

\* The cancel func: out of subs and closed, whatever was pending is lost.
Unsubscribe(v) ==
  /\ v \in Subscribed
  /\ tick' = [tick EXCEPT ![v] = "absent"]
=============================================================================
