--------------------------- MODULE GracefulShutdown ---------------------------
(***************************************************************************)
(* The drain that graceful-shutdown.ts performs when the process receives  *)
(* SIGTERM or SIGINT: the counter of in-flight requests its middleware     *)
(* keeps, the wait for that counter to reach zero, and the exit.           *)
(*                                                                         *)
(* A connection carries at most one request at a time.  A response that    *)
(* completes raises the event 'finish' and then the event 'close'; one     *)
(* that is cut off raises 'close' alone.                                   *)
(***************************************************************************)
EXTENDS Integers, FiniteSets

CONSTANT Conns   \* client TCP connections

ASSUME ConnsFinite == IsFiniteSet(Conns)

Signals == {"SIGTERM", "SIGINT"}

VARIABLES
  conn,       \* conn[c]: where connection c and its current request are
  inFlight,   \* inFlightRequests
  listening,  \* the HTTP server accepts new connections
  armed,      \* signals whose once-listener is still registered
  phase,      \* progress of shutdown()
  expired,    \* timeoutMs has elapsed since shutdown() began
  verdict     \* how the process ends, once that is decided

vars == <<conn, inFlight, listening, armed, phase, expired, verdict>>

ConnState == {"new", "idle", "open", "finished", "ws", "gone"}

TypeOK ==
  /\ conn \in [Conns -> ConnState]
  /\ inFlight \in Nat
  /\ listening \in BOOLEAN
  /\ armed \subseteq Signals
  /\ phase \in {"running", "draining", "flushing", "exited"}
  /\ expired \in BOOLEAN
  /\ verdict \in {"none", "exit 0", "exit 1", "signal"}

Init ==
  /\ conn = [c \in Conns |-> "new"]
  /\ inFlight = 0
  /\ listening = TRUE
  /\ armed = Signals
  /\ phase = "running"
  /\ expired = FALSE
  /\ verdict = "none"

Up == phase # "exited"

(* Requests whose response is not complete. *)
Open == {c \in Conns : conn[c] = "open"}

\* Mutant: no Math.max.
DecBelowZero(n) == n - 1

Dec(n) == IF n > 0 THEN n - 1 ELSE 0

-----------------------------------------------------------------------------
(* The HTTP server and its clients.                                        *)

Connect(c) ==
  /\ Up /\ listening /\ conn[c] = "new"
  /\ conn' = [conn EXCEPT ![c] = "idle"]
  /\ UNCHANGED <<inFlight, listening, armed, phase, expired, verdict>>

(* An upgrade to WebSocket bypasses the middleware. *)
Upgrade(c) ==
  /\ Up /\ conn[c] = "idle"
  /\ conn' = [conn EXCEPT ![c] = "ws"]
  /\ UNCHANGED <<inFlight, listening, armed, phase, expired, verdict>>

(* A kept-alive connection may carry a request even after the server has
   stopped listening. *)
Request(c) ==
  /\ Up /\ conn[c] = "idle"
  /\ conn' = [conn EXCEPT ![c] = "open"]
  /\ inFlight' = inFlight + 1
  /\ UNCHANGED <<listening, armed, phase, expired, verdict>>

Finish(c) ==
  /\ Up /\ conn[c] = "open"
  /\ conn' = [conn EXCEPT ![c] = "finished"]
  /\ inFlight' = Dec(inFlight)
  /\ UNCHANGED <<listening, armed, phase, expired, verdict>>

(* 'close' after 'finish': the same listener runs a second time. *)
CloseFinished(c) ==
  /\ Up /\ conn[c] = "finished"
  /\ \E s \in {"idle", "gone"} : conn' = [conn EXCEPT ![c] = s]
  /\ inFlight' = Dec(inFlight)
  /\ UNCHANGED <<listening, armed, phase, expired, verdict>>

\* Mutant: only 'finish' is listened to.
AbortUncounted(c) ==
  /\ Up /\ conn[c] = "open"
  /\ conn' = [conn EXCEPT ![c] = "gone"]
  /\ UNCHANGED <<inFlight, listening, armed, phase, expired, verdict>>

(* 'close' without 'finish': the client went away. *)
Abort(c) ==
  /\ Up /\ conn[c] = "open"
  /\ conn' = [conn EXCEPT ![c] = "gone"]
  /\ inFlight' = Dec(inFlight)
  /\ UNCHANGED <<listening, armed, phase, expired, verdict>>

Hangup(c) ==
  /\ Up /\ conn[c] \in {"idle", "ws"}
  /\ conn' = [conn EXCEPT ![c] = "gone"]
  /\ UNCHANGED <<inFlight, listening, armed, phase, expired, verdict>>

-----------------------------------------------------------------------------
(* shutdown().                                                             *)

\* Mutant: the loop has no timeout.
CheckForever ==
  \/ /\ inFlight = 0
     /\ phase' = "flushing" /\ verdict' = "exit 0"
  \/ /\ inFlight > 0
     /\ phase' = "draining" /\ UNCHANGED verdict

(* One evaluation of the drain loop's conditions, on the counter as it is. *)
Check ==
  \/ /\ inFlight = 0
     /\ phase' = "flushing" /\ verdict' = "exit 0"
  \/ /\ inFlight > 0 /\ expired
     /\ phase' = "flushing" /\ verdict' = "exit 1"
  \/ /\ inFlight > 0 /\ ~expired
     /\ phase' = "draining" /\ UNCHANGED verdict

(* What server.close() and closeAll(1001) do to the connections: WebSockets
   are closed; idle connections are closed too by the Node releases whose
   close() does so. *)
Disconnected ==
  {[c \in Conns |-> IF conn[c] \in s THEN "gone" ELSE conn[c]]
     : s \in {{"ws"}, {"ws", "idle"}}}

(* The first signal starts the shutdown and evaluates the loop once; the
   second, of the other kind, finds isShuttingDown set. *)
Signal(s) ==
  /\ Up /\ s \in armed
  /\ armed' = armed \ {s}
  /\ IF phase = "running"
       THEN /\ listening' = FALSE
            /\ conn' \in Disconnected
            /\ Check
       ELSE UNCHANGED <<listening, conn, phase, verdict>>
  /\ UNCHANGED <<inFlight, expired>>

(* A signal whose once-listener has run already has its default effect. *)
SignalAgain(s) ==
  /\ Up /\ s \notin armed
  /\ phase' = "exited" /\ verdict' = "signal"
  /\ UNCHANGED <<conn, inFlight, listening, armed, expired>>

Timeout ==
  /\ phase = "draining" /\ ~expired
  /\ expired' = TRUE
  /\ UNCHANGED <<conn, inFlight, listening, armed, phase, verdict>>

Poll ==
  /\ phase = "draining"
  /\ Check
  /\ UNCHANGED <<conn, inFlight, listening, armed, expired>>

(* The logs are flushed, which takes a while, and the process exits. *)
Flushed ==
  /\ phase = "flushing"
  /\ phase' = "exited"
  /\ UNCHANGED <<conn, inFlight, listening, armed, expired, verdict>>

-----------------------------------------------------------------------------
Client(c) ==
  \/ Connect(c) \/ Upgrade(c) \/ Request(c) \/ Finish(c)
  \/ CloseFinished(c) \/ Abort(c) \/ Hangup(c)

Next ==
  \/ \E c \in Conns : Client(c)
  \/ \E s \in Signals : Signal(s) \/ SignalAgain(s)
  \/ Timeout \/ Poll \/ Flushed

Spec == Init /\ [][Next]_vars

(* Timers fire and the poll loop runs: the event loop is never blocked. *)
FairSpec == Spec /\ WF_vars(Timeout) /\ WF_vars(Poll) /\ WF_vars(Flushed)

-----------------------------------------------------------------------------
(* The counter never exceeds the number of requests whose response is
   incomplete, whatever the order of 'finish' and 'close' events of
   overlapping requests: the drain never waits for a request that is over. *)
NeverOverCounts == inFlight <= Cardinality(Open)

(* A shutdown that began ends: the timeout bounds the drain even if some
   request never completes. *)
ShutdownEnds == (phase = "draining") ~> (phase = "exited")

(* What the module says it does, "Wait for in-flight requests to drain": a
   clean exit is chosen only when every response is complete.  Every
   response decrements the counter twice, so one response that completes
   hides another that has not. *)
CleanOnlyWhenDrained ==
  [][(phase = "draining" /\ phase' = "flushing" /\ verdict' = "exit 0") => Open = {}]_vars
=============================================================================
