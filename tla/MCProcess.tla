------------------------------ MODULE MCProcess ------------------------------
(* GracefulShutdown for TLC, and beside it what the process knows of its
   Redis.  They share no state, so one run explores them side by side.      *)
EXTENDS GracefulShutdown, TLC

CONSTANTS Refreshes, Polls, DegradedAfter, DownThreshold, MaxAwait, Null   \* of RedisHealth

ASSUME HealthParameters ==
  DegradedAfter \in Nat /\ DownThreshold \in Nat /\ MaxAwait \in Nat /\ Null \notin Nat

VARIABLES
  scenario,
  link, isConnected, disconnected, event, status, refresh, poll, redisDown, downSince,
  recovered

Health == INSTANCE RedisHealth

healthVars == <<link, isConnected, disconnected, event, status, refresh, poll,
                redisDown, downSince, recovered>>
allVars    == <<scenario, vars, healthVars>>

ProcessInit ==
  /\ scenario \in {"shutdown", "health"}
  /\ Init /\ Health!Init

InShutdown(A) == scenario = "shutdown" /\ A /\ UNCHANGED <<scenario, healthVars>>
InHealth(A)   == scenario = "health" /\ A /\ UNCHANGED <<scenario, vars>>

(* The event loop is never blocked: timers fire, and what refreshes and polls
   await is answered or times out.  A socket that breaks is closed. *)
ProcessSpec ==
  /\ ProcessInit
  /\ [][InShutdown(Next) \/ InHealth(Health!Next)]_allVars
  /\ WF_allVars(InShutdown(Timeout)) /\ WF_allVars(InShutdown(Poll))
  /\ WF_allVars(InShutdown(Flushed))
  /\ WF_allVars(InHealth(Health!Tick)) /\ WF_allVars(InHealth(Health!Close))
  /\ \A f \in Refreshes : WF_allVars(InHealth(Health!RefreshStep(f)))
  /\ \A p \in Polls : WF_allVars(InHealth(Health!PollStep(p)))

-----------------------------------------------------------------------------
(* RedisHealth!EventsAlternate: listeners are told of every outage and every
   recovery once and in order, and what they were told last is the state. *)
EventsAlternate ==
  [](Health!TypeOK /\ Health!EventsTellState) /\ Health!EventsAlternate

(* RedisHealth!AlertIsDue: no alert comes before Redis has been away for the
   threshold, except while the message about a recovery is awaited. *)
AlertIsDue == Health!AlertIsDue

(* RedisHealth!AlertsFollow: an outage that lasts is alerted, whatever refreshes
   and polls were under way when it began, and a connection that lasts is
   reported as recovered. *)
AlertsFollow == scenario = "health" => Health!AlertsFollow
=============================================================================
