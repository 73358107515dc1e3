----------------------------- MODULE RedisHealth -----------------------------
(***************************************************************************)
(* How one process knows of its Redis: the wrapper that follows the events *)
(* of the connection (redis-client.ts), the health monitor that looks at   *)
(* it now and then (health-monitor.ts), and the alerts that poll the       *)
(* health snapshot (metrics-alerting.ts).                                  *)
(*                                                                         *)
(* Refreshes and polls are started by intervals, whether the last one has  *)
(* ended or not, and await in between.  Times are counted in ticks.        *)
(***************************************************************************)
EXTENDS Naturals

CONSTANTS
  Refreshes, Polls,  \* slots for overlapping refreshes and polls
  DegradedAfter,     \* degradedAfterMs
  DownThreshold,     \* redisDownThresholdMs
  MaxAwait,          \* a refresh or a poll awaits no longer than this: bound
  Null

(* Times longer than this are alike. *)
Long == (IF DegradedAfter > DownThreshold THEN DegradedAfter ELSE DownThreshold) + MaxAwait + 1

VARIABLES
  link,          \* the connection: "up", "error" (to be reported) or "down"
  isConnected,   \* _isConnected
  disconnected,  \* how long ago disconnectedAt was, or Null
  event,         \* [what, nth]: the event last emitted to the listeners, or "none",
                 \* and the number of events so far, modulo 2
  status,        \* redis.status of the health snapshot, or "none" before the first
  refresh,       \* refresh[f]: [at, age]: where refresh f is, how old its `now` is
  poll,          \* poll[p]: [at, healthy, age]: where poll p is, what its snapshot
                 \* says, how old its `now` is
  redisDown, downSince, \* the alert state; downSince is how long ago, or Null
  recovered      \* history: how long ago a poll last found Redis healthy, or Null

conn  == <<link, isConnected, disconnected, event>>
alarm == <<redisDown, downSince, recovered>>
vars  == <<conn, status, refresh, poll, alarm>>

TypeOK ==
  /\ link \in {"up", "error", "down"}
  /\ isConnected \in BOOLEAN
  /\ disconnected \in (0 .. Long) \cup {Null}
  /\ event \in [what : {"none", "connected", "disconnected", "reconnected"}, nth : {0, 1}]
  /\ status \in {"none", "healthy", "degraded", "unhealthy"}
  /\ refresh \in [Refreshes -> [at : {"idle", "disk", "ping"}, age : 0 .. MaxAwait]]
  /\ poll \in [Polls -> [at : {"idle", "redis", "reported"}, healthy : BOOLEAN,
                      age : 0 .. MaxAwait]]
  /\ redisDown \in BOOLEAN
  /\ downSince \in (0 .. Long) \cup {Null}
  /\ recovered \in (0 .. Long) \cup {Null}

IdleRefresh == [at |-> "idle", age |-> 0]
IdlePoll == [at |-> "idle", healthy |-> FALSE, age |-> 0]

Init ==
  /\ link = "down"
  /\ isConnected = FALSE
  /\ disconnected = Null
  /\ event = [what |-> "none", nth |-> 0]
  /\ status = "none"
  /\ refresh = [f \in Refreshes |-> IdleRefresh]
  /\ poll = [p \in Polls |-> IdlePoll]
  /\ redisDown = FALSE
  /\ downSince = Null
  /\ recovered = Null

-----------------------------------------------------------------------------
(* The connection.  ioredis reconnects by itself, for as long as it takes. *)

Emit(e) == event' = [what |-> e, nth |-> 1 - event.nth]

Connect ==
  /\ link = "down"
  /\ link' = "up"
  /\ isConnected' = TRUE
  /\ disconnected' = Null
  /\ Emit(IF disconnected # Null THEN "reconnected" ELSE "connected")
  /\ UNCHANGED <<status, refresh, poll, alarm>>

\* Mutant: close does not look whether an error has been reported.
CloseAgain ==
  /\ link # "up"
  /\ link' = "down"
  /\ isConnected' = FALSE
  /\ disconnected' = 0
  /\ Emit("disconnected")
  /\ UNCHANGED <<status, refresh, poll, alarm>>

(* 'close', after an outage or after a failed attempt to reconnect; only the
   first one of an outage is news, unless 'error' was. *)
Close ==
  /\ link \in {"error", "down"}
  /\ link' = "down"
  /\ isConnected' = FALSE
  /\ IF isConnected
       THEN disconnected' = 0 /\ Emit("disconnected")
       ELSE UNCHANGED <<disconnected, event>>
  /\ UNCHANGED <<status, refresh, poll, alarm>>

(* 'error', with or without the connection. *)
Error ==
  /\ link \in {"error", "down"}
  /\ isConnected' = FALSE
  /\ IF isConnected /\ disconnected = Null
       THEN disconnected' = 0 /\ Emit("disconnected")
       ELSE UNCHANGED <<disconnected, event>>
  /\ UNCHANGED <<link, status, refresh, poll, alarm>>

(* The connection breaks; the process learns of it from its events. *)
Break ==
  /\ link = "up"
  /\ link' = "error"
  /\ UNCHANGED <<isConnected, disconnected, event, status, refresh, poll, alarm>>

-----------------------------------------------------------------------------
(* health-monitor.ts: refresh. *)

RefreshBegin(f) ==
  /\ refresh[f].at = "idle"
  /\ refresh' = [refresh EXCEPT ![f] = [at |-> "disk", age |-> 0]]
  /\ UNCHANGED <<conn, status, poll, alarm>>

(* After the await for the disk: no connection is "unhealthy", and after a
   while "degraded"; a connection is pinged. *)
Judge(f) ==
  /\ refresh[f].at = "disk"
  /\ IF isConnected
       THEN refresh' = [refresh EXCEPT ![f].at = "ping"] /\ UNCHANGED status
       ELSE /\ refresh' = [refresh EXCEPT ![f] = IdleRefresh]
            /\ status' = IF disconnected # Null /\ disconnected > refresh[f].age + DegradedAfter
                           THEN "degraded" ELSE "unhealthy"
  /\ UNCHANGED <<conn, poll, alarm>>

(* PING is answered, or times out. *)
Ping(f) ==
  /\ refresh[f].at = "ping"
  /\ refresh' = [refresh EXCEPT ![f] = IdleRefresh]
  /\ status' = IF link = "up" THEN "healthy" ELSE "unhealthy"
  /\ UNCHANGED <<conn, poll, alarm>>

-----------------------------------------------------------------------------
(* metrics-alerting.ts: poll. *)

(* The snapshot is taken first; alerts about memory and disk are awaited
   before anything is done about Redis. *)
PollBegin(p) ==
  /\ poll[p].at = "idle"
  /\ poll' = [poll EXCEPT ![p] = [at |-> "redis", healthy |-> status = "healthy", age |-> 0]]
  /\ UNCHANGED <<conn, status, refresh, alarm>>

(* The start of the outage, for a poll that finds Redis down. *)
Start(p) == IF downSince = Null THEN poll[p].age ELSE downSince

Lasts(p) == Start(p) >= DownThreshold + poll[p].age

\* Mutant: the alert is not remembered, and recovery not reported.
PollDownForgets(p) ==
  /\ poll[p].at = "redis" /\ ~poll[p].healthy
  /\ downSince' = IF Lasts(p) THEN poll[p].age ELSE Start(p)
  /\ poll' = [poll EXCEPT ![p] = IdlePoll]
  /\ UNCHANGED <<conn, status, refresh, redisDown, recovered>>

PollDown(p) ==
  /\ poll[p].at = "redis" /\ ~poll[p].healthy
  /\ downSince' = Start(p)
  /\ redisDown' = (redisDown \/ Lasts(p))
  /\ poll' = [poll EXCEPT ![p] = IdlePoll]
  /\ UNCHANGED <<conn, status, refresh, recovered>>

\* Mutant: the start of an outage that was not alerted is kept.
PollUpKeepsStart(p) ==
  /\ poll[p].at = "redis" /\ poll[p].healthy
  /\ redisDown' = FALSE
  /\ recovered' = 0
  /\ poll' = [poll EXCEPT ![p] = IF redisDown THEN [@ EXCEPT !.at = "reported"] ELSE IdlePoll]
  /\ UNCHANGED <<conn, status, refresh, downSince>>

(* The alert about the recovery is awaited before downSince is reset. *)
PollUp(p) ==
  /\ poll[p].at = "redis" /\ poll[p].healthy
  /\ redisDown' = FALSE
  /\ recovered' = 0
  /\ IF redisDown
       THEN poll' = [poll EXCEPT ![p].at = "reported"] /\ UNCHANGED downSince
       ELSE poll' = [poll EXCEPT ![p] = IdlePoll] /\ downSince' = Null
  /\ UNCHANGED <<conn, status, refresh>>

Reported(p) ==
  /\ poll[p].at = "reported"
  /\ downSince' = Null
  /\ poll' = [poll EXCEPT ![p] = IdlePoll]
  /\ UNCHANGED <<conn, status, refresh, redisDown, recovered>>

-----------------------------------------------------------------------------
Later(t) == IF t = Null THEN Null ELSE IF t < Long THEN t + 1 ELSE t

Tick ==
  /\ \A f \in Refreshes : refresh[f].age < MaxAwait
  /\ \A p \in Polls : poll[p].age < MaxAwait
  /\ disconnected' = Later(disconnected)
  /\ downSince' = Later(downSince)
  /\ recovered' = Later(recovered)
  /\ refresh' = [f \in Refreshes |->
                   IF refresh[f].at = "idle" THEN refresh[f]
                   ELSE [refresh[f] EXCEPT !.age = @ + 1]]
  /\ poll' = [p \in Polls |->
                IF poll[p].at = "idle" THEN poll[p] ELSE [poll[p] EXCEPT !.age = @ + 1]]
  /\ UNCHANGED <<link, isConnected, event, status, redisDown>>

RefreshStep(f) == RefreshBegin(f) \/ Judge(f) \/ Ping(f)
PollStep(p) == PollBegin(p) \/ PollDown(p) \/ PollUp(p) \/ Reported(p)

Next ==
  \/ Connect \/ Close \/ Error \/ Break \/ Tick
  \/ \E f \in Refreshes : RefreshStep(f)
  \/ \E p \in Polls : PollStep(p)

Spec == Init /\ [][Next]_vars

-----------------------------------------------------------------------------
(* What listeners were told last is what the wrapper says, and
   disconnectedSince is there exactly during an outage they were told of. *)
EventsTellState ==
  /\ isConnected <=> event.what \in {"connected", "reconnected"}
  /\ disconnected # Null <=> event.what = "disconnected"

(* Listeners are told of every outage once and of every recovery once, in the
   order in which they happen, although 'error' and 'close' both report an
   outage, in either order, and go on while it lasts. *)
EventsAlternate ==
  [][event' # event =>
       <<event.what, event'.what>> \in
         {<<"none", "connected">>, <<"disconnected", "reconnected">>}
         \cup {"connected", "reconnected"} \X {"disconnected"}]_vars

(* "How long Redis must be disconnected before alerting": an alert comes no
   earlier than the threshold after a poll that found Redis healthy, give or
   take what a poll awaits, but while the message about a recovery is awaited:
   until it has been sent, the start of the outage before it still counts. *)
AlertIsDue ==
  [][~redisDown /\ redisDown' /\ recovered # Null =>
       \/ recovered + MaxAwait >= DownThreshold
       \/ \E p \in Polls : poll[p].at = "reported"]_vars

(* An outage that lasts is alerted in the end, and the alert stays, whatever
   refreshes and polls were under way when it began; a connection that lasts
   is reported as recovered. *)
AlertsFollow ==
  /\ <>[](link # "up") => <>[]redisDown
  /\ <>[](link = "up") => <>[](~redisDown /\ downSince = Null)
=============================================================================
