---------------------------- MODULE ProcessProofs ----------------------------
(***************************************************************************)
(* For every finite set of connections: the types of GracefulShutdown, and *)
(* the bound on its counter.  For any number of refreshes and polls and    *)
(* all thresholds: the types of RedisHealth, that its listeners hear of    *)
(* each outage and recovery, and that no alert comes before it is due.     *)
(***************************************************************************)
EXTENDS MCProcess, FiniteSetTheorems, TLAPS

Inv == TypeOK /\ NeverOverCounts

(* The set of open requests after a step that changes one connection. *)
LEMMA OpenStep ==
  ASSUME TypeOK, NEW c \in Conns, NEW s \in ConnState,
         conn' = [conn EXCEPT ![c] = s]
  PROVE  Open' = IF s = "open" THEN Open \cup {c} ELSE Open \ {c}
  BY DEF TypeOK, Open

LEMMA OpenFinite == IsFiniteSet(Open) /\ Cardinality(Open) \in Nat
  <1>1. Open \subseteq Conns
    BY DEF Open
  <1> QED
    BY <1>1, ConnsFinite, FS_Subset, FS_CardinalityType

(* A client's step keeps the counter at most the number of open requests. *)
LEMMA ClientKeeps ==
  ASSUME Inv, NEW c \in Conns, Client(c) PROVE Inv'
  <1> USE DEF Inv, NeverOverCounts, Dec, ConnState
  <1>0. inFlight \in Nat /\ Cardinality(Open) \in Nat /\ IsFiniteSet(Open)
    BY OpenFinite DEF TypeOK
  <1>1. TypeOK'
    <2>1. \E s \in ConnState : conn' = [conn EXCEPT ![c] = s]
      BY DEF Client, Connect, Upgrade, Request, Finish, CloseFinished, Abort, Hangup
    <2>2. inFlight' \in {inFlight, inFlight + 1, Dec(inFlight)}
      BY DEF Client, Connect, Upgrade, Request, Finish, CloseFinished, Abort, Hangup
    <2>3. UNCHANGED <<listening, armed, phase, expired, verdict>>
      BY DEF Client, Connect, Upgrade, Request, Finish, CloseFinished, Abort, Hangup
    <2>4. conn' \in [Conns -> ConnState] /\ inFlight' \in Nat
      <3>1. conn \in [Conns -> ConnState]
        BY DEF TypeOK
      <3> QED
        BY <1>0, <2>1, <2>2, <3>1
    <2> QED
      BY <2>3, <2>4 DEF TypeOK
  <1>2. CASE Request(c)
    <2>1. Open' = Open \cup {c} /\ c \notin Open /\ inFlight' = inFlight + 1
      BY <1>2, OpenStep DEF Request, Open
    <2>2. Cardinality(Open') = Cardinality(Open) + 1
      BY <1>0, <2>1, FS_AddElement
    <2> QED
      BY <1>0, <1>1, <2>1, <2>2
  <1>3. CASE Finish(c) \/ Abort(c)
    <2>1. Open' = Open \ {c} /\ c \in Open /\ inFlight' = Dec(inFlight)
      BY <1>3, OpenStep DEF Finish, Abort, Open
    <2>2. Cardinality(Open') = Cardinality(Open) - 1 /\ Cardinality(Open') \in Nat
      BY <1>0, <2>1, FS_RemoveElement, FS_CardinalityType
    <2> QED
      BY <1>0, <1>1, <2>1, <2>2
  <1>4. CASE Connect(c) \/ Upgrade(c) \/ CloseFinished(c) \/ Hangup(c)
    <2>1. conn[c] # "open" /\ \E s \in ConnState \ {"open"} : conn' = [conn EXCEPT ![c] = s]
      BY <1>4 DEF Connect, Upgrade, CloseFinished, Hangup
    <2>3. Open' = Open
      BY <2>1, OpenStep DEF Open
    <2>2. inFlight' \in Nat /\ inFlight' <= inFlight
      BY <1>0, <1>4 DEF Connect, Upgrade, CloseFinished, Hangup
    <2> QED
      BY <1>0, <1>1, <2>2, <2>3
  <1> QED
    BY <1>2, <1>3, <1>4 DEF Client

(* The shutdown disconnects no connection whose request is open. *)
LEMMA ServerKeeps ==
  ASSUME Inv, (\E s \in Signals : Signal(s) \/ SignalAgain(s)) \/ Timeout \/ Poll \/ Flushed
  PROVE  Inv'
  <1>1. TypeOK'
    BY DEF Inv, TypeOK, Signals, Signal, SignalAgain, Timeout, Poll, Flushed, Check,
       Disconnected, ConnState
  <1>2. Open' = Open /\ inFlight' = inFlight
    BY DEF Inv, TypeOK, Signal, SignalAgain, Timeout, Poll, Flushed, Disconnected, Open
  <1> QED
    BY <1>1, <1>2 DEF Inv, NeverOverCounts

THEOREM Invariance == Spec => []Inv
  <1>1. Init => Inv
    <2> SUFFICES ASSUME Init PROVE Inv
      OBVIOUS
    <2>1. TypeOK /\ inFlight = 0
      BY DEF Init, TypeOK, ConnState, Signals
    <2> QED
      BY <2>1, OpenFinite DEF Inv, NeverOverCounts
  <1>2. Inv /\ [Next]_vars => Inv'
    <2> SUFFICES ASSUME Inv, [Next]_vars PROVE Inv'
      OBVIOUS
    <2>1. CASE UNCHANGED vars
      BY <2>1 DEF vars, Inv, TypeOK, NeverOverCounts, Open
    <2> QED
      BY <2>1, ClientKeeps, ServerKeeps DEF Next
  <1> QED
    BY <1>1, <1>2, PTL DEF Spec

(* The drain never waits for a request that is over: the counter is at most
   the number of responses that are incomplete. *)
THEOREM CounterBound == Spec => []NeverOverCounts
  <1>1. Inv => NeverOverCounts
    BY DEF Inv
  <1> QED
    BY <1>1, Invariance, PTL

(* No response, signal or flush leaves the shutdown in a state that is not one
   of the phases and counters of graceful-shutdown.ts. *)
THEOREM TypeCorrect == Spec => []TypeOK
  <1>1. Inv => TypeOK
    BY DEF Inv
  <1> QED
    BY <1>1, Invariance, PTL

-----------------------------------------------------------------------------
(* RedisHealth. *)

Times == (0 .. Health!Long) \cup {Null}
RefreshStates == [at : {"idle", "disk", "ping"}, age : 0 .. MaxAwait]
PollStates == [at : {"idle", "redis", "reported"}, healthy : BOOLEAN, age : 0 .. MaxAwait]

LEMMA LongOK == Health!Long \in Nat /\ MaxAwait < Health!Long
  BY HealthParameters DEF Health!Long

LEMMA LaterOK ==
  ASSUME NEW t \in Times PROVE Health!Later(t) \in Times /\ (Health!Later(t) = Null <=> t = Null)
  BY LongOK, HealthParameters DEF Times, Health!Later

(* A connection that is down is not taken for one that is up. *)
LinkTold == link = "down" => ~isConnected

HealthInv == Health!TypeOK /\ LinkTold /\ Health!EventsTellState

LEMMA EmitOK ==
  ASSUME Health!TypeOK, NEW e \in {"connected", "disconnected", "reconnected"}, Health!Emit(e)
  PROVE  /\ event' \in [what : {"none", "connected", "disconnected", "reconnected"}, nth : {0, 1}]
         /\ event'.what = e
  BY DEF Health!TypeOK, Health!Emit

(* What the events of the connection do to the wrapper. *)
LEMMA ConnectionStep ==
  ASSUME HealthInv, Health!Connect \/ Health!Close \/ Health!Error \/ Health!Break
  PROVE  /\ HealthInv'
         /\ event' # event =>
              <<event.what, event'.what>> \in
                {<<"none", "connected">>, <<"disconnected", "reconnected">>}
                \cup {"connected", "reconnected"} \X {"disconnected"}
  <1> USE HealthParameters DEF HealthInv, Health!EventsTellState, LinkTold
  <1>0. event.what \in {"none", "connected", "disconnected", "reconnected"}
    BY DEF Health!TypeOK
  <1>1. UNCHANGED <<status, refresh, poll, redisDown, downSince, recovered>>
    BY DEF Health!Connect, Health!Close, Health!Error, Health!Break, Health!alarm
  <1>2. CASE Health!Connect
    <2>1. PICK e \in {"connected", "reconnected"} :
            /\ e = IF disconnected # Null THEN "reconnected" ELSE "connected"
            /\ Health!Emit(e)
      BY <1>2 DEF Health!Connect
    <2>2. link = "down" /\ link' = "up" /\ isConnected' = TRUE /\ disconnected' = Null
      BY <1>2 DEF Health!Connect
    <2>3. event'.what = e /\ Health!TypeOK'
      BY <1>1, <2>1, <2>2, EmitOK DEF Health!TypeOK
    <2>4. event.what \in {"none", "disconnected"} /\ (event.what = "disconnected" <=> disconnected # Null)
      BY <1>0, <2>2
    <2> QED
      BY <2>1, <2>2, <2>3, <2>4
  <1>3. CASE (Health!Close \/ Health!Error) /\ isConnected
    <2>1. event.what \in {"connected", "reconnected"} /\ disconnected = Null
      BY <1>3
    <2>2. /\ isConnected' = FALSE /\ disconnected' = 0 /\ Health!Emit("disconnected")
          /\ link' \in {"error", "down"}
      BY <1>3, <2>1 DEF Health!Close, Health!Error
    <2>3. /\ event' \in [what : {"none", "connected", "disconnected", "reconnected"}, nth : {0, 1}]
          /\ event'.what = "disconnected"
      BY <2>2, EmitOK
    <2>4. disconnected' \in (0 .. Health!Long) \cup {Null}
      BY <2>2, LongOK
    <2>5. Health!TypeOK'
      BY <1>1, <2>2, <2>3, <2>4 DEF Health!TypeOK
    <2> QED
      BY <2>1, <2>2, <2>3, <2>5
  <1>4. CASE (Health!Close \/ Health!Error) /\ ~isConnected
    <2>1. isConnected' = FALSE /\ UNCHANGED <<disconnected, event>> /\ link' \in {"error", "down"}
      BY <1>4 DEF Health!Close, Health!Error
    <2> QED
      BY <1>1, <1>4, <2>1 DEF Health!TypeOK
  <1>5. CASE Health!Break
    <2>1. link' = "error" /\ UNCHANGED <<isConnected, disconnected, event>>
      BY <1>5 DEF Health!Break
    <2> QED
      BY <1>1, <2>1 DEF Health!TypeOK
  <1> QED
    BY <1>2, <1>3, <1>4, <1>5

LEMMA MonitorStep ==
  ASSUME HealthInv, \/ \E f \in Refreshes : Health!RefreshStep(f)
                    \/ \E p \in Polls : Health!PollStep(p)
  PROVE  HealthInv' /\ event' = event
  <1> USE HealthParameters DEF HealthInv, Health!TypeOK
  <1>1. ASSUME NEW f \in Refreshes, Health!RefreshStep(f) PROVE HealthInv' /\ event' = event
    <2>1. UNCHANGED <<link, isConnected, disconnected, event, poll, redisDown, downSince, recovered>>
      BY <1>1 DEF Health!RefreshStep, Health!RefreshBegin, Health!Judge, Health!Ping, Health!conn, Health!alarm
    <2>2. refresh' \in [Refreshes -> RefreshStates]
      <3>1. \E s \in RefreshStates : refresh' = [refresh EXCEPT ![f] = s]
        <4>1. Health!IdleRefresh \in RefreshStates /\ [at |-> "disk", age |-> 0] \in RefreshStates
              /\ [refresh[f] EXCEPT !.at = "ping"] \in RefreshStates
          BY DEF Health!IdleRefresh, RefreshStates
        <4>2. \/ refresh' = [refresh EXCEPT ![f] = Health!IdleRefresh]
              \/ refresh' = [refresh EXCEPT ![f] = [at |-> "disk", age |-> 0]]
              \/ refresh' = [refresh EXCEPT ![f] = [refresh[f] EXCEPT !.at = "ping"]]
          BY <1>1 DEF Health!RefreshStep, Health!RefreshBegin, Health!Judge, Health!Ping
        <4> QED
          BY <4>1, <4>2
      <3> QED
        BY <3>1 DEF RefreshStates
    <2>3. status' \in {"none", "healthy", "degraded", "unhealthy"}
      BY <1>1 DEF Health!RefreshStep, Health!RefreshBegin, Health!Judge, Health!Ping
    <2> QED
      BY <2>1, <2>2, <2>3 DEF RefreshStates, LinkTold, Health!EventsTellState
  <1>2. ASSUME NEW p \in Polls, Health!PollStep(p) PROVE HealthInv' /\ event' = event
    <2>1. UNCHANGED <<link, isConnected, disconnected, event, status, refresh>>
      BY <1>2 DEF Health!PollStep, Health!PollBegin, Health!PollDown, Health!PollUp, Health!Reported,
         Health!conn, Health!alarm
    <2>2. poll' \in [Polls -> PollStates]
      <3>1. \E s \in PollStates : poll' = [poll EXCEPT ![p] = s]
        <4> DEFINE h == status = "healthy"
        <4>1. Health!IdlePoll \in PollStates /\ [at |-> "redis", healthy |-> h, age |-> 0] \in PollStates
              /\ [poll[p] EXCEPT !.at = "reported"] \in PollStates
          BY DEF Health!IdlePoll, PollStates
        <4>2. \/ poll' = [poll EXCEPT ![p] = Health!IdlePoll]
              \/ poll' = [poll EXCEPT ![p] = [at |-> "redis", healthy |-> h, age |-> 0]]
              \/ poll' = [poll EXCEPT ![p] = [poll[p] EXCEPT !.at = "reported"]]
          BY <1>2 DEF Health!PollStep, Health!PollBegin, Health!PollDown, Health!PollUp, Health!Reported
        <4> QED
          BY <4>1, <4>2
      <3> QED
        BY <3>1 DEF PollStates
    <2>3. redisDown' \in BOOLEAN
      BY <1>2 DEF Health!PollStep, Health!PollBegin, Health!PollDown, Health!PollUp, Health!Reported, Health!alarm
    <2>4. downSince' \in Times
      <3>1. poll[p].age \in Times
        BY LongOK DEF Times
      <3>2. downSince' \in {downSince, Null, poll[p].age}
        BY <1>2 DEF Health!Start, Health!PollStep, Health!PollBegin, Health!PollDown, Health!PollUp, Health!Reported, Health!alarm
      <3> QED
        BY <3>1, <3>2 DEF Times
    <2>5. recovered' \in Times
      <3>1. recovered' \in {recovered, 0} /\ 0 \in Times
        BY <1>2, LongOK DEF Times, Health!PollStep, Health!PollBegin, Health!PollDown, Health!PollUp,
           Health!Reported, Health!alarm
      <3> QED
        BY <3>1 DEF Times
    <2> QED
      BY <2>1, <2>2, <2>3, <2>4, <2>5 DEF PollStates, Times, LinkTold, Health!EventsTellState
  <1> QED
    BY <1>1, <1>2

LEMMA ClockStep == ASSUME HealthInv, Health!Tick PROVE HealthInv' /\ event' = event
  <1> USE HealthParameters DEF HealthInv, Health!TypeOK
  <1>1. UNCHANGED <<link, isConnected, event, status, redisDown>>
    BY DEF Health!Tick
  <1>2. disconnected' \in Times /\ downSince' \in Times /\ recovered' \in Times
        /\ (disconnected' = Null <=> disconnected = Null)
    BY LaterOK DEF Health!Tick, Times
  <1>3. refresh' \in [Refreshes -> RefreshStates]
    <2>1. ASSUME NEW f \in Refreshes PROVE refresh'[f] \in RefreshStates
      <3>1. refresh[f].age + 1 \in 0 .. MaxAwait
        BY DEF Health!Tick
      <3>2. refresh'[f] \in {refresh[f], [refresh[f] EXCEPT !.age = refresh[f].age + 1]}
        BY DEF Health!Tick
      <3> QED
        BY <3>1, <3>2 DEF RefreshStates
    <2> QED
      BY <2>1 DEF Health!Tick
  <1>4. poll' \in [Polls -> PollStates]
    <2>1. ASSUME NEW p \in Polls PROVE poll'[p] \in PollStates
      <3>1. poll[p].age + 1 \in 0 .. MaxAwait
        BY DEF Health!Tick
      <3>2. poll'[p] \in {poll[p], [poll[p] EXCEPT !.age = poll[p].age + 1]}
        BY DEF Health!Tick
      <3> QED
        BY <3>1, <3>2 DEF PollStates
    <2> QED
      BY <2>1 DEF Health!Tick
  <1> QED
    BY <1>1, <1>2, <1>3, <1>4 DEF RefreshStates, PollStates, Times, LinkTold, Health!EventsTellState

LEMMA HealthStep ==
  ASSUME HealthInv, [Health!Next]_(Health!vars)
  PROVE  /\ HealthInv'
         /\ event' # event =>
              <<event.what, event'.what>> \in
                {<<"none", "connected">>, <<"disconnected", "reconnected">>}
                \cup {"connected", "reconnected"} \X {"disconnected"}
  <1>1. ASSUME UNCHANGED Health!vars PROVE HealthInv' /\ event' = event
    <2>1. UNCHANGED <<link, isConnected, disconnected, event, status, refresh, poll, redisDown, downSince, recovered>>
      BY <1>1 DEF Health!vars, Health!conn, Health!alarm
    <2> QED
      BY <2>1 DEF HealthInv, Health!TypeOK, LinkTold, Health!EventsTellState
  <1> QED
    BY <1>1, ConnectionStep, MonitorStep, ClockStep DEF Health!Next

LEMMA HealthStart == ProcessInit => HealthInv
  <1> SUFFICES ASSUME Health!Init PROVE HealthInv
    BY DEF ProcessInit
  <1>1. Health!IdleRefresh \in RefreshStates /\ Health!IdlePoll \in PollStates
    BY HealthParameters DEF Health!IdleRefresh, Health!IdlePoll, RefreshStates, PollStates
  <1> QED
    BY <1>1 DEF Health!Init, HealthInv, Health!TypeOK, LinkTold, Health!EventsTellState,
       RefreshStates, PollStates

LEMMA AllSteps ==
  [InShutdown(Next) \/ InHealth(Health!Next)]_allVars => [Health!Next]_(Health!vars)
  BY DEF InShutdown, InHealth, allVars, healthVars, Health!vars, Health!conn, Health!alarm

(* However 'error' and 'close' report an outage, and whatever refreshes and
   polls are under way, listeners hear of every outage and of every recovery
   once and in order, and what they heard last is what the wrapper says
   (redis-client.ts). *)
THEOREM EventsInOrder == ProcessSpec => EventsAlternate
  <1>1. ProcessInit => HealthInv
    BY HealthStart
  <1>2. [InShutdown(Next) \/ InHealth(Health!Next)]_allVars => [Health!Next]_(Health!vars)
    BY AllSteps
  <1>3. HealthInv /\ [Health!Next]_(Health!vars) => HealthInv'
    BY HealthStep
  <1>4. HealthInv /\ [Health!Next]_(Health!vars)
          => [event' # event =>
                <<event.what, event'.what>> \in
                  {<<"none", "connected">>, <<"disconnected", "reconnected">>}
                  \cup {"connected", "reconnected"} \X {"disconnected"}]_(Health!vars)
    BY HealthStep
  <1>5. HealthInv => Health!TypeOK /\ Health!EventsTellState
    BY DEF HealthInv
  <1> QED
    BY <1>1, <1>2, <1>3, <1>4, <1>5, PTL DEF ProcessSpec, EventsAlternate, Health!EventsAlternate

-----------------------------------------------------------------------------
(* When alerts are due.                                                    *)

Reporting == \E p \in Polls : poll[p].at = "reported"

(* Unless a recovery is being reported, the outage that counts began after
   the last poll that found Redis healthy, or while that poll awaited. *)
StartIsRecent ==
  ~Reporting /\ downSince # Null /\ recovered # Null => downSince <= recovered + MaxAwait

LEMMA DownDue ==
  ASSUME HealthInv, StartIsRecent, NEW p \in Polls, Health!PollDown(p)
  PROVE  /\ StartIsRecent'
         /\ ~redisDown /\ redisDown' /\ recovered # Null
              => recovered + MaxAwait >= DownThreshold \/ Reporting
  <1>1. poll[p].age \in 0 .. MaxAwait /\ downSince \in Times /\ recovered \in Times /\ MaxAwait \in Nat
        /\ DownThreshold \in Nat /\ Null \notin Nat /\ Health!Long \in Nat
    BY HealthParameters, LongOK DEF HealthInv, Health!TypeOK, Times
  <1>2. downSince' = Health!Start(p) /\ recovered' = recovered /\ poll[p].at = "redis"
        /\ poll' = [poll EXCEPT ![p] = Health!IdlePoll]
    BY DEF Health!PollDown
  <1>3. Reporting' <=> Reporting
    <2>1. poll \in [Polls -> PollStates]
      BY DEF HealthInv, Health!TypeOK, PollStates
    <2> QED
      BY <1>2, <2>1 DEF Reporting, Health!IdlePoll
  <1>4. ~Reporting /\ recovered # Null => Health!Start(p) <= recovered + MaxAwait
    BY <1>1 DEF StartIsRecent, Health!Start, Times
  <1>5. StartIsRecent'
    BY <1>2, <1>3, <1>4 DEF StartIsRecent
  <1>6. ~redisDown /\ redisDown' => Health!Lasts(p)
    BY DEF Health!PollDown
  <1>7. Health!Lasts(p) => Health!Start(p) >= DownThreshold + poll[p].age
    BY DEF Health!Lasts
  <1>8. Health!Start(p) \in Int
    BY <1>1 DEF Health!Start, Times
  <1>9. ~Reporting /\ recovered # Null /\ Health!Lasts(p) => recovered + MaxAwait >= DownThreshold
    BY <1>1, <1>4, <1>7, <1>8 DEF Times
  <1> QED
    BY <1>5, <1>6, <1>9

LEMMA DueStep ==
  ASSUME HealthInv, StartIsRecent, [Health!Next]_(Health!vars)
  PROVE  /\ StartIsRecent'
         /\ ~redisDown /\ redisDown' /\ recovered # Null
              => recovered + MaxAwait >= DownThreshold \/ Reporting
  <1> DEFINE Goal == /\ StartIsRecent'
                     /\ ~redisDown /\ redisDown' /\ recovered # Null
                          => recovered + MaxAwait >= DownThreshold \/ Reporting
  <1>0. poll \in [Polls -> PollStates]
    BY DEF HealthInv, Health!TypeOK, PollStates
  <1>1. ASSUME UNCHANGED <<redisDown, downSince, recovered>>, Reporting => Reporting' PROVE Goal
    BY <1>1 DEF StartIsRecent
  <1>2. CASE \/ Health!Connect \/ Health!Close \/ Health!Error \/ Health!Break
             \/ \E f \in Refreshes : Health!RefreshStep(f)
             \/ UNCHANGED Health!vars
    <2>1. UNCHANGED <<poll, redisDown, downSince, recovered>>
      BY <1>2 DEF Health!Connect, Health!Close, Health!Error, Health!Break, Health!RefreshStep,
         Health!RefreshBegin, Health!Judge, Health!Ping, Health!alarm, Health!vars
    <2> QED
      BY <1>1, <2>1 DEF Reporting
  <1>3. ASSUME NEW p \in Polls, Health!PollBegin(p) PROVE Goal
    <2>1. UNCHANGED <<redisDown, downSince, recovered>> /\ poll[p].at = "idle"
          /\ \E s : poll' = [poll EXCEPT ![p] = s]
      BY <1>3 DEF Health!PollBegin, Health!alarm
    <2>2. Reporting => Reporting'
      BY <1>0, <2>1 DEF Reporting
    <2> QED
      BY <1>1, <2>1, <2>2
  <1>4. ASSUME NEW p \in Polls, Health!PollUp(p) PROVE Goal
    <2>1. redisDown' = FALSE /\ recovered' = 0
      BY <1>4 DEF Health!PollUp
    <2>2. CASE redisDown
      <3>1. poll' = [poll EXCEPT ![p] = [poll[p] EXCEPT !.at = "reported"]]
        BY <1>4, <2>2 DEF Health!PollUp
      <3>2. poll'[p].at = "reported"
        BY <1>0, <3>1 DEF PollStates
      <3> QED
        BY <2>1, <3>2 DEF StartIsRecent, Reporting
    <2>3. CASE ~redisDown
      <3>1. downSince' = Null
        BY <1>4, <2>3 DEF Health!PollUp
      <3> QED
        BY <2>1, <3>1 DEF StartIsRecent
    <2> QED
      BY <2>2, <2>3
  <1>5. ASSUME NEW p \in Polls, Health!Reported(p) PROVE Goal
    BY <1>5 DEF Health!Reported, StartIsRecent
  <1>6. CASE Health!Tick
    <2>1. /\ redisDown' = redisDown /\ downSince' = Health!Later(downSince)
          /\ recovered' = Health!Later(recovered)
      BY <1>6 DEF Health!Tick
    <2>2. Reporting => Reporting'
      <3> SUFFICES ASSUME NEW p \in Polls, poll[p].at = "reported" PROVE poll'[p].at = "reported"
        BY DEF Reporting
      <3>1. poll'[p] \in {poll[p], [poll[p] EXCEPT !.age = poll[p].age + 1]}
        BY <1>6 DEF Health!Tick
      <3> QED
        BY <1>0, <3>1 DEF PollStates
    <2>3. /\ downSince \in Times /\ recovered \in Times
          /\ MaxAwait \in Nat /\ Null \notin Nat /\ Health!Long \in Nat
      BY HealthParameters, LongOK DEF HealthInv, Health!TypeOK, Times
    <2>4. downSince # Null /\ recovered # Null /\ downSince <= recovered + MaxAwait
            => Health!Later(downSince) <= Health!Later(recovered) + MaxAwait
      BY <2>3 DEF Times, Health!Later
    <2>5. /\ Health!Later(downSince) # Null => downSince # Null
          /\ Health!Later(recovered) # Null => recovered # Null
      BY DEF Health!Later
    <2> QED
      BY <2>1, <2>2, <2>4, <2>5 DEF StartIsRecent
  <1> QED
    BY <1>2, <1>3, <1>4, <1>5, <1>6, DownDue DEF Health!Next, Health!PollStep

(* No alert that Redis is down comes earlier than the threshold after a poll
   that found it healthy, give or take what a poll awaits, unless the message
   about a recovery is being awaited (metrics-alerting.ts). *)
THEOREM AlertsAreDue == ProcessSpec => AlertIsDue
  <1>1. ProcessInit => HealthInv /\ StartIsRecent
    BY HealthStart DEF ProcessInit, Health!Init, StartIsRecent
  <1>2. [InShutdown(Next) \/ InHealth(Health!Next)]_allVars => [Health!Next]_(Health!vars)
    BY AllSteps
  <1>3. HealthInv /\ [Health!Next]_(Health!vars) => HealthInv'
    BY HealthStep
  <1>4. HealthInv /\ StartIsRecent /\ [Health!Next]_(Health!vars) => StartIsRecent'
    BY DueStep
  <1>5. HealthInv /\ StartIsRecent /\ [Health!Next]_(Health!vars)
          => [~redisDown /\ redisDown' /\ recovered # Null =>
                \/ recovered + MaxAwait >= DownThreshold
                \/ \E p \in Polls : poll[p].at = "reported"]_(Health!vars)
    BY DueStep DEF Reporting
  <1> QED
    BY <1>1, <1>2, <1>3, <1>4, <1>5, PTL DEF ProcessSpec, AlertIsDue, Health!AlertIsDue
=============================================================================
