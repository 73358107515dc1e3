----------------------------- MODULE WsHubProofs -----------------------------
(***************************************************************************)
(* For every finite set of sockets, every set of tokens and players and    *)
(* every limit: the types of WsHub and its three safety invariants.        *)
(*                                                                         *)
(* The invariants are inductive together once it is added that a socket    *)
(* which has not connected yet holds no session: without it a connection   *)
(* could begin OPEN on a session nobody knows.                             *)
(***************************************************************************)
EXTENDS WsHub, FiniteSetTheorems, TLAPS

FreshHasNoToken == \A s \in Sockets : sock[s] = "none" => token[s] = None

Safe == TypeOK /\ NoGhostWatcher /\ SessionIsKnown /\ FreshHasNoToken

LEMMA SocketSets ==
  /\ IsFiniteSet(Clients) /\ Cardinality(Clients) \in Nat
  /\ IsFiniteSet(Accepted) /\ Cardinality(Accepted) \in Nat
  <1>1. Clients \subseteq Sockets /\ Accepted \subseteq Sockets
    BY DEF Clients, Accepted
  <1> QED
    BY <1>1, SocketsFinite, FS_Subset, FS_CardinalityType

(* Types. *)
LEMMA TypeStep == ASSUME TypeOK, [Next]_vars PROVE TypeOK'
  <1> USE DEF TypeOK, SocketState, session, wsMap
  <1>1. CASE UNCHANGED vars
    BY <1>1 DEF vars
  <1>2. ASSUME NEW s \in Sockets,
               Connect(s) \/ AuthTimeout(s) \/ Refuse(s) \/ PeerCloses(s) \/ Vanish(s) \/ Pong(s)
        PROVE  TypeOK'
    BY <1>2 DEF Connect, AuthTimeout, Refuse, PeerCloses, Vanish, Pong, Close, Clients
  <1>3. ASSUME NEW u \in Users, NEW w, Broadcast(u, w) PROVE TypeOK'
    BY <1>3 DEF Broadcast
  <1>4. ASSUME NEW s \in Sockets, Pose(s) PROVE TypeOK'
    BY <1>3, <1>4, OwnerType DEF Pose
  <1>5. ASSUME NEW s \in Sockets, Error(s) \/ Closed(s) PROVE TypeOK'
    <2>1. UNCHANGED <<timer, session, wsMap>> \/ Forget(s)
      BY <1>5 DEF Error, Closed
    <2>2. sock' \in [Sockets -> SocketState] /\ UNCHANGED <<dead, alive>>
      BY <1>5 DEF Error, Closed
    <2>3. CASE Forget(s)
      <3>1. active' \in [Tokens -> SUBSET Sockets]
        BY <2>3 DEF Forget
      <3>2. watchers' \in [Users -> SUBSET Sockets]
        BY <2>3 DEF Forget
      <3>3. \A u \in Users : watchers'[u] # {} => u \in entries'
        BY <2>3 DEF Forget
      <3> QED
        BY <2>2, <2>3, <3>1, <3>2, <3>3 DEF Forget
    <2> QED
      BY <2>1, <2>2, <2>3
  <1>6. ASSUME NEW s \in Sockets, NEW t \in Tokens, Auth(s, t) PROVE TypeOK'
    BY <1>6 DEF Auth, Close
  <1>7. ASSUME NEW s \in Sockets, NEW u \in Users, Watch(s, u) \/ Unwatch(s, u) PROVE TypeOK'
    BY <1>7 DEF Watch, Unwatch
  <1>8. ASSUME NEW t \in Tokens, Login(t) \/ Age(t) PROVE TypeOK'
    BY <1>8 DEF Login, Age
  <1>9. ASSUME Heartbeat \/ Collect PROVE TypeOK'
    BY <1>9 DEF Heartbeat, Collect, Close, Accepted
  <1> QED
    BY <1>1, <1>2, <1>3, <1>4, <1>5, <1>6, <1>7, <1>8, <1>9 DEF Next, Connection, Event

(* A step either leaves a socket's watch sets alone, shrinks them, or adds
   one that is let in; and no let-in socket becomes anything but closed. *)
LEMMA GhostStep == ASSUME Safe, [Next]_vars PROVE NoGhostWatcher'
  <1> USE DEF Safe, TypeOK, NoGhostWatcher, SocketState
  <1>1. CASE UNCHANGED vars
    BY <1>1 DEF vars
  <1>2. ASSUME NEW s \in Sockets, Connect(s) PROVE NoGhostWatcher'
    BY <1>2 DEF Connect, wsMap
  <1>3. ASSUME NEW s \in Sockets,
               AuthTimeout(s) \/ Refuse(s) \/ PeerCloses(s) \/ Vanish(s) \/ Pong(s)
        PROVE  NoGhostWatcher'
    BY <1>3 DEF AuthTimeout, Refuse, PeerCloses, Vanish, Pong, Close, Hears, wsMap
  <1>4. ASSUME NEW u \in Users, NEW w, Broadcast(u, w) PROVE NoGhostWatcher'
    BY <1>4 DEF Broadcast
  <1>5. ASSUME NEW s \in Sockets, Pose(s) PROVE NoGhostWatcher'
    BY <1>4, <1>5, OwnerType DEF Pose
  <1>6. ASSUME NEW s \in Sockets, Error(s) PROVE NoGhostWatcher'
    BY <1>6 DEF Error, Forget
  <1>7. ASSUME NEW s \in Sockets, Closed(s) PROVE NoGhostWatcher'
    <2>1. CASE sock[s] = "rejected"
      BY <1>7, <2>1 DEF Closed, wsMap
    <2>2. CASE sock[s] # "rejected"
      BY <1>7, <2>2 DEF Closed, Forget
    <2> QED
      BY <2>1, <2>2
  <1>8. ASSUME NEW s \in Sockets, NEW t \in Tokens, Auth(s, t) PROVE NoGhostWatcher'
    BY <1>8 DEF Auth, Close, wsMap
  <1>9. ASSUME NEW s \in Sockets, NEW u \in Users, Watch(s, u) \/ Unwatch(s, u)
        PROVE  NoGhostWatcher'
    BY <1>9 DEF Watch, Unwatch, Hears
  <1>10. ASSUME NEW t \in Tokens, Login(t) \/ Age(t) PROVE NoGhostWatcher'
    BY <1>10 DEF Login, Age, wsMap
  <1>11. ASSUME Heartbeat PROVE NoGhostWatcher'
    BY <1>11 DEF Heartbeat, Accepted, wsMap
  <1>12. ASSUME Collect PROVE NoGhostWatcher'
    BY <1>12 DEF Collect, Close
  <1> QED
    BY <1>1, <1>2, <1>3, <1>4, <1>5, <1>6, <1>7, <1>8, <1>9, <1>10, <1>11, <1>12
       DEF Next, Connection, Event

(* A socket that is OPEN after the step was OPEN before it, or connects. *)
LEMMA SessionStep ==
  ASSUME Safe, [Next]_vars PROVE SessionIsKnown' /\ FreshHasNoToken'
  <1> USE DEF Safe, TypeOK, SessionIsKnown, FreshHasNoToken, SocketState, Known, session
  <1> DEFINE Goal == SessionIsKnown' /\ FreshHasNoToken'
  <1>1. CASE UNCHANGED vars
    BY <1>1 DEF vars
  <1>2. ASSUME NEW s \in Sockets,
               Connect(s) \/ AuthTimeout(s) \/ Refuse(s) \/ PeerCloses(s) \/ Vanish(s) \/ Pong(s)
        PROVE  Goal
    BY <1>2 DEF Connect, AuthTimeout, Refuse, PeerCloses, Vanish, Pong, Close
  <1>3. ASSUME NEW u \in Users, NEW w, Broadcast(u, w) PROVE Goal
    BY <1>3 DEF Broadcast
  <1>4. ASSUME NEW s \in Sockets, Pose(s) PROVE Goal
    BY <1>3, <1>4, OwnerType DEF Pose
  <1>5. ASSUME NEW s \in Sockets, Error(s) \/ Closed(s) PROVE Goal
    <2>1. sock' \in {[sock EXCEPT ![s] = "deaf"], [sock EXCEPT ![s] = "closed"]}
      BY <1>5 DEF Error, Closed
    <2>2. UNCHANGED <<token, tokens>>
      BY <1>5 DEF Error, Closed, Forget
    <2>3. \A t \in Tokens : active[t] \subseteq active'[t] \cup {s}
      BY <1>5 DEF Error, Closed, Forget
    <2>4. FreshHasNoToken'
      BY <2>1, <2>2
    <2>5. ASSUME NEW r \in Sockets, sock'[r] = "open", token'[r] # None
          PROVE  Known(token[r])' /\ r \in active'[token'[r]]
      <3>1. r # s /\ sock[r] = "open"
        BY <2>1, <2>5
      <3> QED
        BY <2>2, <2>3, <2>5, <3>1
    <2> QED
      BY <2>4, <2>5
  <1>6. ASSUME NEW s \in Sockets, NEW t \in Tokens, Auth(s, t) PROVE Goal
    <2>1. CASE Known(t)
      BY <1>6, <2>1, NoneIsNoToken DEF Auth, Hears
    <2>2. CASE ~Known(t)
      BY <1>6, <2>2 DEF Auth, Close
    <2> QED
      BY <2>1, <2>2
  <1>7. ASSUME NEW s \in Sockets, NEW u \in Users, Watch(s, u) \/ Unwatch(s, u) PROVE Goal
    BY <1>7 DEF Watch, Unwatch
  <1>8. ASSUME NEW t \in Tokens, Login(t) \/ Age(t) PROVE Goal
    BY <1>8 DEF Login, Age
  <1>9. ASSUME Heartbeat PROVE Goal
    BY <1>9 DEF Heartbeat, Accepted
  <1>10. ASSUME Collect PROVE Goal
    <2>1. ASSUME NEW s \in Sockets, sock'[s] = "open", token'[s] # None
          PROVE  Known(token[s])' /\ s \in active'[token'[s]]
      <3>1. sock[s] = "open" /\ s \notin UNION {active[t] : t \in Expired}
        BY <1>10, <2>1 DEF Collect, Close
      <3>2. token[s] \in Tokens /\ Known(token[s]) /\ s \in active[token[s]]
        BY <1>10, <2>1, <3>1 DEF Collect
      <3>3. token[s] \notin Expired
        BY <3>1, <3>2
      <3> QED
        BY <1>10, <3>2, <3>3 DEF Collect
    <2>2. FreshHasNoToken'
      BY <1>10 DEF Collect, Close
    <2> QED
      BY <2>1, <2>2
  <1> QED
    BY <1>1, <1>2, <1>3, <1>4, <1>5, <1>6, <1>7, <1>8, <1>9, <1>10
       DEF Next, Connection, Event

THEOREM Safety == Spec => []Safe
  <1>1. Init => Safe
    BY DEF Init, Safe, TypeOK, NoGhostWatcher, SessionIsKnown, FreshHasNoToken, SocketState
  <1>2. Safe /\ [Next]_vars => Safe'
    BY TypeStep, GhostStep, SessionStep DEF Safe
  <1> QED
    BY <1>1, <1>2, PTL DEF Spec

(* No message that arrives while a socket is closing leaves it in a watch
   set after it has closed. *)
THEOREM NoGhost == Spec => []NoGhostWatcher
  <1>1. Safe => NoGhostWatcher
    BY DEF Safe
  <1> QED
    BY <1>1, Safety, PTL

(* The collection of expired tokens finds every open socket of theirs. *)
THEOREM SessionsKnown == Spec => []SessionIsKnown
  <1>1. Safe => SessionIsKnown
    BY DEF Safe
  <1> QED
    BY <1>1, Safety, PTL

(* No step but a connection lets a socket in. *)
LEMMA LetIn ==
  ASSUME TypeOK, [Next]_vars
  PROVE  Accepted' \subseteq Accepted \/ \E s \in Sockets : Connect(s)
  <1> USE DEF TypeOK, Accepted, SocketState
  <1>1. CASE UNCHANGED vars
    BY <1>1 DEF vars
  <1>2. ASSUME NEW s \in Sockets,
               AuthTimeout(s) \/ Refuse(s) \/ PeerCloses(s) \/ Vanish(s) \/ Pong(s)
        PROVE  Accepted' \subseteq Accepted
    BY <1>2 DEF AuthTimeout, Refuse, PeerCloses, Vanish, Pong, Close, Hears
  <1>3. ASSUME NEW s \in Sockets, Error(s) \/ Closed(s) \/ Pose(s)
        PROVE  Accepted' \subseteq Accepted
    BY <1>3 DEF Error, Closed, Hears, Clients, Pose, Broadcast
  <1>4. ASSUME NEW s \in Sockets, NEW t \in Tokens, Auth(s, t)
        PROVE  Accepted' \subseteq Accepted
    BY <1>4 DEF Auth, Close
  <1>5. ASSUME NEW s \in Sockets, NEW u \in Users, Watch(s, u) \/ Unwatch(s, u)
        PROVE  Accepted' \subseteq Accepted
    BY <1>5 DEF Watch, Unwatch
  <1>6. ASSUME NEW t \in Tokens, Login(t) \/ Age(t) PROVE Accepted' \subseteq Accepted
    BY <1>6 DEF Login, Age
  <1>7. ASSUME NEW u \in Users, Event(u) PROVE Accepted' \subseteq Accepted
    BY <1>7 DEF Event, Broadcast
  <1>8. ASSUME Heartbeat \/ Collect PROVE Accepted' \subseteq Accepted
    BY <1>8 DEF Heartbeat, Collect, Close
  <1> QED
    BY <1>1, <1>2, <1>3, <1>4, <1>5, <1>6, <1>7, <1>8 DEF Next, Connection

(* At most MAX_WS sockets are let in at once. *)
THEOREM Limit == Spec => []AcceptedWithinLimit
  <1>1. Init => AcceptedWithinLimit
    <2>1. ASSUME Init PROVE Accepted = {}
      BY <2>1 DEF Init, Accepted
    <2> QED
      BY <2>1, FS_EmptySet, MaxWsType DEF AcceptedWithinLimit
  <1>2. AcceptedWithinLimit /\ Safe /\ Safe' /\ [Next]_vars => AcceptedWithinLimit'
    <2> SUFFICES ASSUME AcceptedWithinLimit, TypeOK, [Next]_vars
                 PROVE  AcceptedWithinLimit'
      BY DEF Safe
    <2>1. CASE Accepted' \subseteq Accepted
      <3>1. Cardinality(Accepted') <= Cardinality(Accepted) /\ Cardinality(Accepted') \in Nat
        BY <2>1, SocketSets, FS_Subset, FS_CardinalityType
      <3> QED
        BY <3>1, SocketSets, MaxWsType DEF AcceptedWithinLimit
    <2>2. ASSUME NEW s \in Sockets, Connect(s) PROVE AcceptedWithinLimit'
      <3>1. CASE Cardinality(Clients \cup {s}) > MaxWs
        <4>1. Accepted' = Accepted
          BY <2>2, <3>1 DEF Connect, Accepted, TypeOK
        <4> QED
          BY <4>1 DEF AcceptedWithinLimit
      <3>2. CASE ~(Cardinality(Clients \cup {s}) > MaxWs)
        <4>1. Accepted' \subseteq Clients \cup {s}
          BY <2>2, <3>2 DEF Connect, Accepted, Clients, TypeOK
        <4>2. IsFiniteSet(Clients \cup {s}) /\ Cardinality(Clients \cup {s}) \in Nat
          BY SocketSets, FS_AddElement, FS_CardinalityType
        <4>3. Cardinality(Accepted') <= Cardinality(Clients \cup {s})
              /\ Cardinality(Accepted') \in Nat
          BY <4>1, <4>2, FS_Subset, FS_CardinalityType
        <4> QED
          BY <3>2, <4>2, <4>3, MaxWsType DEF AcceptedWithinLimit
      <3> QED
        BY <3>1, <3>2
    <2> QED
      BY <2>1, <2>2, LetIn
  <1> QED
    BY <1>1, <1>2, Safety, PTL DEF Spec

(* The sockets, the sessions and the watch sets of server.ts keep their types
   over every order of connections, messages, expiries and collections. *)
THEOREM TypeCorrect == Spec => []TypeOK
  <1>1. Safe => TypeOK
    BY DEF Safe
  <1> QED
    BY <1>1, Safety, PTL
=============================================================================
