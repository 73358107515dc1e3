-------------------------------- MODULE WsHub --------------------------------
(***************************************************************************)
(* The WebSocket hub of server.ts: the sessions (tokens), the sockets that *)
(* present them, the watch sets of wsMap, and the three timers that tidy   *)
(* up: the authentication timeout of a connection, the heartbeat, and the  *)
(* collection of old tokens.                                               *)
(*                                                                         *)
(* Every handler runs to its end without awaiting, so each is one step.    *)
(* The steps interleave with the life of a socket in the ws library: after *)
(* close() a socket is CLOSING and still delivers the messages its peer    *)
(* sent, until the peer's close frame, an error or terminate().            *)
(***************************************************************************)
EXTENDS Integers, FiniteSets

CONSTANTS
  Sockets,   \* connections; each is used once
  Tokens,    \* session tokens; each is issued at most once
  Users,     \* players
  Owner,     \* Owner[t]: the player that t is issued to
  MaxWs,     \* MAX_WS
  None       \* no token

ASSUME SocketsFinite == IsFiniteSet(Sockets)
ASSUME OwnerType == Owner \in [Tokens -> Users]
ASSUME MaxWsType == MaxWs \in Nat
ASSUME NoneIsNoToken == None \notin Tokens

VARIABLES
  sock,      \* sock[s]: life of the connection, see SocketState
  dead,      \* sockets whose peer vanished without a word
  timer,     \* sockets whose authTimeout is armed
  alive,     \* sockets with _isAlive set
  token,     \* token[s]: what s last authenticated with (token, userInfo)
  tokens,    \* tokens[t]: "unborn", "live", "old" (past its age), "gone"
  active,    \* active[t]: activeSockets of t's record
  entries,   \* players with an entry in wsMap
  watchers   \* watchers[u]: that entry

session == <<token, tokens, active>>
wsMap == <<entries, watchers>>
vars == <<sock, dead, timer, alive, token, tokens, active, entries, watchers>>

(* "rejected" is CLOSING with no handler attached; "closing" is CLOSING and
   still delivering messages; "deaf" is CLOSING and delivering none. *)
SocketState == {"none", "rejected", "open", "closing", "deaf", "closed"}

TypeOK ==
  /\ sock \in [Sockets -> SocketState]
  /\ dead \subseteq Sockets
  /\ timer \subseteq Sockets
  /\ alive \subseteq Sockets
  /\ token \in [Sockets -> Tokens \cup {None}]
  /\ tokens \in [Tokens -> {"unborn", "live", "old", "gone"}]
  /\ active \in [Tokens -> SUBSET Sockets]
  /\ entries \subseteq Users
  /\ watchers \in [Users -> SUBSET Sockets]
  /\ \A u \in Users : watchers[u] # {} => u \in entries

Init ==
  /\ sock = [s \in Sockets |-> "none"]
  /\ dead = {} /\ timer = {} /\ alive = {}
  /\ token = [s \in Sockets |-> None]
  /\ tokens = [t \in Tokens |-> "unborn"]
  /\ active = [t \in Tokens |-> {}]
  /\ entries = {}
  /\ watchers = [u \in Users |-> {}]

(* wss.clients, and those of them that were let in. *)
Clients == {s \in Sockets : sock[s] \notin {"none", "closed"}}
Accepted == {s \in Sockets : sock[s] \in {"open", "closing", "deaf"}}

(* s can still hear its peer. *)
Hears(s) == sock[s] \in {"open", "closing"} /\ s \notin dead

Known(t) == tokens[t] \in {"live", "old"}

(* close() on every socket of S; it does nothing unless the socket is OPEN. *)
Close(S) ==
  sock' = [s \in Sockets |-> IF s \in S /\ sock[s] = "open" THEN "closing" ELSE sock[s]]

-----------------------------------------------------------------------------
(* Sessions come from the HTTP handlers and grow old.                      *)

Login(t) ==
  /\ tokens[t] = "unborn"
  /\ tokens' = [tokens EXCEPT ![t] = "live"]
  /\ UNCHANGED <<sock, dead, timer, alive, token, active, wsMap>>

Age(t) ==
  /\ tokens[t] = "live"
  /\ tokens' = [tokens EXCEPT ![t] = "old"]
  /\ UNCHANGED <<sock, dead, timer, alive, token, active, wsMap>>

-----------------------------------------------------------------------------
(* A connection and its timeout.                                           *)

\* Mutant: the limit is compared before the newcomer is counted.
ConnectUncounted(s) ==
  /\ sock[s] = "none"
  /\ alive' = alive \cup {s}
  /\ IF Cardinality(Clients) > MaxWs
       THEN sock' = [sock EXCEPT ![s] = "rejected"] /\ UNCHANGED timer
       ELSE sock' = [sock EXCEPT ![s] = "open"] /\ timer' = timer \cup {s}
  /\ UNCHANGED <<dead, session, wsMap>>

(* Both 'connection' listeners.  wss.clients counts the newcomer already. *)
Connect(s) ==
  /\ sock[s] = "none"
  /\ alive' = alive \cup {s}
  /\ IF Cardinality(Clients \cup {s}) > MaxWs
       THEN sock' = [sock EXCEPT ![s] = "rejected"] /\ UNCHANGED timer
       ELSE sock' = [sock EXCEPT ![s] = "open"] /\ timer' = timer \cup {s}
  /\ UNCHANGED <<dead, session, wsMap>>

AuthTimeout(s) ==
  /\ s \in timer
  /\ timer' = timer \ {s}
  /\ IF token[s] = None THEN Close({s}) ELSE UNCHANGED sock
  /\ UNCHANGED <<dead, alive, session, wsMap>>

-----------------------------------------------------------------------------
(* Messages.                                                               *)

\* Mutant: a bad token disarms the timeout and the socket stays.
AuthLenient(s, t) ==
  /\ Hears(s)
  /\ timer' = timer \ {s}
  /\ IF Known(t)
       THEN /\ token' = [token EXCEPT ![s] = t]
            /\ active' = [active EXCEPT ![t] = @ \cup {s}]
       ELSE UNCHANGED <<token, active>>
  /\ UNCHANGED <<sock, dead, alive, tokens, wsMap>>

(* Type 0.  An earlier session of the same socket keeps it in its set. *)
Auth(s, t) ==
  /\ Hears(s)
  /\ IF Known(t)
       THEN /\ timer' = timer \ {s}
            /\ token' = [token EXCEPT ![s] = t]
            /\ active' = [active EXCEPT ![t] = @ \cup {s}]
            /\ UNCHANGED sock
       ELSE /\ Close({s})
            /\ UNCHANGED <<timer, token, active>>
  /\ UNCHANGED <<dead, alive, tokens, wsMap>>

(* A message over the rate limit, or of another type before authentication:
   the socket is closed. *)
Refuse(s) ==
  /\ Hears(s)
  /\ Close({s})
  /\ UNCHANGED <<dead, timer, alive, session, wsMap>>

\* Mutant: the watch set is filled but the entry is not made.
WatchNoEntry(s, u) ==
  /\ Hears(s) /\ token[s] # None
  /\ watchers' = [watchers EXCEPT ![u] = @ \cup {s}]
  /\ UNCHANGED <<sock, dead, timer, alive, session, entries>>

(* Type 2. *)
Watch(s, u) ==
  /\ Hears(s) /\ token[s] # None
  /\ entries' = entries \cup {u}
  /\ watchers' = [watchers EXCEPT ![u] = @ \cup {s}]
  /\ UNCHANGED <<sock, dead, timer, alive, session>>

(* Type 3. *)
Unwatch(s, u) ==
  /\ Hears(s) /\ token[s] # None
  /\ watchers' = [watchers EXCEPT ![u] = @ \ {s}]
  /\ UNCHANGED <<sock, dead, timer, alive, session, entries>>

(* broadcastToLocalWatchers: a watcher that is not OPEN is dropped, except
   the sender, which is skipped. *)
Broadcast(u, exclude) ==
  /\ watchers' = [watchers EXCEPT ![u] = {w \in @ : w = exclude \/ sock[w] = "open"}]
  /\ UNCHANGED <<sock, dead, timer, alive, session, entries>>

(* Type 1. *)
Pose(s) ==
  /\ Hears(s) /\ token[s] # None
  /\ Broadcast(Owner[token[s]], s)

(* The other sources of a broadcast: equip, upload and delete requests, and
   messages of other processes. *)
Event(u) == Broadcast(u, None)

-----------------------------------------------------------------------------
(* The ends of a connection.                                               *)

(* activeSockets.delete(ws) on the last session only, and every watch set. *)
Forget(s) ==
  /\ active' = IF token[s] = None THEN active
               ELSE [active EXCEPT ![token[s]] = @ \ {s}]
  /\ watchers' = [u \in Users |-> watchers[u] \ {s}]
  /\ timer' = timer \ {s}
  /\ UNCHANGED <<token, tokens, entries>>

(* The library closes the socket before it reports a protocol error. *)
Error(s) ==
  /\ Hears(s)
  /\ sock' = [sock EXCEPT ![s] = "deaf"]
  /\ Forget(s)
  /\ UNCHANGED <<dead, alive>>

(* The peer's close frame or the end of its stream. *)
PeerCloses(s) ==
  /\ Hears(s)
  /\ sock' = [sock EXCEPT ![s] = "deaf"]
  /\ UNCHANGED <<dead, timer, alive, session, wsMap>>

(* The peer's machine or network goes away silently. *)
Vanish(s) ==
  /\ s \in Clients \ dead
  /\ dead' = dead \cup {s}
  /\ UNCHANGED <<sock, timer, alive, session, wsMap>>

\* Mutant: the close handler looks after the session only.
ClosedStillWatching(s) ==
  /\ s \in Clients /\ sock[s] # "open"
  /\ sock' = [sock EXCEPT ![s] = "closed"]
  /\ timer' = timer \ {s}
  /\ active' = IF token[s] = None THEN active
               ELSE [active EXCEPT ![token[s]] = @ \ {s}]
  /\ UNCHANGED <<dead, alive, token, tokens, wsMap>>

(* The 'close' event.  A rejected connection has no listener for it, and
   nothing to forget. *)
Closed(s) ==
  /\ s \in Clients /\ sock[s] # "open"
  /\ sock' = [sock EXCEPT ![s] = "closed"]
  /\ IF sock[s] = "rejected" THEN UNCHANGED <<timer, session, wsMap>> ELSE Forget(s)
  /\ UNCHANGED <<dead, alive>>

-----------------------------------------------------------------------------
(* Heartbeat and collection.                                               *)

Pong(s) ==
  /\ s \in Clients \ dead /\ sock[s] # "deaf"
  /\ alive' = alive \cup {s}
  /\ UNCHANGED <<sock, dead, timer, session, wsMap>>

\* Mutant: the flag is not reset when the ping is sent.
HeartbeatNoReset ==
  /\ sock' = [s \in Sockets |-> IF s \in Accepted \ alive THEN "deaf" ELSE sock[s]]
  /\ UNCHANGED <<alive, dead, timer, session, wsMap>>

(* terminate() those that have not answered, ping the others. *)
Heartbeat ==
  /\ sock' = [s \in Sockets |-> IF s \in Accepted \ alive THEN "deaf" ELSE sock[s]]
  /\ alive' = alive \ Clients
  /\ UNCHANGED <<dead, timer, session, wsMap>>

Expired == {t \in Tokens : tokens[t] = "old"}

\* Mutant: expired tokens are deleted and their sockets left alone.
CollectTokensOnly ==
  /\ tokens' = [t \in Tokens |-> IF t \in Expired THEN "gone" ELSE tokens[t]]
  /\ watchers' = [u \in Users |-> {s \in watchers[u] : sock[s] = "open"}]
  /\ entries' = {u \in entries : watchers'[u] # {}}
  /\ UNCHANGED <<sock, dead, timer, alive, token, active>>

\* Mutant: empty watch sets stay in wsMap.
CollectKeepsEntries ==
  /\ Close(UNION {active[t] : t \in Expired})
  /\ tokens' = [t \in Tokens |-> IF t \in Expired THEN "gone" ELSE tokens[t]]
  /\ watchers' = [u \in Users |-> {s \in watchers[u] : sock'[s] = "open"}]
  /\ UNCHANGED <<dead, timer, alive, token, active, entries>>

(* gcTokens: the watch sets are filtered after the sockets are closed. *)
Collect ==
  /\ Close(UNION {active[t] : t \in Expired})
  /\ tokens' = [t \in Tokens |-> IF t \in Expired THEN "gone" ELSE tokens[t]]
  /\ watchers' = [u \in Users |-> {s \in watchers[u] : sock'[s] = "open"}]
  /\ entries' = {u \in entries : watchers'[u] # {}}
  /\ UNCHANGED <<dead, timer, alive, token, active>>

-----------------------------------------------------------------------------
Connection(s) ==
  \/ Connect(s) \/ AuthTimeout(s) \/ Refuse(s) \/ Pose(s)
  \/ Error(s) \/ PeerCloses(s) \/ Vanish(s) \/ Closed(s) \/ Pong(s)
  \/ \E t \in Tokens : Auth(s, t)
  \/ \E u \in Users : Watch(s, u) \/ Unwatch(s, u)

Next ==
  \/ \E s \in Sockets : Connection(s)
  \/ \E t \in Tokens : Login(t) \/ Age(t)
  \/ \E u \in Users : Event(u)
  \/ Heartbeat \/ Collect

Spec == Init /\ [][Next]_vars

(* The timers fire, and a socket that is CLOSING is closed: by its peer's
   answer, or by the library's own close timeout. *)
FairSpec ==
  /\ Spec
  /\ \A s \in Sockets : WF_vars(AuthTimeout(s)) /\ WF_vars(Closed(s))
  /\ WF_vars(Heartbeat) /\ WF_vars(Collect)

-----------------------------------------------------------------------------
(* A closed or rejected socket is in no watch set: whatever message arrives
   between close() and the 'close' event, nothing is left behind. *)
NoGhostWatcher ==
  \A u \in Users : \A s \in watchers[u] : sock[s] \in {"open", "closing", "deaf"}

(* An OPEN socket that authenticated holds a session that still exists, and
   that session knows the socket: no one plays on after the session is
   collected, and the collection can always find them. *)
SessionIsKnown ==
  \A s \in Sockets :
    sock[s] = "open" /\ token[s] # None => Known(token[s]) /\ s \in active[token[s]]

(* However connections come, close and are turned away, at most MAX_WS are
   let in at once. *)
AcceptedWithinLimit == Cardinality(Accepted) <= MaxWs

(* A connection that does not authenticate is closed by the timeout. *)
StrangersLeave ==
  \A s \in Sockets :
    (sock[s] = "open" /\ token[s] = None) ~> (sock[s] = "closed" \/ token[s] # None)

(* A peer that vanished is detected by the heartbeat and its socket closed. *)
DeadPeersLeave == \A s \in Sockets : (s \in dead) ~> (sock[s] = "closed")

(* A socket does not stay open on a session past its age. *)
SessionsEnd ==
  \A s \in Sockets, t \in Tokens :
    (sock[s] = "open" /\ token[s] = t /\ tokens[t] = "old")
      ~> (sock[s] # "open" \/ token[s] # t)

(* When everybody has left, wsMap becomes empty again. *)
MapReclaimed == (\A s \in Sockets : sock[s] = "closed") ~> (entries = {})
=============================================================================
