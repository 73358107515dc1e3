-------------------------------- MODULE Login --------------------------------
(***************************************************************************)
(* The two steps by which one player gets a session, over either API       *)
(* (server.ts 535-601, figura-api.ts 143-209): a server id is handed out   *)
(* if the lists admit the player at that moment, and exchanged for a       *)
(* session when Mojang says, some time later, that he has joined with it.  *)
(*                                                                         *)
(* The lists come from an API every 15 s; server_ids is an LRU cache, with *)
(* a time to live that a look-up does not renew.  Times are in ticks.      *)
(***************************************************************************)
EXTENDS Naturals

CONSTANTS
  Sids,      \* server ids; they are random, each is handed out once
  Calls,     \* slots for verifications under way
  Ttl,       \* time to live of an entry of server_ids
  MaxAwait,  \* the timeout of the request to Mojang
  None

VARIABLES
  admits,    \* maintenance mode, blacklist and whitelist admit the player
  since,     \* history: how long ago they last did
  issued,    \* server ids handed out
  left,      \* server_ids: time left of the entry of s, 0 for none
  call,      \* [sid, api, age, late]: the verification in slot c; late, a
             \* history, if it began after its id was exchanged
  sessions   \* history: sessions made of server id s

vars == <<admits, since, issued, left, call, sessions>>

Bound == Ttl + MaxAwait   \* longer times are alike
Idle == [sid |-> None, api |-> "api", age |-> 0, late |-> FALSE]

TypeOK ==
  /\ admits \in BOOLEAN
  /\ since \in 0 .. Bound
  /\ issued \subseteq Sids
  /\ left \in [Sids -> 0 .. Ttl]
  /\ call \in [Calls -> [sid : Sids \cup {None}, api : {"api", "figura"},
                         age : 0 .. MaxAwait, late : BOOLEAN]]
  /\ sessions \in [Sids -> Nat]

Init ==
  /\ admits = TRUE
  /\ since = 0
  /\ issued = {}
  /\ left = [s \in Sids |-> 0]
  /\ call = [c \in Calls |-> Idle]
  /\ sessions = [s \in Sids |-> 0]

-----------------------------------------------------------------------------
(* syncFromApi: the lists are replaced as a whole. *)
Sync ==
  /\ admits' \in BOOLEAN
  /\ since' = IF admits' THEN 0 ELSE since
  /\ UNCHANGED <<issued, left, call, sessions>>

\* Mutant: the lists are not asked.
IssueToAll(s) ==
  /\ s \notin issued
  /\ issued' = issued \cup {s}
  /\ left' = [left EXCEPT ![s] = Ttl]
  /\ UNCHANGED <<admits, since, call, sessions>>

(* GET auth/id and GET auth. *)
Issue(s) ==
  /\ admits /\ s \notin issued
  /\ issued' = issued \cup {s}
  /\ left' = [left EXCEPT ![s] = Ttl]
  /\ UNCHANGED <<admits, since, call, sessions>>

\* Mutant: an entry is found until it is deleted, whatever its age.
VerifyExpired(c, s, api) ==
  /\ call[c].sid = None /\ s \in issued /\ sessions[s] = 0
  /\ call' = [call EXCEPT ![c] = [sid |-> s, api |-> api, age |-> 0, late |-> FALSE]]
  /\ UNCHANGED <<admits, since, issued, left, sessions>>

(* GET auth/verify: the id is looked up, and Mojang asked. *)
Verify(c, s, api) ==
  /\ call[c].sid = None /\ left[s] > 0
  /\ call' = [call EXCEPT ![c] = [sid |-> s, api |-> api, age |-> 0,
                                  late |-> sessions[s] > 0]]
  /\ UNCHANGED <<admits, since, issued, left, sessions>>

\* Mutant: the id is not deleted.
JoinedKept(c) ==
  LET s == call[c].sid IN
  /\ s # None
  /\ sessions' = [sessions EXCEPT ![s] = @ + 1]
  /\ call' = [call EXCEPT ![c] = Idle]
  /\ UNCHANGED <<admits, since, issued, left>>

(* Mojang says that the player has joined. *)
Joined(c) ==
  LET s == call[c].sid IN
  /\ s # None
  /\ left' = [left EXCEPT ![s] = 0]
  /\ sessions' = [sessions EXCEPT ![s] = @ + 1]
  /\ call' = [call EXCEPT ![c] = Idle]
  /\ UNCHANGED <<admits, since, issued>>

(* Mojang says that he has not: /api deletes the id all the same, and fails
   on the empty answer; /figura keeps it. *)
NotJoined(c) ==
  LET s == call[c].sid IN
  /\ s # None
  /\ left' = IF call[c].api = "api" THEN [left EXCEPT ![s] = 0] ELSE left
  /\ call' = [call EXCEPT ![c] = Idle]
  /\ UNCHANGED <<admits, since, issued, sessions>>

(* Mojang does not answer, or not in time. *)
NoAnswer(c) ==
  /\ call[c].sid # None
  /\ call' = [call EXCEPT ![c] = Idle]
  /\ UNCHANGED <<admits, since, issued, left, sessions>>

(* The entry gives way to newer ones. *)
Evict(s) ==
  /\ left[s] > 0
  /\ left' = [left EXCEPT ![s] = 0]
  /\ UNCHANGED <<admits, since, issued, call, sessions>>

Less(n) == IF n > 0 THEN n - 1 ELSE 0

Tick ==
  /\ \A c \in Calls : call[c].sid # None => call[c].age < MaxAwait
  /\ since' = IF admits THEN 0 ELSE IF since < Bound THEN since + 1 ELSE since
  /\ left' = [s \in Sids |-> Less(left[s])]
  /\ call' = [c \in Calls |->
                IF call[c].sid = None THEN call[c]
                ELSE [sid |-> call[c].sid, api |-> call[c].api,
                      age |-> call[c].age + 1, late |-> call[c].late]]
  /\ UNCHANGED <<admits, issued, sessions>>

Next ==
  \/ Sync \/ Tick
  \/ \E s \in Sids : Issue(s) \/ Evict(s)
  \/ \E c \in Calls :
       \/ \E s \in Sids, api \in {"api", "figura"} : Verify(c, s, api)
       \/ Joined(c) \/ NotJoined(c) \/ NoAnswer(c)

Spec == Init /\ [][Next]_vars

-----------------------------------------------------------------------------
(* Verifications that overlap may each make a session of the same server id;
   one that begins after a session was made of it never does, whichever API
   handed the id out or exchanges it. *)
NoReplay ==
  [][\A s \in Sids : sessions'[s] > sessions[s]
       => \A c \in Calls : call[c].sid = s /\ call'[c] = Idle => ~call[c].late]_vars

(* However list changes, verifications, evictions and expiry interleave, a
   player who is no longer admitted gets no session once the time to live of
   an id and one request to Mojang have passed. *)
SoonAfterAdmission ==
  [][(\E s \in Sids : sessions'[s] > sessions[s]) => since < Ttl + MaxAwait]_vars
=============================================================================
