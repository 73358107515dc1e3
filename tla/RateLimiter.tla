----------------------------- MODULE RateLimiter -----------------------------
(***************************************************************************)
(* The two rate limiters in front of the API (rate-limiter.ts), as one     *)
(* client meets them: a request to /api/avatar passes the upload limiter   *)
(* and then the api limiter, any other /api/ request the api limiter only  *)
(* (server.ts 492-493).  Keys do not affect each other, so one is enough;  *)
(* it is the client's IP for both limiters, because neither runs after     *)
(* authentication.                                                         *)
(*                                                                         *)
(* Without Redis each limiter counts in a map of its own.  With Redis both *)
(* use the same counter there, and their maps when a command fails.  Times *)
(* are what is left until they come, in ticks.                             *)
(***************************************************************************)
EXTENDS Naturals, FiniteSets

CONSTANTS
  Reqs,        \* slots for concurrent requests
  MaxHits,     \* MaxHits[l]: uploadMax, apiMax; not 0
  Window,      \* Window[l]: uploadWindowMs, apiWindowMs; not 0
  Grace        \* windowResetGraceMs

Limiters == {"upload", "api"}
Never == Window["upload"] + Window["api"]   \* the TTL of a key that has none
Over(l) == MaxHits[l] + 1
Cap == Over("upload") + Over("api")   \* counts beyond this one are alike

VARIABLES
  mode,     \* "memory" or "redis"
  faults,   \* may commands of Redis fail?
  entry,    \* entry[l]: [count, left] of the client in l's map; left = 0 is expired
  timers,   \* timers[l]: the deletions of that entry that are scheduled
  shared,   \* [count, left] of the client's key in Redis; count = 0 is no key
  pc, lim,  \* where request r is, at which limiter
  hits,     \* hits[r]: what INCR answered
  seen,     \* history, without Redis: <<a, n>> for each request that limiter l
            \* was asked about a ticks ago and gave the number n
  passed,   \* history, without Redis: those it let through
  forgotten \* history: how long ago timers deleted the entry of a running window

ctl  == <<mode, faults>>
map  == <<entry, timers>>
hist == <<seen, passed, forgotten>>
vars == <<ctl, map, shared, pc, lim, hits, hist>>

Ages(l) == 0 .. Window[l] - 1
Counter == [count : 0 .. Cap, left : 0 .. Never]

TypeOK ==
  /\ mode \in {"memory", "redis"} /\ faults \in BOOLEAN
  /\ entry \in [Limiters -> Counter]
  /\ timers \in [Limiters -> SUBSET (1 .. Never + Grace)]
  /\ shared \in Counter
  /\ pc \in [Reqs -> {"idle", "ask", "expire", "pttl"}]
  /\ lim \in [Reqs -> Limiters]
  /\ hits \in [Reqs -> 0 .. Cap]
  /\ DOMAIN seen = Limiters /\ DOMAIN passed = Limiters /\ DOMAIN forgotten = Limiters
  /\ \A l \in Limiters : /\ seen[l] \subseteq Ages(l) \X (1 .. Cap)
                         /\ passed[l] \subseteq seen[l] \cap (Ages(l) \X (1 .. MaxHits[l]))
                         /\ forgotten[l] \subseteq Ages(l)

NoCounter == [count |-> 0, left |-> 0]

Init ==
  /\ mode \in {"memory", "redis"} /\ faults \in BOOLEAN
  /\ mode = "memory" => ~faults
  /\ entry = [l \in Limiters |-> NoCounter]
  /\ timers = [l \in Limiters |-> {}]
  /\ shared = NoCounter
  /\ pc = [r \in Reqs |-> "idle"]
  /\ lim = [r \in Reqs |-> "api"]
  /\ hits = [r \in Reqs |-> 0]
  /\ seen = [l \in Limiters |-> {}]
  /\ passed = seen /\ forgotten = seen

-----------------------------------------------------------------------------
Up(n) == IF n < Cap THEN n + 1 ELSE n

Ask(r, l) ==
  /\ pc' = [pc EXCEPT ![r] = "ask"]
  /\ lim' = [lim EXCEPT ![r] = l]
  /\ hits' = [hits EXCEPT ![r] = 0]

(* A request arrives; l is the first limiter on its path. *)
Arrive(r, l) ==
  /\ pc[r] = "idle"
  /\ Ask(r, l)
  /\ UNCHANGED <<ctl, map, shared, hist>>

Leave(r) ==
  /\ pc' = [pc EXCEPT ![r] = "idle"]
  /\ lim' = [lim EXCEPT ![r] = "api"]
  /\ hits' = [hits EXCEPT ![r] = 0]

(* What express-rate-limit makes of totalHits: over the limit the handler
   answers 429; otherwise the next middleware runs. *)
Decide(r, n) ==
  LET l == lim[r] IN
  IF n > MaxHits[l]
    THEN Leave(r)
    ELSE IF l = "upload" THEN Ask(r, "api") ELSE Leave(r)

-----------------------------------------------------------------------------
(* InProcessStore. *)

\* Mutant: an entry is used for as long as it is in the map.
LiveWhileThere(l) == entry[l].count > 0

Live(l) == entry[l].left > 0

\* Mutant: the two durations are swapped, a window is as long as the grace period.
CountForGrace(r, l) ==
  LET n == IF Live(l) THEN Up(entry[l].count) ELSE 1 IN
  /\ entry' = [entry EXCEPT ![l] = [count |-> n, left |-> IF Live(l) THEN @.left ELSE Grace]]
  /\ timers' = IF Live(l) THEN timers ELSE [timers EXCEPT ![l] = @ \cup {Window[l] + Grace}]
  /\ Decide(r, n)

(* increment: a new window schedules the deletion of the key, whatever entry
   the key may have by then. *)
Count(r, l) ==
  LET n == IF Live(l) THEN Up(entry[l].count) ELSE 1 IN
  /\ entry' = [entry EXCEPT ![l] = [count |-> n, left |-> IF Live(l) THEN @.left ELSE Window[l]]]
  /\ timers' = IF Live(l) THEN timers ELSE [timers EXCEPT ![l] = @ \cup {Window[l] + Grace}]
  /\ Decide(r, n)

InMemory(r) ==
  /\ mode = "memory" /\ pc[r] = "ask"
  /\ Count(r, lim[r])
  /\ LET hit == <<0, entry'[lim[r]].count>> IN
     /\ seen' = [seen EXCEPT ![lim[r]] = @ \cup {hit}]
     /\ passed' = IF hit[2] > MaxHits[lim[r]] THEN passed
                  ELSE [passed EXCEPT ![lim[r]] = @ \cup {hit}]
  /\ UNCHANGED <<ctl, shared, forgotten>>

-----------------------------------------------------------------------------
(* RedisRateLimitStore. *)

Incr(r) ==
  LET n == Up(shared.count) IN
  /\ mode = "redis" /\ pc[r] = "ask"
  /\ shared' = [count |-> n, left |-> IF n = 1 THEN Never ELSE shared.left]
  /\ hits' = [hits EXCEPT ![r] = n]
  /\ pc' = [pc EXCEPT ![r] = IF n = 1 THEN "expire" ELSE "pttl"]
  /\ UNCHANGED <<ctl, map, lim, hist>>

\* Mutant: the TTL is never set.
ExpireKeyNever(r) ==
  /\ pc[r] = "expire"
  /\ pc' = [pc EXCEPT ![r] = "pttl"]
  /\ UNCHANGED <<ctl, map, shared, lim, hits, hist>>

ExpireKey(r) ==
  /\ pc[r] = "expire"
  /\ shared' = IF shared.count > 0 THEN [shared EXCEPT !.left = Window[lim[r]]] ELSE shared
  /\ pc' = [pc EXCEPT ![r] = "pttl"]
  /\ UNCHANGED <<ctl, map, lim, hits, hist>>

Pttl(r) ==
  /\ pc[r] = "pttl"
  /\ Decide(r, hits[r])
  /\ UNCHANGED <<ctl, map, shared, hist>>

(* A command fails or times out; an INCR may have reached Redis all the same.
   The request is counted in the map. *)
Fallback(r) ==
  /\ faults /\ pc[r] # "idle"
  /\ Count(r, lim[r])
  /\ \/ UNCHANGED shared
     \/ /\ pc[r] = "ask"
        /\ shared' = [count |-> Up(shared.count),
                      left |-> IF shared.count = 0 THEN Never ELSE shared.left]
  /\ UNCHANGED <<ctl, hist>>

-----------------------------------------------------------------------------
Less(n) == IF n > 0 THEN n - 1 ELSE 0
Older(h) == [l \in Limiters |-> {<<x[1] + 1, x[2]>> : x \in {y \in h[l] : y[1] < Window[l] - 1}}]

Expire(l) == IF 1 \in timers[l] THEN NoCounter ELSE [entry[l] EXCEPT !.left = Less(@)]

(* The windows that a timer ends a tick too early or more; the time since then
   matters while it is shorter than the window. *)
Forgets(l) ==
  {a + 1 : a \in {b \in forgotten[l] : b + 2 < Window[l]}}
    \cup (IF 1 \in timers[l] /\ entry[l].left > 1 THEN {0} ELSE {})

(* Time passes: windows and TTLs run out, timers fire. *)
Tick ==
  /\ timers' = [l \in Limiters |-> {t - 1 : t \in timers[l] \ {1}}]
  /\ entry' = [l \in Limiters |-> Expire(l)]
  /\ shared' = IF shared.left = Never THEN shared
               ELSE IF shared.left <= 1 THEN NoCounter
               ELSE [shared EXCEPT !.left = @ - 1]
  /\ seen' = Older(seen)
  /\ passed' = Older(passed)
  /\ forgotten' = [l \in Limiters |-> Forgets(l)]
  /\ UNCHANGED <<ctl, pc, lim, hits>>

Step(r) == InMemory(r) \/ Incr(r) \/ ExpireKey(r) \/ Pttl(r)

Next ==
  \/ \E r \in Reqs : (\E l \in Limiters : Arrive(r, l)) \/ Step(r) \/ Fallback(r)
  \/ Tick

Spec == Init /\ [][Next]_vars

-----------------------------------------------------------------------------
(* Without Redis, however requests, windows and the deletion timers of earlier
   windows fall, any stretch of time as long as the window sees less than twice
   the limit let through, for the two fixed windows that share it, and once the
   limit more for each running window whose entry a timer deleted meanwhile. *)
Bounded ==
  \A l \in Limiters : Cardinality(passed[l]) < (2 + Cardinality(forgotten[l])) * MaxHits[l]

Asked(l) ==
  mode = "memory" /\ \E r \in Reqs : pc[r] = "ask" /\ lim[r] = l /\ <<pc'[r], lim'[r]>> # <<"ask", l>>

(* Nor is anybody refused by a limiter that was asked no more often than its
   limit within the last window. *)
RefusedOnlyOverLimit ==
  [][\A l \in Limiters : Asked(l) /\ passed'[l] = passed[l]
                           => Cardinality(seen'[l]) > MaxHits[l]]_vars

(* The next request of the client is refused. *)
Refusing(l) == IF mode = "redis" THEN shared.count >= MaxHits[l]
               ELSE Live(l) /\ entry[l].count >= MaxHits[l]

(* While commands succeed the counter of a client in Redis always has an end,
   or the request that made it is about to give it one: no order of the
   commands of overlapping requests, and no expiry between them, leaves a
   client refused for good. *)
LimitWearsOff ==
  ~faults /\ shared.left = Never => \E r \in Reqs : pc[r] = "expire"

(* "should maintain separate counters for upload and API": a limiter begins to
   refuse a client only when it was itself asked. *)
SeparateCounters ==
  [][\A l \in Limiters : (~faults /\ ~Refusing(l) /\ Refusing(l)')
       => \E r \in Reqs : lim[r] = l /\ pc[r] = "ask" /\ <<pc'[r], lim'[r]>> # <<"ask", l>>]_vars
=============================================================================
