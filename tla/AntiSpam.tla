------------------------------- MODULE AntiSpam -------------------------------
(***************************************************************************)
(* Violations and bans of one client (anti-spam.ts): what the application  *)
(* reports, what the middleware does with the client's requests, what an   *)
(* administrator lifts.  Bans are kept in the process or in Redis, never   *)
(* in both.                                                                *)
(*                                                                         *)
(* In the process a request is checked and its ban extended in one turn of *)
(* the event loop.  In Redis every command is a step of its own and may    *)
(* fail.  Times are in ticks relative to now; commands take less than one. *)
(***************************************************************************)
EXTENDS Integers

CONSTANTS
  Calls,      \* slots for concurrent calls
  Threshold,  \* violationsBeforeBan
  ViolationWindow, BanTime, Extension, MaxBan,  \* durations; BanTime <= MaxBan
  NaN,        \* an expiresAt that is not a number
  NoBan, Unset, \* no ban; a field that is not there, a key without a TTL
  Remnant       \* a key in Redis with nothing in it but violations

VARIABLES
  store,    \* "memory" or "redis"
  faults,   \* may commands of Redis fail?
  counts,   \* violationCounts: [count, left]; left = 0 is expired
  ban,      \* [until, age]: time to expiresAt, time since createdAt
  ttl,      \* of the key in Redis
  pc, op,   \* where call c is, and what it is
  next,     \* next[c]: the expiresAt it will write
  outcome,  \* outcome[c]: what became of the request: "refused", "served", "both"
  lifted    \* history: a ban was lifted and the threshold not reached since

ctl  == <<store, faults>>
rec  == <<ban, ttl>>
call == <<pc, op, next, outcome>>
vars == <<ctl, counts, rec, call, lifted>>

TypeOK ==
  /\ store \in {"memory", "redis"} /\ faults \in BOOLEAN
  /\ counts \in [count : 0 .. Threshold + 1, left : 0 .. ViolationWindow]
  /\ ban \in [until : (-1 .. MaxBan) \cup {NaN}, age : (0 .. MaxBan + 1) \cup {Unset}]
            \cup {NoBan, Remnant}
  /\ ttl \in (1 .. MaxBan) \cup {Unset}
  /\ pc \in [Calls -> {"idle", "check", "del", "read", "extend", "count", "create",
                       "expireMax", "expireBan"}]
  /\ op \in [Calls -> {"none", "request", "violation", "lift"}]
  /\ next \in [Calls -> (0 .. MaxBan) \cup {NaN, Unset}]
  /\ outcome \in [Calls -> {"none", "refused", "served", "both"}]
  /\ lifted \in BOOLEAN

Init ==
  /\ store \in {"memory", "redis"} /\ faults \in BOOLEAN
  /\ store = "memory" => ~faults
  /\ counts = [count |-> 0, left |-> 0]
  /\ ban = NoBan
  /\ ttl = Unset
  /\ pc = [c \in Calls |-> "idle"]
  /\ op = [c \in Calls |-> "none"]
  /\ next = [c \in Calls |-> Unset]
  /\ outcome = [c \in Calls |-> "none"]
  /\ lifted = FALSE

-----------------------------------------------------------------------------
Go(c, p) == pc' = [pc EXCEPT ![c] = p] /\ UNCHANGED <<op, next>>

(* Call c is over; it reached the handlers, was refused, or is no request. *)
End(c, o) ==
  /\ pc' = [pc EXCEPT ![c] = "idle"]
  /\ op' = [op EXCEPT ![c] = "none"]
  /\ next' = [next EXCEPT ![c] = Unset]
  /\ outcome' = [outcome EXCEPT ![c] = o]

(* next() *)
Serve(c) == End(c, IF outcome[c] = "refused" THEN "both" ELSE "served")

Call(c, o) ==
  /\ pc[c] = "idle"
  /\ pc' = [pc EXCEPT ![c] = IF o = "lift" THEN "del" ELSE "check"]
  /\ op' = [op EXCEPT ![c] = o]
  /\ outcome' = [outcome EXCEPT ![c] = "none"]
  /\ UNCHANGED <<ctl, counts, rec, next, lifted>>

(* There is an expiresAt to look at. *)
HasEnd == ban \notin {NoBan, Remnant}

(* getBan returns a ban at its very expiry, recordViolation replaces it. *)
Banned  == IF HasEnd THEN (IF ban.until = NaN THEN TRUE ELSE ban.until >= 0) ELSE FALSE
Running == IF HasEnd THEN (IF ban.until = NaN THEN FALSE ELSE ban.until > 0) ELSE FALSE

FreshBan == [until |-> BanTime, age |-> 0]

\* Mutant: an extension is not capped.
ExtendedFreely ==
  IF ban.age = Unset THEN NaN ELSE ban.until + Extension

(* expiresAt of the running ban, extended, within maxBanDurationMs. *)
Extended ==
  IF ban.age = Unset THEN NaN
  ELSE IF ban.until + Extension < MaxBan - ban.age THEN ban.until + Extension
  ELSE MaxBan - ban.age

-----------------------------------------------------------------------------
(* The application reports a violation: it bans at the threshold, and not
   beyond it. *)

\* Mutant: it bans beyond the threshold too.
ReachedOrPassed(n) == n >= Threshold

Reached(n) == n = Threshold

Violations == IF counts.left > 0 THEN counts.count + 1 ELSE 1

Report(c) ==
  /\ pc[c] = "check" /\ op[c] = "violation"
  /\ counts' = [count |-> IF Violations > Threshold THEN Threshold + 1 ELSE Violations,
                left |-> IF counts.left > 0 THEN counts.left ELSE ViolationWindow]
  /\ lifted' = (lifted /\ Violations # Threshold)
  /\ \/ /\ ~Reached(Violations)
        /\ End(c, "none")
        /\ UNCHANGED ban
     \/ /\ Reached(Violations) /\ store = "redis"
        /\ Go(c, "read")
        /\ UNCHANGED <<ban, outcome>>
     \/ /\ Reached(Violations) /\ store = "memory"
        /\ ban' = IF Running THEN [ban EXCEPT !.until = Extended] ELSE FreshBan
        /\ End(c, "none")
  /\ UNCHANGED <<ctl, ttl>>

-----------------------------------------------------------------------------
(* InProcessBanStore. *)

RequestInMemory(c) ==
  /\ store = "memory"
  /\ pc[c] = "check" /\ op[c] = "request"
  /\ \/ /\ ~Banned
        /\ ban' = NoBan
        /\ Serve(c)
     \/ /\ Banned
        /\ ban' = IF Running THEN [ban EXCEPT !.until = Extended] ELSE FreshBan
        /\ End(c, "refused")
  /\ UNCHANGED <<ctl, counts, ttl, lifted>>

(* The cleanup interval. *)
Cleanup ==
  /\ store = "memory"
  /\ ban # NoBan /\ ~Banned
  /\ ban' = NoBan
  /\ UNCHANGED <<ctl, counts, ttl, call, lifted>>

-----------------------------------------------------------------------------
(* RedisBanStore.  The middleware: getBan, then 403, then recordViolation. *)

GetBan(c) ==
  /\ store = "redis"
  /\ pc[c] = "check" /\ op[c] = "request"
  /\ \/ Banned /\ Go(c, "read") /\ outcome' = [outcome EXCEPT ![c] = "refused"]
     \/ HasEnd /\ ~Banned /\ Go(c, "del") /\ UNCHANGED outcome
     \/ ~HasEnd /\ Serve(c)
  /\ UNCHANGED <<ctl, counts, rec, lifted>>

(* del, of an expired ban or to lift one: whatever the key holds by now. *)
Del(c) ==
  /\ pc[c] = "del"
  /\ ban' = NoBan
  /\ ttl' = Unset
  /\ lifted' = (lifted \/ op[c] = "lift")
  /\ IF op[c] = "lift" THEN End(c, "none") ELSE Serve(c)
  /\ UNCHANGED <<ctl, counts>>

ReadBan(c) ==
  /\ pc[c] = "read"
  /\ pc' = [pc EXCEPT ![c] = IF Running THEN "extend" ELSE "create"]
  /\ next' = [next EXCEPT ![c] = IF Running THEN Extended ELSE BanTime]
  /\ UNCHANGED <<ctl, counts, rec, op, outcome, lifted>>

(* hset: a key that is gone meanwhile comes back with this field alone. *)
Extend(c) ==
  /\ pc[c] = "extend"
  /\ ban' = IF HasEnd THEN [ban EXCEPT !.until = next[c]]
            ELSE [until |-> next[c], age |-> Unset]
  /\ Go(c, "count")
  /\ UNCHANGED <<ctl, counts, ttl, outcome, lifted>>

(* hincrby: it too brings back a key that is gone. *)
CountViolation(c) ==
  /\ pc[c] = "count"
  /\ ban' = IF ban = NoBan THEN Remnant ELSE ban
  /\ Go(c, "expireMax")
  /\ UNCHANGED <<ctl, counts, ttl, outcome, lifted>>

CreateBan(c) ==
  /\ pc[c] = "create"
  /\ ban' = FreshBan
  /\ Go(c, "expireBan")
  /\ UNCHANGED <<ctl, counts, ttl, outcome, lifted>>

SetTtl(c) ==
  /\ pc[c] \in {"expireMax", "expireBan"}
  /\ ttl' = IF ban = NoBan THEN Unset ELSE IF pc[c] = "expireMax" THEN MaxBan ELSE BanTime
  /\ End(c, outcome[c])
  /\ UNCHANGED <<ctl, counts, ban, lifted>>

(* A command fails: the middleware logs it and calls next(), also after it
   has answered 403; the other callers log it. *)
Fail(c) ==
  /\ faults
  /\ pc[c] # "idle" /\ <<pc[c], op[c]>> # <<"check", "violation">>
  /\ IF op[c] = "request" THEN Serve(c) ELSE End(c, "none")
  /\ UNCHANGED <<ctl, counts, rec, lifted>>

-----------------------------------------------------------------------------
Less(n) == IF n > 0 THEN n - 1 ELSE 0

(* Time passes, between commands; the key of a ban goes with its TTL. *)
Tick ==
  /\ \A c \in Calls : pc[c] = "idle"
  /\ counts' = [counts EXCEPT !.left = Less(@)]
  /\ ttl' = IF ttl = Unset \/ ttl = 1 THEN Unset ELSE ttl - 1
  /\ ban' = IF ban = NoBan \/ ttl = 1 THEN NoBan
            ELSE IF ban = Remnant THEN Remnant
            ELSE [until |-> IF ban.until = NaN THEN NaN
                            ELSE IF ban.until < 0 THEN -1 ELSE ban.until - 1,
                  age |-> IF ban.age = Unset THEN Unset
                          ELSE IF ban.age > MaxBan THEN ban.age ELSE ban.age + 1]
  /\ UNCHANGED <<ctl, call, lifted>>

Step(c) ==
  \/ Report(c) \/ RequestInMemory(c)
  \/ GetBan(c) \/ Del(c) \/ ReadBan(c) \/ Extend(c) \/ CountViolation(c)
  \/ CreateBan(c) \/ SetTtl(c)

Next ==
  \/ \E c \in Calls : (\E o \in {"request", "violation", "lift"} : Call(c, o))
                      \/ Step(c) \/ Fail(c)
  \/ Cleanup
  \/ Tick

Spec == Init /\ [][Next]_vars

-----------------------------------------------------------------------------
(* In the process a ban that was lifted stays lifted until the threshold is
   reached anew: no request under way and no later violation of the same
   window brings it back. *)
LiftSticks == store = "memory" /\ lifted => ban = NoBan

(* No ban is given an end later than maxBanDurationMs after its beginning. *)
BanCapped ==
  HasEnd /\ ban.until # NaN /\ ban.age # Unset => ban.until + ban.age <= MaxBan

(* A record of a ban in Redis has a TTL, or a call under way will set one. *)
BanGoes ==
  store = "redis" /\ ~faults /\ ban # NoBan /\ ttl = Unset
    => \E c \in Calls : pc[c] \in {"count", "expireMax", "expireBan"}

(* Whatever concurrent extensions, lifts and new bans compute from what the key
   held some commands earlier, a ban ends, no later than maxBanDurationMs after
   its beginning; and while commands succeed even a record that the commands of
   a late extension brought back without its other fields goes in the end. *)
BansEnd == BanCapped /\ BanGoes
=============================================================================
