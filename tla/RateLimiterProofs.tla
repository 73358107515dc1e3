-------------------------- MODULE RateLimiterProofs --------------------------
(***************************************************************************)
(* For any number of requests, all limits, windows and grace periods: the  *)
(* types of RateLimiter, that a limiter lets through a bounded number in   *)
(* any window, refuses nobody who stayed within the limit, and that the    *)
(* counter in Redis has an end.  The behaviours are those of RateLimiter,  *)
(* as MCServices runs it beside the other services.                        *)
(***************************************************************************)
EXTENDS MCServices, FiniteSetTheorems, WellFoundedInduction, TLAPS

-----------------------------------------------------------------------------
Ages(l)  == 0 .. Windows[l] - 1
Counters == [count : 0 .. Limiter!Cap, left : 0 .. Limiter!Never]

LEMMA LimitsOK ==
  /\ Limits \in [Limiter!Limiters -> Nat \ {0}]
  /\ Limiter!Cap \in Nat
  /\ \A l \in Limiter!Limiters : Limits[l] < Limiter!Cap
  BY LimiterParameters DEF Limits, Limiter!Limiters, Limiter!Cap, Limiter!Over

LEMMA WindowsOK ==
  /\ Limiter!Never \in Nat \ {0}
  /\ \A l \in Limiter!Limiters : Windows[l] \in Nat \ {0} /\ Windows[l] < Limiter!Never
  BY LimiterParameters DEF Windows, Limiter!Limiters, Limiter!Never

(* Control, and the counters in the process and in Redis. *)
LimiterCtl ==
  /\ mode \in {"memory", "redis"}
  /\ requestAt \in [Reqs -> {"idle", "ask", "expire", "pttl"}]
  /\ lim \in [Reqs -> Limiter!Limiters]

LimiterMaps ==
  /\ entry \in [Limiter!Limiters -> Counters]
  /\ \A l \in Limiter!Limiters : /\ entry[l].left <= Windows[l]
                                 /\ entry[l].left > 0 => entry[l].count > 0
  /\ timers \in [Limiter!Limiters -> SUBSET (1 .. Limiter!Never + Grace)]

SharedOK ==
  /\ shared \in Counters
  /\ shared.count = 0 => shared.left = 0

HitsOK == hits \in [Reqs -> 0 .. Limiter!Cap]

(* Each request has a number of its own in its tick; what was let through was
   asked for. *)
Recorded ==
  /\ DOMAIN seen = Limiter!Limiters
  /\ DOMAIN passed = Limiter!Limiters
  /\ DOMAIN forgotten = Limiter!Limiters
  /\ \A l \in Limiter!Limiters :
       /\ seen[l] \subseteq Ages(l) \X (1 .. Limiter!Cap)
       /\ passed[l] \subseteq seen[l] \cap (Ages(l) \X (1 .. Limits[l]))
       /\ forgotten[l] \subseteq Ages(l)

LEMMA DecideOK ==
  ASSUME LimiterCtl, HitsOK, NEW r \in Reqs, NEW n, Limiter!Decide(r, n)
  PROVE  /\ requestAt' \in [Reqs -> {"idle", "ask", "expire", "pttl"}]
         /\ lim' \in [Reqs -> Limiter!Limiters]
         /\ HitsOK'
  <1> USE DEF LimiterCtl, HitsOK, Limiter!Limiters
  <1>1. 0 \in 0 .. Limiter!Cap
    BY LimitsOK
  <1> QED
    BY <1>1 DEF Limiter!Decide, Limiter!Leave, Limiter!Ask

LEMMA UpOK ==
  ASSUME NEW n \in 0 .. Limiter!Cap
  PROVE  /\ Limiter!Up(n) \in 1 .. Limiter!Cap
         /\ Limiter!Up(n) >= n
         /\ Limiter!Up(n) # Limiter!Cap => Limiter!Up(n) = n + 1
         /\ \A m \in 1 .. Limiter!Up(n) : m <= n \/ m = Limiter!Up(n)
  BY LimitsOK, LimiterParameters DEF Limiter!Up, Limiter!Cap, Limiter!Over, Limits

LEMMA CtlStep == ASSUME LimiterCtl, HitsOK, SharedOK, Limiter!Next PROVE LimiterCtl' /\ HitsOK'
  <1>1. mode' = mode
    BY DEF Limiter!Next, Limiter!Arrive, Limiter!Step, Limiter!InMemory, Limiter!Incr, Limiter!ExpireKey,
       Limiter!Pttl, Limiter!Fallback, Limiter!Tick, Limiter!ctl
  <1>2. ASSUME NEW r \in Reqs, NEW l \in Limiter!Limiters, Limiter!Arrive(r, l)
        PROVE  LimiterCtl' /\ HitsOK'
    <2>1. 0 \in 0 .. Limiter!Cap
      BY LimitsOK
    <2> QED
      BY <1>1, <1>2, <2>1 DEF Limiter!Arrive, Limiter!Ask, LimiterCtl, HitsOK
  <1>3. ASSUME NEW r \in Reqs, Limiter!InMemory(r) \/ Limiter!Fallback(r) \/ Limiter!Pttl(r)
        PROVE  LimiterCtl' /\ HitsOK'
    <2>1. \E n : Limiter!Decide(r, n)
      BY <1>3 DEF Limiter!InMemory, Limiter!Fallback, Limiter!Count, Limiter!Pttl
    <2> QED
      BY <1>1, <2>1, DecideOK DEF LimiterCtl
  <1>4. ASSUME NEW r \in Reqs, Limiter!Incr(r)
        PROVE  LimiterCtl' /\ HitsOK'
    <2>1. Limiter!Up(shared.count) \in 0 .. Limiter!Cap
      BY UpOK, LimitsOK DEF SharedOK, Counters
    <2> QED
      BY <1>1, <1>4, <2>1 DEF Limiter!Incr, LimiterCtl, HitsOK
  <1>5. ASSUME NEW r \in Reqs, Limiter!ExpireKey(r)
        PROVE  LimiterCtl' /\ HitsOK'
    BY <1>1, <1>5 DEF Limiter!ExpireKey, LimiterCtl, HitsOK
  <1>6. CASE Limiter!Tick
    BY <1>1, <1>6 DEF Limiter!Tick, LimiterCtl, HitsOK
  <1> QED
    BY <1>2, <1>3, <1>4, <1>5, <1>6 DEF Limiter!Next, Limiter!Step

LEMMA SharedStep == ASSUME LimiterCtl, SharedOK, Limiter!Next PROVE SharedOK'
  <1> USE WindowsOK DEF LimiterCtl, SharedOK, Counters
  <1>1. ASSUME NEW r \in Reqs, Limiter!Incr(r) \/ Limiter!Fallback(r)
        PROVE  SharedOK'
    BY <1>1, UpOK, LimitsOK DEF Limiter!Incr, Limiter!Fallback
  <1>2. ASSUME NEW r \in Reqs, Limiter!ExpireKey(r) PROVE SharedOK'
    BY <1>2, LimitsOK DEF Limiter!ExpireKey
  <1>3. CASE Limiter!Tick
    BY <1>3, LimitsOK DEF Limiter!Tick, Limiter!NoCounter
  <1>4. CASE UNCHANGED shared
    BY <1>4
  <1> QED
    BY <1>1, <1>2, <1>3, <1>4 DEF Limiter!Next, Limiter!Step, Limiter!Arrive, Limiter!InMemory, Limiter!Pttl

(* What a limiter that counts a request does to its map. *)
Counts(l) ==
  /\ entry' = [entry EXCEPT ![l] = [count |-> IF Limiter!Live(l) THEN Limiter!Up(entry[l].count) ELSE 1,
                                    left |-> IF Limiter!Live(l) THEN entry[l].left ELSE Windows[l]]]
  /\ timers' = IF Limiter!Live(l) THEN timers ELSE [timers EXCEPT ![l] = @ \cup {Windows[l] + Grace}]

LEMMA CountCounts ==
  ASSUME LimiterMaps, NEW r \in Reqs, NEW l \in Limiter!Limiters, Limiter!Count(r, l)
  PROVE  Counts(l)
  BY DEF Limiter!Count, Counts, LimiterMaps, Counters

LEMMA CountsOK ==
  ASSUME LimiterMaps, NEW l \in Limiter!Limiters, Counts(l)
  PROVE  /\ LimiterMaps'
         /\ entry'[l].count = IF Limiter!Live(l) THEN Limiter!Up(entry[l].count) ELSE 1
         /\ entry'[l].left = IF Limiter!Live(l) THEN entry[l].left ELSE Windows[l]
         /\ \A k \in Limiter!Limiters \ {l} : entry'[k] = entry[k]
  <1>1. (IF Limiter!Live(l) THEN Limiter!Up(entry[l].count) ELSE 1) \in 0 .. Limiter!Cap
    BY UpOK, LimitsOK, LimiterParameters DEF LimiterMaps, Counters
  <1>2. (IF Limiter!Live(l) THEN entry[l].left ELSE Windows[l]) \in 0 .. Windows[l]
    BY WindowsOK DEF LimiterMaps, Counters
  <1>3. entry' \in [Limiter!Limiters -> Counters]
    BY <1>1, <1>2, WindowsOK DEF Counts, LimiterMaps, Counters
  <1>5. (IF Limiter!Live(l) THEN Limiter!Up(entry[l].count) ELSE 1) > 0
    BY UpOK DEF LimiterMaps, Counters
  <1>6. \A k \in Limiter!Limiters : entry'[k].left > 0 => entry'[k].count > 0
    BY <1>5 DEF Counts, LimiterMaps, Counters
  <1>4. timers' \in [Limiter!Limiters -> SUBSET (1 .. Limiter!Never + Grace)]
    <2>1. Windows[l] + Grace \in 1 .. Limiter!Never + Grace
      BY LimiterParameters, WindowsOK
    <2> QED
      BY <2>1 DEF Counts, LimiterMaps
  <1>7. \A k \in Limiter!Limiters : entry'[k].left <= Windows[k]
    BY <1>2, WindowsOK DEF Counts, LimiterMaps, Counters
  <1> QED
    BY <1>3, <1>4, <1>6, <1>7 DEF Counts, LimiterMaps

(* Time passes. *)
LEMMA TickMaps ==
  ASSUME LimiterMaps, Limiter!Tick
  PROVE  /\ LimiterMaps'
         /\ \A l \in Limiter!Limiters :
              entry'[l] = IF 1 \in timers[l] THEN Limiter!NoCounter
                          ELSE [count |-> entry[l].count, left |-> Limiter!Less(entry[l].left)]
  <1> USE WindowsOK
  <1>1. ASSUME NEW l \in Limiter!Limiters
        PROVE  /\ entry'[l] = IF 1 \in timers[l] THEN Limiter!NoCounter
                              ELSE [count |-> entry[l].count, left |-> Limiter!Less(entry[l].left)]
               /\ entry'[l] \in Counters /\ entry'[l].left <= Windows[l]
               /\ entry'[l].left > 0 => entry'[l].count > 0
    BY LimitsOK DEF Limiter!Tick, Limiter!Expire, LimiterMaps, Counters, Limiter!NoCounter, Limiter!Less,
       Limiter!Never
  <1>2. entry' \in [Limiter!Limiters -> Counters]
    BY <1>1 DEF Limiter!Tick
  <1>3. \A l \in Limiter!Limiters : {t - 1 : t \in timers[l] \ {1}} \subseteq 1 .. Limiter!Never + Grace
    BY LimiterParameters DEF LimiterMaps
  <1>4. timers' \in [Limiter!Limiters -> SUBSET (1 .. Limiter!Never + Grace)]
    BY <1>3 DEF Limiter!Tick
  <1> QED
    BY <1>1, <1>2, <1>4 DEF LimiterMaps

LEMMA MapsStep == ASSUME LimiterCtl, LimiterMaps, Limiter!Next PROVE LimiterMaps'
  <1>1. ASSUME NEW r \in Reqs, Limiter!InMemory(r) \/ Limiter!Fallback(r) PROVE LimiterMaps'
    <2>1. Limiter!Count(r, lim[r]) /\ lim[r] \in Limiter!Limiters
      BY <1>1 DEF Limiter!InMemory, Limiter!Fallback, LimiterCtl
    <2> QED
      BY <2>1, CountCounts, CountsOK
  <1>2. CASE Limiter!Tick
    BY <1>2, TickMaps
  <1>3. CASE UNCHANGED <<entry, timers>>
    BY <1>3 DEF LimiterMaps
  <1> QED
    BY <1>1, <1>2, <1>3 DEF Limiter!Next, Limiter!Step, Limiter!Arrive, Limiter!Incr, Limiter!ExpireKey,
       Limiter!Pttl, Limiter!map

-----------------------------------------------------------------------------
(* What it remembers. *)
Records(l) ==
  /\ seen' = [seen EXCEPT ![l] = @ \cup {<<0, entry'[l].count>>}]
  /\ passed' = IF entry'[l].count > Limits[l] THEN passed
               ELSE [passed EXCEPT ![l] = @ \cup {<<0, entry'[l].count>>}]
  /\ UNCHANGED forgotten

LEMMA InMemoryRecords ==
  ASSUME LimiterCtl, LimiterMaps, NEW r \in Reqs, Limiter!InMemory(r)
  PROVE  lim[r] \in Limiter!Limiters /\ Counts(lim[r]) /\ Records(lim[r])
  <1>1. lim[r] \in Limiter!Limiters /\ Limiter!Count(r, lim[r])
    BY DEF Limiter!InMemory, LimiterCtl
  <1>2. <<0, entry'[lim[r]].count>>[2] = entry'[lim[r]].count
    OBVIOUS
  <1> QED
    BY <1>1, <1>2, CountCounts DEF Limiter!InMemory, Records

(* A tick makes everything older and drops what is older than a window. *)
LEMMA OlderOK ==
  ASSUME NEW h, NEW l \in Limiter!Limiters, NEW N, h[l] \subseteq Ages(l) \X N
  PROVE  \A x \in Limiter!Older(h)[l] :
           /\ x \in Ages(l) \X N /\ x[1] > 0 /\ <<x[1] - 1, x[2]>> \in h[l]
           /\ x = <<x[1], x[2]>>
  <1> USE WindowsOK
  <1> TAKE x \in Limiter!Older(h)[l]
  <1>1. PICK y \in h[l] : y[1] < Windows[l] - 1 /\ x = <<y[1] + 1, y[2]>>
    BY DEF Limiter!Older
  <1>2. y = <<y[1], y[2]>> /\ y[1] \in Ages(l) /\ y[2] \in N
    OBVIOUS
  <1>3. x[1] = y[1] + 1 /\ x[2] = y[2]
    BY <1>1
  <1>4. x = <<x[1], x[2]>>
    BY <1>1, <1>3, Zenon
  <1>5. x[1] \in Ages(l) /\ x[1] > 0 /\ x[1] - 1 = y[1]
    BY <1>1, <1>2, <1>3 DEF Ages
  <1>6. <<x[1] - 1, x[2]>> \in h[l]
    BY <1>2, <1>3, <1>5, Zenon
  <1>7. x \in Ages(l) \X N
    BY <1>2, <1>3, <1>4, <1>5, Zenon
  <1> QED
    BY <1>4, <1>5, <1>6, <1>7, Zenon

LEMMA OlderMore ==
  ASSUME NEW h, NEW l \in Limiter!Limiters,
         NEW a \in Ages(l), a + 1 \in Ages(l), NEW n, <<a, n>> \in h[l]
  PROVE  <<a + 1, n>> \in Limiter!Older(h)[l]
  <1>1. a < Windows[l] - 1 /\ <<a, n>>[1] = a /\ <<a, n>>[2] = n
    BY WindowsOK DEF Ages
  <1>2. <<a, n>> \in {y \in h[l] : y[1] < Windows[l] - 1}
    BY <1>1
  <1>3. <<<<a, n>>[1] + 1, <<a, n>>[2]>>
          \in {<<x[1] + 1, x[2]>> : x \in {y \in h[l] : y[1] < Windows[l] - 1}}
    BY <1>2
  <1> QED
    BY <1>1, <1>3 DEF Limiter!Older

LEMMA OlderSubset ==
  ASSUME NEW g, NEW h, NEW l \in Limiter!Limiters, g[l] \subseteq h[l]
  PROVE  Limiter!Older(g)[l] \subseteq Limiter!Older(h)[l]
  BY DEF Limiter!Older

LEMMA ForgetsOK ==
  ASSUME Recorded, NEW l \in Limiter!Limiters
  PROVE  /\ Limiter!Forgets(l) \subseteq Ages(l)
         /\ \A b \in forgotten[l] : b + 2 < Windows[l] => b + 1 \in Limiter!Forgets(l)
         /\ 1 \in timers[l] /\ entry[l].left > 1 => 0 \in Limiter!Forgets(l)
  BY WindowsOK DEF Limiter!Forgets, Recorded, Ages

LEMMA HistoryStep ==
  ASSUME LimiterCtl, LimiterMaps, Recorded, Limiter!Next PROVE Recorded'
  <1> USE WindowsOK
  <1>1. ASSUME NEW r \in Reqs, Limiter!InMemory(r) PROVE Recorded'
    <2> DEFINE l == lim[r]
               n == entry'[l].count
    <2>1. l \in Limiter!Limiters /\ Counts(l) /\ Records(l)
      BY <1>1, InMemoryRecords
    <2>2. n \in 1 .. Limiter!Cap
      BY <2>1, CountsOK, UpOK, LimitsOK DEF LimiterMaps, Counters
    <2>3. <<0, n>> \in Ages(l) \X (1 .. Limiter!Cap)
      BY <2>1, <2>2 DEF Ages
    <2>4. n <= Limits[l] => <<0, n>> \in Ages(l) \X (1 .. Limits[l])
      BY <2>1, <2>2, LimitsOK DEF Ages
    <2>5. ~(n > Limits[l]) => n <= Limits[l]
      BY <2>1, <2>2, LimitsOK
    <2> HIDE DEF n
    <2>6. \A k \in Limiter!Limiters : seen'[k] \subseteq Ages(k) \X (1 .. Limiter!Cap)
      BY <2>1, <2>3 DEF Records, Recorded, n
    <2>7. DOMAIN seen' = Limiter!Limiters /\ DOMAIN passed' = Limiter!Limiters
      BY <2>1 DEF Records, Recorded
    <2>8. \A k \in Limiter!Limiters : passed'[k] \subseteq seen'[k] \cap (Ages(k) \X (1 .. Limits[k]))
      BY <2>1, <2>4, <2>5 DEF Records, Recorded, n
    <2> QED
      BY <2>1, <2>6, <2>7, <2>8 DEF Records, Recorded
  <1>2. CASE Limiter!Tick
    <2>1. \A k \in Limiter!Limiters : Limiter!Older(seen)[k] \subseteq Ages(k) \X (1 .. Limiter!Cap)
      BY OlderOK DEF Recorded
    <2>2. \A k \in Limiter!Limiters : seen'[k] \subseteq Ages(k) \X (1 .. Limiter!Cap)
      BY <1>2, <2>1 DEF Limiter!Tick
    <2>3. ASSUME NEW k \in Limiter!Limiters
          PROVE  passed'[k] \subseteq seen'[k] \cap (Ages(k) \X (1 .. Limits[k]))
      <3>1. passed[k] \subseteq Ages(k) \X (1 .. Limits[k]) /\ passed[k] \subseteq seen[k]
        BY DEF Recorded
      <3>2. Limiter!Older(passed)[k] \subseteq Ages(k) \X (1 .. Limits[k])
        BY <3>1, OlderOK
      <3>3. Limiter!Older(passed)[k] \subseteq Limiter!Older(seen)[k]
        BY <3>1, OlderSubset
      <3> QED
        BY <1>2, <3>2, <3>3 DEF Limiter!Tick
    <2>4. DOMAIN seen' = Limiter!Limiters /\ DOMAIN passed' = Limiter!Limiters
      BY <1>2 DEF Limiter!Tick, Limiter!Older
    <2>5. /\ DOMAIN forgotten' = Limiter!Limiters
          /\ \A k \in Limiter!Limiters : forgotten'[k] \subseteq Ages(k)
      BY <1>2, ForgetsOK DEF Limiter!Tick
    <2> QED
      BY <2>2, <2>3, <2>4, <2>5 DEF Recorded
  <1>3. CASE UNCHANGED <<seen, passed, forgotten>>
    BY <1>3 DEF Recorded
  <1> QED
    BY <1>1, <1>2, <1>3 DEF Limiter!Next, Limiter!Step, Limiter!Arrive, Limiter!Incr, Limiter!ExpireKey,
       Limiter!Pttl, Limiter!Fallback, Limiter!hist

-----------------------------------------------------------------------------
(* A window of limiter l ended between a and b ticks ago, by a timer or, e
   ticks ago, by itself. *)
Between(l, e, a, b) == \E x \in forgotten[l] \cup {e} : a <= x /\ x < b

(* No window ended by itself less than a window ago but, at most, one, e ticks
   ago.  It has no first request in the stretch; of two requests of the same
   number a window ended after the older; and a number that the present window
   has not given was given before a window ended. *)
Epochs(l, e) ==
  /\ Limiter!Live(l) => e >= Windows[l] - entry[l].left
  /\ \A x \in passed[l] : x[2] = 1 => x[1] <= e
  /\ \A x, y \in passed[l] : x[2] = y[2] /\ x[1] < y[1] => Between(l, e, x[1], y[1])
  /\ \A x \in passed[l] : ~Limiter!Live(l) \/ x[2] > entry[l].count => Between(l, e, 0, x[1])

(* The first request of the present window is the youngest that was first. *)
Firsts(l) ==
  Limiter!Live(l) => \A x \in passed[l] : x[2] = 1 => x[1] >= Windows[l] - entry[l].left

Separated == \A l \in Limiter!Limiters : Firsts(l) /\ \E e \in 0 .. Windows[l] : Epochs(l, e)

LEMMA CountSeparates ==
  ASSUME LimiterMaps, Recorded, NEW l \in Limiter!Limiters, Counts(l), Records(l),
         NEW e \in 0 .. Windows[l], Epochs(l, e), Firsts(l)
  PROVE  Firsts(l)' /\ Epochs(l, e)'
  <1> USE WindowsOK DEF Limiter!Live
  <1> DEFINE n == entry'[l].count
             hit == <<0, n>>
  <1>1. /\ entry[l].count \in 0 .. Limiter!Cap /\ entry[l].left \in Nat
        /\ n \in 1 .. Limiter!Cap
        /\ Limits[l] \in Nat /\ Limits[l] < Limiter!Cap
    BY CountsOK, UpOK, LimitsOK DEF LimiterMaps, Counters, Limiter!Never
  <1>2. CASE Limiter!Live(l)
    <2>1. n > 1 /\ n >= entry[l].count /\ entry'[l].left = entry[l].left /\ Limiter!Live(l)'
      <3>1. entry[l].count > 0
        BY <1>2 DEF LimiterMaps
      <3>2. 1 < Limiter!Cap
        BY LimiterParameters DEF Limits, Limiter!Cap, Limiter!Over
      <3> QED
        BY <1>1, <1>2, <3>1, <3>2, CountsOK, UpOK
    <2>2. n <= Limits[l] => n = entry[l].count + 1
      BY <1>1, <1>2, CountsOK, UpOK
    <2>3. \A x \in passed'[l] : x \in passed[l] \/ (x = hit /\ n <= Limits[l])
      BY <1>1 DEF Records, Recorded
    <2>4. \A x \in passed[l] : x[1] \in Ages(l) /\ x[2] \in 1 .. Limits[l]
      BY DEF Recorded
    <2>5. hit[1] = 0 /\ hit[2] = n
      OBVIOUS
    <2>6. \A a, b : Between(l, e, a, b)' <=> Between(l, e, a, b)
      BY DEF Between, Records
    <2> HIDE DEF hit, n
    <2>7. Firsts(l)'
      BY <1>2, <2>1, <2>3, <2>5 DEF Firsts, n
    <2>8. (Limiter!Live(l) => e >= Windows[l] - entry[l].left)'
      BY <1>2, <2>1 DEF Epochs
    <2>9. \A x \in passed'[l] : x[2] = 1 => x[1] <= e
      BY <2>1, <2>3, <2>5 DEF Epochs
    <2>10. ASSUME NEW x \in passed'[l], NEW y \in passed'[l], x[2] = y[2], x[1] < y[1]
           PROVE  Between(l, e, x[1], y[1])
      <3>1. y \in passed[l]
        BY <1>1, <2>3, <2>4, <2>5, <2>10 DEF Ages
      <3>2. CASE x \in passed[l]
        BY <2>10, <3>1, <3>2 DEF Epochs
      <3>3. CASE x = hit /\ n <= Limits[l]
        <4>1. y[2] > entry[l].count
          BY <1>1, <2>2, <2>5, <2>10, <3>3
        <4> QED
          BY <2>5, <3>1, <3>3, <4>1 DEF Epochs
      <3> QED
        BY <2>3, <3>2, <3>3
    <2>11. ASSUME NEW x \in passed'[l], x[2] > n
           PROVE  Between(l, e, 0, x[1])
      <3>1. x \in passed[l]
        BY <1>1, <2>3, <2>5, <2>11
      <3>2. x[2] > entry[l].count
        BY <1>1, <2>1, <2>4, <2>11, <3>1
      <3> QED
        BY <3>1, <3>2 DEF Epochs
    <2> QED
      BY <2>1, <2>6, <2>7, <2>8, <2>9, <2>10, <2>11 DEF Epochs, n
  <1>3. CASE ~Limiter!Live(l)
    <2>1. n = 1 /\ entry'[l].left = Windows[l]
      BY <1>3, CountsOK
    <2>2. passed'[l] \subseteq passed[l] \cup {<<0, 1>>}
      BY <2>1 DEF Records, Recorded
    <2>3. \A x \in passed'[l] : x \in passed[l] \/ (x[1] = 0 /\ x[2] = 1)
      BY <2>2
    <2>4. \A x \in passed[l] : x[1] \in Ages(l) /\ x[2] \in 1 .. Limits[l]
      BY DEF Recorded
    <2>5. \A a, b : Between(l, e, a, b)' <=> Between(l, e, a, b)
      BY DEF Between, Records
    <2> HIDE DEF n
    <2>6. Firsts(l)'
      BY <2>1, <2>3, <2>4 DEF Firsts, Ages
    <2>7. (Limiter!Live(l) => e >= Windows[l] - entry[l].left)'
      BY <2>1
    <2>8. \A x \in passed'[l] : x[2] = 1 => x[1] <= e
      BY <2>3 DEF Epochs
    <2>9. ASSUME NEW x \in passed'[l], NEW y \in passed'[l], x[2] = y[2], x[1] < y[1]
          PROVE  Between(l, e, x[1], y[1])
      <3>1. y \in passed[l]
        BY <2>3, <2>4, <2>9 DEF Ages
      <3>2. CASE x \in passed[l]
        BY <2>9, <3>1, <3>2 DEF Epochs
      <3>3. CASE x[1] = 0
        BY <1>3, <3>1, <3>3 DEF Epochs
      <3> QED
        BY <2>3, <3>2, <3>3
    <2>10. ASSUME NEW x \in passed'[l], x[2] > n
           PROVE  Between(l, e, 0, x[1])
      <3>1. x \in passed[l]
        BY <2>1, <2>3, <2>10
      <3> QED
        BY <1>3, <3>1 DEF Epochs
    <2>11. Limiter!Live(l)'
      BY <2>1
    <2> QED
      BY <2>5, <2>6, <2>7, <2>8, <2>9, <2>10, <2>11 DEF Epochs, n
  <1> QED
    BY <1>2, <1>3

(* What ended a window is a tick further away, unless it is out of sight. *)
LEMMA BetweenTick ==
  ASSUME Recorded, Limiter!Tick, NEW l \in Limiter!Limiters, NEW e \in 0 .. Windows[l],
         NEW e2, e < Windows[l] => e2 = e + 1,
         NEW a \in Nat, NEW b \in Ages(l), b + 1 \in Ages(l), Between(l, e, a, b)
  PROVE  Between(l, e2, a + 1, b + 1)'
  <1> USE WindowsOK
  <1>1. PICK x \in forgotten[l] \cup {e} : a <= x /\ x < b
    BY DEF Between
  <1>2. x + 1 \in forgotten'[l] \cup {e2}
    <2>1. CASE x = e
      BY <1>1, <2>1 DEF Ages
    <2>2. CASE x \in forgotten[l]
      <3>1. x + 2 < Windows[l]
        BY <1>1, <2>2 DEF Ages, Recorded
      <3> QED
        BY <2>2, <3>1, ForgetsOK DEF Limiter!Tick
    <2> QED
      BY <2>1, <2>2
  <1>3. x \in Int
    BY DEF Recorded, Ages
  <1>4. a + 1 <= x + 1 /\ x + 1 < b + 1
    BY <1>1, <1>3 DEF Ages
  <1> QED
    BY <1>2, <1>4 DEF Between

LEMMA TickSeparates ==
  ASSUME LimiterMaps, Recorded, Limiter!Tick, NEW l \in Limiter!Limiters,
         NEW e \in 0 .. Windows[l], Epochs(l, e), Firsts(l)
  PROVE  Firsts(l)' /\ \E d \in 0 .. Windows[l] : Epochs(l, d)'
  <1> USE WindowsOK DEF Limiter!Live
  <1> DEFINE old(x) == <<x[1] - 1, x[2]>>
  <1>0. entry[l].left \in Nat
    BY DEF LimiterMaps, Counters
  <1>e. PICK e2 \in 0 .. Windows[l] :
           e2 = IF entry[l].left = 1 THEN 0 ELSE IF e < Windows[l] THEN e + 1 ELSE e
    OBVIOUS
  <1>1. \A x \in passed'[l] :
          /\ x[1] \in Ages(l) /\ x[1] > 0 /\ x[2] \in 1 .. Limits[l]
          /\ x[1] - 1 \in Ages(l) /\ old(x) \in passed[l]
    <2>1. passed[l] \subseteq Ages(l) \X (1 .. Limits[l])
      BY DEF Recorded
    <2>2. TAKE x \in passed'[l]
    <2>3. x \in Limiter!Older(passed)[l]
      BY DEF Limiter!Tick
    <2>4. x \in Ages(l) \X (1 .. Limits[l]) /\ x[1] > 0 /\ old(x) \in passed[l]
      BY <2>1, <2>3, OlderOK
    <2>5. x[1] - 1 \in Ages(l)
      BY <2>4 DEF Ages
    <2> QED
      BY <2>4, <2>5
  <1>2. \A x \in passed'[l] : old(x)[1] = x[1] - 1 /\ old(x)[2] = x[2]
    OBVIOUS
  <1>3. entry'[l] = IF 1 \in timers[l] THEN Limiter!NoCounter
                    ELSE [count |-> entry[l].count, left |-> Limiter!Less(entry[l].left)]
    BY TickMaps
  <1>4. Limiter!Live(l)' => /\ entry[l].left > 1 /\ entry'[l].left = entry[l].left - 1
                            /\ entry'[l].count = entry[l].count /\ 1 \notin timers[l]
    BY <1>0, <1>3 DEF Limiter!NoCounter, Limiter!Less
  <1> HIDE DEF old
  <1>5. Firsts(l)'
    <2> SUFFICES ASSUME Limiter!Live(l)', NEW x \in passed'[l], x[2] = 1
                 PROVE  x[1] >= Windows[l] - entry'[l].left
      BY DEF Firsts
    <2>1. old(x)[1] >= Windows[l] - entry[l].left
      BY <1>0, <1>1, <1>2, <1>4 DEF Firsts
    <2> QED
      BY <1>0, <1>1, <1>2, <1>4, <2>1 DEF Ages
  <1>6. (Limiter!Live(l) => e2 >= Windows[l] - entry[l].left)'
    BY <1>0, <1>e, <1>4 DEF Epochs
  (* Once a window has run out, no first request is left, nor what ended before. *)
  <1>7. entry[l].left = 1 => e >= Windows[l] - 1 /\ \A x \in passed'[l] : x[2] # 1
    <2> SUFFICES ASSUME entry[l].left = 1
                 PROVE  e >= Windows[l] - 1 /\ \A x \in passed'[l] : x[2] # 1
      OBVIOUS
    <2>1. e >= Windows[l] - 1
      BY DEF Epochs
    <2>2. ASSUME NEW x \in passed'[l], x[2] = 1 PROVE FALSE
      <3>1. old(x)[1] >= Windows[l] - 1
        BY <1>1, <1>2, <2>2 DEF Firsts
      <3> QED
        BY <1>1, <1>2, <2>2, <3>1 DEF Ages
    <2> QED
      BY <2>1, <2>2
  <1>8. ASSUME NEW x \in passed'[l], x[2] = 1 PROVE x[1] <= e2
    <2>1. entry[l].left # 1
      BY <1>7, <1>8
    <2>2. old(x)[1] <= e
      BY <1>1, <1>2, <1>8 DEF Epochs
    <2> QED
      BY <1>e, <1>1, <1>2, <2>1, <2>2 DEF Ages
  <1>9. ASSUME NEW a \in Nat, NEW b \in Ages(l), b + 1 \in Ages(l), Between(l, e, a, b)
        PROVE  Between(l, e2, a + 1, b + 1)'
    <2>1. CASE entry[l].left # 1
      <3>1. e < Windows[l] => e2 = e + 1
        BY <1>e, <2>1
      <3> QED
        BY <1>9, <3>1, BetweenTick
    <2>2. CASE entry[l].left = 1
      <3>1. PICK x \in forgotten[l] : a <= x /\ x < b
        BY <1>7, <1>9, <2>2 DEF Between, Ages
      <3>2. x + 2 < Windows[l] /\ x \in Int
        BY <1>9, <3>1 DEF Ages, Recorded
      <3>3. x + 1 \in forgotten'[l]
        BY <3>1, <3>2, ForgetsOK DEF Limiter!Tick
      <3> QED
        BY <1>9, <3>1, <3>2, <3>3 DEF Between, Ages
    <2> QED
      BY <2>1, <2>2
  <1>10. ASSUME NEW x \in passed'[l], NEW y \in passed'[l], x[2] = y[2], x[1] < y[1]
         PROVE  Between(l, e2, x[1], y[1])'
    <2>1. old(x)[1] < old(y)[1]
      BY <1>1, <1>2, <1>10 DEF Ages
    <2>2. Between(l, e, x[1] - 1, y[1] - 1)
      BY <1>1, <1>2, <1>10, <2>1 DEF Epochs
    <2>3. x[1] - 1 \in Nat /\ x[1] - 1 + 1 = x[1] /\ y[1] - 1 + 1 = y[1]
      BY <1>1 DEF Ages
    <2> QED
      BY <1>1, <1>9, <2>2, <2>3
  <1>11. ASSUME NEW x \in passed'[l], ~Limiter!Live(l)' \/ x[2] > entry'[l].count
         PROVE  Between(l, e2, 0, x[1])'
    <2>1. CASE entry[l].left = 1
      BY <1>e, <1>1, <2>1 DEF Between, Ages
    <2>2. CASE entry[l].left > 1 /\ 1 \in timers[l]
      <3>1. 0 \in forgotten'[l]
        BY <2>2, ForgetsOK DEF Limiter!Tick
      <3> QED
        BY <1>1, <3>1 DEF Between, Ages
    <2>3. CASE entry[l].left # 1 /\ ~(entry[l].left > 1 /\ 1 \in timers[l])
      <3>1. ~Limiter!Live(l) \/ x[2] > entry[l].count
        BY <1>0, <1>3, <1>11, <2>3 DEF Limiter!Less
      <3>2. Between(l, e, 0, x[1] - 1)
        BY <1>1, <1>2, <3>1 DEF Epochs
      <3>3. x[1] - 1 + 1 = x[1] /\ 0 + 1 = 1
        BY <1>1 DEF Ages
      <3>4. Between(l, e2, 1, x[1])'
        BY <1>1, <1>9, <3>2, <3>3
      <3>5. forgotten'[l] \subseteq Ages(l)
        BY ForgetsOK DEF Limiter!Tick
      <3> QED
        BY <1>1, <3>4, <3>5 DEF Between, Ages
    <2> QED
      BY <1>0, <2>1, <2>2, <2>3
  <1>12. Epochs(l, e2)'
    BY <1>6, <1>8, <1>10, <1>11 DEF Epochs
  <1> QED
    BY <1>0, <1>5, <1>12

-----------------------------------------------------------------------------
(* Some time is the latest of those before a. *)
LEMMA Latest ==
  ASSUME NEW D \in SUBSET Int, -1 \in D, NEW a \in Nat
  PROVE  \E b \in D : b < a /\ \A c \in D : c < a => c <= b
  <1> DEFINE R == {a - c : c \in {d \in D : d < a}}
             less == OpToRel(<, Nat)
  <1>1. R \in SUBSET Nat /\ a - (-1) \in R
    OBVIOUS
  <1>2. \E n \in R : \A i \in R : <<i, n>> \notin less
    BY <1>1, NatLessThanWellFounded, WFMin
  <1>3. \A i, n \in Nat : i < n => <<i, n>> \in less
    BY DEF OpToRel
  <1> HIDE DEF less
  <1>4. PICK n \in R : \A i \in R : <<i, n>> \notin less
    BY <1>2
  <1>5. PICK b \in D : b < a /\ n = a - b
    BY <1>4
  <1>6. ASSUME NEW c \in D, c < a PROVE c <= b
    <2>1. a - c \in R
      BY <1>6
    <2>2. ~(a - c < n)
      BY <1>1, <1>3, <1>4, <2>1
    <2> QED
      BY <1>5, <2>2
  <1> QED
    BY <1>5, <1>6

(* The size of a set with an element more, and less. *)
LEMMA OneMore ==
  ASSUME NEW S, IsFiniteSet(S), NEW x
  PROVE  /\ IsFiniteSet(S \cup {x})
         /\ Cardinality(S \cup {x}) <= Cardinality(S) + 1
  <1>1. Cardinality(S) \in Nat
    BY FS_CardinalityType
  <1>2. IsFiniteSet(S \cup {x})
    BY FS_AddElement
  <1>3. Cardinality(S \cup {x}) = IF x \in S THEN Cardinality(S) ELSE Cardinality(S) + 1
    BY FS_AddElement
  <1>4. Cardinality(S \cup {x}) = Cardinality(S) \/ Cardinality(S \cup {x}) = Cardinality(S) + 1
    BY <1>3, Zenon
  <1> QED
    BY <1>1, <1>2, <1>4

(* At most M requests are let through in each window: those of |F| windows
   that timers ended, the one that ended by itself, and the last. *)
LEMMA PassedBound ==
  ASSUME NEW M \in Nat \ {0}, NEW W \in Nat \ {0},
         NEW P \in SUBSET ((0 .. W - 1) \X (1 .. M)), NEW F \in SUBSET (0 .. W - 1),
         NEW e \in 0 .. W,
         \A x \in P : x[2] = 1 => x[1] <= e,
         \A x, y \in P : x[2] = y[2] /\ x[1] < y[1] => \E b \in F \cup {e} : x[1] <= b /\ b < y[1]
  PROVE  Cardinality(P) < (2 + Cardinality(F)) * M
  <1> DEFINE D == (F \cup {e}) \cup {-1}
             last(a) == CHOOSE b \in D : b < a /\ \A c \in D : c < a => c <= b
             T == (D \X (1 .. M)) \ {<<e, 1>>}
             f == [x \in P |-> <<last(x[1]), x[2]>>]
  <1>1. D \in SUBSET Int
    OBVIOUS
  <1>2. \A a \in Nat : last(a) \in D /\ last(a) < a /\ \A c \in D : c < a => c <= last(a)
    <2> HIDE DEF D
    <2>1. -1 \in D
      BY DEF D
    <2>2. \A a \in Nat : \E b \in D : b < a /\ \A c \in D : c < a => c <= b
      BY <1>1, <2>1, Latest
    <2> QED
      BY <2>2
  <1>3. \A x \in P : x[1] \in Nat /\ x[2] \in 1 .. M /\ x = <<x[1], x[2]>>
    OBVIOUS
  <1>4. F \cup {e} \subseteq D
    OBVIOUS
  <1> HIDE DEF D, last
  <1>5. ASSUME NEW x \in P PROVE f[x] \in T
    <2>1. f[x] = <<last(x[1]), x[2]>> /\ f[x] \in D \X (1 .. M)
      BY <1>2, <1>3
    <2>2. f[x] # <<e, 1>>
      <3> SUFFICES ASSUME last(x[1]) = e, x[2] = 1 PROVE FALSE
        BY <2>1
      <3>1. x[1] <= e /\ e < x[1]
        BY <1>2, <1>3
      <3> QED
        BY <1>3, <3>1
    <2> QED
      BY <2>1, <2>2
  <1>6. ASSUME NEW x \in P, NEW y \in P, f[x] = f[y], x[1] < y[1] PROVE FALSE
    <2>1. last(x[1]) = last(y[1]) /\ x[2] = y[2]
      BY <1>6
    <2>2. PICK b \in F \cup {e} : x[1] <= b /\ b < y[1]
      BY <1>6, <2>1
    <2>3. b <= last(y[1])
      BY <1>2, <1>3, <1>4, <2>2
    <2>4. last(x[1]) < x[1]
      BY <1>2, <1>3
    <2>5. b \in Int
      BY <1>1, <1>4
    <2>6. x[1] \in Nat /\ y[1] \in Nat
      BY <1>3
    <2>7. last(x[1]) \in Int
      BY <1>1, <1>2, <2>6
    <2> QED
      BY <2>1, <2>2, <2>3, <2>4, <2>5, <2>6, <2>7
  <1>7. f \in Injection(P, T)
    <2>1. f \in [P -> T]
      BY <1>5
    <2>2. ASSUME NEW x \in P, NEW y \in P, f[x] = f[y] PROVE x = y
      <3>1. x[2] = y[2]
        BY <2>2
      <3>2. x[1] = y[1]
        BY <1>3, <1>6, <2>2
      <3> QED
        BY <1>3, <3>1, <3>2
    <2> QED
      BY <2>1, <2>2 DEF Injection, IsInjective
  <1>8. IsFiniteSet(F) /\ Cardinality(F) \in Nat
    <2>1. IsFiniteSet(0 .. W - 1)
      BY FS_Interval
    <2> QED
      BY <2>1, FS_Subset, FS_CardinalityType
  <1>9. IsFiniteSet(D) /\ Cardinality(D) <= Cardinality(F) + 2 /\ Cardinality(D) \in Nat
    <2>1. IsFiniteSet(F \cup {e}) /\ Cardinality(F \cup {e}) <= Cardinality(F) + 1
      BY <1>8, OneMore
    <2>2. IsFiniteSet(D) /\ Cardinality(D) <= Cardinality(F \cup {e}) + 1
      BY <2>1, OneMore DEF D
    <2> QED
      BY <1>8, <2>1, <2>2, FS_CardinalityType
  <1>10. IsFiniteSet(1 .. M) /\ Cardinality(1 .. M) = M
    BY FS_Interval
  <1>11. IsFiniteSet(D \X (1 .. M)) /\ Cardinality(D \X (1 .. M)) = Cardinality(D) * M
    BY <1>9, <1>10, FS_Product
  <1>12. IsFiniteSet(T) /\ Cardinality(T) = Cardinality(D) * M - 1
    <2>1. <<e, 1>> \in D \X (1 .. M)
      BY <1>4
    <2>2. IsFiniteSet(T)
      BY <1>11, FS_RemoveElement
    <2>3. Cardinality(T) = IF <<e, 1>> \in D \X (1 .. M) THEN Cardinality(D \X (1 .. M)) - 1
                           ELSE Cardinality(D \X (1 .. M))
      BY <1>11, FS_RemoveElement
    <2>4. Cardinality(T) = Cardinality(D \X (1 .. M)) - 1
      BY <2>1, <2>3, Zenon
    <2> QED
      BY <1>11, <2>2, <2>4, Zenon
  <1>13. Cardinality(P) <= Cardinality(T)
    BY <1>7, <1>12, FS_Injection
  <1>14. IsFiniteSet(P)
    BY <1>7, <1>12, FS_Injection
  <1>15. Cardinality(D) * M <= (2 + Cardinality(F)) * M
    BY <1>8, <1>9
  <1> QED
    <2> HIDE DEF T
    <2>1. Cardinality(P) \in Nat /\ Cardinality(D) * M \in Int /\ (2 + Cardinality(F)) * M \in Int
      BY <1>8, <1>9, <1>14, FS_CardinalityType
    <2> QED
      BY <2>1, <1>12, <1>13, <1>15

(* A set of requests with the numbers 1 to M + 1 has more than M. *)
LEMMA NumbersBound ==
  ASSUME NEW M \in Nat, NEW W \in Nat \ {0}, NEW N, IsFiniteSet(N),
         NEW S \in SUBSET ((0 .. W - 1) \X N),
         \A n \in 1 .. M + 1 : \E a \in (0 .. W - 1) : <<a, n>> \in S
  PROVE  Cardinality(S) > M
  <1> DEFINE g == [n \in 1 .. M + 1 |-> <<CHOOSE a \in (0 .. W - 1) : <<a, n>> \in S, n>>]
  <1>1. \A n \in 1 .. M + 1 : g[n] \in S /\ g[n][2] = n
    OBVIOUS
  <1>2. g \in Injection(1 .. M + 1, S)
    <2>1. g \in [1 .. M + 1 -> S]
      BY <1>1
    <2> HIDE DEF g
    <2> QED
      BY <1>1, <2>1 DEF Injection, IsInjective
  <1>3. IsFiniteSet(S)
    <2>1. IsFiniteSet(0 .. W - 1)
      BY FS_Interval
    <2> QED
      BY <2>1, FS_Product, FS_Subset
  <1>4. Cardinality(1 .. M + 1) = M + 1
    BY FS_Interval
  <1>5. Cardinality(1 .. M + 1) <= Cardinality(S)
    BY <1>2, <1>3, FS_Injection
  <1> QED
    BY <1>3, <1>4, <1>5, FS_CardinalityType

-----------------------------------------------------------------------------
(* The present window has given its numbers within the time it has run. *)
Numbered ==
  \A l \in Limiter!Limiters : Limiter!Live(l) =>
    \A n \in 1 .. entry[l].count : \E a \in 0 .. Windows[l] - entry[l].left : <<a, n>> \in seen[l]

LEMMA CountNumbers ==
  ASSUME LimiterMaps, Recorded, Numbered, NEW l \in Limiter!Limiters, Counts(l), Records(l)
  PROVE  Numbered'
  <1> USE WindowsOK DEF Limiter!Live
  <1>1. ASSUME NEW k \in Limiter!Limiters, k # l, entry'[k].left > 0, NEW n \in 1 .. entry'[k].count
        PROVE  \E a \in 0 .. Windows[k] - entry'[k].left : <<a, n>> \in seen'[k]
    <2>1. entry'[k] = entry[k] /\ seen'[k] = seen[k]
      BY <1>1, CountsOK DEF Records, Recorded
    <2> QED
      BY <1>1, <2>1 DEF Numbered
  <1>2. ASSUME NEW n \in 1 .. entry'[l].count, entry'[l].left > 0
        PROVE  \E a \in 0 .. Windows[l] - entry'[l].left : <<a, n>> \in seen'[l]
    <2>1. <<0, entry'[l].count>> \in seen'[l] /\ seen[l] \subseteq seen'[l]
      BY DEF Records, Recorded
    <2>2. 0 \in 0 .. Windows[l] - entry'[l].left /\ entry[l].left \in Nat
      <3>1. entry'[l].left = IF Limiter!Live(l) THEN entry[l].left ELSE Windows[l]
        BY CountsOK
      <3>2. entry[l].left <= Windows[l] /\ entry[l].left \in Nat
        BY DEF LimiterMaps, Counters
      <3> QED
        BY <3>1, <3>2
    <2>3. CASE n = entry'[l].count
      BY <2>1, <2>2, <2>3
    <2>4. CASE n # entry'[l].count
      <3>1. entry[l].left > 0 /\ entry'[l].left = entry[l].left /\ n \in 1 .. entry[l].count
        BY <1>2, <2>4, CountsOK, UpOK DEF LimiterMaps, Counters
      <3>2. PICK a \in 0 .. Windows[l] - entry[l].left : <<a, n>> \in seen[l]
        BY <3>1 DEF Numbered
      <3> QED
        BY <2>1, <3>1, <3>2
    <2> QED
      BY <2>3, <2>4
  <1> QED
    BY <1>1, <1>2 DEF Numbered

LEMMA TickNumbers == ASSUME LimiterMaps, Recorded, Numbered, Limiter!Tick PROVE Numbered'
  <1> USE WindowsOK DEF Limiter!Live
  <1> SUFFICES ASSUME NEW l \in Limiter!Limiters, entry'[l].left > 0, NEW n \in 1 .. entry'[l].count
               PROVE  \E a \in 0 .. Windows[l] - entry'[l].left : <<a, n>> \in seen'[l]
    BY DEF Numbered
  <1>0. entry[l].left \in Nat
    BY DEF LimiterMaps, Counters
  <1>t. entry'[l] = IF 1 \in timers[l] THEN Limiter!NoCounter
                    ELSE [count |-> entry[l].count, left |-> Limiter!Less(entry[l].left)]
    BY TickMaps
  <1>1. entry[l].left > 1 /\ entry'[l].left = entry[l].left - 1 /\ entry'[l].count = entry[l].count
    BY <1>0, <1>t DEF Limiter!NoCounter, Limiter!Less
  <1>n. n \in 1 .. entry[l].count
    BY <1>1
  <1>2. PICK a \in 0 .. Windows[l] - entry[l].left : <<a, n>> \in seen[l]
    BY <1>0, <1>1, <1>n DEF Numbered
  <1>3. a \in Ages(l) /\ a + 1 \in Ages(l)
    BY <1>0, <1>1, <1>2 DEF Ages
  <1>4. <<a + 1, n>> \in seen'[l]
    BY <1>2, <1>3, OlderMore DEF Limiter!Tick
  <1>5. a + 1 \in 0 .. Windows[l] - entry'[l].left
    BY <1>0, <1>1, <1>2
  <1> QED
    BY <1>4, <1>5

LEMMA SeparatedStep ==
  ASSUME LimiterCtl, LimiterMaps, Recorded, mode = "memory", ~commandsFail,
         Separated, Numbered, Limiter!Next
  PROVE  Separated' /\ Numbered'
  <1>1. ASSUME NEW r \in Reqs, Limiter!InMemory(r) PROVE Separated' /\ Numbered'
    <2>1. PICK l \in Limiter!Limiters : Counts(l) /\ Records(l)
      BY <1>1, InMemoryRecords
    <2>2. Numbered'
      BY <2>1, CountNumbers
    <2>3. Firsts(l)' /\ \E e \in 0 .. Windows[l] : Epochs(l, e)'
      BY <2>1, CountSeparates DEF Separated
    <2>4. ASSUME NEW k \in Limiter!Limiters, k # l
          PROVE  Firsts(k)' /\ \E e \in 0 .. Windows[k] : Epochs(k, e)'
      <3>1. entry'[k] = entry[k] /\ passed'[k] = passed[k] /\ forgotten'[k] = forgotten[k]
        BY <2>1, <2>4, CountsOK DEF Records, Recorded
      <3>2. Firsts(k) /\ \E e \in 0 .. Windows[k] : Epochs(k, e)
        BY DEF Separated
      <3> QED
        BY <3>1, <3>2 DEF Firsts, Epochs, Between, Limiter!Live
    <2> QED
      BY <2>2, <2>3, <2>4 DEF Separated
  <1>2. CASE Limiter!Tick
    BY <1>2, TickSeparates, TickNumbers DEF Separated
  <1>3. CASE UNCHANGED <<entry, seen, passed, forgotten>>
    BY <1>3 DEF Separated, Numbered, Firsts, Epochs, Between, Limiter!Live
  <1>4. ASSUME NEW r \in Reqs, NEW l \in Limiter!Limiters, Limiter!Arrive(r, l)
        PROVE  UNCHANGED <<entry, seen, passed, forgotten>>
    BY <1>4 DEF Limiter!Arrive, Limiter!map, Limiter!hist
  <1>5. ASSUME NEW r \in Reqs, Limiter!Incr(r) \/ Limiter!ExpireKey(r) \/ Limiter!Pttl(r)
        PROVE  UNCHANGED <<entry, seen, passed, forgotten>>
    BY <1>5 DEF Limiter!Incr, Limiter!ExpireKey, Limiter!Pttl, Limiter!map, Limiter!hist
  <1>6. \A r \in Reqs : ~Limiter!Fallback(r)
    BY DEF Limiter!Fallback
  <1> QED
    BY <1>1, <1>2, <1>3, <1>4, <1>5, <1>6 DEF Limiter!Next, Limiter!Step

(* A counter without an end has its EXPIRE to come. *)
LEMMA WearsOffStep ==
  ASSUME LimiterCtl, SharedOK, Limiter!LimitWearsOff, Limiter!Next
  PROVE  Limiter!LimitWearsOff'
  <1> USE WindowsOK DEF LimiterCtl
  <1>0. commandsFail' = commandsFail
    BY DEF Limiter!Next, Limiter!Arrive, Limiter!Step, Limiter!InMemory, Limiter!Incr, Limiter!ExpireKey,
       Limiter!Pttl, Limiter!Fallback, Limiter!Tick, Limiter!ctl
  <1> SUFFICES ASSUME ~commandsFail, shared'.left = Limiter!Never
               PROVE  \E r \in Reqs : requestAt'[r] = "expire"
    BY <1>0 DEF Limiter!LimitWearsOff
  <1>1. ASSUME NEW r \in Reqs, Limiter!Incr(r), shared.count = 0 PROVE requestAt'[r] = "expire"
    <2>1. Limiter!Up(shared.count) = 1
      BY <1>1, LimitsOK DEF Limiter!Up, Limiter!Cap, Limiter!Over, Limits
    <2> QED
      BY <1>1, <2>1 DEF Limiter!Incr
  <1>2. ASSUME NEW r \in Reqs, Limiter!ExpireKey(r) PROVE FALSE
    BY <1>2 DEF Limiter!ExpireKey, Limiter!Never, SharedOK, Counters
  <1>3. CASE /\ \A r \in Reqs : ~Limiter!ExpireKey(r)
             /\ \A r \in Reqs : ~(Limiter!Incr(r) /\ shared.count = 0)
    <2>1. shared.left = Limiter!Never
      <3>1. CASE Limiter!Tick
        BY <3>1 DEF Limiter!Tick, Limiter!NoCounter, Limiter!Never, SharedOK, Counters
      <3>2. ASSUME NEW r \in Reqs, Limiter!Incr(r) PROVE shared.left = Limiter!Never
        <4>1. shared.count \in 0 .. Limiter!Cap /\ shared.count # 0
          BY <1>3, <3>2 DEF SharedOK, Counters
        <4>2. Limiter!Up(shared.count) # 1
          BY <4>1, LimitsOK DEF Limiter!Up, Limiter!Cap, Limiter!Over, Limits
        <4> QED
          BY <3>2, <4>2 DEF Limiter!Incr
      <3>3. CASE UNCHANGED shared
        BY <3>3
      <3>4. \A r \in Reqs : ~Limiter!Fallback(r)
        BY DEF Limiter!Fallback
      <3> QED
        BY <1>3, <3>1, <3>2, <3>3, <3>4 DEF Limiter!Next, Limiter!Step, Limiter!Arrive, Limiter!InMemory,
           Limiter!Pttl
    <2>2. PICK q \in Reqs : requestAt[q] = "expire"
      BY <2>1 DEF Limiter!LimitWearsOff
    <2>3. requestAt'[q] = "expire"
      <3>1. \A r \in Reqs : ~Limiter!Fallback(r)
        BY DEF Limiter!Fallback
      <3>2. ASSUME NEW r \in Reqs, NEW n, Limiter!Decide(r, n), requestAt[r] # "expire"
            PROVE  requestAt'[q] = "expire"
        BY <2>2, <3>2 DEF Limiter!Decide, Limiter!Ask, Limiter!Leave
      <3>3. ASSUME NEW r \in Reqs, Limiter!InMemory(r) \/ Limiter!Pttl(r)
            PROVE  requestAt'[q] = "expire"
        BY <3>2, <3>3 DEF Limiter!InMemory, Limiter!Pttl, Limiter!Count
      <3>4. ASSUME NEW r \in Reqs, Limiter!Incr(r)
            PROVE  requestAt'[q] = "expire"
        BY <2>2, <3>4 DEF Limiter!Incr
      <3>5. ASSUME NEW r \in Reqs, NEW l \in Limiter!Limiters, Limiter!Arrive(r, l)
            PROVE  requestAt'[q] = "expire"
        BY <2>2, <3>5 DEF Limiter!Arrive, Limiter!Ask
      <3>6. Limiter!Tick => requestAt'[q] = "expire"
        BY <2>2 DEF Limiter!Tick
      <3> QED
        BY <1>3, <3>1, <3>3, <3>4, <3>5, <3>6 DEF Limiter!Next, Limiter!Step
    <2> QED
      BY <2>3
  <1> QED
    BY <1>1, <1>2, <1>3

-----------------------------------------------------------------------------
(* The inductive invariant.  Separated and Numbered speak of the limiters
   without Redis; with it, no history is kept. *)
LimiterInv ==
  /\ LimiterCtl /\ HitsOK /\ SharedOK /\ LimiterMaps /\ Recorded
  /\ Limiter!LimitWearsOff
  /\ commandsFail \in BOOLEAN /\ (mode = "memory" => ~commandsFail)
  /\ mode = "memory" => Separated /\ Numbered
  /\ mode = "redis" => \A l \in Limiter!Limiters : passed[l] = {}

LEMMA LimiterFirst == Limiter!Init => LimiterInv
  <1> SUFFICES ASSUME Limiter!Init PROVE LimiterInv
    OBVIOUS
  <1> USE WindowsOK, LimitsOK DEF Limiter!Init
  <1>1. LimiterCtl /\ HitsOK
    BY DEF LimiterCtl, HitsOK, Limiter!Limiters
  <1>2. SharedOK /\ LimiterMaps
    BY DEF SharedOK, LimiterMaps, Counters, Limiter!NoCounter, Limiter!Never
  <1>3. Recorded
    BY DEF Recorded
  <1>4. Limiter!LimitWearsOff
    BY DEF Limiter!LimitWearsOff, Limiter!NoCounter
  <1>5. Separated
    <2> SUFFICES ASSUME NEW l \in Limiter!Limiters PROVE Firsts(l) /\ Epochs(l, Windows[l])
      BY DEF Separated
    <2>1. ~Limiter!Live(l) /\ passed[l] = {}
      BY DEF Limiter!Live, Limiter!NoCounter
    <2> QED
      BY <2>1 DEF Firsts, Epochs
  <1>6. Numbered
    BY DEF Numbered, Limiter!Live, Limiter!NoCounter
  <1>7. \A l \in Limiter!Limiters : passed[l] = {}
    OBVIOUS
  <1>8. commandsFail \in BOOLEAN /\ (mode = "memory" => ~commandsFail)
    OBVIOUS
  <1> QED
    BY <1>1, <1>2, <1>3, <1>4, <1>5, <1>6, <1>7, <1>8 DEF LimiterInv

LEMMA LimiterStep == ASSUME LimiterInv, Limiter!Next PROVE LimiterInv'
  <1>1. mode' = mode /\ commandsFail' = commandsFail
    BY DEF Limiter!Next, Limiter!Arrive, Limiter!Step, Limiter!InMemory, Limiter!Incr, Limiter!ExpireKey,
       Limiter!Pttl, Limiter!Fallback, Limiter!Tick, Limiter!ctl
  <1>2. LimiterCtl' /\ HitsOK'
    BY CtlStep DEF LimiterInv
  <1>3. SharedOK'
    BY SharedStep DEF LimiterInv
  <1>4. LimiterMaps'
    BY MapsStep DEF LimiterInv
  <1>5. Recorded'
    BY HistoryStep DEF LimiterInv
  <1>6. Limiter!LimitWearsOff'
    BY WearsOffStep DEF LimiterInv
  <1>7. mode = "memory" => Separated' /\ Numbered'
    BY SeparatedStep DEF LimiterInv
  <1>8. ASSUME mode = "redis", NEW l \in Limiter!Limiters PROVE passed'[l] = {}
    <2>1. passed[l] = {}
      BY <1>8 DEF LimiterInv
    <2>2. CASE Limiter!Tick
      BY <2>1, <2>2 DEF Limiter!Tick, Limiter!Older
    <2>3. CASE UNCHANGED passed
      BY <2>1, <2>3
    <2> QED
      BY <1>8, <2>2, <2>3 DEF Limiter!Next, Limiter!Step, Limiter!Arrive, Limiter!InMemory, Limiter!Incr,
         Limiter!ExpireKey, Limiter!Pttl, Limiter!Fallback, Limiter!hist
  <1> QED
    BY <1>1, <1>2, <1>3, <1>4, <1>5, <1>6, <1>7, <1>8 DEF LimiterInv

(* However requests, commands of Redis and timers interleave, the windows of a
   limiter are kept apart and their numbers are given one after the other. *)
THEOREM LimiterInvariance == Limiter!Spec => []LimiterInv
  <1>1. LimiterInv /\ UNCHANGED Limiter!vars => LimiterInv'
    <2> SUFFICES ASSUME LimiterInv, UNCHANGED Limiter!vars PROVE LimiterInv'
      OBVIOUS
    <2>1. UNCHANGED <<mode, commandsFail, entry, timers, shared, requestAt, lim, hits, seen, passed, forgotten>>
      BY DEF Limiter!vars, Limiter!ctl, Limiter!map, Limiter!hist
    <2>2. (LimiterCtl /\ HitsOK /\ SharedOK /\ LimiterMaps /\ Recorded)'
      BY <2>1 DEF LimiterInv, LimiterCtl, HitsOK, SharedOK, LimiterMaps, Recorded
    <2>3. Limiter!LimitWearsOff'
      BY <2>1 DEF LimiterInv, Limiter!LimitWearsOff
    <2>4. (Separated <=> Separated') /\ (Numbered <=> Numbered')
      BY <2>1 DEF Separated, Numbered, Firsts, Epochs, Between, Limiter!Live
    <2> QED
      BY <2>1, <2>2, <2>3, <2>4 DEF LimiterInv
  <1> QED
    BY <1>1, LimiterFirst, LimiterStep, PTL DEF Limiter!Spec

(* There are finitely many values a count can have. *)
LEMMA CapFinite == IsFiniteSet(1 .. Limiter!Cap)
  <1>1. Limiter!Cap \in Int
    BY LimitsOK
  <1>2. \A c \in Int : IsFiniteSet(1 .. c)
    BY FS_Interval
  <1> QED
    BY <1>1, <1>2, Zenon

(* The operator of FiniteSets under the name it has through the instance. *)
LEMMA SameCardinality == \A S : Limiter!Cardinality(S) = Cardinality(S)
  BY DEF Limiter!Cardinality, Cardinality

LEMMA LimiterBound == LimiterInv => Limiter!TypeOK /\ Limiter!Bounded
  <1> SUFFICES ASSUME LimiterInv PROVE Limiter!TypeOK /\ Limiter!Bounded
    OBVIOUS
  <1>1. Limiter!TypeOK
    <2>1. entry \in [Limiter!Limiters -> Counters]
      BY WindowsOK DEF LimiterInv, LimiterMaps, Counters
    <2> QED
      BY <2>1 DEF LimiterInv, LimiterCtl, HitsOK, SharedOK, LimiterMaps, Recorded, Ages, Counters,
         Limiter!TypeOK, Limiter!Counter, Limiter!Ages
  <1>2. ASSUME NEW l \in Limiter!Limiters
        PROVE  Cardinality(passed[l]) < (2 + Cardinality(forgotten[l])) * Limits[l]
    <2>1. /\ Limits[l] \in Nat \ {0} /\ Windows[l] \in Nat \ {0}
          /\ forgotten[l] \in SUBSET (0 .. Windows[l] - 1)
          /\ passed[l] \in SUBSET ((0 .. Windows[l] - 1) \X (1 .. Limits[l]))
      BY LimitsOK, WindowsOK DEF LimiterInv, Recorded, Ages
    <2>2. CASE mode = "memory"
      <3>1. PICK e \in 0 .. Windows[l] : Epochs(l, e)
        BY <2>2 DEF LimiterInv, Separated
      <3> QED
        BY <2>1, <3>1, PassedBound DEF Epochs, Between
    <2>3. CASE mode = "redis"
      <3>1. passed[l] = {}
        BY <2>3 DEF LimiterInv
      <3>2. 0 \in 0 .. Windows[l]
        BY WindowsOK
      <3> QED
        BY <2>1, <3>1, <3>2, PassedBound
    <2> QED
      BY <2>2, <2>3 DEF LimiterInv, LimiterCtl
  <1>3. Limiter!Bounded
    BY <1>2, SameCardinality DEF Limiter!Bounded
  <1> QED
    BY <1>1, <1>3

LEMMA OnlyAskedMoves ==
  ASSUME LimiterInv, Limiter!Next, NEW l \in Limiter!Limiters, Limiter!Asked(l)
  PROVE  Counts(l) /\ Records(l)
  <1> USE DEF LimiterInv, LimiterCtl
  <1>1. PICK r \in Reqs : requestAt[r] = "ask" /\ lim[r] = l /\ <<requestAt'[r], lim'[r]>> # <<"ask", l>>
    BY DEF Limiter!Asked
  <1>2. mode = "memory" /\ ~commandsFail
    BY DEF Limiter!Asked
  <1>3. ASSUME NEW q \in Reqs, q # r, NEW n, Limiter!Decide(q, n) PROVE FALSE
    BY <1>1, <1>3 DEF Limiter!Decide, Limiter!Ask, Limiter!Leave
  <1>4. ASSUME NEW q \in Reqs, NEW k \in Limiter!Limiters, Limiter!Arrive(q, k) PROVE FALSE
    BY <1>1, <1>4 DEF Limiter!Arrive, Limiter!Ask
  <1>5. ASSUME NEW q \in Reqs, Limiter!Pttl(q) PROVE FALSE
    BY <1>1, <1>3, <1>5 DEF Limiter!Pttl
  <1>6. ASSUME NEW q \in Reqs, Limiter!ExpireKey(q) PROVE FALSE
    BY <1>1, <1>6 DEF Limiter!ExpireKey
  <1>7. ~Limiter!Tick
    BY <1>1 DEF Limiter!Tick
  <1>8. \A q \in Reqs : ~Limiter!Incr(q) /\ ~Limiter!Fallback(q)
    BY <1>2 DEF Limiter!Incr, Limiter!Fallback
  <1>9. ASSUME NEW q \in Reqs, Limiter!InMemory(q) PROVE q = r
    BY <1>3, <1>9 DEF Limiter!InMemory, Limiter!Count
  <1>10. Limiter!InMemory(r)
    BY <1>4, <1>5, <1>6, <1>7, <1>8, <1>9 DEF Limiter!Next, Limiter!Step
  <1> QED
    BY <1>1, <1>10, InMemoryRecords

LEMMA RefusedOverLimit ==
  ASSUME LimiterInv, Limiter!Next, NEW l \in Limiter!Limiters, Limiter!Asked(l), passed'[l] = passed[l]
  PROVE  Cardinality(seen'[l]) > Limits[l]
  <1> USE WindowsOK
  <1> DEFINE n == entry'[l].count
  <1>1. Counts(l) /\ Records(l) /\ LimiterMaps /\ Recorded /\ Numbered /\ Separated
    BY OnlyAskedMoves DEF LimiterInv, Limiter!Asked
  <1>2. /\ entry[l].count \in 0 .. Limiter!Cap /\ entry[l].left \in Nat
        /\ n \in 1 .. Limiter!Cap
        /\ Limits[l] \in Nat /\ Limits[l] < Limiter!Cap
    BY <1>1, CountsOK, UpOK, LimitsOK DEF LimiterMaps, Counters
  <1>3. n > Limits[l]
    <2> SUFFICES ASSUME n <= Limits[l] PROVE FALSE
      BY <1>2
    <2>0. passed' = [passed EXCEPT ![l] = @ \cup {<<0, n>>}] /\ DOMAIN passed = Limiter!Limiters
      BY <1>1, <1>2 DEF Records, Recorded
    <2>1. <<0, n>> \in passed[l]
      <3> HIDE DEF n
      <3> QED
        BY <2>0
    <2>2. ~Limiter!Live(l) \/ n > entry[l].count
      BY <1>1, <1>2, CountsOK, UpOK
    <2>3. <<0, n>>[1] = 0 /\ <<0, n>>[2] = n
      OBVIOUS
    <2> HIDE DEF n
    <2>4. PICK e \in 0 .. Windows[l] : Epochs(l, e)
      BY <1>1 DEF Separated
    <2>5. Between(l, e, 0, <<0, n>>[1])
      BY <2>1, <2>2, <2>3, <2>4 DEF Epochs
    <2>6. PICK x \in forgotten[l] \cup {e} : 0 <= x /\ x < 0
      BY <2>3, <2>5 DEF Between
    <2>7. x \in Int
      BY <1>1 DEF Recorded, Ages
    <2> QED
      BY <2>6, <2>7
  <1>4. Limiter!Live(l)' /\ entry'[l].left \in 1 .. Windows[l]
    BY <1>1, <1>2, CountsOK DEF Limiter!Live, LimiterMaps, Counters
  <1>5. \A m \in 1 .. n : \E a \in 0 .. Windows[l] - entry'[l].left : <<a, m>> \in seen'[l]
    BY <1>1, <1>4, CountNumbers DEF Numbered
  <1>6. \A m \in 1 .. Limits[l] + 1 : \E a \in 0 .. Windows[l] - 1 : <<a, m>> \in seen'[l]
    BY <1>2, <1>3, <1>4, <1>5
  <1>7. /\ seen'[l] \in SUBSET ((0 .. Windows[l] - 1) \X (1 .. Limiter!Cap))
        /\ Windows[l] \in Nat \ {0}
    BY HistoryStep DEF LimiterInv, Recorded, Ages
  <1>8. IsFiniteSet(1 .. Limiter!Cap)
    BY CapFinite
  <1> QED
    BY <1>2, <1>6, <1>7, <1>8, NumbersBound

-----------------------------------------------------------------------------
(* The limiter takes no other steps beside the other services. *)
LEMMA LimiterAlone == ServicesSpec => Limiter!Spec
  <1>1. ServicesInit => Limiter!Init
    BY DEF ServicesInit
  <1>2. [ServicesNext]_<<service, fileVars, limiterVars, spamVars, loginVars>> => [Limiter!Next]_(Limiter!vars)
    BY DEF ServicesNext, limiterVars, Limiter!vars, Limiter!ctl, Limiter!map, Limiter!hist
  <1> QED
    BY <1>1, <1>2, PTL DEF ServicesSpec, Limiter!Spec

(* In any stretch of time as long as the window a limiter without Redis lets
   through less than twice its limit, and once its limit more for each running
   window that the deletion timer of an earlier one ended (InProcessStore). *)
THEOREM LimitsBind == ServicesSpec => []Bounded
  <1>1. LimiterInv => Bounded
    BY LimiterBound DEF Bounded
  <1> QED
    BY <1>1, LimiterAlone, LimiterInvariance, PTL

(* While commands succeed the counter of a client in Redis has an end, or the
   request that made it is about to give it one (RedisRateLimitStore). *)
THEOREM CountersEnd == ServicesSpec => []LimitWearsOff
  <1>1. LimiterInv => LimitWearsOff
    BY DEF LimiterInv, LimitWearsOff
  <1> QED
    BY <1>1, LimiterAlone, LimiterInvariance, PTL

(* A limiter without Redis refuses only a client that has asked more often than
   the limit within the last window. *)
THEOREM NobodyRefusedEarly == ServicesSpec => RefusedOnlyOverLimit
  <1>1. LimiterInv /\ [Limiter!Next]_(Limiter!vars)
          => [\A l \in Limiter!Limiters : Limiter!Asked(l) /\ passed'[l] = passed[l]
                => Limiter!Cardinality(seen'[l]) > Limits[l]]_(Limiter!vars)
    BY RefusedOverLimit, SameCardinality
  <1> QED
    BY <1>1, LimiterAlone, LimiterInvariance, PTL
       DEF RefusedOnlyOverLimit, Limiter!RefusedOnlyOverLimit, Limiter!Spec

=============================================================================
