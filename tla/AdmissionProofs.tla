--------------------------- MODULE AdmissionProofs ---------------------------
(***************************************************************************)
(* For any number of calls at once and all durations: the types of         *)
(* AntiSpam, that a ban lifted in the process stays lifted, and that every *)
(* ban ends; the types of Login, that an exchanged id is of no more use,   *)
(* and that admission, once lost, is lost for good soon after.  The        *)
(* behaviours are those of AntiSpam and of Login, as MCServices runs them  *)
(* beside the other services.                                              *)
(***************************************************************************)
EXTENDS MCServices, TLAPS

Untils == (-1 .. MaxBan) \cup {NaN}
Ages   == (0 .. MaxBan + 1) \cup {Unset}
Bans   == [until : Untils, age : Ages]

(* Control. *)
CtlOK ==
  /\ store \in {"memory", "redis"}
  /\ callAt \in [Procs -> {"idle", "check", "del", "read", "extend", "count", "create",
                           "expireMax", "expireBan"}]
  /\ callOp \in [Procs -> {"none", "request", "violation", "lift"}]
  /\ outcome \in [Procs -> {"none", "refused", "served", "both"}]

CountOK == counts \in [count : 0 .. Threshold + 1, left : 0 .. ViolationWindow]
FlagOK  == faults \in BOOLEAN /\ lifted \in BOOLEAN
BanOK   == ban \in Bans \cup {NoBan, Remnant}
TtlOK   == ttl \in (1 .. MaxBan) \cup {Unset}
NextOK  == next \in [Procs -> (0 .. MaxBan) \cup {NaN, Unset}]

(* What an extension under way will write does not reach beyond the maximum
   of the ban that it will find: no time passes between commands, and a ban
   that was made since is younger. *)
Writes ==
  \A c \in Procs : callAt[c] = "extend" =>
    /\ next[c] # Unset
    /\ (next[c] # NaN /\ Spam!HasEnd /\ ban.age # Unset) => next[c] + ban.age <= MaxBan

(* Without Redis a call is over in one turn of the event loop. *)
InMemory == store = "memory" => \A c \in Procs : callAt[c] \in {"idle", "check", "del"}

LEMMA FreshIsBan ==
  Spam!FreshBan \in Bans /\ Spam!FreshBan.until = BanTime /\ Spam!FreshBan.age = 0
  BY SpamParameters DEF Spam!FreshBan, Bans, Untils, Ages

LEMMA ExtendedIsCapped ==
  ASSUME BanOK, Spam!BanCapped, Spam!Running
  PROVE  /\ ban \in Bans
         /\ Spam!Extended \in (0 .. MaxBan) \cup {NaN}
         /\ ban.age = Unset => Spam!Extended = NaN
         /\ ban.age # Unset => Spam!Extended \in 0 .. MaxBan /\ Spam!Extended + ban.age <= MaxBan
  <1>1. Spam!HasEnd /\ ban.until # NaN /\ ban.until > 0 /\ ban \in Bans
    BY DEF Spam!Running, Spam!HasEnd, BanOK
  <1>2. ban.until \in 1 .. MaxBan
    BY SpamParameters, <1>1 DEF Bans, Untils
  <1>3. CASE ban.age = Unset
    BY <1>1, <1>3 DEF Spam!Extended
  <1>4. CASE ban.age # Unset
    <2>1. ban.age \in 0 .. MaxBan + 1
      BY <1>1, <1>4 DEF Bans, Ages
    <2>2. ban.until + ban.age <= MaxBan
      BY <1>1, <1>4 DEF Spam!BanCapped
    <2>3. Spam!Extended \in 0 .. MaxBan /\ Spam!Extended + ban.age <= MaxBan
      BY SpamParameters, <1>2, <1>4, <2>1, <2>2 DEF Spam!Extended
    <2> QED
      BY <1>1, <1>4, <2>3
  <1> QED
    BY <1>3, <1>4

(* What a step may do to the record of the ban. *)
LEMMA BanStep ==
  ASSUME Spam!Next
  PROVE  \/ ban' = ban
         \/ ban' = NoBan
         \/ ban' = Spam!FreshBan
         \/ Spam!Running /\ ban' = [ban EXCEPT !.until = Spam!Extended]
         \/ \E c \in Procs : Spam!Extend(c)
         \/ ban = NoBan /\ ban' = Remnant
         \/ Spam!Tick
  BY DEF Spam!Next, Spam!Step, Spam!Call, Spam!Report, Spam!RequestInMemory, Spam!Cleanup,
     Spam!GetBan, Spam!Del, Spam!ReadBan, Spam!CountViolation, Spam!CreateBan, Spam!SetTtl,
     Spam!Fail, Spam!rec

LEMMA TickBan ==
  ASSUME BanOK, Spam!BanCapped, Spam!Tick
  PROVE  BanOK' /\ Spam!BanCapped'
  <1>1. CASE ban = NoBan \/ ttl = 1
    <2>1. ban' = NoBan
      BY <1>1 DEF Spam!Tick
    <2> QED
      BY <2>1 DEF BanOK, Spam!BanCapped, Spam!HasEnd
  <1>2. CASE ban = Remnant /\ ttl # 1
    <2>1. ban' = NoBan \/ ban' = Remnant
      BY <1>2 DEF Spam!Tick
    <2> QED
      BY <2>1 DEF BanOK, Spam!BanCapped, Spam!HasEnd
  <1>3. CASE Spam!HasEnd /\ ttl # 1
    <2> DEFINE u == IF ban.until = NaN THEN NaN ELSE IF ban.until < 0 THEN -1 ELSE ban.until - 1
               a == IF ban.age = Unset THEN Unset ELSE IF ban.age > MaxBan THEN ban.age ELSE ban.age + 1
    <2>1. ban' = [until |-> u, age |-> a]
      BY <1>3 DEF Spam!Tick, Spam!HasEnd
    <2>2. ban \in Bans
      BY <1>3 DEF BanOK, Spam!HasEnd
    <2>3. ban.until \in Untils /\ ban.age \in Ages
      BY <2>2 DEF Bans
    <2>4. u \in Untils /\ a \in Ages
      BY SpamParameters, <2>3 DEF Untils, Ages
    <2>5. (u # NaN /\ a # Unset) => u + a <= MaxBan
      <3>1. SUFFICES ASSUME u # NaN, a # Unset PROVE u + a <= MaxBan
        OBVIOUS
      <3>2. ban.until # NaN /\ ban.age # Unset
        BY <3>1
      <3>3. ban.until \in -1 .. MaxBan /\ ban.age \in 0 .. MaxBan + 1
        BY <2>3, <3>2 DEF Untils, Ages
      <3>4. ban.until + ban.age <= MaxBan
        BY <1>3, <3>2 DEF Spam!BanCapped
      <3> QED
        BY SpamParameters, <3>2, <3>3, <3>4

    <2> HIDE DEF u, a
    <2>6. ban' \in Bans /\ ban'.until = u /\ ban'.age = a
      BY <2>1, <2>4 DEF Bans
    <2> QED
      BY <2>5, <2>6 DEF BanOK, Spam!BanCapped
  <1> QED
    BY <1>1, <1>2, <1>3 DEF Spam!HasEnd

LEMMA BanInv ==
  ASSUME BanOK, Spam!BanCapped, NextOK, Writes, Spam!Next
  PROVE  BanOK' /\ Spam!BanCapped'
  <1>1. CASE ban' = ban \/ ban' = NoBan \/ ban' = Remnant
    BY <1>1 DEF BanOK, Spam!BanCapped, Spam!HasEnd
  <1>2. CASE ban' = Spam!FreshBan
    BY SpamParameters, <1>2, FreshIsBan DEF BanOK, Spam!BanCapped
  <1>3. CASE Spam!Running /\ ban' = [ban EXCEPT !.until = Spam!Extended]
    <2>1. ban \in Bans /\ Spam!Extended \in Untils
      BY <1>3, ExtendedIsCapped DEF Untils
    <2>2. ban' \in Bans /\ ban'.until = Spam!Extended /\ ban'.age = ban.age
      BY <1>3, <2>1 DEF Bans
    <2>3. ban.age # Unset => Spam!Extended + ban.age <= MaxBan
      BY <1>3, ExtendedIsCapped
    <2> QED
      BY <2>2, <2>3 DEF BanOK, Spam!BanCapped
  <1>4. ASSUME NEW c \in Procs, Spam!Extend(c) PROVE BanOK' /\ Spam!BanCapped'
    <2>1. callAt[c] = "extend" /\ next[c] # Unset /\ next[c] \in Untils
      BY SpamParameters, <1>4 DEF Spam!Extend, Writes, NextOK, Untils
    <2>2. CASE ~Spam!HasEnd
      <3>1. ban' = [until |-> next[c], age |-> Unset]
        BY <1>4, <2>2 DEF Spam!Extend
      <3>2. ban' \in Bans /\ ban'.age = Unset
        BY <2>1, <3>1 DEF Bans, Ages
      <3> QED
        BY <3>2 DEF BanOK, Spam!BanCapped
    <2>3. CASE Spam!HasEnd
      <3>1. ban \in Bans /\ ban' = [ban EXCEPT !.until = next[c]]
        BY <1>4, <2>3 DEF Spam!Extend, Spam!HasEnd, BanOK
      <3>2. ban' \in Bans /\ ban'.until = next[c] /\ ban'.age = ban.age
        BY <2>1, <3>1 DEF Bans
      <3>3. (next[c] # NaN /\ ban.age # Unset) => next[c] + ban.age <= MaxBan
        BY <2>1, <2>3 DEF Writes
      <3> QED
        BY <3>2, <3>3 DEF BanOK, Spam!BanCapped
    <2> QED
      BY <2>2, <2>3
  <1> QED
    BY <1>1, <1>2, <1>3, <1>4, BanStep, TickBan

LEMMA CtlInv == ASSUME CtlOK, Spam!Next PROVE CtlOK'
  <1> USE DEF CtlOK
  <1>1. ASSUME NEW c \in Procs, NEW o \in {"request", "violation", "lift"}, Spam!Call(c, o) PROVE CtlOK'
    BY <1>1 DEF Spam!Call, Spam!ctl
  <1>2. ASSUME NEW c \in Procs, Spam!Step(c) \/ Spam!Fail(c) PROVE CtlOK'
    BY <1>2 DEF Spam!Step, Spam!Fail, Spam!Report, Spam!RequestInMemory, Spam!GetBan, Spam!Del,
       Spam!ReadBan, Spam!Extend, Spam!CountViolation, Spam!CreateBan, Spam!SetTtl, Spam!Go,
       Spam!End, Spam!Serve, Spam!ctl
  <1>3. CASE Spam!Cleanup \/ Spam!Tick
    BY <1>3 DEF Spam!Cleanup, Spam!Tick, Spam!ctl, Spam!call
  <1> QED
    BY <1>1, <1>2, <1>3 DEF Spam!Next

LEMMA NextInv ==
  ASSUME BanOK, Spam!BanCapped, NextOK, Spam!Next
  PROVE  NextOK'
  <1> USE SpamParameters DEF NextOK
  <1>1. ASSUME NEW c \in Procs, NEW o \in {"request", "violation", "lift"}, Spam!Call(c, o) PROVE NextOK'
    BY <1>1 DEF Spam!Call
  <1>2. ASSUME NEW c \in Procs, Spam!ReadBan(c) PROVE NextOK'
    BY <1>2, ExtendedIsCapped DEF Spam!ReadBan
  <1>3. ASSUME NEW c \in Procs, Spam!Step(c) \/ Spam!Fail(c), ~Spam!ReadBan(c) PROVE NextOK'
    BY <1>3 DEF Spam!Step, Spam!Fail, Spam!Report, Spam!RequestInMemory, Spam!GetBan, Spam!Del,
       Spam!Extend, Spam!CountViolation, Spam!CreateBan, Spam!SetTtl, Spam!Go, Spam!End, Spam!Serve
  <1>4. CASE Spam!Cleanup \/ Spam!Tick
    BY <1>4 DEF Spam!Cleanup, Spam!Tick, Spam!call
  <1> QED
    BY <1>1, <1>2, <1>3, <1>4 DEF Spam!Next

LEMMA RestInv ==
  ASSUME CtlOK, CountOK, FlagOK, TtlOK, Spam!Next
  PROVE  CountOK' /\ FlagOK' /\ TtlOK'
  <1> USE SpamParameters

  <1>1. CountOK'
    <2>1. ASSUME NEW c \in Procs, Spam!Report(c) PROVE CountOK'
      <3>1. Spam!Violations \in Nat
        BY DEF Spam!Violations, CountOK
      <3> QED
        BY <2>1, <3>1 DEF Spam!Report, CountOK
    <2>2. CASE Spam!Tick
      BY <2>2 DEF Spam!Tick, CountOK, Spam!Less
    <2>3. CASE ~Spam!Tick /\ \A c \in Procs : ~Spam!Report(c)
      BY <2>3 DEF Spam!Next, Spam!Step, Spam!Call, Spam!RequestInMemory, Spam!Cleanup, Spam!GetBan,
         Spam!Del, Spam!ReadBan, Spam!Extend, Spam!CountViolation, Spam!CreateBan, Spam!SetTtl,
         Spam!Fail, CountOK
    <2> QED
      BY <2>1, <2>2, <2>3
  <1>2. FlagOK'
    <2>1. faults' = faults
      BY DEF Spam!Next, Spam!Step, Spam!Call, Spam!Report, Spam!RequestInMemory, Spam!Cleanup,
         Spam!GetBan, Spam!Del, Spam!ReadBan, Spam!Extend, Spam!CountViolation, Spam!CreateBan,
         Spam!SetTtl, Spam!Fail, Spam!Tick, Spam!ctl
    <2>2. lifted' = lifted \/ (lifted' \in BOOLEAN)
      BY Zenon DEF Spam!Next, Spam!Step, Spam!Call, Spam!Report, Spam!RequestInMemory, Spam!Cleanup,
         Spam!GetBan, Spam!Del, Spam!ReadBan, Spam!Extend, Spam!CountViolation, Spam!CreateBan,
         Spam!SetTtl, Spam!Fail, Spam!Tick, FlagOK
    <2> QED
      BY <2>1, <2>2 DEF FlagOK
  <1>3. TtlOK'
    <2>1. CASE Spam!Tick
      BY <2>1 DEF Spam!Tick, TtlOK
    <2>2. ASSUME NEW c \in Procs, Spam!SetTtl(c) PROVE TtlOK'
      BY <2>2 DEF Spam!SetTtl, TtlOK
    <2>3. CASE ~Spam!Tick /\ \A c \in Procs : ~Spam!SetTtl(c)
      BY <2>3 DEF Spam!Next, Spam!Step, Spam!Call, Spam!Report, Spam!RequestInMemory, Spam!Cleanup,
         Spam!GetBan, Spam!Del, Spam!ReadBan, Spam!Extend, Spam!CountViolation, Spam!CreateBan,
         Spam!Fail, Spam!rec, TtlOK
    <2> QED
      BY <2>1, <2>2, <2>3
  <1> QED
    BY <1>1, <1>2, <1>3

LEMMA WritesInv ==
  ASSUME CtlOK, BanOK, Spam!BanCapped, NextOK, Writes, Spam!Next
  PROVE  Writes'
  <1> SUFFICES ASSUME NEW d \in Procs, callAt'[d] = "extend"
               PROVE  /\ next'[d] # Unset
                      /\ (next'[d] # NaN /\ Spam!HasEnd' /\ ban'.age # Unset)
                            => next'[d] + ban'.age <= MaxBan
    BY DEF Writes
  <1> USE DEF CtlOK, NextOK
  <1>1. CASE callAt[d] # "extend"
    <2>1. Spam!ReadBan(d) /\ Spam!Running
      BY <1>1 DEF Spam!Next, Spam!Step, Spam!Call, Spam!Report, Spam!RequestInMemory, Spam!Cleanup,
         Spam!GetBan, Spam!Del, Spam!ReadBan, Spam!Extend, Spam!CountViolation, Spam!CreateBan,
         Spam!SetTtl, Spam!Fail, Spam!Tick, Spam!Go, Spam!End, Spam!Serve, Spam!call
    <2>2. next'[d] = Spam!Extended /\ ban' = ban
      BY <2>1 DEF Spam!ReadBan, Spam!rec
    <2> QED
      BY SpamParameters, <2>1, <2>2, ExtendedIsCapped

  <1>2. CASE callAt[d] = "extend"
    <2>1. next'[d] = next[d] /\ ~Spam!Tick
      BY <1>2 DEF Spam!Next, Spam!Step, Spam!Call, Spam!Report, Spam!RequestInMemory, Spam!Cleanup,
         Spam!GetBan, Spam!Del, Spam!ReadBan, Spam!Extend, Spam!CountViolation, Spam!CreateBan,
         Spam!SetTtl, Spam!Fail, Spam!Tick, Spam!Go, Spam!End, Spam!Serve, Spam!call
    <2>2. next[d] # Unset /\ (next[d] # NaN => next[d] \in 0 .. MaxBan)
      BY <1>2 DEF Writes
    <2>3. CASE ban' = ban \/ ban' = NoBan \/ ban' = Remnant
      BY <1>2, <2>1, <2>3 DEF Writes, Spam!HasEnd
    <2>4. CASE ban' = Spam!FreshBan
      BY SpamParameters, <2>1, <2>2, <2>4, FreshIsBan

    <2>5. ASSUME NEW c \in Procs, Spam!Extend(c)
          PROVE  ban'.age = Unset \/ (Spam!HasEnd /\ ban'.age = ban.age)
      <3>1. CASE ~Spam!HasEnd
        BY <2>5, <3>1 DEF Spam!Extend
      <3>2. CASE Spam!HasEnd
        BY <2>5, <3>2 DEF Spam!Extend, Spam!HasEnd, BanOK, Bans
      <3> QED
        BY <3>1, <3>2
    <2>6. CASE Spam!Running /\ ban' = [ban EXCEPT !.until = Spam!Extended]
      <3>1. Spam!HasEnd /\ ban'.age = ban.age
        BY <2>6 DEF Spam!Running, Spam!HasEnd, BanOK, Bans
      <3> QED
        BY <1>2, <2>1, <3>1 DEF Writes
    <2>7. ASSUME NEW c \in Procs, Spam!Extend(c)
          PROVE  (next'[d] # NaN /\ Spam!HasEnd' /\ ban'.age # Unset) => next'[d] + ban'.age <= MaxBan
      BY <1>2, <2>1, <2>5, <2>7 DEF Writes
    <2> QED
      BY <2>1, <2>2, <2>3, <2>4, <2>6, <2>7, BanStep
  <1> QED
    BY <1>1, <1>2

LEMMA InMemoryInv == ASSUME CtlOK, InMemory, Spam!Next PROVE InMemory'
  <1> SUFFICES ASSUME store = "memory", NEW d \in Procs PROVE callAt'[d] \in {"idle", "check", "del"}
    BY DEF InMemory, Spam!Next, Spam!Step, Spam!Call, Spam!Report, Spam!RequestInMemory,
       Spam!Cleanup, Spam!GetBan, Spam!Del, Spam!ReadBan, Spam!Extend, Spam!CountViolation,
       Spam!CreateBan, Spam!SetTtl, Spam!Fail, Spam!Tick, Spam!ctl
  <1> QED
    BY DEF InMemory, CtlOK, Spam!Next, Spam!Step, Spam!Call, Spam!Report, Spam!RequestInMemory,
       Spam!Cleanup, Spam!GetBan, Spam!Del, Spam!ReadBan, Spam!Extend, Spam!CountViolation,
       Spam!CreateBan, Spam!SetTtl, Spam!Fail, Spam!Tick, Spam!Go, Spam!End, Spam!Serve, Spam!call

LEMMA LiftSticksInv == ASSUME InMemory, Spam!LiftSticks, Spam!Next PROVE Spam!LiftSticks'
  <1> SUFFICES ASSUME store = "memory", lifted' PROVE ban' = NoBan
    BY DEF Spam!LiftSticks, Spam!Next, Spam!Step, Spam!Call, Spam!Report, Spam!RequestInMemory,
       Spam!Cleanup, Spam!GetBan, Spam!Del, Spam!ReadBan, Spam!Extend, Spam!CountViolation,
       Spam!CreateBan, Spam!SetTtl, Spam!Fail, Spam!Tick, Spam!ctl
  <1>1. ASSUME NEW c \in Procs, Spam!Del(c) PROVE ban' = NoBan
    BY <1>1 DEF Spam!Del
  <1>2. CASE \A c \in Procs : ~Spam!Del(c)
    <2>1. lifted
      BY <1>2 DEF Spam!Next, Spam!Step, Spam!Call, Spam!Report, Spam!RequestInMemory, Spam!Cleanup,
         Spam!GetBan, Spam!ReadBan, Spam!Extend, Spam!CountViolation, Spam!CreateBan, Spam!SetTtl,
         Spam!Fail, Spam!Tick
    <2>2. ban = NoBan
      BY <2>1 DEF Spam!LiftSticks
    <2>3. ASSUME NEW c \in Procs, Spam!Report(c) PROVE ban' = NoBan
      <3>1. ~Spam!Reached(Spam!Violations)
        BY <2>3 DEF Spam!Report, Spam!Reached
      <3> QED
        BY <2>2, <2>3, <3>1 DEF Spam!Report
    <2>4. \A c \in Procs : ~Spam!Extend(c) /\ ~Spam!CountViolation(c) /\ ~Spam!CreateBan(c)
      BY DEF InMemory, Spam!Extend, Spam!CountViolation, Spam!CreateBan
    <2>5. ~Spam!Banned
      BY <2>2 DEF Spam!Banned, Spam!HasEnd
    <2> QED
      BY <1>2, <2>2, <2>3, <2>4, <2>5 DEF Spam!Next, Spam!Step, Spam!Call, Spam!RequestInMemory,
         Spam!Cleanup, Spam!GetBan, Spam!ReadBan, Spam!SetTtl, Spam!Fail, Spam!Tick, Spam!rec
  <1> QED
    BY <1>1, <1>2

LEMMA BanGoesInv == ASSUME CtlOK, TtlOK, Spam!BanGoes, Spam!Next PROVE Spam!BanGoes'
  <1> USE DEF CtlOK
  <1>0. store' = store /\ faults' = faults
    BY DEF Spam!Next, Spam!Step, Spam!Call, Spam!Report, Spam!RequestInMemory, Spam!Cleanup,
       Spam!GetBan, Spam!Del, Spam!ReadBan, Spam!Extend, Spam!CountViolation, Spam!CreateBan,
       Spam!SetTtl, Spam!Fail, Spam!Tick, Spam!ctl
  <1> SUFFICES ASSUME store = "redis", ~faults, ban' # NoBan, ttl' = Unset
               PROVE  \E c \in Procs : callAt'[c] \in {"count", "expireMax", "expireBan"}
    BY <1>0 DEF Spam!BanGoes
  <1>1. ASSUME NEW c \in Procs, Spam!Extend(c) \/ Spam!CountViolation(c) \/ Spam!CreateBan(c)
        PROVE  callAt'[c] \in {"count", "expireMax", "expireBan"}
    BY <1>1 DEF Spam!Extend, Spam!CountViolation, Spam!CreateBan, Spam!Go
  <1>2. ASSUME NEW c \in Procs, Spam!SetTtl(c) PROVE FALSE
    BY SpamParameters, <1>2 DEF Spam!SetTtl
  <1>3. CASE Spam!Tick
    <2>1. ban # NoBan /\ ttl = Unset
      BY SpamParameters, <1>3 DEF Spam!Tick, TtlOK
    <2>2. \A c \in Procs : callAt[c] = "idle"
      BY <1>3 DEF Spam!Tick
    <2> QED
      BY <2>1, <2>2 DEF Spam!BanGoes
  <1>4. CASE /\ ~Spam!Tick
             /\ \A c \in Procs : /\ ~Spam!Extend(c) /\ ~Spam!CountViolation(c)
                                 /\ ~Spam!CreateBan(c) /\ ~Spam!SetTtl(c)
    <2>1. ban # NoBan /\ ttl = Unset
      BY <1>4 DEF Spam!Next, Spam!Step, Spam!Call, Spam!Report, Spam!RequestInMemory, Spam!Cleanup,
         Spam!GetBan, Spam!Del, Spam!ReadBan, Spam!Fail, Spam!rec
    <2>2. PICK c \in Procs : callAt[c] \in {"count", "expireMax", "expireBan"}
      BY <2>1 DEF Spam!BanGoes
    <2>3. callAt'[c] = callAt[c]
      BY <1>4, <2>2 DEF Spam!Next, Spam!Step, Spam!Call, Spam!Report, Spam!RequestInMemory,
         Spam!Cleanup, Spam!GetBan, Spam!Del, Spam!ReadBan, Spam!Fail, Spam!Go, Spam!End,
         Spam!Serve, Spam!call
    <2> QED
      BY <2>2, <2>3
  <1> QED
    BY <1>1, <1>2, <1>3, <1>4

-----------------------------------------------------------------------------
SpamTypes == CtlOK /\ CountOK /\ FlagOK /\ BanOK /\ TtlOK /\ NextOK

SpamInv == SpamTypes /\ Writes /\ InMemory /\ Spam!LiftSticks /\ Spam!BansEnd

(* The bans of a client, in memory and in Redis, and whatever an extension under
   way is about to write keep to their shapes and their maximum (anti-spam.ts). *)
THEOREM SpamInvariance == Spam!Spec => []SpamInv
  <1>1. Spam!Init => SpamInv
    <2> SUFFICES ASSUME Spam!Init PROVE SpamInv
      OBVIOUS
    <2>1. CtlOK /\ FlagOK /\ BanOK /\ TtlOK
      BY DEF Spam!Init, CtlOK, FlagOK, BanOK, TtlOK
    <2>2. CountOK /\ NextOK
      BY SpamParameters DEF Spam!Init, CountOK, NextOK
    <2>3. Writes /\ InMemory /\ Spam!LiftSticks /\ Spam!BansEnd
      BY DEF Spam!Init, Writes, InMemory, Spam!LiftSticks, Spam!BansEnd, Spam!BanCapped,
         Spam!BanGoes, Spam!HasEnd
    <2> QED
      BY <2>1, <2>2, <2>3 DEF SpamInv, SpamTypes
  <1>2. SpamInv /\ Spam!Next => SpamInv'
    BY CtlInv, RestInv, BanInv, NextInv, WritesInv, InMemoryInv, LiftSticksInv, BanGoesInv
       DEF SpamInv, SpamTypes, Spam!BansEnd
  <1>3. SpamInv /\ UNCHANGED Spam!vars => SpamInv'
    BY DEF Spam!vars, Spam!ctl, Spam!rec, Spam!call, Spam!HasEnd, SpamInv, SpamTypes, CtlOK, CountOK, FlagOK,
       BanOK, TtlOK, NextOK, Writes, InMemory, Spam!LiftSticks, Spam!BansEnd, Spam!BanCapped,
       Spam!BanGoes
  <1> QED
    BY <1>1, <1>2, <1>3, PTL DEF Spam!Spec

(* The bans take no other steps beside the other services. *)
LEMMA SpamAlone == ServicesSpec => Spam!Spec
  <1>1. ServicesInit => Spam!Init
    BY DEF ServicesInit
  <1>2. [ServicesNext]_<<service, fileVars, limiterVars, spamVars, loginVars>> => [Spam!Next]_(Spam!vars)
    BY DEF ServicesNext, spamVars, Spam!vars, Spam!ctl, Spam!rec, Spam!call
  <1> QED
    BY <1>1, <1>2, PTL DEF ServicesSpec, Spam!Spec

(* A ban lifted in the process stays lifted until the threshold is reached
   anew (anti-spam.ts, unban and recordViolation). *)
THEOREM LiftHolds == ServicesSpec => []LiftSticks
  <1>1. SpamInv => LiftSticks
    BY DEF SpamInv, LiftSticks
  <1> QED
    BY <1>1, SpamAlone, SpamInvariance, PTL

(* No order of the commands of concurrent calls gives a ban an end beyond the
   maximum, or leaves it in Redis without an end while commands succeed; and
   the record of a ban keeps its shape, whatever is written to it by calls that
   read another one. *)
THEOREM EveryBanEnds == ServicesSpec => []BansEnd
  <1>1. SpamInv => Spam!TypeOK
    BY DEF SpamInv, SpamTypes, CtlOK, CountOK, FlagOK, BanOK, TtlOK, NextOK, Bans, Untils, Ages,
       Spam!TypeOK
  <1>2. SpamInv => BansEnd
    BY <1>1 DEF SpamInv, BansEnd
  <1> QED
    BY <1>2, SpamAlone, SpamInvariance, PTL

-----------------------------------------------------------------------------

(* Since the player was last admitted no more time has passed than an entry
   has lost of its time to live, and less than a time to live and the age of
   a call that is under way. *)
Fresh ==
  /\ admits => since = 0
  /\ \A s \in Sids : left[s] > 0 => since <= Ttl - left[s]
  /\ \A c \in Procs : call[c].sid # None => since < Ttl + call[c].age

(* An id that was exchanged has no entry any more and gets no new one. *)
Spent ==
  /\ \A s \in Sids : left[s] > 0 => s \in issued
  /\ \A s \in Sids : sessions[s] > 0 => s \in issued /\ left[s] = 0
  /\ \A c \in Procs : call[c].sid # None => call[c].sid \in issued
  /\ \A c \in Procs : ~call[c].late

LoginInv == Logins!TypeOK /\ Fresh /\ Spent

LEMMA LoginTypeStep == ASSUME Logins!TypeOK, [Logins!Next]_(Logins!vars) PROVE Logins!TypeOK'
  <1> USE LoginParameters DEF Logins!TypeOK
  <1>1. CASE UNCHANGED Logins!vars
    BY <1>1 DEF Logins!vars
  <1>2. CASE Logins!Sync
    BY <1>2 DEF Logins!Sync, Logins!Bound
  <1>3. ASSUME NEW s \in Sids, Logins!Issue(s) \/ Logins!Evict(s) PROVE Logins!TypeOK'
    BY <1>3 DEF Logins!Issue, Logins!Evict
  <1>4. ASSUME NEW c \in Procs, NEW s \in Sids, NEW api \in {"api", "figura"}, Logins!Verify(c, s, api)
        PROVE  Logins!TypeOK'
    <2>1. [sid |-> s, api |-> api, age |-> 0, late |-> sessions[s] > 0]
            \in [sid : Sids \cup {None}, api : {"api", "figura"}, age : 0 .. MaxAwait, late : BOOLEAN]
      OBVIOUS
    <2> QED
      BY <1>4, <2>1 DEF Logins!Verify
  <1>5. ASSUME NEW c \in Procs, Logins!Joined(c) \/ Logins!NotJoined(c) \/ Logins!NoAnswer(c) PROVE Logins!TypeOK'
    <2>1. call' = [call EXCEPT ![c] = Logins!Idle] /\ call[c].sid # None
      BY <1>5 DEF Logins!Joined, Logins!NotJoined, Logins!NoAnswer
    <2>2. call[c].sid \in Sids
      BY <2>1
    <2>3. Logins!Idle \in [sid : Sids \cup {None}, api : {"api", "figura"}, age : 0 .. MaxAwait, late : BOOLEAN]
      BY DEF Logins!Idle
    <2> QED
      BY <1>5, <2>1, <2>2, <2>3 DEF Logins!Joined, Logins!NotJoined, Logins!NoAnswer
  <1>6. CASE Logins!Tick
    <2>1. \A c \in Procs :
            call'[c] \in [sid : Sids \cup {None}, api : {"api", "figura"},
                          age : 0 .. MaxAwait, late : BOOLEAN]
      BY <1>6 DEF Logins!Tick
    <2>2. DOMAIN call' = Procs /\ call' = [c \in Procs |-> call'[c]]
      BY <1>6 DEF Logins!Tick
    <2>3. call' \in [Procs -> [sid : Sids \cup {None}, api : {"api", "figura"},
                               age : 0 .. MaxAwait, late : BOOLEAN]]
      BY <2>1, <2>2
    <2>4. left' \in [Sids -> 0 .. Ttl]
      BY <1>6 DEF Logins!Tick, Logins!Less
    <2> QED
      BY <1>6, <2>3, <2>4 DEF Logins!Tick, Logins!Bound
  <1> QED
    BY <1>1, <1>2, <1>3, <1>4, <1>5, <1>6 DEF Logins!Next

LEMMA FreshStep == ASSUME Logins!TypeOK, Fresh, [Logins!Next]_(Logins!vars) PROVE Fresh'
  <1> USE LoginParameters DEF Logins!TypeOK, Fresh
  <1>1. CASE UNCHANGED Logins!vars
    BY <1>1 DEF Logins!vars
  <1>2. CASE Logins!Sync
    BY <1>2 DEF Logins!Sync
  <1>3. ASSUME NEW s \in Sids, Logins!Issue(s) \/ Logins!Evict(s) PROVE Fresh'
    BY <1>3 DEF Logins!Issue, Logins!Evict
  <1>4. ASSUME NEW c \in Procs, NEW s \in Sids, NEW api \in {"api", "figura"}, Logins!Verify(c, s, api)
        PROVE  Fresh'
    <2>1. since < Ttl
      BY <1>4 DEF Logins!Verify
    <2>2. UNCHANGED <<admits, since, left>>
      BY <1>4 DEF Logins!Verify
    <2>3. \A d \in Procs : IF d = c THEN call'[d].age = 0 ELSE call'[d] = call[d]
      BY <1>4 DEF Logins!Verify
    <2> QED
      BY <2>1, <2>2, <2>3
  <1>5. ASSUME NEW c \in Procs, Logins!Joined(c) \/ Logins!NotJoined(c) \/ Logins!NoAnswer(c) PROVE Fresh'
    <2>1. UNCHANGED <<admits, since>> /\ \A s \in Sids : left'[s] \in {left[s], 0}
      BY <1>5 DEF Logins!Joined, Logins!NotJoined, Logins!NoAnswer
    <2>2. \A d \in Procs : IF d = c THEN call'[d].sid = None ELSE call'[d] = call[d]
      BY <1>5 DEF Logins!Joined, Logins!NotJoined, Logins!NoAnswer, Logins!Idle
    <2> QED
      BY <2>1, <2>2
  <1>6. CASE Logins!Tick
    <2>1. admits' = admits /\ since' <= since + 1 /\ (admits => since' = 0) /\ since' \in Nat
      BY <1>6 DEF Logins!Tick, Logins!Bound
    <2>2. \A s \in Sids : left'[s] > 0 => left'[s] = left[s] - 1 /\ left[s] > 0
      BY <1>6 DEF Logins!Tick, Logins!Less
    <2>3. \A c \in Procs : call'[c].sid # None
                            => call[c].sid # None /\ call'[c].age = call[c].age + 1
      BY <1>6 DEF Logins!Tick
    <2> QED
      BY <2>1, <2>2, <2>3
  <1> QED
    BY <1>1, <1>2, <1>3, <1>4, <1>5, <1>6 DEF Logins!Next

LEMMA SpentStep == ASSUME Logins!TypeOK, Spent, [Logins!Next]_(Logins!vars) PROVE Spent'
  <1> USE LoginParameters DEF Logins!TypeOK, Spent
  <1>1. CASE UNCHANGED Logins!vars \/ Logins!Sync
    BY <1>1 DEF Logins!vars, Logins!Sync
  <1>2. ASSUME NEW s \in Sids, Logins!Issue(s) \/ Logins!Evict(s) PROVE Spent'
    BY <1>2 DEF Logins!Issue, Logins!Evict
  <1>3. ASSUME NEW c \in Procs, NEW s \in Sids, NEW api \in {"api", "figura"}, Logins!Verify(c, s, api)
        PROVE  Spent'
    <2>1. ~(sessions[s] > 0)
      BY <1>3 DEF Logins!Verify
    <2>2. UNCHANGED <<issued, left, sessions>>
      BY <1>3 DEF Logins!Verify
    <2>3. \A d \in Procs : call'[d].late = IF d = c THEN sessions[s] > 0 ELSE call[d].late
      BY <1>3 DEF Logins!Verify
    <2>4. \A d \in Procs : call'[d].sid = IF d = c THEN s ELSE call[d].sid
      BY <1>3 DEF Logins!Verify
    <2>5. s \in issued
      BY <1>3 DEF Logins!Verify
    <2> QED
      BY <2>1, <2>2, <2>3, <2>4, <2>5
  <1>4. ASSUME NEW c \in Procs, Logins!Joined(c) PROVE Spent'
    <2>1. PICK s \in Sids : s = call[c].sid
      BY <1>4 DEF Logins!Joined
    <2>2. s \in issued
      BY <1>4, <2>1 DEF Logins!Joined
    <2> QED
      BY <1>4, <2>1, <2>2 DEF Logins!Joined, Logins!Idle
  <1>5. ASSUME NEW c \in Procs, Logins!NotJoined(c) \/ Logins!NoAnswer(c) PROVE Spent'
    <2>1. UNCHANGED <<issued, sessions>> /\ \A s \in Sids : left'[s] \in {left[s], 0}
      BY <1>5 DEF Logins!NotJoined, Logins!NoAnswer
    <2>2. \A d \in Procs : ~call'[d].late /\ call'[d].sid \in {call[d].sid, None}
      BY <1>5 DEF Logins!NotJoined, Logins!NoAnswer, Logins!Idle
    <2> QED
      BY <2>1, <2>2
  <1>6. CASE Logins!Tick
    <2>1. \A s \in Sids : left[s] = 0 => left'[s] = 0
      BY <1>6 DEF Logins!Tick, Logins!Less
    <2>2. \A s \in Sids : left'[s] > 0 => left[s] > 0
      BY <1>6 DEF Logins!Tick, Logins!Less
    <2>3. \A c \in Procs : call'[c].late = call[c].late /\ call'[c].sid = call[c].sid
      BY <1>6 DEF Logins!Tick
    <2> QED
      BY <1>6, <2>1, <2>2, <2>3 DEF Logins!Tick
  <1> QED
    BY <1>1, <1>2, <1>3, <1>4, <1>5, <1>6 DEF Logins!Next

(* A server id that was exchanged is spent, and one that was handed out is as
   old as the admission it rests on (server_ids of server.ts, figura-api.ts). *)
THEOREM LoginInvariance == Logins!Spec => []LoginInv
  <1>1. Logins!Init => LoginInv
    BY LoginParameters DEF Logins!Init, LoginInv, Logins!TypeOK, Fresh, Spent, Logins!Idle,
       Logins!Bound
  <1>2. LoginInv /\ [Logins!Next]_(Logins!vars) => LoginInv'
    BY LoginTypeStep, FreshStep, SpentStep DEF LoginInv
  <1> QED
    BY <1>1, <1>2, PTL DEF Logins!Spec

(* Only a verification under way makes a session, of the id that it holds. *)
LEMMA OnlyJoined ==
  ASSUME LoginInv, Logins!Next, NEW s \in Sids, sessions'[s] > sessions[s]
  PROVE  \E c \in Procs : call[c].sid = s /\ Logins!Joined(c)
  <1> USE DEF LoginInv, Logins!TypeOK
  <1>1. sessions' # sessions
    OBVIOUS
  <1>2. PICK c \in Procs : Logins!Joined(c)
    BY <1>1 DEF Logins!Next, Logins!Sync, Logins!Tick, Logins!Issue, Logins!Evict, Logins!Verify,
       Logins!NotJoined, Logins!NoAnswer
  <1>3. call[c].sid = s
    BY <1>2 DEF Logins!Joined
  <1> QED
    BY <1>2, <1>3

(* Logins take no other steps beside the other services. *)
LEMMA LoginAlone == ServicesSpec => Logins!Spec
  <1>1. ServicesInit => Logins!Init
    BY DEF ServicesInit
  <1>2. [ServicesNext]_<<service, fileVars, limiterVars, spamVars, loginVars>> => [Logins!Next]_(Logins!vars)
    BY DEF ServicesNext, loginVars, Logins!vars
  <1> QED
    BY <1>1, <1>2, PTL DEF ServicesSpec, Logins!Spec

(* A verification that begins after a session was made of its server id makes
   none. *)
THEOREM NoSecondUse == ServicesSpec => NoReplay
  <1>1. LoginInv /\ [Logins!Next]_(Logins!vars)
          => [\A s \in Sids : sessions'[s] > sessions[s]
                => \A c \in Procs : call[c].sid = s /\ call'[c] = Logins!Idle => ~call[c].late]_(Logins!vars)
    BY DEF LoginInv, Spent
  <1> QED
    BY <1>1, LoginAlone, LoginInvariance, PTL DEF Logins!Spec, Logins!NoReplay, NoReplay

(* A player who is no longer admitted gets no session once a time to live and
   the timeout of a request to Mojang have passed. *)
THEOREM AdmissionHolds == ServicesSpec => SoonAfterAdmission
  <1>1. ASSUME LoginInv, Logins!Next, NEW s \in Sids, sessions'[s] > sessions[s]
        PROVE  since < Ttl + MaxAwait
    <2>1. PICK c \in Procs : call[c].sid = s /\ Logins!Joined(c)
      BY <1>1, OnlyJoined
    <2>2. since < Ttl + call[c].age /\ call[c].age \in 0 .. MaxAwait /\ since \in Nat
      BY LoginParameters, <1>1, <2>1 DEF Logins!Joined, LoginInv, Logins!TypeOK, Fresh, Logins!Bound
    <2> QED
      BY LoginParameters, <2>2

  <1>2. LoginInv /\ [Logins!Next]_(Logins!vars)
          => [(\E s \in Sids : sessions'[s] > sessions[s]) => since < Ttl + MaxAwait]_(Logins!vars)
    BY <1>1
  <1> QED
    BY <1>2, LoginAlone, LoginInvariance, PTL DEF Logins!Spec, Logins!SoonAfterAdmission,
       SoonAfterAdmission
=============================================================================
