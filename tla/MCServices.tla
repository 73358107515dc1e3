------------------------------ MODULE MCServices ------------------------------
(* MCFileIndex, and beside it what a request meets before a handler does
   anything for it: the rate limiters, the bans and the login.  None of them
   shares state with another, so one run explores them side by side.       *)
EXTENDS MCFileIndex, Integers

CONSTANTS
  Reqs, r1, UploadMax, ApiMax, UploadWindow, ApiWindow, Grace,  \* of RateLimiter
  Threshold, ViolationWindow, BanTime, Extension, MaxBan,  \* of AntiSpam
  NaN, NoBan, Unset, Remnant,
  Sids, Ttl, MaxAwait, None                                \* of Login

ASSUME LimiterParameters ==
  /\ r1 \in Reqs /\ UploadMax \in Nat \ {0} /\ ApiMax \in Nat \ {0}
  /\ UploadWindow \in Nat \ {0} /\ ApiWindow \in Nat \ {0} /\ Grace \in Nat

ASSUME SpamParameters ==
  /\ Threshold \in Nat \ {0} /\ ViolationWindow \in Nat
  /\ BanTime \in Nat \ {0} /\ Extension \in Nat /\ MaxBan \in Nat /\ BanTime <= MaxBan
  /\ NaN \notin Int /\ Unset \notin Int /\ NaN # Unset

ASSUME LoginParameters == Ttl \in Nat /\ MaxAwait \in Nat

VARIABLES
  service,   \* which of them this behaviour is about
  mode, commandsFail, entry, timers, shared, requestAt, lim, hits, seen, passed, forgotten,
  store, faults, counts, ban, ttl, callAt, callOp, next, outcome, lifted,
  admits, since, issued, left, call, sessions

Limits  == [upload |-> UploadMax, api |-> ApiMax]
Windows == [upload |-> UploadWindow, api |-> ApiWindow]

Limiter == INSTANCE RateLimiter WITH
  MaxHits <- Limits, Window <- Windows, faults <- commandsFail, pc <- requestAt

Spam == INSTANCE AntiSpam WITH Calls <- Procs, pc <- callAt, op <- callOp

Logins == INSTANCE Login WITH Calls <- Procs

fileVars    == <<scenario, vars, archiveVars>>
limiterVars == <<mode, commandsFail, entry, timers, shared, requestAt, lim, hits, seen, passed, forgotten>>
spamVars    == <<store, faults, counts, ban, ttl, callAt, callOp, next, outcome, lifted>>
loginVars   == <<admits, since, issued, left, call, sessions>>

(* Without Redis no limiter awaits anything and the limiters have nothing in
   common: one request at the api limiter says all.  With it, two requests at
   either limiter overlap unless commands fail. *)
Focus ==
  mode = "memory" \/ commandsFail
    => /\ \A r \in Reqs : lim[r] = "api"
       /\ \A r \in Reqs \ {r1} : requestAt[r] = "idle"

ServicesInit ==
  /\ service \in {"files", "limiter", "spam", "login"}
  /\ BothInit /\ Limiter!Init /\ Spam!Init /\ Logins!Init
  /\ service # "files" =>
       scenario = "archive" /\ avatar = [f \in Archive!Names |-> 1]
  /\ service # "limiter" => mode = "memory"
  /\ service # "spam" => store = "memory"

ServicesNext ==
  /\ \/ /\ service = "files" /\ BothNext
        /\ UNCHANGED <<limiterVars, spamVars, loginVars>>
     \/ /\ service = "limiter" /\ Limiter!Next /\ Focus'
        /\ UNCHANGED <<fileVars, spamVars, loginVars>>
     \/ /\ service = "spam" /\ Spam!Next
        /\ UNCHANGED <<fileVars, limiterVars, loginVars>>
     \/ /\ service = "login" /\ Logins!Next
        /\ UNCHANGED <<fileVars, limiterVars, spamVars>>
  /\ UNCHANGED service

ServicesSpec ==
  ServicesInit /\ [][ServicesNext]_<<service, fileVars, limiterVars, spamVars, loginVars>>

-----------------------------------------------------------------------------
(* RateLimiter!Bounded: without Redis, whatever the windows and the deletion
   timers of earlier windows do, in any stretch of time as long as the window
   a limiter lets through less than twice its limit, and once its limit more
   for each running window that such a timer ended. *)
Bounded == service = "limiter" => Limiter!TypeOK /\ Limiter!Bounded

(* RateLimiter!RefusedOnlyOverLimit: without Redis a limiter refuses only a
   client that has asked more often than the limit within the last window. *)
RefusedOnlyOverLimit == Limiter!RefusedOnlyOverLimit

(* RateLimiter!LimitWearsOff: while commands succeed a counter in Redis has an
   end or is about to be given one. *)
LimitWearsOff == Limiter!LimitWearsOff

(* AntiSpam!LiftSticks: in the process a lifted ban stays lifted until the
   threshold is reached anew. *)
LiftSticks == Spam!LiftSticks

(* AntiSpam!BansEnd: no order of extensions, lifts and new bans gives a ban an
   end later than maxBanDurationMs after its beginning, or leaves a record of
   it in Redis without a TTL while commands succeed. *)
BansEnd == service = "spam" => Spam!TypeOK /\ Spam!BansEnd

(* Login!NoReplay: a verification that begins after a session was made of its
   server id makes none. *)
NoReplay == Logins!NoReplay

(* Login!SoonAfterAdmission: a player who is no longer admitted gets no session
   once an id has expired and a request to Mojang has ended. *)
SoonAfterAdmission == Logins!SoonAfterAdmission
=============================================================================
