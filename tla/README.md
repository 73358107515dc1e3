# A formal model of BigAvatar Cloud

TLA+ modules, TLC configurations and TLAPS proofs for the server in `src/src`
of this repository: a backend for the Figura Minecraft mod that stores one
avatar file (`<uuid>.moon`) per player, serves it with a profile and a hash,
and tells the players who watch someone, over WebSockets, when that someone's
avatar changes.

## The system

One Node process per core (`ecosystem.config.js`: pm2 cluster, `instances: 'max'`,
autorestart), one event loop each, a shared disk, and optionally a shared Redis.
Everything that is concurrent happens between two awaits of HTTP handlers,
between WebSocket events, timers and Redis messages, and between processes.

| part | source | state | operations | interacts with |
|---|---|---|---|---|
| Avatar store and caches | `server.ts` 616-721, 806-830, 887-899; `figura-api.ts` 211-344; `avatar-preview.ts` | the files; `hashCache`, `apiJsonCache` (keys `uuid` and `figura:uuid`), `previewCache` | upload, delete, profile, conditional download, preview, restore | upload pipeline, versions, backups, broadcast |
| Upload pipeline | `upload-pipeline.ts`, `temp-file-cleaner.ts` | temporary files, `_pendingCount` | stream, MIME check, size limit, rename, clean-up | avatar store |
| LRU cache | `lru-cache.ts` | map, doubly linked list, expiry per entry | get, set, delete, clear, sweep | every cache above, `server_ids` |
| WebSocket hub | `server.ts` 247-447, 1016-1036 | `tokens`, `activeSockets`, `watchers`, authentication and heartbeat flags | connect, authenticate, watch, relay, ping, close, token GC | auth, broadcast |
| Auth and sessions | `server.ts` 536-601, `figura-api.ts` 146-209 | `server_ids`, `tokens` | join request, verification with Mojang, admission rules | hub |
| Badges | `figura-api.ts` 361-426 | `equippedBadges`, `.badges.json` | get, set | profiles |
| Avatar versions | `avatar-versioning.ts` | `versions.json`, version files | snapshot, list, restore, delete | avatar store |
| Backups | `backup-system.ts` | archives, `index.json` | run (timer or admin), restore, delete | avatar store |
| Rate limiter | `rate-limiter.ts` | counters in Redis, fallback map | check, reset, fall back | every request |
| Anti-spam | `anti-spam.ts` | violations, bans, in Redis or memory | record violation, ban, extend, lift | requests |
| Broadcast across processes | `server.ts` 267-274, 1041-1073 | Redis channel | publish, deliver | hub |
| Redis wrapper, health, alerts | `redis-client.ts`, `health-monitor.ts`, `metrics-alerting.ts` | connection state, last status, last alert | connect, poll, alert | limiter, broadcast |
| Graceful shutdown | `graceful-shutdown.ts` | in-flight counter | count, drain, exit | HTTP server |
| Activity log, webhooks | `activity-log.ts`, `webhook-events.ts` | ring buffer; nothing | record, list; emit with retries | handlers |
| WebSocket manager | `ws-manager.ts` | clients, pong timers | (not used by the server) | graceful shutdown |

Left aside: `config.ts`, `types.ts` (settings), `log-manager.ts`, `admin-auth.ts`,
`ip-geolocation.ts`, the statistics of the admin API (no protocol of their own),
`avatar-thumbnail.ts` (never mounted), `dashboard.html`, and `dist/` (compiled
copies). `GET /figura/v1/user/bulk` is declared after `/user/:uuid`, and
`GET /api/online-users` after `/api/:uuid`: neither can be reached, and neither is
modelled.

### What is hard, and what makes each part correct

| part | hard behaviour | correct means |
|---|---|---|
| Avatar store | readers that await a file while a writer replaces it; four families of cache keys; in-place copies; processes with caches of their own | no answer about a file that never was; sequentially, every answer is the file's; stale entries die out |
| Upload pipeline | timeout against rename; a cleaner in every process; crashes; stalled clients | what is installed is one whole body; one answer; nothing left counted or left on disk |
| LRU cache | pointer surgery in every method | the list and the map agree; it is a bounded least-recently-used map |
| WebSocket hub | messages after `close()`; a socket that authenticates twice; vanished peers; the collection | no closed socket is watched for; open sessions exist; strangers, dead peers and expired sessions go |
| Graceful shutdown | two events per response, one counter; a second signal | the drain ends, is forced only when it must be, and is clean only when all is answered |
| Auth | two requests with one server id; lists that change between the two steps | nothing is made of an id twice, except by requests that overlap; nobody gets in long after they are no longer admitted |
| Versions, backups | an index that is read, changed and written by several at once; files that change while they are archived; crash between file and index | operations do not take each other's files away; alone, index and files agree and the index is the newest snapshots; archives can be read back |
| Rate limiter, anti-spam | deletion timers of earlier windows; two Redis commands where one is meant; fallback | a bound on what passes in any window; nobody limited for good; bans end, and lifted bans do not come back |
| Redis, alerts | two events per lost connection; refreshes and polls that overlap and await | listeners hear of every outage and recovery once; a lasting outage is alerted, a lasting recovery reported |

## Modules

Every module translates the TypeScript named in its header; `PROJECT.json` gives
the lines for each definition. A handler is one action, or, when it awaits, one
action per stretch between two awaits; whatever the event loop may run in
between is free to happen. Names follow the source. A definition preceded by a
comment `Mutant:` is not part of the model: it is a plausible mistake that some
property is known to detect (`PROJECT.json`, "mutants").

| component | module | promise it implements | instances for TLC | proofs |
|---|---|---|---|---|
| avatar store and caches | AvatarStore | AvatarRegister | MCAvatarStore, MCAvatarScenarios | AvatarStoreProofs |
| upload pipeline | UploadPipeline | | MCUploadPipeline | UploadPipelineProofs |
| LRU cache | LruList | LruCache | MCLruList | LruListProofs |
| WebSocket hub | WsHub | | MCWsHub | WsHubProofs |
| versions, backups | FileIndex, BackupArchive | NewestFirst | MCFileIndex, MCServices | FileIndexProofs |
| rate limiter | RateLimiter | | MCServices, MCRateLimiter | RateLimiterProofs |
| anti-spam | AntiSpam | | MCServices | AdmissionProofs |
| login | Login | | MCServices | AdmissionProofs |
| graceful shutdown | GracefulShutdown | | MCProcess | ProcessProofs |
| Redis wrapper, health, alerts | RedisHealth | | MCProcess | ProcessProofs |

### AvatarStore (and AvatarRegister)

`disk[u]` is `<uuid>.moon`; `cache[w][k][u]` the entry for `u` in one of the four
families of keys of process `w`; a slot `r` of `Reqs` is a request, at `pc[r]`,
with `data[r]` in hand. A request arrives (`Arrive`), takes its steps and answers
(`Answer`), with what its answer claims the file to be in `ans[r]`. Uploads:
`Rename`, then `Uploaded` updates the caches in a step of its own, since the
pipeline awaits in between. Readers: `Lookup`/`Access`/`Etag`/`Preview`, `Read` for the
awaited `readFile`, and what they put back afterwards; a preview that misses its cache
awaits a `stat` first (`Stat`). Copies in place (`CopyBegin`, `CopyEnd`, `CopyFails`,
`BackupBegin`) tear the file until they end, or fail and remove it by its name, and
may overlap; `into` remembers which copies write into the present file. A
`writeFileSync` of a backup restore that throws ends the process, which is a
`Crash`. `Snapshot` is what an upload leaves running in the background.

`AvatarRegister` is the promise: a file per user, answers that tell its present
content. The run `avatar_store` shows that the store implements it when the
requests of Figura clients are served one at a time, or those of clients of `/api`,
who also restore versions, if the snapshot that an upload leaves running is
taken before the next request and restores succeed (`OneAtATime`). AvatarStoreProofs
proves it for any number of users and requests that one process serves
(`OneProcess`): the caches of another process of the cluster do not follow
(`Converges`). Clients of both APIs over one avatar are left out, for a write over
`/api` does not touch the `figura:` profile.

`NotModifiedIsCurrent` speaks of answers given while nobody is writing that avatar
(`Settled`), and is checked of behaviours in which writes never overlap (`OneWriter` of
MCAvatarStore): what TLC finds is neither a race of two uploads nor an answer given
before the upload's own.

Abstractions: a hash is identified with the content it is computed from. An
archive holds, for each user, any content the file ever had (`BackupArchive` says
what an archive really holds). Versions are a set (`FileIndex` has their order,
their index and their files). Uploads have temporary files of their own here;
`UploadPipeline` studies what happens otherwise. The synchronous writes of a
backup restore are modelled as truncate and end. The LRU order is abstracted to
"an entry may go at any time" (`Expire`).

### UploadPipeline

One player's uploads over a file system: `dir` maps names of the temporary
directory to files, `data` maps positions of a file to the request that wrote
them, `fd[r]` is the file a stream has open. `Begin` … `Rename`, `Succeed`, `Catch` follow
`handleUpload`: the rename and the continuation that answers are steps of their own,
between which the timer may answer. `Fail` is the pipeline rejecting; `Answer` is guarded by
`headersSent`; `Timeout` is the middleware of server.ts; `Condemn` and `Clean` are the `stat`
and the `unlink` of the cleaner, of whichever process. Time goes by in ticks that
are longer than a disk operation (so a tick happens only while every upload
streams). Whether a body has a forbidden type is a constant of the request:
`createUploadPipeline` is given `application/octet-stream` by default, which lets
everything pass, and with other settings the validator decides before the first
byte is written.

A 408 and an installed avatar do not exclude each other: a body received in full
before the timer fired is renamed all the same. `SuccessInstalls` therefore speaks
of answers of success only: whoever was told 200 is among those whose whole body
was put in place, which the history variable `installed` records.

### LruList (and LruCache)

`LruList` is the class: `map`, and `list` with head, tail and the `prev` and `next` of
every node, named by its key. Removing a node leaves its own links, as in the code.
`LruCache` is a map with a sequence of keys in order of use; `Order` reads that
sequence off the links; `lru_list` checks the refinement and LruListProofs proves it. `Sweep` is cut
into its iterations, during which no other method runs (it is synchronous). A
`get` does not renew the time to live, here as there. `destroy` is `clear`. What `get`
and `delete` answer must be what the abstract map answers, and only an entry that
has expired may leave the map by itself.

### WsHub

Sessions (`tokens`, `active` for `activeSockets`), sockets (`sock`, and `token`, the
closure variable `userInfo`), `wsMap` split into `entries` and `watchers`, the
authentication timers and the heartbeat flags. A socket after `close()` is "closing":
it still delivers messages until it is "deaf", and then "closed" when the close event
has run. A rejected connection has no handlers. `Auth`, `Watch`, `Unwatch`, `Pose` are
the message types, `Refuse` any message that is refused (the rate limit is
abstracted: any message may be the one too many), `Event` a broadcast from elsewhere,
`Collect` is `gcTokens`. The contents and the delivery of messages are left out.

The README of the repository speaks of a limit of 10000 connections
(`WS_MAX_CONNECTIONS`); server.ts line 77 computes `MAX_WS` from free memory
instead and does not use the setting. `MaxWs` is the value the code uses.

### FileIndex (and NewestFirst), BackupArchive

Versions of an avatar and backups are kept the same way: a file per snapshot, and
a JSON file that lists them newest first. One module has both. A slot of `Procs`
is an operation (`op`), at an await (`pc`); `list` is the list it has computed from
the index as it read it, which it will write back whatever happened since, and
`doomed` are the files it unlinks on the way. `CopyBegin`/`CopyEnd`, `WriteBegin`/`WriteEnd`
cut a copy and a `writeFile` where others see them half done; an index that two
write at once may be left with no JSON (`Broken`), which reads as the empty list.
`CopyFails` and `Die` end an operation anywhere. An id is a time in milliseconds: two
snapshots may get the same one (`clash`). In half of the initial states (`alone`)
operations come one at a time and succeed; those states carry the promises
about sequential use, and `NewestFirst`, a list of the newest `Max` snapshots, is
implemented there.

`BackupArchive` is the content of one archive: for each file `Stat`, whose size goes
into the header, then `Stream`, of whatever the file holds by then; and the restore,
which parses records out of chunks of any length (`Chunk`, `Record`). A header is two
units of the stream so that a parser can land inside of one. Once a file changed
size in between, what the parser reads as a header are bytes of an avatar, and
the model says no more of that restore.

### RateLimiter

One client before both limiters, each with a limit and a window of its own
(`MaxHits`, `Window`). Without Redis, each has a map of its own, where a
window's entry is deleted by a timer one window and a grace period after its
start, whatever entry the key has by then (`timers`). With Redis both use the key
`ip:<address>`: INCR, EXPIRE and PTTL are steps of their own, so the commands of
overlapping requests interleave, and each may fail (`Fallback`). `seen` and `passed`
record, with its age and the number it was given, who asked and who got through,
and `forgotten` when a timer deleted the entry of a window that was still running.

How much a limiter lets through in the worst case depends on the two durations. A
window that begins after another has ended, but before that one's timer fires,
loses its entry to the timer; its successor begins early and loses its own to the
next timer, and so on. With a grace period shorter than the window one such loss
fits into a window's length, with a longer one several do, and there is no fixed
multiple of the limit that holds for all settings. `Bounded` therefore counts the
losses.

### AntiSpam

One client's violations and its ban, in the process or in Redis. The middleware's
`getBan`, 403 and `recordViolation`, the application's reports, an administrator's
`unban`; with Redis, `hgetall`, `hset`, `hincrby`, `expire` and `del` are steps (`ReadBan`,
`Extend`, `CountViolation`, `CreateBan`, `SetTtl`, `Del`) and may fail (`Fail`). `NaN` and
`Unset` are what JavaScript makes of a hash that has lost its other fields;
`Remnant` is a key that `hincrby` made, with a count and nothing else.

### Login

Server ids of one player: handed out (`Issue`) if the lists admit the player,
exchanged for a session when Mojang confirms (`Verify`, then `Joined`, `NotJoined` or
`NoAnswer`, over `/api` or `/figura`), forgotten by time or eviction. `Sync` replaces the
lists. `WsHub` has the life of the session afterwards.

### GracefulShutdown, RedisHealth

Connections carry requests one after the other; the middleware decrements on
'finish' and again on 'close', never below zero (`Dec`). `Signal` is the handler with
the first evaluation of the drain loop, `Poll` the later ones, `Flushed` the exit.
'finish' and 'close' are separate steps; Node emits the second soon after the first,
so the model allows more interleavings than a quiet server shows.

`RedisHealth` follows one connection through the wrapper's events, the refreshes of
the health snapshot and the polls of the alerts. Refreshes and polls take their
`now` first and await afterwards; their age is how old that `now` is. `recovered` is how long ago a poll last found Redis healthy, which `AlertIsDue`
compares with the threshold when an alert is sent. A threshold of zero is met as
soon as an outage is seen (`Lasts`). Only
the Redis part of the snapshot and of the alerts is modelled: memory and disk are
plain comparisons.

## Runs

`services`, `avatar_store`, `avatar_cluster`, `hub_sessions` and `upload` take one or two
minutes, the others seconds. `avatar_store`, `process` and `services` choose one of
several scenarios or services in the initial state and stay in it: their parts
share no state, so nothing is lost by exploring them side by side and not
interleaved.

| run | instance | shows |
|---|---|---|
| process | 3 connections; 1 refresh, 2 polls, thresholds of 1 (degraded) and 3 (alert) ticks, an await of at most 1 | the counter never exceeds the open requests, every shutdown ends; listeners hear of every outage and recovery once, lasting outages are alerted and lasting recoveries reported, and alerts do not come early, but while the message about a recovery is awaited |
| shutdown_drain (violation) | 2 connections | a clean exit with a response still incomplete: one completed response is counted down twice |
| avatar_store | 2 slots, 2 contents; *figura*: 2 users, requests of Figura clients one at a time; *api*: 1 user, requests of `/api` clients and restores of versions one at a time; both with expiry and crashes; *caches*: uploads, deletes and readers at once; *snapshots*: uploads and deletes with what uploads leave running; *versions*: an upload, a version restore and a backup restore, 1 version kept | the caches are invisible to the clients of one API, one at a time (AvatarRegister); no answer or entry that the file never had, also under torn and overlapping copies |
| avatar_cluster | 2 processes, a slot each | stale entries vanish once writing stops |
| avatar_not_modified (violation) | 1 user, 2 slots, writes never overlap | a profile request that read the old file puts its hash back after an upload was answered, and a download that begins later is told 304 for it |
| upload | 2 uploads out of 3: at the limit, over it, of a forbidden type; bodies of one unit, limits of one tick | what is installed is whole, files are kept, counts are exact, success means installed, uploads end, temporary files go |
| upload_same_name (violation) | 2 uploads of two units with one temporary name | a torn or mixed body is installed |
| lru_list | 4 keys, 2 values, room for 3 | the list is sound, and the cache answers as an LRU map does and drops nothing but what has expired |
| hub_sessions | 2 sockets, 2 sessions of 2 players | no closed socket in a watch set, open sessions exist, whoever authenticates with what and however often |
| hub_liveness | 2 sockets competing for 1 place, 1 session | the limit holds; strangers, dead peers, expired sessions and empty entries go |
| services: versions and backups | 2 operations at once, 2 snapshots kept of at most 3 | operations spare each other's files; alone, index and files agree, and the index is NewestFirst |
| services: archive | 3 files of 1, 2 and 0 bytes, 2 changes while it is made | a restore writes what was streamed, up to the first file that changed its size |
| services: limiters | 2 requests, limits of 1, windows of 2 (upload) and 3 (api) ticks, a grace of 2 | less than twice the limit passes in any window's length, and the limit once more per window forgotten; nobody is refused without cause; a counter in Redis ends |
| services: bans | 2 calls, threshold 2, bans of 2 ticks and at most 3 | lifted bans stay lifted, every ban ends |
| services: login | 2 server ids, 2 verifications, entries of 2 ticks, answers within 1 | no session of an id used before, none long after the lists refuse |
| rate_limit_shared (violation) | 2 requests, Redis | requests to the API use up the limit of uploads |

Why the bounds are enough. A race over one avatar needs a writer and a reader
(two slots), an old and a new content (two), and, for keys that must not be mixed
up, a second user; copies overlap when there are two. Two uploads are what one
temporary name, and one cleaner between them, can confuse (`MaxUploads` bounds how
many of the possible requests are sent); a body of one unit may be missing, and of
two, half written. Four keys with room for three give every position in the list
(head, inner, tail) a neighbour on each side, and an eviction. The hub's handlers
relate one socket to one session or one watch set; the second socket is the listener
of a broadcast, or the one that is turned away. Two operations with three
snapshots and room for two give a stale list, a prune and a file that is taken
away or not; `MaxIds` bounds the snapshots taken. An archive of three files (`ThreeFiles`, of one, two or no bytes) has a record before,
at and after the one that changes; `MaxWrites` bounds the changes.
A window of three ticks has requests at its beginning, inside and at its end (the
upload limiter has one of two, so the limiters differ);
counts beyond both limits are alike and capped at `Cap`. A ban has a first
extension that fits and a second that is capped. In `Login` and `RedisHealth` times
longer than the constants compared with them are alike (`Bound`, `Long`);
`MaxAwait` bounds a wait that the code bounds by a timeout. Symmetry is used in
safety runs only. The theorems below remove these bounds for every safety property.

Fairness. Weak fairness is given to what the event loop or the disk does by
itself: timers (`Timeout`, `AuthTimeout`, `Heartbeat`, `Collect`, `Poll`, `Expire`, the ticks of
`RedisHealth`), a step of a request that is already due (`Step`, `Open`, `Rename`, `Succeed`, `Catch`),
what a refresh or an alert poll awaits (`RefreshStep`, `PollStep`; the code's
commands are answered or fail), and `Closed`, which the `ws` library guarantees by its own
30 s close timer, as `Close` of the Redis client follows its error. Nothing is assumed
of clients: they may stall, vanish or keep a request open for ever. `Clean` has
strong fairness: a crash may come between the cleaner's `stat` and its `unlink`, but
not each and every time. `Converges` supposes that writing stops.

Deadlock is checked everywhere except in the shutdown runs, where the process
is meant to end.

## Proofs

Checked by `tlapm`, for all values of the constants that satisfy the named
assumptions of each module (finiteness of sets that are counted, types, distinct
special values). Where a theorem needs more it has a named hypothesis (`OwnNames`,
`PatientCleaner`, `OneProcess`). RateLimiter, AntiSpam and Login are proved about as `MCServices`
instantiates them: their assumptions are its `LimiterParameters`, `SpamParameters` and
`LoginParameters`, and the theorems speak of `ServicesSpec`, of which each of them is a
part that takes no other steps (`LimiterAlone`, `SpamAlone`, `LoginAlone`). RedisHealth is
proved about in the same way, as `MCProcess` instantiates it (`HealthParameters`), and
`BackupArchive` as `MCFileIndex` does (`ArchiveParameters`: the names that readdir gives are
distinct, and sizes are numbers).

| theorem | states | argument |
|---|---|---|
| `TypeCorrect` of AvatarStoreProofs, UploadPipelineProofs, LruListProofs, WsHubProofs, ProcessProofs, FileIndexProofs | `TypeOK` | inductive with what a component needs beside it: a doomed list that is not empty, a finite map. |
| AvatarStoreProofs!Provenance | `EverOnDisk` | `EverOnDisk` alone is not inductive: what a request has in hand must be from the file's past too, unless it is an upload's own body, and so must the hashes of pending snapshots, the recorded versions and the version a client names. The strengthening `IInv` says so for each of them; one lemma per family of actions, over lemmas on `Put`, `SetDisk`, `Go` and `Answer`. |
| AvatarStoreProofs!ReadsTheFile | `ServesFile`, for Figura clients or for clients of `/api`, if one process serves all requests (`OneProcess`) | what a request has in hand is what the file holds (`InHand`), and so is every cache entry, but for the user whose file a writer has changed and whose entries it has still to update (`Truthful`); a crash between the two empties the caches. For clients of `/api` a version also has to be recorded with the hash of its content (`Recorded`). |
| UploadPipelineProofs!Pending | `PendingIsExact` | a step moves at most one request into or out of `Running`; cardinality lemmas. |
| UploadPipelineProofs!Installation | `FinalIsWhole`, if names are not shared (`OwnNames`) | `Content`: an open file holds exactly the first `got[r]` chunks of its request, and the final one a whole body. Without `OwnNames` it is false (`upload_same_name`). |
| UploadPipelineProofs!FileKept | `UploadKeepsItsFile`, if moreover `RequestTimeout <= MaxTempAge` | the age of a file in use is at most its request's clock; the code does not check this relation between its two settings. |
| UploadPipelineProofs!Success | `SuccessInstalls`, with `OwnNames` | only `Succeed` answers 200, no cause of a failure is a 200, and whoever gets there has renamed its own file, which by `Content` is the whole body (`Told`). |
| LruListProofs!Consistent, Bounded | `ListMatchesMap`, `SizeBounded` | paired links do not exclude a ring beside the list. `Ranked` (there is a rank that grows along `next`) does; with it the last node is the only one without a successor, and removal, insertion and the move to the head preserve both. |
| LruListProofs!ImplementsLru | `IsLru` | the keys of a list whose links are sound stand in one order (`InOrder`), found by following them (`PathIs`: two sequences that follow the same links cannot differ at a first place). Removing a node takes its place out of the order, adding puts a key in front, the tail is the last; beside that, what left the map is undefined and the sweep deletes expired keys only. |
| WsHubProofs!NoGhost, SessionsKnown, Limit | `NoGhostWatcher`, `SessionIsKnown`, `AcceptedWithinLimit` | the first two together with the types are inductive; the limit because every connection that is let in has just been counted. |
| ProcessProofs!CounterBound | `NeverOverCounts` | the counter is at most the number of open requests, since an open request has been counted and not yet left. |
| ProcessProofs!EventsInOrder | `EventsAlternate` | what listeners were told last is what the wrapper says, and a connection that is down is not taken for one that is up (`LinkTold`). |
| ProcessProofs!AlertsAreDue | `AlertIsDue` | an outage's start lies after the last poll that found Redis healthy, by no more than that poll awaited, unless that poll is still sending its message. |
| FileIndexProofs!Safe | `SnapshotsSafe` | call an id `Published` when its file is complete and nobody is taking it. Stale or not, the index, every list in hand and everything doomed name published ids only, and a published id stays so although its file may go: so nobody unlinks or half writes what another one is taking, and nobody reads what is half written. It holds until two snapshots get one id. |
| FileIndexProofs!DirectoryMatches, ImplementsNewestFirst | `IndexMatchesFiles`, `KeepsNewestFirst` | `OneByOne`: at rest the index is sorted and the files are its members, and in each phase of the single operation it says which list will be written and which file differs from the index. Adding in front and deleting one entry keep a list sorted and without duplicates (`InFront`, `WithoutOne`). |
| FileIndexProofs!RestoresWhatWasStreamed | `RestoresExact` | no induction over the stream: in what is left to parse, buffer and archive together, the records of the files still to be restored exactly are whole and come first, each beginning where another one ends (`Intact`). The one that begins first begins where the parser is (`FirstWaits`); taking it leaves such a stream (`Consumed`), and so does moving a chunk. While the archive is made, what is there ends with such a record for as long as no size has changed (`Added`). |
| AdmissionProofs!LiftHolds, EveryBanEnds | `LiftSticks`, `BansEnd` | what an extension under way will write (`Writes`) stays within the maximum of whatever ban it will find, since no time passes between commands and a newer ban is younger; a key without a TTL belongs to a call that is about to set one. |
| RateLimiterProofs!LimitsBind | `Bounded` | within a window the numbers are given one after the other, so of two requests with the same number a window ended after the older one, by itself (once in the stretch, at most) or because a timer deleted its entry (`Separated`). Mapping each request let through to its number and the latest of these ends before it is therefore one to one, and leaves out the first number after the end of the window that ended by itself (`PassedBound`), which makes the bound strict. |
| RateLimiterProofs!NobodyRefusedEarly | `RefusedOnlyOverLimit` | a count of `n` means that each number up to `n` was given since the window began (`Numbered`), which is less than a window ago. |
| RateLimiterProofs!CountersEnd | `LimitWearsOff` | the request whose INCR made the key is the one that sets its TTL, and a key with no TTL cannot expire before that. |
| AdmissionProofs!NoSecondUse, AdmissionHolds | `NoReplay`, `SoonAfterAdmission` | an id that was exchanged has no entry any more and gets no new one (`Spent`); no more time has passed since the player was admitted than the entry has lost, or than that and the age of the verification (`Fresh`). |

Only model-checked: everything that says "eventually" (`ShutdownEnds`, `Converges`,
`UploadsEnd`, `TempFilesGo`, `AlertsFollow`, the four properties of `hub_liveness`), since
the proof system has no rules for fairness and ENABLED here. Every other property of
the passing runs has a theorem.

## Not modelled

- **Badges** (`figura-api.ts` 361-426): one copy per session and one on disk, written
  without ordering; `GET` answers from the oldest session of the player, and a
  login over the Figura API never loads what is on disk. Nothing in the
  repository says what two sessions should see, so there is nothing to check.
- **Broadcast across processes**: the local half is `WsHub`'s `Broadcast`. Redis
  pub/sub keeps nothing, and ioredis resends what was not acknowledged, so
  neither delivery nor order nor uniqueness is promised. Two things are worth
  knowing: each process hears its own publications, so the echo reaches the
  socket that `excludeWs` left out; and the subscription is made once, at start,
  and skipped if Redis is not connected by then (server.ts 1042).
- **WebSocket manager** (`ws-manager.ts`): nothing constructs it; the server has a hub of
  its own, which is modelled.
- **Activity log and webhooks**: a ring buffer, and up to three attempts of a POST
  whose outcome nothing reads.
- **Memory and disk** in the health snapshot and the alerts; **listBans**; headers and
  the stores' `decrement` and `resetKey`, which express-rate-limit does not call as
  it is configured; the request counter of previews.
- **Configuration, administration, statistics, log files, geolocation, thumbnails,
  dashboard, build output**: no protocol of their own.
- `GET /figura/v1/user/bulk` and `GET /api/online-users`, which cannot be reached.

What would be worth adding: `AvatarStore`'s set of versions replaced by `FileIndex`.

## Where the code and its own words differ

Four runs expect a violation, and each quotes the line it contradicts
(`PROJECT.json`, "findings"): the drain counts completed responses twice
(`shutdown_drain`); a profile reader that began before an upload puts the old hash
back after the upload was answered, and a client that asks later is told 304 for a
version the file no longer has (`avatar_not_modified`); two uploads in one
millisecond share a temporary file (`upload_same_name`); with Redis the two
limiters share one counter (`rate_limit_shared`).

The modules show more of the kind, without a run of their own.

- `Uploaded` with "upload", `Deleted` with "delete" and `Restored` leave the `figura:` profile
  of the replaced avatar until it expires, although server.ts line 814 says
  "Invalidate caches". `BackupEnd` leaves the previews, although line 890 says
  "Invalidate all caches after restore".
- `Snapshot` records the hash of the upload that asked for it with whatever the file
  holds by then, although avatar-versioning.ts line 19 says "full SHA-256 of the
  file"; and it runs after the upload, although server.ts line 637 says "before
  overwriting".
- `Auth` leaves the socket in `activeSockets` of its earlier session, so `Collect`
  later closes a socket whose own session is valid.
- Snapshots that overlap: an entry written from a stale list is lost while its
  file stays for ever, and the list need not be newest first; "Stores up to
  MAX_VERSIONS" holds of the list and not of the directory. A backup that fails
  leaves its partial archive behind.
- At the very instant of expiry `getBan` still finds a ban and `recordViolation` no
  longer does, so the client that asks then is banned anew for the full time
  (anti-spam.ts 53, 76). An extension under way undoes a lift in Redis: the key
  comes back with what was still to be written. If that is the end and the count,
  `createdAt` is missing, `expiresAt` becomes NaN at the next extension, and the client
  stays banned until the TTL; the count alone bans nobody.
- When the ban of a refused request cannot be extended, the middleware has
  answered 403 and then calls `next()`: the handlers run all the same
  (anti-spam.ts 251-258; outcome "both").
- The repository's README says of the rate limits "Per-user (not just IP)" (line
  119), but they run before authentication, so their key is always the address;
  and "Escalating bans" (line 123), but the server never reports a violation to
  the anti-spam module.
- A longer outage of Redis makes the health snapshot milder: "unhealthy" at first,
  "degraded" once `degradedAfterMs` have passed.
- An INCR whose EXPIRE fails, or whose process ends before it, leaves a counter
  without an end: the client stays limited until somebody deletes the key.
- versions.json is truncated and then written. A reader, or an end of the process,
  in between finds no JSON; `readMeta` then answers an empty history, and the next
  snapshot makes that permanent while the files of the lost entries stay.
- `restoreVersion` copies over the avatar in place, so a reader may see a torn file;
  a copy that fails removes by name what it was writing, which is the avatar.
- A health poll that runs while the message about a recovery is awaited finds the
  start of the outage that is over. If Redis is down again by then, it alerts before
  that outage has lasted for what metrics-alerting.ts line 12 calls "How long Redis
  must be disconnected before alerting".
- A second SIGTERM during the drain ends the process at once, as the handler is
  registered with `once`; nothing in the repository says otherwise.
- Two verifications of one server id that overlap may each make a session.
- A verification over `/api` forgets the server id also when Mojang says no, over
  `/figura` it keeps it. A player who is blacklisted keeps the sessions he has.
- A connection over the limit is closed without an error listener (server.ts 297).
