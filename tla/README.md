# JamAi in TLA+

JamAi is the backend of a shared listening session (a *JAM*): FastAPI on one
asyncio event loop, PostgreSQL through SQLAlchemy's async ORM, Spotify and
YouTube Music as the sources of tracks, Spotify also as the player. This
directory models the parts of it in which several coroutines work on the same
state, checks them with TLC and proves what matters most with TLAPS.

All paths below are relative to the repository.

## 1. The system

### Components

| component | state | operations | talks to |
|---|---|---|---|
| Queue engine (`app/services/queue_dna_engine.py`, `queue_optimizer.py`) | `queue_tracks`, `session_candidate_tracks`, columns of `sessions` | first build, rerank, guest merge | adapters, database, playback, broadcasts |
| Drift (`time_drift.py`, `main.py`) | `sessions.session_dna`, candidate scores | sweep every few minutes over connected sessions | registry, queue engine |
| Queue requests (`routers/queue.py`) | `playback_events`, buffer of the last queue | skip, play, read, reconnect, WebSocket | background tasks |
| Sessions (`session_service.py`, `routers/sessions.py`) | `sessions`, `session_participants`, a connection of the pool per request | create, join, close, history | guest merge |
| Export (`playlist_service.py`) | `sessions.status`, `queue_tracks`, playlists on the platform | export, generate | adapter |
| Platform calls (`app/adapters/`, `retry_handler.py`) | one circuit breaker per user, tokens in adapters | every public adapter method, refresh | Spotify, YouTube |
| Native playback (`spotify_playback.py`) | Spotify's player and its queue | start a track, append tracks | adapter |
| Live updates (`connection_manager.py`, `debounce_service.py`) | registry of sockets, pending timers | connect, disconnect, broadcast, schedule | optimize_queue |
| Account linking (`oauth_state_service.py`, `routers/spotify.py`, `routers/auth.py`) | `oauth_states`, platform columns of `users` | state, exchange, YouTube connect, refresh | Spotify |
| Authentication (`auth_service.py`, `routers/auth.py`) | `users` | register, login, refresh | |
| Rate limiter (`rate_limiter.py`) | hits of each client | check | |
| Cache (`cache_service.py`) | entries with a time limit, in memory | get, set | read and filled by the adapters |
| YouTube Music adapter (`youtube_adapter.py`) | none of its own | cached reads, search by category, create a playlist | cache, YouTube |
| Session buffer (`session_buffer.py`) | last queue of each session | get, set | reconnect |
| Scoring (`session_dna.py`, `match_score.py`, `mood_to_audio_features.py`, `social_overlap.py`, `track_resolution.py`) | none | pure functions | |

### How they interact, and what is hard

Everything runs on one event loop, so a step is what happens between two
awaits. But nearly everything awaits: each SQL statement, each platform call,
each send. A request handler answers and leaves a background task behind that
opens its own database session; nothing serialises the tasks of one JAM. The
consequences are the subject of this project:

- **State read before an await and used after it.** A skip names a row id that
  another rerank replaces; a rerank compares with what it loaded; the identity
  map and SQLAlchemy's change detection keep old values alive; an adapter keeps
  the tokens of the row it was built from.
- **Check, then act.** Builds look for a pool before they scan, for existing
  keys before they insert, for an unconsumed state before they consume it.
- **Locks the code does not mention.** `DELETE` and autoflushed `UPDATE`s lock
  rows until the commit; a drift and a skip can wait for each other.
- **Results out of order.** A platform call that began before the breaker opened
  answers while it is half-open; a broadcast sends while sockets come and go.
- **Partial failure.** A build commits candidates participant by participant;
  appends to Spotify's queue fail one by one and may be repeated; a scan that
  missed a playlist is cached as if it were whole; a sweep goes on after a
  session's statement failed.
- **A bounded pool.** Each request and each background task holds a database
  connection, some hold one while they wait for a second, and a WebSocket
  handler holds one for as long as its client stays.

What makes each component correct, in a sentence: the queue is contiguous, has
exactly its first row current and a status that says how full it is; the
current track stays unless it is skipped; a skip happens; no candidate is stored
twice; no task waits for ever; the breaker keeps its timeouts under overlapping calls
and recovers; playback follows the stored queue; every served client is told of
every queue; a user's tokens belong together; cached answers are bounded in age;
codes and participations are unique, a closed session stays closed and its export
finds what was listened to; the time of day keeps to its schedule and only moves
forward, and an undisturbed drift leaves the queue ranked for it.

## 2. Modules

| module | what it models |
|---|---|
| `QueueRows` | rows of the queue and the pool, the threshold ladder, ranking, deduplication, overlap, status: the pure steps of the engine |
| `QueueTasks` | the requests and background tasks that write one session's queue, statement by statement |
| `BreakerGate` | what a circuit breaker promises (abstract) |
| `PlatformCalls` | overlapping adapter calls of one user with retries, nested refreshes and the breaker; implements `BreakerGate` |
| `PlatformCache` | the TTL cache and the adapter methods that assemble answers from it |
| `NativePlayback` | what tasks do with Spotify's player after a queue commit |
| `SessionLifecycle` | create, join, close, export, skip, generate and sockets, with their connections |
| `DriftSweep` | the scheduler and its sweep over all sessions on one database session |
| `LiveUpdates` | sockets, debounced build and broadcasts of one session |
| `AccountLink` | the platform columns of one user, OAuth states, adapters that refresh |
| `*Proofs` | theorems about the module of that name |
| `MC*` | instances for TLC |

The modules are separate views of one system and meet at events that each of
them has: `QueueTasks`' commit of a build or a rerank is `NativePlayback`'s
`BuildFirst`/`BuildAgain`/`Rerank` and `LiveUpdates`' `Commit`; each call that
`NativePlayback` or a scan makes is a call of `PlatformCalls`; the refresh inside
such a call is `AccountLink`'s `Refresh` and `Persist`. `DriftSweep` and `QueueTasks`
look at the same drifts and reranks from two sides: `QueueTasks` has the statements and
rows of one session with its two DNAs, `DriftSweep` all labels and sessions, and of a
candidate or a queue only the time of day it is scored for. `SessionLifecycle`'s `BeginTask` and `EndTask` stand for the merge or rerank
that `QueueTasks` has in full, of which only the rebuilt queue and the connection
matter there. A `PlatformCache` call is a whole call of `PlatformCalls`, retries
included. A task of one module that may fail at a step does so because a module
below it can.

### QueueTasks

One task record holds what a request or background task keeps in locals and in
its identity map: the session row as loaded (`view`), the queue rows it saw
(`seen`), the candidates (`cands`), what is left to persist (`todo`). Each action
is one SQL statement of the code, or the part of a handler around one:

- requests: `Connect`, `Reconnect`, `Skip` and `PostSkip`, `Join`, `Drift`;
- `_build_initial`: `Load`, `Scan`, `Persist`, `Insert` (per participant), `Write`;
- `on_guest_joined`: `ReadOverlap`, `BumpOverlap`, then persist and rerank;
- `_drift_one_session`: `Rescore`, then rerank;
- `rerank_from_candidates`: `ReadQueue`, `ReadPool`, `Delete`, `Commit`;
- `Fail` at any of them, and `DeadlockVictim`, PostgreSQL's answer to a circular
  wait.

READ COMMITTED is modelled as the code meets it: a statement sees what is
committed, deletes and updates lock (`WaitsFor`), a unique key that another
transaction takes first makes the insert fail (`Overtaken`), and an update of a
column is emitted only when the value differs from the loaded one
(`StatusAfter`). The identity map is weak: candidates that a join has updated and
let go of are read afresh by its rerank (`ReadPool`).

Abstractions: a score is the number of rungs of the ladder a track passes; the
artist count of the social sort is folded into the overlap; a member has one
playlist; track resolution gives the host-platform twin or fails. The score
penalty a skip writes to the skipped row is left out: the rerank it schedules
deletes the row and the penalty with it. `_build_initial` writes all accepted
tracks, also beyond the target size, and so does `Write`.

### PlatformCalls

`Enter` and the ways a call ends (`Succeed`, `Fail`, `HttpError`, the refresh
steps) change the breaker as `CircuitBreaker.call` does. `failures` is counted up
to the threshold, since it is only compared with it; time is counted in ticks up
to the recovery timeout while the breaker is open.

### PlatformCache

An entry is reduced to the two things its readers cannot see: how old the oldest
platform answer in it is, and how long ago a call behind it failed. `kept` is the
time since it was stored, which `Get` compares with the key's limit. A reader
(`Start`) works through a list of keys: `Hit` takes an entry without suspending,
`Call` begins a platform call, `Answer` stores and continues with what that answer
leads to (`Follows`: categories lead to pages, pages to playlists), `Assemble`
begins a result that is itself stored (known tracks; artist genres, up to `Slots`
calls at once), `Finish` stores it, complete or not. `Fail` is a call that failed
for good; where the code catches it and goes on, so does the reader, and where it
gives up, it gives up. `Refuse` is the open breaker in front of an adapter method, which
refuses also what is cached; known tracks whose categories are refused come back empty
and are not stored. `Running` and `Alone` say that a coroutine runs without
interruption up to its next await; `Tick` passes time while all await or rest.

### NativePlayback

The commit of a task is one step here, because `QueueTasks` takes it apart;
hence two first builds never both write. `Begin` makes a task one of the kinds that
touch Spotify: a rerank after a skip or reconnect, a build, a `/play` request. An add
is tried up to three times, and each attempt may take effect although its answer is
lost: `Add` appends none to three copies, and may fail nevertheless.
`alone` and `good` are history: nothing else ran or played on, and nothing failed.

### SessionLifecycle

A request is the point it has reached and the connections it holds; a step is a SQL
statement, a commit or a platform call. `held` counts the request's own connection
and that of its background task: the framework closes the dependency's session only
after the background task, so a join that has refreshed its row keeps one connection
while its task waits for another (`Refresh`, `BeginTask`). `PoolTimeout` is the
pool's error after its waiting time, for a request as for a background task.
`ChooseCode`, `Flush` and `CommitCreate` are the three parts of a create between which
another can take the code; an uncommitted row of the same code makes the insert wait.
Events refer to rows: `CommitSkip` fails when a rebuild has deleted the row read
before, and deleting rows leaves events without a link (`linked`). `heard` is what
an export has filtered; `calls` counts what its playlist calls did on the platform.
`listens` is history.

### DriftSweep

`label` is the committed time of day and `told` the one clients know of. `pool` says whose
candidates are stored and for which time of day they are scored, `queue` for which ones
the queued tracks are ranked, the current row excepted, whose score a rerank keeps.
`Wake`, `Select`, `GetSession`, `Rescore`, `Drift`, `Broadcast` and `EndSweep` are
`start_drift_scheduler`, `_drift_sweep` and `_drift_one_session`: `Rescore` reads and scores
the candidates, `Drift` is the commit of all of it, with a last read of the pool. `Raises`
is the `except` block, which logs and continues on the same database session, aborted
if a statement failed (`broken`). `Restart` is the lifespan handler: tasks are
cancelled anywhere, what is not committed is gone, sockets are gone. Labels are
indexes and the clock is in ticks, of which `StepTime` make one step of the schedule.

The other tasks of a session run beside the sweep, one for each participant
(`writer`): a build or a join scans with the DNA it has read (`Scan`), inserts
participant by participant (`Insert`) and writes its tracks (`Build`) or reranks
(`ReadPool`, `Rerank`); a skip's rerank is one that begins with `ReadPool`;
`generate_playlist` replaces the queue (`Generate`); any of them may give up. A rerank
deletes the rows it has read, so those another task has committed since may remain
(`Stays`). `settled` is history: the last drift of the session found no other task at
work.

Abstractions: all candidates count as queued, the threshold and the size of the queue are
`QueueTasks`'; a rerank reads queue and pool in one step; one participant stands for
all that a generated playlist scans; the rows that a skip deletes leave nothing to score.

### LiveUpdates

`connections` is the registry and `up` what the network knows; the handler of a
socket can lag behind it. `Send` may reach a client that has just gone. The
tasks are the ones the debounce timer starts (`Build`) and the ones other requests
start (`Rerank`).

### AccountLink

A token carries its platform and the number of the link it comes from. An
adapter holds the row it was built from (`row`), and `Persist` writes to the
row as it is now.

## 3. Runs

Passing runs and their bounds:

| run | instance | shows |
|---|---|---|
| `queue_writers` | host and guest, four tracks of which two are copies of one song, queue of two, public tracks, a build and any two of skip, reconnect, join and drift | `CleanQueue`, `EventsSurvive`, `OneCandidatePerKey`, `CurrentKept`, `SkippedGone`, `WaitsEnd` at 566 thousand states |
| `platform_cache` | two readers in four pairs of kinds, one page, one playlist, three artists at two a time, one failure, limits of one and two ticks | `AnswersFresh`, `PartialWithinADay`, `Recovers` |
| `breaker_calls` | three calls, threshold 3, timeout 2, three attempts | `ClosedBelowThreshold`, refinement `GateKept`, `Recovers` |
| `playback_sync` | two tasks, three tracks, native queue up to four | `StartsCurrent`, `UndisturbedSync` |
| `session_lifecycle` | eight mixes of three requests, two users, three codes, two connections, three attempts | `CodesDistinct`, `OneParticipation`, `ClosedForGood`, `ExportsListens`, `FillsLimit`, `RequestsEnd` |
| `live_updates` | two sockets, two debounced builds, one other task, delay 2 | `ServedRegistered`, `EveryoneTold`, `BuildsApart` at 3 million states |
| `live_answered` | two sockets, two builds | `ConnectAnswered` |
| `drift_sweep` | three sessions, one without a pick and one created later, without other writers; three labels, clock to 5, one error, one restart | `OnSchedule`, `CatchesUp`, `ClientsTold` |
| `drift_writers` | one session whose two participants each have a task at any time; three labels, clock to 2, one error | `RankedWhenSettled`, `ForwardOnly` at 3.3 million states |
| `link_account` | two exchanges, two states, two adapters, three links | `TokensPaired`, `SettledStays`, `SpotifyRecovers` |

Why these are enough: the hazards are races of two parties, one of which reads while the
other writes, and a third that sees the result. Each instance has the two and one more.
Two copies of a song under different owners, and a queue that the pool can overfill,
underfill or leave empty under one of the two DNAs, are what the engine's branches
distinguish. Three links are an old one, its successor and one that overtakes it. Two
connections are as many as one join needs, so that any other request can stand in its
way. A cache limit of two ticks with calls of one lets an entry expire while what was
assembled from it is stored, and be read once more before that expires. A generated
queue has an order that fills it exactly and one with a track that does not fit before
one that does. The clock of the sweep reaches past the last label for one session and
not for the other; beside other writers it allows two drifts, so that a task which began
before the first may write after the second. Tasks, sockets and requests act once; that
bounds a behaviour, and is why `CHECK_DEADLOCK FALSE` is set where all may have acted.
In the queue runs `Quiet` marks that state; as a task may fail at any time, it is
`WaitsEnd` and not TLC's deadlock check that says no task waits for ever. Readers of the
cache and the sweep go on for ever, and deadlock is checked there. That a request ends,
in `session_lifecycle`, is the liveness property `RequestsEnd`.

Symmetry is used for tasks that may play the same roles, participants, sockets and tracks, and
only in runs of safety properties.

Fairness:

- `PlatformCalls`: calls are answered (HTTP client timeouts), time passes, and
  users keep calling: without a call an open breaker stays open, as in the code.
- `LiveUpdates`: handlers and tasks go on, and due timers are run. A send to a
  client that has stopped reading ends with the server's ping timeout.
- `PlatformCache`: requests keep coming, calls end and time passes. The three are
  strong because time passes only while all await, and a reader runs only while no
  other does; on the event loop neither lasts.
- `SessionLifecycle`: weak fairness of each request's steps, and of the pool's
  waiting time. An open socket may stay for ever, so it is not among what must end.
- `DriftSweep`: weak fairness of the scheduler, whose loop survives every exception, and
  of the clock. Errors and restarts are bounded: under a database that never answers
  nothing is promised.
- `AccountLink`: strong fairness of refreshing and of writing the new token: an
  access token expires hourly and the account is in use.

Violation runs show where the code does something else than its own texts say.
Each is a finding in `PROJECT.json` with the quotation:

| run | property | in short |
|---|---|---|
| `skip_ignored` | `SkipTakesEffect` | a rerank between a skip and its own rerank makes the skipped track protected |
| `sweep_isolation` | `SweepIsolates` | a failed statement fails every later session of the same sweep |

The behaviours of the models show more, which no run asks about: several of them have
one cause, and in most the next undisturbed task repairs the effect:

- a first build that commits late puts a second position 0 beside the playing track
  (`queue_optimizer.py:159`; `docs/SPEC.md:238`);
- reranks queue pool tracks that were never resolved to the host's platform
  (`queue_dna_engine.py:483`; `docs/SPEC.md:135`);
- tracks are scanned under the label of the platform that is linked when the scan runs,
  not the one that was selected (`queue_dna_engine.py:113`, `:125`);
- answers of 429 are not among the errors that open the breaker, however many there
  are (`circuit_breaker.py:53`);
- an assembly from which a failed lookup is missing is cached for a day as if it were
  whole (`youtube_adapter.py:347`, `spotify_adapter.py:332`; `PartialWithinADay` says for
  how long it is served);
- a join that has found the session open may commit after the host's close, and is then a
  participant of a closed session (`session_service.py:92`);
- an export counts what it has read: listens that commit after its read are not in it,
  and two exports of one session make two playlists (`playlist_service.py:138`); so may
  one whose call is tried again (`spotify_adapter.py:465`);
- joins that keep their own connection while their tasks wait for another may hold the
  whole pool; only the pool's timeout ends it, and with it the merges
  (`routers/sessions.py:55`);
- overlapping builds all scan and write (`queue_optimizer.py:75`), and a song that
  two participants own is stored, and by a rerank queued, twice (`queue_dna_engine.py:483`);
- the build status may keep another task's value until the next rerank that nobody
  disturbs (`queue_dna_engine.py:544`; `CleanQueue` says when it is right);
- a guest's playlists may be counted by a build and again by the merge
  (`queue_dna_engine.py:428`);
- a drift does not rescore candidates that a build has yet to insert, and a rerank that
  overlaps it may queue tracks by the scores of before (`time_drift.py:124`,
  `queue_dna_engine.py:483`; `RankedWhenSettled` says when the ranking is right);
- the failing refreshes inside one call are counted as calls of their own, so one
  call may open the breaker (`platform_factory.py:42`);
- a rerank may start a song that another task or Spotify itself has started since,
  two tasks may append at once, and one may append a track that has become position 0
  (`queue_optimizer.py:283`, `spotify_playback.py:94`);
- a WebSocket handler that ends otherwise than by `WebSocketDisconnect` stays
  registered until a send to it fails (`routers/queue.py:92`);
- two deliveries of one deep link both pass when they overlap
  (`oauth_state_service.py:59`; `SettledStays` is what remains true), and a refresh may
  write a Spotify token to an account that has become a YouTube account
  (`spotify_adapter.py:123`; `TokensPaired` excepts it).

Operators marked `mutant` are plausible bugs of the definition that follows them.
No specification uses them; each checked property is one that some mutant breaks.

## 4. Proofs

Every theorem is checked by TLAPS for all values of the constants, from the
assumptions named in the modules. Most of these only say what kind of thing a
constant is: finite sets of members and tracks, positive sizes, thresholds and
delays, distinct model values. The others, and what in the code they rest on:

- `OrdersOfTracks` (`SessionLifecycle`): the limit of a generated queue is not negative
  (`duration_positive`, `app/schemas/schemas.py:190`); durations are whatever the platform
  reports, also 0 or less.
- `SequencesRead` (`PlatformCache`): a user's library lists a playlist once. Pages may
  repeat a playlist, and the artists of the scanned tracks may repeat.
- `KeysApart` (`PlatformCache`): the keys of different reads differ; each has a prefix of
  its own, and an artist's answer has no key.
- `TimesNat` (`PlatformCache`): the short time limit is not longer than the day long one
  (`cache_service.py:3`).

All safety properties that a run checks are proved; section 3 has the instances on which
TLC agreed first, the inductive invariants included.

**QueueTasks.** `TypeCorrect` (`[]TypeOK`) and `QueueStaysClean` (`[]CleanQueue`). The
invariant says what a task at each point holds: rows it saw have ids below
`nextId`, its candidates are candidates, its plan is a sequence of tracks, the
stored rows have distinct ids. The clean queue is preserved because `clean` is
recomputed at every write: a writer that saw the rows as they are deletes all of
them, so what is left is `RowsFrom` of one sequence, contiguous from 0, and the
status is the one of its length because the loaded status was the stored one. The
lemmas about `RowsFrom` carry this part.

`OneCandidateEach` (`[]OneCandidatePerKey`) and
`SkipsOutliveRows` (`[]EventsSurvive`): an insert only adds a batch whose keys nobody
has taken, so what remains is that a batch has no key twice (`BatchesUnique`): it comes
from one owner's scan, which `Scored` makes from a set, and every other statement that
touches the pool rewrites candidates in place under the same key (`RewrittenUnique`).
For the events, a commit that deletes rows unlinks exactly their events (`Linked`), and
a task that goes on after a skip has left one, because the row it read is still the one
it skips (`SkipRead`) when it inserts the event or ends.

`CurrentTrackKept` and `SkippedSongGone` (the action properties `CurrentKept` and
`SkippedGone`): a rerank that saw every row deletes every row, so what it leaves is
`RowsFrom` its plan (`RerankReplaces`). If one row is current, it is the one the rerank has
protected or skips (`OnlyCurrentSeen`), whatever happened before. Protected, its track heads
the plan, and the deduplication takes every other track of its song out of the rest;
skipped, all tracks of its song are taken out (`RebuiltSongs`).

`NoneWaitsForever` (`[]WaitsEnd`): there is one sweep, so at most one drift, and only the
drift keeps the session's row and the pool's locked while it waits for queue rows
(`OneDrift`, `JobKept`). Hence a task waits for a commit under way or for the drift, the
drift only for other tasks' commits, and such a commit only for the drift (`WaitedFor`). A
chain of waits has at most three links, and a circle is always a pair, the drift and a
rerank, which PostgreSQL breaks (`DeadlockVictim`). That every task then comes to its end
follows because none has an endless loop: what a task has left to persist is a sequence
that each round shortens.

**PlatformCalls.** `TypeCorrect`, `ClosedHasRoom` and the refinement `ImplementsGate`. A
call changes the breaker in one of four ways: it enters, its failure is counted, its success
is, or it leaves the breaker alone (`BreakerKept`). The count saturates at the threshold,
and whatever closes the breaker resets it, so a closed one has room; each of the four is a
step of the gate or a stutter, for nested refreshes, too.

**PlatformCache.** `CacheTyped`, `CacheFresh` and `CachePartial` (`TypeOK`, `AnswersFresh`,
`PartialWithinADay`). None of the bounds is inductive, because an assembly ages while it is
put together; the proof counts the calls that a reader may still start. `Due` says how many
these are: the pages left to read and, while a page may still name more of them, every
playlist there is; once no page is left or awaited, the playlists in the list, which has
none twice (`DistinctShort`). Reading a key makes the number one smaller (`DueRead`), and what
its answer leads to was already counted (`DueAnswered`). With `n` calls to come, data may be
`n` calls younger than the bound and no less (`Within`); a call that lasts spends its own
share. Artist calls overlap, and are counted the other way round: what is read is no older
than as many calls as have ended (`Elapsed`), since one that ends was under way together with
all that are still awaited. An entry ages by `kept` and no more (`EntryOK`); a hit adds at most
one time limit, and only an assembly can bring another assembly's entry into an answer,
with nothing else beside it (`Served`). A refused read counts as one that was made. The properties are these bounds at the end
(`WhenEnds`). Repeated artists, a semaphore of any width and calls of no duration are included.

**NativePlayback.** `TypeCorrect`, `AloneStartsCurrent` and `UndisturbedInSync` (the action property
`UndisturbedSync`). The invariant says that
a task that is still alone is the only active one and that what it holds as the
current track is the head of the stored queue: nobody else has written since. For the
third, it also says what a lone and undisturbed task has achieved (`SyncedSoFar`): once it
has passed the start, a new position 0 plays, and while it adds, the end of Spotify's
queue followed by the tracks still to add is the stored queue after position 0 (`Appended`).

**SessionLifecycle.** `JoinCodesUnique`, `TakesPartOnce`, `StaysClosed`,
`ExportsWhatWasHeard`, `FilledToLimit` and `TypeCorrect`. Neither uniqueness is inductive: two requests may
have looked for the same free code or the same missing member. The invariant says that
a session whose insert is not committed is not there (`Unborn`), that codes of flushed
and of committed sessions differ (`PendingApart`), and that participants and joins refer to
sessions there are (`MembersVisible`, `JoinsVisible`), so a new session starts without
participants. For the export, the events played past half are exactly the listens
(`ListensKept`): rebuilds of the queue take the link from an event and nothing else.

`FilledToLimit` (`[]FillsLimit`) is about a recursive function, `Filled`. The proof first shows
that the function exists and then that after `n` tracks each of them is picked, or has no
duration, or no longer fits, which stays so because the sum only grows. Both go by
induction on `n`, in the form of a least counterexample (`LeastNumber`, from the
well-foundedness of `<`), since induction theorems over a predicate cannot be
instantiated here.

**DriftSweep.** `KeepsToSchedule`, `SettledStaysRanked`, `OnlyForward` and `TypeCorrect`. A
drift commits a target it computed some time ago. The invariant carries that such a target
lies between the pick and what is expected now, and ahead of the committed label
(`TargetOnSchedule`); the first stays so while the clock goes on because whole steps of
elapsed time never decrease (`StepsGrow`), the second because no other task moves the label.
`RankedWhenSettled` alone is not inductive: a task that has read the pool writes what it
holds. `SettledHeld` adds that in a settled session everything a task holds or has still to
insert is for the committed label, too. It is re-established by a drift that finds no task
at work, and what a task reads from then on is stored, or scored for the label. A drift in
between ends it, unless it is itself one that nothing overlaps.

**LiveUpdates.** `ServedStayRegistered`, `BroadcastTellsEveryone`, `DebounceSpacesBuilds`,
`TypeCorrect`. A socket in a `dead` list is no longer being served, which keeps
registered what is served; a socket that was due and is served is still to be
sent to or has been told; and every pending timer has at least as many ticks left
as the last build needs to be a delay ago, of which there is one since `Schedule`
cancels.

**AccountLink.** `TokensStayPaired`, `UsedUpStatesStay` and `TypeCorrect`. A token about
to be written is of the link of the adapter's refresh token, so when the account still
has that refresh token the pair agrees. A used-up state is preserved by every step
because only `Validate` sends an exchange to consume, and it looks at the state.

Only model-checked: the liveness properties (both `Recovers`, `RequestsEnd`, `ConnectAnswered`,
`CatchesUp`, `ClientsTold`, `SpotifyRecovers`). They need fairness and
`ENABLED`, which the proof system does not reach.

## 5. Not modelled

Parsing of platform answers, text normalisation, decimal arithmetic of scores,
JWT and encryption, request validation, migrations, the admin route. `PROJECT.json`
lists each with its reason. Of the parts with state, three are left out:

- **Rate limiter.** One check per request, without an await, over the timestamps of one
  client: nothing overlaps it.
- **Reads of the queue and the session buffer.** A read changes nothing but the buffer,
  which keeps what the last reader to finish saw; the client reads again after the next
  broadcast.
- **Registration and login.** One insert each behind a unique key; tokens are stateless.

Of modelled parts: the score penalty of a skip, feature enrichment, names and addresses
of playlists. In a sweep, exceptions other than the database's: one raised after
`session_dna` was assigned would leave the assignment to be committed with the next
session, but scoring and ranking rows that are stored raises none. In `PlatformCalls` a
call has one nested refresh under way at a time; the eight artist calls that one
`get_artists_genres` may have (`PlatformCache`) do to the breaker what refreshes of
overlapping calls do, which are there.

Observations about code left out: `generate_playlist` replaces the queue without marking a current row or
broadcasting; a refresh answered by an error other than 401 is not recognised as
one and fails on the missing key.

## 6. Plan

What the model covers is as far as it is meant to go, and every safety property is proved.
What remains:

1. The safety halves of other liveness properties, as theorems of their own like
   `NoneWaitsForever`: that what keeps a request waiting is never itself (`RequestsEnd`).
2. Abstract specifications beside `BreakerGate`: the cache as one in which every answer has an
   age bound per key, the drift as a clock that moves a label forward (`OnSchedule` and
   `ForwardOnly` are its two halves).
