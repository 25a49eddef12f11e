# A TLA+ verification of s3p-tape-service

The service keeps, for every expert, a *tape*: the list of documents the expert
has still to score. It lives in Redis; a worker process fills it from the
platform database, the api shows it page by page, tells its clients over
WebSockets what happens to it, and takes off it whatever is scored. This directory holds a TLA+ model of that program, the TLC runs
that check it and the theorems TLAPS proves about it. Paths below are relative
to `src/src/tape_service/` unless they begin with `src/`.

Contents: 1 inventory, 2 modules and how they correspond to the code,
3 properties and runs, 4 fairness, 5 where code and documentation disagree,
6 proofs, 7 what is not modelled, 8 plan.


## 1. Inventory

### Components, their state and their operations

| Component | State | Operations | What makes it correct |
|---|---|---|---|
| Tape store (`store/tape.py`) | per user, in Redis: `tape:cfg` (hash with the field `dirty`), `tape:cfg:src`, `tape:entries` (sorted set, the score is the position), `tape:run:*` | get/upsert config, replace sources, mark/clear dirty, append (ZADD NX), page, count, highest position, remove, delete all, run log | a position names one document and stays; documents arrive at the end |
| Per-user lock (`store/lock.py`) | `tape:lock` with a random token and a TTL of 600 s | SET NX EX; compare-and-delete script; EXISTS | runs exclude one another; nobody deletes another's lock; never locked for good |
| Generator (`worker/generator.py`, `db/candidates.py`, `worker/scheduler.py`, `worker_entry.py`) | locals of a run | `tick` over all users with a configuration; `generate_for_user`: rebuild a dirty tape, top up a clean one | a rebuild mixes no configurations, keeps the order, and is repeated if it dies half way; what is eligible gets on the tape |
| Score listener (`worker/listener.py`, `src/docs/sql/03-score-notify.sql`) | daemon thread, LISTEN connection | one ZREM per inserted score | scored documents leave the tape however they were scored |
| Writing requests (`api/config.py`, `api/tape.py`, `db/score.py`) | locals of a request | PUT /config (hash, then sources), POST /score (insert, then ZREM) | the tape comes to follow the configuration; a score clears its entry |
| GET /tape (`api/tape.py`, `db/documents.py`) | locals of a request; the client's cursor | lock check, config, rows, scored filter with removal | a walk misses nothing, shows nothing already scored, and ends |
| Event feed (`store/events.py`, `api/ws.py`, `store/async_client.py`) | pub/sub channel per user, one subscription per socket | publish, accept + subscribe + forward | whoever has a socket open learns of every arrival and of every release of the lock; nothing is announced that is not so; a client that is gone gives its connection back |
| Sessions (`store/sessions.py`, `auth/dependencies.py`, `api/auth.py`) | `sess:<hash>` with idle TTL and absolute expiry | issue, validate (GET, then SET), revoke | the hard expiry is hard; a session in use is kept; a revoked one stays revoked |
| Login limiter (`auth/rate_limit.py`, `api/auth.py`) | deques of attempts per IP, in process | allow | at most `capacity` logins per window; nobody is refused without cause |
| Reference queries, pools, application shell, deployment | none that a user's operations change | - | - |

### How they interact

Nothing calls anything else's code: components meet in shared state. The
generator, the requests and the listener all write `tape:entries`; PUT /config
writes what the generator reads; an insert into `score.score`, by POST /score or
by another client such as the telegram bot, fires a trigger whose notification
reaches the listener threads that listen at that moment; GET /tape looks at the
lock once and then reads. Only runs of the generator take the lock. Each of
these operations is several calls to Redis or Postgres, and every other process
may act between any two of them. All of them publish frames about what they have
done, each with a call of its own, and the sockets of GET /ws forward what is
published while they are subscribed.

Authentication stands apart: it shares no state with the tape. Its requests meet
in the session's key in Redis and, as threads of one api process, in the limiter.

### What is hard here

* **Interleaving.** Configuration and sources are read before the lock is taken,
  the wipe for "no source selected" takes no lock, the dirty flag is cleared for
  a configuration read many calls earlier, candidates are appended after the
  query that found them, GET /tape checks the lock two calls before it reads.
  `validate` reads a session and writes it back, the limiter is created without a
  lock and its clock is read before its lock is taken.
* **Failure.** The worker dies between the wipe and the last ZADD, or is told to
  stop and has its pool closed under a run; the reply of SET NX is lost; a request
  dies between its two halves; the LISTEN connection is lost; Redis loses its data;
  a publish raises, or its process is gone before it.
* **Time.** The lock's TTL is not renewed and the ZADDs are not fenced: a run
  that outlives it is not stopped. A session has two expiries of which only one moves.
* **Delivery.** Redis keeps no frame: a socket is accepted before it is subscribed,
  and a handler learns that its client is gone only when it sends.
* **Boundaries.** `max_position + 1` with -1 for the empty tape; only 10 000
  entries are read back; a page that is exactly full.

`PROJECT.json` lists each hazard at its line with the properties that cover it.


## 2. Modules

```
TapeState        shared keys and tables, operators on them
 |-- TapeGenerator    tick and generate_for_user, with the lock
 |-- ScoreListener    listener threads and the trigger
      |-- TapeApi     PUT /config, POST /score, the platform around
TapeService      TapeGenerator + TapeApi: Init, Next, Spec, FairSpec, properties
 |-- TapeList         what a tape promises its user (abstract, an INSTANCE)
 |-- TapeSpaced       the service without the two races of section 5
 |    |-- MCTape      instances for TLC
 |-- TapeServiceProofs
 |    |-- TapeOrderProofs
 |    |-- TapeListProofs
 |         |-- TapeSpacedProofs (also on TapeSpaced)
 |-- TapePages        GET /tape and clients that walk the tape
 |    |-- MCPages, TapePagesProofs
 |-- TapeFeed         the frames and the sockets of GET /ws
      |-- MCFeed, FeedProofs (also on TapeListProofs)

AuthState        clock and requests
 |-- LoginLimiter     _limiter and TokenBucket.allow
 |-- Sessions         issue, validate, revoke
Auth             LoginLimiter + Sessions: login, logout, every authenticated request
 |-- MCAuth, AuthProofs, LimiterProofs
```

The model is of **one user**. Every Redis key carries the user's id and every
query selects by it, so users share no state; a tick's work for other users shows
up as time spent between reading the dirty flag (`"listed"`) and serving this user.
The limiter counts each client address by itself, so `Auth` is of one address.

One action is **one call** to Redis or Postgres, together with the local
computation up to the next call. In `TapeService` calls whose only effect is to
publish a frame or write the run log are merged with a neighbour unless their place
matters; `TapeFeed` gives each publish a step of its own. In the limiter, where
threads meet, one action is one look at shared state.
Documents are small numbers; `Published` gives their date, and the number is the
order of Redis among members of equal score. `date_from`/`date_to` are the set of
documents in the window; titles, verdicts and display modes are left out.

| Model | Code |
|---|---|
| `cfg`, `dirty` | the hash `tape:cfg`, split in two. `SetDirty` models `HSET ... dirty`, which *creates* the hash when it is absent, so that it then reads as `DefaultConfig` |
| `sources`, `entries` | `tape:cfg:src`; `tape:entries` as a function to positions, `Absent` = -1 |
| `lock` | `tape:lock`: `Free`, the worker whose token it holds, or `Orphan`: a token that no live process knows |
| `docs`, `scores` | `documents.document`, and this user's rows of `score.score` per role |
| `pc[w]`, `run[w]` | the place of worker `w` in `tick`, and the locals of its `generate_for_user` |
| `ListUsers` ... `AnnounceRelease` | the calls of `tick` and `generate_for_user` in their order |
| `Listings` | `ORDER BY published`: every arrangement the database may answer with when dates are equal |
| `TurnFails`, `AcquireFails`, `StartFails`, `RunFails`, `ReleaseFails`, `GeneratorCrash` | a call that raises before the lock, or the last publish; SET NX done and its reply lost; `create_run` or a publish before the `try` block, or the `except` branch itself, raising; a call that raises in the run (the `except` branch); the release script failing; the process dying. A call that raised *after* having its effect is the action followed by the failure |
| `stopping`, `Shutdown`, `StopStep` | SIGTERM: the scheduler starts no more turns and the listener is stopped; a turn under way goes on, finds the pool to the platform database closed (`PoolClosed`), and the process ends when it is done (`GeneratorExit`). `close_redis` cuts the connections the turn is using (`Cut`): the call under way raises, which counts as no fault of its own. The code cuts them once; the model lets it happen at any call after the signal |
| `LockExpires`, `LeaseExpires` (`Overrun`) | the TTL of a key nobody will give back; the TTL of a key whose run goes on |
| `intact` | history variable: no lock has expired under its run, and Redis has kept its data |
| `thread[w]`, `inbox[w]` | the listener thread and the notifications that wait for it |
| `HandleNotify`, `HandleFails`, `ConnectionLost` | `_handle`, its `except` branch, the `OperationalError` that ends `_run` |
| `put[e]`, `post[s]` | requests between their two halves |
| `FilterScored` | read_tape seen from outside: a scored document that is on the tape is removed |
| `page[g]` | request and walk of client `g`: `CheckLock` ... `AnswerNext` are the calls and returns of `read_tape` |
| `kept[g]` | history variable: what has been on the tape ever since the walk began |
| `owed[w]`, `reply[p]` | the frames a generator, and a listener thread or a request, has still to publish: `Due` says what a run publishes at each place, `News` what `append_entries` has really added |
| `socket[c]`, `gone` | where `ws_endpoint` is for connection `c`: accepted, subscribed, in its `finally` block; the clients that have left |
| `Publish`, `Forward` | PUBLISH reaches who is subscribed; `send_text` is where a handler learns that its client is gone |
| `missed[c]`, `locked` | history variables: the arrivals `c` was not told of; who heard `lock.acquired` last |
| `call[q]` | an api request: its place in its handler and the handler's locals |
| `limiter`, `buckets` | `_login_limiter`, and every `TokenBucket` any thread has made. A deque is the log of all it was given, from `head` on |
| `sess[s]` | the key of session `s`: hard expiry and what is left of its TTL |
| `Get`, `Stamp`, `Discard`, `Refresh` | the GET of `validate` or `validate_async`, its clock, its DEL and its SET |
| `born`, `unused`, `ended` | history variables: when `s` was issued, how long it was not used, how it ended: by a logout while no call held it (`"alone"`) or while one did (`"raced"`), or with the data of Redis (`"lost"`, until a call that holds it writes it back) |

**Refinements.** `TapePages` and `TapeFeed` extend the service by readers and by
sockets. The step `RemoveFiltered` of a reader is the service's `FilterScored`, and a
publish changes nothing of the service: both *refine* it (`Service` and
`ServiceKept`, checked in `Walk` and `Feed`, proved as `ReadersRefine` and
`FeedRefines`), so whatever is checked or proved of `TapeService` holds with them
beside it. `TapeFeed` leaves out two faults, `Overrun` and `RedisLoss`: the first
concerns a second worker, the second leaves a user without configuration and so
without runs to tell of.

`TapeList` is the abstract specification: a list that items join at the end and
leave only when they have been scored, that is thrown away only when the user has
asked for another, and whose request is withdrawn only by a filling that was
completed. `ListKept` states that the service implements it, with `listed`, its
order, `due` and `filling` read off the tape, the flag and the place of the worker;
it is checked in `Served` and proved as `ListImplemented`, for **one worker**, which is what
`src/docs/DEPLOY.md:81` prescribes. With two, one may clear the flag while the
other fills.


## 3. Properties and runs

Definitions named `...Not`, `...Always`, `...Any`, `...Showing` and so on that no
specification uses are *mutants*: plausible slips in the code, each of which makes
TLC report the property that `PROJECT.json` pairs it with.

| Run | Instance | Shows |
|---|---|---|
| `OneWorker` | 1 worker, 2 documents of 1 source, both orderings, 2 windows, 1 PUT at a time, scores from anywhere, `ExistingLimit` 1, one crash, stop signal or failed call anywhere | `TypeOK`; a rebuild holds nothing of an earlier configuration (`RebuildIsClean`), is in the requested order (`RebuildIsOrdered`) and stays marked until complete (`RebuildStaysMarked`); positions are unique and stable (`PositionsUnique`, `PositionsStable`), also when a run that read back only part of the tape adds an entry again |
| `TwoWorkers` | 2 workers, crashes, lost lock replies and runs that outlive their TTL, PUT beside them | until a lock expires under its run `MutualExclusion`, and documents arrive behind all others (`AppendsAtEnd`) although unlocked wipes fall into runs; also afterwards `ReleasesOnlyOwn`: the token comparison keeps a worker from giving back the lock the other has taken since |
| `Served` | 1 worker, one fault of any of the nine kinds, fairness | `DirtyServed`, `FreshDocumentsListed`, `UnlockedAgain`; the refinement `ListKept` |
| `Spaced` | 1 worker, PUT and POST, failed calls and requests, *without* the two races of section 5 | `TapeMatchesConfig`, `ScoresClearTape` |
| `Walk` | 1 worker, 1 client, page size 1; scored documents are removed by the client's own requests and by those of others (`FilterScored`) | `WalkMissesNothing`, `ScoredNeverShown`, `CursorAdvances`, refinement `Service` |
| `Feed` | 1 worker, 1 document, PUT, POST and GET beside it, 1 socket that may leave, fail and come again, one fault of seven kinds, fairness | `ArrivalsTold`: every arrival is told to every open socket, by its own frame or by a later `tape.regenerated`, also after a failed run, a crash, or a frame published before the subscription; `NobodyToldLocked`: who heard `lock.acquired` hears `lock.released`, although a process that dies publishes nothing; `SocketsFreed`: a handler whose client is gone gives its connection back; `AnnouncedIsThere`; refinement `ServiceKept`; `FeedTypeOK` |
| `Auth` | 2 requests at once, 1 session id, limiter of 1 login per window, `IdleTtl` 2, `AbsoluteTtl` 3, restarts of the api, loss of Redis, fairness | `HardExpiry`, `KeptWhileUsed`, `DeletedForGood`, `SessionsEnd`; `CeilingKept`, `RefusedOnlyRecently`; `TypeOK` |
| `LostDirty`, `StaleCandidates`, `RedisLost`, `MidRun`, `LogoutUndone` | | counterexamples, section 5 |

The liveness properties say of a state that it is not there for good: `[]<>~dirty` is
another way to write `dirty ~> ~dirty`. Those of `Feed` end in "or no source is
selected" (`NoMoreRuns`): a run publishes what they wait for, and a user without
sources has no runs. That is no weaker than to assume that some source stays selected from some time on.

**Bounds and why they are enough.**
*Two documents*, of different dates, so that their order is never a tie, which
`OrderedRebuilds` covers: the properties of the tape relate at most two entries (order,
uniqueness, stability); a rebuild with two documents has a state in which one is
appended and one is not. `Feed` has one: `missed` is a set whose members do
not meet. *Sources and windows*: `Spaced` has two sources and so four selections, an old and a
new one that agree in part, and the empty selection with its unlocked wipe;
`OneWorker` has two windows for the same purpose. *Two workers*: the
lock's properties speak of pairs. *`MaxFaults` = 1*: it bounds faults per
behaviour, and is placed in the guard of every fault; the theorems of section 6
have no such bound. *`ExistingLimit` = 1 or 2*: below and at the size of the
tape, for the 10 000 of the code. *Page size 1*: every page is full, and every
walk has as many pages as documents. *`MaxPosition` = 2* in `BoundedSpec`: with
two workers positions grow for ever, since a wipe without the lock may empty the
tape under a run that goes on counting; the bound leaves room for one such wipe
and a run after it. `Walk` leaves the listener out (`DeafSpec`), as if its connection were lost from the
start: scored documents are then removed later and by fewer hands, which is the
harder case for `ScoredNeverShown`;
removals themselves still happen at any time, through `FilterScored`.
*`MaxBusy` = 1* in `Feed`: one request or thread at a time is between two of its
steps, beside a generator at any place and a socket at any place; what two requests do to one
another is the matter of `Spaced` and `OneWorker`.
*`Horizon` = 3* in `Auth`: the clock stops there while the TTLs go on; with
`IdleTtl` 2 and `AbsoluteTtl` 3 it is late enough for a key to idle out, for the hard expiry to come while a
refreshed key has TTL left, and for a call to straddle either. *`Window` = 1, `Capacity` = 1*, for the 300 s and 10 of
`src/docs/DEPLOY.md:47-48`: two requests suffice to exceed a ceiling of one, to be
recorded out of order and to make two limiters. *One session id*: sessions have
keys of their own. The theorems have none of these bounds except `Horizon`, which
they leave arbitrary.
Symmetry is used for the two workers only, in a run without liveness.

No run turns deadlock checking off.

**Assumed environments.** `Spaced` restricts behaviours by formulas of `TapeSpaced`: `ScoresHeard`
(scores fall while the thread listens), `ScoresSpaced` (no score between a run's
query and its last ZADD), `EditsSpaced` (no step of a PUT between a rebuild's
`get_config` and its `clear_dirty`). The violation runs show that the last two are
necessary. What remains in `Spaced` is everything else that could break the
promise: half-done PUTs, failed runs, notifications and removals in any order.

`WalkMissesNothing` and `RebuildIsOrdered` hold while `intact`. Two runs that measure the same tape
give one position to two documents, of which the cursor passes over one; and a run
that goes on when Redis has lost its data fills a tape whose user has no
configuration, so that `read_tape` answers with an empty page and no cursor.

`RebuildStaysMarked` is stated for one worker. With two, the other may finish a
rebuild it started from the same flag.


## 4. Fairness

`FairSpec` of `TapeService` assumes weak fairness of a worker's next step (APScheduler
fires the job every interval, with `max_instances=1` and `coalesce`, and a turn that
began runs on), of what is left of a worker that was told to stop, of a listener
thread's next step, of the restart of a dead worker
(`restart: unless-stopped` in `src/docker-compose.yaml`), of the TTL of a key, and
of the second half of an accepted request. Nobody has to send a request, score or
publish anything, and no fault has to happen or not to happen; faults are finitely
many because of `MaxFaults`, without which a worker that fails every time would
serve nobody (the calls a stop cuts are those of one turn). No strong fairness is needed: a turn that finds the lock taken by
nobody alive is repeated, and the key does expire.

`FeedFairness` keeps of this only what the feed needs, which makes its properties
stronger: the generators go on and publish what they owe, a dead worker is restarted,
a key expires; and a socket's handler that has been accepted subscribes, or closes
when it has come to its `finally` block. No client has to stay or to leave, and no
listener thread or request has to publish.

`FairSpec` of `Auth`: time passes. No handler has to go on: a call that waits for ever
writes nothing back, and one that goes on late does so once.


## 5. Where the code and what is said of it disagree

Each is a run that TLC finishes with a counterexample.

* `LostDirty` (`worker/generator.py:94`). `clear_dirty` erases the flag also when
  PUT /config has set it since the run read the configuration. The tape was
  rebuilt for the old one, nothing marks it, and incremental runs never remove
  anything. The comment in `api/config.py:91` says the worker will pick the change up.
* `StaleCandidates` (`worker/generator.py:79`). A document scored between the
  candidates query and the ZADD has already been removed, to no effect, by POST
  /score and by the listener; it is then appended and stays. A page that reaches it
  filters it, so that the user does not see it (`ScoredNeverShown`), but it
  is counted and takes a place on its page.
* `RedisLost` (`store/tape.py:93`). DEPLOY.md says that the next tick refills every
  tape after a loss of Redis. The tick serves users whose `tape:cfg` exists, and
  that is lost too: until the user sends PUT /config again nobody is served.
* `MidRun` (`api/tape.py:59`). README.md promises 409 while the worker regenerates;
  the lock is checked once, before two further calls.

* `LogoutUndone` (`store/sessions.py:84`). README.md says that logout revokes the
  session, and a test asserts that `validate` then finds none. A request, or a WebSocket upgrade, that
  has read the key before the DEL writes it back after it, and the cookie is good
  again until it idles out or the hard expiry comes (`HardExpiry` still holds). If
  no call holds the session at that moment the logout is for good: `DeletedForGood`.

Four more things the model shows that no run is spent on. With two workers, an
incremental run that read its configuration before the lock may append documents
of the old one after the other's rebuild. When a run outlives the TTL, two
workers measure the same tape and give the same position twice (which is why
`PositionsUnique` begins with `intact`). When the release script raises, `lock.released` is
published while the key is still there, contrary to the comment at
`worker/generator.py:145`. A listener thread whose connection is
lost ends for good while its process goes on: `ConnectionLost` has no way back
but `Restart`.


## 6. Proofs

`tlapm` checks every obligation of `TapeServiceProofs`, `TapeOrderProofs`,
`TapeListProofs`, `TapeSpacedProofs`, `TapePagesProofs`, `FeedProofs`,
`AuthProofs` and `LimiterProofs`, for all values of the constants that satisfy the assumptions named in the modules: any
number of workers, requests, documents, sockets, sessions and faults.

| Theorem | Says | Assumes |
|---|---|---|
| `TypeCorrect` | `Spec => []TypeOK` | - |
| `Exclusion`, `UniquePositions`, `CleanRebuilds` | `Spec => []MutualExclusion`, `[]PositionsUnique`, `[]RebuildIsClean` | - |
| `ArrivalsAtEnd`, `StablePositions`, `OwnReleases` | `Spec => AppendsAtEnd`, `PositionsStable`, `ReleasesOnlyOwn` | - |
| `OrderedRebuilds` | `Spec => []RebuildIsOrdered` | - |
| `ListImplemented` | `Spec => ListKept` | one worker |
| `RebuildMarked` | `Spec => []RebuildStaysMarked` | one worker |
| `ScoresCleared` | `SpacedSpec => []ScoresClearTape` | no worker dies and no listener thread ends or fails |
| `ConfigMatched` | `EditedSpec => [](intact => TapeMatchesConfig)` | one worker |
| `ConfigAlwaysMatched` | `EditedSpec => []TapeMatchesConfig` | one worker; no run outlives its TTL, Redis keeps its data |
| `ReadersTypeCorrect` | `ReadersSpec => []ReadersInvariant` | - |
| `ReadersRefine` | `ReadersSpec => Service` | - |
| `PageIsPrefix` | a page holds the first `n` of what lies behind the cursor, and is full if it leaves anything out | `entries` has its type |
| `ScoredHidden`, `WalkComplete` | `ReadersSpec => []ScoredNeverShown`, `[]WalkMissesNothing` | - |
| `CursorMoves` | `ReadersSpec => CursorAdvances` | - |
| `FeedRefines` | `FeedSpec => ServiceKept` | - |
| `FeedTypeCorrect` | `FeedSpec => []FeedTypeOK` | - |
| `AnnouncementsTrue` | `FeedSpec => []AnnouncedIsThere` | one worker |
| `AuthTypeCorrect` | `Auth!Spec => []TypeOK` | - |
| `ExpiryIsHard`, `UsedIsKept`, `DeletionLasts` | `Auth!Spec => []HardExpiry`, `[]KeptWhileUsed`, `[]DeletedForGood` | - |
| `CeilingHolds` | `Auth!Spec => []CeilingKept` | - |
| `RefusalsHaveCause` | `Auth!Spec => RefusedOnlyRecently` | - |

`MutualExclusion`, `PositionsUnique`, `AppendsAtEnd`, `RebuildIsClean`,
`RebuildIsOrdered` and `WalkMissesNothing` hold while `intact`: until a lock
expires under its run or Redis loses its data. Afterwards the lock promises nothing. That is part of the properties, not
an assumption on the faults: the theorems cover behaviours with every fault.

**The tape.** `MutualExclusion` does not say that a worker which
asks for the lock finds it taken, hence `LockHeld`: a worker inside a run is the
one the key names. `PositionsUnique` does not say where the next ZADD goes, hence
`Ahead`: from the moment a run has measured or emptied the tape, every entry lies
before the position it gives next. `Ahead` survives the steps of others because they only take
documents off the tape (`Shrinks`), and the only steps that put one there are ZADDs
of runs, of which `LockHeld` leaves one (`AppendsBehind`). Their conjunction with
`TypeOK` and `PositionsUnique` is `Positions`, and it is inductive.
`RebuildIsClean` needs in addition that what a rebuild still has to append is what
its own configuration asks for; that
the set of published documents only grows; and, again, that nobody else appends.

`RebuildIsOrdered` says nothing of the documents that are still to come. `Ordered`
does: they are sorted (`SortedTodo`, which is what `ORDER BY` promises), and all of
them belong behind what the tape holds (`TodoBehind`). A ZADD gives the first of
them a position behind all others by `Ahead`; what others do in the meantime only
takes documents away (`ShrinksOrdered`).

**The list.** A wipe is a `ThrowAway` only if the list is due, and clearing the flag
a `Complete` only if it was being filled: `Marked` says that a turn that began as a
full one finds the flag set until it clears it, and with one worker nobody else clears it. A
removal is a `Retire` because whatever is about to be removed, by a listener, a
request or a reader, is on record as scored (`Known`), and an arrival is at the end by `Ahead`.

**Without the races.** Neither promise of section 5 is inductive. For the scores,
a scored document that is on the tape has a notification waiting at every worker
(`Announced`), and a run has nothing scored left to append (`Unscored`): it
asked for documents without a score, and `ScoresSpaced` lets none fall until it is done. That no worker dies and no
thread fails is necessary: a notification is delivered at most once, and a thread
that listens again does not get those it missed. For the configuration, `Fresh`
says that a run between its `get_config` and its `clear_dirty` works for the
stored configuration if it is a rebuild or the tape is unmarked, and that it appends
to an unmarked tape only what that configuration asks for; `Matching` says the same of what
is on an unmarked tape;
`Clean` and `Marked` are taken from the proofs above.

**Pages.** `FirstOf(S, n)` is defined by counting: a document is on the page when
fewer than `n` come before it. `PageIsPrefix` turns this into what the walk needs.
Documents at different places have different ranks, so that the members of a page
are as many as their ranks, which lie below `n`; and when something is left out, the
first of what is left out has rank `n` at least, so that the page is full. There is a
first because the sets of predecessors are finite and strict inclusion of
finite sets is well-founded, which the library states: no induction is needed.
`ScoredNeverShown` and `CursorAdvances` follow from what a request carries from call to
call (`Screened`: what it answers was not among the scored; `BehindCursor`: its rows
lie behind its cursor). `WalkMissesNothing` needs `Walked`: of the documents that stayed
on the tape those up to the cursor have been shown or scored, and those behind it are on
the page under way or, only if that page is full, behind all of it. That a
document does not change sides is `StablePositions`, taken over by `ReadersRefine`; that a
page whose last position becomes the cursor skips nobody is `UniquePositions`; that a tape
without configuration has nothing to show is `Configured`.

**Readers and feed.** A step of a reader either changes only `page` and `kept`, and is a
stutter of the service, or it is `RemoveFiltered`, and is a `FilterScored`; for
that `ReadersInvariant` says that what a request is about to remove is on record
as scored, and scores are never withdrawn. A step of the feed is a step of the service
with frames put behind it, or leaves the service as it is. `AnnouncedIsThere` is inductive with
`Known`: a document leaves the tape by a wipe, and a run that is about to wipe owes
no announcement, or because it has been scored.

**Sessions.** A call carries the hard expiry it has read, so `HardExpiry` follows from: every
key, and every call that holds one, has the expiry of the login. `KeptWhileUsed` ties
the TTL that is left to the time since the last use. `DeletedForGood` says that a call
which may still write the key back has read it after the deletion, which is
impossible, or before, and then the session was `"raced"`. A loss of Redis counts as no
deletion.

**Limiter.** Deques are not in order, since clocks are read before the lock is
taken. `Held` therefore does not speak of order: what was popped was older than some
cutoff, cutoffs are not later than the clock, and at most `Capacity` entries are left.

**Only model-checked.** The liveness properties, because fairness and `ENABLED` are
outside the prover's reach: `DirtyServed`, `FreshDocumentsListed`, `UnlockedAgain`,
`ArrivalsTold`, `NobodyToldLocked`, `SocketsFreed`, `SessionsEnd`. Every invariant
and every action property of the passing runs is the subject of a theorem.


## 7. Not modelled

* The run log `tape:run:*` (`create_run`, `finish_run`): nothing reads it to decide
  anything. Its calls keep their place as steps that may fail.
* What a position given again means to a client: when the last entries are
  removed, their positions are given to others, and a cursor that points there
  skips them. `WalkMissesNothing` speaks of documents that stay on the tape.
* The delay of a frame between Redis and a socket. A subscriber gets frames in the
  order of the calls to PUBLISH, and what is on its way does not matter to the properties of `TapeFeed`.
* The size of the pool the subscriptions share: a subscription that finds no
  connection is a handler that raises (`HandlerRaises`), which may happen at any time.
* The origin check of GET /ws and of CORS, cookie attributes, and that a socket once
  accepted outlives a logout: nothing in the code looks at the session again.
* Several client addresses, and several api processes, each of which has a limiter
  of its own (`src/docs/DEPLOY.md:78-79`).
* `last_seen` and values of a session's key that cannot be parsed: only `issue` and
  `validate` write the keys, and nothing reads `last_seen`.
* Reference queries, settings, logging, error formats and request schemas:
  no state that an operation changes. `users.sources` is the constant `Allowed`;
  what `users.auth_by_token` answers is a choice (`Expert`, `NotAnExpert`).
* A document that has been deleted from the platform database, which `read_tape`
  leaves out of the page it is on (`api/tape.py:119`): in the model documents are only published.
* The platform database beyond `documents.document` and `score.score`: it belongs
  to another project.


## 8. Plan

1. *Done.* Core: shared state, generator with lock, listener, writing requests,
   GET /tape; types, exclusion, positions and rebuilds proved.
2. *Done.* `TapeList` and the refinement to it; expiry of leases and shutdown as
   faults of their own; `TapeFeed`; `Sessions`, `LoginLimiter` and `Auth`; their
   safety properties proved.
3. *Done.* Order of rebuilds, pages and walks, and the promises of the dirty flag
   and of the listener in `TapeSpaced`, proved.
4. The safety that the liveness of the feed rests on: whoever has missed an
   arrival, or has heard of a lock, is owed a frame or waits for a run (`ArrivalsTold`,
   `NobodyToldLocked`). `RebuildStaysMarked` with two workers, under
   a condition on when the second one reads the flag.
