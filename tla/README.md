# TLA+ verification of the LLM gateway

TLA+ modules, TLC configurations and machine-checked proofs about the gateway of this repository. `P/` stands for
`src/llm_gateway/` below. Every definition of a module is translated from the code; `PROJECT.json` names the lines
each stands for.

## 1. The system

The gateway is one asyncio process per worker. A request passes the middlewares, a router (`routers/proxy.py`,
`routers/v2_proxy.py`), the checks of `proxy_helpers.py` (key, rates, budget, permissions, route), is sent to an
upstream model server, and its answer is streamed through `telemetry/streaming.py`, which counts and charges it. Next to
the requests every process runs loops: a poller that scrapes the model servers and writes rollups, one that keeps the
servers' lists of models, and one that applies changed export integrations. Admin requests change the rows that all of
this goes by. Workers share a database and, optionally, Redis.

| Part | State it keeps | Operations | What makes it correct | Modules |
|---|---|---|---|---|
| Live statistics `P/observability/store.py`, trackers `collect/requests.py` | keys, counts, bytes, activity times per (server, model); a tracker per request | resolve, dispatch, retarget, first_token, add_inflight_bytes, finish, snapshot | counts are the requests; no key of an open request is dropped; few keys | `LiveStats` |
| Rates and history: `store.py`, `collect/poller.py`, `api.py` | a ring of seconds, minute rows, the rollup table | count, move, drain, upsert, prune, query | every request is counted once wherever one looks | `Rollups` |
| Request lifecycle: the endpoints, `apply_rate_limit`, `stream_with_telemetry`, background tasks | slot flag, tracker, upstream response, outcome flag | admit, dispatch, respond, stream, finish, leave, fail, release | every slot comes back once; recorded once; nothing left open | `RequestLifecycle`, `SlotSemaphore` |
| Rate limiter `P/rate_limit.py` | per-key counters in process or in Redis, health flag, buckets, windows | acquire, release, request and token checks | the limit holds, or is overrun by no more than is in flight | `RedisSlots`, `Admission` |
| Budget, backpressure, login window: `spend_service.py`, `backpressure_service.py`, `middleware.py` | month's spend, in-flight count, failed attempts | check, charge, enter, leave, remember | the same | `Admission` |
| Circuit breaker, retry, fallback chain, quarantine: `proxy_helpers.py` | circuits per URL, quarantines per (backend, model) | is_open, record_*, the retry and chain loops | trips on the right failures; no dead URL is used; the chain is tried in order | `Failover` |
| Routing and permissions: `proxy_helpers.py`, `routers/proxy.py` | none of its own | resolve, get_target_backend, check_owner_permissions | goes where the model is, is refused only if it must be | `Routing` |
| Poller `collect/poller.py`, GPU attribution `collect/gpu.py`, live view `api.py` | last rows, backoff, circuits | a tick: read, start, finish, cancel, attribute | honest rows; only failures are charged; nobody is forgotten | `Poller`, `GpuView` |
| Read-through caches: `cache.py`, `auth_service.py`, `config_service.py` | TTL entries over rows | validate, revoke, read, update | a replaced row and a revoked key stop being served | `ReadThroughCache` |
| Response cache `cache_service.py` | Redis, memory and similarity entries | look up, store | answers only what was asked | `ResponseCache` |
| Streams and translation: `streaming.py`, `translation/` | line, tag and usage buffers | feed, translate, count | the client gets the text, the books the work | `StreamText`, `Translation` |
| Accounts, invites, keys: `routers/users.py`, `routers/owners.py`, `auth/manager.py` | rows | sign in, check, commit | rights and limits hold under overlapping requests | `Sessions`, `Accounts` |
| Prices: `pricing_catalog.py`, `spend_service.py` | rows | seed, set, look up | a manual price is the price | `Pricing` |
| Export integrations: `observability/export` | rows, a stamp, exporters, the superseded set | save, load, apply, loop, send | replicas run what is stored; spans go out once | `Integrations` |
| Model federation: `federation_service.py`, `routers/backends.py` | a server's row, cached copies of it | poll, merge, commit; PATCH, POST, DELETE, sync | a manager's change is not undone | `Federation` |
| Content services, bots, MCP, mail, UI, telemetry set-up, shell, GPU agent, migrations | little or none | text functions, CRUD, wiring | | not modelled, section 6 |

**Interactions.** The lifecycle calls the limiter (slot), the failover (upstream), the tracker (which writes the live
store) and the spend service, from the event loop, and again from a background task on a pool thread. Least-busy routing
reads the live store's counts. The poller and the requests share the circuits. Metric readers and exporters run on
threads of their own. Routing, the federation loop and the poller read the servers' rows that managers change, through
a cache that all of them share by reference. Workers meet in Redis and in the database only.

**What is hard.** A client can leave at any await; three pieces of code give the same slot back; the loop's code is
atomic only between awaits, and pool threads run inside of it; one Redis counter is changed by protocols of two calls;
failures are reported out of the order of sending; admin requests read, decide and commit without a lock; cached rows
are written back; chunks cut lines anywhere. The list, line by line, is `hazards` in `PROJECT.json`.

## 2. Modules

| Module | How state and steps correspond to the code |
|---|---|
| `LiveStats` | The store's dictionary of `_KeyState` is `keys` and one function per field. Every store method holds the lock, so it is an action; a tracker method of two store calls is two actions. `busy` says that the event loop is between two of them: no other loop action may run then, but `FinishOpen*` (pool thread) and, with `ReaderThread`, `Snapshot` may. |
| `Rollups` | Where the count of a request is: second ring, minute rows (`memory`), taken out but not committed (`flushing`), table (`db`), lost (`gone`, history). Poller loop and history query flush at the same time; commits fail; the process crashes. `Points`, `Summary` and `Series` are what the history endpoint returns. |
| `RequestLifecycle` | One worker's requests, of one key, from admission to background task. `phase` is where the handler or the generator awaits; `flag` is `request.state.concurrency_acquired`; one action per stretch between awaits. Five kinds of endpoints differ in where they release. The limiter reads its count in one action (`Admit`, the releases) and writes it in another (`Taken`, `Given`): on the loop nothing else of the loop comes in between (`LoopIdle`), but the background tasks, which run on pool threads (`RunBackground`), do. `lost` is history: how many changes of the count others have overwritten that had read it before. |
| `SlotSemaphore` | Nothing in the code: the promise of a concurrency limit, by a semaphore that may slip. While nothing has slipped it is a counting semaphore; each slip lets it be off by one. `RequestLifecycle` implements it (`SemaphoreSpec`, a refinement mapping from count and flags) with one slip for each change of the count that was overwritten. |
| `RedisSlots` | Several workers, one Redis counter, local fallback. The look at `_healthy` and each Redis call are actions, and so are the read and the write of the worker's own counter; `pc` is the one a request is before. A call may fail before or after its effect; a worker may be killed; the counter's hour may end at any moment. Acquisitions run on the event loop, one at a time in a worker (`LoopFree`); every release runs as on a pool thread and interleaves with all of them, which covers those that run on the loop. History: `counted` (the requests that the counter stands for), `forgotten` (the most that were counted when it was deleted or expired), `slips` (overwritten changes of a worker's own counter, and slots given back to it after Redis had got them back). |
| `Admission` | The guard, the login window, requests and tokens per minute (token bucket in process, counters in Redis), slots, budget, of one key, from arrival to the committed record. `apply_rate_limit` has no await before it has decided, so it is one action. What passed and what was recorded is kept as running totals, so that a window is a difference of two. |
| `Failover` | `CircuitBreaker`, retries, chain and quarantine. What runs between two awaits is one action, however many URLs and targets it passes over (`TryUrls`, `GoOn`). Time stamps are ages and remaining times that saturate. |
| `Routing` | The name that is asked for is split, aliased, resolved; servers, aliases and permissions are read one after the other while `ChangeServers`, `ChangePermits` and others run in between. The servers are a set: their table is read in no order, so where the code takes the first of them the model takes any. Load is a constant function per state, which stands for the live counts. |
| `Poller`, `GpuView` | A tick is `Begin` (reads the configuration, starts the jobs), `Finish` per job with every outcome, `Deadline` (cancels what is queued or running; among the running are slow targets or quick ones that got their place late behind a slow one, `LetInLate`), `End` (attribution). The queue is a set from which the first of the configuration's order is let in. `GpuView` is the pure part: attribution of processes, memory of a model and the note on it, groups of the live view. |
| `ReadThroughCache` | One entry over one row: a reader is three steps (miss, the database's answer, the store when it resumes); a writer commits and invalidates in either order with other steps in between. A row is its version number. `step = "raced"` and `until` are history. |
| `ResponseCache` | A request looks up when it comes (exact, then similar), and its answer is stored at the end of its body, with other requests, processes, expiry and switched settings in between. An answer is the request it was made for. |
| `StreamText` | One answer as a sequence of lines, cut into chunks anywhere; parser, tag buffer, translation and usage as the generator keeps them. `Given` is what the client gets, `Figures` what is recorded. |
| `Translation` | `translate_request` both ways as functions of a body; `Translate` applies them there and back. |
| `Sessions` | What all admin requests share: `hand` holds the stage and the reads of each request; a commit writes only the columns that differ from what was read (`Column`). |
| `Accounts`, `Pricing`, `Integrations` | The admin requests of one area: sign in or read, check, commit, each an action. |
| `Federation` | One server's row: the loop's pass (`Wake`, `Listed`, `Fetched`, `Adopt`, `Merge`, `CommitPoll`) on the shared cached copy, requests that fill the cache, managers' requests that clear it and then commit. `config` stands for all columns but the models. |
| `Folding` | A loop over a sequence: `Fold(base, s)` repeats `CONSTANT Step(_, _)` over the elements of `s`. `StreamText` and `Translation` have an instance for each loop of the code (`Loop == INSTANCE Folding WITH Step <- Turn`), and with it what holds of a fold whatever the step. |
| `Sums` | The sum of a function's values as the number of its cells, so that sums can be reasoned about without recursion; `Rollups` and `GpuView` sum with it. |
| `MC*` | Small instances. Those that join several modules have a variable `subject`: a behaviour is about one of them and the others keep their first state, so one run answers several independent questions and the state spaces add up instead of multiplying. |
| `*Proofs` | Theorems, see section 5. `ControlPlaneProofs` is about the six modules of `MCControlPlane`, `ContentProofs` about the two caches and `Translation`, `CollectProofs`, `UpstreamsProofs`, `SlotsProofs` and `StreamProofs` about the modules their names tell. |

Operators under a comment that begins with "Bug" are deliberate mistakes, one for each property: put in the place of the
definition they imitate, they make TLC find the property violated. They are used by nothing else.

The modules meet where one details what another abstracts: `RequestLifecycle` has a count that `RedisSlots` details, a
dispatch whose answer `Failover` details, a tracker that `LiveStats` details, a body that `StreamText` details and a
spend record that `Admission` sums up; a count of `Rollups` belongs to a key of `LiveStats`; `Routing` reads the servers
whose rows are `Federation`'s and whose cache is `ReadThroughCache`'s. `Poller` and `Failover` share the circuits
(`PollerAsks`, the open circuits a tick begins with).

## 3. Runs

| Run | Question | Bounds and why they are enough |
|---|---|---|
| `MCCollect` | Are the live counts, bytes and keys right, and is every request in the rates and the history? | *Counts:* 3 requests, one server with a model limit of one and three names, so that every key overflows, is shared or evicted; idle eviction after 0 ticks. *Rollups:* 2 requests, 2 keys, poller and query as flushers; a minute of two seconds and a ring of two, so laps and minute ends come in every order; one fallback or one poll, one failure or crash, two drains. |
| `MCCollectResidue` (finding) | Does anything stay counted when readers run between two calls? | Model limit of two, which the shortest counterexample needs. |
| `MCUpstreams` | Is every answer closed and every request answered? What does the poller say of its targets, whom does it charge, whom does it forget? | *Requests:* 2 over a primary with two URLs and one target, 2 attempts (a first and a last). *Poller:* a slow and a fast server and a GPU host behind one place, the slow one first; two failures of backoff, two configuration changes. |
| `MCRequestLifecycle` | Is a slot held while there is work and given back once? What do pool threads cost, is the limit a semaphore but for that? Is anything recorded twice or left open, is an outcome forgotten? Does every slot of the catch-all route come back? | 3 requests, limit 2: one waits while two hold, and refusals happen; two releases on pool threads, an acquisition and a release of the loop overlap, so changes are overwritten in both directions. One request is on the catch-all route, the other two on any of the five kinds (up to renaming); clients leave in every phase, upstreams fail in the middle of a body. |
| `MCRequestLifecycleBodyFails` (finding) | "in every outcome"? | 2 requests, limit 1. |
| `MCRequestLifecycleRace` (finding) | "Enforces Concurrency Semaphores"? | 4 requests, limit 2: the shortest behaviour in which too many hold a slot needs one that leaves, one whose acquisition is lost and two more. |
| `MCFailures` | Do circuits and chain take the right decisions? Does any order of Redis calls keep a slot nobody holds, what does falling back cost? | *Upstreams:* 2 requests, threshold 2, a primary of two URLs and two targets that share them, so that one request's failures open what the other is about to use; all answers; one request retries. *Slots:* 3 clients, each with one request after the other to either of 2 workers, limit 1 or 2: one is between two calls while the others acquire, refuse and release, in the same worker and in another; two mishaps, which are failed calls, crashes or overwritten changes of a worker's own counter; the hour ends at any moment. |
| `MCFailoverProbe` (finding) | "allow one probe"? | 2 requests, one URL. |
| `MCControlPlane` | What do the tables promise under overlapping admin requests; where is a request routed while they change; by how much are limits overrun; which changes does a poll undo? | Two overlapping requests, three in all: the shortest races need two, the third makes what they left visible. *Admission:* 3 requests that arrive 4 times, a window of 2 of 3 ticks, each key with the limits one question needs; with Redis and one fault. *Servers:* one process polls and one request at a time comes to it or to another process, ttl and patience of one tick, 5 ticks: longer than `ListTtl + 2 * Patience`. |
| `MCContent` | How long is a replaced row served; is an answer given to who asked for it; does text and usage survive chunks, tags and translation? | *Rows:* 2 readers, 2 writers, 2 workers, ttl and delay of one tick. *Answers:* 2 processes, 2 requests in hand, 3 in all, one entry of memory. *Stream:* texts with whole, nested, cut and false tags, cut into three pieces anywhere, each chunk ending anywhere. *Body:* every combination of system, turns, parts, tools and choice. |
| `MCContentPrompts` (finding) | "Exact-match"? | Two completions. |
| `MCContentLeavers` (finding) | "still account for the work done"? | A client that leaves. |

Deadlock checking is off where the system rests when all requests are over. `MaxClock`, `MaxMoment`, `MaxRequests`,
`MaxArrivals`, `MaxChanges`, `MaxBytes`, `MaxDrains`, `MaxPolls`, `MaxFaults` and `MaxMishaps` bound the exploration only. Two
constants are assumptions: `MaxDelay` (`ReadThroughCache`) and `Patience` (`Federation`) say how long a query, or a poll
with its merge, may take. The HTTP calls have timeouts, the queries have none, and what is cached late is stale by as
much. Symmetry is used over requests, workers and processes in runs without liveness. `FirstArrives` of
`MCControlPlane` takes requests at rest for alike, which they are.

**Fairness.** `RequestLifecycle`: handlers, bodies and background tasks proceed (weak fairness per request): upstream
calls and reads have timeouts, the event loop and the thread pool keep running, and the interpreter closes a dropped
generator. The same is assumed of the limiter's writes. The steps of the loop are fair with `LoopIdle` in them: the loop comes back to each request that waits for it. A client's arrival is not fair, nor is which of the ends a body comes to. `Failover`: the upstream answers or
times out, and the handler goes on (weak fairness per request). `Poller`: ticks begin, deadlines come and ticks end (the
loop and `asyncio.wait` with a timeout), and a target that is not slow answers or fails; nothing is asked of slow ones.
`HealthyAsked` leaves two things out: a database that fails for ever, and that in every tick again the loop's own writes take
up an interval, so that the deadline cuts off a quick target, too, which a slow one has let in late. All other modules have safety properties only: their
requests may simply stop.

## 4. Findings

The findings of `PROJECT.json`, each shown by a run that violates what the repository says:

* `NoResidue`: a tracker resolves its key and calls the store in two lock sections (`P/observability/collect/requests.py:50`); an
  eviction by a reader in between leaves a request counted as waiting for ever.
* `OnCompleteAlways`: an upstream that fails in the middle of a body is recorded without `on_complete`
  (`P/telemetry/streaming.py:470`, against lines 162-163): no spend is recorded and the slot is not given back.
* `LimitKept`: the in-process limiter reads its count and writes it without a lock (`P/rate_limit.py:92-98`), on the loop and
  on the pool threads that run the background tasks (`P/routers/proxy.py:324`, 500, 806). A client leaves before its body
  began; the release has read the count when the loop lets another request in, and then overwrites that. Three requests hold a slot under a
  `max_concurrency` of two (against `README.md:69`).
* `OneProbe`: a half-open circuit lets every request through (`P/proxy_helpers.py:47`, against line 45).
* `ExactMatch`: a completion's prompt is not in the key of the exact cache (`P/services/cache_service.py:110`, against
  `P/models.py:313`): a prompt is answered with the answer to another one.
* `WorkAccounted`: a client that leaves a stream of Ollama's lines is recorded with no tokens
  (`P/telemetry/streaming.py:217`, against line 459).

**Further disagreements** met while modelling, which the modules show but no run is spent on. The properties that hold are
stated so that they hold beside these.

*Requests and slots*
* The five routes of `P/routers/v2_proxy.py` (47, 74, 290, 331, 360) take a slot and never give it back, against
  `P/models.py:139`. Kind `"v2"`; `SlotReturned` does not speak of it.
* The messages and speech routes take their slot (`P/routers/proxy.py:134`, 460) and can raise before the `try` that
  would give it back (189, 484): kinds `"messages"` and `"speech"`, `HandlerFails`.
* The race of the finding `LimitKept` goes the other way too: an acquisition or a release that overwrites a pool thread's release
  loses a slot for good.
* A response whose generator never ran, or whose settings lookup failed after the answer (`P/routers/proxy.py:735`), leaves its
  upstream open, against `P/proxy_helpers.py:623`: `LeaveEarly`, `AnswerFails`.
* A cancellation while `on_complete` awaits the database loses the spend (`P/telemetry/streaming.py:459-466`): `CutSpending`.
* Redis: the decrement and the delete of a release (`P/rate_limit.py:247-249`) are two calls, and an increment in between is
  wiped out; also by the pool threads of one worker; a refusal's decrement after another's delete leaves -1 (228); a release that fails after its decrement is
  made again on the fallback (253); the fallback counts from zero while requests
  are counted in Redis (237); every acquisition sets the counter's hour anew (232); nothing sets `_healthy` back (236).
* The retry loop does not ask `is_open` again (`P/proxy_helpers.py:643`); the failure of a last attempt is counted and then
  reset by `record_success` (658, 666); a shorter quarantine replaces a longer one (703); 401 and 403 are never
  quarantined (795, 846, against `README.md:80`); with every circuit open, `raise last_exc` raises None (683).

*Limits*
* The backpressure guard is said to count "active inference streams" and is left when the response starts; the seconds of
  a refusal's retry header are rounded down (`P/proxy_helpers.py:226`); the login "lockout" is a sliding window; a budget
  of 0 refuses everything. Slots bound by how much tokens overrun, but not by how much the budget does, since a slot
  is given back before the record is committed.
* `create_api_key` counts, then commits; an invite is spent twice by overlapping registrations or one that is cut off
  (`P/auth/manager.py:52-74`); two admins that demote each other at the same time leave none.

*Rows and caches*
* `register_backend`, `update_backend` and `delete_backend` clear the cache ("bust cache on mutation",
  `P/services/config_service.py:20`, 66, 73) before their routes commit, so a reader in between caches the old list again; the
  settings route (`P/routers/settings.py:64`) does not invalidate at all; and a reader that had a key in hand when it was
  revoked caches it again. The orders `"before"` and `"never"`, and `step = "raced"`.
* `poll_all_backends` is said to update "their 'models' list in the DB" (`P/services/federation_service.py:109`), but the merge of the
  cached row writes every column that differs: a manager's recent change is undone and a deleted server inserted again.
  `KeptOnceSettled` says for how long. The models are changed on the shared cached object before the commit, so a
  failed commit leaves the cache ahead of the database. `register_backend` calls `fetch_models_from_backend` with the wrong arguments
  (`P/routers/backends.py:58`) and swallows the error: it discovers nothing.
* The response cache keeps error bodies and gives them as successes; with the similarity cache on, answers that are not
  deterministic are stored (against `P/services/cache_service.py:125`); a fallback model's answer is kept under the model that was asked
  for; one Redis error turns Redis off for good; a `TTLCache` grows past its size with live entries (`P/cache.py:39`).
* A manual price for a local provider's `*` is never charged, one for "google" is looked up under "gemini"; seeding
  may overwrite a manual price that is committed meanwhile.
* "nothing is exported twice" (`P/observability/export/sinks.py:102`): spans that are queued while an integration is turned
  off go out twice to it, while it is turned on perhaps not at all; and what the environment's exporters send between the
  clear and the fill of the set (106-108) goes out twice, to any tool. `ExportedOnce` exempts these two cases and holds of the
  other tools. Overlapping saves can leave an old configuration applied.

*Names, text and figures*
* A model name with a slash that is no provider's prefix is split (`P/routers/proxy.py:556`) and not found, although a
  server lists it; an alias's server is ignored by the core; targets of the fallback chain are not checked for permission.
* Lines cut between chunks are lost by `translate_stream` (`P/translation/anthropic_to_openai.py:129`); prompt tokens of translated
  streams are recorded as 0; what the tag parser holds at the end is lost (`P/telemetry/streaming.py:446`); the last line is not
  normalised. `translate_request` drops tool calls and results, remote images and the tool choice "none".
* Two spellings of one model (`llama3`, `llama3:latest`) on one server are two rows of one group, and a process's memory is
  summed into it twice (`P/observability/api.py:188`, 197, with `collect/gpu.py:264-277`). Routing takes the first of servers that
  are read in no order (`P/services/config_service.py:28`).
* The live view adds a server's own queue to those of its models when it reports both. The long time frames' series leave
  out this minute while their summary counts it (`P/observability/api.py:546`); a late fallback is counted twice (`store.py:216`).

## 5. Proofs

TLAPS checks these theorems for all values of the constants under the modules' assumptions; the extra hypotheses of
each are part of its statement. The `TypeCorrect` theorems are the type invariants, each by an induction of its own.

| Theorem | States | Argument |
|---|---|---|
| `CollectProofs!CountsCorrect`, `BytesCorrect`, `OpenKeysSafe` | `CountsMatch`, `BytesMatch`, `OpenKeyKept`, if `ReaderThread = FALSE` | One inductive invariant `IInv`. The counts alone are not inductive: an update may create the key anew (so an open request's key must still be there, `OpenKeyKept`), and a resolved key may resolve differently when it is used (so it must stay resolvable, `PendingStays`, which needs that one request is between two calls, `OneMidway`). A key with an open request is not idle because its counts are right or its bytes are positive (`HeldWhile`), which closes the circle. |
| `CollectProofs!KeysCapped` | `KeysBounded`, with readers on threads | inductive as "apart from the overflow name, at most the limit" (`FewNamed`). |
| `CollectProofs!RequestsAlwaysAccounted` | `RequestsAccounted` | `AccountInv`, over well-typed rows (`RowsInv`). A fallback takes a count away only while its row of this minute still has one; so it must be known of any set of fresh requests under one key that the row has at least as many counts as there are of them, or that the counts that lack have been replaced already (`Covered`). Sums are moved, not recomputed: a flush, a drain and a prune carry the `Cells` of one table into another (`SumSplit`). |
| `CollectProofs!HistoryAlwaysAccounted` | `HistoryAccounted` | `RingInv`: a bucket is of a second that has its place in the ring, a key without state has an empty ring, and none was active after its activity time, so that what is evicted as idle has nothing in the window. `WindowInv` says `Covered` of the second that runs and keeps the seconds before it. The points and the summary hold the same cells, by a bijection (`SumRename`). |
| `SlotsProofs!SlotsCorrect` | `SlotAccounting` | `IInv`: the count is within `lost` of the number of holders, and so is, within what it has missed, the count that an operation has read (`ReadsNear`), which is why a write that overwrites changes is off by no more than these; requests outside hold nothing (`OutsideHoldsNone`); a request that is worked for holds its slot, which needs that the background task comes last (`BackgroundLast`) and that operations are where they may be (`OperationsInPlace`). |
| `SlotsProofs!ImplementsSemaphore` | `SemaphoreSpec` | from `IInv`, a step is an `Acquire`, a `Release`, a refusal or a stutter of `SlotSemaphore`. No hypothesis: releases run on pool threads. |
| `SlotsProofs!NothingTwice`, `AllClosed`, `OutcomesRecorded` | `NeverTwice`, `NothingLeftOpen`, `OutcomeRecorded` | `OutcomeInv` says per phase what has been recorded, closed and called by then; the outcome flag and the counters agree. |
| `SlotsProofs!SharedCounterKeepsSlots` | `NoLostSlot`, until a call fails or a worker is killed | `InRedis`: every call keeps the counter at or under the requests counted, wherever it falls between the calls of others; a delete and an expiry only lower it. |
| `SlotsProofs!LocalCounterKeepsSlots` | `LocalNoLostSlot`, with all faults and pool threads | what an operation has read exceeds the requests that the counter stands for by no more than `slips` and the changes it has missed (`LocalReads`). |
| `SlotsProofs!FallbackIsBounded` | `FallbackBound`, with all faults and pool threads | Redis counts no fewer requests than there are but for those it forgot (`NoneMissing`), so it lets in at most the limit and as many. A worker that still uses Redis has let in nobody else, but for those about to give a slot back again (`FewUntold`); afterwards its own counter, and what is read of it, fall short of the holders by at most that (`BoundNear`). |
| `UpstreamsProofs!CircuitsConsistent` | `CircuitConsistent` | `Sound(c)` of a function of circuits is kept by every report, so by every stretch of handler code that is built from reports. |
| `UpstreamsProofs!AnswersAllClosed` | `AnswersClosed` | with it, that a request is at a URL of its place and backs off only with an attempt left (`Placed`): otherwise the loops could end without passing on the answer they hold. |
| `UpstreamsProofs!NoRequestHammers`, `ChainIsHonoured` | `NoHammering`, `ChainHonoured` (action properties) | from the same invariant: the step's stretch of code is a search through URLs and targets, whose first hit is the one that is turned to. |
| `UpstreamsProofs!BackoffAlwaysEarned` | `BackoffEarned` | `PollerInv`: who is in flight and who waits are different targets and fit the places (`PlacesInv`); who is backed off has a report, so that a deleted target's entry goes with it (`BackoffInv`). |
| `UpstreamsProofs!SnapshotAlwaysHonest` | `SnapshotHonest`, half of `ViewHonest` | a target of the configuration has a report, is in flight or waits (`TickInv`), so at the end of a tick, when nobody does, all have one; reports show what their status says (`ShownInv`). |
| `UpstreamsProofs!ViewAlwaysHonest` | `ViewHonest`, if no two model names are taken for each other | the other half, `ViewExact`, follows from the reports' shape: instances of different pairs add up the memory of different processes, since a process has one server and, by the hypothesis, one model (`SumApart`); of a server's rows that show its own queue one is counted (`WaitingCounted`). The hypothesis is about the memory only, and needed: see the two spellings of section 4. |
| `UpstreamsProofs!AttributionAlwaysCurrent` | `AttributionCurrent` | the owner depends on the order of the configuration alone, and `End` attributes every host that has rows, carried over or not. |
| `ContentProofs!StalenessBounded`, `ExpiryBounded`, `InvalidationLasts` | `BoundedStaleness`, `ExpiredRejected`, `InvalidationHolds` | no entry outlives its row by more than ttl and delay, nor the key's expiry by more than the ttl (`EntryFresh`), because an answer in hand is at most one delay older than its row's end (`AnswerFresh`); once an invalidation was not raced, no reader of that worker has an older row in hand (`NoneBehind`). |
| `ContentProofs!AnswersAlwaysHonest` | `AnswersHonest` | every entry of every tier is a whole answer, to a request whose key is the entry's, and expires a ttl after it was given (`KeptInv`), however entries move between tiers. |
| `ContentProofs!OnlyLiveOvergrow` | `OvergrownByLive` | holds with every store, which first drops the expired ones; evictions and hits only take entries away (`SizeInv`). |
| `ControlPlaneProofs!RightsAlwaysGuarded` | `RightsGuarded` | a change that was let through is one its actor may make (`PatchesInv`), as the actor and the target were when they were read. |
| `ControlPlaneProofs!LimitsAlwaysKept` | `AccountLimits` | three invariants. `KeysInv`: the checked creations were counted in `crowd`. `InvitesInv`: while a code is open every use of it is by a registration that will mark it or was cut off (`Unmarked`), and uses and accounts to come (`Coming`) are at most the guests. `AdminInv`: alone, a request finds the rows as it has read them, and nobody may change what makes himself an administrator. |
| `ControlPlaneProofs!GuardAlwaysExact` | `GuardExact` | inductive as it stands, with the types: the count moves with the phase of the one request that enters or leaves the guarded phases, and every other step keeps its request inside or outside of them. |
| `ControlPlaneProofs!ConsumptionAlwaysBounded` | `ConsumptionBounded` | of money (`SpendInv`): those that are not charged yet are at most `peak`, the most that were ever in flight together. Of tokens (`TokensInv`): who will still record tokens holds a slot, of Redis or, once it has failed, also of the worker; so what exceeds the limit is at most one record for each. |
| `ControlPlaneProofs!WindowsAlwaysBounded` | `WindowsBounded` | of the bucket (`LocalInv`): what passed since any moment and what the bucket would hold if it were asked now (`Potential`) is at most a full bucket and the refill since. The bound of a minute alone is not inductive, nor is what the bucket holds, which is refilled only when asked. Of Redis (`RedisInv`): no calendar minute sees more than the limit, and any minute lies in two of them; what the worker lets in after Redis has failed is bounded by itself. Of failed logins: those of the window are counted or were under way together (`LoginsBounded`). |
| `ControlPlaneProofs!AlwaysRoutedWell` | `RoutedWell` (action property) | `RouteInv` keeps what is true of the name once it is resolved, and that who was routed without a change in between went to a server that fits; `TargetFits` is the one about `get_target_backend`. |
| `ControlPlaneProofs!CopiesAlwaysFresh`, `ChangesSettle` | `CopiesFresh`, `KeptOnceSettled` | each copy of the row (in a query, a list, a pass of the loop) is right but for the models or older than the last change by no more than its place allows: a query by `Patience`, a list by `ListTtl + Patience`, a pass, which may begin with a list, by another `Patience`. A write makes the copies it replaces old at this moment (`WriteKeeps`), passing time moves no copy past its bound (`NextMomentStep`), and a commit that changes more than the models then shows how late it can be (`CommitPollOld`). The polls of several processes may undo one another's changes, which is why the invariant speaks of the last change and not of the manager's. |
| `ControlPlaneProofs!ExportsHappenOnce` | `ExportedOnce` | `SentInv`, tool by tool: unless the tool was turned on or off under the span, its managed exporter runs as it did when the span ended, the environment's drops exactly then (outside of the window in which the set is filled), and the tool has been sent what is no longer in its queues (`Told`). An application that replaces the tool's exporter sends what the old one holds (`ApplyTold`). |
| `ControlPlaneProofs!WorkersRunWhatIsStored` | `RunsWhatIsStored` | an applied stamp says what runs only if no stamp comes back over other rows: until a row is deleted no time is ahead of the clock that every change advances (`TimesInv`); and a worker's loop or request that has read the rows has read the present ones if it has read the present stamp (`AppliedInv`). |
| `ControlPlaneProofs!ManualPricesStand` | `ManualPrice` | `RowInv`: a manual row's price is one that managers gave, their last while requests did not overlap. Needs to know of the rows that requests hold which of them are still the stored ones (`HeldOK`): a seed writes what it has read before. |

The sums of the history and of the view are reasoned about with the lemmas of `SumsProofs` (splitting, changing one term,
adding, renaming, disjoint parts).

**Texts and bodies** are sequences of any length, so what a loop makes of them needs an induction. `Folding` proves it once,
for any step: that a fold stays where every step stays (`FoldType`), that two portions in turn are one (`FoldConcat`), that
what it begins with stays in front if every step leaves it there (`FoldPushes`), and that all sequences are in a set that has
the empty one and is closed under `Append` (`SeqInduction`). The proofs reason about the set of numbers for which a claim
holds (`Induction`), since the induction theorems that take a predicate cannot be instantiated.

| Theorem | States | Argument |
|---|---|---|
| `StreamProofs!FeedSplits` | what `feed` computes | whatever portions a text is fed in, the parser has given what a split letter by letter (`Split`) gives, but for the letters it holds back, which are the ones `Split` has matched of the tag. Each turn of its loop keeps what is said in the end and leaves less to feed (`TurnKeeps`); since the letters of a tag differ, what is held is the only beginning of it there can be (`HeldIs`). |
| `StreamProofs!StreamDelivers` | `Delivered` | *Lines:* what a translation drops says nothing and what it keeps stays in order (`PiecesSelect`, `EventsSelect`), so the client gets what all lines say (`SelectedAgrees`). *States:* `StreamInv`, with `Reached`: the parser and what was given are those of the lines passed on so far, and these with the ones due are what the lines that came are turned into, which is the same chunk by chunk as at once unless one ends inside an event (`EventsJoin`). `Delivered` alone is not inductive: it says nothing before the end. |
| `StreamProofs!StreamRecorded` | `WorkRecorded` | in the same invariant: the scan's counts are those of the lines passed on, and are charged as soon as text was given (`ChargedNow`). Counts that do not fall are read alike by all who read them, the last, the last that is not 0 and the greatest (`TracksGreatest`, `ScanGreatest`, `CountGreatest`, `SaidGreatest`); a stream without counts has its pieces counted, each once (`SelectedCount`). |
| `ContentProofs!TalkKept` | `SameTalk` | `TalkInv`: a body keeps the shape of its format, says what was sent, and tells the model what was sent unless a system prompt was a list. Each translation keeps these of the body it gets (`OpenAIKeeps`, `AnthropicKeeps`), because it keeps every part it knows and translating what it keeps changes nothing (`KnownTwice`, `TextTwice`, `SpokenTwice`). `SameTalk` alone does not say that the body still has a shape the next translation reads, nor that its system prompt is plain. |

These rest on two assumptions, which TLC evaluates. `BodiesAssumption`: a body has the shape of its format: contents are
strings or lists of parts, roles are those of the protocol. `StreamAssumption`: a server keeps to its protocol
(`KeepsProtocol`): a whole answer is no part of an event stream, Anthropic's deltas and its last usage are announced by an
event line, completion tokens do not fall, and Anthropic's last event has them. What a server that does not is recorded with
is not claimed. Nothing is assumed of how an answer is cut into chunks or pieces.

**Only model-checked:** the liveness properties (`SlotReturned`, `Answered`, `HealthyAsked`), which are out of the
prover's reach. Every invariant and action property of a passing run is a theorem, some under the hypotheses named above.

## 6. Not modelled, and why

* Functions of text without state: guardrails, PII, JSON healing, image inlining, metadata look-ups, error wording, the
  text formats of metrics, whole-answer translation. A model of a regular expression would restate it.
* Clients of other services (bots, MCP, mail, webhooks), UI pages and reports, set-up of OpenTelemetry, the exporters'
  presets, wiring, migrations, scripts: no state of the gateway that interleaves.
* The GPU agent is stateless; its answers are an input of `Poller`.
* Of the modelled parts: latencies, token rates and percentiles, labels and the cluster summary of the live view, the
  second and later pages of the servers' list (`limit` 50), passwords and sessions, health probes, the policy rules
  (`P/policy.py` caches the defaults for 30 s when the database fails).
* The modules are composed where they share state that both change (poller and circuits, loop and managers, requests and
  flushers); a composition of the whole request path in one state space is past TLC's reach at these bounds.

## 7. Running

`tlc -config MCCollect.cfg MCCollect`, and so on: each configuration belongs to the MC module whose name it begins
with. The longest runs take about three minutes with two workers. `tlapm CollectProofs.tla`, and so on, checks the
proofs; `StreamProofs` takes a quarter of an hour, the others less.
