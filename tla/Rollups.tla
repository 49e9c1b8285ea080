------------------------------ MODULE Rollups ------------------------------
(***************************************************************************)
(* What the live store counts per second and per minute                    *)
(* (observability/store.py), how the minute rows reach the database        *)
(* (observability/collect/poller.py) and what the history endpoint makes   *)
(* of them (observability/api.py).                                         *)
(*                                                                         *)
(* A request is counted in the second ring and in the minute row of its    *)
(* key when it is dispatched; a fallback moves the count to another key    *)
(* "now", which may be another second or minute than the dispatch.  The    *)
(* poller loop and every history query take all minute rows out of memory  *)
(* and add them to the database in one transaction, which may fail.        *)
(*                                                                         *)
(* A key is a (server, model) pair the tracker has resolved (LiveStats).   *)
(* Of what a row holds, the requests: errors, tokens and samples are sums   *)
(* of the same kind, and latencies are joined.                             *)
(***************************************************************************)
EXTENDS Integers, FiniteSets, Functions, Sums

CONSTANTS
  Request,      \* requests
  Pair,         \* resolved (server, model) pairs
  Flusher,      \* those that flush: the poller loop and history queries
  Window,       \* WINDOW_S, the length of the ring
  IdleAfter,    \* IDLE_EVICT_S
  MinuteLen,    \* seconds of a minute
  Retain,       \* minutes a row is kept (30 days)
  LongSpan,     \* minutes of the long timeframes (1h and more)
  LongBin,      \* minutes of one of their points
  LastSecond,   \* bound of the exploration: the last second
  MaxMoves,     \* bound of the exploration: fallbacks
  MaxPolls,     \* bound of the exploration: polls that add rows
  MaxDrains,    \* bound of the exploration: flushes
  MaxFaults     \* bound of the exploration: failed flushes and crashes

ASSUME RollupsAssumption ==
  /\ IsFiniteSet(Pair) /\ IsFiniteSet(Flusher)
  /\ Window \in Nat \ {0} /\ MinuteLen \in Nat \ {0}
  /\ IdleAfter \in Nat /\ IdleAfter >= Window
  /\ LongBin \in Nat \ {0} /\ LongSpan \in Nat /\ LongSpan % LongBin = 0
  /\ Retain \in Nat
  /\ {LastSecond, MaxMoves, MaxPolls, MaxDrains, MaxFaults} \subseteq Nat

VARIABLES
  second,
  stage,        \* "new", "waiting" or "finished", per request
  countedAt,    \* the key a waiting request is accounted under
  ring,         \* _KeyState.buckets: key -> second % Window -> bucket
  activeAt,     \* _KeyState.last_active of the keys that have state
  memory,       \* LiveStats._minute_buckets: <<minute, key>> -> row
  flushing,     \* the rows each flusher has drained and not yet written
  polled,       \* the poller has a snapshot, and in it every pair
  db,           \* the table model_telemetry_rollups
  gone,         \* history: requests lost with a failed flush, a crash, a prune
  born,         \* history: the second a request was dispatched in
  fresh,        \* history: requests whose count is in this minute's memory row
  lateAt,       \* history: per second, fallbacks of requests of an earlier second
  stray,        \* history: fallbacks of requests that were not fresh
  moves, polls, drains, faults  \* what the Max constants bound

storeVars == <<ring, activeAt, memory>>
historyVars == <<gone, born, fresh, lateAt, stray>>
boundVars == <<moves, polls, drains, faults>>
rollupVars == <<second, stage, countedAt, storeVars, flushing, polled, db, historyVars, boundVars>>

\* Rows are partial functions on <<minute, key>>; an absent row is zero.
NoRows == [x \in {} |-> 0]

Minute == second \div MinuteLen
Now(k) == <<Minute, k>>

-----------------------------------------------------------------------------
(* The second ring.  A bucket keeps the second it stands for; of what it   *)
(* counts, the requests.                                                   *)

Empty(s) == [sec |-> s, requests |-> 0]
NoRing == [i \in 0..(Window - 1) |-> Empty(-1)]

\* Bug: a bucket of an earlier lap is not reset.
BucketKeepsLap(rg, k) == [rg[k][second % Window] EXCEPT !.sec = second]

\* _bucket: the bucket of the current second, reset when it is of another lap.
BucketNow(rg, k) ==
  IF rg[k][second % Window].sec = second THEN rg[k][second % Window] ELSE Empty(second)

Floor(n) == IF n < 0 THEN 0 ELSE n
AddRequests(rg, k, d) ==
  LET b == BucketNow(rg, k)
  IN  [rg EXCEPT ![k][second % Window] = [b EXCEPT !.requests = Floor(@ + d)]]

\* _window: the buckets of the last span seconds.
InWindow(k, span) ==
  {i \in 0..(Window - 1) : /\ ring[k][i].sec > second - span
                           /\ ring[k][i].sec <= second}

\* get_1s_history: what a key's point for second s shows.
OneSecond(k, s) ==
  LET b == ring[k][s % Window] IN IF b.sec = s THEN b.requests ELSE 0

\* The seconds that a series has a point for.
LastSeconds == {s \in 0..second : s > second - Window}

Busy(k) == \E r \in DOMAIN countedAt : countedAt[r] = k

\* _evict_idle.  Busy is what the counters say, by LiveStats!CountsMatch.
IdlePairs == {k \in DOMAIN activeAt : second - activeAt[k] > IdleAfter /\ ~Busy(k)}

\* _state(k) for each k of K: a key without state evicts the idle ones first.
Evicted(K) == IF K \subseteq DOMAIN activeAt THEN {} ELSE IdlePairs
Fresh(out) == [k \in Pair |-> IF k \in out THEN NoRing ELSE ring[k]]
TouchPairs(K) ==
  activeAt' = [k \in (DOMAIN activeAt \ Evicted(K)) \cup K |->
                   IF k \in K THEN second ELSE activeAt[k]]

-----------------------------------------------------------------------------
(* The store's writes.  Each holds the store's lock: one action.           *)

Record(rows, x, add) ==
  [y \in DOMAIN rows \cup {x} |-> IF y = x THEN At(rows, x) + add ELSE rows[y]]
TakeOne(rows, x) ==
  [y \in DOMAIN rows \cup {x} |->
     IF y = x THEN Floor(At(rows, x) - 1) ELSE rows[y]]

CountDispatch(r, k) ==
  /\ stage[r] = "new"
  /\ stage' = [stage EXCEPT ![r] = "waiting"]
  /\ countedAt' = [q \in DOMAIN countedAt \cup {r} |-> IF q = r THEN k ELSE countedAt[q]]
  /\ ring' = AddRequests(Fresh(Evicted({k})), k, 1)
  /\ TouchPairs({k})
  /\ memory' = Record(memory, Now(k), 1)
  /\ born' = [born EXCEPT ![r] = second]
  /\ fresh' = fresh \cup {r}
  /\ UNCHANGED <<second, polled, flushing, db, gone, lateAt, stray, boundVars>>

\* Bug: the request is counted under the new key and stays under the old one.
MoveCopies(rows, old, new) == Record(rows, new, 1)

\* The count leaves the old key's row of the CURRENT minute, clamped at zero.
Move(rows, old, new) == Record(TakeOne(rows, old), new, 1)

MoveBucket(rg, old, new) == AddRequests(AddRequests(rg, old, -1), new, 1)

CountMove(r, k) ==
  /\ stage[r] = "waiting"
  /\ k # countedAt[r]
  /\ moves < MaxMoves
  /\ ring' = MoveBucket(Fresh(Evicted({countedAt[r], k})), countedAt[r], k)
  /\ TouchPairs({countedAt[r], k})
  /\ memory' = Move(memory, Now(countedAt[r]), Now(k))
  /\ countedAt' = [countedAt EXCEPT ![r] = k]
  /\ lateAt' = IF born[r] < second THEN [lateAt EXCEPT ![second] = @ + 1] ELSE lateAt
  /\ stray' = IF r \in fresh THEN stray ELSE stray + 1
  /\ fresh' = fresh \cup {r}
  /\ moves' = moves + 1
  /\ UNCHANGED <<second, polled, stage, flushing, db, gone, born, polls, drains, faults>>

\* finish: errors and tokens are added to the second and minute of the END.
CountEnd(r) ==
  LET k == countedAt[r]
  IN  /\ stage[r] = "waiting"
      /\ stage' = [stage EXCEPT ![r] = "finished"]
      /\ countedAt' = Restrict(countedAt, DOMAIN countedAt \ {r})
      /\ ring' = AddRequests(Fresh(Evicted({k})), k, 0)
      /\ TouchPairs({k})
      /\ memory' = Record(memory, Now(k), 0)
      /\ UNCHANGED <<second, polled, flushing, db, historyVars, boundVars>>

\* record_poll_metrics: one row per server and model of the last poll.
Scraped == {Now(k) : k \in Pair}

\* sample_concurrency, then record_server_scrape for the configured pairs: a
\* poll makes sure that every pair has a row this minute.
RecordPollMetrics ==
  /\ polls < MaxPolls
  /\ polls' = polls + 1
  /\ polled' = TRUE
  /\ memory' = [x \in DOMAIN memory \cup Scraped |-> At(memory, x)]
  /\ UNCHANGED <<second, stage, countedAt, ring, activeAt, flushing, db, historyVars, moves, drains, faults>>

\* snapshot evicts as it reads.
EvictIdle ==
  /\ IdlePairs # {}
  /\ ring' = Fresh(IdlePairs)
  /\ activeAt' = Restrict(activeAt, DOMAIN activeAt \ IdlePairs)
  /\ UNCHANGED <<second, polled, stage, countedAt, memory, flushing, db, historyVars, boundVars>>

-----------------------------------------------------------------------------
(* To the database.                                                        *)

\* What a drain leaves in memory: _minute_buckets.clear().
Drained == NoRows

Drain(f) ==
  /\ flushing[f] = NoRows
  /\ memory # NoRows
  /\ drains < MaxDrains
  /\ drains' = drains + 1
  /\ flushing' = [flushing EXCEPT ![f] = memory]
  /\ memory' = Drained
  /\ fresh' = {}
  /\ UNCHANGED <<second, polled, stage, countedAt, ring, activeAt, db,
                 gone, born, lateAt, stray, moves, polls, faults>>

\* INSERT ... ON CONFLICT (bucket_time, server, model) DO UPDATE: adds.
Upsert(rows) == [x \in DOMAIN db \cup DOMAIN rows |-> At(db, x) + At(rows, x)]

\* All rows in one transaction.
Commit(f) ==
  /\ flushing[f] # NoRows
  /\ db' = Upsert(flushing[f])
  /\ flushing' = [flushing EXCEPT ![f] = NoRows]
  /\ UNCHANGED <<second, polled, stage, countedAt, storeVars, historyVars, boundVars>>

\* The write fails, or the loop is cancelled in it: the rows are dropped.
FlushFails(f) ==
  /\ flushing[f] # NoRows
  /\ faults < MaxFaults
  /\ faults' = faults + 1
  /\ gone' = gone + Sum(flushing[f])
  /\ flushing' = [flushing EXCEPT ![f] = NoRows]
  /\ UNCHANGED <<second, polled, stage, countedAt, storeVars, db, born, fresh, lateAt, stray, moves, polls, drains>>

Prune ==
  LET old == {x \in DOMAIN db : x[1] < Minute - Retain}
  IN  /\ old # {}
      /\ gone' = gone + Sum(Restrict(db, old))
      /\ db' = Restrict(db, DOMAIN db \ old)
      /\ UNCHANGED <<second, polled, stage, countedAt, storeVars, flushing,
                     born, fresh, lateAt, stray, boundVars>>

\* The counts that are drained and not yet written.
Underway == Sum([f \in Flusher |-> Sum(flushing[f])])

\* The process dies: every in-memory count is lost, open requests with it.
Crash ==
  /\ faults < MaxFaults
  /\ faults' = faults + 1
  /\ polled' = FALSE
  /\ memory # NoRows \/ \E f \in Flusher : flushing[f] # NoRows
  /\ gone' = gone + Sum(memory) + Underway
  /\ memory' = NoRows
  /\ flushing' = [f \in Flusher |-> NoRows]
  /\ ring' = [k \in Pair |-> NoRing]
  /\ activeAt' = [k \in {} |-> 0]
  /\ stage' = [r \in Request |-> IF stage[r] = "waiting" THEN "finished" ELSE stage[r]]
  /\ countedAt' = [r \in {} |-> 0]
  /\ born' = [r \in Request |-> -1]
  /\ fresh' = {}
  /\ UNCHANGED <<second, db, lateAt, stray, moves, polls, drains>>

NextSecond ==
  /\ second < LastSecond
  /\ second' = second + 1
  /\ fresh' = IF Minute' = Minute THEN fresh ELSE {}
  /\ UNCHANGED <<polled, stage, countedAt, storeVars, flushing, db, gone, born, lateAt, stray, boundVars>>

-----------------------------------------------------------------------------
(* GET /admin/observability/history, for the timeframes read from the      *)
(* table: "1m" (this minute and the last) and a long one (1h and more).    *)

Span == [tf \in {"1m", "long"} |-> IF tf = "1m" THEN 1 ELSE LongSpan]
Bin == [tf \in {"1m", "long"} |-> IF tf = "1m" THEN 1 ELSE LongBin]
Start(tf) == Minute - Span[tf]

End(tf) == IF tf = "1m" THEN Minute + 1 ELSE Minute

\* The pairs of the poller's snapshot: none before the first poll.
Configured == IF polled THEN Pair ELSE {}

\* The "1s" timeframe: the keys the store has state for, and those configured
\* ones it has none for, with a series of zeros.
LiveSeries ==
  [k \in DOMAIN activeAt \cup Configured |->
     [s \in LastSeconds |-> IF k \in DOMAIN activeAt THEN OneSecond(k, s) ELSE 0]]

\* The rows of the SELECT, for one key.
Selected(tf, k) ==
  {x \in DOMAIN db : x[2] = k /\ x[1] >= Start(tf) /\ x[1] <= Minute + 1}

\* _downsample_rollups: point i sums the rows whose offset falls in bin i.
Points(tf) == 0..((End(tf) - Start(tf)) \div Bin[tf] - 1)
Point(tf, k, i) ==
  Sum(Restrict(db, {x \in Selected(tf, k) : (x[1] - Start(tf)) \div Bin[tf] = i}))
Series(tf, k) == Sum([i \in Points(tf) |-> Point(tf, k, i)])
Summary(tf, k) == Sum(Restrict(db, Selected(tf, k)))

\* The keys of the answer: those with rows, and the configured ones.
Listed(tf) == {k \in Pair : Selected(tf, k) # {}} \cup Configured

-----------------------------------------------------------------------------
RollupsTypeOK ==
  /\ second \in 0..LastSecond
  /\ stage \in [Request -> {"new", "waiting", "finished"}]
  /\ countedAt \in [{r \in Request : stage[r] = "waiting"} -> Pair]
  /\ DOMAIN activeAt \subseteq Pair
  /\ \A k \in Pair, i \in 0..(Window - 1) :
       /\ ring[k][i].sec \in -1..LastSecond
       /\ ring[k][i].requests \in Nat
  /\ \A rows \in {memory, db} \cup {flushing[f] : f \in Flusher} :
       \A x \in DOMAIN rows : x[2] \in Pair /\ rows[x] \in Nat
  /\ fresh \subseteq Request
  /\ polled \in BOOLEAN
  /\ {gone, stray, moves, polls, drains, faults} \subseteq Nat

RollupsInit ==
  /\ second = 0
  /\ stage = [r \in Request |-> "new"]
  /\ countedAt = [r \in {} |-> 0]
  /\ ring = [k \in Pair |-> NoRing]
  /\ activeAt = [k \in {} |-> 0]
  /\ memory = NoRows
  /\ flushing = [f \in Flusher |-> NoRows]
  /\ polled = FALSE
  /\ db = NoRows
  /\ gone = 0
  /\ born = [r \in Request |-> -1]
  /\ fresh = {}
  /\ lateAt = [s \in 0..LastSecond |-> 0]
  /\ stray = 0
  /\ moves = 0
  /\ polls = 0
  /\ drains = 0
  /\ faults = 0

RollupsNext ==
  \/ \E r \in Request, k \in Pair : CountDispatch(r, k) \/ CountMove(r, k)
  \/ \E r \in Request : CountEnd(r)
  \/ RecordPollMetrics
  \/ EvictIdle
  \/ \E f \in Flusher : Drain(f) \/ Commit(f) \/ FlushFails(f)
  \/ Prune
  \/ Crash
  \/ NextSecond

RollupsSpec == RollupsInit /\ [][RollupsNext]_rollupVars

-----------------------------------------------------------------------------
Dispatched == {r \in Request : stage[r] # "new"}

Counted == Sum(memory) + Sum(db) + gone + Underway

(* Minute rows: wherever a request's count is (memory, a flush, the table, *)
(* or lost), it is there at least once, and it is there more than once     *)
(* only for a fallback that came after the count had left the memory row   *)
(* of the current minute (store.py:216-225: the old count is taken off the *)
(* wrong row, clamped).  Drain, upsert and concurrent flushes neither      *)
(* repeat nor drop a row.                                                  *)
RequestsAccounted ==
  /\ Cardinality(Dispatched) <= Counted
  /\ Counted <= Cardinality(Dispatched) + stray

(* Second ring: what the rates read for each second of the window is at    *)
(* least the requests dispatched in it (no lap is confused with another,   *)
(* no idle eviction takes counts that are still in the window), and at     *)
(* most those and the fallbacks that second saw of earlier requests; and   *)
(* the summary of the window is the sum of its points (store.py:420-440).  *)
DispatchedIn(s) == Cardinality({r \in Request : born[r] = s})
ReadFor(s) == Sum([k \in DOMAIN LiveSeries |-> LiveSeries[k][s]])
WindowAccounted ==
  /\ \A s \in LastSeconds : /\ DispatchedIn(s) <= ReadFor(s)
                            /\ ReadFor(s) <= DispatchedIn(s) + lateAt[s]
  /\ \A k \in Pair :
       Sum([i \in InWindow(k, Window) |-> ring[k][i].requests])
         = Sum([s \in LastSeconds |-> OneSecond(k, s)])

(* History: no key with a count in the timeframe is missing, a point is    *)
(* never counted twice and no row is left out of the series, except this   *)
(* minute's, which the long timeframes put in the summary and in no point  *)
(* (api.py:546-547).                                                       *)
SeriesAccounts ==
  /\ \A tf \in DOMAIN Span :
       Sum([k \in Listed(tf) |-> Summary(tf, k)])
         = Sum(Restrict(db, {x \in DOMAIN db : x[1] >= Start(tf)}))
  /\ \A k \in Pair :
       /\ Series("1m", k) = Summary("1m", k)
       /\ Series("long", k) + At(db, Now(k)) = Summary("long", k)

(* What an operator reads of the counts: the ring's rates and the history's  *)
(* points count every request, and none twice.                             *)
HistoryAccounted == WindowAccounted /\ SeriesAccounts
=============================================================================
