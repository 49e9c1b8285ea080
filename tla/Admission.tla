----------------------------- MODULE Admission -----------------------------
(***************************************************************************)
(* What a request has to pass before it is served: the in-flight guard and *)
(* the login window (middleware.py, services/backpressure_service.py), the *)
(* requests and tokens per minute of its key (rate_limit.py) and the       *)
(* monthly budget (services/spend_service.py).                             *)
(*                                                                         *)
(* All of them look first and count later: tokens are counted when the     *)
(* answer is over, money when its record is committed, a login when it has *)
(* failed.  The module says by how much each limit can be overrun.         *)
(*                                                                         *)
(* One worker and one key.  apply_rate_limit runs without an await, so it  *)
(* is one action; with Redis, its counters are those of all workers.  What *)
(* becomes of a slot when things go wrong is RequestLifecycle's subject.   *)
(***************************************************************************)
EXTENDS Integers, FiniteSets, FiniteSetsExt

CONSTANTS
  Req,          \* requests
  Limits,       \* keys: [kind, rpm, tpm, slots, budget]; 0 stands for no limit
  M,            \* ticks of a minute
  BucketTTL,    \* BUCKET_TTL_SECONDS in ticks
  MaxInflight,  \* GATEWAY_MAX_INFLIGHT_REQUESTS
  MaxAttempts,  \* MAX_ATTEMPTS of the login window
  LoginWindow,  \* WINDOW_SECONDS in ticks
  MaxTokens,    \* the most tokens, and money, of one answer
  UseRedis,     \* REDIS_URL is set
  MaxClock,     \* bound of the exploration: the last tick
  MaxArrivals,  \* bound of the exploration: requests that arrive
  MaxFaults     \* bound of the exploration: Redis failures

ASSUME AdmissionAssumption ==
  /\ IsFiniteSet(Req)
  /\ {M, MaxInflight, MaxAttempts, LoginWindow, MaxTokens} \subseteq Nat \ {0}
  /\ {BucketTTL, MaxClock, MaxArrivals, MaxFaults} \subseteq Nat
  /\ BucketTTL >= M
  /\ UseRedis \in BOOLEAN
  /\ Limits \subseteq [kind : {"inference", "login"}, rpm : Nat, tpm : Nat, slots : Nat, budget : Nat]

VARIABLES
  key,          \* the API key, one of Limits
  clock,
  phase,        \* where each request is
  inflight,     \* _inflight_count of the guard
  bucket,       \* LocalRateLimiter._buckets: [level, at] or NoBucket; level in 1/M tokens
  cleaned,      \* _last_cleanup
  records,      \* LocalRateLimiter._token_records, as a running total
  redis,        \* the counters of this minute: [minute, requests, tokens]
  healthy,      \* RedisRateLimiter._healthy
  slots,        \* slots of the key that its limiter counts
  spent,        \* the month's sum of committed SpendRecords
  attempts,     \* LoginRateLimitMiddleware._attempts of the address, likewise
  passed,       \* history: running totals of the requests each store let pass,
                \* and of the logins that failed
  peak,         \* history: the most requests at once that were not charged yet
  arrivals, faults  \* bounded by MaxArrivals and MaxFaults

limiterVars == <<bucket, cleaned, records, redis, healthy, passed, faults>>
admissionVars == <<key, clock, phase, inflight, limiterVars, slots, spent, attempts, peak, arrivals>>

In(p) == {r \in Req : phase[r] \in p}
Step(r, p) == phase' = [phase EXCEPT ![r] = p]
Lesser(a, b) == IF a < b THEN a ELSE b
Greater(a, b) == IF a > b THEN a ELSE b

(* A list of times with amounts is read through the filter of a window     *)
(* only, and the entries dropped from it are older than any window to come *)
(* reads: all there is to know of it is how much was added through each    *)
(* tick.                                                                   *)
Total == [0..MaxClock -> Nat]
Nothing == [t \in 0..MaxClock |-> 0]
Counted(total, k) == [t \in 0..MaxClock |-> IF t < clock THEN total[t] ELSE total[t] + k]
Through(total, t) == IF t < 0 THEN 0 ELSE total[Lesser(t, clock)]
Within(total, from, to) == Through(total, to) - Through(total, from - 1)

-----------------------------------------------------------------------------
(* The guard around inference paths.                                       *)

Guarded == {"entered", "admitted", "asking"}

Arrive(r) ==
  /\ phase[r] = "idle"
  /\ key.kind = "inference"
  /\ arrivals < MaxArrivals
  /\ arrivals' = arrivals + 1
  /\ IF inflight >= MaxInflight
       THEN Step(r, "idle") /\ UNCHANGED inflight
       ELSE Step(r, "entered") /\ inflight' = inflight + 1
  /\ UNCHANGED <<key, clock, limiterVars, slots, spent, attempts, peak>>

\* Bug: the guard is not left when the handler raises.
LeaveOnlyAnswered(p) == inflight' = IF p = "idle" THEN inflight ELSE Greater(0, inflight - 1)

\* The guard is left with the response's start, or with the error.
Leave(p) == inflight' = Greater(0, inflight - 1)

-----------------------------------------------------------------------------
(* Requests per minute.                                                    *)

NoBucket == [level |-> 0, at |-> -1]
Full == [level |-> key.rpm * M, at |-> clock]

\* _cleanup_stale_buckets, at most once a minute.
CleanupDue == clock - cleaned >= M
Cleaned == IF CleanupDue THEN clock ELSE cleaned
Stale == CleanupDue /\ bucket.at < clock - BucketTTL
Kept == IF bucket = NoBucket \/ Stale THEN Full ELSE bucket

Refilled == Lesser(key.rpm * M, Kept.level + (clock - Kept.at) * key.rpm)

\* Bug: the time of the last refill is kept.
LocalRequestStaleTime ==
  [ok |-> Refilled >= M, bucket |-> [level |-> IF Refilled >= M THEN Refilled - M ELSE Refilled, at |-> Kept.at]]

LocalRequest ==
  [ok |-> Refilled >= M, bucket |-> [level |-> IF Refilled >= M THEN Refilled - M ELSE Refilled, at |-> clock]]

\* The counters of a minute; EXPIRE drops the others.
Minute == clock \div M
Counters == IF redis.minute = Minute THEN redis ELSE [minute |-> Minute, requests |-> 0, tokens |-> 0]

-----------------------------------------------------------------------------
(* Tokens per minute.                                                      *)

\* The records of the last minute, as of tick t.
LocalTokensAt(t) == Within(records, t - M + 1, t)

\* How long until enough of the records are older than a minute.
RetryTokens ==
  LET needed == LocalTokensAt(clock) - key.tpm + 1
      enough == {u \in 0..clock : Within(records, clock - M + 1, u) >= needed}
  IN  IF enough = {} THEN M ELSE Greater(1, M - (clock - Min(enough)))

TokensOk(shared) ==
  key.tpm = 0 \/ (IF shared THEN Counters.tokens ELSE LocalTokensAt(clock)) < key.tpm

RecordTokens(shared, t) ==
  /\ records' = IF t > 0 /\ ~shared THEN Counted(records, t) ELSE records
  /\ redis' = IF t > 0 /\ shared THEN [Counters EXCEPT !.tokens = @ + t] ELSE redis

-----------------------------------------------------------------------------
(* apply_rate_limit.                                                       *)

Pass(store) == [passed EXCEPT ![store] = Counted(@, 1)]

RequestOk(shared) ==
  \/ key.rpm = 0
  \/ IF shared THEN Counters.requests + 1 <= key.rpm ELSE LocalRequest.ok

\* The request is counted even if it is refused for another limit.
CountRequest(shared) ==
  IF key.rpm = 0 THEN UNCHANGED <<bucket, cleaned, redis, passed>>
  ELSE /\ passed' = IF RequestOk(shared) THEN Pass(IF shared THEN "redis" ELSE "local") ELSE passed
       /\ IF shared
            THEN /\ redis' = [Counters EXCEPT !.requests = @ + 1]
                 /\ UNCHANGED <<bucket, cleaned>>
            ELSE bucket' = LocalRequest.bucket /\ cleaned' = Cleaned /\ UNCHANGED redis

SlotFree(held) == key.slots = 0 \/ held < key.slots

ApplyRateLimit(r, shared, held) ==
  LET ok == RequestOk(shared) /\ TokensOk(shared) /\ SlotFree(held)
  IN  /\ phase[r] = "entered"
      /\ CountRequest(shared)
      /\ IF ok THEN Step(r, "admitted") /\ UNCHANGED inflight
               ELSE Step(r, "idle") /\ Leave("idle")
      /\ slots' = IF ok /\ key.slots > 0 THEN held + 1 ELSE held
      /\ UNCHANGED <<key, clock, records, spent, attempts, peak, arrivals>>

\* A worker that has seen Redis fail once uses its own limiter for good, which
\* has counted nothing so far.
Admit(r) ==
  \/ ApplyRateLimit(r, UseRedis /\ healthy, slots) /\ UNCHANGED <<healthy, faults>>
  \/ /\ UseRedis /\ healthy
     /\ faults < MaxFaults
     /\ faults' = faults + 1
     /\ healthy' = FALSE
     /\ ApplyRateLimit(r, FALSE, 0)

Release == slots' = Greater(0, slots - 1)

-----------------------------------------------------------------------------
(* The budget, the answer and the accounts.                                *)

Uncharged == {"asking", "body", "charging"}

\* Bug: the budget is exceeded only when more than it is spent, twice over.
OverBudgetLate == key.budget > 0 /\ spent > key.budget

\* check_budget, for the owner and for the key.
OverBudget == key.budget > 0 /\ spent >= key.budget

CheckBudget(r) ==
  /\ phase[r] = "admitted"
  /\ IF OverBudget
       THEN Step(r, "idle") /\ Leave("idle") /\ Release
       ELSE Step(r, "asking") /\ UNCHANGED <<inflight, slots>>
  /\ peak' = Greater(peak, Cardinality({q \in Req : phase'[q] \in Uncharged}))
  /\ UNCHANGED <<key, clock, limiterVars, spent, attempts, arrivals>>

\* The upstream answers and the response starts: the guard is left, though
\* the body is still to come; or the upstream fails.
Answer(r) ==
  /\ phase[r] = "asking"
  /\ Step(r, "body") /\ Leave("body")
  /\ UNCHANGED <<key, clock, limiterVars, slots, spent, attempts, peak, arrivals>>

Fail(r) ==
  /\ phase[r] = "asking"
  /\ Step(r, "idle") /\ Leave("idle") /\ Release
  /\ UNCHANGED <<key, clock, limiterVars, spent, attempts, peak, arrivals>>

\* on_stream_complete up to its await: the slot, then the tokens.
EndBody(r, t) ==
  /\ phase[r] = "body"
  /\ Release
  /\ RecordTokens(UseRedis /\ healthy, t)
  /\ Step(r, "charging")
  /\ UNCHANGED <<key, clock, inflight, bucket, cleaned, healthy, passed, faults, spent, attempts, peak, arrivals>>

\* The record is committed; a failure loses it.
Charge(r, cost) ==
  /\ phase[r] = "charging"
  /\ spent' = spent + cost
  /\ Step(r, "idle")
  /\ UNCHANGED <<key, clock, inflight, limiterVars, slots, attempts, peak, arrivals>>

\* The sum is of the calendar month.
NewMonth ==
  /\ spent > 0
  /\ spent' = 0
  /\ UNCHANGED <<key, clock, phase, inflight, limiterVars, slots, attempts, peak, arrivals>>

-----------------------------------------------------------------------------
(* The login window.                                                       *)

Recent == Within(attempts, clock - LoginWindow + 1, clock)

TryLogin(r) ==
  /\ phase[r] = "idle"
  /\ key.kind = "login"
  /\ arrivals < MaxArrivals
  /\ arrivals' = arrivals + 1
  /\ Step(r, IF Recent >= MaxAttempts THEN "idle" ELSE "trying")
  /\ peak' = Greater(peak, Cardinality({q \in Req : phase'[q] = "trying"}))
  /\ UNCHANGED <<key, clock, inflight, limiterVars, slots, spent, attempts>>

Remember == Counted(attempts, 1)

LoginAnswered(r, failed) ==
  /\ phase[r] = "trying"
  /\ attempts' = IF failed THEN Remember ELSE attempts
  /\ passed' = IF failed THEN Pass("login") ELSE passed
  /\ Step(r, "idle")
  /\ UNCHANGED <<key, clock, inflight, bucket, cleaned, records, redis, healthy, faults, slots, spent, peak, arrivals>>

Tick ==
  /\ clock < MaxClock
  /\ clock' = clock + 1
  /\ UNCHANGED <<key, phase, inflight, limiterVars, slots, spent, attempts, peak, arrivals>>

-----------------------------------------------------------------------------
AdmissionTypeOK ==
  /\ key \in Limits
  /\ clock \in 0..MaxClock
  /\ phase \in [Req -> {"idle", "entered", "admitted", "asking", "body", "charging", "trying"}]
  /\ {inflight, slots, spent, peak, arrivals, faults} \subseteq Nat
  /\ healthy \in BOOLEAN
  /\ redis \in [minute : Nat, requests : Nat, tokens : Nat]
  /\ {records, attempts} \subseteq Total
  /\ passed \in [{"redis", "local", "login"} -> Total]
  /\ cleaned \in Nat /\ bucket \in [level : Nat, at : -1..clock]

AdmissionInit ==
  /\ key \in Limits
  /\ clock = 0
  /\ phase = [r \in Req |-> "idle"]
  /\ inflight = 0
  /\ bucket = NoBucket
  /\ cleaned = 0
  /\ records = Nothing
  /\ redis = [minute |-> 0, requests |-> 0, tokens |-> 0]
  /\ healthy = TRUE
  /\ slots = 0
  /\ spent = 0
  /\ attempts = Nothing
  /\ passed = [s \in {"redis", "local", "login"} |-> Nothing]
  /\ peak = 0
  /\ arrivals = 0
  /\ faults = 0

\* An amount that no limit reads is not told apart.
Amount(limit) == IF limit > 0 THEN 0..MaxTokens ELSE {0}

AdmissionNext ==
  \/ \E r \in Req : Arrive(r) \/ Admit(r) \/ CheckBudget(r) \/ Answer(r) \/ Fail(r)
  \/ \E r \in Req, t \in Amount(key.tpm) : EndBody(r, t)
  \/ \E r \in Req, cost \in Amount(key.budget) : Charge(r, cost)
  \/ NewMonth
  \/ \E r \in Req, failed \in BOOLEAN : TryLogin(r) \/ LoginAnswered(r, failed)
  \/ Tick

AdmissionSpec == AdmissionInit /\ [][AdmissionNext]_admissionVars

-----------------------------------------------------------------------------
(* Requests per minute: whichever store decides, no minute sees more than  *)
(* twice the limit (a full bucket and what it is refilled with; the end of *)
(* one fixed window and the start of the next), rate_limit.py:59-79,       *)
(* 177-204.                                                                *)
RateBounded ==
  \A s \in {"redis", "local"}, t \in 0..clock : Within(passed[s], t, t + M - 1) <= 2 * key.rpm

(* Tokens per minute: the check reads what was recorded, and answers in    *)
(* flight record when they end (rate_limit.py:134, proxy.py:739-745), so   *)
(* the limit is overrun by at most one answer per slot, those that are     *)
(* still in flight among them; when Redis has failed, its slots come on    *)
(* top of the worker's own.                                                *)
TokensBounded ==
  key.tpm > 0 /\ key.slots > 0 =>
    LET used == IF UseRedis /\ healthy THEN Counters.tokens ELSE LocalTokensAt(clock)
        counters == IF healthy THEN 1 ELSE 2
    IN  used + Cardinality(In({"admitted", "asking", "body"})) * MaxTokens
          <= key.tpm - 1 + counters * key.slots * MaxTokens

(* Budget: what the month's records exceed it by was in flight at the same *)
(* time (spend_service.py:238-270; the slot is given back before the       *)
(* record is committed, so slots do not bound this).                       *)
SpendBounded ==
  key.budget > 0 =>
    spent + Cardinality(In(Uncharged)) * MaxTokens <= key.budget - 1 + peak * MaxTokens

(* What a key consumes beyond its limits, tokens or budget, was in flight  *)
(* when the limit was reached.                                             *)
ConsumptionBounded == TokensBounded /\ SpendBounded

(* Logins: the attempts that failed within the window exceed the limit by  *)
(* at most those that were tried at the same time (middleware.py:97-109).  *)
LoginsBounded ==
  key.kind = "login" =>
    Within(passed["login"], clock - LoginWindow + 1, clock) + Cardinality(In({"trying"}))
      <= MaxAttempts - 1 + Greater(peak, 1)

(* The guard counts the requests that have no answer yet, each once, and   *)
(* never more than its limit; bodies are not among them                    *)
(* (backpressure_service.py:53-75, middleware.py:246).                     *)
GuardExact == inflight = Cardinality(In(Guarded)) /\ inflight <= MaxInflight

(* A refusal for the tokens of the window says when to come back, and by   *)
(* then, if nothing else was recorded, there is room                       *)
(* (rate_limit.py:125-146).                                                *)
RetryEnough ==
  key.tpm > 0 /\ LocalTokensAt(clock) >= key.tpm => LocalTokensAt(clock + RetryTokens) < key.tpm

(* The limits that count in windows of time: requests, logins, and when a  *)
(* request refused for its tokens may come back.                           *)
WindowsBounded == RateBounded /\ LoginsBounded /\ RetryEnough
=============================================================================
