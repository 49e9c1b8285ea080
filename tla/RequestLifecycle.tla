-------------------------- MODULE RequestLifecycle --------------------------
(***************************************************************************)
(* The life of a proxied request in one worker: the concurrency slot it    *)
(* takes from the in-process limiter, the upstream answer, the streamed    *)
(* body, the accounting at its end and the background task that follows.   *)
(*                                                                         *)
(* Handlers and response generators run on the event loop, which switches  *)
(* only where they await; background tasks are plain functions, so the     *)
(* server runs them on a pool thread.  The limiter reads its count and     *)
(* writes it without a lock: the loop and the pool threads may switch in   *)
(* between.  All requests are of one API key.                              *)
(*                                                                         *)
(* What the web framework does is external: a client that leaves cancels   *)
(* the task that sends the body, which stops the response generator where  *)
(* it awaits, before it ever ran, or suspended at a yield; the background  *)
(* task runs when the body ended or the client left, and not when the      *)
(* generator raised; a suspended generator is closed once the response is  *)
(* dropped, after the background task.                                     *)
(*                                                                         *)
(* The requests-per-minute and tokens-per-minute checks, routing, and the  *)
(* fallback between upstreams are left out; see the README.                *)
(***************************************************************************)
EXTENDS Integers, FiniteSets

CONSTANTS
  Req,            \* requests
  Kinds,          \* the kinds of endpoints they may use, see Kind
  MaxConcurrent   \* APIKey.max_concurrency

\* The endpoints, by how they handle the slot: the catch-all proxy route, the
\* model listings of the same router, the Anthropic messages route, the speech
\* route, and the routes of the second router.
Kind == {"proxy", "listing", "messages", "speech", "v2"}

ASSUME LifecycleAssumption ==
  /\ IsFiniteSet(Req)
  /\ Kinds \subseteq Kind
  /\ MaxConcurrent \in Nat \ {0}

VARIABLES
  count,       \* LocalRateLimiter._concurrency of the key, 0 when absent
  flag,        \* request.state.concurrency_acquired
  op,          \* what the request is doing to count: "none", "taking" or "giving"
  seen,        \* the count it has read for that
  kind,
  phase,       \* where the handler, then the response, is
  tracker,     \* RequestTracker: "none", "open" or "finished"
  upstream,    \* the upstream response: "none", "open" or "closed"
  finalized,   \* stream_with_telemetry's finalized
  metrics,     \* how often record_request_metrics ran
  completes,   \* how often on_complete ran
  spend,       \* how often the spend of the request was committed
  background,  \* the background task: "none", "due", "writing" or "done"
  missed,      \* history: the writes of count since the request has read it
  lost         \* history: the writes of count that others have overwritten

opVars == <<op, seen, missed>>
slotVars == <<count, flag, opVars, lost>>
bookVars == <<finalized, metrics, completes, spend>>
vars == <<slotVars, kind, phase, tracker, upstream, bookVars, background>>

Phase == {"new", "refused", "handler", "upstream", "answered", "ready",
          "streaming", "suspended", "spending", "settling", "gone", "broken"}

TypeOK ==
  /\ count \in Nat
  /\ flag \in [Req -> BOOLEAN]
  /\ op \in [Req -> {"none", "taking", "giving"}]
  /\ seen \in [Req -> Nat]
  /\ kind \in [Req -> Kind]
  /\ phase \in [Req -> Phase]
  /\ tracker \in [Req -> {"none", "open", "finished"}]
  /\ upstream \in [Req -> {"none", "open", "closed"}]
  /\ finalized \in [Req -> BOOLEAN]
  /\ metrics \in [Req -> Nat]
  /\ completes \in [Req -> Nat]
  /\ spend \in [Req -> Nat]
  /\ background \in [Req -> {"none", "due", "writing", "done"}]
  /\ missed \in [Req -> Nat]
  /\ lost \in Nat

Init ==
  /\ count = 0
  /\ flag = [r \in Req |-> FALSE]
  /\ op = [r \in Req |-> "none"]
  /\ seen = [r \in Req |-> 0]
  /\ kind \in [Req -> Kinds]
  /\ phase = [r \in Req |-> "new"]
  /\ tracker = [r \in Req |-> "none"]
  /\ upstream = [r \in Req |-> "none"]
  /\ finalized = [r \in Req |-> FALSE]
  /\ metrics = [r \in Req |-> 0]
  /\ completes = [r \in Req |-> 0]
  /\ spend = [r \in Req |-> 0]
  /\ background = [r \in Req |-> "none"]
  /\ missed = [r \in Req |-> 0]
  /\ lost = 0

-----------------------------------------------------------------------------
(* The slot.  The limiter reads the count in one step and writes it in     *)
(* another, Taken or Given below.                                          *)

Reads(r, what) ==
  /\ op' = [op EXCEPT ![r] = what]
  /\ seen' = [seen EXCEPT ![r] = count]
  /\ UNCHANGED <<count, missed, lost>>

Writes(r, n) ==
  /\ count' = n
  /\ op' = [op EXCEPT ![r] = "none"]
  /\ seen' = [seen EXCEPT ![r] = 0]
  /\ lost' = lost + missed[r]
  /\ missed' = [q \in Req |-> IF q = r \/ op[q] = "none" THEN 0 ELSE missed[q] + 1]

\* Bug: the flag that makes a release happen once is not cleared.
ReleaseKeepsFlag(r) ==
  IF flag[r] THEN Reads(r, "giving") /\ UNCHANGED flag ELSE UNCHANGED slotVars

\* release_rate_limit_concurrency, up to the limiter's read.
Release(r) ==
  IF flag[r]
    THEN Reads(r, "giving") /\ flag' = [flag EXCEPT ![r] = FALSE]
    ELSE UNCHANGED slotVars

\* What an error handler and an on_complete callback do with the slot.
ReleaseOnError(r) ==
  IF kind[r] \in {"proxy", "messages", "speech"} THEN Release(r) ELSE UNCHANGED slotVars
ReleaseOnComplete(r) ==
  IF kind[r] \in {"proxy", "messages"} THEN Release(r) ELSE UNCHANGED slotVars

Go(r, p) == phase' = [phase EXCEPT ![r] = p]

\* The loop is in the middle of no operation of the limiter.
LoopIdle == \A r \in Req : op[r] # "none" => background[r] = "writing"

\* acquire_concurrency writes, and apply_rate_limit sets the flag.
Taken(r) ==
  /\ op[r] = "taking"
  /\ Writes(r, seen[r] + 1)
  /\ flag' = [flag EXCEPT ![r] = TRUE]
  /\ Go(r, "handler")
  /\ UNCHANGED <<kind, tracker, upstream, bookVars, background>>

\* LocalRateLimiter.release_concurrency.
Dec(n) == IF n > 1 THEN n - 1 ELSE 0

\* release_concurrency writes, on the loop or on a pool thread.
Given(r) ==
  /\ op[r] = "giving"
  /\ Writes(r, Dec(seen[r]))
  /\ background' = [background EXCEPT ![r] = IF @ = "writing" THEN "done" ELSE @]
  /\ UNCHANGED <<flag, kind, phase, tracker, upstream, bookVars>>

-----------------------------------------------------------------------------
(* The handlers.                                                           *)

\* Bug: one request too many is let in.
AdmitOneTooMany(r) ==
  /\ phase[r] = "new"
  /\ count <= MaxConcurrent
  /\ Reads(r, "taking")
  /\ UNCHANGED <<flag, kind, phase, tracker, upstream, bookVars, background>>

\* apply_rate_limit, up to the limiter's read.
Admit(r) ==
  /\ phase[r] = "new"
  /\ count < MaxConcurrent
  /\ Reads(r, "taking")
  /\ UNCHANGED <<flag, kind, phase, tracker, upstream, bookVars, background>>

Refuse(r) ==
  /\ phase[r] = "new"
  /\ count >= MaxConcurrent
  /\ Go(r, "refused")
  /\ UNCHANGED <<slotVars, kind, tracker, upstream, bookVars, background>>

\* Bug: a cache hit returns without giving the slot back.
ReplyKeepsSlot(r) ==
  /\ phase[r] = "handler"
  /\ kind[r] \in {"proxy", "listing", "v2"}
  /\ Go(r, "gone")
  /\ UNCHANGED <<slotVars, kind, tracker, upstream, bookVars, background>>

\* An answer without an upstream: a model list, a cached response, a fast path.
Reply(r) ==
  /\ phase[r] = "handler"
  /\ kind[r] \in {"proxy", "listing", "v2"}
  /\ IF kind[r] = "v2" THEN UNCHANGED slotVars ELSE Release(r)
  /\ Go(r, "gone")
  /\ UNCHANGED <<kind, tracker, upstream, bookVars, background>>

\* An error before the dispatch: the body, the budget, the permissions, the
\* routing.  Only the proxy and the listings have a handler around it.
HandlerFails(r) ==
  /\ phase[r] = "handler"
  /\ IF kind[r] \in {"proxy", "listing"} THEN Release(r) ELSE UNCHANGED slotVars
  /\ Go(r, "gone")
  /\ UNCHANGED <<kind, tracker, upstream, bookVars, background>>

Dispatch(r) ==
  /\ phase[r] = "handler"
  /\ kind[r] # "listing"
  /\ tracker' = IF kind[r] = "speech" THEN tracker
                                      ELSE [tracker EXCEPT ![r] = "open"]
  /\ Go(r, "upstream")
  /\ UNCHANGED <<slotVars, kind, upstream, bookVars, background>>

\* A dispatched request that fails before its response: the handlers close the
\* tracker and record the failure once.
FailDispatched(r) ==
  /\ ReleaseOnError(r)
  /\ IF tracker[r] = "open"
       THEN /\ tracker' = [tracker EXCEPT ![r] = "finished"]
            /\ metrics' = [metrics EXCEPT ![r] = @ + 1]
       ELSE UNCHANGED <<tracker, metrics>>
  /\ Go(r, "gone")

\* No upstream answered, or it answered with an error that was read and closed.
UpstreamRefuses(r) ==
  /\ phase[r] = "upstream"
  /\ FailDispatched(r)
  /\ UNCHANGED <<kind, upstream, finalized, completes, spend, background>>

UpstreamAnswers(r) ==
  /\ phase[r] = "upstream"
  /\ upstream' = [upstream EXCEPT ![r] = "open"]
  /\ Go(r, "answered")
  /\ UNCHANGED <<slotVars, kind, tracker, bookVars, background>>

\* A settings lookup fails after the upstream answered.
AnswerFails(r) ==
  /\ phase[r] = "answered"
  /\ kind[r] \in {"proxy", "v2"}
  /\ FailDispatched(r)
  /\ UNCHANGED <<kind, upstream, finalized, completes, spend, background>>

\* The messages route without streaming: the body is read and closed, then
\* accounted for by the handler itself.
Buffered(r) ==
  /\ phase[r] = "answered"
  /\ kind[r] = "messages"
  /\ upstream' = [upstream EXCEPT ![r] = "closed"]
  /\ tracker' = [tracker EXCEPT ![r] = "finished"]
  /\ metrics' = [metrics EXCEPT ![r] = @ + 1]
  /\ completes' = [completes EXCEPT ![r] = @ + 1]
  /\ ReleaseOnComplete(r)
  /\ Go(r, "settling")
  /\ UNCHANGED <<kind, finalized, spend, background>>

Settle(r) ==
  /\ phase[r] = "settling"
  /\ spend' = [spend EXCEPT ![r] = @ + 1]
  /\ Go(r, "gone")
  /\ UNCHANGED <<slotVars, kind, tracker, upstream, finalized, metrics, completes, background>>

Respond(r) ==
  /\ phase[r] = "answered"
  /\ Go(r, "ready")
  /\ UNCHANGED <<slotVars, kind, tracker, upstream, bookVars, background>>

-----------------------------------------------------------------------------
(* The response generator: stream_with_telemetry, or the plain one of the  *)
(* speech route.                                                           *)

StartBody(r) ==
  /\ phase[r] = "ready"
  /\ Go(r, "streaming")
  /\ UNCHANGED <<slotVars, kind, tracker, upstream, bookVars, background>>

\* Bugs: the outcome is not marked as recorded; the callback is forgotten.
FinalizeUnmarked(r) ==
  /\ metrics' = [metrics EXCEPT ![r] = @ + 1]
  /\ tracker' = [tracker EXCEPT ![r] = "finished"]
  /\ completes' = [completes EXCEPT ![r] = @ + 1]
  /\ ReleaseOnComplete(r)
  /\ UNCHANGED finalized

FinalizeSkipsCallback(r) ==
  /\ finalized' = [finalized EXCEPT ![r] = TRUE]
  /\ metrics' = [metrics EXCEPT ![r] = @ + 1]
  /\ tracker' = [tracker EXCEPT ![r] = "finished"]
  /\ UNCHANGED <<completes, slotVars>>

\* _figures, _record, and on_complete up to its first await.
Finalize(r) ==
  /\ finalized' = [finalized EXCEPT ![r] = TRUE]
  /\ metrics' = [metrics EXCEPT ![r] = @ + 1]
  /\ tracker' = [tracker EXCEPT ![r] = "finished"]
  /\ completes' = [completes EXCEPT ![r] = @ + 1]
  /\ ReleaseOnComplete(r)

\* The body ended, or the client left while the generator awaited a chunk.
EndTelemetry(r) ==
  /\ phase[r] = "streaming"
  /\ kind[r] # "speech"
  /\ Finalize(r)
  /\ Go(r, "spending")
  /\ UNCHANGED <<kind, upstream, spend, background>>

\* Bug: the generator has no finally that closes the upstream.
EndBodyLeavesOpen(r) ==
  /\ background' = [background EXCEPT ![r] = "due"]
  /\ Go(r, "gone")
  /\ UNCHANGED upstream

\* The generator is over: the upstream is closed and the response ends.
EndBody(r) ==
  /\ upstream' = [upstream EXCEPT ![r] = "closed"]
  /\ background' = [background EXCEPT ![r] = "due"]
  /\ Go(r, "gone")

CommitSpend(r) ==
  /\ phase[r] = "spending"
  /\ spend' = [spend EXCEPT ![r] = @ + 1]
  /\ EndBody(r)
  /\ UNCHANGED <<slotVars, kind, tracker, finalized, metrics, completes>>

\* The client leaves, or its departure is delivered again, while on_complete
\* awaits the database.
CutSpending(r) ==
  /\ phase[r] = "spending"
  /\ IF finalized[r]
       THEN UNCHANGED <<slotVars, tracker, finalized, metrics, completes>>
       ELSE Finalize(r)
  /\ EndBody(r)
  /\ UNCHANGED <<kind, spend>>

\* The speech body ended, or the client left.
EndSpeech(r) ==
  /\ phase[r] = "streaming"
  /\ kind[r] = "speech"
  /\ EndBody(r)
  /\ UNCHANGED <<slotVars, kind, tracker, bookVars>>

\* The client left while the generator was suspended at a yield.
LeaveAtYield(r) ==
  /\ phase[r] = "streaming"
  /\ background' = [background EXCEPT ![r] = "due"]
  /\ Go(r, "suspended")
  /\ UNCHANGED <<slotVars, kind, tracker, upstream, bookVars>>

\* The response is dropped and its suspended generator closed.
Collect(r) ==
  /\ phase[r] = "suspended"
  /\ background[r] = "done"
  /\ IF kind[r] = "speech"
       THEN UNCHANGED <<slotVars, tracker, bookVars>>
       ELSE Finalize(r) /\ spend' = [spend EXCEPT ![r] = @ + 1]
  /\ upstream' = [upstream EXCEPT ![r] = "closed"]
  /\ Go(r, "gone")
  /\ UNCHANGED <<kind, background>>

\* The client left before the generator ran.
LeaveEarly(r) ==
  /\ phase[r] = "ready"
  /\ background' = [background EXCEPT ![r] = "due"]
  /\ Go(r, "gone")
  /\ UNCHANGED <<slotVars, kind, tracker, upstream, bookVars>>

\* The upstream fails in the middle of the body: the generator accounts for
\* the failure and raises, so there is no background task.
BodyFails(r) ==
  /\ phase[r] = "streaming"
  /\ IF kind[r] = "speech"
       THEN UNCHANGED <<tracker, finalized, metrics>>
       ELSE /\ finalized' = [finalized EXCEPT ![r] = TRUE]
            /\ metrics' = [metrics EXCEPT ![r] = @ + 1]
            /\ tracker' = [tracker EXCEPT ![r] = "finished"]
  /\ upstream' = [upstream EXCEPT ![r] = "closed"]
  /\ Go(r, "broken")
  /\ UNCHANGED <<slotVars, kind, completes, spend, background>>

-----------------------------------------------------------------------------
(* The background task, on a pool thread: _finish_proxy and                *)
(* _finish_anthropic, finish_open_tracker alone for the second router, and *)
(* release_rate_limit_concurrency alone for speech.                        *)

RunBackground(r) ==
  /\ background[r] = "due"
  /\ tracker' = [tracker EXCEPT ![r] = IF @ = "open" THEN "finished" ELSE @]
  /\ IF kind[r] = "v2" THEN UNCHANGED slotVars ELSE Release(r)
  /\ background' = [background EXCEPT ![r] = IF op'[r] = "giving" THEN "writing" ELSE "done"]
  /\ UNCHANGED <<kind, phase, upstream, bookVars>>

-----------------------------------------------------------------------------
HandlerStep(r) ==
  \/ Reply(r) \/ HandlerFails(r) \/ Dispatch(r)
  \/ UpstreamRefuses(r) \/ UpstreamAnswers(r) \/ AnswerFails(r)
  \/ Buffered(r) \/ Settle(r) \/ Respond(r)

BodyStep(r) ==
  \/ StartBody(r) \/ EndTelemetry(r) \/ EndSpeech(r) \/ LeaveAtYield(r)
  \/ LeaveEarly(r) \/ BodyFails(r) \/ CommitSpend(r) \/ CutSpending(r)
  \/ Collect(r)

LoopStep(r) == LoopIdle /\ (Admit(r) \/ Refuse(r) \/ HandlerStep(r) \/ BodyStep(r))
LimiterStep(r) == Taken(r) \/ Given(r)

Next == \E r \in Req : LoopStep(r) \/ RunBackground(r) \/ LimiterStep(r)

Spec == Init /\ [][Next]_vars

\* Handlers end because every upstream call has a timeout; a body ends because
\* reads time out; the loop, the thread pool and the collector keep running.
Fairness ==
  \A r \in Req : /\ WF_vars(LoopIdle /\ HandlerStep(r))
                 /\ WF_vars(LoopIdle /\ BodyStep(r))
                 /\ WF_vars(RunBackground(r))
                 /\ WF_vars(LimiterStep(r))

FairSpec == Spec /\ Fairness

-----------------------------------------------------------------------------
(* Properties.                                                             *)

Holding(r) == flag[r] \/ op[r] = "giving"
Holders == {r \in Req : Holding(r)}
Working(r) == phase[r] \in {"handler", "upstream", "answered", "ready", "streaming"}
Ended(r) ==
  /\ phase[r] \in {"refused", "gone", "broken"}
  /\ background[r] \in {"none", "done"}
  /\ op[r] = "none"

\* A number that is away from the number of holders by e at most.
Near(n, e) == n - e <= Cardinality(Holders) /\ Cardinality(Holders) <= n + e

\* The limiter's count is the number of requests that took a slot and have not
\* given it back, but for the changes that a thread has overwritten which had
\* read the count before them.
SlotsCounted == Near(count, lost)

\* A request the gateway is still working for, up to the end of its body, holds
\* its slot: nobody releases it early.
WorkingHoldsSlot == \A r \in Req : Working(r) => flag[r]

\* No more requests than the limit hold a slot or are worked for, again but for
\* the changes overwritten.
BoundRespected == Cardinality({r \in Req : Holding(r) \/ Working(r)}) <= MaxConcurrent + lost

\* The slots that are counted are those that requests hold, and requests hold
\* theirs for as long as they are worked for: of the handler, the on_complete
\* callback and the background task, each of which releases, exactly one does.
\* What the race of a pool thread's release costs is a slot for each change that
\* was overwritten, in the one direction or the other.
SlotAccounting == SlotsCounted /\ WorkingHoldsSlot /\ BoundRespected

\* max_concurrency is a semaphore: no more requests than that are let in.
LimitKept == Cardinality(Holders) <= MaxConcurrent

\* Metrics and on_complete never run twice for a request.
NeverTwice ==
  \A r \in Req : metrics[r] <= 1 /\ completes[r] <= 1 /\ spend[r] <= completes[r]

\* A dispatched request that is over is not counted as in flight by the live
\* statistics, whichever way it ended.
TrackerClosed == \A r \in Req : Ended(r) => tracker[r] # "open"

\* A request whose body was started, and is over, has closed its upstream, so it
\* keeps no pooled connection: wherever the client left, twice included.
UpstreamClosed ==
  \A r \in Req : Ended(r) /\ finalized[r] => upstream[r] = "closed"

\* What a request opened is closed when it is over: its tracker and its upstream.
NothingLeftOpen == TrackerClosed /\ UpstreamClosed

Recorded(r) == metrics[r] = 1 /\ completes[r] = 1

\* Metrics and on_complete run once in every outcome of a body that was started.
OnCompleteAlways == \A r \in Req : Ended(r) /\ finalized[r] => Recorded(r)

\* They do unless the upstream failed in the middle of the body: also when the
\* client left at any point, and was reported to have left again.
OutcomeRecorded ==
  \A r \in Req : Ended(r) /\ finalized[r] /\ phase[r] # "broken" => Recorded(r)

\* The limiter and the requests implement a semaphore that may slip, once for
\* each change of the count that was overwritten: otherwise at most MaxConcurrent
\* requests hold a slot, nobody is refused while one is free, and each request
\* takes one slot and gives it back once, through whichever of its handlers
\* comes first.
Semaphore == INSTANCE SlotSemaphore WITH
  Max <- MaxConcurrent,
  slips <- lost,
  holders <- Holders,
  past <- {r \in Req : phase[r] \notin {"new", "refused"} /\ ~Holding(r)},
  refused <- {r \in Req : phase[r] = "refused"}

SemaphoreSpec == Semaphore!Spec

\* Every request of the catch-all route and the listings that takes a slot gives
\* it back, unless its upstream fails in the middle of the body.
SlotReturned ==
  \A r \in Req : kind[r] \in {"proxy", "listing"} /\ flag[r]
                  ~> ~Holding(r) \/ phase[r] = "broken"

-----------------------------------------------------------------------------
(* The inductive invariant behind the slot properties.                     *)

\* A request that never got in holds nothing.
OutsideHoldsNone == \A r \in Req : phase[r] \in {"new", "refused"} => ~Holding(r)

\* The background task only comes after the handler and the body.
BackgroundLast ==
  \A r \in Req : background[r] # "none" => phase[r] \in {"gone", "suspended"}

\* Only a request that is not in takes a slot, and only one that is through gives
\* its slot back, on a pool thread as its background task.
OperationsInPlace ==
  \A r \in Req :
    /\ op[r] = "taking" => phase[r] = "new" /\ seen[r] < MaxConcurrent
    /\ op[r] = "giving" => ~Working(r) /\ ~flag[r]
    /\ background[r] = "writing" => op[r] = "giving"

\* What an operation has read is as near to the number of holders as the count
\* was, and the changes it has missed.
ReadsNear == \A r \in Req : op[r] # "none" => Near(seen[r], lost + missed[r])

IInv ==
  /\ TypeOK
  /\ OutsideHoldsNone
  /\ BackgroundLast
  /\ WorkingHoldsSlot
  /\ OperationsInPlace
  /\ SlotsCounted
  /\ ReadsNear
  /\ Cardinality(Holders) <= MaxConcurrent + lost

(* The inductive invariant behind the properties about outcomes: what is    *)
(* recorded of a request, phase by phase.                                  *)

Unrecorded(r) == ~finalized[r] /\ metrics[r] = 0 /\ completes[r] = 0 /\ spend[r] = 0

\* A request that is worked for has nothing recorded, and no background task; its
\* tracker is open from the dispatch on, except on the speech route.
WorkedFor(r) ==
  phase[r] \in {"new", "refused", "handler", "upstream", "answered", "ready", "streaming"} =>
    /\ Unrecorded(r)
    /\ background[r] = "none"
    /\ phase[r] \in {"new", "refused", "handler"} \/ kind[r] = "speech" => tracker[r] = "none"

\* A request that awaits its spend has the rest recorded, and its tracker closed.
AwaitsSpend(r) ==
  phase[r] \in {"spending", "settling"} =>
    /\ metrics[r] = 1 /\ completes[r] = 1 /\ spend[r] = 0
    /\ finalized[r] <=> phase[r] = "spending"
    /\ tracker[r] = "finished"
    /\ background[r] = "none"

\* A body that was left at a yield has nothing recorded before it is collected,
\* but the background task closes its tracker.
LeftAtYield(r) ==
  phase[r] = "suspended" =>
    /\ Unrecorded(r)
    /\ background[r] # "none"
    /\ tracker[r] = "open" => background[r] = "due"

\* A request that is over has recorded once what was recorded.
Over(r) ==
  phase[r] \in {"gone", "broken"} =>
    /\ metrics[r] <= 1 /\ completes[r] <= 1 /\ spend[r] <= completes[r]
    /\ finalized[r] => /\ metrics[r] = 1
                       /\ completes[r] = 1 \/ phase[r] = "broken"
                       /\ upstream[r] = "closed"
    /\ tracker[r] = "open" => background[r] = "due"

Account(r) == WorkedFor(r) /\ AwaitsSpend(r) /\ LeftAtYield(r) /\ Over(r)
OutcomeInv == TypeOK /\ \A r \in Req : Account(r)
=============================================================================
