---------------------------- MODULE ResponseCache ----------------------------
(***************************************************************************)
(* The cache of answers (services/cache_service.py) that the catch-all     *)
(* routes of both routers ask before they choose a server: an exact tier,  *)
(* in Redis and in the memory of each process, and an index of similar     *)
(* prompts in the memory of each process.                                  *)
(*                                                                         *)
(* A request is looked up when it comes and its answer is stored when its  *)
(* body has ended, with whatever was answered, stored and switched in      *)
(* between.  The lookups themselves do not give up the event loop, but the *)
(* settings they go by are read before each of them.                       *)
(*                                                                         *)
(* The tier in the database is left out: no caller of store_cached hands   *)
(* it a session, so the table stays empty.  Redis is external.  An answer  *)
(* is the request it was made for and when it was stored; how similar two  *)
(* prompts are is a constant.                                              *)
(***************************************************************************)
EXTENDS Integers, Sequences, SequencesExt, FiniteSets, FiniteSetsExt

CONSTANTS
  Process,     \* gateway processes
  Requests,    \* what may be asked, see Request
  Slot,        \* bound: requests under way at once
  Similarity,  \* of two prompts, in percent
  Thresholds,  \* values of SEMANTIC_CACHE_THRESHOLD, in percent
  CacheTtl,    \* store_cached's ttl_seconds, the same for every answer
  MemorySize,  \* _mem_cache's max_size
  IndexSize,   \* how many prompts the index holds
  LastInstant, \* bound: the last instant
  Asks         \* bound: requests and switches of a behaviour

ASSUME ResponseCacheAssumption ==
  /\ CacheTtl \in Nat \ {0} /\ MemorySize \in Nat /\ IndexSize \in Nat \ {0}
  /\ LastInstant \in Nat /\ Asks \in Nat

\* temperature is "absent" also when it is 1.0, the default; stream is whether
\* the answer is to be streamed.  A chat's text is its messages, that of a
\* completion its prompt.
Temperature == {"absent", "null", "0"}
Request(Model, Text) ==
  [path : {"chat", "completion"}, model : Model, text : Text,
   temperature : Temperature, max : {0, 1}, stream : BOOLEAN]

VARIABLES
  exactOn,   \* ENABLE_EXACT_CACHE
  similarOn, \* ENABLE_SEMANTIC_CACHE
  threshold, \* SEMANTIC_CACHE_THRESHOLD
  instant,
  client,    \* each process's Redis client: "none", "up" or "failed"
  redis,     \* the answers in Redis, by key
  memory,    \* _mem_cache of each process
  index,     \* _semantic_index of each process
  asked,     \* the requests under way, and where they are
  asks,      \* how many of both there were
  hit        \* the answer a cache gave in the last step, or none

settingVars == <<exactOn, similarOn, threshold>>
tierVars == <<client, redis, memory, index>>
answerVars == <<settingVars, instant, tierVars, asked, asks, hit>>

NoHit == [tier |-> "none"]
Idle == [at |-> "idle"]

ResponseCacheInit ==
  /\ exactOn \in BOOLEAN
  /\ similarOn \in BOOLEAN
  /\ threshold \in Thresholds
  /\ instant = 0
  /\ client = [p \in Process |-> "none"]
  /\ redis = <<>>
  /\ memory = [p \in Process |-> <<>>]
  /\ index = [p \in Process |-> <<>>]
  /\ asked = [s \in Slot |-> Idle]
  /\ asks = 0
  /\ hit = NoHit

-----------------------------------------------------------------------------
(* Keys and prompts.                                                       *)

\* A body without messages is keyed by an empty list of them.
Key(r) ==
  [model |-> r.model, messages |-> IF r.path = "chat" THEN r.text ELSE "",
   temperature |-> r.temperature, max |-> r.max]

\* A temperature that is null passes for a low one.
Cacheable(r) == ~r.stream /\ r.temperature # "absent"

\* extract_prompt, compute_sparse_embedding and cosine_similarity.
Alike(text, prompt) == Similarity[text, prompt]

-----------------------------------------------------------------------------
(* The tiers.  Redis drops a key at its last instant, the others serve it  *)
(* up to then.                                                             *)

Put(tier, k, e) == [x \in DOMAIN tier \cup {k} |-> IF x = k THEN e ELSE tier[x]]
Entry(a) == [answer |-> a, expires |-> instant + CacheTtl]
InRedis(k) == k \in DOMAIN redis /\ instant < redis[k].expires
InMemory(p, k) == k \in DOMAIN memory[p] /\ instant <= memory[p][k].expires

\* Bug: nothing is evicted.
PutInMemoryOnly(p, k, e) == Put(memory[p], k, e)

\* TTLCache.set: a full cache drops what has expired, and grows all the same.
PutInMemory(p, k, e) ==
  LET kept == IF Cardinality(DOMAIN memory[p]) >= MemorySize
                THEN {x \in DOMAIN memory[p] : instant <= memory[p][x].expires}
                ELSE DOMAIN memory[p]
  IN Put([x \in kept |-> memory[p][x]], k, e)

\* The entries are in the order in which they expire.
Unexpired(p) ==
  LET expired == Cardinality({i \in DOMAIN index[p] : index[p][i].expires <= instant})
  IN SubSeq(index[p], expired + 1, Len(index[p]))

PutInIndex(p, e) ==
  LET longer == Append(Unexpired(p), e)
  IN IF Len(longer) > IndexSize THEN Tail(longer) ELSE longer

-----------------------------------------------------------------------------
(* A request comes.                                                        *)

Move(s, to) == asked' = [asked EXCEPT ![s] = to]

Answer(s, tier, e, r) ==
  /\ hit' = [tier |-> tier, request |-> r, answer |-> e.answer, at |-> instant, least |-> threshold]
  /\ Move(s, Idle)

\* The index is asked about what may be answered from a cache; whether it was on
\* is remembered either way.
GoOn(s, p, r, keyed) ==
  /\ Move(s, [at |-> IF Cacheable(r) /\ similarOn THEN "similar" ELSE "upstream",
              process |-> p, request |-> r, keyed |-> keyed, similar |-> similarOn])
  /\ hit' = NoHit

\* get_cached: the client is made when first asked for; one failure is for good.
LookUp(s, p, r) ==
  \/ /\ client[p] # "failed" /\ InRedis(Key(r))
     /\ client' = [client EXCEPT ![p] = "up"]
     /\ UNCHANGED memory
     /\ Answer(s, "exact", redis[Key(r)], r)
  \/ /\ \E c \in {"up", "failed"} :
          /\ client[p] = "failed" => c = "failed"
          /\ c = "up" => ~InRedis(Key(r))
          /\ client' = [client EXCEPT ![p] = c]
     /\ IF InMemory(p, Key(r))
          THEN Answer(s, "exact", memory[p][Key(r)], r) /\ UNCHANGED memory
          ELSE /\ GoOn(s, p, r, TRUE)
               /\ memory' = [memory EXCEPT ![p] =
                    [x \in DOMAIN memory[p] \ {Key(r)} |-> memory[p][x]]]

Ask(s, p, r) ==
  /\ asked[s] = Idle /\ asks < Asks
  /\ asks' = asks + 1
  /\ IF Cacheable(r) /\ exactOn
       THEN LookUp(s, p, r)
       ELSE /\ GoOn(s, p, r, FALSE)
            /\ UNCHANGED <<client, memory>>
  /\ UNCHANGED <<settingVars, instant, redis, index>>

\* Bug: a prompt of any model will do.
MatchesAnyModel(p, r) ==
  {i \in DOMAIN index[p] : index[p][i].expires > instant}

Matches(p, r) ==
  {i \in DOMAIN index[p] : index[p][i].model = r.model /\ index[p][i].expires > instant}

\* get_semantic_cached: the most similar prompt, the oldest of several, if it
\* is near enough.
LookUpSimilar(s) ==
  LET p == asked[s].process
      r == asked[s].request
      Of(i) == Alike(r.text, index[p][i].prompt)
      best == {i \in Matches(p, r) : \A j \in Matches(p, r) : Of(i) > Of(j) \/ (Of(i) = Of(j) /\ i <= j)}
      near == {i \in best : Of(i) >= threshold}
  IN /\ asked[s].at = "similar"
     /\ IF near # {}
          THEN \E i \in near : Answer(s, "similar", index[p][i], r)
          ELSE Move(s, [asked[s] EXCEPT !.at = "upstream"]) /\ hit' = NoHit
     /\ UNCHANGED <<settingVars, instant, tierVars, asks>>

-----------------------------------------------------------------------------
(* Its body ends.                                                          *)

\* setex of a client that works: it may fail, done or not.
StoreInRedis(p, k, e) ==
  IF client[p] = "up"
    THEN \/ redis' = Put(redis, k, e) /\ UNCHANGED client
         \/ redis' \in {redis, Put(redis, k, e)} /\ client' = [client EXCEPT ![p] = "failed"]
    ELSE UNCHANGED <<redis, client>>

\* What on_stream_complete stores: a body that was not streamed and whose end
\* the client saw, which is JSON or can be healed into it, of a request that
\* was looked up by its key or came while the index was on, cacheable or not.
Kept(s, cut, json) ==
  ~cut /\ json /\ ~asked[s].request.stream /\ (asked[s].keyed \/ asked[s].similar)

EndOfBody(s, cut, json) ==
  LET p == asked[s].process
      r == asked[s].request
      a == [request |-> r, cut |-> cut, at |-> instant]
  IN /\ asked[s].at = "upstream"
     /\ IF Kept(s, cut, json)
          THEN /\ StoreInRedis(p, Key(r), Entry(a))
               /\ memory' = [memory EXCEPT ![p] = PutInMemory(p, Key(r), Entry(a))]
               /\ index' = [index EXCEPT ![p] =
                    PutInIndex(p, [model |-> r.model, prompt |-> r.text,
                                  answer |-> a, expires |-> Entry(a).expires])]
          ELSE UNCHANGED tierVars
     /\ Move(s, Idle)
     /\ hit' = NoHit
     /\ UNCHANGED <<settingVars, instant, asks>>

-----------------------------------------------------------------------------

\* An administrator switches a setting.
Switch ==
  /\ asks < Asks
  /\ asks' = asks + 1
  /\ \/ exactOn' = ~exactOn /\ UNCHANGED <<similarOn, threshold>>
     \/ similarOn' = ~similarOn /\ UNCHANGED <<exactOn, threshold>>
     \/ threshold' \in Thresholds \ {threshold} /\ UNCHANGED <<exactOn, similarOn>>
  /\ hit' = NoHit
  /\ UNCHANGED <<instant, tierVars, asked>>

PassTime ==
  /\ instant < LastInstant
  /\ instant' = instant + 1
  /\ LET live == {k \in DOMAIN redis : instant' < redis[k].expires}
     IN redis' = [k \in live |-> redis[k]]
  /\ hit' = NoHit
  /\ UNCHANGED <<settingVars, client, memory, index, asked, asks>>

ResponseCacheNext ==
  \/ \E s \in Slot :
       \/ \E p \in Process, r \in Requests : Ask(s, p, r)
       \/ LookUpSimilar(s)
       \/ \E cut, json \in BOOLEAN : EndOfBody(s, cut, json)
  \/ Switch
  \/ PassTime

ResponseCacheSpec == ResponseCacheInit /\ [][ResponseCacheNext]_answerVars

-----------------------------------------------------------------------------
(* Properties.                                                             *)

\* What cache_service's exact tiers answer was the whole answer to a request for
\* the same model with the same temperature and length, and with the same
\* messages if both had messages; it was not streamed and is no older than its
\* ttl, whichever process stored it and whatever Redis did since.
ExactHonest ==
  hit.tier = "exact" =>
    LET r == hit.request
        a == hit.answer
    IN /\ ~a.cut /\ ~a.request.stream /\ hit.at <= a.at + CacheTtl
       /\ a.request.model = r.model /\ a.request.temperature = r.temperature
       /\ a.request.max = r.max
       /\ r.path = "chat" /\ a.request.path = "chat" => a.request.text = r.text

\* What the index of get_semantic_cached answers was the whole answer to a
\* prompt for the same model, as near as the threshold of that moment asks, and
\* is no older than its ttl.
SimilarHonest ==
  hit.tier = "similar" =>
    LET a == hit.answer
    IN /\ ~a.cut /\ ~a.request.stream /\ hit.at < a.at + CacheTtl
       /\ a.request.model = hit.request.model
       /\ Similarity[hit.request.text, a.request.text] >= hit.least

\* Whatever tier answers, the answer is an honest one to the request.
AnswersHonest == ExactHonest /\ SimilarHonest

\* TTLCache: a cache that has outgrown its size holds nothing that had expired
\* when the last entry was stored; so it never holds more than was stored within
\* one ttl, or its size.
OvergrownByLive ==
  \A p \in Process :
    Cardinality(DOMAIN memory[p]) > MemorySize =>
      \A k, l \in DOMAIN memory[p] : memory[p][l].expires <= memory[p][k].expires + CacheTtl

\* "Exact-match response cache for deterministic LLM requests" (models.py:313):
\* what the exact tiers answer was the answer to the same prompt.
ExactMatch == hit.tier = "exact" => hit.answer.request.text = hit.request.text
=============================================================================
