----------------------------- MODULE Federation -----------------------------
(***************************************************************************)
(* The row of one model server: the loop of services/federation_service.py *)
(* that keeps its list of models, and the requests of managers that change *)
(* the row (routers/backends.py, services/config_service.py).  Every       *)
(* gateway process has a loop, and a list of the rows that it caches.      *)
(*                                                                         *)
(* The loop works on the cached row: it changes the models of the very     *)
(* object that requests are given, and merges all of its columns into the  *)
(* database, where they replace those that differ.  A manager's change     *)
(* that was committed since the row was read is undone, a deletion, too.   *)
(*                                                                         *)
(* The server itself is external: it answers with some list or fails.      *)
(***************************************************************************)
EXTENDS Sessions

CONSTANTS
  Replica,     \* gateway processes
  Offers,      \* the lists of models that a server may answer with
  ListTtl,     \* the ttl of _backends_cache
  Patience,    \* how long a query and its answer, or a poll, may take
  MaxMoment    \* bound of the exploration: the last moment

ASSUME FederationAssumption == {ListTtl, Patience, MaxMoment} \subseteq Nat

VARIABLES
  server,      \* the row: [config, models], or Gone; config stands for the other columns
  moment,
  changedAt,   \* history: when config, or whether there is a row, has changed last
  listing,     \* the entry of _backends_cache of each process: [row, until] or NoList
  reading,     \* a query of a request of each process: [row, since] or NoQuery
  polling      \* where the loop is: [at, row, cached, answer, base, since]

federationVars == <<server, moment, changedAt, listing, reading, polling>>

Gone == [config |-> -1, models |-> {}]
NoList == [row |-> Gone, until |-> -1]
NoQuery == [row |-> Gone, since |-> -1]
Sleeping == [at |-> "sleeping", row |-> Gone, cached |-> FALSE, answer |-> {}, base |-> Gone, since |-> 0]

\* The row is now v.
Write(v) ==
  /\ server' = v
  /\ changedAt' = IF v.config # server.config THEN moment ELSE changedAt

-----------------------------------------------------------------------------
(* list_backends.  A new list, or none, leaves the loop with a row of its  *)
(* own.                                                                    *)

\* Bug: what has expired is served until something clears it.
FreshForever(w) == listing[w] # NoList

Fresh(w) == listing[w].until >= moment

Relist(w, entry) ==
  /\ listing' = [listing EXCEPT ![w] = entry]
  /\ polling' = [polling EXCEPT ![w].cached = FALSE]

\* A request that misses awaits the database, and stores what it read.
ListServers(w) ==
  /\ ~Fresh(w) /\ reading[w] = NoQuery
  /\ reading' = [reading EXCEPT ![w] = [row |-> server, since |-> moment]]
  /\ Relist(w, NoList)
  /\ UNCHANGED <<sessionVars, server, moment, changedAt>>

StoreServers(w) ==
  /\ reading[w] # NoQuery
  /\ reading' = [reading EXCEPT ![w] = NoQuery]
  /\ Relist(w, [row |-> reading[w].row, until |-> moment + ListTtl])
  /\ UNCHANGED <<sessionVars, server, moment, changedAt>>

-----------------------------------------------------------------------------
(* poll_all_backends.                                                      *)

GoTo(w, at, row, cached) ==
  [polling EXCEPT ![w] = [Sleeping EXCEPT !.at = at, !.row = row, !.cached = cached, !.since = moment]]

Wake(w) ==
  /\ polling[w].at = "sleeping"
  /\ IF Fresh(w)
       THEN /\ listing[w].row # Gone
            /\ polling' = GoTo(w, "asking", listing[w].row, TRUE)
            /\ UNCHANGED listing
       ELSE /\ polling' = GoTo(w, "listing", server, FALSE)
            /\ listing' = [listing EXCEPT ![w] = NoList]
  /\ UNCHANGED <<sessionVars, server, moment, changedAt, reading>>

Listed(w) ==
  /\ polling[w].at = "listing"
  /\ listing' = [listing EXCEPT ![w] = [row |-> polling[w].row, until |-> moment + ListTtl]]
  /\ polling' = IF polling[w].row = Gone THEN [polling EXCEPT ![w] = Sleeping]
                ELSE GoTo(w, "asking", polling[w].row, TRUE)
  /\ UNCHANGED <<sessionVars, server, moment, changedAt, reading>>

\* fetch_models_from_backend; a failure is an empty list, and changes nothing.
Fetched(w, models) ==
  /\ polling[w].at = "asking"
  /\ polling' = IF models = {} THEN [polling EXCEPT ![w] = Sleeping]
                ELSE [polling EXCEPT ![w].at = "answered", ![w].answer = models]
  /\ UNCHANGED <<sessionVars, server, moment, changedAt, listing, reading>>

\* All servers have answered, or failed.  The cached row is changed with the
\* loop's, as it is the same object.
Adopt(w) ==
  /\ polling[w].at = "answered"
  /\ LET models == polling[w].answer
     IN  IF models = polling[w].row.models
           THEN polling' = [polling EXCEPT ![w] = Sleeping] /\ UNCHANGED listing
           ELSE /\ polling' = [polling EXCEPT ![w].at = "merging", ![w].row.models = models]
                /\ listing' = IF polling[w].cached THEN [listing EXCEPT ![w].row.models = models] ELSE listing
  /\ UNCHANGED <<sessionVars, server, moment, changedAt, reading>>

\* session.merge reads the row that it merges into.
Merge(w) ==
  /\ polling[w].at = "merging"
  /\ polling' = [polling EXCEPT ![w].at = "merged", ![w].base = server]
  /\ UNCHANGED <<sessionVars, server, moment, changedAt, listing, reading>>

Merged(w) ==
  LET mine == polling[w].row
      base == polling[w].base
  IN  [config |-> Column(server.config, base.config, mine.config),
       models |-> Column(server.models, base.models, mine.models)]

\* The commit inserts a row that was not there and updates one that was; both
\* fail when this has changed meanwhile, or when the database does.
CommitPoll(w, ok) ==
  /\ polling[w].at = "merged"
  /\ Write(IF ok /\ (polling[w].base = Gone) = (server = Gone)
             THEN IF server = Gone THEN polling[w].row ELSE Merged(w)
             ELSE server)
  /\ polling' = [polling EXCEPT ![w] = Sleeping]
  /\ UNCHANGED <<sessionVars, moment, listing, reading>>

-----------------------------------------------------------------------------
(* Requests of managers: PATCH, sync-models, DELETE and POST.  The list is *)
(* cleared before the commit.                                              *)

\* sync-models reads the row before it asks the server for its models.
AskServer(s, w, op, models) ==
  /\ op = "sync" => server # Gone
  /\ Accept(s, [op |-> op, at |-> "asked", process |-> w, models |-> models,
                config |-> requests + 1, was |-> server])
  /\ UNCHANGED federationVars

\* update_backend and delete_backend do nothing about a server that has no row.
ClearList(s) ==
  /\ hand[s].at = "asked"
  /\ IF server = Gone /\ hand[s].op # "register"
       THEN Finish(s) /\ UNCHANGED <<listing, polling>>
       ELSE /\ Stage(s, "cleared")
            /\ Relist(hand[s].process, NoList)
  /\ UNCHANGED <<server, moment, changedAt, reading>>

CommitServer(s) ==
  /\ hand[s].at = "cleared"
  /\ Write(CASE hand[s].op = "register" ->
                  IF server = Gone THEN [config |-> hand[s].config, models |-> hand[s].models] ELSE server
             [] hand[s].op = "remove" -> Gone
             [] hand[s].op = "patch" -> IF server = Gone THEN server ELSE [server EXCEPT !.config = hand[s].config]
             [] hand[s].op = "sync" ->
                  IF server = Gone THEN server
                  ELSE [server EXCEPT !.models = Column(@, hand[s].was.models, hand[s].models)])
  /\ Finish(s)
  /\ UNCHANGED <<moment, listing, reading, polling>>

-----------------------------------------------------------------------------
Offered == Offers \cup {{}}
Rows == [config : Int, models : Offered]
Stages == {"sleeping", "listing", "asking", "answered", "merging", "merged"}
Edits == [op : {"patch", "remove", "sync", "register"}, at : {"asked", "cleared"}, process : Replica,
          models : Offered, config : Int, was : Rows]

FederationTypeOK ==
  /\ hand \in [Session -> Edits \cup {NoRequest}]
  /\ requests \in Nat /\ moment \in Nat /\ changedAt \in Nat
  /\ server \in Rows
  /\ listing \in [Replica -> [row : Rows, until : Int]]
  /\ reading \in [Replica -> [row : Rows, since : Int]]
  /\ polling \in [Replica -> [at : Stages, row : Rows, cached : BOOLEAN, answer : Offered, base : Rows, since : Int]]

NextMoment ==
  /\ moment < MaxMoment
  /\ \A w \in Replica : /\ polling[w].at # "sleeping" => moment - polling[w].since < Patience
                        /\ reading[w] # NoQuery => moment - reading[w].since < Patience
  /\ moment' = moment + 1
  /\ UNCHANGED <<sessionVars, server, changedAt, listing, reading, polling>>

FederationInit ==
  /\ \/ server = Gone
     \/ \E models \in Offers : server = [config |-> 0, models |-> models]
  /\ moment = 0
  /\ changedAt = 0
  /\ listing = [w \in Replica |-> NoList]
  /\ reading = [w \in Replica |-> NoQuery]
  /\ polling = [w \in Replica |-> Sleeping]

LoopStep(w) ==
  \/ ListServers(w) \/ StoreServers(w)
  \/ Wake(w) \/ Listed(w) \/ Adopt(w) \/ Merge(w)
  \/ \E models \in Offers \cup {{}} : Fetched(w, models)
  \/ \E ok \in BOOLEAN : CommitPoll(w, ok)

ManagerStep(s) ==
  \/ \E w \in Replica, op \in {"patch", "remove"} : AskServer(s, w, op, {})
  \/ \E w \in Replica, op \in {"sync", "register"}, models \in Offers : AskServer(s, w, op, models)
  \/ ClearList(s) \/ CommitServer(s)

FederationNext ==
  \/ \E w \in Replica : LoopStep(w)
  \/ \E s \in Session : ManagerStep(s)
  \/ NextMoment

FederationSpec == SessionsInit(0) /\ FederationInit /\ [][FederationNext]_<<sessionVars, federationVars>>

-----------------------------------------------------------------------------
(* What a manager has changed is undone by a poll soon or never: a row     *)
(* that has stood for as long as a list may live, and a query and a poll   *)
(* may take, is merged into by no poll but for its models, however the     *)
(* polls of all processes undo each other's (federation_service.py:123-142 *)
(* on the rows of config_service.py:34-45).                                *)
KeptOnceSettled ==
  [][\A w \in Replica, ok \in BOOLEAN :
       CommitPoll(w, ok) /\ server'.config # server.config
         => moment - changedAt <= ListTtl + 2 * Patience]_federationVars

-----------------------------------------------------------------------------
(* The inductive invariant behind it: how old each copy of the row can be. *)

\* The copy is the row but for its models, or the row has changed at t or later.
UpToDate(copy, t) == copy.config = server.config \/ t <= changedAt

Underway(since) == since <= moment /\ moment <= since + Patience

ReadingFresh ==
  \A w \in Replica : reading[w] # NoQuery =>
    Underway(reading[w].since) /\ UpToDate(reading[w].row, reading[w].since)

\* A list is stored within the time a query may take.
ListingFresh ==
  \A w \in Replica : listing[w] # NoList =>
    /\ listing[w].until <= moment + ListTtl
    /\ UpToDate(listing[w].row, listing[w].until - ListTtl - Patience)

\* The loop has read its row itself, or found it in a list that was fresh.
PollingFresh ==
  \A w \in Replica : polling[w].at # "sleeping" =>
    /\ Underway(polling[w].since)
    /\ UpToDate(polling[w].row, IF polling[w].at = "listing" THEN polling[w].since
                                ELSE polling[w].since - ListTtl - Patience)

CopiesFresh ==
  /\ FederationTypeOK
  /\ changedAt <= moment
  /\ ReadingFresh
  /\ ListingFresh
  /\ PollingFresh
=============================================================================
