---------------------------- MODULE Integrations ----------------------------
(***************************************************************************)
(* The exporters that are managed at run time: the endpoints of            *)
(* observability/api.py, export/manager.py and export/sinks.py.            *)
(*                                                                         *)
(* The rows say what should run.  A request that changes them re-applies   *)
(* them on its own worker; a loop on every worker re-applies them when     *)
(* their number or their latest time has changed.  A tool that is also     *)
(* configured in the environment has two exporters; the environment's one  *)
(* drops what it is given while the other one runs.  Exporters send from   *)
(* threads of their own.                                                   *)
(***************************************************************************)
EXTENDS Sessions, FiniteSetsExt

CONSTANTS
  Worker,     \* gateway processes
  Tool,       \* names of integrations
  EnvTools,   \* those of OBS_EXPORTERS
  Config,     \* configurations
  Broken,     \* those whose exporter does not start
  Span        \* spans that end

ASSUME IntegrationsAssumption == EnvTools \subseteq Tool /\ Broken \subseteq Config /\ "none" \notin Worker

VARIABLES
  rows,        \* ObsIntegration: existing names -> [on, config, time]
  now,         \* the time of the last commit
  dropped,     \* history: an integration was deleted
  active,      \* _ACTIVE of each worker: running names -> configuration
  superseded,  \* _SUPERSEDED of each worker
  applying,    \* where apply is on each worker
  loop,        \* integrations_loop of each worker: [at, stamp, rows]
  last,        \* the stamp it has applied last
  spans        \* each span: [worker, env, own, due, sent, calm]

integrationVars == <<rows, now, dropped, active, superseded, applying, loop, last, spans>>
workerVars == <<active, superseded, applying, loop, last, spans>>

NoStamp == <<-1, -1>>
Stamp == <<Cardinality(DOMAIN rows), Max({0} \cup {rows[n].time : n \in DOMAIN rows})>>
NoConfig == "none"
Resting == [at |-> "resting", stamp |-> NoStamp, rows |-> <<>>]

\* The event loop of a worker is free.
Runs(w) == applying[w] = "no"

-----------------------------------------------------------------------------
(* The endpoints.                                                          *)

AskIntegration(s, w, n, op, on, c) ==
  /\ Runs(w)
  /\ Accept(s, [op |-> op, at |-> "reading", worker |-> w, name |-> n, on |-> on, config |-> c, was |-> {}])
  /\ UNCHANGED integrationVars

\* toggle and delete refuse a name that has no row.
ReadIntegration(s) ==
  /\ hand[s].at = "reading" /\ hand[s].op \in {"save", "toggle", "drop"}
  /\ Runs(hand[s].worker)
  /\ IF hand[s].op # "save" /\ hand[s].name \notin DOMAIN rows THEN Finish(s)
     ELSE Proceed(s, [hand[s] EXCEPT !.at = "read", !.was = {rows[n] : n \in DOMAIN rows \cap {hand[s].name}}])
  /\ UNCHANGED integrationVars

\* Bug: toggling does not touch the time.
SavedQuietly(row, was, req) ==
  [row EXCEPT !.on = Column(@, was.on, req.on), !.config = IF req.op = "save" THEN req.config ELSE @]

Saved(row, was, req) ==
  [on |-> Column(row.on, was.on, req.on),
   config |-> IF req.op = "save" THEN req.config ELSE row.config,
   time |-> now + 1]

CommitIntegration(s) ==
  /\ hand[s].at = "read" /\ hand[s].op \in {"save", "toggle", "drop"}
  /\ Runs(hand[s].worker)
  /\ LET n == hand[s].name
         was == hand[s].was
         exists == n \in DOMAIN rows
         \* an insert of a name that exists and an update of a row that is gone fail
         ok == hand[s].op = "drop" \/ (was # {}) = exists
     IN  /\ rows' = CASE ~ok -> rows
                      [] ok /\ hand[s].op = "drop" -> [m \in DOMAIN rows \ {n} |-> rows[m]]
                      [] OTHER -> [m \in DOMAIN rows \cup {n} |->
                                     IF m # n THEN rows[m]
                                     ELSE IF exists THEN Saved(rows[n], CHOOSE x \in was : TRUE, hand[s])
                                     ELSE [on |-> hand[s].on, config |-> hand[s].config, time |-> now + 1]]
         /\ now' = now + 1
         /\ dropped' = (dropped \/ hand[s].op = "drop")
         /\ IF ok THEN Proceed(s, [op |-> "load", at |-> "committed", worker |-> hand[s].worker]) ELSE Finish(s)
  /\ UNCHANGED workerVars

\* load_and_apply reads the rows and closes its session; then it applies them.
LoadForRequest(s) ==
  /\ hand[s].op = "load" /\ hand[s].at = "committed"
  /\ Runs(hand[s].worker)
  /\ Proceed(s, [op |-> "load", at |-> "loaded", worker |-> hand[s].worker, rows |-> rows])
  /\ UNCHANGED integrationVars

-----------------------------------------------------------------------------
(* apply, which holds the event loop: old exporters are shut down, which   *)
(* sends what they hold, new ones are built; then the set of superseded    *)
(* names is cleared and filled again.                                      *)

Wanted(r) == {n \in DOMAIN r : r[n].on}

Startable(w, r) == {n \in Wanted(r) : r[n].config \notin Broken}

Torn(w, r) == {n \in DOMAIN active[w] : n \notin Wanted(r) \/ r[n].config # active[w][n]}

\* The tools whose managed exporter is started or stopped for good.
Toggled(w, r) == {n \in Tool : n \in DOMAIN active[w] <=> n \notin Startable(w, r)}

Sent(sent, names) == [n \in Tool |-> sent[n] + IF n \in names THEN 1 ELSE 0]

Apply(w, r) ==
  /\ applying' = [applying EXCEPT ![w] = "built"]
  /\ active' = [active EXCEPT ![w] = [n \in Startable(w, r) |-> r[n].config]]
  /\ spans' = [x \in Span |->
                 IF spans[x].worker # w THEN spans[x]
                 ELSE [spans[x] EXCEPT !.sent = Sent(@, spans[x].own \cap Torn(w, r)), !.own = @ \ Torn(w, r),
                                       !.calm = @ \ Toggled(w, r)]]
  /\ UNCHANGED <<rows, now, dropped, superseded>>

ApplyForRequest(s) ==
  /\ hand[s].op = "load" /\ hand[s].at = "loaded"
  /\ Runs(hand[s].worker)
  /\ Apply(hand[s].worker, hand[s].rows)
  /\ Finish(s)
  /\ UNCHANGED <<loop, last>>

ClearSuperseded(w) ==
  /\ applying[w] = "built"
  /\ applying' = [applying EXCEPT ![w] = "cleared"]
  /\ superseded' = [superseded EXCEPT ![w] = {}]
  /\ UNCHANGED <<sessionVars, rows, now, dropped, active, loop, last, spans>>

FillSuperseded(w) ==
  /\ applying[w] = "cleared"
  /\ applying' = [applying EXCEPT ![w] = "no"]
  /\ superseded' = [superseded EXCEPT ![w] = DOMAIN active[w]]
  /\ UNCHANGED <<sessionVars, rows, now, dropped, active, loop, last, spans>>

-----------------------------------------------------------------------------
(* integrations_loop.                                                      *)

Loop(w, state) == loop' = [loop EXCEPT ![w] = state]

ReadStamp(w) ==
  /\ Runs(w) /\ loop[w] = Resting
  /\ Stamp # last[w]
  /\ Loop(w, [at |-> "changed", stamp |-> Stamp, rows |-> <<>>])
  /\ UNCHANGED <<sessionVars, rows, now, dropped, active, superseded, applying, last, spans>>

\* A failed read leaves everything as it is until the next round.
LoadForLoop(w, fails) ==
  /\ Runs(w) /\ loop[w].at = "changed"
  /\ Loop(w, IF fails THEN Resting ELSE [loop[w] EXCEPT !.at = "loaded", !.rows = rows])
  /\ UNCHANGED <<sessionVars, rows, now, dropped, active, superseded, applying, last, spans>>

\* The stamp that was read before the rows.
StampApplied(w) == loop[w].stamp

ApplyForLoop(w) ==
  /\ Runs(w) /\ loop[w].at = "loaded"
  /\ Apply(w, loop[w].rows)
  /\ last' = [last EXCEPT ![w] = StampApplied(w)]
  /\ Loop(w, Resting)
  /\ UNCHANGED sessionVars

\* A worker starts anew; its requests and its spans are gone.
Restart(w) ==
  /\ requests < MaxRequests
  /\ requests' = requests + 1
  /\ active' = [active EXCEPT ![w] = <<>>]
  /\ superseded' = [superseded EXCEPT ![w] = {}]
  /\ applying' = [applying EXCEPT ![w] = "no"]
  /\ last' = [last EXCEPT ![w] = NoStamp]
  /\ Loop(w, Resting)
  /\ hand' = [s \in Session |-> IF hand[s] # NoRequest /\ hand[s].worker = w THEN NoRequest ELSE hand[s]]
  /\ spans' = [x \in Span |-> IF spans[x].worker = w THEN [spans[x] EXCEPT !.env = {}, !.own = {}, !.calm = {}] ELSE spans[x]]
  /\ UNCHANGED <<overlapped, rows, now, dropped>>

-----------------------------------------------------------------------------
(* Spans and the threads that send them.                                   *)

Unborn == [worker |-> "none", env |-> {}, own |-> {}, due |-> {}, sent |-> [n \in Tool |-> 0], calm |-> Tool]

EndSpan(x, w) ==
  /\ Runs(w) /\ spans[x] = Unborn
  /\ spans' = [spans EXCEPT ![x] = [worker |-> w, env |-> EnvTools, own |-> DOMAIN active[w],
                                 due |-> EnvTools \cup DOMAIN active[w], sent |-> [n \in Tool |-> 0], calm |-> Tool]]
  /\ UNCHANGED <<sessionVars, rows, now, dropped, active, superseded, applying, loop, last>>

\* Bug: the exporter of the environment drops nothing.
EnvSendsAlways(w, n) == TRUE

EnvSends(w, n) == n \notin superseded[w]

SendEnv(x, n) ==
  /\ n \in spans[x].env
  /\ spans' = [spans EXCEPT ![x].sent = Sent(@, {m \in {n} : EnvSends(spans[x].worker, n)}), ![x].env = @ \ {n},
                            ![x].calm = IF applying[spans[x].worker] = "cleared" THEN @ \ {n} ELSE @]
  /\ UNCHANGED <<sessionVars, rows, now, dropped, active, superseded, applying, loop, last>>

SendOwn(x, n) ==
  /\ n \in spans[x].own
  /\ spans' = [spans EXCEPT ![x].sent = Sent(@, {n}), ![x].own = @ \ {n}]
  /\ UNCHANGED <<sessionVars, rows, now, dropped, active, superseded, applying, loop, last>>

-----------------------------------------------------------------------------
IntegrationsInit ==
  /\ rows = <<>>
  /\ now = 0
  /\ dropped = FALSE
  /\ active = [w \in Worker |-> <<>>]
  /\ superseded = [w \in Worker |-> {}]
  /\ applying = [w \in Worker |-> "no"]
  /\ loop = [w \in Worker |-> Resting]
  /\ last = [w \in Worker |-> NoStamp]
  /\ spans = [x \in Span |-> Unborn]

\* What workers W do for requests S.
SettingsNext(S, W) ==
  \/ \E s \in S, w \in W, n \in Tool, on \in BOOLEAN, c \in Config : AskIntegration(s, w, n, "save", on, c)
  \/ \E s \in S, w \in W, n \in Tool, on \in BOOLEAN : AskIntegration(s, w, n, "toggle", on, NoConfig)
  \/ \E s \in S, w \in W, n \in Tool : AskIntegration(s, w, n, "drop", FALSE, NoConfig)
  \/ \E s \in S : ReadIntegration(s) \/ CommitIntegration(s) \/ LoadForRequest(s) \/ ApplyForRequest(s)
  \/ \E w \in W :
       \/ ClearSuperseded(w) \/ FillSuperseded(w) \/ ReadStamp(w) \/ ApplyForLoop(w) \/ Restart(w)
       \/ \E fails \in BOOLEAN : LoadForLoop(w, fails)

SpanNext(W) ==
  \/ \E x \in Span, w \in W : EndSpan(x, w)
  \/ \E x \in Span, n \in Tool : SendEnv(x, n) \/ SendOwn(x, n)

IntegrationsNext == SettingsNext(Session, Worker) \/ SpanNext(Worker)
IntegrationsSpec ==
  SessionsInit(0) /\ IntegrationsInit /\ [][IntegrationsNext]_<<sessionVars, integrationVars>>

-----------------------------------------------------------------------------
(* A worker whose loop sees nothing new and that has nothing under way     *)
(* runs what the rows say, unless requests have overlapped (one that       *)
(* applies late what it loaded early stays, for the stamp has not changed) *)
(* or a row was deleted (which can bring an old stamp back)                *)
(* (manager.py:263-296).                                                   *)
RunsWhatIsStored ==
  ~overlapped /\ ~dropped =>
    \A w \in Worker :
      /\ loop[w] = Resting /\ last[w] = Stamp
      /\ \A s \in Session : hand[s].op = "load" => hand[s].worker # w
      => active[w] = [n \in Startable(w, rows) |-> rows[n].config]

(* A span reaches every tool that ran or was configured when it ended once *)
(* and no more, whatever is applied on its worker before it was sent: the  *)
(* environment's exporter of a tool drops exactly what the managed one     *)
(* sends, also when that one is replaced with another configuration or     *)
(* others are turned on and off (sinks.py:131-152, manager.py:38-50,       *)
(* 188-220).  Exempt are the tools that were turned on or off themselves   *)
(* meanwhile, and those whose environment's exporter sends while the set   *)
(* that silences it is being filled again (sinks.py:106-108), which may    *)
(* reach the tool twice or not at all.                                     *)
ExportedOnce ==
  \A x \in Span : \A n \in spans[x].calm \ (spans[x].env \cup spans[x].own) :
    spans[x].sent[n] = IF n \in spans[x].due THEN 1 ELSE 0
=============================================================================
