------------------------------- MODULE Poller -------------------------------
(***************************************************************************)
(* The poller of model servers and GPU hosts                               *)
(* (observability/collect/poller.py).                                      *)
(*                                                                         *)
(* A tick reads the configuration, starts a job per server and enabled     *)
(* host, lets Capacity of them be in flight in the order of the            *)
(* configuration, and cancels what is left at the deadline.  A failed      *)
(* target is left out of the next ticks, for longer and longer.            *)
(*                                                                         *)
(* Time is counted in ticks: an interval x 2^n of backoff is that many     *)
(* ticks, or one less when the loop wakes up late.                         *)
(***************************************************************************)
EXTENDS GpuView, Functions

CONSTANTS
  Servers,      \* all the servers there can be, a sequence of names
  Hosts,        \* all the GPU hosts there can be, a sequence of names
  Address,      \* name -> hostname of its URL
  Models,       \* the models each server serves
  Seen,         \* host -> the processes its agent sees: [pid, hint, used, server]
  Slow,         \* targets that may answer late or with an error
  PerModel,     \* servers that report their figures per model
  Breakable,    \* servers whose URL may have an open circuit
  Capacity,     \* MAX_CONCURRENCY
  MaxDelay,     \* MAX_BACKOFF_S in ticks
  MaxFailures,  \* bound of the exploration: failures are counted up to this
  MaxChanges    \* bound of the exploration: changes of the configuration

ASSUME PollerAssumption ==
  /\ Capacity \in Nat \ {0} /\ MaxDelay \in Nat \ {0} /\ MaxChanges \in Nat
  /\ MaxFailures \in Nat \ {0} /\ 2 ^ (MaxFailures - 1) >= MaxDelay
  /\ "metrics" # None
  /\ \A h \in Range(Hosts) : Seen[h] = None \/
       /\ IsFiniteSet(Seen[h])
       /\ \A p \in Seen[h] : DOMAIN p = {"pid", "hint", "used", "server"} /\ p.used \in Nat
  /\ DOMAIN Models = Range(Servers) /\ \A s \in Range(Servers) : IsFiniteSet(Models[s])
  /\ Servers \in Seq(Range(Servers)) /\ Hosts \in Seq(Range(Hosts)) /\ IsInjective(Servers \o Hosts)

VARIABLES
  config,       \* the database: names present, links of servers, disabled hosts
  targets,      \* _targets and the hosts of the last configuration read
  report,       \* _servers and _hosts: what the snapshot says of each target,
                \* with the link of the configuration it was made with
  backoff,      \* _backoff: failures and the ticks still to leave out
  queue,        \* jobs that wait for the semaphore, which lets them in in their order
  running,      \* jobs in flight
  ticking,      \* poll_once is under way
  streak,       \* history: failed probes in a row of each target
  probed,       \* the targets that have been in flight in this tick
  changes       \* bounded by MaxChanges

pollerVars == <<config, targets, report, backoff, queue, running, ticking, streak, probed, changes>>

Server == Range(Servers)
Host == Range(Hosts)
Target == Server \cup Host
Names(c) == {n \in Target : n \in c.present}

Status == {"ok", "unsupported", "unreachable", "backoff", "circuit_open", "skipped", "disabled"}
Absent == [status |-> "absent", data |-> None, link |-> None]
Nothing(n) == IF n \in Host THEN {} ELSE None

Gpu(h) == [host |-> h, index |-> 0, used |-> 0, total |-> 0, procs |-> Seen[h]]

\* What a successful answer carries: a host's GPUs, a server's metrics.
AnswerOf(n) == IF n \in Host THEN {Gpu(n)} ELSE "metrics"

-----------------------------------------------------------------------------
(* The configuration, changed by the administrators at any time.           *)

Change(n, what) ==
  /\ changes < MaxChanges
  /\ changes' = changes + 1
  /\ config' =
       CASE what = "toggle" ->
              [config EXCEPT !.present = IF n \in @ THEN @ \ {n} ELSE @ \cup {n},
                             !.link[n] = None]
         [] what = "disable" -> [config EXCEPT !.disabled = IF n \in @ THEN @ \ {n} ELSE @ \cup {n}]
         [] what = "link" -> [config EXCEPT !.link[n] = IF @ = None THEN Hosts[1] ELSE None]
  /\ UNCHANGED <<targets, report, backoff, queue, running, ticking, streak, probed>>

-----------------------------------------------------------------------------
(* One tick.                                                               *)

\* The result of a tick for a target: its base from the configuration read.
Result(n, status, data) == [status |-> status, data |-> data, link |-> targets'.link[n]]

\* Bug: a server that is left out shows its last metrics.
CarryAll(n, status) ==
  Result(n, status, IF report[n] # Absent THEN report[n].data ELSE Nothing(n))

\* _carry: a target that is left out keeps its GPUs, not its metrics.
Carry(n, status) ==
  Result(n, status, IF n \in Host /\ report[n] # Absent THEN report[n].data ELSE Nothing(n))

\* Cancelled while queued: the previous result stays as it was.
Skip(n) == IF report[n] = Absent THEN Result(n, "skipped", Nothing(n))
           ELSE [report[n] EXCEPT !.status = "skipped"]

Delay(failures) == IF 2 ^ (failures - 1) < MaxDelay THEN 2 ^ (failures - 1) ELSE MaxDelay

Failures(n) == IF n \in DOMAIN backoff THEN backoff[n].failures ELSE 0
Least(a, b) == IF a < b THEN a ELSE b

\* _finish of unreachable targets; late: the next tick starts late.
Raise(bo, failed, late) ==
  LET Count(n) == Least(Failures(n) + 1, MaxFailures)
  IN  [n \in DOMAIN bo \cup failed |->
         IF n \in failed THEN [failures |-> Count(n), wait |-> Delay(Count(n)) - late[n]] ELSE bo[n]]

Clear(bo, n) == Restrict(bo, DOMAIN bo \ {n})

\* Time passes between two ticks.
Aged == [n \in DOMAIN backoff |->
           [backoff[n] EXCEPT !.wait = IF @ > 0 THEN @ - 1 ELSE 0]]

\* The backoff of targets that are gone is dropped with their report.
Kept(bo) == Restrict(bo, {n \in DOMAIN bo : n \in config.present \/ report[n] = Absent})

\* _run_job up to the semaphore: left out, or queued in the order of the lists.
LeftOut(n, open) ==
  \/ n \in DOMAIN backoff /\ backoff[n].wait > 0
  \/ n \in open

Started(open) == {n \in Target : n \in config.present \ config.disabled /\ ~LeftOut(n, open)}

\* The semaphore lets jobs in as they were created, in the order of the lists.
Order == Servers \o Hosts
Before(m, n) == \E i, j \in DOMAIN Order : i < j /\ Order[i] = m /\ Order[j] = n
FirstOf(jobs, places) == {n \in jobs : Cardinality({m \in jobs : Before(m, n)}) < places}

Begun(n, open) ==
  IF n \notin config.present THEN Absent
  ELSE IF n \in config.disabled THEN Result(n, "disabled", Nothing(n))
  ELSE IF n \in DOMAIN backoff /\ backoff[n].wait > 0 THEN Carry(n, "backoff")
  ELSE IF n \in open THEN Carry(n, "circuit_open")
  ELSE report[n]

Begin(open) ==
  /\ ~ticking
  /\ ticking' = TRUE
  /\ targets' = config
  /\ report' = [n \in Target |-> Begun(n, open)]
  /\ backoff' = Kept(Aged)
  /\ running' = FirstOf(Started(open), Capacity)
  /\ queue' = Started(open) \ running'
  /\ streak' = [n \in Target |-> IF n \in config.present THEN streak[n] ELSE 0]
  /\ probed' = running'
  /\ UNCHANGED <<config, changes>>

\* The configuration cannot be read: the tick keeps the last snapshot.
ReadFails ==
  /\ ~ticking
  /\ Aged # backoff
  /\ backoff' = Aged
  /\ UNCHANGED <<config, targets, report, queue, running, ticking, streak, probed, changes>>

\* scrape_server and _fetch_host end before the deadline, with any outcome.
Outcome(n) == {"ok", "unsupported"} \cup (IF n \in Slow THEN {"unreachable"} ELSE {})

Settle(n, outcome, late) ==
  /\ report' = [report EXCEPT ![n] = Result(n, outcome, IF outcome = "ok" THEN AnswerOf(n) ELSE Nothing(n))]
  /\ backoff' = IF outcome = "unreachable" THEN Raise(backoff, {n}, [x \in {n} |-> late]) ELSE Clear(backoff, n)
  /\ streak' = [streak EXCEPT ![n] = IF outcome = "unreachable" THEN Least(@ + 1, MaxFailures) ELSE 0]

Finish(n, outcome, late) ==
  /\ n \in running
  /\ UNCHANGED targets
  /\ Settle(n, outcome, late)
  /\ running' = (running \ {n}) \cup FirstOf(queue, 1)
  /\ queue' = queue \ running'
  /\ probed' = probed \cup running'
  /\ UNCHANGED <<config, ticking, changes>>

\* Bug: what is still queued at the deadline counts as failed.
CutOffAll == running \cup queue

\* Bug: what the deadline cuts off is not charged.
CutOffNothing == {}

\* What the deadline makes a failure.
CutOff == running

\* A target that has had to wait for its place, behind a slow one.
LetInLate(n) ==
  LET ahead == {m \in probed : Before(m, n)}
  IN  Cardinality(ahead) >= Capacity /\ ahead \cap Slow # {}

\* The deadline: what is in flight failed, what is queued was never asked.  One of
\* its targets may be quick, when there was no time left for it.
Deadline(late) ==
  /\ running # {} /\ \A n \in running : n \in Slow \/ LetInLate(n)
  /\ UNCHANGED targets
  /\ report' = [n \in Target |->
                  IF n \in running THEN Result(n, "unreachable", Nothing(n))
                  ELSE IF n \in queue THEN Skip(n) ELSE report[n]]
  /\ backoff' = Raise(backoff, CutOff, [n \in CutOff |-> late])
  /\ streak' = [n \in Target |-> IF n \in running THEN Least(streak[n] + 1, MaxFailures) ELSE streak[n]]
  /\ running' = {}
  /\ queue' = {}
  /\ UNCHANGED <<config, ticking, probed, changes>>

-----------------------------------------------------------------------------
(* After the jobs, processes are attributed and metrics recorded.          *)

Row(s) == [name |-> s, at |-> Address[s], link |-> targets.link[s], indices |-> None,
           models |-> Models[s]]
TargetRows == [i \in {j \in DOMAIN Servers : Servers[j] \in targets.present} |-> Row(Servers[i])]

HostRow(h, rep) ==
  [name |-> h, at |-> Address[h], status |-> rep[h].status, gpus |-> rep[h].data]
HostRows(rep) == [i \in {j \in DOMAIN Hosts : rep[Hosts[j]] # Absent} |-> HostRow(Hosts[i], rep)]

\* Bug: only what was fetched in this tick is attributed anew.
AttributeFetched ==
  [n \in Target |-> IF n \in Host /\ report[n].status = "ok"
     THEN [report[n] EXCEPT !.data =
             (CHOOSE h \in Range(Attribute(TargetRows, HostRows(report))) : h.name = n).gpus]
     ELSE report[n]]

\* attribute_processes over every host of the snapshot, carried ones included.
Attributed ==
  [n \in Target |-> IF n \in Host /\ report[n] # Absent
     THEN [report[n] EXCEPT !.data =
             (CHOOSE h \in Range(Attribute(TargetRows, HostRows(report))) : h.name = n).gpus]
     ELSE report[n]]

End ==
  /\ ticking
  /\ running = {} /\ queue = {}
  /\ report' = Attributed
  /\ ticking' = FALSE
  /\ UNCHANGED <<config, targets, backoff, queue, running, streak, probed, changes>>

-----------------------------------------------------------------------------
(* The live view, computed from the snapshot whenever it is asked for.     *)

\* The snapshot's servers; a server that has answered has one request waiting.
SeenServer(s) ==
  [name |-> s, at |-> Address[s], link |-> report[s].link, indices |-> None, models |-> Models[s],
   waiting |-> IF report[s].data = None THEN None ELSE 1,
   stats |-> IF s \in PerModel /\ report[s].data # None THEN [m \in Models[s] |-> 1] ELSE << >>]

SeenServers == {SeenServer(s) : s \in {x \in Server : report[x] # Absent}}

View(traffic) == Instances(WithServerRows(traffic, SeenServers), SeenServers, HostRows(report))

-----------------------------------------------------------------------------
PollerTypeOK ==
  /\ \A n \in Target : report[n] = Absent \/ report[n].status \in Status
  /\ \A n \in DOMAIN backoff : /\ backoff[n].failures \in 1..MaxFailures
                               /\ backoff[n].wait \in 0..MaxDelay
  /\ running \subseteq Target /\ queue \subseteq Target
  /\ Cardinality(running) <= Capacity
  /\ queue \cap running = {}

PollerInit(present) ==
  /\ config = [present |-> present, link |-> [s \in Target |-> None], disabled |-> {}]
  /\ targets = [config EXCEPT !.present = {}]
  /\ report = [n \in Target |-> Absent]
  /\ backoff = [n \in {} |-> Absent]
  /\ queue = {}
  /\ running = {}
  /\ ticking = FALSE
  /\ streak = [n \in Target |-> 0]
  /\ probed = {}
  /\ changes = 0

PollerNext ==
  \/ \E n \in Target : Change(n, "toggle")
  \/ \E s \in Server : Change(s, "link")
  \/ \E h \in Host : Change(h, "disable")
  \/ \E open \in SUBSET Breakable : Begin(open)
  \/ ReadFails
  \/ \E n \in Target : \E o \in Outcome(n), late \in {0, 1} : Finish(n, o, late)
  \/ \E late \in {0, 1} : Deadline(late)
  \/ End

(* The loop goes on; a target that is not slow answers, before the deadline *)
(* if it is let in in time (connect and read timeouts are shorter), a slow  *)
(* one is cut off.                                                          *)
Fairness ==
  /\ WF_pollerVars(\E open \in SUBSET Breakable : Begin(open))
  /\ \A n \in Target \ Slow : WF_pollerVars(\E o \in Outcome(n) : Finish(n, o, 0))
  /\ WF_pollerVars(\E late \in {0, 1} : Deadline(late))
  /\ WF_pollerVars(End)

PollerSpec == PollerInit(Target) /\ [][PollerNext]_pollerVars /\ Fairness

-----------------------------------------------------------------------------
Resting == ~ticking /\ targets.present # {}

(* The snapshot, between ticks, names exactly the targets of the           *)
(* configuration that was read, and shows metrics and GPUs only of those   *)
(* that answered, GPUs of hosts that are left out, and previous data of    *)
(* those that were not asked (poller.py:162-168, 200-206, 229-239).        *)
SnapshotHonest ==
  Resting =>
    \A n \in Target :
      /\ report[n] = Absent <=> n \notin targets.present
      /\ report[n].status = "ok" => report[n].data # Nothing(n)
      /\ report[n].status \in {"unreachable", "unsupported", "disabled"} => report[n].data = Nothing(n)
      /\ n \in Server /\ report[n].status \in {"backoff", "circuit_open"} => report[n].data = None

(* Backoff is for failures alone: a target is left out only after probes   *)
(* that failed, as many in a row as it is charged for, and a target that   *)
(* was merely queued when the tick ended is not (poller.py:200-204).       *)
BackoffEarned ==
  /\ \A n \in DOMAIN backoff : backoff[n].failures = streak[n]
  /\ \A n \in Target : streak[n] > 0 => n \in DOMAIN backoff
  /\ \A n \in DOMAIN backoff : backoff[n].wait <= Delay(streak[n])

(* Between ticks no process belongs to a server that is gone, is bound to  *)
(* another host, or does not serve its model; every process that a server  *)
(* of the configuration accounts for has one (gpu.py:186-207).             *)
AttributionCurrent ==
  Resting =>
    \A h \in Host : \A g \in (IF report[h] = Absent THEN {} ELSE report[h].data) : \A p \in ProcsOf(g) :
      LET may == {i \in DOMAIN TargetRows : Serves(TargetRows[i], p, h, HostRows(report))}
      IN  IF may = {} THEN p.server = None ELSE \E i \in may : p.server = TargetRows[i].name

(* The view has one row for every model of every server of the snapshot,   *)
(* and one for the traffic to others (api.py:128-174).                     *)
RowsOnce(view, traffic) ==
  \A pair \in traffic \cup UNION {{s} \X Models[s] : s \in {x \in Server : report[x] # Absent}} :
    Cardinality({i \in view : <<i.server, i.model>> = pair}) = 1

(* No memory of a process is counted for two of them, be the links as      *)
(* stale as they are (gpu.py:264-277).                                     *)
VramOnce(view) ==
  Sum([i \in {j \in view : j.vram # None} |-> i.vram])
    <= Held(OnGpus(UNION {report[h].data : h \in {x \in Host : report[x] # Absent}}))

(* The requests that wait at a server are counted once per model that      *)
(* reports them and once for the others (api.py:177-268).                  *)
WaitingOnce(view) ==
  /\ ServerWaiting(view) <= Cardinality(view)
  /\ \A s \in Server \ PerModel : ServerWaiting({i \in view : i.server = s}) <= 1

(* Whatever the gateway has seen, the view counts nothing twice.           *)
ViewExact ==
  Resting =>
    \A traffic \in SUBSET (Server \X UNION Range(Models)) :
      LET view == View(traffic) IN RowsOnce(view, traffic) /\ VramOnce(view) /\ WaitingOnce(view)

(* What the dashboard is told of the servers: an honest snapshot, and a     *)
(* view of it that counts nothing twice (poller.py:229-255, api.py:177).   *)
ViewHonest == SnapshotHonest /\ ViewExact

(* The tick after a deadline comes an interval late.                       *)
LateDeadline == Deadline(1) /\ ~Deadline(0)

(* One slow target does not hide the others: as long as the configuration  *)
(* keeps it, every target that is not slow is asked again and again, even  *)
(* when it waits behind a slow one, and others that were let in late, for  *)
(* the only place (backoff is what gives the place free).  Left out are a  *)
(* database that fails for ever, as those ticks ask nobody, and a loop     *)
(* whose own writes take an interval in every tick, in which a backoff of  *)
(* one interval passes (poller.py:221, 536).                               *)
HealthyAsked ==
  \A n \in Target \ Slow :
    <>[][~ReadFails /\ ~LateDeadline]_pollerVars =>
      []<>(n \in probed \/ n \notin config.present \/ n \in config.disabled)
=============================================================================
