------------------------------ MODULE GpuView ------------------------------
(***************************************************************************)
(* Which GPUs and which processes belong to which server and model         *)
(* (observability/collect/gpu.py), and what the live view adds up of them  *)
(* (observability/api.py).  Operators without state: the poller attributes *)
(* the processes after every tick (Poller), the view is computed per       *)
(* request.                                                                *)
(*                                                                         *)
(* A server is [name, at, link, indices, models]: where it runs, the       *)
(* linked GPU host or None, pinned GPU indices or None.  A host is         *)
(* [name, at, status, gpus], a GPU [host, index, used, total, procs] where *)
(* procs is None for exporters without a process list, and a process       *)
(* [pid, hint, used, server].  A list is a function of some positions; one *)
(* order of the hosts stands for that of the database and for the order in *)
(* which the poller has first heard of them.                               *)
(***************************************************************************)
EXTENDS Integers, Sequences, FiniteSets, Functions, Sums

CONSTANTS
  None,
  Norm(_)       \* a model name without prefix, suffix and punctuation

ASSUME NormAssumption == Norm(None) = None

----------------------------------------------------------------------------
(* Binding servers to hosts and processes to servers.                       *)

SameModel(a, b) == Norm(a) # None /\ Norm(a) = Norm(b)

Foremost(positions) == CHOOSE i \in positions : \A j \in positions : i <= j

\* The name of the first of some elements of a list, as the code's loops find it.
FirstName(list, positions) == IF positions = {} THEN None ELSE list[Foremost(positions)].name

\* The explicit link, else the first host at the server's address.
EffectiveHost(srv, hosts) ==
  IF srv.link # None THEN srv.link
  ELSE FirstName(hosts, {i \in DOMAIN hosts : srv.at # None /\ hosts[i].at = srv.at})

HostOf(srv, hosts) ==
  LET at == {i \in DOMAIN hosts : hosts[i].name = EffectiveHost(srv, hosts)}
  IN  IF at = {} THEN None ELSE hosts[CHOOSE i \in at : TRUE]

\* Whether a process on the host may be the server's.
Serves(srv, p, name, hosts) ==
  /\ EffectiveHost(srv, hosts) = name
  /\ \E m \in srv.models : SameModel(p.hint, m)

\* The first server on the host that serves a model of the process's hint.
Owner(p, host, targets, hosts) ==
  FirstName(targets, {i \in DOMAIN targets : Serves(targets[i], p, host.name, hosts)})

\* attribute_processes: whatever a process was attributed to is forgotten.
Attribute(targets, hosts) ==
  LET Procs(h, ps) == {[p EXCEPT !.server = Owner(p, h, targets, hosts)] : p \in ps}
      Gpus(h) == {IF g.procs = None THEN g ELSE [g EXCEPT !.procs = Procs(h, g.procs)] : g \in h.gpus}
  IN  [i \in DOMAIN hosts |-> [hosts[i] EXCEPT !.gpus = Gpus(hosts[i])]]

----------------------------------------------------------------------------
(* What the view shows of one server and of one of its models.              *)

ProcsOf(g) == IF g.procs = None THEN {} ELSE g.procs
RunsOn(srv, g) == \E p \in ProcsOf(g) : p.server = srv.name
RunsModel(srv, m, g) == \E p \in ProcsOf(g) : p.server = srv.name /\ SameModel(p.hint, m)

ServerGpus(srv, hosts) ==
  LET host == HostOf(srv, hosts)
      picked == {g \in host.gpus : RunsOn(srv, g)}
  IN  IF host = None THEN [gpus |-> {}, how |-> "none"]
      ELSE IF srv.indices # None
        THEN [gpus |-> {g \in host.gpus : g.index \in srv.indices}, how |-> "pinned"]
      ELSE IF picked # {} THEN [gpus |-> picked, how |-> "process"]
      ELSE [gpus |-> host.gpus, how |-> "host"]

\* A model that is not seen where its server's others are has no GPUs to show.
ModelGpus(srv, m, hosts) ==
  LET host == HostOf(srv, hosts)
      picked == {g \in host.gpus : RunsModel(srv, m, g)}
  IN  IF host = None \/ srv.indices # None THEN ServerGpus(srv, hosts)
      ELSE IF picked # {} THEN [gpus |-> picked, how |-> "process"]
      ELSE IF \E g \in host.gpus : RunsOn(srv, g) THEN [gpus |-> {}, how |-> "none"]
      ELSE ServerGpus(srv, hosts)

\* The processes of some GPUs, each with the GPU it is on, and the memory they hold.
OnGpus(gpus) == UNION {{g} \X ProcsOf(g) : g \in gpus}
Held(procs) == Sum([gp \in procs |-> gp[2].used])

\* What the model's own processes hold; None when none is attributed to it.
ModelVram(srv, m, hosts) ==
  LET host == HostOf(srv, hosts)
      mine == {gp \in OnGpus(host.gpus) : gp[2].server = srv.name /\ SameModel(gp[2].hint, m)}
  IN  IF host = None \/ mine = {} THEN None ELSE Held(mine)

\* Why a model shows no GPU.
GpuNote(srv, m, hosts) ==
  LET host == HostOf(srv, hosts)
  IN  IF ModelGpus(srv, m, hosts).how # "none" THEN "shown"
      ELSE IF EffectiveHost(srv, hosts) = None THEN "not linked"
      ELSE IF host = None THEN "host not found"
      ELSE IF host.status # "ok" /\ host.gpus = {} THEN "host not read"
      ELSE IF host.gpus # {} /\ \A g \in host.gpus : g.procs = None THEN "no process data"
      ELSE "no process"

----------------------------------------------------------------------------
(* The rows of the live view.  A row is [server, model, traffic, scope,     *)
(* waiting]; of a server's figures, `waiting' stands for all of them.       *)

ServerNamed(n, servers) ==
  LET found == {s \in servers : s.name = n} IN IF found = {} THEN None ELSE CHOOSE s \in found : TRUE

\* What the server says of the row: of the model if it can, else of itself.
ServerSide(srv, m) ==
  IF srv = None THEN [scope |-> None, waiting |-> None]
  ELSE IF m \in DOMAIN srv.stats THEN [scope |-> "model", waiting |-> srv.stats[m]]
  ELSE [scope |-> "server", waiting |-> srv.waiting]

\* The pairs the gateway has seen, and every model of every server.
WithServerRows(traffic, servers) ==
  {[server |-> p[1], model |-> p[2], traffic |-> p \in traffic,
    side |-> ServerSide(ServerNamed(p[1], servers), p[2])] :
     p \in traffic \cup UNION {{s.name} \X (s.models \cup DOMAIN s.stats) : s \in servers}}

----------------------------------------------------------------------------
(* The totals of a group of instances, one per row.                         *)

Instance(row, servers, hosts) ==
  LET srv == ServerNamed(row.server, servers)
  IN  [server |-> row.server, model |-> row.model, waiting |-> row.side.waiting, scope |-> row.side.scope,
       gpus |-> IF srv = None THEN {} ELSE ModelGpus(srv, row.model, hosts).gpus,
       vram |-> IF srv = None THEN None ELSE ModelVram(srv, row.model, hosts),
       note |-> IF srv = None THEN "unknown server" ELSE GpuNote(srv, row.model, hosts)]

Instances(rows, servers, hosts) == {Instance(r, servers, hosts) : r \in rows}

\* A server-wide figure is on every row of its server, and counts once.
ServerWaiting(insts) ==
  LET perModel == {i \in insts : i.scope = "model"}
      servers == {i.server : i \in insts \ perModel}
      wide == {CHOOSE i \in insts \ perModel : i.server = s : s \in servers}
  IN  Sum([i \in {j \in perModel \cup wide : j.waiting # None} |-> i.waiting])
=============================================================================
