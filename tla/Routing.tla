------------------------------ MODULE Routing ------------------------------
(***************************************************************************)
(* Which model server a request goes to, and whether its owner may use it: *)
(* _proxy_request_core of routers/proxy.py up to the forwarding, and       *)
(* get_target_backend and check_owner_permissions of proxy_helpers.py.     *)
(*                                                                         *)
(* Servers, aliases and permissions are read one after the other, with     *)
(* awaits between; an admin may change them meanwhile.  The cache of the   *)
(* server list is ReadThroughCache's subject, what becomes of the request  *)
(* afterwards Failover's.                                                  *)
(***************************************************************************)
EXTENDS Integers, FiniteSets

CONSTANTS
  Server,       \* names of model servers
  Kind,         \* backend_type of each server
  Name,         \* model names: [prefix, base]; "vllm/m" has the prefix "vllm"
  Provider,     \* what a request may give as provider, "" for nothing
  HostSets,     \* the names a server may list
  PermitSets,   \* the names a permission row may allow
  Registered,   \* provider_registry: <<backend_type, name>>
  Aliases,      \* tables of aliases: alias -> [server, name]
  Loads,        \* requests in flight: server -> number
  Strategies    \* "static", "random", "least busy"

AnyName == [prefix |-> "", base |-> "*"]

ASSUME RoutingAssumption ==
  /\ "" \notin Server /\ \A b \in Server : Kind[b] # ""
  /\ UNION (HostSets \cup PermitSets) \subseteq Name \cup {AnyName}
  /\ Strategies \subseteq {"static", "random", "least busy"}
  /\ Loads \subseteq [Server -> Nat]

VARIABLES
  listed,       \* list_backends: the servers
  hosts,        \* the names each server lists
  alias,        \* ModelAlias
  permits,      \* the owner's permission rows: server -> the names allowed
  blocked,      \* servers whose allowed_endpoints leave this endpoint out
  load,         \* requests in flight on each server
  strategy,     \* the routing strategy in force
  req,          \* the request: [at, name, provider, server]
  changed       \* history: the configuration changed since it arrived

routingVars == <<listed, hosts, alias, permits, blocked, load, strategy, req, changed>>
config == <<listed, hosts, alias, permits, blocked, load, strategy>>

Bare(n) == [prefix |-> "", base |-> n.base]

-----------------------------------------------------------------------------
(* Names and providers.                                                    *)

\* resolve_provider_and_model
ResolvedProvider(n, provider) == IF provider # "" THEN provider ELSE n.prefix

ResolvedName(n, provider) ==
  IF provider = "" \/ n.prefix = provider THEN Bare(n) ELSE n

\* resolve_alias: the model a name stands for.
Unaliased(n) == IF n \in DOMAIN alias THEN alias[n].name ELSE n

Resolve ==
  /\ req.at = "asked"
  /\ LET name == Unaliased(req.name)
     IN  req' = [req EXCEPT !.at = "resolved", !.name = ResolvedName(name, req.provider),
                            !.provider = ResolvedProvider(name, req.provider)]
  /\ UNCHANGED <<config, changed>>

-----------------------------------------------------------------------------
(* get_target_backend.                                                     *)

\* The name as it stands, without the provider it may begin with, or any.
Lists(b, n, p) == {n, ResolvedName(n, p), AnyName} \cap hosts[b] # {}

OfProvider(p) == {b \in listed : b = p \/ Kind[b] = p}

\* The servers of the provider, and among them those the owner has a row for;
\* a filter that leaves nothing is skipped.
Pool(n, p) ==
  LET asked == OfProvider(ResolvedProvider(n, p))
      named == IF asked = {} THEN listed ELSE asked
      own == named \cap DOMAIN permits
  IN  IF own = {} THEN named ELSE own

Candidates(n, p) == {b \in Pool(n, p) : Lists(b, n, p)}

\* A server the registry knows for the name decides; then the resolved name is
\* looked for on every server before the one that was sent.  The table is read
\* in no order: the first of several may be any of them.
Static(n, p) ==
  LET known == {b \in Pool(n, p) : <<Kind[b], n>> \in Registered /\ Kind[b] = p /\ n \in hosts[b]}
      resolved == {b \in Pool(n, p) : {ResolvedName(n, p), AnyName} \cap hosts[b] # {}}
  IN  IF known # {} THEN known
      ELSE IF resolved # {} THEN resolved
      ELSE IF Candidates(n, p) # {} THEN Candidates(n, p)
      ELSE Pool(n, p)

\* Bug: the most loaded server is chosen.
LeastReversed(S) == {b \in S : \A c \in S : load[b] >= load[c]}

\* The score of servers of one weight and latency is the load.
Least(S) == {b \in S : \A c \in S : load[b] <= load[c]}

\* For a model nobody lists: a server of the kind that is asked for, or any.
LastResort(n, p) ==
  LET alike == {b \in Pool(n, p) : Kind[b] = p} IN IF alike = {} THEN Pool(n, p) ELSE alike

Dynamic(n, p) ==
  LET fits == Candidates(n, p)
  IN  IF fits = {} THEN LastResort(n, p) ELSE IF strategy = "random" THEN fits ELSE Least(fits)

Targets(n, p) == IF strategy = "static" THEN Static(n, p) ELSE Dynamic(n, p)

\* An alias of the name that is left is looked up once more; its server is
\* taken as it is.
Route ==
  /\ req.at = "resolved"
  /\ LET again == req.name \in DOMAIN alias
         name == Unaliased(req.name)
     IN  CASE listed = {} -> req' = [req EXCEPT !.at = "no server"]
           [] listed # {} /\ again /\ alias[req.name].server \in listed ->
                req' = [req EXCEPT !.at = "routed", !.server = alias[req.name].server]
           [] OTHER ->
                IF req.provider # "" /\ OfProvider(req.provider) = {} THEN req' = [req EXCEPT !.at = "no provider"]
                ELSE \E b \in Targets(name, req.provider) : req' = [req EXCEPT !.at = "routed", !.server = b]
  /\ UNCHANGED <<config, changed>>

-----------------------------------------------------------------------------
(* check_owner_permissions.                                                *)

Allowed(b, n) == b \in DOMAIN permits /\ {n, AnyName} \cap permits[b] # {}

Check ==
  /\ req.at = "routed"
  /\ req' = [req EXCEPT !.at = IF req.server \notin blocked /\ Allowed(req.server, req.name)
                                 THEN "forwarded" ELSE "refused"]
  /\ UNCHANGED <<config, changed>>

-----------------------------------------------------------------------------
(* Admins change the configuration (routers/owners.py, backends.py,        *)
(* aliases.py).                                                            *)

Without(f, k) == [x \in DOMAIN f \ {k} |-> f[x]]

ChangePermits ==
  /\ \/ \E b \in listed, P \in PermitSets : permits' = [c \in DOMAIN permits \cup {b} |-> IF c = b THEN P ELSE permits[c]]
     \/ \E b \in DOMAIN permits : permits' = Without(permits, b)
  /\ UNCHANGED <<listed, hosts, alias, blocked, load, strategy>>

\* sync_backend_models, and delete_backend, which a permission row or an alias
\* that names the server forbids.
ChangeServers ==
  /\ \/ \E b \in listed, H \in HostSets : hosts' = [hosts EXCEPT ![b] = H] /\ UNCHANGED listed
     \/ \E b \in listed :
          /\ b \notin DOMAIN permits /\ \A n \in DOMAIN alias : alias[n].server # b
          /\ listed' = listed \ {b}
          /\ UNCHANGED hosts
  /\ UNCHANGED <<alias, permits, blocked, load, strategy>>

\* register_backend; the name of a server that exists is refused.
RegisterServer ==
  /\ \E b \in Server \ listed, H \in HostSets : /\ listed' = listed \cup {b}
                                               /\ hosts' = [hosts EXCEPT ![b] = H]
  /\ UNCHANGED <<alias, permits, blocked, load, strategy>>

\* create_alias, of a server that exists, under a name that is free.
CreateAlias ==
  /\ \E T \in Aliases : \E n \in DOMAIN T \ DOMAIN alias :
       /\ T[n].server \in listed
       /\ alias' = [m \in DOMAIN alias \cup {n} |-> IF m = n THEN T[n] ELSE alias[m]]
  /\ UNCHANGED <<listed, hosts, permits, blocked, load, strategy>>

DeleteAlias ==
  /\ \E n \in DOMAIN alias : alias' = Without(alias, n)
  /\ UNCHANGED <<listed, hosts, permits, blocked, load, strategy>>

ChangeConfig ==
  /\ ~changed /\ changed' = TRUE
  /\ req.at \in {"asked", "resolved", "routed"}
  /\ ChangePermits \/ ChangeServers \/ RegisterServer \/ CreateAlias \/ DeleteAlias
  /\ UNCHANGED req

-----------------------------------------------------------------------------
RoutingInit ==
  /\ listed \in SUBSET Server
  /\ hosts \in {h \in [Server -> HostSets \cup {{}}] : \A b \in Server : h[b] = {} <=> b \notin listed}
  /\ alias \in {T \in Aliases : \A n \in DOMAIN T : T[n].server \in listed}
  /\ permits \in UNION {[S -> PermitSets] : S \in SUBSET listed}
  /\ blocked \in {{}} \cup {{b} : b \in Server}
  /\ strategy \in Strategies
  /\ load \in IF strategy = "least busy" THEN Loads ELSE {[b \in Server |-> 0]}
  /\ req \in [at : {"asked"}, name : Name, provider : Provider, server : {""}]
  /\ changed = FALSE

RoutingNext == Resolve \/ Route \/ Check \/ ChangeConfig

RoutingSpec == RoutingInit /\ [][RoutingNext]_routingVars

-----------------------------------------------------------------------------
\* What an owner expects to be served by: the servers it has a row for, that
\* list the model and are of the provider that is asked for.
Fitting(n, p) == {b \in DOMAIN permits \cap listed : Lists(b, n, p) /\ (p # "" => p \in {b, Kind[b]})}

(* If there are servers the owner has a row for, of the provider it names  *)
(* and with the model it names, as the rows are when it is routed, the     *)
(* request goes to one of them, and if load decides, to none that is       *)
(* busier than another (proxy_helpers.py:446-572).                         *)
RoutedToHost ==
  [][req.at = "resolved" /\ req'.at = "routed" /\ req.name \notin DOMAIN alias =>
       LET fits == Fitting(req.name, req.provider)
       IN  fits # {} => /\ req'.server \in fits
                        /\ strategy = "least busy" => \A b \in fits : load[req'.server] <= load[b]]_routingVars

(* An owner whose rows allow every model is refused no request that one of *)
(* its servers could serve, as long as nothing changes on the way and no   *)
(* endpoint is closed: what get_target_backend chooses is what             *)
(* check_owner_permissions lets through (proxy.py:636-640).                *)
ServedIfPermitted ==
  req.at = "refused" /\ ~changed /\ blocked = {} /\ req.name \notin DOMAIN alias =>
    \/ Fitting(req.name, req.provider) = {}
    \/ \E b \in DOMAIN permits : AnyName \notin permits[b]

(* A request goes where it can be served, and is not refused if it can be. *)
RoutedWell == RoutedToHost /\ []ServedIfPermitted
=============================================================================
