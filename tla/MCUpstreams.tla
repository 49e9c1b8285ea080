---------------------------- MODULE MCUpstreams ----------------------------
(* Who asks the upstreams, and that they are asked again.  A behaviour is   *)
(* about one subject: two requests over a primary and one target (see       *)
(* MCFailover), or the poller with two servers and a GPU host, one place,   *)
(* in the worst order: the slow server is first.  Both servers run on the   *)
(* host's machine and serve the model of its process.  Without servers      *)
(* there is nothing to poll.                                                *)
EXTENDS MCFailover, Poller

CONSTANTS slow, fast, gpu, machine, model, other

VARIABLE subject

MCServers == <<slow, fast>>
MCHosts == <<gpu>>
MCAddress == [n \in {slow, fast, gpu} |-> IF n = slow THEN None ELSE machine]
MCModels == [s \in {slow, fast} |-> {model, other}]
MCSeen == [h \in {gpu} |-> {[pid |-> 1, hint |-> model, used |-> 1, server |-> None]}]
MCPerModel == {fast}
MCSlow == {slow}
MCNorm(m) == m

MCInit ==
  /\ subject \in {"requests", "poller"}
  /\ Init
  /\ PollerInit(IF subject = "poller" THEN Target ELSE {})

MCNext ==
  \/ subject = "requests" /\ Next /\ UNCHANGED <<subject, pollerVars>>
  \/ subject = "poller" /\ PollerNext /\ UNCHANGED <<subject, vars>>

\* FairSpec of the one and Fairness of the other.
MCFairness ==
  /\ \A r \in Req : /\ WF_vars(subject = "requests" /\ Upstream(r))
                    /\ WF_vars(subject = "requests" /\ Handler(r))
  /\ WF_pollerVars(subject = "poller" /\ \E open \in SUBSET Breakable : Begin(open))
  /\ \A n \in Target \ Slow :
       WF_pollerVars(subject = "poller" /\ \E o \in Outcome(n) : Finish(n, o, 0))
  /\ WF_pollerVars(subject = "poller" /\ \E late \in {0, 1} : Deadline(late))
  /\ WF_pollerVars(subject = "poller" /\ End)

MCSpec == MCInit /\ [][MCNext]_<<subject, vars, pollerVars>> /\ MCFairness
=============================================================================
