--------------------------- MODULE MCControlPlane ---------------------------
(* Small instances of what the admin API keeps and the proxy goes by, and   *)
(* of what a request has to pass.  A behaviour is about one subject: the    *)
(* others keep their first state.                                           *)
EXTENDS Accounts, Pricing, Integrations, Routing, Admission, Federation

VARIABLE subject

mcVars == <<subject, sessionVars, accountVars, priceVars, integrationVars, routingVars, admissionVars, federationVars>>

User(r) == [role |-> r, super |-> FALSE, active |-> TRUE]
FewChanges == {[field |-> "role", value |-> "ADMIN"], [field |-> "role", value |-> "VIEWER"],
               [field |-> "active", value |-> FALSE]}

OneCatalog == [p \in {"gemini", "openai"} |->
                 IF p = "gemini" THEN [x \in {"m", "*"} |-> 1] ELSE [x \in {"d"} |-> 1]]
OneDefault == [x \in {"d"} |-> 4]
SetByHand == {<<"m", "google">>, <<"m", "gemini">>, <<"m", "*">>, <<"d", "vllm">>}

Plain(b) == [prefix |-> "", base |-> b]
Kinds == [b \in Server |-> IF b = "s1" THEN "vllm" ELSE "ollama"]
Names == {Plain("m"), [prefix |-> "vllm", base |-> "m"], [prefix |-> "Qwen", base |-> "m"]}
Hostings == {{Plain("m")}, {[prefix |-> "Qwen", base |-> "m"]}, {AnyName}}
Permissions == {{AnyName}, {Plain("m")}}
Registry == {<<"vllm", [prefix |-> "Qwen", base |-> "m"]>>}
OneOrOther == {{"m"}, {"n"}}
OneAlias == {<<>>, [n \in {Plain("m")} |-> [server |-> "s2", name |-> Plain("m")]]}
Either == {[b \in Server |-> IF b = "s1" THEN 1 ELSE 0], [b \in Server |-> IF b = "s1" THEN 0 ELSE 1]}

Owned == [holder : {"a", "b"}, max : KeyLimits]

\* Each key has the limits on that one question needs, and the others off.
Off == [kind |-> "inference", rpm |-> 0, tpm |-> 0, slots |-> 0, budget |-> 0]
MCLimits == {[Off EXCEPT !.rpm = 1], [Off EXCEPT !.tpm = 2, !.slots = 2],
             [Off EXCEPT !.budget = 2], [Off EXCEPT !.kind = "login"]}

\* Requests at rest are alike: the first of them is the next to arrive.
FirstArrives ==
  \A r \in Req : phase[r] = "idle" /\ phase'[r] # "idle" => \A q \in Req : q < r => phase[q] # "idle"

MCInit ==
  /\ subject \in {"people", "projects", "prices", "settings", "spans", "routes", "admission", "servers"}
  /\ SessionsInit(CASE subject = "settings" -> 1 [] subject = "servers" -> 2 [] OTHER -> 0)
  /\ CASE subject = "people" -> \E r \in {"ADMIN", "MANAGER"} :
            AccountsInit([u \in {"a", "b"} |-> IF u = "a" THEN User("ADMIN") ELSE User(r)], {NoProject})
       [] subject = "projects" ->
            AccountsInit([u \in {"a", "b"} |-> IF u = "a" THEN User("ADMIN") ELSE User("DEVELOPER")],
                         {NoProject} \cup Owned)
       [] OTHER -> AccountsInit([u \in {"a"} |-> User("ADMIN")], {NoProject})
  /\ PricingInit /\ (subject # "prices" => outdated /\ prices = <<>>)
  /\ IntegrationsInit
  /\ IF subject = "routes" THEN RoutingInit
     ELSE /\ listed = {} /\ hosts = <<>> /\ alias = <<>> /\ permits = <<>> /\ blocked = {}
          /\ load = <<>> /\ strategy = "static" /\ changed = FALSE
          /\ req = [at |-> "asked", name |-> AnyName, provider |-> "", server |-> ""]
  /\ AdmissionInit /\ (subject # "admission" => key = [Off EXCEPT !.kind = "login"])
  /\ FederationInit /\ (subject # "servers" => server = Gone)

\* Of requests about integrations that overlap nothing is promised: they come
\* one at a time, to two workers, or to one of which spans are exported.
Settings == SettingsNext({1}, Worker)
Exports == SettingsNext({1}, {"w1"}) \/ SpanNext({"w1"})

\* One process polls; a request comes to it or to another one.
Servers == LoopStep("w1") \/ ManagerStep(1) \/ NextMoment

MCNext ==
  \/ /\ subject \in {"people", "projects"}
     /\ (subject = "people" /\ PeopleNext) \/ (subject = "projects" /\ ProjectNext)
     /\ UNCHANGED <<subject, priceVars, integrationVars, routingVars, admissionVars, federationVars>>
  \/ /\ subject = "prices" /\ PricingNext
     /\ UNCHANGED <<subject, accountVars, integrationVars, routingVars, admissionVars, federationVars>>
  \/ /\ subject = "settings" /\ Settings
     /\ UNCHANGED <<subject, accountVars, priceVars, routingVars, admissionVars, federationVars>>
  \/ /\ subject = "spans" /\ Exports
     /\ UNCHANGED <<subject, accountVars, priceVars, routingVars, admissionVars, federationVars>>
  \/ /\ subject = "routes" /\ RoutingNext
     /\ UNCHANGED <<subject, sessionVars, accountVars, priceVars, integrationVars, admissionVars, federationVars>>
  \/ /\ subject = "admission" /\ AdmissionNext /\ FirstArrives
     /\ UNCHANGED <<subject, sessionVars, accountVars, priceVars, integrationVars, routingVars, federationVars>>
  \/ /\ subject = "servers" /\ Servers
     /\ UNCHANGED <<subject, accountVars, priceVars, integrationVars, routingVars, admissionVars>>

MCSpec == MCInit /\ [][MCNext]_mcVars
=============================================================================
