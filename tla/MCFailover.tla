------------------------------ MODULE MCFailover ------------------------------
(* Small instances of Failover: one or two requests, a primary backend and  *)
(* two targets; the first target shares a URL with the primary.             *)
EXTENDS Failover, TLC

CONSTANTS r1, r2, u1, u2, primary, second, third

MCReq2 == {r1, r2}

\* A chain of two targets; two URLs, one of them shared.
MCPlace == {primary, second, third}
MCUrl == {u1, u2}
MCUrls == (primary :> <<u1, u2>>) @@ (second :> <<u1>>) @@ (third :> <<u2>>)
MCChain == <<second, third>>

\* One target, whose URL is the primary's first.
TwoPlaces == {primary, second}
TwoPlaceUrls == (primary :> <<u1, u2>>) @@ (second :> <<u1>>)
OneTarget == <<second>>

\* One backend of one URL, and no targets.
OnePlace == {primary}
OneUrl == {u1}
OneUrls == primary :> <<u1>>
NoTargets == <<>>

AllAnswers == Answer
Mixed == {"good", "500", "unreachable"}
Transport == {"good", "unreachable"}
=============================================================================
