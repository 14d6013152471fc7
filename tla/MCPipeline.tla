----------------------------- MODULE MCPipeline -----------------------------
(* Model values for Pipeline: two flows that share the balancer and have   *)
(* different fast paths.                                                   *)
EXTENDS Pipeline, TLC

CONSTANTS web, dns

TwoFlows == {web, dns}
Hashes   == web :> 0 @@ dns :> 1
Packets  == <<web, dns, web, web>>
OneFlow  == <<web>>

=============================================================================
