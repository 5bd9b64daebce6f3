----------------------------- MODULE MCEgressPool -----------------------------
(* Three small worlds in one instance, each with one edit by the operator and  *)
(* one shutdown at any step: callers whose proxy is narrowed, one of them      *)
(* pinned to an unlisted "direct", while the pool is turned off; a pin to a    *)
(* configured proxy that gets disabled; and a rate that is lowered below what  *)
(* has been spent.                                                             *)
EXTENDS EgressPool, TLC

CONSTANTS c1, c2, c3, c4, p1, p2, direct, g1, g2, g3

MCCallers == {c1, c2, c3, c4}
MCManagement == {c3}
MCImpatient == {c1}
MCPinned == (c1 :> None @@ c2 :> None @@ c3 :> direct @@ c4 :> p1)
MCProxies == {p1, p2, direct}
MCGroups == {g1, g2, g3}
MCGatewayOf == [p \in MCProxies |-> g3]
MCCooldowns == {1}

Endpoint(g, p, on, rpm, max) ==
  [group |-> g, proxy |-> p, enabled |-> on, rpm |-> rpm, maxInflight |-> max]

\* One proxy for everybody, one request at a time; then the pool is off and
\* knows only another proxy.
Narrow == [enabled |-> TRUE, wait |-> 1, endpoints |-> <<Endpoint(g1, p1, TRUE, 2, 1)>>]
Off == [enabled |-> FALSE, wait |-> 1, endpoints |-> <<Endpoint(g2, p2, TRUE, 1, 1)>>]

\* Two proxies; then p1 is disabled and p2 has moved to its group, with a lower
\* rate and no wait.
Shared == [enabled |-> TRUE, wait |-> 1,
           endpoints |-> <<Endpoint(g1, p1, TRUE, 2, 1), Endpoint(g2, p2, TRUE, 1, 2)>>]
Moved == [enabled |-> TRUE, wait |-> 0,
          endpoints |-> <<Endpoint(g1, p1, FALSE, 1, 1), Endpoint(g1, p2, TRUE, 1, 1)>>]

\* Two requests at a time and in a minute; then one.
Wide == [enabled |-> TRUE, wait |-> 1, endpoints |-> <<Endpoint(g1, p1, TRUE, 2, 2)>>]
Lowered == [enabled |-> TRUE, wait |-> 1, endpoints |-> <<Endpoint(g1, p1, TRUE, 1, 1)>>]

MCConfigs == {Narrow, Off, Shared, Moved, Wide, Lowered}
MCFollowers ==
  [cfg \in MCConfigs |-> CASE cfg = Narrow -> {Off} [] cfg = Shared -> {Moved}
                           [] cfg = Wide -> {Lowered} [] OTHER -> {}]
MCStarts ==
  {[config |-> Narrow, callers |-> {c1, c2, c3}, now |-> 1],
   [config |-> Shared, callers |-> {c1, c4}, now |-> 1],
   [config |-> Wide, callers |-> {c1, c2}, now |-> 0]}

ASSUME GatewaysApart
=============================================================================
