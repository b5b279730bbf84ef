------------------------------- MODULE MCAllToAll -------------------------------
(* A 3x3 torus with one expert per node.  Routers choose among few experts, so that some are asked for more *)
(* than their capacity; 18 tokens per source are divided evenly, 17 are refused.  With the last costs the    *)
(* log of the router of node 4 says nothing.                                                                *)
EXTENDS AllToAll
MCTokenCounts ==
  [k \in Kind |->
    IF k \in {"routed", "checkpoint", "tiles"} THEN {1, 3} ELSE {17, 18}]
MCRoutes == [n \in Node |-> IF n \in {0, 4} THEN {1, 4, 8} ELSE {8}]
Kernel == {<<"router", n>> : n \in Node} \cup {<<"expert", e>> : e \in Expert}
MCCosts ==
  {[k \in Kernel |-> 5], [k \in Kernel |-> IF k[1] = "router" THEN 1 + 3 * k[2] ELSE 2],
   [k \in Kernel |-> IF k[1] = "router" THEN 40 - 4 * k[2] ELSE 1 + (k[2] % 3)],
   [k \in Kernel |-> IF k = <<"router", 4>> THEN 0 ELSE 3]}
MCPhases == <<"dispatch", "return">>
===============================================================================
