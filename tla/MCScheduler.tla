----------------------------- MODULE MCScheduler -----------------------------
(* A few cores and kernels with the shapes the parser makes of accumulation loops: *)
(*   J: one subgraph, a tile, its two iterations and the tile that joins them.   *)
(*   P: three subgraphs of one parallel loop, the second one bound to core 1.      *)
(*   Q: two subgraphs, of one and of two tiles.                                  *)
(*   L: a kernel that arrives late.   N: a null kernel.   X: a wrong partition.  *)
EXTENDS TileScheduler

CONSTANTS Used, NumParts, Lateness

Program == [J |-> <<"j">>, P |-> <<"p1", "p2", "p3">>, Q |-> <<"q1", "q2">>, L |-> <<"l1">>,
            N |-> <<>>, X |-> <<>>]
Bodies == [j |-> {"a", "b1", "b2", "c"}, p1 |-> {"d"}, p2 |-> {"e"}, p3 |-> {"f"},
           q1 |-> {"g"}, q2 |-> {"h", "i"}, l1 |-> {"m"}]
Edges == [a |-> {"b1", "b2", "c"}, b1 |-> {"c"}, b2 |-> {"c"}, h |-> {"i"}]

MCKernel == Used
MCSubsOf == [k \in Used |-> Program[k]]
MCSub == UNION {ToSet(Program[k]) : k \in Used}
MCTilesOf == [s \in MCSub |-> Bodies[s]]
MCTile == UNION {Bodies[s] : s \in MCSub}
MCChildren == [t \in MCTile |-> IF t \in DOMAIN Edges THEN Edges[t] ELSE {}]
MCBoundTo == [s \in MCSub |-> IF s = "p2" THEN 1 ELSE -1]
MCPartition == 0..(NumParts - 1)
MCCorePart == [c \in 1..NumCores |-> IF NumParts = 2 /\ c = NumCores THEN 1 ELSE 0]
MCKernelPart == [k \in Used |-> CASE k = "X" -> 7 [] k \in {"Q", "L"} -> NumParts - 1 [] OTHER -> 0]
MCTimestamp == [k \in Used |-> IF k = "L" THEN Lateness ELSE 0]

MixedScripts == {<<"J", "P", "Q">>, <<"P", "sync", "J">>, <<"Q", "sync", "P", "J", "sync">>,
                 <<"sync", "L", "X", "J", "sync", "Q">>, <<"N", "L", "Q", "sync", "X", "P">>}

\* The traces put a null kernel first only (see NullsLead).
ASSUME Disciplined == NullsLead
===============================================================================
