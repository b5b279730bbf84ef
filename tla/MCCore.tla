-------------------------------- MODULE MCCore --------------------------------
(* A program for one core with the shapes the tile graph parser makes.           *)
(*   A: asynchronous load, barrier, matmul, store: the usual chain.              *)
(*   B: an inner loop: its barriers hang on the last of two outer loads only.    *)
(*   C: a second load of A's tag (the tag table of the parser is cleared between *)
(*      two outer loops), with a barrier of its own, and a vector COMP.          *)
(*   D: the empty tile that closes a loop.                                       *)
(*   X: a load that sparsity leaves out, so that its matmul takes no time.       *)
(*   S: a synchronous load, two COMPs that overlap, two children of one parent.  *)
EXTENDS CoreRefines

Row == [la |-> <<"MOVIN", "A", {"ba"}, "ga", TRUE, "VECTOR_UNIT", 0, 0, 2>>,
        ba |-> <<"BAR", "A", {"ca"}, "ga", FALSE, "VECTOR_UNIT", 0, 0, 0>>,
        ca |-> <<"COMP", "A", {"sa"}, "none", FALSE, "MATMUL", 1, 0, 0>>,
        sa |-> <<"MOVOUT", "A", {}, "none", FALSE, "VECTOR_UNIT", 0, 0, 1>>,
        l1 |-> <<"MOVIN", "B", {}, "g1", TRUE, "VECTOR_UNIT", 0, 0, 1>>,
        l2 |-> <<"MOVIN", "B", {"b1", "cb"}, "g2", TRUE, "VECTOR_UNIT", 0, 0, 1>>,
        b1 |-> <<"BAR", "B", {"cb", "cm"}, "g1", FALSE, "VECTOR_UNIT", 0, 0, 0>>,
        cb |-> <<"COMP", "B", {}, "none", FALSE, "PRELOAD", 1, 0, 0>>,
        cm |-> <<"COMP", "B", {}, "none", FALSE, "MATMUL", 1, 0, 0>>,
        lc |-> <<"MOVIN", "C", {"bc"}, "ga", TRUE, "VECTOR_UNIT", 0, 0, 2>>,
        bc |-> <<"BAR", "C", {"cc"}, "ga", FALSE, "VECTOR_UNIT", 0, 0, 0>>,
        cc |-> <<"COMP", "C", {}, "none", FALSE, "VECTOR_UNIT", 1, 0, 0>>,
        ls |-> <<"MOVIN", "S", {"c1", "c2"}, "gs", FALSE, "VECTOR_UNIT", 0, 0, 1>>,
        c1 |-> <<"COMP", "S", {}, "none", FALSE, "VECTOR_UNIT", 2, 1, 0>>,
        c2 |-> <<"COMP", "S", {"ss"}, "none", FALSE, "VECTOR_UNIT", 2, 2, 0>>,
        ss |-> <<"MOVOUT", "S", {}, "none", FALSE, "VECTOR_UNIT", 0, 0, 1>>,
        lx |-> <<"MOVIN", "X", {"bx"}, "gx", TRUE, "VECTOR_UNIT", 0, 0, 1>>,
        bx |-> <<"BAR", "X", {"cx"}, "gx", FALSE, "VECTOR_UNIT", 0, 0, 0>>,
        cx |-> <<"COMP", "X", {"dx"}, "none", FALSE, "MATMUL", 2, 0, 0>>,
        dx |-> <<"COMP", "X", {"sx"}, "none", FALSE, "VECTOR_UNIT", 1, 0, 0>>,
        sx |-> <<"MOVOUT", "X", {}, "none", FALSE, "VECTOR_UNIT", 0, 0, 1>>]

AllBodies == [A |-> <<"la", "ba", "ca", "sa">>, B |-> <<"l1", "l2", "b1", "cb", "cm">>,
              C |-> <<"lc", "bc", "cc">>, D |-> <<>>, S |-> <<"ls", "c1", "c2", "ss">>,
              X |-> <<"lx", "bx", "cx", "dx", "sx">>]

CONSTANT Casts        \* the sets of tiles that may meet on the core in this run
Together == \E cast \in Casts : arrived \subseteq cast
\* Three tiles, one taking the place of another: A, C, X with one tag twice, and A, D, S.
FlowCasts == {{"A", "C", "X"}, {"A", "B"}, {"B", "S"}, {"A", "D", "S"}}
LiveCasts == {{"A", "C", "D"}}

MCTile == UNION Casts
MCInst == {i \in DOMAIN Row : Row[i][2] \in MCTile}
MCTag == {"ga", "g1", "g2", "gs", "gx", "none"}
MCOp == [i \in MCInst |-> Row[i][1]]
MCBody == [t \in MCTile |-> AllBodies[t]]
MCOwner == [i \in MCInst |-> Row[i][2]]
MCKids == [i \in MCInst |-> Row[i][3]]
MCTagOf == [i \in MCInst |-> Row[i][4]]
MCAsync == [i \in MCInst |-> Row[i][5]]
MCSparse == [i \in MCInst |-> i = "lx"]
MCComputeType == [i \in MCInst |-> Row[i][6]]
MCCycles == [i \in MCInst |-> Row[i][7]]
MCOverlap == [i \in MCInst |-> Row[i][8]]
MCRequests == [i \in MCInst |-> Row[i][9]]

\* The program uses its tags as the theorems of CoreProofs expect.
ASSUME Disciplined == TagDiscipline /\ BarrierDiscipline
===============================================================================
