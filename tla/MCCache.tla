-------------------------------- MODULE MCCache --------------------------------
(* Three calls of one kernel and one of a kernel too large, by four processes:    *)
(* c1 launches it, c2 runs it in functional mode only, c3 measures a candidate,   *)
(* c4 overflows.                                                                  *)
EXTENDS CompileCache
CONSTANTS c1, c2, c3, c4, s1, s2
MCSourceOf == [c \in Call |-> IF c = c4 THEN s2 ELSE s1]
===============================================================================
