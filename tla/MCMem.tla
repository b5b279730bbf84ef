-------------------------------- MODULE MCMem --------------------------------
(* Two cores, each with a transfer of two lines (module DmaAddress): a row that starts inside a line, and two   *)
(* rows that lie apart.  Three of the four requests go to one channel.                                         *)
EXTENDS MemTransfers

MCTransfers == [c \in Core |->
  IF c = 0 THEN [base |-> 64, rows |-> 1, columns |-> 8, rowStride |-> 0, columnStride |-> 1, bits |-> 16]
  ELSE [base |-> 512, rows |-> 2, columns |-> 4, rowStride |-> 16, columnStride |-> 1, bits |-> 32]]
MCPlan == [c \in Core |-> Fetches(c)]
MCReq == UNION {ToSet(MCPlan[c]) : c \in Core}
MCChannelOf == [r \in MCReq |-> IF r = MCPlan[1][2] THEN 1 ELSE 0]
===============================================================================
