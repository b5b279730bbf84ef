----------------------------- MODULE MemTransfers -----------------------------
(***************************************************************************)
(* The memory system with the traffic of DMA transfers: each core has one  *)
(* transfer (module DmaAddress), makes a mem_fetch for each line of it     *)
(* (DMA::get_memory_access), and MemSystem brings the answers back.        *)
(***************************************************************************)
EXTENDS MemSystem, DmaAddress

CONSTANT Transfers      \* [Core -> Transfer]

\* A mem_fetch belongs to the instruction it is made for: two cores may ask for one line.
Fetches(c) == LET lines == RequestsOf(Transfers[c])
              IN [n \in DOMAIN lines |-> <<c, lines[n]>>]
LinesOf(fetches) == {f[2] : f \in fetches}

TransferAssumption ==
  /\ Transfers \in [Core -> Transfer]
  /\ \A c \in Core : Plan[c] = Fetches(c)
ASSUME TransfersPlanned == TransferAssumption

-------------------------------------------------------------------------------
(* A core asks for no line of a transfer twice and, if its elements are neighbours, for none that its rows do  *)
(* not need; when it has an answer for each request, which is when Core ends the instruction, the answers hold *)
(* what the tensor would hold if it lay Displacement bytes lower: every byte of every aligned element, none at *)
(* another distance.                                                                                           *)
TransfersWhole ==
  \A c \in Core :
    LET t == Transfers[c]
    IN /\ t.columnStride = 1 => made[c] <= MostRequests(t)
       /\ Len(received[c]) = Len(Plan[c]) /\ Aligned(t) =>
            Covered(t, LinesOf(ToSet(received[c])), Displacement(t))
===============================================================================
