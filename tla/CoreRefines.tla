------------------------------ MODULE CoreRefines ------------------------------
(* Core, with all its instructions, DMA and tags, implements the service that the *)
(* rest of the simulator sees: TileService.                                       *)
EXTENDS Core

Held == {tiles[n] : n \in 1..Len(tiles)}

Service == INSTANCE TileService
             WITH Slots <- TileSlots, held <- Held, done <- finishedTiles

\* Whatever order the instructions of its tiles finish in, the core takes, finishes and gives
\* back tiles as TileService says: none is lost, finished twice or given back early
\* by Core::issue, the scan at the end of Core::cycle and Core::pop_finished_tile.
ServiceSpec == Service!Spec
===============================================================================
