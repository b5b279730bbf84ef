------------------------------ MODULE TileService ------------------------------
(***************************************************************************)
(* What a core promises to the rest of the simulator: it takes a tile when *)
(* Core::can_issue says so, holds it, finishes the tiles it holds in any   *)
(* order, one at a time, and gives each back once, in the order in which   *)
(* they finished (Core::pop_finished_tile).  Module Core is shown to       *)
(* implement this (CoreRefines), and module TileScheduler relies on it.    *)
(***************************************************************************)
EXTENDS Naturals, Sequences, FiniteSets

CONSTANTS
  Tile,
  Slots       \* the literal 4 in Core::can_issue

VARIABLES
  held,       \* Core::_tiles
  done,       \* Core::_finished_tiles
  returned    \* tiles given back

vars == <<held, done, returned>>

InDone == {done[n] : n \in 1..Len(done)}

Init == held = {} /\ done = <<>> /\ returned = {}

\* A tile comes once.
Accept(t) ==
  /\ t \notin held \cup InDone \cup returned
  /\ Cardinality(held) < Slots
  /\ held' = held \cup {t}
  /\ UNCHANGED <<done, returned>>

Finish(t) ==
  /\ t \in held
  /\ held' = held \ {t}
  /\ done' = Append(done, t)
  /\ UNCHANGED returned

GiveBack ==
  /\ done # <<>>
  /\ returned' = returned \cup {Head(done)}
  /\ done' = Tail(done)
  /\ UNCHANGED held

Next == (\E t \in Tile : Accept(t) \/ Finish(t)) \/ GiveBack

Spec == Init /\ [][Next]_vars
===============================================================================
