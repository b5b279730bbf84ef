------------------------------ MODULE MemService ------------------------------
(***************************************************************************)
(* What a core relies on when it sends memory requests (module Core,       *)
(* actions PopRequest, PushResponse and CacheCycle): each request taken    *)
(* from its queue is answered at most once and to the same core, in any    *)
(* order, and not before the caches have had a cycle of their own since it *)
(* was taken.  Module MemSystem is shown to implement this.                *)
(***************************************************************************)
EXTENDS Naturals

CONSTANTS
  Core, Req,
  CoreOf       \* [Req -> Core], mem_fetch::m_core_id

VARIABLES
  young,       \* taken since the last cache cycle ("net" in module Core)
  old,         \* taken before it, and not answered ("mem" in module Core)
  received     \* [Core -> SUBSET Req], responses given to a core

vars == <<young, old, received>>

Unseen(r) == r \notin young \cup old \cup UNION {received[c] : c \in Core}

Init == young = {} /\ old = {} /\ received = [c \in Core |-> {}]

\* One turn of the interconnect takes some requests and answers some others.
Turn(taken, answered) ==
  /\ \A r \in taken : Unseen(r)
  /\ answered \subseteq old
  /\ young' = young \cup taken
  /\ old' = old \ answered
  /\ received' = [c \in Core |-> received[c] \cup {r \in answered : CoreOf[r] = c}]

CacheCycle == young' = {} /\ old' = old \cup young /\ UNCHANGED received

Next == CacheCycle \/ \E taken, answered \in SUBSET Req : Turn(taken, answered)

Spec == Init /\ [][Next]_vars
===============================================================================
