---------------------------- MODULE SchedulerProofs ----------------------------
(***************************************************************************)
(* Proofs about module TileScheduler, for every number of cores, slots,    *)
(* partitions, kernels, subgraphs, tiles and every trace file.             *)
(*                                                                         *)
(* TileInv says where each tile is: waiting in its subgraph or handed to   *)
(* one core, with a counter that is the number of its parents not yet      *)
(* back.  GraphInv says where each subgraph is: left in its kernel, in one *)
(* slot, or done.  QueueInv says which kernels a queue holds, in the order *)
(* of their launches, and that only its head has been started.             *)
(***************************************************************************)
EXTENDS TileScheduler, QueueLemmas

(* Tiles *)

\* A tile of a subgraph is in its ready queue, in its tile set, or handed to a core.
TilesSomewhere ==
  /\ \A s \in Sub : ready[s] \cup blocked[s] \subseteq TilesOf[s] /\ ready[s] \cap blocked[s] = {}
  /\ \A s \in Sub : \A t \in TilesOf[s] : t \in Handed <=> t \notin ready[s] \cup blocked[s]
  /\ \A t \in Handed : \E s \in Sub : t \in TilesOf[s]

\* A tile handed to a core is at that core only, in one place, and once.
CoresApart ==
  /\ \A c \in Core : /\ held[c] \cap Elems(done[c]) = {} /\ Distinct(done[c])
                     /\ returned[c] \cap (held[c] \cup Elems(done[c])) = {}
  /\ \A c, d \in Core : HandedTo(c) \cap HandedTo(d) # {} => c = d

\* The counter of a tile is the number of its parents that are not back.
Counters ==
  /\ \A t \in Tile : parents[t] = Cardinality(ParentsOf(t) \ Back)
  /\ \A s \in Sub : \A t \in ready[s] : parents[t] = 0
  /\ \A t \in Handed : parents[t] = 0

TileInv == TypeOK /\ TilesSomewhere /\ CoresApart /\ Counters

-------------------------------------------------------------------------------
(* Subgraphs *)

Mine(k) == Elems(SubsOf[k])
Left(k) == Elems(unallocated[k])

\* A subgraph that has left its kernel is in one slot of a core it may run on, or done.
SubsPlaced ==
  \A k \in Kernel :
    /\ Left(k) \subseteq Mine(k) /\ Distinct(unallocated[k])
    /\ \A c \in Core, m \in Slot : assigned[k][c][m] # None =>
         /\ assigned[k][c][m] \in Mine(k) \ Left(k)
         /\ MayRun(assigned[k][c][m], c) /\ CorePart[c] = KernelPart[k]
    /\ \A c, d \in Core : \A m, n \in Slot :
         assigned[k][c][m] = assigned[k][d][n] /\ assigned[k][c][m] # None => c = d /\ m = n
    /\ \A s \in Mine(k) \ Left(k) :
         SubDone(s, ready) \/ \E c \in Core, m \in Slot : assigned[k][c][m] = s

\* A subgraph with a tile on a core has been allocated, and is bound to that core since.
SubsHome ==
  \A s \in Sub, c \in Core : TilesOf[s] \cap HandedTo(c) # {} =>
    /\ MayRun(s, c)
    /\ \A d \in Core : TilesOf[s] \cap HandedTo(d) # {} => d = c
    /\ \A k \in Kernel : s \notin Left(k)
    /\ \A k \in Kernel, d \in Core, m \in Slot : assigned[k][d][m] = s => d = c

GraphInv == SubsPlaced /\ SubsHome

-------------------------------------------------------------------------------
(* Kernels *)

Started(k) == unallocated[k] # SubsOf[k]

\* A queue holds launched kernels of its partition, once, and only its head has been started.
QueueOf(q, p) ==
  /\ Distinct(q)
  /\ \A j \in 1..Len(q) : /\ KernelPart[q[j]] = p /\ q[j] \in Launched
                          /\ j > 1 => ~Started(q[j])
QueuesRight ==
  /\ \A p \in Partition : QueueOf(queue[p], p)
  /\ \A k \in Kernel : Started(k) => k \in Accepted

\* What was launched behind a queued kernel is queued behind it.
Follows(q, p, top) ==
  \A m, n \in 1..top :
    /\ m < n /\ {script[m], script[n]} \subseteq Kernel
    /\ KernelPart[script[m]] = p /\ KernelPart[script[n]] = p
    => \A i \in 1..Len(q) : q[i] = script[m] => \E j \in (i + 1)..Len(q) : q[j] = script[n]
LaunchOrder == \A p \in Partition : Follows(queue[p], p, pos)

QueueInv == QueuesRight /\ LaunchOrder /\ NothingDropped

SchedInv == TileInv /\ GraphInv /\ QueueInv

\* A queue is not headed by a kernel that has nothing left to issue, and holds no null kernel.
BusyQueue(q) ==
  \A j \in 1..Len(q) : SubsOf[q[j]] # <<>> /\ (j = 1 => ~GraphFinished(q[j], ready))
HeadsBusy == \A p \in Partition : BusyQueue(queue[p])

-------------------------------------------------------------------------------
(* Types *)

\* What ToSet of the community modules says of a queue, in the words of QueueLemmas.
LEMMA ToSetElems ==
  ASSUME NEW S, NEW q \in Seq(S)
  PROVE  ToSet(q) = Elems(q)
BY DEF ToSet, Elems

\* A queue of kernels stays one when its finished front graph is dropped.
LEMMA RefreshType ==
  ASSUME NEW q \in Seq(Kernel), NEW r
  PROVE  Refresh(q, r) \in Seq(Kernel)
<1>1. q # <<>> => Tail(q) \in Seq(Kernel)
  BY HeadTailProperties
<1>2. QED
  BY <1>1 DEF Refresh

\* The loop variables stay in their ranges, over the cores and over the slots.
LEMMA LoopType ==
  ASSUME ConfigAssumption, slot \in Slot, core \in Core,
         step \in {"begin", "issue", "back", "core"}, now \in 0..Horizon, Horizon \in Nat
  PROVE  /\ NextCore \/ NextSlot => slot' \in Slot /\ core' \in Core
                                    /\ step' \in {"begin", "issue", "back", "core"}
         /\ EndCore => core' \in Core /\ now' \in 0..Horizon
                       /\ step' \in {"begin", "issue", "back", "core"}
<1>1. NumCores \in Nat \ {0} /\ NumSlots \in Nat \ {0}
  BY DEF ConfigAssumption
<1>2. NextSlot => slot' \in Slot /\ core' \in Core /\ step' \in {"begin", "issue", "back", "core"}
  BY <1>1 DEF NextSlot, MoreSlots, Slot, Core
<1>3. NextCore => slot' \in Slot /\ core' \in Core /\ step' \in {"begin", "issue", "back", "core"}
  BY <1>1, <1>2 DEF NextCore, Slot, Core
<1>4. EndCore => core' \in Core /\ now' \in 0..Horizon
                 /\ step' \in {"begin", "issue", "back", "core"}
  BY <1>1 DEF EndCore, Core
<1>5. QED
  BY <1>2, <1>3, <1>4

\* A kernel visited by a slot is a kernel, and what the slot holds of it is a subgraph.
LEMMA HereType ==
  ASSUME TypeOK, ConfigAssumption, NEW c \in Core, HasKernel(c)
  PROVE  /\ CorePart[c] \in Partition /\ queue[CorePart[c]] \in Seq(Kernel)
         /\ queue[CorePart[c]] # <<>> /\ KernelFor(c) = queue[CorePart[c]][1]
         /\ KernelFor(c) \in Kernel /\ slot \in Slot
         /\ Here(c) \in Sub \cup {None} /\ (~NeedsSub(c) => Here(c) \in Sub)
<1>1. CorePart[c] \in Partition
  BY DEF ConfigAssumption
<1>2. queue[CorePart[c]] \in Seq(Kernel) /\ slot \in Slot
  BY <1>1 DEF TypeOK
<1>3. queue[CorePart[c]] # <<>>
  BY DEF HasKernel
<1>4. KernelFor(c) = queue[CorePart[c]][1] /\ KernelFor(c) \in Kernel
  BY <1>2, <1>3, HeadTailProperties, ElementOfSeq, EmptySeq, LenProperties DEF KernelFor
<1>5. Here(c) \in Sub \cup {None}
  BY <1>2, <1>4 DEF TypeOK, Here, Location
<1>6. QED
  BY <1>1, <1>2, <1>3, <1>4, <1>5 DEF NeedsSub

\* Initially everything has its type.
LEMMA TypeInit ==
  ASSUME ConfigAssumption, KernelAssumption, ScriptAssumption, Init
  PROVE  TypeOK
<1>1. script \in Scripts /\ Len(script) \in Nat
  BY LenProperties DEF Init, ScriptAssumption
<1>2. parents \in [Tile -> Nat]
  <2>1. \A t \in Tile : Cardinality(ParentsOf(t)) \in Nat
    BY FS_Subset, FS_CardinalityType DEF ParentsOf, KernelAssumption
  <2>2. QED
    BY <2>1 DEF Init
<1>3. queue \in [Partition -> Seq(Kernel)] /\ done \in [Core -> Seq(Tile)]
  BY EmptySeq DEF Init
<1>4. unallocated \in [Kernel -> Seq(Sub)]
  BY DEF Init, KernelAssumption
<1>5. ready \in [Sub -> SUBSET Tile] /\ blocked \in [Sub -> SUBSET Tile]
  BY DEF Init, KernelAssumption
<1>6. assigned \in [Kernel -> [Core -> [Slot -> Location]]]
  BY DEF Init, Location
<1>7. slot \in Slot /\ core \in Core /\ now \in 0..Horizon /\ pos \in 0..Len(script)
  BY <1>1 DEF Init, Slot, Core, ConfigAssumption, KernelAssumption
<1>8. QED
  BY <1>1, <1>2, <1>3, <1>4, <1>5, <1>6, <1>7 DEF Init, TypeOK

\* Every step keeps the types; that no counter goes below zero needs more than types.
LEMMA TypeStep ==
  ASSUME ConfigAssumption, KernelAssumption, ScriptAssumption, TypeOK, [Next]_vars,
         parents' \in [Tile -> Nat]
  PROVE  TypeOK'
<1>0. /\ script \in Scripts /\ script \in Seq(Kernel \cup {Sync}) /\ Len(script) \in Nat
      /\ pos \in 0..Len(script) /\ Horizon \in Nat
      /\ slot \in Slot /\ core \in Core /\ step \in {"begin", "issue", "back", "core"}
      /\ now \in 0..Horizon
  BY LenProperties DEF TypeOK, ScriptAssumption, KernelAssumption
<1>1. ASSUME NEW k \in Kernel, Launch(k) PROVE TypeOK'
  <2>1. queue' \in [Partition -> Seq(Kernel)]
    <3>1. CASE KernelPart[k] \in Partition
      <4>1. queue[KernelPart[k]] \in Seq(Kernel)
        BY <3>1 DEF TypeOK
      <4>2. Refresh(Append(queue[KernelPart[k]], k), ready) \in Seq(Kernel)
        BY <4>1, RefreshType, AppendProperties
      <4>3. QED
        BY <1>1, <3>1, <4>2 DEF Launch, TypeOK
    <3>2. CASE KernelPart[k] \notin Partition
      BY <1>1, <3>2 DEF Launch, TypeOK
    <3>3. QED
      BY <3>1, <3>2
  <2>2. pos' \in 0..Len(script) /\ script' = script
    BY <1>0, <1>1 DEF Launch
  <2>3. QED
    BY <1>1, <2>1, <2>2 DEF Launch, TypeOK, loopVars, tileVars, coreVars
<1>2. CASE DeviceSync \/ EndOfTrace
  <2>1. pos' \in 0..Len(script) /\ script' = script
    BY <1>0, <1>2 DEF DeviceSync, EndOfTrace
  <2>2. mode' = "cycling" /\ last' \in BOOLEAN
    BY <1>2 DEF DeviceSync, EndOfTrace, TypeOK
  <2>3. UNCHANGED <<loopVars, graphVars, tileVars, coreVars>>
    BY <1>2 DEF DeviceSync, EndOfTrace
  <2>4. QED
    BY <2>1, <2>2, <2>3 DEF TypeOK, loopVars, graphVars, tileVars, coreVars
<1>3. CASE StartCycle \/ Stop
  <2>1. 1 \in Slot /\ 1 \in Core
    BY DEF ConfigAssumption, Slot, Core
  <2>2. QED
    BY <1>3, <2>1 DEF StartCycle, Stop, TypeOK, traceVars, loopVars, graphVars, tileVars, coreVars
<1>4. ASSUME NEW c \in Core, Pass(c) PROVE TypeOK'
  <2>1. slot' \in Slot /\ core' \in Core /\ step' \in {"begin", "issue", "back", "core"}
    BY <1>0, <1>4, LoopType DEF Pass
  <2>2. QED
    BY <1>4, <2>1 DEF Pass, TypeOK, traceVars, graphVars, tileVars, coreVars
<1>5. ASSUME NEW c \in Core, Allocate(c) PROVE TypeOK'
  <2>1. slot' \in Slot /\ core' \in Core /\ step' \in {"begin", "issue", "back", "core"}
    BY <1>0, <1>5, LoopType DEF Allocate
  <2> DEFINE k == KernelFor(c)
             fits == {n \in 1..Len(unallocated[k]) : MayRun(unallocated[k][n], c)}
  <2>2. k \in Kernel /\ unallocated[k] \in Seq(Sub) /\ slot \in Slot
    BY <1>5, HereType DEF Allocate, TypeOK
  <2>3. CASE fits = {}
    <3>1. assigned' = [assigned EXCEPT ![k][c][slot] = None] /\ unallocated' = unallocated
      BY <1>5, <2>3 DEF Allocate
    <3>2. assigned' \in [Kernel -> [Core -> [Slot -> Location]]]
      BY <2>2, <3>1 DEF TypeOK, Location
    <3>3. QED
      BY <1>5, <2>1, <3>1, <3>2 DEF Allocate, TypeOK, traceVars, tileVars, coreVars
  <2>4. CASE fits # {}
    <3>1. PICK n \in fits : /\ assigned' = [assigned EXCEPT ![k][c][slot] = unallocated[k][n]]
                            /\ unallocated' = [unallocated EXCEPT ![k] = Without(@, n)]
      BY <1>5, <2>4 DEF Allocate
    <3>2. n \in 1..Len(unallocated[k])
      OBVIOUS
    <3>3. unallocated[k][n] \in Sub
      BY <2>2, <3>2, ElementOfSeq
    <3>4. assigned' \in [Kernel -> [Core -> [Slot -> Location]]]
      BY <2>2, <3>1, <3>3 DEF TypeOK, Location
    <3>5. Without(unallocated[k], n) \in Seq(Sub)
      BY <2>2, <3>2, ElemsErased DEF Without, RemoveAt, Erased
    <3>6. unallocated' \in [Kernel -> Seq(Sub)]
      BY <2>2, <3>1, <3>5 DEF TypeOK
    <3>7. QED
      BY <1>5, <2>1, <3>4, <3>6 DEF Allocate, TypeOK, traceVars, tileVars, coreVars
  <2>5. QED
    BY <2>3, <2>4
<1>6. ASSUME NEW c \in Core, NEW t \in Tile, Issue(c, t) PROVE TypeOK'
  <2>1. slot' \in Slot /\ core' \in Core /\ step' \in {"begin", "issue", "back", "core"}
    BY <1>0, <1>6, LoopType DEF Issue
  <2>2. CorePart[c] \in Partition /\ queue[CorePart[c]] \in Seq(Kernel) /\ Here(c) \in Sub
    BY <1>6, HereType DEF Issue
  <2>3. ready' \in [Sub -> SUBSET Tile] /\ held' \in [Core -> SUBSET Tile]
    BY <1>6, <2>2 DEF Issue, TypeOK
  <2>4. queue' \in [Partition -> Seq(Kernel)]
    <3>1. Refresh(queue[CorePart[c]], ready') \in Seq(Kernel)
      BY <2>2, RefreshType
    <3>2. QED
      BY <1>6, <2>2, <3>1 DEF Issue, TypeOK
  <2>5. QED
    BY <1>6, <2>1, <2>3, <2>4 DEF Issue, TypeOK, traceVars
<1>7. ASSUME NEW c \in Core, GiveBack(c) PROVE TypeOK'
  <2>1. CASE done[c] = <<>>
    BY <1>7, <2>1 DEF GiveBack, TypeOK, traceVars, graphVars, tileVars
  <2>2. CASE done[c] # <<>>
    <3>1. done[c] \in Seq(Tile) /\ Head(done[c]) \in Tile /\ Tail(done[c]) \in Seq(Tile)
      BY <2>2, HeadTailProperties DEF TypeOK
    <3>2. ReadyChildren(Head(done[c])) \subseteq Tile
      BY <3>1 DEF ReadyChildren, KernelAssumption
    <3>3. /\ done' = [done EXCEPT ![c] = Tail(@)]
          /\ returned' = [returned EXCEPT ![c] = @ \cup {Head(done[c])}]
          /\ ready' = [s \in Sub |-> IF Head(done[c]) \in TilesOf[s]
                                     THEN ready[s] \cup ReadyChildren(Head(done[c])) ELSE ready[s]]
          /\ blocked' = [s \in Sub |-> blocked[s] \ ReadyChildren(Head(done[c]))]
      BY <1>7, <2>2 DEF GiveBack
    <3>4. ready' \in [Sub -> SUBSET Tile] /\ blocked' \in [Sub -> SUBSET Tile]
      BY <3>2, <3>3 DEF TypeOK
    <3>5. done' \in [Core -> Seq(Tile)] /\ returned' \in [Core -> SUBSET Tile]
      BY <3>1, <3>3 DEF TypeOK
    <3>6. QED
      BY <1>7, <3>4, <3>5 DEF GiveBack, TypeOK, traceVars, graphVars
  <2>3. QED
    BY <2>1, <2>2
<1>8. ASSUME NEW c \in Core, Finish(c) \/ Work(c) PROVE TypeOK'
  <2>1. core' \in Core /\ now' \in 0..Horizon /\ step' \in {"begin", "issue", "back", "core"}
    BY <1>0, <1>8, LoopType DEF Finish, Work
  <2>2. done' \in [Core -> Seq(Tile)] /\ held' \in [Core -> SUBSET Tile]
    <3>1. CASE Finish(c)
      <4>1. PICK t \in held[c] : /\ held' = [held EXCEPT ![c] = @ \ {t}]
                                 /\ done' = [done EXCEPT ![c] = Append(@, t)]
        BY <3>1 DEF Finish
      <4>2. t \in Tile /\ done[c] \in Seq(Tile)
        BY <4>1 DEF TypeOK
      <4>3. Append(done[c], t) \in Seq(Tile)
        BY <4>2, AppendProperties
      <4>4. QED
        BY <4>1, <4>3 DEF TypeOK
    <3>2. CASE Work(c)
      BY <3>2 DEF Work, coreVars, TypeOK
    <3>3. QED
      BY <1>8, <3>1, <3>2
  <2>3. QED
    BY <1>8, <2>1, <2>2 DEF Finish, Work, TypeOK, traceVars, graphVars, tileVars, coreVars
<1>9. CASE UNCHANGED vars
  BY <1>9 DEF TypeOK, vars, traceVars, loopVars, graphVars, tileVars, coreVars
<1>10. QED
  BY <1>1, <1>2, <1>3, <1>4, <1>5, <1>6, <1>7, <1>8, <1>9 DEF Next, Read, Visit, Cycle, Over

-------------------------------------------------------------------------------
(* Where the tiles are *)

\* The tiles a core has been handed, as three places.
LEMMA HandedPlaces ==
  ASSUME TypeOK, NEW c \in Core
  PROVE  HandedTo(c) = held[c] \cup Elems(done[c]) \cup returned[c]
BY ToSetElems DEF TypeOK, HandedTo

\* When nothing is done to tiles, everything said of them stays.
LEMMA TilesUntouched ==
  ASSUME UNCHANGED <<tileVars, coreVars>>
  PROVE  /\ TilesSomewhere => TilesSomewhere'
         /\ CoresApart => CoresApart'
         /\ Counters => Counters'
         /\ Handed' = Handed /\ \A c \in Core : HandedTo(c)' = HandedTo(c)
<1>1. /\ ready' = ready /\ blocked' = blocked /\ parents' = parents
      /\ held' = held /\ done' = done /\ returned' = returned
  BY DEF tileVars, coreVars
<1>2. QED
  BY <1>1 DEF TilesSomewhere, CoresApart, Counters, Handed, HandedTo, Back

\* Initially every tile waits in its subgraph, with all its parents before it.
LEMMA TileInitial ==
  ASSUME ConfigAssumption, KernelAssumption, ScriptAssumption, Init
  PROVE  TileInv
<1>1. TypeOK
  BY TypeInit
<1>2. \A c \in Core : HandedTo(c) = {} /\ returned[c] = {} /\ held[c] = {} /\ done[c] = <<>>
  BY ToSetElems, ElemsEmpty, EmptySeq DEF Init, HandedTo
<1>3. Handed = {} /\ Back = {}
  BY <1>2 DEF Handed, Back
<1>4. TilesSomewhere
  BY <1>3 DEF TilesSomewhere, Init
<1>5. CoresApart
  BY <1>2, ElemsEmpty, EmptySeq DEF CoresApart
<1>6. Counters
  <2>1. \A t \in Tile : ParentsOf(t) \ Back = ParentsOf(t)
    BY <1>3
  <2>2. \A t \in Tile : parents[t] = Cardinality(ParentsOf(t) \ Back)
    BY <2>1 DEF Init
  <2>3. \A s \in Sub : \A t \in ready[s] : parents[t] = 0
    BY DEF Init
  <2>4. QED
    BY <1>3, <2>2, <2>3 DEF Counters
<1>7. QED
  BY <1>1, <1>4, <1>5, <1>6 DEF TileInv

\* A tile that is issued leaves its subgraph for a core that has never had it.
LEMMA IssueMoves ==
  ASSUME ConfigAssumption, KernelAssumption, TypeOK, TypeOK', TilesSomewhere,
         NEW c \in Core, NEW t \in Tile, Issue(c, t)
  PROVE  /\ Here(c) \in Sub /\ t \in TilesOf[Here(c)] /\ t \in ready[Here(c)] /\ t \notin Handed
         /\ HandedTo(c)' = HandedTo(c) \cup {t} /\ Handed' = Handed \cup {t} /\ Back' = Back
         /\ \A d \in Core \ {c} : HandedTo(d)' = HandedTo(d)
         /\ held'[c] = held[c] \cup {t} /\ \A d \in Core \ {c} : held'[d] = held[d]
         /\ done' = done /\ returned' = returned /\ parents' = parents /\ blocked' = blocked
         /\ \A s \in Sub : ready'[s] = IF s = Here(c) THEN ready[s] \ {t} ELSE ready[s]
<1>1. Here(c) \in Sub /\ t \in ready[Here(c)]
  BY HereType DEF Issue
<1>2. t \in TilesOf[Here(c)] /\ t \notin Handed
  BY <1>1 DEF TilesSomewhere
<1>3. /\ held'[c] = held[c] \cup {t} /\ \A d \in Core \ {c} : held'[d] = held[d]
      /\ done' = done /\ returned' = returned /\ parents' = parents /\ blocked' = blocked
  BY DEF Issue, TypeOK
<1>4. \A s \in Sub : ready'[s] = IF s = Here(c) THEN ready[s] \ {t} ELSE ready[s]
  BY <1>1 DEF Issue, TypeOK
<1>5. HandedTo(c)' = HandedTo(c) \cup {t} /\ \A d \in Core \ {c} : HandedTo(d)' = HandedTo(d)
  BY <1>3 DEF HandedTo
<1>6. Handed' = Handed \cup {t}
  BY <1>5 DEF Handed
<1>7. Back' = Back
  BY <1>3 DEF Back
<1>8. QED
  BY <1>1, <1>2, <1>3, <1>4, <1>5, <1>6, <1>7

\* A finished tile stays with its core.
LEMMA FinishMoves ==
  ASSUME TypeOK, TypeOK', CoresApart, NEW c \in Core, Finish(c)
  PROVE  /\ \A d \in Core : HandedTo(d)' = HandedTo(d)
         /\ Handed' = Handed /\ Back' = Back /\ CoresApart'
         /\ \E t \in held[c] : held'[c] = held[c] \ {t} /\ done'[c] = Append(done[c], t)
         /\ \A d \in Core \ {c} : held'[d] = held[d] /\ done'[d] = done[d]
         /\ returned' = returned /\ UNCHANGED tileVars
<1>1. PICK t \in held[c] : held' = [held EXCEPT ![c] = @ \ {t}] /\ done' = [done EXCEPT ![c] = Append(@, t)]
  BY DEF Finish
<1>2. /\ held'[c] = held[c] \ {t} /\ done'[c] = Append(done[c], t)
      /\ \A d \in Core \ {c} : held'[d] = held[d] /\ done'[d] = done[d]
      /\ returned' = returned
  BY <1>1 DEF TypeOK, Finish
<1>3. t \in Tile /\ done[c] \in Seq(Tile)
  BY DEF TypeOK
<1>4. Elems(done'[c]) = Elems(done[c]) \cup {t}
  BY <1>2, <1>3, ElemsAppend
<1>5. HandedTo(c)' = held'[c] \cup Elems(done'[c]) \cup returned'[c]
  BY ToSetElems DEF TypeOK, HandedTo
<1>6. HandedTo(c)' = HandedTo(c)
  BY <1>2, <1>4, <1>5, HandedPlaces
<1>7. \A d \in Core : HandedTo(d)' = HandedTo(d)
  BY <1>2, <1>6 DEF HandedTo
<1>8. Handed' = Handed /\ Back' = Back
  BY <1>2, <1>7 DEF Handed, Back
<1>9. CoresApart'
  <2>1. Distinct(done'[c])
    BY <1>2, <1>3, ElemsAppend DEF CoresApart
  <2>2. held'[c] \cap Elems(done'[c]) = {}
    BY <1>2, <1>4 DEF CoresApart
  <2>3. returned'[c] \cap (held'[c] \cup Elems(done'[c])) = {}
    BY <1>2, <1>4 DEF CoresApart
  <2>4. QED
    BY <1>2, <1>7, <2>1, <2>2, <2>3 DEF CoresApart
<1>10. UNCHANGED tileVars
  BY DEF Finish
<1>11. QED
  BY <1>2, <1>7, <1>8, <1>9, <1>10

\* A tile that is given back counts down its children; those that waited for it alone
\* become ready, in the same subgraph.
LEMMA GiveBackMoves ==
  ASSUME ConfigAssumption, KernelAssumption, TileInv, NEW c \in Core, GiveBack(c), done[c] # <<>>
  PROVE  /\ \A d \in Core : HandedTo(d)' = HandedTo(d)
         /\ Handed' = Handed /\ CoresApart'
         /\ parents' \in [Tile -> Nat] /\ Counters'
         /\ \A s \in Sub : /\ ready'[s] \cup blocked'[s] = ready[s] \cup blocked[s]
                           /\ ready'[s] \cap blocked'[s] = {}
         /\ held' = held /\ done'[c] = Tail(done[c]) /\ returned'[c] = returned[c] \cup {Head(done[c])}
         /\ \A d \in Core \ {c} : done'[d] = done[d] /\ returned'[d] = returned[d]
<1> DEFINE t == Head(done[c])
           R == ReadyChildren(t)
<1>0. TypeOK /\ TilesSomewhere /\ CoresApart /\ Counters
  BY DEF TileInv
<1>1. /\ done[c] \in Seq(Tile) /\ t = done[c][1] /\ t \in Tile /\ Tail(done[c]) \in Seq(Tile)
      /\ t \in Elems(done[c])
  BY <1>0, HeadTailProperties, ElemsEmpty DEF TypeOK
<1>2. /\ done' = [done EXCEPT ![c] = Tail(@)] /\ returned' = [returned EXCEPT ![c] = @ \cup {t}]
      /\ parents' = [u \in Tile |-> IF u \in Children[t] THEN parents[u] - 1 ELSE parents[u]]
      /\ ready' = [s \in Sub |-> IF t \in TilesOf[s] THEN ready[s] \cup R ELSE ready[s]]
      /\ blocked' = [s \in Sub |-> blocked[s] \ R] /\ held' = held
  BY DEF GiveBack
<1>3. /\ done'[c] = Tail(done[c]) /\ returned'[c] = returned[c] \cup {t} /\ held'[c] = held[c]
      /\ \A d \in Core \ {c} : done'[d] = done[d] /\ returned'[d] = returned[d]
  BY <1>0, <1>2 DEF TypeOK
<1>4. /\ Elems(done[c]) = Elems(done'[c]) \cup {t}
      /\ Distinct(done'[c]) /\ t \notin Elems(done'[c])
  BY <1>0, <1>1, <1>3, ElemsTail DEF CoresApart
<1>5. HandedTo(c)' = HandedTo(c)
  <2>1. HandedTo(c)' = held[c] \cup Elems(done'[c]) \cup returned'[c]
    BY <1>1, <1>3, ToSetElems DEF HandedTo
  <2>2. QED
    BY <1>0, <1>3, <1>4, <2>1, HandedPlaces
<1>6. \A d \in Core : HandedTo(d)' = HandedTo(d)
  BY <1>2, <1>3, <1>5 DEF HandedTo
<1>7. Handed' = Handed
  BY <1>6 DEF Handed
<1>8. CoresApart'
  <2>1. /\ held'[c] \cap Elems(done'[c]) = {} /\ Distinct(done'[c])
        /\ returned'[c] \cap (held'[c] \cup Elems(done'[c])) = {}
    BY <1>0, <1>3, <1>4 DEF CoresApart
  <2>2. \A d \in Core \ {c} : held'[d] = held[d] /\ done'[d] = done[d] /\ returned'[d] = returned[d]
    BY <1>2, <1>3
  <2>3. QED
    BY <1>0, <1>6, <2>1, <2>2 DEF CoresApart
<1>9. t \in HandedTo(c) /\ t \in Handed /\ Back' = Back \cup {t}
  BY <1>0, <1>1, <1>3, HandedPlaces DEF Handed, Back
<1>10. t \notin Back
  <2>1. ASSUME NEW d \in Core, t \in returned[d] PROVE FALSE
    <3>1. t \in HandedTo(d)
      BY <1>0, <2>1, HandedPlaces
    <3>2. d = c
      BY <1>0, <1>9, <3>1 DEF CoresApart
    <3>3. QED
      BY <1>0, <1>1, <2>1, <3>2 DEF CoresApart
  <2>2. QED
    BY <2>1 DEF Back
<1>11. ASSUME NEW u \in Tile
       PROVE  /\ parents'[u] = Cardinality(ParentsOf(u) \ Back') /\ parents'[u] \in Nat
              /\ u \in Children[t] => parents[u] > 0
  <2>1. IsFiniteSet(ParentsOf(u) \ Back) /\ parents[u] = Cardinality(ParentsOf(u) \ Back)
    BY <1>0, FS_Subset DEF ParentsOf, KernelAssumption, Counters
  <2>2. ParentsOf(u) \ Back' = (ParentsOf(u) \ Back) \ {t}
    BY <1>9
  <2>3. u \in Children[t] <=> t \in ParentsOf(u) \ Back
    BY <1>1, <1>10 DEF ParentsOf
  <2>4. Cardinality((ParentsOf(u) \ Back) \ {t}) = IF t \in ParentsOf(u) \ Back
                                                   THEN parents[u] - 1 ELSE parents[u]
    BY <2>1, FS_RemoveElement
  <2>5. IsFiniteSet(ParentsOf(u) \ Back') /\ Cardinality(ParentsOf(u) \ Back') \in Nat
    BY <2>1, <2>2, FS_RemoveElement, FS_CardinalityType
  <2>6. parents'[u] = Cardinality(ParentsOf(u) \ Back')
    BY <1>2, <2>2, <2>3, <2>4
  <2>7. u \in Children[t] => parents[u] > 0
    BY <2>1, <2>3, FS_EmptySet, FS_CardinalityType, SMTT(30)
  <2>8. QED
    BY <2>5, <2>6, <2>7
<1>12. parents' \in [Tile -> Nat]
  BY <1>2, <1>11
<1>13. ASSUME NEW u \in R PROVE u \in Tile /\ parents[u] = 1 /\ parents'[u] = 0 /\ u \notin Handed
  <2>1. u \in Tile /\ parents[u] = 1 /\ u \in Children[t]
    BY <1>1 DEF ReadyChildren, KernelAssumption
  <2>2. QED
    BY <1>0, <1>2, <2>1 DEF Counters
<1>14. PICK h \in Sub : t \in TilesOf[h]
  BY <1>0, <1>9 DEF TilesSomewhere
<1>15. R \subseteq TilesOf[h] /\ R \subseteq ready[h] \cup blocked[h]
       /\ \A s \in Sub \ {h} : t \notin TilesOf[s] /\ R \cap TilesOf[s] = {}
  <2>1. R \subseteq TilesOf[h]
    BY <1>14 DEF ReadyChildren, KernelAssumption
  <2>2. \A s \in Sub \ {h} : TilesOf[s] \cap TilesOf[h] = {}
    BY DEF KernelAssumption
  <2>3. QED
    BY <1>0, <1>13, <1>14, <2>1, <2>2 DEF TilesSomewhere
<1>16. ASSUME NEW s \in Sub
       PROVE  /\ ready'[s] \cup blocked'[s] = ready[s] \cup blocked[s]
              /\ ready'[s] \cap blocked'[s] = {}
  <2>1. ready[s] \cup blocked[s] \subseteq TilesOf[s] /\ ready[s] \cap blocked[s] = {}
    BY <1>0 DEF TilesSomewhere
  <2>2. blocked'[s] = blocked[s] \ R /\ ready'[s] = IF s = h THEN ready[s] \cup R ELSE ready[s]
    BY <1>2, <1>14, <1>15
  <2>3. s # h => R \cap blocked[s] = {}
    BY <1>15, <2>1
  <2>4. QED
    BY <1>15, <2>1, <2>2, <2>3
<1>17. Counters'
  <2>1. ASSUME NEW u \in Tile, parents[u] = 0 PROVE parents'[u] = 0
    <3>1. u \in Children[t] => parents[u] > 0
      BY <1>11
    <3>2. u \notin Children[t]
      BY <2>1, <3>1
    <3>3. QED
      BY <1>2, <2>1, <3>2
  <2>2. ASSUME NEW s \in Sub, NEW u \in ready'[s] PROVE parents'[u] = 0
    <3>1. CASE u \in R
      BY <1>13, <3>1
    <3>2. CASE u \notin R
      <4>1. u \in ready[s] /\ u \in Tile
        BY <1>0, <1>2, <3>2 DEF TypeOK
      <4>2. QED
        BY <1>0, <2>1, <4>1 DEF Counters
    <3>3. QED
      BY <3>1, <3>2
  <2>3. ASSUME NEW u \in Handed PROVE parents'[u] = 0
    <3>1. u \in Tile
      <4>1. PICK s \in Sub : u \in TilesOf[s]
        BY <1>0 DEF TilesSomewhere
      <4>2. QED
        BY <4>1 DEF KernelAssumption
    <3>2. QED
      BY <1>0, <2>1, <2>3, <3>1 DEF Counters
  <2>4. QED
    BY <1>7, <1>11, <2>2, <2>3 DEF Counters, ParentsOf
<1>18. QED
  BY <1>2, <1>3, <1>6, <1>7, <1>8, <1>12, <1>16, <1>17

\* A step issues a tile, finishes one, gives one back, or leaves all tiles alone.
LEMMA TileSteps ==
  ASSUME [Next]_vars
  PROVE  \/ \E c \in Core, t \in Tile : Issue(c, t)
         \/ \E c \in Core : Finish(c)
         \/ \E c \in Core : GiveBack(c) /\ done[c] # <<>>
         \/ UNCHANGED <<tileVars, coreVars>>
<1>1. CASE Read \/ Stop \/ StartCycle \/ Over \/ UNCHANGED vars
  BY <1>1 DEF Read, Launch, DeviceSync, EndOfTrace, Stop, StartCycle, Over, vars
<1>2. ASSUME NEW c \in Core, Pass(c) \/ Allocate(c) \/ Work(c) PROVE UNCHANGED <<tileVars, coreVars>>
  BY <1>2 DEF Pass, Allocate, Work
<1>3. ASSUME NEW c \in Core, GiveBack(c), done[c] = <<>> PROVE UNCHANGED <<tileVars, coreVars>>
  BY <1>3 DEF GiveBack, coreVars
<1>4. QED
  BY <1>1, <1>2, <1>3 DEF Next, Cycle, Visit

\* Tiles and their counters, one step of the simulator further.
LEMMA TileStep ==
  ASSUME ConfigAssumption, KernelAssumption, ScriptAssumption, TileInv, [Next]_vars
  PROVE  TileInv'
<1>0. TypeOK /\ TilesSomewhere /\ CoresApart /\ Counters /\ parents \in [Tile -> Nat]
  BY DEF TileInv, TypeOK
<1>1. ASSUME NEW c \in Core, NEW t \in Tile, Issue(c, t) PROVE TileInv'
  <2>1. TypeOK'
    BY <1>0, <1>1, TypeStep DEF Issue
  <2>2. /\ Here(c) \in Sub /\ t \in TilesOf[Here(c)] /\ t \in ready[Here(c)] /\ t \notin Handed
        /\ HandedTo(c)' = HandedTo(c) \cup {t} /\ Handed' = Handed \cup {t} /\ Back' = Back
        /\ \A d \in Core \ {c} : HandedTo(d)' = HandedTo(d)
        /\ held'[c] = held[c] \cup {t} /\ \A d \in Core \ {c} : held'[d] = held[d]
        /\ done' = done /\ returned' = returned /\ parents' = parents /\ blocked' = blocked
        /\ \A s \in Sub : ready'[s] = IF s = Here(c) THEN ready[s] \ {t} ELSE ready[s]
    BY <1>0, <1>1, <2>1, IssueMoves
  <2>3. \A s \in Sub : s # Here(c) => t \notin TilesOf[s]
    BY <2>2 DEF KernelAssumption
  <2>4. TilesSomewhere'
    <3>1. ASSUME NEW s \in Sub
          PROVE  /\ ready'[s] \cup blocked'[s] \subseteq TilesOf[s] /\ ready'[s] \cap blocked'[s] = {}
                 /\ \A u \in TilesOf[s] : u \in Handed' <=> u \notin ready'[s] \cup blocked'[s]
      <4>1. CASE s = Here(c)
        <5>1. ready'[s] = ready[s] \ {t} /\ blocked'[s] = blocked[s] /\ t \in ready[s]
          BY <2>2, <4>1
        <5>2. QED
          BY <1>0, <2>2, <5>1 DEF TilesSomewhere
      <4>2. CASE s # Here(c)
        BY <1>0, <2>2, <2>3, <4>2 DEF TilesSomewhere
      <4>3. QED
        BY <4>1, <4>2
    <3>2. \A u \in Handed' : \E s \in Sub : u \in TilesOf[s]
      BY <1>0, <2>2 DEF TilesSomewhere
    <3>3. QED
      BY <3>1, <3>2 DEF TilesSomewhere
  <2>5. CoresApart'
    <3>1. \A d \in Core : HandedTo(d) \subseteq Handed
      BY DEF Handed
    <3>2. t \notin Elems(done[c]) /\ t \notin returned[c]
      BY <1>0, <2>2, <3>1, HandedPlaces
    <3>3. QED
      BY <1>0, <2>2, <3>1, <3>2 DEF CoresApart
  <2>6. Counters'
    <3>1. parents[t] = 0
      BY <1>0, <2>2 DEF Counters
    <3>2. \A s \in Sub : ready'[s] \subseteq ready[s]
      BY <2>2
    <3>3. QED
      BY <1>0, <2>2, <3>1, <3>2 DEF Counters, ParentsOf
  <2>7. QED
    BY <2>1, <2>4, <2>5, <2>6 DEF TileInv
<1>2. ASSUME NEW c \in Core, Finish(c) PROVE TileInv'
  <2>1. TypeOK'
    BY <1>0, <1>2, TypeStep DEF Finish, tileVars
  <2>2. Handed' = Handed /\ Back' = Back /\ CoresApart' /\ UNCHANGED tileVars
    BY <1>0, <1>2, <2>1, FinishMoves
  <2>3. TilesSomewhere' /\ Counters'
    BY <1>0, <2>2 DEF TilesSomewhere, Counters, ParentsOf, tileVars
  <2>4. QED
    BY <2>1, <2>2, <2>3 DEF TileInv
<1>3. ASSUME NEW c \in Core, GiveBack(c), done[c] # <<>> PROVE TileInv'
  <2>1. /\ Handed' = Handed /\ CoresApart' /\ parents' \in [Tile -> Nat] /\ Counters'
        /\ \A s \in Sub : /\ ready'[s] \cup blocked'[s] = ready[s] \cup blocked[s]
                          /\ ready'[s] \cap blocked'[s] = {}
    BY <1>3, GiveBackMoves
  <2>2. TypeOK'
    BY <1>0, <1>3, <2>1, TypeStep
  <2>3. TilesSomewhere'
    <3>1. \A s \in Sub : ready'[s] \cup blocked'[s] \subseteq TilesOf[s] /\ ready'[s] \cap blocked'[s] = {}
      BY <1>0, <2>1 DEF TilesSomewhere
    <3>2. \A s \in Sub : \A u \in TilesOf[s] : u \in Handed' <=> u \notin ready'[s] \cup blocked'[s]
      BY <1>0, <2>1 DEF TilesSomewhere
    <3>3. \A u \in Handed' : \E s \in Sub : u \in TilesOf[s]
      BY <1>0, <2>1 DEF TilesSomewhere
    <3>4. QED
      BY <3>1, <3>2, <3>3 DEF TilesSomewhere
  <2>4. QED
    BY <2>1, <2>2, <2>3 DEF TileInv
<1>4. CASE UNCHANGED <<tileVars, coreVars>>
  <2>1. TypeOK'
    BY <1>0, <1>4, TypeStep DEF tileVars
  <2>2. QED
    BY <1>0, <1>4, <2>1, TilesUntouched DEF TileInv
<1>5. QED
  BY <1>1, <1>2, <1>3, <1>4, TileSteps

\* In every reachable state each tile is where TileInv says: waiting in its subgraph, or
\* with one core, in one place there, its counter telling how many parents are not back.
THEOREM TilesTracked == Spec => []TileInv
<1>1. Init => TileInv
  BY TileInitial, SchedulerConfig, SchedulerKernels, SchedulerScripts
<1>2. TileInv /\ [Next]_vars => TileInv'
  BY TileStep, SchedulerConfig, SchedulerKernels, SchedulerScripts
<1>3. QED
  BY <1>1, <1>2, PTL DEF Spec

\* No tile is handed to a core before every tile it depends on has come back, wherever it
\* ran: a counter of zero means that no parent is out.
LEMMA ParentsBackFollows ==
  ASSUME KernelAssumption, TileInv
  PROVE  ParentsBack
<1>1. ASSUME NEW t \in Handed PROVE ParentsOf(t) \subseteq Back
  <2>1. t \in Tile
    BY DEF TileInv, TilesSomewhere, KernelAssumption
  <2>2. Cardinality(ParentsOf(t) \ Back) = 0
    BY <2>1 DEF TileInv, Counters
  <2>3. IsFiniteSet(ParentsOf(t) \ Back)
    BY FS_Subset DEF ParentsOf, KernelAssumption
  <2>4. ParentsOf(t) \ Back = {}
    BY <2>2, <2>3, FS_EmptySet
  <2>5. QED
    BY <2>4
<1>2. QED
  BY <1>1 DEF ParentsBack

-------------------------------------------------------------------------------
(* Cores as their service *)

\* The instance of TileService counts as this module does.
LEMMA SameCount ==
  ASSUME NEW c \in Core, NEW S
  PROVE  Service(c)!Cardinality(S) = Cardinality(S)
BY DEF Cardinality, Service!Cardinality

\* Each step uses each core as TileService allows.
LEMMA ContractStep ==
  ASSUME ConfigAssumption, KernelAssumption, ScriptAssumption, TileInv, [Next]_vars, NEW d \in Core
  PROVE  [Service(d)!Next]_<<held[d], done[d], returned[d]>>
<1>0. TypeOK /\ TilesSomewhere /\ CoresApart /\ Counters /\ TypeOK'
  BY TileStep DEF TileInv
<1>1. ASSUME NEW c \in Core, NEW t \in Tile, Issue(c, t)
      PROVE  [Service(d)!Next]_<<held[d], done[d], returned[d]>>
  <2>1. /\ t \notin Handed /\ held'[c] = held[c] \cup {t} /\ \A e \in Core \ {c} : held'[e] = held[e]
        /\ done' = done /\ returned' = returned
    BY <1>0, <1>1, IssueMoves
  <2>2. Cardinality(held[c]) < TileSlots
    BY <1>1 DEF Issue, CanIssue
  <2>3. CASE d = c
    <3>1. t \notin HandedTo(d)
      BY <2>1 DEF Handed
    <3>2. t \notin held[d] \cup Elems(done[d]) \cup returned[d]
      BY <1>0, <3>1, HandedPlaces
    <3>3. t \notin held[d] \cup Service(d)!InDone \cup returned[d]
      BY <3>2 DEF Service!InDone, Elems
    <3>4. Service(d)!Accept(t)
      BY <2>1, <2>2, <2>3, <3>3, SameCount DEF Service!Accept
    <3>5. QED
      BY <3>4 DEF Service!Next
  <2>4. CASE d # c
    BY <2>1, <2>4
  <2>5. QED
    BY <2>3, <2>4
<1>2. ASSUME NEW c \in Core, Finish(c)
      PROVE  [Service(d)!Next]_<<held[d], done[d], returned[d]>>
  <2>1. /\ \E t \in held[c] : held'[c] = held[c] \ {t} /\ done'[c] = Append(done[c], t)
        /\ \A e \in Core \ {c} : held'[e] = held[e] /\ done'[e] = done[e]
        /\ returned' = returned
    BY <1>0, <1>2, FinishMoves
  <2>2. CASE d = c
    <3>1. PICK t \in held[d] : held'[d] = held[d] \ {t} /\ done'[d] = Append(done[d], t)
      BY <2>1, <2>2
    <3>2. t \in Tile
      BY <1>0 DEF TypeOK
    <3>3. Service(d)!Finish(t)
      BY <2>1, <3>1 DEF Service!Finish
    <3>4. QED
      BY <3>2, <3>3 DEF Service!Next
  <2>3. CASE d # c
    BY <2>1, <2>3
  <2>4. QED
    BY <2>2, <2>3
<1>3. ASSUME NEW c \in Core, GiveBack(c), done[c] # <<>>
      PROVE  [Service(d)!Next]_<<held[d], done[d], returned[d]>>
  <2>1. /\ held' = held /\ done'[c] = Tail(done[c]) /\ returned'[c] = returned[c] \cup {Head(done[c])}
        /\ \A e \in Core \ {c} : done'[e] = done[e] /\ returned'[e] = returned[e]
    BY <1>3, GiveBackMoves
  <2>2. CASE d = c
    BY <1>3, <2>1, <2>2 DEF Service!Next, Service!GiveBack
  <2>3. CASE d # c
    BY <2>1, <2>3
  <2>4. QED
    BY <2>2, <2>3
<1>4. CASE UNCHANGED <<tileVars, coreVars>>
  BY <1>4 DEF coreVars
<1>5. QED
  BY <1>1, <1>2, <1>3, <1>4, TileSteps

\* The partitions, kernels and slots together use every core as TileService says a core
\* may be used: no tile comes twice, and none when the core has as many as it takes.
THEOREM ContractHolds == Spec => CoreContract
<1>1. Init => \A c \in Core : Service(c)!Init
  BY DEF Init, Service!Init
<1>2. TileInv /\ [Next]_vars =>
        [\A c \in Core : [Service(c)!Next]_<<held[c], done[c], returned[c]>>]_coreVars
  BY ContractStep, SchedulerConfig, SchedulerKernels, SchedulerScripts
<1>3. QED
  BY <1>1, <1>2, TilesTracked, PTL DEF Spec, CoreContract

-------------------------------------------------------------------------------
(* Where the subgraphs are *)

\* A subgraph belongs to one kernel.
LEMMA MineApart ==
  ASSUME KernelAssumption, NEW k \in Kernel, NEW l \in Kernel, Mine(k) \cap Mine(l) # {}
  PROVE  k = l
BY DEF Mine, Elems, KernelAssumption

\* A kernel holds each of its subgraphs once, and they are subgraphs.
LEMMA MineOnce ==
  ASSUME KernelAssumption, NEW k \in Kernel
  PROVE  SubsOf[k] \in Seq(Sub) /\ Mine(k) \subseteq Sub /\ Distinct(SubsOf[k]) /\ None \notin Mine(k)
<1>1. SubsOf[k] \in Seq(Sub) /\ None \notin Sub
  BY DEF KernelAssumption
<1>2. Mine(k) \subseteq Sub
  BY <1>1, ElemsType DEF Mine
<1>3. Distinct(SubsOf[k])
  BY DEF Distinct, KernelAssumption
<1>4. QED
  BY <1>1, <1>2, <1>3

\* A step that neither issues a tile nor allocates a subgraph leaves the slots alone, and
\* each subgraph the tiles it still has.
LEMMA OtherSteps ==
  ASSUME ConfigAssumption, KernelAssumption, ScriptAssumption, TileInv, [Next]_vars,
         ~ \E c \in Core, t \in Tile : Issue(c, t), ~ \E c \in Core : Allocate(c)
  PROVE  /\ unallocated' = unallocated /\ assigned' = assigned
         /\ \A d \in Core : HandedTo(d)' = HandedTo(d)
         /\ Handed' = Handed
         /\ \A s \in Sub : ready'[s] \cup blocked'[s] = ready[s] \cup blocked[s]
<1>0. TypeOK /\ TypeOK' /\ CoresApart
  BY TileStep DEF TileInv
<1>1. unallocated' = unallocated /\ assigned' = assigned
  <2>1. CASE Read \/ Stop \/ StartCycle \/ Over \/ UNCHANGED vars
    BY <2>1 DEF Read, Launch, DeviceSync, EndOfTrace, Stop, StartCycle, Over, vars, graphVars
  <2>2. ASSUME NEW c \in Core, Pass(c) \/ GiveBack(c) \/ Finish(c) \/ Work(c)
        PROVE  unallocated' = unallocated /\ assigned' = assigned
    BY <2>2 DEF Pass, GiveBack, Finish, Work, graphVars
  <2>3. QED
    BY <2>1, <2>2 DEF Next, Cycle, Visit
<1>2. ASSUME NEW c \in Core, Finish(c)
      PROVE  /\ \A d \in Core : HandedTo(d)' = HandedTo(d)
             /\ Handed' = Handed /\ UNCHANGED tileVars
  BY <1>0, <1>2, FinishMoves
<1>3. ASSUME NEW c \in Core, GiveBack(c), done[c] # <<>>
      PROVE  /\ \A d \in Core : HandedTo(d)' = HandedTo(d)
             /\ Handed' = Handed
             /\ \A s \in Sub : ready'[s] \cup blocked'[s] = ready[s] \cup blocked[s]
  BY <1>3, GiveBackMoves
<1>4. CASE UNCHANGED <<tileVars, coreVars>>
  BY <1>1, <1>4, TilesUntouched DEF tileVars
<1>5. QED
  BY <1>1, <1>2, <1>3, <1>4, TileSteps DEF tileVars

\* At the start, the subgraphs of every graph are in its own lists.
LEMMA GraphInitial ==
  ASSUME ConfigAssumption, KernelAssumption, ScriptAssumption, Init
  PROVE  GraphInv
<1>1. \A k \in Kernel, c \in Core, m \in Slot : assigned[k][c][m] = None
  BY DEF Init
<1>2. SubsPlaced
  BY <1>1, MineOnce DEF SubsPlaced, Mine, Left, Init
<1>3. \A c \in Core : HandedTo(c) = {}
  BY ToSetElems, ElemsEmpty, EmptySeq DEF Init, HandedTo
<1>4. SubsHome
  BY <1>3 DEF SubsHome
<1>5. QED
  BY <1>2, <1>4 DEF GraphInv

\* A subgraph stays where it is when one of its tiles is issued.
LEMMA GraphIssue ==
  ASSUME ConfigAssumption, KernelAssumption, TypeOK, TypeOK', TilesSomewhere, GraphInv,
         NEW c \in Core, NEW t \in Tile, Issue(c, t)
  PROVE  GraphInv'
<1> DEFINE h == Here(c)
           k == KernelFor(c)
<1>1. /\ h \in Sub /\ t \in TilesOf[h] /\ t \in ready[h]
      /\ HandedTo(c)' = HandedTo(c) \cup {t} /\ \A d \in Core \ {c} : HandedTo(d)' = HandedTo(d)
      /\ blocked' = blocked /\ \A s \in Sub : ready'[s] = IF s = h THEN ready[s] \ {t} ELSE ready[s]
  BY IssueMoves
<1>2. k \in Kernel /\ slot \in Slot /\ h = assigned[k][c][slot] /\ h # None
  BY <1>1, HereType DEF Issue, Here, KernelAssumption
<1>3. unallocated' = unallocated /\ assigned' = assigned
  BY DEF Issue
<1>4. SubsPlaced'
  <2>1. \A s \in Sub : SubDone(s, ready) => SubDone(s, ready)'
    BY <1>1 DEF SubDone
  <2>2. \A l \in Kernel : Mine(l) \subseteq Sub
    BY MineOnce
  <2>3. QED
    BY <1>3, <2>1, <2>2 DEF GraphInv, SubsPlaced, Left, MayRun, Mine
<1>5. h \in Mine(k) \ Left(k) /\ MayRun(h, c)
  BY <1>2 DEF GraphInv, SubsPlaced
<1>6. \A s \in Sub : s # h => t \notin TilesOf[s]
  BY <1>1 DEF KernelAssumption
<1>7. \A e \in Core : TilesOf[h] \cap HandedTo(e) # {} => e = c
  BY <1>1, <1>2 DEF GraphInv, SubsHome
<1>8. \A l \in Kernel : h \notin Left(l)
  <2>1. ASSUME NEW l \in Kernel, h \in Left(l) PROVE FALSE
    <3>1. h \in Mine(l)
      BY <2>1 DEF GraphInv, SubsPlaced
    <3>2. l = k
      BY <1>2, <1>5, <3>1, MineApart
    <3>3. QED
      BY <1>5, <2>1, <3>2
  <2>2. QED
    BY <2>1
<1>9. ASSUME NEW l \in Kernel, NEW d \in Core, NEW m \in Slot, assigned[l][d][m] = h PROVE d = c
  <2>1. h \in Mine(l)
    BY <1>2, <1>9 DEF GraphInv, SubsPlaced
  <2>2. l = k
    BY <1>2, <1>5, <2>1, MineApart
  <2>3. QED
    BY <1>2, <1>9, <2>2 DEF GraphInv, SubsPlaced
<1>10. SubsHome'
  <2>1. ASSUME NEW s \in Sub, NEW e \in Core, TilesOf[s] \cap HandedTo(e)' # {}
        PROVE  /\ MayRun(s, e)
               /\ \A d \in Core : TilesOf[s] \cap HandedTo(d)' # {} => d = e
               /\ \A l \in Kernel : s \notin Left(l)
               /\ \A l \in Kernel, d \in Core, m \in Slot : assigned[l][d][m] = s => d = e
    <3>1. CASE s = h
      <4>1. \A d \in Core : TilesOf[h] \cap HandedTo(d)' # {} => d = c
        BY <1>1, <1>7
      <4>2. e = c
        BY <2>1, <3>1, <4>1
      <4>3. QED
        BY <1>5, <1>8, <1>9, <3>1, <4>1, <4>2
    <3>2. CASE s # h
      <4>1. \A d \in Core : TilesOf[s] \cap HandedTo(d)' = TilesOf[s] \cap HandedTo(d)
        BY <1>1, <1>6, <3>2
      <4>2. TilesOf[s] \cap HandedTo(e) # {}
        BY <2>1, <4>1
      <4>3. QED
        BY <4>1, <4>2 DEF GraphInv, SubsHome
    <3>3. QED
      BY <3>1, <3>2
  <2>2. QED
    BY <1>3, <2>1 DEF SubsHome, MayRun, Left
<1>11. QED
  BY <1>4, <1>10 DEF GraphInv

\* allocate_subgraph empties a slot whose subgraph is done, and fills it with a subgraph
\* that it takes out of the kernel.
LEMMA AllocateMoves ==
  ASSUME ConfigAssumption, KernelAssumption, TypeOK, SubsPlaced, NEW c \in Core, Allocate(c)
  PROVE  /\ KernelFor(c) \in Kernel /\ slot \in Slot
         /\ Here(c) = assigned[KernelFor(c)][c][slot] /\ (Here(c) # None => SubDone(Here(c), ready))
         /\ \A l \in Kernel, d \in Core, m \in Slot : <<l, d, m>> # <<KernelFor(c), c, slot>> =>
              assigned'[l][d][m] = assigned[l][d][m]
         /\ \A l \in Kernel : l # KernelFor(c) => unallocated'[l] = unallocated[l]
         /\ \/ assigned'[KernelFor(c)][c][slot] = None /\ unallocated' = unallocated
            \/ \E s \in Left(KernelFor(c)) :
                 /\ MayRun(s, c) /\ assigned'[KernelFor(c)][c][slot] = s
                 /\ Elems(unallocated'[KernelFor(c)]) = Left(KernelFor(c)) \ {s}
                 /\ Distinct(unallocated'[KernelFor(c)])
         /\ ready' = ready /\ blocked' = blocked /\ UNCHANGED coreVars /\ queue' = queue
<1> DEFINE k == KernelFor(c)
           fits == {n \in 1..Len(unallocated[k]) : MayRun(unallocated[k][n], c)}
<1>1. k \in Kernel /\ slot \in Slot /\ Here(c) = assigned[k][c][slot] /\ unallocated[k] \in Seq(Sub)
  BY HereType DEF Allocate, Here, TypeOK
<1>2. Here(c) # None => SubDone(Here(c), ready)
  BY DEF Allocate, NeedsSub
<1>3. ready' = ready /\ blocked' = blocked /\ UNCHANGED coreVars /\ queue' = queue
  BY DEF Allocate, tileVars
<1>4. CASE fits = {}
  <2>1. assigned' = [assigned EXCEPT ![k][c][slot] = None] /\ unallocated' = unallocated
    BY <1>4 DEF Allocate
  <2>2. /\ assigned'[k][c][slot] = None
        /\ \A l \in Kernel, d \in Core, m \in Slot : <<l, d, m>> # <<k, c, slot>> =>
             assigned'[l][d][m] = assigned[l][d][m]
    BY <1>1, <2>1 DEF TypeOK
  <2>3. QED
    BY <1>1, <1>2, <1>3, <2>1, <2>2
<1>5. CASE fits # {}
  <2>1. PICK n \in fits : /\ assigned' = [assigned EXCEPT ![k][c][slot] = unallocated[k][n]]
                          /\ unallocated' = [unallocated EXCEPT ![k] = Without(@, n)]
    BY <1>5 DEF Allocate
  <2>2. n \in 1..Len(unallocated[k]) /\ MayRun(unallocated[k][n], c)
    OBVIOUS
  <2>3. /\ assigned'[k][c][slot] = unallocated[k][n]
        /\ \A l \in Kernel, d \in Core, m \in Slot : <<l, d, m>> # <<k, c, slot>> =>
             assigned'[l][d][m] = assigned[l][d][m]
    BY <1>1, <2>1 DEF TypeOK
  <2>4. unallocated'[k] = Erased(unallocated[k], n) /\ \A l \in Kernel : l # k => unallocated'[l] = unallocated[l]
    BY <1>1, <2>1 DEF TypeOK, Without, RemoveAt, Erased
  <2>5. unallocated[k][n] \in Left(k)
    BY <2>2 DEF Left, Elems
  <2>6. Distinct(unallocated[k])
    BY <1>1 DEF SubsPlaced
  <2>7. Distinct(unallocated'[k]) /\ Elems(unallocated'[k]) = Left(k) \ {unallocated[k][n]}
    BY <1>1, <2>2, <2>4, <2>6, ElemsErased DEF Left
  <2>8. QED
    BY <1>1, <1>2, <1>3, <2>2, <2>3, <2>4, <2>5, <2>7
<1>6. QED
  BY <1>4, <1>5

\* TileGraph::allocate_subgraph moves a subgraph to a slot, and drops it when it is done.
LEMMA GraphAllocate ==
  ASSUME ConfigAssumption, KernelAssumption, TypeOK, GraphInv, QueuesRight,
         NEW c \in Core, Allocate(c)
  PROVE  GraphInv'
<1>0. SubsPlaced /\ SubsHome
  BY DEF GraphInv
<1>a. PICK k \in Kernel : k = KernelFor(c)
  BY <1>0, AllocateMoves
<1>1. /\ k \in Kernel /\ slot \in Slot /\ Here(c) = assigned[k][c][slot]
      /\ (Here(c) # None => SubDone(Here(c), ready))
      /\ \A l \in Kernel, d \in Core, m \in Slot : <<l, d, m>> # <<k, c, slot>> =>
           assigned'[l][d][m] = assigned[l][d][m]
      /\ \A l \in Kernel : l # k => unallocated'[l] = unallocated[l]
      /\ \/ assigned'[k][c][slot] = None /\ unallocated' = unallocated
         \/ \E s \in Left(k) : /\ MayRun(s, c) /\ assigned'[k][c][slot] = s
                               /\ Elems(unallocated'[k]) = Left(k) \ {s}
                               /\ Distinct(unallocated'[k])
      /\ ready' = ready /\ blocked' = blocked /\ UNCHANGED coreVars
  BY <1>0, <1>a, AllocateMoves
<1>2. CorePart[c] = KernelPart[k]
  <2>1. /\ CorePart[c] \in Partition /\ queue[CorePart[c]] \in Seq(Kernel)
        /\ queue[CorePart[c]] # <<>> /\ k = queue[CorePart[c]][1]
    BY <1>a, HereType DEF Allocate
  <2>2. 1 \in 1..Len(queue[CorePart[c]])
    BY <2>1, EmptySeq, LenProperties
  <2>3. QED
    BY <2>1, <2>2 DEF QueuesRight, QueueOf
<1>3. \A l \in Kernel : Left(l)' \subseteq Left(l) /\ Distinct(unallocated'[l])
  <2>1. \A l \in Kernel : l # k => Left(l)' = Left(l) /\ Distinct(unallocated'[l])
    BY <1>0, <1>1 DEF Left, SubsPlaced
  <2>2. Left(k)' \subseteq Left(k) /\ Distinct(unallocated'[k])
    BY <1>0, <1>1 DEF Left, SubsPlaced
  <2>3. QED
    BY <2>1, <2>2
<1>4. \A d \in Core : HandedTo(d)' = HandedTo(d)
  BY <1>1 DEF HandedTo, coreVars
<1>5. \A s \in Sub : SubDone(s, ready)' <=> SubDone(s, ready)
  BY <1>1 DEF SubDone
<1>6. Left(k) \subseteq Mine(k) /\ None \notin Mine(k) /\ Mine(k) \subseteq Sub
  BY <1>0, <1>1, MineOnce DEF SubsPlaced
\* A slot holds what it held before, or a subgraph that was left and is not any more.
<1>7. ASSUME NEW l \in Kernel, NEW d \in Core, NEW m \in Slot, assigned'[l][d][m] # None
      PROVE  \/ <<l, d, m>> # <<k, c, slot>> /\ assigned'[l][d][m] = assigned[l][d][m]
             \/ /\ l = k /\ d = c /\ m = slot /\ assigned'[l][d][m] \in Left(k)
                /\ Left(k)' = Left(k) \ {assigned'[l][d][m]} /\ MayRun(assigned'[l][d][m], c)
  BY <1>1, <1>7 DEF Left
<1>8. SubsPlaced'
  <2>1. ASSUME NEW l \in Kernel, NEW d \in Core, NEW m \in Slot, assigned'[l][d][m] # None
        PROVE  /\ assigned'[l][d][m] \in Mine(l) \ Left(l)'
               /\ MayRun(assigned'[l][d][m], d) /\ CorePart[d] = KernelPart[l]
    <3>1. CASE <<l, d, m>> # <<k, c, slot>> /\ assigned'[l][d][m] = assigned[l][d][m]
      BY <1>0, <1>3, <2>1, <3>1 DEF SubsPlaced
    <3>2. CASE /\ l = k /\ d = c /\ m = slot /\ assigned'[l][d][m] \in Left(k)
               /\ Left(k)' = Left(k) \ {assigned'[l][d][m]} /\ MayRun(assigned'[l][d][m], c)
      BY <1>2, <1>6, <3>2
    <3>3. QED
      BY <1>7, <2>1, <3>1, <3>2
  <2>2. ASSUME NEW l \in Kernel, NEW d \in Core, NEW e \in Core, NEW m \in Slot, NEW n \in Slot,
               assigned'[l][d][m] = assigned'[l][e][n], assigned'[l][d][m] # None
        PROVE  d = e /\ m = n
    <3>1. CASE <<l, d, m>> # <<k, c, slot>> /\ <<l, e, n>> # <<k, c, slot>>
      BY <1>0, <1>1, <2>2, <3>1 DEF SubsPlaced
    <3>2. CASE <<l, d, m>> = <<k, c, slot>> /\ <<l, e, n>> = <<k, c, slot>>
      BY <3>2
    <3>3. CASE <<l, d, m>> = <<k, c, slot>> /\ <<l, e, n>> # <<k, c, slot>>
      <4>1. l = k /\ assigned'[k][c][slot] \in Left(k) /\ assigned'[k][c][slot] = assigned[k][e][n]
        BY <1>1, <1>7, <2>2, <3>3
      <4>2. assigned[k][e][n] \notin Left(k)
        BY <1>0, <1>1, <2>2, <4>1 DEF SubsPlaced
      <4>3. QED
        BY <4>1, <4>2
    <3>4. CASE <<l, d, m>> # <<k, c, slot>> /\ <<l, e, n>> = <<k, c, slot>>
      <4>1. l = k /\ assigned'[k][c][slot] \in Left(k) /\ assigned'[k][c][slot] = assigned[k][d][m]
        BY <1>1, <1>7, <2>2, <3>4
      <4>2. assigned[k][d][m] \notin Left(k)
        BY <1>0, <1>1, <2>2, <4>1 DEF SubsPlaced
      <4>3. QED
        BY <4>1, <4>2
    <3>5. QED
      BY <3>1, <3>2, <3>3, <3>4
  <2>3. ASSUME NEW l \in Kernel, NEW s \in Mine(l) \ Left(l)'
        PROVE  SubDone(s, ready)' \/ \E d \in Core, m \in Slot : assigned'[l][d][m] = s
    <3>0. s \in Sub /\ s # None
      BY MineOnce
    <3>1. CASE s \in Left(l)
      <4>1. l = k /\ assigned'[k][c][slot] = s
        BY <1>1, <3>1 DEF Left
      <4>2. QED
        BY <1>1, <4>1
    <3>2. CASE s \notin Left(l) /\ SubDone(s, ready)
      BY <1>5, <3>0, <3>2
    <3>3. CASE s \notin Left(l) /\ ~SubDone(s, ready)
      <4>1. PICK d \in Core, m \in Slot : assigned[l][d][m] = s
        BY <1>0, <3>3 DEF SubsPlaced
      <4>2. <<l, d, m>> # <<k, c, slot>>
        BY <1>1, <3>0, <3>3, <4>1
      <4>3. QED
        BY <1>1, <4>1, <4>2
    <3>4. QED
      BY <3>1, <3>2, <3>3
  <2>4. \A l \in Kernel : Left(l)' \subseteq Mine(l) /\ Distinct(unallocated'[l])
    BY <1>0, <1>3 DEF SubsPlaced
  <2>5. QED
    BY <2>1, <2>2, <2>3, <2>4 DEF SubsPlaced, MayRun, Mine
<1>9. SubsHome'
  <2>1. ASSUME NEW s \in Sub, NEW e \in Core, TilesOf[s] \cap HandedTo(e) # {},
               NEW l \in Kernel, NEW d \in Core, NEW m \in Slot, assigned'[l][d][m] = s
        PROVE  d = e
    <3>1. s \notin Left(k) /\ s # None
      BY <1>0, <1>1, <2>1 DEF SubsHome, KernelAssumption
    <3>2. assigned[l][d][m] = s
      BY <1>7, <2>1, <3>1
    <3>3. QED
      BY <1>0, <2>1, <3>2 DEF SubsHome
  <2>2. ASSUME NEW s \in Sub, NEW e \in Core, TilesOf[s] \cap HandedTo(e) # {}
        PROVE  /\ MayRun(s, e)
               /\ \A d \in Core : TilesOf[s] \cap HandedTo(d) # {} => d = e
               /\ \A l \in Kernel : s \notin Left(l)'
    BY <1>0, <1>3, <2>2 DEF SubsHome
  <2>3. QED
    BY <1>4, <2>1, <2>2 DEF SubsHome, MayRun
<1>10. QED
  BY <1>8, <1>9 DEF GraphInv

\* Subgraphs and slots, one step of the simulator further.
LEMMA GraphStep ==
  ASSUME ConfigAssumption, KernelAssumption, ScriptAssumption, TileInv, GraphInv, QueuesRight, [Next]_vars
  PROVE  GraphInv'
<1>0. TypeOK /\ TypeOK' /\ TilesSomewhere
  BY TileStep DEF TileInv
<1>1. ASSUME NEW c \in Core, NEW t \in Tile, Issue(c, t) PROVE GraphInv'
  BY <1>0, <1>1, GraphIssue
<1>2. ASSUME NEW c \in Core, Allocate(c) PROVE GraphInv'
  BY <1>0, <1>2, GraphAllocate
<1>3. CASE /\ ~ \E c \in Core, t \in Tile : Issue(c, t)
           /\ ~ \E c \in Core : Allocate(c)
  <2>1. /\ unallocated' = unallocated /\ assigned' = assigned
        /\ \A d \in Core : HandedTo(d)' = HandedTo(d)
        /\ \A s \in Sub : ready'[s] \cup blocked'[s] = ready[s] \cup blocked[s]
    BY <1>3, OtherSteps
  <2>2. \A s \in Sub : SubDone(s, ready)' <=> SubDone(s, ready)
    <3>1. ASSUME NEW s \in Sub PROVE SubDone(s, ready)' <=> SubDone(s, ready)
      <4>1. ready'[s] \cup blocked'[s] = ready[s] \cup blocked[s]
        BY <2>1
      <4>2. QED
        BY <4>1 DEF SubDone
    <3>2. QED
      BY <3>1
  <2>3. SubsPlaced'
    <3>1. \A l \in Kernel : Mine(l) \subseteq Sub
      BY MineOnce
    <3>2. QED
      BY <2>1, <2>2, <3>1 DEF GraphInv, SubsPlaced, Left, MayRun, Mine
  <2>4. SubsHome'
    BY <2>1 DEF GraphInv, SubsHome, Left, MayRun
  <2>5. QED
    BY <2>3, <2>4 DEF GraphInv
<1>4. QED
  BY <1>1, <1>2, <1>3

\* A subgraph runs on one core, one it is bound to, and in one slot there.
LEMMA OneHomeFollows ==
  ASSUME GraphInv
  PROVE  OneHome
BY DEF GraphInv, SubsPlaced, SubsHome, OneHome, MayRun

-------------------------------------------------------------------------------
(* What the queues hold *)

\* A graph that is finished has had all its tiles taken.
FinishedGraphs == \A k \in Kernel : GraphFinished(k, ready) => KernelTiles(k) \subseteq Handed
\* A tile that a finished graph still had would be in one of its lists or slots.
LEMMA FinishedHanded == KernelAssumption /\ TypeOK /\ SubsPlaced /\ TilesSomewhere => FinishedGraphs
<1> SUFFICES ASSUME KernelAssumption, TypeOK, SubsPlaced, TilesSomewhere,
                    NEW k \in Kernel, GraphFinished(k, ready), NEW t \in KernelTiles(k)
             PROVE  t \in Handed
  BY DEF FinishedGraphs
<1>1. PICK s \in Mine(k) : t \in TilesOf[s]
  BY MineOnce, ToSetElems DEF KernelTiles, Mine
<1>2. s \in Sub /\ s # None
  BY MineOnce DEF KernelAssumption
<1>3. Left(k) = {}
  BY ElemsEmpty DEF GraphFinished, Left, TypeOK
<1>4. SubDone(s, ready)
  <2>1. SubDone(s, ready) \/ \E c \in Core, m \in Slot : assigned[k][c][m] = s
    BY <1>3 DEF SubsPlaced
  <2>2. QED
    BY <1>2, <2>1 DEF GraphFinished
<1>5. QED
  BY <1>1, <1>2, <1>4 DEF TilesSomewhere, SubDone

\* Dropping the front kernel keeps what is said of the rest.
LEMMA PopKeeps ==
  ASSUME NEW q \in Seq(Kernel), NEW p, NEW top, q # <<>>
  PROVE  /\ QueueOf(q, p) => QueueOf(Tail(q), p) /\ \A j \in 1..Len(Tail(q)) : ~Started(Tail(q)[j])
         /\ Follows(q, p, top) => Follows(Tail(q), p, top)
<1>1. /\ Len(q) \in Nat \ {0} /\ Len(Tail(q)) = Len(q) - 1
      /\ \A i \in 1..Len(Tail(q)) : i + 1 \in 1..Len(q) /\ Tail(q)[i] = q[i + 1]
  BY HeadTailProperties, EmptySeq, LenProperties
<1>2. ASSUME QueueOf(q, p)
      PROVE  QueueOf(Tail(q), p) /\ \A j \in 1..Len(Tail(q)) : ~Started(Tail(q)[j])
  <2>1. Distinct(Tail(q))
    BY <1>2, ElemsTail DEF QueueOf
  <2>2. ASSUME NEW j \in 1..Len(Tail(q))
        PROVE  KernelPart[Tail(q)[j]] = p /\ Tail(q)[j] \in Launched /\ ~Started(Tail(q)[j])
    <3>1. j + 1 \in 1..Len(q) /\ j + 1 > 1 /\ Tail(q)[j] = q[j + 1]
      BY <1>1
    <3>2. QED
      BY <1>2, <3>1 DEF QueueOf
  <2>3. QED
    BY <2>1, <2>2 DEF QueueOf
<1>3. ASSUME Follows(q, p, top), NEW m \in 1..top, NEW n \in 1..top,
             m < n, {script[m], script[n]} \subseteq Kernel,
             KernelPart[script[m]] = p, KernelPart[script[n]] = p,
             NEW i \in 1..Len(Tail(q)), Tail(q)[i] = script[m]
      PROVE  \E j \in (i + 1)..Len(Tail(q)) : Tail(q)[j] = script[n]
  <2>1. i + 1 \in 1..Len(q) /\ q[i + 1] = script[m]
    BY <1>1, <1>3
  <2>2. PICK j \in (i + 1 + 1)..Len(q) : q[j] = script[n]
    BY <1>3, <2>1 DEF Follows
  <2>3. j - 1 \in (i + 1)..Len(Tail(q)) /\ j - 1 \in 1..Len(Tail(q)) /\ (j - 1) + 1 = j
    BY <1>1
  <2>4. Tail(q)[j - 1] = script[n]
    BY <1>1, <2>2, <2>3
  <2>5. QED
    BY <2>3, <2>4
<1>4. QED
  BY <1>2, <1>3 DEF Follows

\* A kernel that is launched goes behind the others of its partition.
LEMMA AppendKeeps ==
  ASSUME ScriptAssumption, KernelAssumption, script \in Scripts, pos \in 0..Len(script),
         NEW q \in Seq(Kernel), NEW p, NEW k \in Kernel, QueueOf(q, p), Follows(q, p, pos),
         pos < Len(script), script[pos + 1] = k
  PROVE  Follows(Append(q, k), p, pos + 1)
<1>0. Len(script) \in Nat /\ pos + 1 \in 1..Len(script) /\ k # Sync
  BY LenProperties DEF ScriptAssumption, KernelAssumption
<1>1. /\ Len(q) \in Nat /\ Len(Append(q, k)) = Len(q) + 1
      /\ \A i \in 1..Len(q) : Append(q, k)[i] = q[i]
      /\ Append(q, k)[Len(q) + 1] = k
  BY AppendProperties, LenProperties
<1>2. ASSUME NEW m \in 1..(pos + 1), NEW n \in 1..(pos + 1),
             m < n, {script[m], script[n]} \subseteq Kernel,
             KernelPart[script[m]] = p, KernelPart[script[n]] = p,
             NEW i \in 1..Len(Append(q, k)), Append(q, k)[i] = script[m]
      PROVE  \E j \in (i + 1)..Len(Append(q, k)) : Append(q, k)[j] = script[n]
  <2>1. m \in 1..pos /\ m # pos + 1 /\ m \in 1..Len(script)
    BY <1>0, <1>2
  <2>2. script[m] # k
    BY <1>0, <2>1 DEF ScriptAssumption
  <2>3. i \in 1..Len(q) /\ q[i] = script[m]
    BY <1>1, <1>2, <2>2
  <2>4. CASE n = pos + 1
    <3>1. Len(q) + 1 \in (i + 1)..Len(Append(q, k))
      BY <1>1, <2>3
    <3>2. Append(q, k)[Len(q) + 1] = script[n]
      BY <1>1, <2>4
    <3>3. QED
      BY <3>1, <3>2
  <2>5. CASE n # pos + 1
    <3>1. n \in 1..pos
      BY <1>0, <2>5
    <3>2. PICK j \in (i + 1)..Len(q) : q[j] = script[n]
      BY <1>2, <2>1, <2>3, <3>1 DEF Follows
    <3>3. j \in 1..Len(q) /\ j \in (i + 1)..Len(Append(q, k))
      BY <1>1, <2>3
    <3>4. QED
      BY <1>1, <3>2, <3>3
  <2>6. QED
    BY <2>4, <2>5
<1>3. QED
  BY <1>2 DEF Follows

\* A kernel is launched once: what a launch adds was not there.
LEMMA LaunchedOnce ==
  ASSUME ScriptAssumption, KernelAssumption, script \in Scripts, pos \in 0..Len(script),
         NEW k \in Kernel, Launch(k)
  PROVE  /\ pos < Len(script) /\ script[pos + 1] = k /\ pos' = pos + 1 /\ script' = script
         /\ k \notin Launched /\ Launched' = Launched \cup {k}
<1>0. /\ Len(script) \in Nat /\ pos + 1 \in 1..Len(script) /\ k # Sync
      /\ script[pos + 1] = k /\ pos' = pos + 1 /\ script' = script /\ pos < Len(script)
  BY LenProperties DEF ScriptAssumption, KernelAssumption, Launch
<1>1. k \notin Launched
  <2>1. ASSUME NEW m \in 1..pos, script[m] = k PROVE FALSE
    <3>1. m \in 1..Len(script) /\ m # pos + 1
      BY <1>0
    <3>2. QED
      BY <1>0, <2>1, <3>1 DEF ScriptAssumption
  <2>2. QED
    BY <2>1 DEF Launched
<1>2. 1..(pos + 1) = 1..pos \cup {pos + 1}
  BY <1>0
<1>3. Launched' = Launched \cup {k}
  BY <1>0, <1>2 DEF Launched
<1>4. QED
  BY <1>0, <1>1, <1>3

\* What a launch or a taken tile makes of a queue: the front kernel goes if it is finished.
LEMMA RefreshCases ==
  ASSUME NEW q \in Seq(Kernel), NEW r
  PROVE  \/ Refresh(q, r) = q /\ (q = <<>> \/ ~GraphFinished(q[1], r))
         \/ q # <<>> /\ GraphFinished(q[1], r) /\ Refresh(q, r) = Tail(q)
BY HeadTailProperties DEF Refresh

\* What has been launched are kernels.
LEMMA LaunchedKernels ==
  ASSUME ScriptAssumption, script \in Scripts, pos \in 0..Len(script)
  PROVE  Launched \subseteq Kernel
<1>1. script \in Seq(Kernel \cup {Sync}) /\ Len(script) \in Nat
  BY LenProperties DEF ScriptAssumption
<1>2. ASSUME NEW n \in 1..pos, script[n] # Sync PROVE script[n] \in Kernel
  <2>1. n \in 1..Len(script)
    BY <1>1
  <2>2. script[n] \in Kernel \cup {Sync}
    BY <1>1, <2>1, ElementOfSeq
  <2>3. QED
    BY <1>2, <2>2
<1>3. QED
  BY <1>2 DEF Launched

\* A launch keeps the queues in order, and drops no kernel that is not finished.
LEMMA QueueLaunch ==
  ASSUME ScriptAssumption, KernelAssumption, TypeOK, TypeOK', SubsPlaced, TilesSomewhere, QueueInv,
         NEW k \in Kernel, Launch(k)
  PROVE  QueueInv'
<1>0. script \in Scripts /\ pos \in 0..Len(script) /\ QueuesRight /\ LaunchOrder /\ NothingDropped
  BY DEF TypeOK, QueueInv
<1>1. /\ pos < Len(script) /\ script[pos + 1] = k /\ pos' = pos + 1 /\ script' = script
      /\ k \notin Launched /\ Launched' = Launched \cup {k}
  BY <1>0, LaunchedOnce
<1>2. /\ unallocated' = unallocated /\ UNCHANGED coreVars
      /\ queue' = IF KernelPart[k] \in Partition
                  THEN [queue EXCEPT ![KernelPart[k]] = Refresh(Append(@, k), ready)] ELSE queue
  BY DEF Launch
<1>3. Handed' = Handed
  BY <1>2 DEF Handed, HandedTo, coreVars
<1>4. \A l \in Kernel : Started(l)' <=> Started(l)
  BY <1>2 DEF Started
<1>5. ~Started(k)
  BY <1>0, <1>1 DEF QueuesRight, Accepted
<1>6. \A l \in Kernel : Started(l)' => l \in Accepted'
  BY <1>0, <1>1, <1>4 DEF QueuesRight, Accepted
<1>7. ASSUME NEW p \in Partition, p # KernelPart[k]
      PROVE  queue'[p] = queue[p] /\ QueueOf(queue[p], p)' /\ Follows(queue[p], p, pos)'
  <2>1. queue'[p] = queue[p] /\ queue[p] \in Seq(Kernel)
    BY <1>2, <1>7 DEF TypeOK
  <2>2. QueueOf(queue[p], p)'
    <3>1. QueueOf(queue[p], p) /\ Elems(queue[p]) \subseteq Kernel
      BY <1>0, <2>1, ElemsType DEF QueuesRight
    <3>2. QED
      BY <1>1, <1>2, <2>1, <3>1 DEF QueueOf, Started
  <2>3. Follows(queue[p], p, pos)'
    <3>1. Follows(queue[p], p, pos)
      BY <1>0 DEF LaunchOrder
    <3>2. SUFFICES ASSUME NEW m \in 1..(pos + 1), NEW n \in 1..(pos + 1), m < n,
                          {script[m], script[n]} \subseteq Kernel,
                          KernelPart[script[m]] = p, KernelPart[script[n]] = p
                   PROVE  \A i \in 1..Len(queue[p]) : queue[p][i] = script[m] =>
                            \E j \in (i + 1)..Len(queue[p]) : queue[p][j] = script[n]
      BY <1>1, <2>1 DEF Follows
    <3>3. n # pos + 1
      BY <1>1, <1>7, <3>2
    <3>4. m \in 1..pos /\ n \in 1..pos
      BY <1>0, <3>2, <3>3
    <3>5. QED
      BY <3>1, <3>2, <3>4 DEF Follows
  <2>4. QED
    BY <2>1, <2>2, <2>3
<1>8. CASE KernelPart[k] \notin Partition
  <2>1. Accepted' = Accepted /\ queue' = queue
    BY <1>1, <1>2, <1>8 DEF Accepted
  <2>2. \A p \in Partition : p # KernelPart[k]
    BY <1>8
  <2>3. QueuesRight' /\ LaunchOrder'
    BY <1>6, <1>7, <2>2 DEF QueuesRight, LaunchOrder
  <2>4. NothingDropped'
    BY <1>0, <1>3, <2>1 DEF NothingDropped, KernelTiles
  <2>5. QED
    BY <2>3, <2>4 DEF QueueInv
<1>9. CASE KernelPart[k] \in Partition
  <2>1. PICK p \in Partition : p = KernelPart[k]
    BY <1>9
  <2>2. PICK q \in Seq(Kernel) : q = queue[p]
    BY DEF TypeOK
  <2>3. PICK a \in Seq(Kernel) : a = Append(q, k)
    BY AppendProperties
  <2>4. queue'[p] = Refresh(a, ready)
    BY <1>2, <2>1, <2>2, <2>3 DEF TypeOK
  <2>5. QueueOf(q, p) /\ Follows(q, p, pos)
    BY <1>0, <2>2 DEF QueuesRight, LaunchOrder
  <2>6. Follows(a, p, pos + 1)
    BY <1>0, <1>1, <2>3, <2>5, AppendKeeps
  <2>7. /\ Len(q) \in Nat /\ Len(a) = Len(q) + 1
        /\ \A i \in 1..Len(q) : a[i] = q[i]
        /\ a[Len(q) + 1] = k /\ a # <<>>
    BY <2>3, AppendProperties, LenProperties, EmptySeq
  <2>8. Elems(a) = Elems(q) \cup {k} /\ Distinct(a)
    <3>1. k \notin Elems(q)
      BY <1>1, <2>5 DEF QueueOf, Elems
    <3>2. QED
      BY <2>3, <2>5, <3>1, ElemsAppend DEF QueueOf
  <2>9. ASSUME NEW j \in 1..Len(a)
        PROVE  KernelPart[a[j]] = p /\ a[j] \in Launched' /\ (j > 1 => ~Started(a[j]))
    <3>1. CASE j \in 1..Len(q)
      BY <1>1, <2>5, <2>7, <3>1 DEF QueueOf
    <3>2. CASE j = Len(q) + 1
      BY <1>1, <1>5, <2>1, <2>7, <3>2
    <3>3. QED
      BY <2>7, <3>1, <3>2
  <2>10. QueueOf(a, p)' /\ Follows(a, p, pos)'
    <3>1. QueueOf(a, p)'
      BY <1>2, <2>8, <2>9 DEF QueueOf, Started
    <3>2. Follows(a, p, pos)'
      BY <1>1, <2>6 DEF Follows
    <3>3. QED
      BY <3>1, <3>2
  <2>b. PICK b \in Seq(Kernel) : b = Tail(a)
    BY <2>7, HeadTailProperties
  <2>11. QueueOf(b, p)' /\ Follows(b, p, pos)'
    <3>1. Len(b) = Len(a) - 1 /\ \A j \in 1..Len(b) : b[j] = a[j + 1]
      BY <2>7, <2>b, HeadTailProperties
    <3>2. Distinct(b)
      BY <2>7, <2>8, <2>b, ElemsTail
    <3>3. ASSUME NEW j \in 1..Len(b)
          PROVE  KernelPart[b[j]] = p /\ b[j] \in Launched' /\ ~Started(b[j])
      <4>1. j + 1 \in 1..Len(a) /\ j + 1 > 1 /\ b[j] = a[j + 1]
        BY <2>7, <3>1
      <4>2. QED
        BY <2>9, <4>1
    <3>4. QueueOf(b, p)'
      BY <1>2, <3>2, <3>3 DEF QueueOf, Started
    <3>5. Follows(b, p, pos + 1)
      BY <2>6, <2>7, <2>b, PopKeeps
    <3>6. Follows(b, p, pos)'
      <4>1. script' = script /\ pos' = pos + 1
        BY <1>1
      <4>2. QED
        BY <3>5, <4>1, SMTT(30) DEF Follows
    <3>7. QED
      BY <3>4, <3>6
  <2>12. \/ queue'[p] = a
         \/ queue'[p] = b /\ GraphFinished(a[1], ready)
    BY <2>4, <2>b, RefreshCases
  <2>13. QueueOf(queue[p], p)' /\ Follows(queue[p], p, pos)'
    <3>1. CASE queue'[p] = a
      BY <2>10, <3>1 DEF QueueOf, Follows
    <3>2. CASE queue'[p] = b
      BY <2>11, <3>2 DEF QueueOf, Follows
    <3>3. QED
      BY <2>12, <3>1, <3>2
  <2>14. \A o \in Partition : QueueOf(queue[o], o)' /\ Follows(queue[o], o, pos)'
    <3>1. ASSUME NEW o \in Partition, o # p PROVE QueueOf(queue[o], o)' /\ Follows(queue[o], o, pos)'
      <4>1. queue'[o] = queue[o] /\ QueueOf(queue[o], o)' /\ Follows(queue[o], o, pos)'
        BY <1>7, <2>1, <3>1
      <4>2. QED
        BY <4>1
    <3>2. QED
      BY <2>13, <3>1
  <2>15. NothingDropped'
    <3>1. ASSUME NEW l \in Accepted', l \notin ToSet(queue[KernelPart[l]])' PROVE KernelTiles(l) \subseteq Handed
      <4>0. KernelPart[l] \in Partition /\ l \in Launched \cup {k} /\ l \in Kernel
        BY <1>0, <1>1, LaunchedKernels DEF Accepted
      <4>1. CASE KernelPart[l] # p
        <5>1. l \in Accepted /\ queue'[KernelPart[l]] = queue[KernelPart[l]]
          BY <1>7, <2>1, <4>0, <4>1 DEF Accepted
        <5>2. QED
          BY <1>0, <3>1, <5>1 DEF NothingDropped
      <4>2. CASE KernelPart[l] = p
        <5>1. queue'[p] \in Seq(Kernel) /\ l \notin Elems(queue'[p])
          BY <3>1, <4>2, ToSetElems DEF TypeOK
        <5>2. CASE l \in Elems(q) \cup {k}
          <6>0. Elems(a) = Elems(b) \cup {a[1]}
            BY <2>7, <2>b, ElemsTail
          <6>1. GraphFinished(a[1], ready) /\ l = a[1]
            BY <2>8, <2>12, <5>1, <5>2, <6>0
          <6>2. QED
            BY <4>0, <6>1, FinishedHanded DEF FinishedGraphs
        <5>3. CASE l \notin Elems(q) \cup {k}
          <6>1. l \in Accepted /\ l \notin ToSet(queue[KernelPart[l]])
            BY <2>2, <4>0, <4>2, <5>3, ToSetElems DEF Accepted
          <6>2. QED
            BY <1>0, <6>1 DEF NothingDropped
        <5>4. QED
          BY <5>2, <5>3
      <4>3. QED
        BY <4>1, <4>2
    <3>2. QED
      BY <1>3, <3>1 DEF NothingDropped, KernelTiles
  <2>16. QED
    BY <1>6, <2>14, <2>15 DEF QueueInv, QueuesRight, LaunchOrder
<1>10. QED
  BY <1>8, <1>9

\* Taking a tile keeps the queues in order, and drops no kernel that is not finished.
LEMMA QueueIssue ==
  ASSUME ConfigAssumption, ScriptAssumption, KernelAssumption, TypeOK, TypeOK', QueueInv,
         SubsPlaced', TilesSomewhere, TilesSomewhere', NEW c \in Core, NEW t \in Tile, Issue(c, t)
  PROVE  QueueInv'
<1>0. QueuesRight /\ LaunchOrder /\ NothingDropped
  BY DEF QueueInv
<1>1. PICK p \in Partition : p = CorePart[c]
  BY DEF ConfigAssumption
<1>2. PICK q \in Seq(Kernel) : q = queue[p]
  BY DEF TypeOK
<1>3. /\ queue'[p] = Refresh(q, ready') /\ \A o \in Partition : o # p => queue'[o] = queue[o]
      /\ unallocated' = unallocated /\ assigned' = assigned /\ blocked' = blocked
      /\ script' = script /\ pos' = pos /\ q # <<>>
  BY <1>1, <1>2 DEF Issue, TypeOK, traceVars, HasKernel
<1>4. Handed \subseteq Handed'
  <2>1. Handed' = Handed \cup {t}
    BY IssueMoves
  <2>2. QED
    BY <2>1
<1>5. Launched' = Launched /\ Accepted' = Accepted
  BY <1>3 DEF Launched, Accepted
<1>6. PICK b \in Seq(Kernel) : b = Tail(q)
  BY <1>3, HeadTailProperties
<1>7. \/ queue'[p] = q
      \/ queue'[p] = b /\ GraphFinished(q[1], ready')
  BY <1>3, <1>6, RefreshCases
<1>8. QueueOf(q, p) /\ Follows(q, p, pos) /\ QueueOf(b, p) /\ Follows(b, p, pos)
  <2>1. QueueOf(q, p) /\ Follows(q, p, pos)
    BY <1>0, <1>2 DEF QueuesRight, LaunchOrder
  <2>2. QED
    BY <1>3, <1>6, <2>1, PopKeeps
<1>9. ASSUME NEW o \in Partition PROVE QueueOf(queue[o], o)' /\ Follows(queue[o], o, pos)'
  <2>1. PICK r \in Seq(Kernel) : r = queue'[o]
    BY DEF TypeOK
  <2>2. QueueOf(r, o) /\ Follows(r, o, pos)
    <3>1. CASE o = p
      <4>1. r = q \/ r = b
        BY <1>7, <2>1, <3>1
      <4>2. QED
        BY <1>8, <3>1, <4>1
    <3>2. CASE o # p
      BY <1>0, <1>3, <2>1, <3>2 DEF QueuesRight, LaunchOrder
    <3>3. QED
      BY <3>1, <3>2
  <2>3. QueueOf(queue[o], o)'
    BY <1>3, <1>5, <2>1, <2>2 DEF QueueOf, Started
  <2>4. Follows(queue[o], o, pos)'
    BY <1>3, <2>1, <2>2 DEF Follows
  <2>5. QED
    BY <2>3, <2>4
<1>10. \A l \in Kernel : Started(l)' => l \in Accepted'
  BY <1>0, <1>3, <1>5 DEF QueuesRight, Started
<1>11. GraphFinished(q[1], ready') => KernelTiles(q[1]) \subseteq Handed'
  <2>1. PICK l \in Kernel : l = q[1]
    BY <1>3, ElementOfSeq, EmptySeq, LenProperties
  <2>2. GraphFinished(l, ready') <=> GraphFinished(l, ready)'
    BY <1>3 DEF GraphFinished, SubDone
  <2>3. (KernelAssumption /\ TypeOK /\ SubsPlaced /\ TilesSomewhere)' => FinishedGraphs'
    BY FinishedHanded, PTL
  <2>4. GraphFinished(l, ready)' => KernelTiles(l) \subseteq Handed'
    BY <2>3 DEF FinishedGraphs, KernelTiles, KernelAssumption
  <2>5. QED
    BY <2>1, <2>2, <2>4
<1>12. NothingDropped'
  <2>1. ASSUME NEW l \in Accepted, l \notin ToSet(queue'[KernelPart[l]])
        PROVE  KernelTiles(l) \subseteq Handed'
    <3>1. CASE KernelPart[l] # p
      <4>1. l \notin ToSet(queue[KernelPart[l]])
        BY <1>3, <2>1, <3>1 DEF Accepted
      <4>2. QED
        BY <1>0, <1>4, <4>1 DEF NothingDropped
    <3>2. CASE KernelPart[l] = p
      <4>1. queue'[p] \in Seq(Kernel) /\ l \notin Elems(queue'[p])
        BY <2>1, <3>2, ToSetElems DEF TypeOK
      <4>2. CASE l \in Elems(q)
        <5>1. Elems(q) = Elems(b) \cup {q[1]}
          BY <1>3, <1>6, ElemsTail
        <5>2. GraphFinished(q[1], ready') /\ l = q[1]
          BY <1>7, <4>1, <4>2, <5>1
        <5>3. QED
          BY <1>11, <5>2
      <4>3. CASE l \notin Elems(q)
        <5>1. l \notin ToSet(queue[KernelPart[l]])
          BY <1>2, <3>2, <4>3, ToSetElems
        <5>2. QED
          BY <1>0, <1>4, <5>1 DEF NothingDropped
      <4>4. QED
        BY <4>2, <4>3
    <3>3. QED
      BY <3>1, <3>2
  <2>2. QED
    BY <1>5, <2>1 DEF NothingDropped, KernelTiles
<1>13. QED
  BY <1>9, <1>10, <1>12 DEF QueueInv, QueuesRight, LaunchOrder

\* Only the kernel at the front of a queue is started.
LEMMA QueueAllocate ==
  ASSUME ConfigAssumption, KernelAssumption, TypeOK, SubsPlaced, QueueInv,
         NEW c \in Core, Allocate(c)
  PROVE  QueueInv'
<1>0. QueuesRight /\ LaunchOrder /\ NothingDropped
  BY DEF QueueInv
<1>1. PICK k \in Kernel : k = KernelFor(c)
  BY AllocateMoves
<1>2. /\ \A l \in Kernel : l # k => unallocated'[l] = unallocated[l]
      /\ UNCHANGED coreVars /\ queue' = queue
  BY <1>1, AllocateMoves
<1>3. script' = script /\ pos' = pos
  BY DEF Allocate, traceVars
<1>4. Launched' = Launched /\ Accepted' = Accepted /\ Handed' = Handed
  BY <1>2, <1>3 DEF Launched, Accepted, Handed, HandedTo, coreVars
<1>5. PICK p \in Partition : p = CorePart[c]
  BY DEF ConfigAssumption
<1>6. queue[p] \in Seq(Kernel) /\ queue[p] # <<>> /\ k = queue[p][1] /\ 1 \in 1..Len(queue[p])
  BY <1>1, <1>5, HereType, EmptySeq, LenProperties DEF Allocate
<1>7. k \in Accepted /\ KernelPart[k] = p
  BY <1>0, <1>6 DEF QueuesRight, QueueOf, Accepted
<1>8. \A l \in Kernel : Started(l)' => l \in Accepted'
  BY <1>0, <1>2, <1>4, <1>7 DEF QueuesRight, Started
<1>9. ASSUME NEW o \in Partition PROVE QueueOf(queue[o], o)'
  <2>1. QueueOf(queue[o], o) /\ queue[o] \in Seq(Kernel)
    BY <1>0 DEF QueuesRight, TypeOK
  <2>2. ASSUME NEW j \in 1..Len(queue[o]), j > 1 PROVE ~Started(queue[o][j])'
    <3>1. queue[o][j] \in Kernel
      BY <2>1, ElementOfSeq
    <3>2. queue[o][j] # k
      <4>1. CASE o = p
        BY <1>6, <2>1, <2>2, <4>1 DEF QueueOf, Distinct
      <4>2. CASE o # p
        BY <1>7, <2>1, <4>2 DEF QueueOf
      <4>3. QED
        BY <4>1, <4>2
    <3>3. ~Started(queue[o][j])
      BY <2>1, <2>2 DEF QueueOf
    <3>4. QED
      BY <1>2, <3>1, <3>2, <3>3 DEF Started
  <2>3. QED
    BY <1>2, <1>4, <2>1, <2>2 DEF QueueOf
<1>10. LaunchOrder'
  BY <1>0, <1>2, <1>3 DEF LaunchOrder, Follows
<1>11. NothingDropped'
  BY <1>0, <1>2, <1>4 DEF NothingDropped, KernelTiles
<1>12. QED
  BY <1>8, <1>9, <1>10, <1>11 DEF QueueInv, QueuesRight

\* Reading DEVICE_SYNC launches nothing.
LEMMA SyncLaunchesNothing ==
  ASSUME ScriptAssumption, KernelAssumption, TypeOK, QueueInv, DeviceSync
  PROVE  Launched' = Launched /\ LaunchOrder'
<1>1. /\ script' = script /\ pos' = pos + 1 /\ script[pos + 1] = Sync /\ Sync \notin Kernel
      /\ queue' = queue /\ pos \in Nat
  BY DEF DeviceSync, graphVars, KernelAssumption, TypeOK
<1>2. 1..(pos + 1) = 1..pos \cup {pos + 1}
  BY <1>1
<1>3. {m \in 1..pos' : script'[m] # Sync} = {m \in 1..pos : script[m] # Sync}
  BY <1>1, <1>2
<1>4. Launched' = Launched
  BY <1>1, <1>3 DEF Launched
<1>5. ASSUME NEW p \in Partition PROVE Follows(queue[p], p, pos)'
  <2>1. Follows(queue[p], p, pos)
    BY DEF QueueInv, LaunchOrder
  <2>2. PICK q \in Seq(Kernel) : q = queue[p]
    BY DEF TypeOK
  <2>3. ASSUME NEW m \in 1..(pos + 1), NEW n \in 1..(pos + 1), m < n,
               {script[m], script[n]} \subseteq Kernel,
               KernelPart[script[m]] = p, KernelPart[script[n]] = p,
               NEW i \in 1..Len(q), q[i] = script[m]
        PROVE  \E j \in (i + 1)..Len(q) : q[j] = script[n]
    <3>1. m # pos + 1 /\ n # pos + 1
      BY <1>1, <2>3
    <3>2. m \in 1..pos /\ n \in 1..pos
      BY <1>2, <3>1
    <3>3. QED
      BY <2>1, <2>2, <2>3, <3>2 DEF Follows
  <2>4. Follows(q, p, pos + 1)
    BY <2>3 DEF Follows
  <2>5. queue'[p] = q
    BY <1>1, <2>2
  <2>6. QED
    BY <1>1, <2>4, <2>5 DEF Follows
<1>6. QED
  BY <1>4, <1>5 DEF LaunchOrder

\* Queues of kernels, one step of the simulator further.
LEMMA QueueStep ==
  ASSUME ConfigAssumption, KernelAssumption, ScriptAssumption, SchedInv, [Next]_vars
  PROVE  QueueInv'
<1>0. /\ TypeOK /\ TypeOK' /\ TilesSomewhere /\ TilesSomewhere' /\ SubsPlaced /\ SubsPlaced'
      /\ QueueInv /\ QueuesRight /\ LaunchOrder /\ NothingDropped
  BY TileStep, GraphStep DEF SchedInv, TileInv, GraphInv, QueueInv
<1>1. ASSUME NEW k \in Kernel, Launch(k) PROVE QueueInv'
  BY <1>0, <1>1, QueueLaunch
<1>2. ASSUME NEW c \in Core, NEW t \in Tile, Issue(c, t) PROVE QueueInv'
  BY <1>0, <1>2, QueueIssue
<1>3. ASSUME NEW c \in Core, Allocate(c) PROVE QueueInv'
  BY <1>0, <1>3, QueueAllocate
<1>4. CASE /\ ~ \E k \in Kernel : Launch(k)
           /\ ~ \E c \in Core, t \in Tile : Issue(c, t)
           /\ ~ \E c \in Core : Allocate(c)
  <2>1. unallocated' = unallocated /\ Handed' = Handed
    BY <1>4, OtherSteps DEF SchedInv
  <2>2. /\ queue' = queue /\ script' = script
        /\ DeviceSync \/ pos' = pos
    <3>1. CASE DeviceSync \/ EndOfTrace \/ Stop \/ StartCycle \/ Over \/ UNCHANGED vars
      BY <3>1 DEF DeviceSync, EndOfTrace, Stop, StartCycle, Over, vars, graphVars, traceVars
    <3>2. ASSUME NEW c \in Core, Pass(c) \/ GiveBack(c) \/ Finish(c) \/ Work(c)
          PROVE  queue' = queue /\ script' = script /\ pos' = pos
      BY <3>2 DEF Pass, GiveBack, Finish, Work, graphVars, traceVars
    <3>3. QED
      BY <1>4, <3>1, <3>2 DEF Next, Read, Cycle, Visit
  <2>3. Launched' = Launched /\ LaunchOrder'
    <3>1. CASE DeviceSync
      BY <1>0, <3>1, SyncLaunchesNothing
    <3>2. CASE pos' = pos
      BY <1>0, <2>2, <3>2 DEF Launched, LaunchOrder, Follows
    <3>3. QED
      BY <2>2, <3>1, <3>2
  <2>4. Accepted' = Accepted
    BY <2>3 DEF Accepted
  <2>5. QueuesRight'
    BY <1>0, <2>1, <2>2, <2>3, <2>4 DEF QueuesRight, QueueOf, Started
  <2>6. NothingDropped'
    BY <1>0, <2>1, <2>2, <2>4 DEF NothingDropped, KernelTiles
  <2>7. QED
    BY <2>3, <2>5, <2>6 DEF QueueInv
<1>5. QED
  BY <1>1, <1>2, <1>3, <1>4

\* At the start, nothing has been launched.
LEMMA SchedInitial ==
  ASSUME ConfigAssumption, KernelAssumption, ScriptAssumption, Init
  PROVE  SchedInv
<1>1. TileInv /\ GraphInv
  BY TileInitial, GraphInitial
<1>2. Launched = {} /\ Accepted = {}
  <2>1. 1..pos = {}
    BY DEF Init
  <2>2. QED
    BY <2>1 DEF Launched, Accepted
<1>3. \A p \in Partition : queue[p] = <<>> /\ Len(queue[p]) = 0
  BY EmptySeq DEF Init
<1>4. QueuesRight
  <2>1. \A p \in Partition : QueueOf(queue[p], p)
    BY <1>3 DEF QueueOf, Distinct
  <2>2. \A k \in Kernel : ~Started(k)
    BY DEF Started, Init
  <2>3. QED
    BY <2>1, <2>2 DEF QueuesRight
<1>5. LaunchOrder
  BY <1>3 DEF LaunchOrder, Follows
<1>6. NothingDropped
  BY <1>2 DEF NothingDropped
<1>7. QED
  BY <1>1, <1>4, <1>5, <1>6 DEF SchedInv, QueueInv

\* In every reachable state each tile, each subgraph and each kernel is where the
\* schedulers' code relies on it to be.
THEOREM SchedCorrect == Spec => []SchedInv
<1>1. Init => SchedInv
  BY SchedInitial, SchedulerConfig, SchedulerKernels, SchedulerScripts
<1>2. SchedInv /\ [Next]_vars => SchedInv'
  <2> SUFFICES ASSUME SchedInv, [Next]_vars PROVE SchedInv'
    OBVIOUS
  <2>1. TileInv'
    BY TileStep, SchedulerConfig, SchedulerKernels, SchedulerScripts DEF SchedInv
  <2>2. GraphInv'
    BY GraphStep, SchedulerConfig, SchedulerKernels, SchedulerScripts DEF SchedInv, QueueInv
  <2>3. QueueInv'
    BY QueueStep, SchedulerConfig, SchedulerKernels, SchedulerScripts
  <2>4. QED
    BY <2>1, <2>2, <2>3 DEF SchedInv
<1>3. QED
  BY <1>1, <1>2, PTL DEF Spec

\* A tile is handed to a core only when the tiles it depends on are all back, and a
\* subgraph is run by one core that it may run on, in one slot: TileGraph::peek_tile and
\* get_tile, TileSubGraph::finish_tile, TileGraph::allocate_subgraph.
THEOREM HandedRightlyHolds == Spec => []HandedRightly
<1>1. SchedInv => HandedRightly
  BY ParentsBackFollows, OneHomeFollows, SchedulerKernels
     DEF SchedInv, TileInv, HandedRightly
<1>2. QED
  BY <1>1, SchedCorrect, PTL

\* A kernel leaves its queue (Scheduler::refresh_status) only with all its tiles issued.
THEOREM NothingDroppedHolds == Spec => []NothingDropped
<1>1. SchedInv => NothingDropped
  BY DEF SchedInv, QueueInv
<1>2. QED
  BY <1>1, SchedCorrect, PTL

\* A subgraph of a kernel one of whose tiles has been handed out has been allocated.
LEMMA HandedStarted ==
  ASSUME KernelAssumption, SchedInv, NEW k \in Kernel, KernelTiles(k) \cap Handed # {}
  PROVE  Started(k)
<1>1. PICK s \in Mine(k) : TilesOf[s] \cap Handed # {}
  BY MineOnce, ToSetElems DEF KernelTiles, Mine
<1>2. PICK c \in Core : TilesOf[s] \cap HandedTo(c) # {}
  BY <1>1 DEF Handed
<1>3. s \notin Left(k)
  BY <1>1, <1>2, MineOnce DEF SchedInv, GraphInv, SubsHome
<1>4. QED
  BY <1>1, <1>3 DEF Started, Left, Mine

\* No tile of a kernel is issued while a kernel launched before it, in its partition, has a
\* tile left to issue: only the head of a queue is started, and it is the oldest there.
THEOREM KernelsInTurnHolds == Spec => []KernelsInTurn
<1>1. SchedInv => KernelsInTurn
  <2> SUFFICES ASSUME SchedInv, NEW m \in 1..pos, NEW n \in 1..pos,
                      m < n, {script[m], script[n]} \subseteq Accepted,
                      KernelPart[script[m]] = KernelPart[script[n]],
                      KernelTiles(script[n]) \cap Handed # {}
               PROVE  KernelTiles(script[m]) \subseteq Handed
    BY DEF KernelsInTurn
  <2>0. QueuesRight /\ LaunchOrder /\ NothingDropped /\ TypeOK /\ KernelAssumption /\ ScriptAssumption
    BY SchedulerKernels, SchedulerScripts DEF SchedInv, TileInv, QueueInv
  <2>1. PICK p \in Partition : p = KernelPart[script[m]] /\ p = KernelPart[script[n]]
    BY DEF Accepted
  <2>2. {script[m], script[n]} \subseteq Kernel
    BY <2>0, LaunchedKernels DEF Accepted, TypeOK
  <2>3. CASE script[m] \notin ToSet(queue[p])
    BY <2>0, <2>1, <2>3 DEF NothingDropped
  <2>4. CASE script[m] \in ToSet(queue[p])
    <3>1. queue[p] \in Seq(Kernel) /\ Len(queue[p]) \in Nat
      BY <2>0, LenProperties DEF TypeOK
    <3>2. PICK i \in 1..Len(queue[p]) : queue[p][i] = script[m]
      BY <2>4, <3>1, ToSetElems DEF Elems
    <3>3. PICK j \in (i + 1)..Len(queue[p]) : queue[p][j] = script[n]
      BY <2>0, <2>1, <2>2, <3>2 DEF LaunchOrder, Follows
    <3>4. j \in 1..Len(queue[p]) /\ j > 1
      BY <3>1
    <3>5. ~Started(script[n])
      BY <2>0, <3>3, <3>4 DEF QueuesRight, QueueOf
    <3>6. Started(script[n])
      BY <2>0, <2>2, HandedStarted
    <3>7. QED
      BY <3>5, <3>6
  <2>5. QED
    BY <2>3, <2>4
<1>2. QED
  BY <1>1, SchedCorrect, PTL

-------------------------------------------------------------------------------
(* Synchronization *)

\* A kernel that has a subgraph and has not been started is not finished.
LEMMA FreshBusy ==
  ASSUME NEW k \in Kernel, NEW r, ~Started(k), SubsOf[k] # <<>>
  PROVE  ~GraphFinished(k, r)
BY DEF Started, GraphFinished

\* A null kernel that is launched into an empty queue leaves it at once, and no other kernel
\* finds a finished one in front of it.
LEMMA BusyLaunch ==
  ASSUME KernelAssumption, ScriptAssumption, NullsLead, SchedInv, HeadsBusy,
         NEW k \in Kernel, Launch(k)
  PROVE  HeadsBusy'
<1>0. TypeOK /\ script \in Scripts /\ pos \in 0..Len(script) /\ QueuesRight /\ SubsPlaced
  BY DEF SchedInv, TileInv, GraphInv, QueueInv, TypeOK
<1>1. pos < Len(script) /\ script[pos + 1] = k /\ k \notin Launched
  BY <1>0, LaunchedOnce
<1>2. /\ unallocated' = unallocated /\ assigned' = assigned /\ ready' = ready /\ blocked' = blocked
      /\ queue' = IF KernelPart[k] \in Partition
                  THEN [queue EXCEPT ![KernelPart[k]] = Refresh(Append(@, k), ready)] ELSE queue
  BY DEF Launch, tileVars
<1>3. ASSUME NEW q, BusyQueue(q) PROVE BusyQueue(q)'
  BY <1>2, <1>3 DEF BusyQueue, GraphFinished, SubDone
<1>4. ASSUME NEW p \in Partition, queue'[p] = queue[p] PROVE BusyQueue(queue[p])'
  <2>1. PICK q : q = queue[p]
    OBVIOUS
  <2>2. BusyQueue(q)'
    BY <1>3, <2>1 DEF HeadsBusy
  <2>3. QED
    BY <1>4, <2>1, <2>2 DEF BusyQueue
<1>5. ASSUME NEW p \in Partition, p = KernelPart[k] PROVE BusyQueue(queue[p])'
  <2>1. PICK q \in Seq(Kernel) : q = queue[p]
    BY <1>0 DEF TypeOK
  <2>2. PICK a \in Seq(Kernel) : a = Append(q, k)
    BY AppendProperties
  <2>3. queue'[p] = Refresh(a, ready)
    BY <1>0, <1>2, <1>5, <2>1, <2>2 DEF TypeOK
  <2>4. /\ Len(q) \in Nat /\ Len(a) = Len(q) + 1 /\ a # <<>>
        /\ \A i \in 1..Len(q) : a[i] = q[i]
        /\ a[Len(q) + 1] = k
    BY <2>2, AppendProperties, LenProperties, EmptySeq
  <2>5. BusyQueue(q) /\ QueueOf(q, p)
    BY <1>0, <2>1 DEF HeadsBusy, QueuesRight
  <2>6. SubsOf[k] = <<>> => Len(q) = 0
    <3> SUFFICES ASSUME SubsOf[k] = <<>>, Len(q) # 0 PROVE FALSE
      OBVIOUS
    <3>1. 1 \in 1..Len(q) /\ q[1] \in Kernel
      BY <2>4, ElementOfSeq
    <3>2. q[1] \in Launched /\ KernelPart[q[1]] = p
      BY <2>5, <3>1 DEF QueueOf
    <3>3. PICK m \in 1..pos : script[m] = q[1]
      BY <3>2 DEF Launched
    <3>4. Len(script) \in Nat /\ m \in 1..Len(script) /\ pos + 1 \in 1..Len(script) /\ m < pos + 1
      BY <1>0, <1>1, LenProperties DEF ScriptAssumption
    <3>5. QED
      BY <1>0, <1>1, <1>5, <3>1, <3>2, <3>3, <3>4 DEF NullsLead
  <2>7. SubsOf[k] = <<>> => GraphFinished(k, ready)
    <3> SUFFICES ASSUME SubsOf[k] = <<>> PROVE GraphFinished(k, ready)
      OBVIOUS
    <3>1. unallocated[k] = <<>>
      BY <1>0, <1>1 DEF QueuesRight, Accepted, Started
    <3>2. Mine(k) = {}
      BY ElemsEmpty, MineOnce DEF Mine
    <3>3. \A c \in Core, m \in Slot : assigned[k][c][m] = None
      BY <1>0, <3>2 DEF SubsPlaced
    <3>4. QED
      BY <3>1, <3>3 DEF GraphFinished
  <2>8. CASE queue'[p] = a /\ ~GraphFinished(a[1], ready)
    <3>1. Len(q) = 0 => a[1] = k
      BY <2>4
    <3>2. SubsOf[k] # <<>>
      BY <2>6, <2>7, <2>8, <3>1
    <3>3. \A j \in 1..Len(a) : SubsOf[a[j]] # <<>>
      <4>1. \A j \in 1..Len(a) : j \in 1..Len(q) \/ j = Len(q) + 1
        BY <2>4
      <4>2. QED
        BY <2>4, <2>5, <3>2, <4>1 DEF BusyQueue
    <3>4. BusyQueue(a)
      BY <2>8, <3>3 DEF BusyQueue
    <3>5. BusyQueue(a)'
      BY <1>3, <3>4
    <3>6. QED
      BY <2>8, <3>5 DEF BusyQueue
  <2>9. CASE queue'[p] = Tail(a) /\ GraphFinished(a[1], ready)
    <3>1. Len(q) = 0
      <4>1. Len(q) # 0 => a[1] = q[1] /\ 1 \in 1..Len(q)
        BY <2>4
      <4>2. QED
        BY <2>4, <2>5, <2>9, <4>1 DEF BusyQueue
    <3>2. Len(queue'[p]) = 0
      BY <2>4, <2>9, <3>1, HeadTailProperties
    <3>3. QED
      BY <3>2 DEF BusyQueue
  <2>10. QED
    BY <2>3, <2>4, <2>8, <2>9, RefreshCases
<1>6. ASSUME NEW p \in Partition, p # KernelPart[k] PROVE queue'[p] = queue[p]
  BY <1>0, <1>2, <1>6 DEF TypeOK
<1>7. ASSUME NEW p \in Partition PROVE BusyQueue(queue[p])'
  BY <1>4, <1>5, <1>6
<1>8. QED
  BY <1>7 DEF HeadsBusy

\* The kernel at the head of a queue stays unfinished, or leaves it, when a tile is handed out.
LEMMA BusyIssue ==
  ASSUME ConfigAssumption, KernelAssumption, ScriptAssumption, SchedInv, HeadsBusy,
         NEW c \in Core, NEW t \in Tile, Issue(c, t), TypeOK'
  PROVE  HeadsBusy'
<1>0. TypeOK /\ QueuesRight /\ SubsPlaced /\ TilesSomewhere
  BY DEF SchedInv, TileInv, GraphInv, QueueInv
<1>1. PICK p \in Partition : p = CorePart[c]
  BY DEF ConfigAssumption
<1>2. PICK q \in Seq(Kernel) : q = queue[p]
  BY <1>0 DEF TypeOK
<1>3. /\ queue'[p] = Refresh(q, ready') /\ \A o \in Partition : o # p => queue'[o] = queue[o]
      /\ unallocated' = unallocated /\ assigned' = assigned /\ blocked' = blocked /\ q # <<>>
  BY <1>0, <1>1, <1>2 DEF Issue, TypeOK, HasKernel
<1>4. PICK b \in Seq(Kernel) : b = Tail(q)
  BY <1>3, HeadTailProperties
<1>5. QueueOf(q, p) /\ BusyQueue(q)
  BY <1>0, <1>2 DEF QueuesRight, HeadsBusy
<1>6. /\ KernelFor(c) \in Kernel /\ KernelPart[KernelFor(c)] = p
      /\ Here(c) \in Mine(KernelFor(c)) /\ Here(c) \in Sub
  <2>1. /\ KernelFor(c) = q[1] /\ KernelFor(c) \in Kernel /\ slot \in Slot /\ Here(c) \in Sub
    BY <1>0, <1>1, <1>2, HereType DEF Issue
  <2>2. 1 \in 1..Len(q)
    BY <1>3, EmptySeq, LenProperties
  <2>3. Here(c) \in Mine(KernelFor(c))
    BY <1>0, <2>1 DEF SubsPlaced, Here, KernelAssumption
  <2>4. QED
    BY <1>5, <2>1, <2>2, <2>3 DEF QueueOf
<1>7. \A s \in Sub : s # Here(c) => ready'[s] = ready[s]
  BY <1>0, IssueMoves
<1>8. ASSUME NEW l \in Kernel, KernelPart[l] # p, ~GraphFinished(l, ready)
      PROVE  ~GraphFinished(l, ready')
  <2>1. ASSUME NEW d \in Core, NEW m \in Slot, assigned[l][d][m] # None
        PROVE  SubDone(assigned[l][d][m], ready') <=> SubDone(assigned[l][d][m], ready)
    <3>1. assigned[l][d][m] \in Mine(l) /\ assigned[l][d][m] \in Sub
      BY <1>0, <2>1, MineOnce DEF SubsPlaced
    <3>2. assigned[l][d][m] # Here(c)
      BY <1>6, <1>8, <3>1, MineApart
    <3>3. QED
      BY <1>7, <3>1, <3>2 DEF SubDone
  <2>2. QED
    BY <1>8, <2>1 DEF GraphFinished
<1>9. \A k \in Kernel : GraphFinished(k, ready)' <=> GraphFinished(k, ready')
  BY <1>3 DEF GraphFinished, SubDone
<1>10. ASSUME NEW o \in Partition, o # p PROVE BusyQueue(queue[o])'
  <2>1. PICK r \in Seq(Kernel) : r = queue[o]
    BY <1>0 DEF TypeOK
  <2>2. QueueOf(r, o) /\ BusyQueue(r)
    BY <1>0, <2>1 DEF QueuesRight, HeadsBusy
  <2>3. ASSUME NEW j \in 1..Len(r) PROVE SubsOf[r[j]] # <<>> /\ (j = 1 => ~GraphFinished(r[j], ready'))
    <3>1. r[j] \in Kernel /\ KernelPart[r[j]] # p
      BY <1>10, <2>2, ElementOfSeq DEF QueueOf
    <3>2. QED
      BY <1>8, <2>2, <3>1 DEF BusyQueue
  <2>4. queue'[o] = r
    BY <1>3, <1>10, <2>1
  <2>5. \A j \in 1..Len(r) : r[j] \in Kernel
    BY ElementOfSeq
  <2>6. QED
    BY <1>9, <2>3, <2>4, <2>5 DEF BusyQueue
<1>11. BusyQueue(queue[p])'
  <2>0. \A j \in 1..Len(q) : q[j] \in Kernel
    BY ElementOfSeq
  <2>00. \A j \in 1..Len(b) : b[j] \in Kernel
    BY ElementOfSeq
  <2>1. CASE queue'[p] = q /\ ~GraphFinished(q[1], ready')
    BY <1>5, <1>9, <2>0, <2>1 DEF BusyQueue
  <2>2. CASE queue'[p] = b
    <3>1. \A j \in 1..Len(b) : ~Started(b[j])
      BY <1>3, <1>4, <1>5, PopKeeps
    <3>2. \A j \in 1..Len(b) : SubsOf[b[j]] # <<>>
      <4>1. Len(q) \in Nat \ {0} /\ Len(b) = Len(q) - 1 /\ \A j \in 1..Len(b) : b[j] = q[j + 1]
        BY <1>3, <1>4, HeadTailProperties, EmptySeq, LenProperties
      <4>2. \A j \in 1..Len(b) : j + 1 \in 1..Len(q)
        BY <4>1
      <4>3. QED
        BY <1>5, <4>1, <4>2 DEF BusyQueue
    <3>3. \A j \in 1..Len(b) : ~GraphFinished(b[j], ready')
      BY <2>00, <3>1, <3>2, FreshBusy
    <3>4. QED
      BY <1>9, <2>00, <2>2, <3>2, <3>3 DEF BusyQueue
  <2>3. QED
    BY <1>3, <1>4, <2>1, <2>2, RefreshCases
<1>12. ASSUME NEW o \in Partition PROVE BusyQueue(queue[o])'
  <2>1. CASE o = p
    BY <1>11, <2>1
  <2>2. CASE o # p
    BY <1>10, <2>2
  <2>3. QED
    BY <2>1, <2>2
<1>13. QED
  BY <1>12 DEF HeadsBusy

\* A subgraph that has just been allocated has all its tiles to issue.
LEMMA BusyAllocate ==
  ASSUME ConfigAssumption, KernelAssumption, SchedInv, HeadsBusy, NEW c \in Core, Allocate(c)
  PROVE  HeadsBusy'
<1>0. TypeOK /\ QueuesRight /\ SubsPlaced /\ SubsHome /\ TilesSomewhere
  BY DEF SchedInv, TileInv, GraphInv, QueueInv
<1>1. PICK k \in Kernel : k = KernelFor(c)
  BY <1>0, AllocateMoves
<1>2. /\ slot \in Slot /\ Here(c) = assigned[k][c][slot] /\ (Here(c) # None => SubDone(Here(c), ready))
      /\ \A l \in Kernel, d \in Core, m \in Slot : <<l, d, m>> # <<k, c, slot>> =>
           assigned'[l][d][m] = assigned[l][d][m]
      /\ \A l \in Kernel : l # k => unallocated'[l] = unallocated[l]
      /\ \/ assigned'[k][c][slot] = None /\ unallocated' = unallocated
         \/ \E s \in Left(k) : assigned'[k][c][slot] = s
      /\ ready' = ready /\ blocked' = blocked /\ queue' = queue
  BY <1>0, <1>1, AllocateMoves
<1>3. ASSUME NEW l \in Kernel, l # k PROVE GraphFinished(l, ready)' <=> GraphFinished(l, ready)
  <2>1. unallocated'[l] = unallocated[l] /\ ready' = ready /\ blocked' = blocked
        /\ \A d \in Core, m \in Slot : assigned'[l][d][m] = assigned[l][d][m]
    BY <1>2, <1>3
  <2>2. ASSUME NEW d \in Core, NEW m \in Slot
        PROVE  (assigned'[l][d][m] # None => SubDone(assigned[l][d][m], ready)') <=>
               (assigned[l][d][m] # None => SubDone(assigned[l][d][m], ready))
    BY <2>1 DEF SubDone
  <2>3. QED
    BY <2>1, <2>2 DEF GraphFinished
<1>4. ASSUME GraphFinished(k, ready)' PROVE GraphFinished(k, ready)
  <2>1. unallocated'[k] = <<>> /\ \A d \in Core, m \in Slot :
          assigned'[k][d][m] # None => SubDone(assigned'[k][d][m], ready)
    BY <1>2, <1>4 DEF GraphFinished, SubDone
  <2>2. CASE assigned'[k][c][slot] = None /\ unallocated' = unallocated
    <3>1. ASSUME NEW d \in Core, NEW m \in Slot, assigned[k][d][m] # None
          PROVE  SubDone(assigned[k][d][m], ready)
      <4>1. CASE <<d, m>> = <<c, slot>>
        BY <1>2, <3>1, <4>1
      <4>2. CASE <<d, m>> # <<c, slot>>
        BY <1>2, <2>1, <3>1, <4>2
      <4>3. QED
        BY <4>1, <4>2
    <3>2. QED
      BY <2>1, <2>2, <3>1 DEF GraphFinished
  <2>3. ASSUME NEW s \in Left(k), assigned'[k][c][slot] = s PROVE FALSE
    <3>1. s \in Sub /\ s # None
      BY <1>0, MineOnce DEF SubsPlaced
    <3>2. ready[s] = {} /\ blocked[s] = {}
      BY <1>2, <2>1, <2>3, <3>1 DEF SubDone
    <3>3. PICK t \in TilesOf[s] : t \in Handed
      <4>1. TilesOf[s] # {}
        BY <3>1 DEF KernelAssumption
      <4>2. QED
        BY <1>0, <3>1, <3>2, <4>1 DEF TilesSomewhere
    <3>4. PICK d \in Core : t \in HandedTo(d)
      BY <3>3 DEF Handed
    <3>5. QED
      BY <1>0, <2>3, <3>1, <3>4 DEF SubsHome
  <2>4. QED
    BY <1>2, <2>2, <2>3
<1>5. ASSUME NEW p \in Partition PROVE BusyQueue(queue[p])'
  <2>1. PICK q \in Seq(Kernel) : q = queue[p]
    BY <1>0 DEF TypeOK
  <2>2. BusyQueue(q) /\ \A j \in 1..Len(q) : q[j] \in Kernel
    BY <2>1, ElementOfSeq DEF HeadsBusy
  <2>3. \A l \in Kernel : ~GraphFinished(l, ready) => ~GraphFinished(l, ready)'
    BY <1>3, <1>4
  <2>4. queue'[p] = q
    BY <1>2, <2>1
  <2>5. QED
    BY <2>2, <2>3, <2>4 DEF BusyQueue
<1>6. QED
  BY <1>5 DEF HeadsBusy

\* It does so in every other step too.
LEMMA BusyStep ==
  ASSUME ConfigAssumption, KernelAssumption, ScriptAssumption, NullsLead, SchedInv, HeadsBusy, [Next]_vars
  PROVE  HeadsBusy'
<1>0. TypeOK /\ TypeOK' /\ SubsPlaced /\ TileInv
  BY TileStep DEF SchedInv, TileInv, GraphInv
<1>1. ASSUME NEW k \in Kernel, Launch(k) PROVE HeadsBusy'
  BY <1>1, BusyLaunch
<1>2. ASSUME NEW c \in Core, NEW t \in Tile, Issue(c, t) PROVE HeadsBusy'
  BY <1>0, <1>2, BusyIssue
<1>3. ASSUME NEW c \in Core, Allocate(c) PROVE HeadsBusy'
  BY <1>3, BusyAllocate
<1>4. CASE /\ ~ \E k \in Kernel : Launch(k)
           /\ ~ \E c \in Core, t \in Tile : Issue(c, t)
           /\ ~ \E c \in Core : Allocate(c)
  <2>1. /\ unallocated' = unallocated /\ assigned' = assigned
        /\ \A s \in Sub : ready'[s] \cup blocked'[s] = ready[s] \cup blocked[s]
    BY <1>0, <1>4, OtherSteps
  <2>2. queue' = queue
    <3>1. CASE DeviceSync \/ EndOfTrace \/ Stop \/ StartCycle \/ Over \/ UNCHANGED vars
      BY <3>1 DEF DeviceSync, EndOfTrace, Stop, StartCycle, Over, vars, graphVars
    <3>2. ASSUME NEW c \in Core, Pass(c) \/ GiveBack(c) \/ Finish(c) \/ Work(c) PROVE queue' = queue
      BY <3>2 DEF Pass, GiveBack, Finish, Work, graphVars
    <3>3. QED
      BY <1>4, <3>1, <3>2 DEF Next, Read, Cycle, Visit
  <2>3. \A s \in Sub : SubDone(s, ready)' <=> SubDone(s, ready)
    <3>1. ASSUME NEW s \in Sub PROVE SubDone(s, ready)' <=> SubDone(s, ready)
      <4>1. ready'[s] \cup blocked'[s] = ready[s] \cup blocked[s]
        BY <2>1
      <4>2. QED
        BY <4>1 DEF SubDone
    <3>2. QED
      BY <3>1
  <2>4. \A l \in Kernel : GraphFinished(l, ready)' <=> GraphFinished(l, ready)
    <3>1. \A l \in Kernel, d \in Core, m \in Slot : assigned[l][d][m] \in Sub \cup {None}
      BY <1>0 DEF TypeOK, Location
    <3>2. QED
      BY <2>1, <2>3, <3>1 DEF GraphFinished
  <2>5. ASSUME NEW p \in Partition PROVE BusyQueue(queue[p])'
    <3>1. BusyQueue(queue[p]) /\ \A j \in 1..Len(queue[p]) : queue[p][j] \in Kernel
      BY <1>0, ElementOfSeq DEF HeadsBusy, TypeOK
    <3>2. QED
      BY <2>2, <2>4, <3>1 DEF BusyQueue
  <2>6. QED
    BY <2>5 DEF HeadsBusy
<1>5. QED
  BY <1>1, <1>2, <1>3, <1>4

\* When no core is running and none has anything to take, every queue is empty.
LEMMA StoppedEmpty ==
  ASSUME ConfigAssumption, KernelAssumption, SchedInv, HeadsBusy, ~Running, NEW p \in Partition
  PROVE  queue[p] = <<>>
<1> SUFFICES ASSUME queue[p] # <<>> PROVE FALSE
  OBVIOUS
<1>0. QueuesRight /\ SubsPlaced /\ queue[p] \in Seq(Kernel)
  BY DEF SchedInv, TileInv, GraphInv, QueueInv, TypeOK
<1>1. PICK k \in Kernel : k = queue[p][1] /\ k = Head(queue[p]) /\ 1 \in 1..Len(queue[p])
  BY <1>0, ElementOfSeq, EmptySeq, LenProperties, HeadTailProperties
<1>2. KernelPart[k] = p /\ SubsOf[k] # <<>> /\ ~GraphFinished(k, ready)
  BY <1>0, <1>1 DEF QueuesRight, QueueOf, HeadsBusy, BusyQueue
<1>3. \A c \in Core : CorePart[c] = p =>
        unallocated[k] = <<>> /\ \A m \in Slot : assigned[k][c][m] = None
  BY <1>1 DEF Running, NothingFor
<1>4. PICK s \in Mine(k) : TRUE
  BY <1>2, MineOnce, ElemsEmpty DEF Mine
<1>5. PICK c \in Core : CorePart[c] = KernelPart[k]
  BY <1>4, MineOnce, ToSetElems DEF Mine, KernelAssumption
<1>6. unallocated[k] = <<>>
  BY <1>2, <1>3, <1>5
<1>7. ASSUME NEW d \in Core, NEW m \in Slot PROVE assigned[k][d][m] = None
  BY <1>0, <1>2, <1>3 DEF SubsPlaced
<1>8. QED
  BY <1>2, <1>6, <1>7 DEF GraphFinished

\* Simulator::cycle returns when nothing runs; then every kernel launched so far is done.
LEMMA SyncStep ==
  ASSUME ConfigAssumption, KernelAssumption, ScriptAssumption, SchedInv, HeadsBusy,
         SyncComplete, [Next]_vars
  PROVE  SyncComplete'
<1> SUFFICES ASSUME Synced' PROVE (\A k \in Accepted : KernelTiles(k) \subseteq LeftCore)'
  BY DEF SyncComplete
<1>0. TypeOK /\ NothingDropped /\ Launched \subseteq Kernel /\ pos \in Nat
  BY LaunchedKernels DEF SchedInv, TileInv, QueueInv, TypeOK
<1>1. ~DeviceSync /\ ~EndOfTrace
  BY DEF DeviceSync, EndOfTrace, Synced
<1>2. ASSUME NEW k \in Kernel, Launch(k) PROVE FALSE
  <2>1. mode' = "reading" /\ pos' = pos + 1 /\ script' = script /\ script[pos + 1] = k
    BY <1>2 DEF Launch
  <2>2. script'[pos'] # Sync
    BY <2>1 DEF KernelAssumption
  <2>3. QED
    BY <2>1, <2>2 DEF Synced
<1>3. CASE Stop
  <2>1. ~Running /\ UNCHANGED <<script, pos, graphVars, coreVars>>
    BY <1>3 DEF Stop
  <2>2. \A p \in Partition : queue[p] = <<>>
    BY <2>1, StoppedEmpty
  <2>3. \A k \in Accepted : KernelTiles(k) \subseteq Handed
    <3>1. ASSUME NEW k \in Accepted PROVE k \notin ToSet(queue[KernelPart[k]])
      <4>1. queue[KernelPart[k]] = <<>>
        BY <2>2 DEF Accepted
      <4>2. queue[KernelPart[k]] \in Seq(Kernel)
        BY <1>0 DEF TypeOK, Accepted
      <4>3. QED
        BY <4>1, <4>2, ToSetElems, ElemsEmpty
    <3>2. QED
      BY <1>0, <3>1 DEF NothingDropped
  <2>4. Handed \subseteq LeftCore
    BY <2>1 DEF Handed, HandedTo, LeftCore, Running
  <2>5. Accepted' = Accepted /\ LeftCore' = LeftCore
    BY <2>1 DEF Accepted, Launched, LeftCore, coreVars
  <2>6. QED
    BY <2>3, <2>4, <2>5 DEF KernelTiles
<1>4. CASE Over \/ UNCHANGED vars
  <2>1. UNCHANGED <<script, pos, mode, coreVars>>
    BY <1>4 DEF Over, vars, traceVars
  <2>2. Synced
    BY <2>1 DEF Synced
  <2>3. Accepted' = Accepted /\ LeftCore' = LeftCore
    BY <2>1 DEF Accepted, Launched, LeftCore, coreVars
  <2>4. QED
    BY <2>2, <2>3 DEF SyncComplete, KernelTiles
<1>5. CASE Cycle
  <2>1. mode = "cycling" /\ mode' = mode
    <3>1. CASE StartCycle
      BY <3>1 DEF StartCycle, traceVars
    <3>2. ASSUME NEW c \in Core, Visit(c) PROVE mode = "cycling" /\ mode' = mode
      BY <3>2 DEF Visit, Pass, Allocate, Issue, Visiting, traceVars
    <3>3. ASSUME NEW c \in Core, GiveBack(c) \/ Finish(c) \/ Work(c) PROVE mode = "cycling" /\ mode' = mode
      BY <3>3 DEF GiveBack, Finish, Work, AtCore, traceVars
    <3>4. QED
      BY <1>5, <3>1, <3>2, <3>3 DEF Cycle
  <2>2. QED
    BY <2>1 DEF Synced
<1>6. QED
  BY <1>1, <1>2, <1>3, <1>4, <1>5 DEF Next, Read

\* When Simulator::cycle returns, at a DEVICE_SYNC and at the end of the trace, every tile
\* of every kernel launched so far has left its core, provided no null kernel is launched
\* behind another kernel of its partition: refresh_status drops one finished graph, and
\* only when a kernel is launched or a tile taken, so that a null kernel that comes to the
\* front of a queue hides the kernels behind it from Simulator::running.
THEOREM SyncCompleteHolds == Spec /\ NullsLead => []SyncComplete
<1>1. Init => HeadsBusy /\ SyncComplete
  <2> SUFFICES ASSUME Init PROVE HeadsBusy /\ SyncComplete
    OBVIOUS
  <2>1. \A p \in Partition : Len(queue[p]) = 0
    BY EmptySeq DEF Init
  <2>2. ~Synced
    BY DEF Init, Synced
  <2>3. QED
    BY <2>1, <2>2 DEF HeadsBusy, BusyQueue, SyncComplete
<1>2. NullsLead /\ SchedInv /\ HeadsBusy /\ SyncComplete /\ [Next]_vars => HeadsBusy' /\ SyncComplete'
  BY BusyStep, SyncStep, SchedulerConfig, SchedulerKernels, SchedulerScripts
<1>3. NullsLead => NullsLead'
  BY DEF NullsLead
<1>4. QED
  BY <1>1, <1>2, <1>3, SchedCorrect, PTL DEF Spec
===============================================================================
