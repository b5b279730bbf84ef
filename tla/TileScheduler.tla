---------------------------- MODULE TileScheduler ----------------------------
(***************************************************************************)
(* From the commands of a trace file to tiles on cores: process_trace_file *)
(* (TOGSim/src/main.cc), Simulator::cycle and Simulator::core_cycle        *)
(* (Simulator.cc), the schedulers of the partitions                        *)
(* (scheduler/Scheduler.cc), the graph of a kernel with its subgraphs      *)
(* (TileGraph.cc) and the dependencies between tiles (Tile.cc).            *)
(*                                                                         *)
(* A kernel is a queue of subgraphs; a slot of a core takes one subgraph   *)
(* at a time and issues its tiles as they become ready.  A core is what    *)
(* module TileService says of it: it finishes its tiles in any order.      *)
(* Cores are WS_MESH cores and kernels are not Stonne graphs.              *)
(***************************************************************************)
EXTENDS Integers, FiniteSets, SequencesExt

CONSTANTS
  NumCores,     \* num_cores; cores are numbered from 1 here
  NumSlots,     \* Simulator::_max_slot, the literal 2
  TileSlots,    \* the literal 4 in Core::can_issue
  Partition,    \* the request queues
  CorePart,     \* [Core -> Partition], the map "partition" of the configuration
  Kernel, Sub, Tile,
  None,         \* the null shared_ptr
  Sync,         \* the command DEVICE_SYNC; a LAUNCH_KERNEL is named by its kernel
  KernelPart,   \* [Kernel -> Int], the stream_index of the launch
  Timestamp,    \* [Kernel -> Nat], the timestamp of the launch, 0 for "now"
  SubsOf,       \* [Kernel -> Seq(Sub)], empty for a null kernel
  BoundTo,      \* [Sub -> Core \cup {-1}], TileSubGraph::_core_id
  TilesOf,      \* [Sub -> SUBSET Tile]
  Children,     \* [Tile -> SUBSET Tile], Tile::_child_tiles
  Scripts,      \* the trace files: sequences of kernels and Sync
  Horizon       \* bound: _core_cycles is not told apart above it

Core == 1..NumCores
Slot == 1..NumSlots

ConfigAssumption ==
  /\ NumCores \in Nat \ {0} /\ NumSlots \in Nat \ {0} /\ TileSlots \in Nat \ {0}
  /\ CorePart \in [Core -> Partition]
\* Every subgraph has a tile (get_tiles_from_iter makes one before anything else), belongs
\* to one kernel, once, and may run on a core of that kernel's partition.
KernelAssumption ==
  /\ IsFiniteSet(Tile) /\ None \notin Sub /\ Sync \notin Kernel
  /\ KernelPart \in [Kernel -> Int] /\ Timestamp \in [Kernel -> 0..Horizon] /\ Horizon \in Nat \ {0}
  /\ SubsOf \in [Kernel -> Seq(Sub)]
  /\ \A k, l \in Kernel : \A m \in 1..Len(SubsOf[k]), n \in 1..Len(SubsOf[l]) :
       SubsOf[k][m] = SubsOf[l][n] => k = l /\ m = n
  /\ TilesOf \in [Sub -> SUBSET Tile] /\ \A s \in Sub : TilesOf[s] # {}
  /\ \A s, r \in Sub : s # r => TilesOf[s] \cap TilesOf[r] = {}
  /\ \A k \in Kernel : \A s \in ToSet(SubsOf[k]) :
       \E c \in Core : CorePart[c] = KernelPart[k] /\ BoundTo[s] \in {-1, c}
  /\ Children \in [Tile -> SUBSET Tile]
  /\ \A s \in Sub : \A t \in TilesOf[s] : Children[t] \subseteq TilesOf[s]
ScriptAssumption ==
  \A script \in Scripts :
    /\ script \in Seq(Kernel \cup {Sync})
    /\ \A m, n \in 1..Len(script) : script[m] = script[n] /\ m # n => script[m] = Sync

ASSUME SchedulerConfig == ConfigAssumption
ASSUME SchedulerKernels == KernelAssumption
ASSUME SchedulerScripts == ScriptAssumption

VARIABLES
  script,       \* the trace file
  pos,          \* how many of its commands have been read
  mode,         \* "reading" commands, "cycling" in Simulator::cycle, "over" after the last
  last,         \* cycle() runs for the end of the trace
  now,          \* _core_cycles
  step,         \* how far Simulator::core_cycle has got
  slot, core,   \* its loop variables
  queue,        \* [Partition -> Seq(Kernel)], Scheduler::_tile_graph
  unallocated,  \* [Kernel -> Seq(Sub)], TileGraph::_subgraph_vec
  assigned,     \* [Kernel -> [Core -> [Slot -> Sub or None]]], TileGraph::_cpu_graph_map
  ready,        \* [Sub -> SUBSET Tile], TileSubGraph::_ready_tile_queue
  blocked,      \* [Sub -> SUBSET Tile], TileSubGraph::_tile_set
  parents,      \* [Tile -> Nat], Tile::_ready_counter
  held,         \* [Core -> SUBSET Tile], the tiles of a core
  done,         \* [Core -> Seq(Tile)], its finished tiles
  returned      \* [Core -> SUBSET Tile], those it has given back

traceVars == <<script, pos, mode, last>>
loopVars  == <<now, step, slot, core>>
graphVars == <<queue, unallocated, assigned>>
tileVars  == <<ready, blocked, parents>>
coreVars  == <<held, done, returned>>
vars == <<traceVars, loopVars, graphVars, tileVars, coreVars>>

ParentsOf(t) == {p \in Tile : t \in Children[p]}

\* What TileGraphParser builds: TileSubGraph::add_tile sorts the tiles by their counter.
Init ==
  /\ script \in Scripts /\ pos = 0 /\ mode = "reading" /\ last = FALSE
  /\ now = 0 /\ step = "begin" /\ slot = 1 /\ core = 1
  /\ queue = [p \in Partition |-> <<>>]
  /\ unallocated = SubsOf
  /\ assigned = [k \in Kernel |-> [c \in Core |-> [s \in Slot |-> None]]]
  /\ parents = [t \in Tile |-> Cardinality(ParentsOf(t))]
  /\ ready = [s \in Sub |-> {t \in TilesOf[s] : parents[t] = 0}]
  /\ blocked = [s \in Sub |-> {t \in TilesOf[s] : parents[t] # 0}]
  /\ held = [c \in Core |-> {}] /\ done = [c \in Core |-> <<>>]
  /\ returned = [c \in Core |-> {}]

-------------------------------------------------------------------------------
\* TileSubGraph::is_finished, for ready queues r: it does not ask for running tiles.
FaultySubDone(s, r) == r[s] = {}
SubDone(s, r) == r[s] = {} /\ blocked[s] = {}

\* TileGraph::is_finished
FaultyGraphFinished(k, r) == unallocated[k] = <<>>
GraphFinished(k, r) ==
  /\ unallocated[k] = <<>>
  /\ \A c \in Core, s \in Slot : assigned[k][c][s] # None => SubDone(assigned[k][c][s], r)

\* Scheduler::refresh_status drops the front graph, and only that one.
Refresh(q, r) == IF q # <<>> /\ GraphFinished(Head(q), r) THEN Tail(q) ELSE q

-------------------------------------------------------------------------------
(* process_trace_file *)

\* launchKernel; the exception for a wrong partition is caught, and the command lost.
Launch(k) ==
  /\ mode = "reading" /\ pos < Len(script) /\ script[pos + 1] = k
  /\ pos' = pos + 1
  /\ queue' = IF KernelPart[k] \in Partition
              THEN [queue EXCEPT ![KernelPart[k]] = Refresh(Append(@, k), ready)]
              ELSE queue
  /\ UNCHANGED <<script, mode, last, loopVars, unallocated, assigned, tileVars, coreVars>>

DeviceSync ==
  /\ mode = "reading" /\ pos < Len(script) /\ script[pos + 1] = Sync
  /\ pos' = pos + 1 /\ mode' = "cycling"
  /\ UNCHANGED <<script, last, loopVars, graphVars, tileVars, coreVars>>

EndOfTrace ==
  /\ mode = "reading" /\ pos = Len(script)
  /\ mode' = "cycling" /\ last' = TRUE
  /\ UNCHANGED <<script, pos, loopVars, graphVars, tileVars, coreVars>>

-------------------------------------------------------------------------------
(* Simulator::cycle *)

\* Scheduler::empty(core_id) and TileGraph::empty(core_id)
FaultyNothingFor(c) == queue[CorePart[c]] = <<>> \/ unallocated[Head(queue[CorePart[c]])] = <<>>
NothingFor(c) ==
  LET q == queue[CorePart[c]] IN
    q = <<>> \/ /\ unallocated[Head(q)] = <<>>
                /\ \A s \in Slot : assigned[Head(q)][c][s] = None

\* Simulator::running, as far as the schedulers and the tiles on the cores go
Running == \E c \in Core : held[c] # {} \/ ~NothingFor(c)

\* A core may also be running because responses to its stores are still out, so a
\* cycle may start when Running is false; at the first cycle it always does.
StartCycle ==
  /\ mode = "cycling" /\ step = "begin"
  /\ step' = "issue" /\ slot' = 1 /\ core' = 1
  /\ UNCHANGED <<traceVars, now, graphVars, tileVars, coreVars>>

Stop ==
  /\ mode = "cycling" /\ step = "begin" /\ ~Running /\ now >= 1
  /\ mode' = IF last THEN "over" ELSE "reading"
  /\ UNCHANGED <<script, pos, last, loopVars, graphVars, tileVars, coreVars>>

-------------------------------------------------------------------------------
(* Simulator::core_cycle, first part: for each slot in turn, visit the cores in *)
(* order until one of them gets a tile.                                         *)
Visiting(c) == mode = "cycling" /\ step = "issue" /\ core = c
KernelFor(c) == Head(queue[CorePart[c]])
Here(c) == assigned[KernelFor(c)][c][slot]

\* Scheduler::peek_tile: a kernel that has not arrived yet also holds up those behind it.
HasKernel(c) == queue[CorePart[c]] # <<>> /\ Timestamp[KernelFor(c)] <= now
NeedsSub(c) == Here(c) # None => SubDone(Here(c), ready)

MoreSlots == slot < NumSlots

NextSlot ==
  /\ core' = 1
  /\ IF MoreSlots THEN slot' = slot + 1 /\ step' = step ELSE slot' = 1 /\ step' = "back"
NextCore ==
  IF core < NumCores THEN core' = core + 1 /\ UNCHANGED <<slot, step>> ELSE NextSlot

\* Core::can_issue
FaultyCanIssue(c) == Cardinality(held[c]) <= TileSlots
CanIssue(c) == Cardinality(held[c]) < TileSlots

\* Nothing to issue: no kernel has arrived, no tile of the subgraph is ready, or the
\* core has all the tiles it takes.
Pass(c) ==
  /\ Visiting(c)
  /\ HasKernel(c) => ~NeedsSub(c) /\ (ready[Here(c)] = {} \/ ~CanIssue(c))
  /\ NextCore
  /\ UNCHANGED <<traceVars, now, graphVars, tileVars, coreVars>>

\* TileGraph::allocate_subgraph: the first subgraph left that may run on this core.
MayRun(s, c) == BoundTo[s] \in {-1, c}

FaultyWithout(subs, n) == subs
Without(subs, n) == RemoveAt(subs, n)

Allocate(c) ==
  /\ Visiting(c) /\ HasKernel(c) /\ NeedsSub(c)
  /\ LET k == KernelFor(c)
         fits == {n \in 1..Len(unallocated[k]) : MayRun(unallocated[k][n], c)}
     IN  IF fits = {} THEN assigned' = [assigned EXCEPT ![k][c][slot] = None] /\ UNCHANGED unallocated
         ELSE \E n \in fits :
                /\ \A m \in fits : n <= m
                /\ assigned' = [assigned EXCEPT ![k][c][slot] = unallocated[k][n]]
                /\ unallocated' = [unallocated EXCEPT ![k] = Without(@, n)]
  /\ NextCore
  /\ UNCHANGED <<traceVars, now, queue, tileVars, coreVars>>

\* Scheduler::get_tile and Core::issue.  The ready tiles of a subgraph are all alike to
\* its priority queue (no tile has a required_sram_size), so any of them may come.
Issue(c, t) ==
  /\ Visiting(c) /\ HasKernel(c) /\ ~NeedsSub(c)
  /\ t \in ready[Here(c)] /\ CanIssue(c)
  /\ ready' = [ready EXCEPT ![Here(c)] = @ \ {t}]
  /\ held' = [held EXCEPT ![c] = @ \cup {t}]
  /\ queue' = [queue EXCEPT ![CorePart[c]] = Refresh(@, ready')]
  /\ NextSlot
  /\ UNCHANGED <<traceVars, now, unallocated, assigned, blocked, parents, done, returned>>

-------------------------------------------------------------------------------
(* Second part: for each core, take back a finished tile and run a cycle. *)

\* Scheduler::finish_tile: the children that wait for no other tile become ready.
FaultyReadyChildren(t) == Children[t]
ReadyChildren(t) == {u \in Children[t] : parents[u] = 1}

GiveBack(c) ==
  /\ mode = "cycling" /\ step = "back" /\ core = c
  /\ IF done[c] = <<>> THEN UNCHANGED <<done, returned, tileVars>>
     ELSE LET t == Head(done[c]) IN
            /\ done' = [done EXCEPT ![c] = Tail(@)]
            /\ returned' = [returned EXCEPT ![c] = @ \cup {t}]
            /\ parents' = [u \in Tile |-> IF u \in Children[t] THEN parents[u] - 1 ELSE parents[u]]
            /\ ready' = [s \in Sub |-> IF t \in TilesOf[s] THEN ready[s] \cup ReadyChildren(t)
                                                          ELSE ready[s]]
            /\ blocked' = [s \in Sub |-> blocked[s] \ ReadyChildren(t)]
  /\ step' = "core"
  /\ UNCHANGED <<traceVars, now, slot, core, graphVars, held>>

EndCore ==
  IF core < NumCores THEN core' = core + 1 /\ step' = "back" /\ UNCHANGED now
  ELSE core' = 1 /\ step' = "begin" /\ now' = IF now < Horizon THEN now + 1 ELSE now

\* Core::cycle finishes one of the core's tiles at most (module Core, action Retire).
AtCore(c) == mode = "cycling" /\ step = "core" /\ core = c
Finish(c) ==
  /\ AtCore(c)
  /\ \E t \in held[c] : /\ held' = [held EXCEPT ![c] = @ \ {t}]
                        /\ done' = [done EXCEPT ![c] = Append(@, t)]
  /\ EndCore
  /\ UNCHANGED <<traceVars, slot, graphVars, tileVars, returned>>

Work(c) ==
  /\ AtCore(c) /\ EndCore
  /\ UNCHANGED <<traceVars, slot, graphVars, tileVars, coreVars>>

-------------------------------------------------------------------------------
Read == (\E k \in Kernel : Launch(k)) \/ DeviceSync \/ EndOfTrace
Visit(c) == Pass(c) \/ Allocate(c) \/ \E t \in Tile : Issue(c, t)
Cycle == StartCycle \/ \E c \in Core : Visit(c) \/ GiveBack(c) \/ Finish(c) \/ Work(c)
Over == mode = "over" /\ UNCHANGED vars
Next == Read \/ Cycle \/ Stop \/ Over

Spec == Init /\ [][Next]_vars

(* One thread runs all of this, so it goes on as long as it can.  Every core that holds *)
(* a tile finishes one in the end, and the stores of the last one are answered in the   *)
(* end (module Core, TileCompletes and Quiesces).                                       *)
Fairness ==
  /\ WF_vars(Read) /\ WF_vars(Cycle)
  /\ \A c \in Core : SF_vars(Finish(c))
  /\ SF_vars(Stop)
FairSpec == Spec /\ Fairness

-------------------------------------------------------------------------------
(* What a trace has to observe for DEVICE_SYNC to wait for all: Scheduler::empty looks at  *)
(* the kernel at the front only, and calls a queue empty that has a null kernel there.     *)

\* Only the first kernel of its partition in a trace may be a null kernel.
NullsLead ==
  \A f \in Scripts : \A m, n \in 1..Len(f) :
    /\ m < n /\ {f[m], f[n]} \subseteq Kernel /\ SubsOf[f[n]] = <<>>
    => KernelPart[f[m]] # KernelPart[f[n]]

-------------------------------------------------------------------------------
(* Properties *)

Location == Sub \cup {None}
TypeOK ==
  /\ script \in Scripts /\ pos \in 0..Len(script)
  /\ mode \in {"reading", "cycling", "over"} /\ last \in BOOLEAN
  /\ now \in 0..Horizon /\ step \in {"begin", "issue", "back", "core"}
  /\ slot \in Slot /\ core \in Core
  /\ queue \in [Partition -> Seq(Kernel)]
  /\ unallocated \in [Kernel -> Seq(Sub)]
  /\ assigned \in [Kernel -> [Core -> [Slot -> Location]]]
  /\ ready \in [Sub -> SUBSET Tile] /\ blocked \in [Sub -> SUBSET Tile]
  /\ parents \in [Tile -> Nat]
  /\ held \in [Core -> SUBSET Tile] /\ done \in [Core -> Seq(Tile)]
  /\ returned \in [Core -> SUBSET Tile]

HandedTo(c) == held[c] \cup ToSet(done[c]) \cup returned[c]
Handed == UNION {HandedTo(c) : c \in Core}
Back == UNION {returned[c] : c \in Core}
LeftCore == UNION {returned[c] \cup ToSet(done[c]) : c \in Core}
KernelTiles(k) == UNION {TilesOf[s] : s \in ToSet(SubsOf[k])}
Launched == {script[n] : n \in {m \in 1..pos : script[m] # Sync}}
Accepted == {k \in Launched : KernelPart[k] \in Partition}

\* A tile goes to a core only when all the tiles it depends on are back, on whichever
\* slot they ran; the counter of Tile::dec_ready_counter counts down once per parent.
ParentsBack == \A t \in Handed : ParentsOf(t) \subseteq Back

\* A subgraph runs on one core, one it is bound to, in one slot at a time: the tag table
\* of the DMA engine is per core, so its tiles could not find their tags elsewhere.
OneHome ==
  /\ \A s \in Sub : \A c, d \in Core :
       TilesOf[s] \cap HandedTo(c) # {} /\ TilesOf[s] \cap HandedTo(d) # {} => c = d
  /\ \A s \in Sub : \A c \in Core : TilesOf[s] \cap HandedTo(c) # {} => BoundTo[s] \in {-1, c}
  /\ \A k \in Kernel : \A c, d \in Core : \A m, n \in Slot :
       assigned[k][c][m] = assigned[k][d][n] /\ assigned[k][c][m] # None => c = d /\ m = n

\* Together, in states of the right type: what a core gets, it may have.
HandedRightly == TypeOK /\ ParentsBack /\ OneHome

\* A kernel that has left its queue has had all its tiles issued: none is dropped with
\* the graph, whose slots may hold tiles that still wait for others.
NothingDropped ==
  \A k \in Accepted : k \notin ToSet(queue[KernelPart[k]]) => KernelTiles(k) \subseteq Handed

\* Kernels of one partition start in the order of their launches: no tile of a later one
\* goes out while an earlier one has a tile left to issue.
KernelsInTurn ==
  \A m, n \in 1..pos :
    /\ m < n /\ {script[m], script[n]} \subseteq Accepted
    /\ KernelPart[script[m]] = KernelPart[script[n]]
    /\ KernelTiles(script[n]) \cap Handed # {}
    => KernelTiles(script[m]) \subseteq Handed

\* "It does not return until every launch_model issued above it has finished in the
\* simulator": when Simulator::cycle returns, all tiles launched so far are off the cores.
Synced == mode = "over" \/ (mode = "reading" /\ pos > 0 /\ script[pos] = Sync)
SyncComplete == Synced => \A k \in Accepted : KernelTiles(k) \subseteq LeftCore

\* Each core is used as TileService allows: a tile comes once and only when a slot is free.
Service(c) == INSTANCE TileService
                WITH Slots <- TileSlots, held <- held[c], done <- done[c], returned <- returned[c]
CoreContract ==
  /\ \A c \in Core : Service(c)!Init
  /\ [][\A c \in Core : [Service(c)!Next]_<<held[c], done[c], returned[c]>>]_coreVars

\* Every trace file is worked through.
TraceEnds == <>(mode = "over")

===============================================================================
