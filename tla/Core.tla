--------------------------------- MODULE Core ---------------------------------
(***************************************************************************)
(* One NPU core of the simulator: TOGSim/src/Core.cc with the DMA engine   *)
(* (DMA.cc), the instructions (Instruction.cc) and the tiles (Tile.cc) it  *)
(* drives.  A core receives tiles, each a dataflow graph of MOVIN, MOVOUT, *)
(* COMP and BAR instructions, and runs one Core::cycle after another:      *)
(* retire compute, run the DMA engine, issue at most one instruction, give *)
(* back at most one finished tile.                                         *)
(*                                                                         *)
(* The simulator is one thread, so nothing happens between two statements  *)
(* of Core::cycle.  "phase" says how far the current cycle has got; the    *)
(* callers of the core (Simulator::core_cycle, Simulator::icnt_cycle) act  *)
(* only in phase "idle".  The memory system behind the request queue is    *)
(* abstract here: it answers requests in any order and after any delay,    *)
(* but never before it has had a cache cycle of its own, which             *)
(* Simulator::core_cycle runs after the core's.                            *)
(***************************************************************************)
EXTENDS Integers, Sequences, FiniteSets

CONSTANTS
  Inst, Tile, Tag,   \* instructions, tiles, tags: a tag is a (subgraph_id, key) pair
  None,              \* the null shared_ptr
  Op,                \* [Inst -> {"MOVIN", "MOVOUT", "COMP", "BAR"}]
  Body,              \* [Tile -> Seq(Inst)], Tile::_instructions
  Owner,             \* [Inst -> Tile], Instruction::_owner
  Kids,              \* [Inst -> SUBSET Inst], Instruction::child_inst
  TagOf,             \* [Inst -> Tag], Instruction::_tag_key with the subgraph_id
  IsAsync, IsSparse, \* [Inst -> BOOLEAN], flags of a MOVIN
  ComputeType,       \* [Inst -> {"VECTOR_UNIT", "MATMUL", "PRELOAD"}]
  Cycles, Overlap,   \* [Inst -> Nat], compute_cycle and overlapping_cycle of a COMP
  Requests,          \* [Inst -> Nat], size of get_dram_address(dram_req_size)
  NumSA,             \* num_systolic_array_per_core
  TileSlots,         \* the literal 4 in Core::can_issue
  Ports              \* icnt_injection_ports_per_core

ProgramAssumption ==
  /\ IsFiniteSet(Inst)
  /\ None \notin Inst
  /\ Op \in [Inst -> {"MOVIN", "MOVOUT", "COMP", "BAR"}]
  /\ Body \in [Tile -> Seq(Inst)]
  /\ Owner \in [Inst -> Tile]
  /\ Kids \in [Inst -> SUBSET Inst]
  /\ TagOf \in [Inst -> Tag]
  /\ IsAsync \in [Inst -> BOOLEAN]
  /\ IsSparse \in [Inst -> BOOLEAN]
  /\ ComputeType \in [Inst -> {"VECTOR_UNIT", "MATMUL", "PRELOAD"}]
  /\ Cycles \in [Inst -> Nat]
  /\ Overlap \in [Inst -> Nat]
  /\ Requests \in [Inst -> Nat]
\* Instructions are linked inside the tile that owns them, and appear in its
\* body exactly once (TileLoopNode::get_tiles_from_iter).
LinkAssumption ==
  /\ \A t \in Tile : \A n \in 1..Len(Body[t]) : Owner[Body[t][n]] = t
  /\ \A i \in Inst : \E n \in 1..Len(Body[Owner[i]]) : Body[Owner[i]][n] = i
  /\ \A t \in Tile : \A m, n \in 1..Len(Body[t]) : Body[t][m] = Body[t][n] => m = n
  /\ \A i \in Inst : \A k \in Kids[i] : Owner[k] = Owner[i]
\* A DMA transfer moves something: no tile_size has a zero dimension.
TransferAssumption == \A i \in Inst : Op[i] \in {"MOVIN", "MOVOUT"} => Requests[i] >= 1
\* The part of a COMP that can overlap the one in front is a part of it
\* (tog_generator.py: max(cycle - offset, 0)).
OverlapAssumption == \A i \in Inst : Overlap[i] <= Cycles[i]
ConfigAssumption ==
  /\ NumSA \in Nat \ {0}
  /\ TileSlots \in Nat \ {0}
  /\ Ports \in Nat \ {0}

ASSUME CoreProgram == ProgramAssumption
ASSUME CoreLinks == LinkAssumption
ASSUME CoreTransfers == TransferAssumption
ASSUME CoreOverlap == OverlapAssumption
ASSUME CoreConfig == ConfigAssumption

VARIABLES
  phase,          \* how far Core::cycle has got
  exited,         \* why the process is gone: exit(EXIT_FAILURE), an exception, a wild pointer
  arrived,        \* tiles the scheduler has handed over so far
  tiles,          \* _tiles
  finishedTiles,  \* _finished_tiles
  returned,       \* tiles given back by pop_finished_tile
  readyQ,         \* [Tile -> Seq(Inst)], Tile::_ready_queue
  readyCtr,       \* [Inst -> Nat], Instruction::ready_counter
  finished,       \* [Inst -> BOOLEAN], Instruction::finished
  nrFinished,     \* [Tile -> Nat], Tile::_nr_finished_insts
  pipe,           \* [Unit -> Seq(Inst)], _vu_compute_pipeline and _sa_compute_pipeline
  rr,             \* _systolic_array_rr
  left,           \* [Inst -> Int], finish_cycle - _core_cycle
  cyc,            \* [Inst -> Nat], compute_cycle, which a sparse BAR sets to 0
  ldq, stq,       \* _ld_inst_queue, _st_inst_queue
  cur,            \* DMA::_current_inst
  dmaFinished,    \* DMA::_finished
  generated,      \* DMA::_generated_once
  pending,        \* the number of DMA::_pending_accesses, all of them of cur
  waiting,        \* [Inst -> Nat], Instruction::_nr_waiting_request
  waitq,          \* _dma_waiting_queue
  finq,           \* _dma_finished_queue
  tagTable,       \* [Tag -> TagState], DMA::tag_table
  waiters,        \* [Tag -> Seq(Inst)], DMA::waiters
  wake,           \* what the loop over get_tag_waiter has still to visit
  queued,         \* [Inst -> Nat], requests in _request_queue
  net,            \* [Inst -> Nat], requests popped, before the cache of their channel
  mem             \* [Inst -> Nat], requests the memory system may answer

tileVars == <<arrived, tiles, finishedTiles, returned>>
flowVars == <<readyQ, readyCtr, finished, nrFinished>>
pipeVars == <<pipe, rr, left, cyc>>
dmaVars  == <<ldq, stq, cur, dmaFinished, generated, pending>>
respVars == <<waiting, waitq, finq, wake>>
tagVars  == <<tagTable, waiters>>
memVars  == <<queued, net, mem>>
vars == <<phase, exited, tileVars, flowVars, pipeVars, dmaVars, respVars, tagVars, memVars>>

Phase == {"idle", "compute", "dma", "issue", "retire", "cache"}

\* The value of a tag: 0 while its load is in flight, 1 plus the number of uses
\* after that, (uint32_t)-1 for a load a sparse tile leaves out.  The uses are
\* only counted for a debug message, so they are not told apart.
TagState == {"absent", "pending", "done", "sparse"}

VU == 0
Unit == 0..NumSA    \* the vector unit and the systolic arrays

Parents(i) == {p \in Inst : i \in Kids[p]}
Front(q) == q[1]
Holds(q, i) == \E n \in 1..Len(q) : q[n] = i
Orders(S) == {q \in [1..Cardinality(S) -> S] : \A m, n \in DOMAIN q : m # n => q[m] # q[n]}

Init ==
  /\ phase = "idle" /\ exited = "no"
  /\ arrived = {} /\ tiles = <<>> /\ finishedTiles = <<>> /\ returned = {}
  /\ readyQ = [t \in Tile |-> <<>>]
  /\ readyCtr = [i \in Inst |-> Cardinality(Parents(i))]
  /\ finished = [i \in Inst |-> FALSE]
  /\ nrFinished = [t \in Tile |-> 0]
  /\ pipe = [u \in Unit |-> <<>>] /\ rr = 0
  /\ left = [i \in Inst |-> 0] /\ cyc = Cycles
  /\ ldq = <<>> /\ stq = <<>> /\ cur = None
  /\ dmaFinished = TRUE /\ generated = FALSE /\ pending = 0
  /\ waiting = [i \in Inst |-> 0] /\ waitq = {} /\ finq = <<>> /\ wake = <<>>
  /\ tagTable = [g \in Tag |-> "absent"] /\ waiters = [g \in Tag |-> <<>>]
  /\ queued = [i \in Inst |-> 0] /\ net = [i \in Inst |-> 0] /\ mem = [i \in Inst |-> 0]

-------------------------------------------------------------------------------
(* Instruction::finish_instruction behind Core::finish_instruction: the children   *)
(* that become ready join the ready queue of their tile, in the order of a std::set *)
(* of pointers, which the allocator decides.  "q" is readyQ without what the caller *)
(* erases from it.                                                                  *)
NewlyReady(i) == {k \in Kids[i] : readyCtr[k] = 1}

Complete(i, q) ==
  /\ finished' = [finished EXCEPT ![i] = TRUE]
  /\ nrFinished' = [nrFinished EXCEPT ![Owner[i]] = @ + 1]
  /\ readyCtr' = [k \in Inst |-> IF k \in Kids[i] THEN readyCtr[k] - 1 ELSE readyCtr[k]]
  /\ \E order \in Orders(NewlyReady(i)) :
       readyQ' = [q EXCEPT ![Owner[i]] = @ \o order]

FinishInst(i, q) ==
  IF finished[i] THEN exited' = "double finish" /\ UNCHANGED flowVars
                 ELSE exited' = exited /\ Complete(i, q)

Running(p) == exited = "no" /\ phase = p

-------------------------------------------------------------------------------
(* What the core's callers do between two cycles. *)

\* Core::can_issue and Core::issue: the instructions without parents become ready.
Roots(t) == {i \in Inst : Owner[i] = t /\ readyCtr[i] = 0}

FaultyCanIssue == Len(tiles) <= TileSlots
CanIssue == Len(tiles) < TileSlots

IssueTile(t) ==
  /\ Running("idle") /\ t \notin arrived /\ CanIssue
  /\ arrived' = arrived \cup {t}
  /\ tiles' = Append(tiles, t)
  /\ \E order \in Orders(Roots(t)) :
       /\ \A m, n \in 1..Len(order), a, b \in 1..Len(Body[t]) :
            order[m] = Body[t][a] /\ order[n] = Body[t][b] /\ m < n => a < b
       /\ readyQ' = [readyQ EXCEPT ![t] = @ \o order]
  /\ UNCHANGED <<phase, exited, finishedTiles, returned, readyCtr, finished, nrFinished,
                 pipeVars, dmaVars, respVars, tagVars, memVars>>

\* Core::pop_finished_tile
PopFinishedTile ==
  /\ Running("idle") /\ finishedTiles # <<>>
  /\ returned' = returned \cup {Front(finishedTiles)}
  /\ finishedTiles' = Tail(finishedTiles)
  /\ UNCHANGED <<phase, exited, arrived, tiles, flowVars, pipeVars, dmaVars, respVars,
                 tagVars, memVars>>

\* Core::pop_memory_request, called by Simulator::icnt_cycle
FaultyPopPastCache(i) ==
  /\ Running("idle") /\ queued[i] > 0
  /\ queued' = [queued EXCEPT ![i] = @ - 1]
  /\ mem' = [mem EXCEPT ![i] = @ + 1]
  /\ UNCHANGED <<phase, exited, net, tileVars, flowVars, pipeVars, dmaVars, respVars, tagVars>>

PopRequest(i) ==
  /\ Running("idle") /\ queued[i] > 0
  /\ queued' = [queued EXCEPT ![i] = @ - 1]
  /\ net' = [net EXCEPT ![i] = @ + 1]
  /\ UNCHANGED <<phase, exited, mem, tileVars, flowVars, pipeVars, dmaVars, respVars, tagVars>>

\* Core::push_memory_response: the last response of an instruction moves it from
\* the waiting to the finished queue; if it is not waiting, nothing happens.
PushResponse(i) ==
  /\ Running("idle") /\ mem[i] > 0
  /\ mem' = [mem EXCEPT ![i] = @ - 1]
  /\ waiting' = [waiting EXCEPT ![i] = @ - 1]
  /\ IF waiting[i] = 1 /\ i \in waitq
     THEN waitq' = waitq \ {i} /\ finq' = Append(finq, i)
     ELSE UNCHANGED <<waitq, finq>>
  /\ UNCHANGED <<phase, exited, wake, queued, net, tileVars, flowVars, pipeVars, dmaVars, tagVars>>

StartCycle ==
  /\ Running("idle") /\ phase' = "compute"
  /\ UNCHANGED <<exited, tileVars, flowVars, pipeVars, dmaVars, respVars, tagVars, memVars>>

-------------------------------------------------------------------------------
(* Core::compute_cycle: every unit retires its head while its time is up. *)
Elapsed(u) == pipe[u] # <<>> /\ left[Front(pipe[u])] <= 0

RetireCompute(u) ==
  /\ Running("compute") /\ Elapsed(u) /\ \A v \in Unit : v < u => ~Elapsed(v)
  /\ FinishInst(Front(pipe[u]), readyQ)
  /\ pipe' = [pipe EXCEPT ![u] = Tail(@)]
  /\ UNCHANGED <<phase, tileVars, rr, left, cyc, dmaVars, respVars, tagVars, memVars>>

EndCompute ==
  /\ Running("compute") /\ \A u \in Unit : ~Elapsed(u)
  /\ phase' = "dma"
  /\ UNCHANGED <<exited, tileVars, flowVars, pipeVars, dmaVars, respVars, tagVars, memVars>>

-------------------------------------------------------------------------------
(* Core::dma_cycle, first part: the instructions all of whose responses are back. *)
Loading(i) == Op[i] = "MOVIN"

\* A synchronous load finishes with its last response.
DrainSyncLoad ==
  /\ Running("dma") /\ wake = <<>> /\ finq # <<>>
  /\ Loading(Front(finq)) /\ ~IsAsync[Front(finq)]
  /\ FinishInst(Front(finq), readyQ)
  /\ finq' = Tail(finq)
  /\ UNCHANGED <<phase, tileVars, pipeVars, dmaVars, waiting, waitq, wake, tagVars, memVars>>

\* An asynchronous load was finished when its requests were out (DmaRetire); now
\* its tag is set and the instructions waiting for the tag are visited.
DrainAsyncLoad ==
  /\ Running("dma") /\ wake = <<>> /\ finq # <<>>
  /\ Loading(Front(finq)) /\ IsAsync[Front(finq)]
  /\ exited' = IF finished[Front(finq)] THEN exited ELSE "response before issue"
  /\ tagTable' = [tagTable EXCEPT ![TagOf[Front(finq)]] = "done"]
  /\ wake' = waiters[TagOf[Front(finq)]]
  /\ finq' = Tail(finq)
  /\ UNCHANGED <<phase, tileVars, flowVars, pipeVars, dmaVars, waiting, waitq, waiters, memVars>>

WakeWaiter ==
  /\ Running("dma") /\ wake # <<>>
  /\ FinishInst(Front(wake), readyQ)
  /\ wake' = Tail(wake)
  /\ UNCHANGED <<phase, tileVars, pipeVars, dmaVars, waiting, waitq, finq, tagVars, memVars>>

\* A store was finished when its requests were out.
FaultyDrainStore ==
  /\ Running("dma") /\ wake = <<>> /\ finq # <<>> /\ ~Loading(Front(finq))
  /\ UNCHANGED vars

DrainStore ==
  /\ Running("dma") /\ wake = <<>> /\ finq # <<>> /\ ~Loading(Front(finq))
  /\ finq' = Tail(finq)
  /\ UNCHANGED <<phase, exited, tileVars, flowVars, pipeVars, dmaVars, waiting, waitq, wake,
                 tagVars, memVars>>

Drained == Running("dma") /\ finq = <<>> /\ wake = <<>>

(* Second part: when every request of the current instruction is out, the *)
(* instruction goes to the waiting queue and the next one is taken.       *)
FaultyFinishedByIssue(i) == TRUE
FinishedByIssue(i) == Op[i] = "MOVOUT" \/ IsAsync[i]

DmaRetire ==
  /\ Drained /\ dmaFinished /\ cur # None
  /\ IF FinishedByIssue(cur) THEN FinishInst(cur, readyQ) ELSE UNCHANGED <<exited, flowVars>>
  /\ waitq' = waitq \cup {cur}
  /\ cur' = None
  /\ UNCHANGED <<phase, tileVars, pipeVars, ldq, stq, dmaFinished, generated, pending,
                 waiting, finq, wake, tagVars, memVars>>

\* DMA::issue_tile; loads go before stores.
DmaTake ==
  /\ Drained /\ dmaFinished /\ cur = None
  /\ \/ ldq # <<>> /\ cur' = Front(ldq) /\ ldq' = Tail(ldq) /\ UNCHANGED stq
     \/ ldq = <<>> /\ stq # <<>> /\ cur' = Front(stq) /\ stq' = Tail(stq) /\ UNCHANGED ldq
  /\ dmaFinished' = FALSE
  /\ UNCHANGED <<phase, exited, tileVars, flowVars, pipeVars, generated, pending, respVars,
                 tagVars, memVars>>

\* _core_cycle++ between the DMA engine and the issue stage
InPipe(i) == \E u \in Unit : Holds(pipe[u], i)
Tick == left' = [i \in Inst |-> IF InPipe(i) THEN left[i] - 1 ELSE left[i]]

DmaIdle ==
  /\ Drained /\ dmaFinished /\ cur = None /\ ldq = <<>> /\ stq = <<>>
  /\ phase' = "issue" /\ Tick
  /\ UNCHANGED <<exited, tileVars, flowVars, pipe, rr, cyc, dmaVars, respVars, tagVars, memVars>>

\* DMA::get_memory_access: all requests are made and counted at once, and
\* go out at most Ports a cycle.
Owed == IF generated THEN pending ELSE pending + Requests[cur]
Sent == IF Owed < Ports THEN Owed ELSE Ports

Counted == IF generated THEN 0 ELSE Requests[cur]

DmaGenerate ==
  /\ Drained /\ ~dmaFinished
  /\ waiting' = [waiting EXCEPT ![cur] = @ + Counted]
  /\ queued' = [queued EXCEPT ![cur] = @ + Sent]
  /\ pending' = Owed - Sent
  /\ dmaFinished' = (Owed = Sent)
  /\ generated' = (Owed # Sent)
  /\ phase' = "issue" /\ Tick
  /\ UNCHANGED <<exited, tileVars, flowVars, pipe, rr, cyc, ldq, stq, cur, waitq, finq, wake,
                 tagVars, net, mem>>

-------------------------------------------------------------------------------
(* The issue stage: the head of the first ready queue that is not empty.  Every    *)
(* instruction at the head of a ready queue issues, so each cycle issues at most   *)
(* one and none only if no instruction is ready.                                   *)
Issuing(i) ==
  /\ Running("issue")
  /\ \E n \in 1..Len(tiles) :
       /\ readyQ[tiles[n]] # <<>> /\ Front(readyQ[tiles[n]]) = i
       /\ \A m \in 1..(n - 1) : readyQ[tiles[m]] = <<>>
WithoutHead(i) == [readyQ EXCEPT ![Owner[i]] = Tail(@)]
Erase(i) == readyQ' = WithoutHead(i) /\ UNCHANGED <<readyCtr, finished, nrFinished>>

\* DMA::register_tag, which also forgets the waiters of an earlier registration
FaultyRegisterUnlessSparse(g, state) ==
  /\ tagTable' = IF state = "sparse" THEN tagTable ELSE [tagTable EXCEPT ![g] = state]
  /\ waiters' = [waiters EXCEPT ![g] = <<>>]
RegisterTag(g, state) ==
  /\ tagTable' = [tagTable EXCEPT ![g] = state]
  /\ waiters' = [waiters EXCEPT ![g] = <<>>]

\* DMA::register_tag_waiter
WaitForTag(i) == waiters' = [waiters EXCEPT ![TagOf[i]] = Append(@, i)] /\ UNCHANGED tagTable

\* A load of a tile that the sparse metadata leaves out
IssueSparseLoad(i) ==
  /\ Issuing(i) /\ Op[i] = "MOVIN" /\ IsSparse[i]
  /\ RegisterTag(TagOf[i], "sparse")
  /\ FinishInst(i, WithoutHead(i))
  /\ phase' = "cache"
  /\ UNCHANGED <<tileVars, pipeVars, dmaVars, respVars, memVars>>

\* An asynchronous load whose tag another load has registered moves no data.
FaultyLoadUnlessDone(i) == IsAsync[i] /\ tagTable[TagOf[i]] = "done"
AlreadyLoaded(i) == IsAsync[i] /\ tagTable[TagOf[i]] # "absent"

SkipLoad(i) ==
  /\ Issuing(i) /\ Op[i] = "MOVIN" /\ ~IsSparse[i] /\ AlreadyLoaded(i)
  /\ IF tagTable[TagOf[i]] = "pending"
     THEN WaitForTag(i) /\ Erase(i) /\ UNCHANGED exited
     ELSE FinishInst(i, WithoutHead(i)) /\ UNCHANGED tagVars
  /\ phase' = "cache"
  /\ UNCHANGED <<tileVars, pipeVars, dmaVars, respVars, memVars>>

IssueLoad(i) ==
  /\ Issuing(i) /\ Op[i] = "MOVIN" /\ ~IsSparse[i] /\ ~AlreadyLoaded(i)
  /\ RegisterTag(TagOf[i], "pending")
  /\ ldq' = Append(ldq, i)
  /\ Erase(i)
  /\ phase' = "cache"
  /\ UNCHANGED <<exited, stq, cur, dmaFinished, generated, pending, tileVars, pipeVars,
                 respVars, memVars>>

IssueStore(i) ==
  /\ Issuing(i) /\ Op[i] = "MOVOUT"
  /\ stq' = Append(stq, i)
  /\ Erase(i)
  /\ phase' = "cache"
  /\ UNCHANGED <<exited, ldq, cur, dmaFinished, generated, pending, tileVars, pipeVars,
                 respVars, tagVars, memVars>>

\* Core::get_compute_pipeline: the systolic arrays take turns.
Target(i) == IF ComputeType[i] = "VECTOR_UNIT" THEN VU ELSE rr + 1
FaultyNextRR(i) == IF ComputeType[i] = "VECTOR_UNIT" THEN rr ELSE rr + 1
NextRR(i) == IF ComputeType[i] = "VECTOR_UNIT" THEN rr ELSE (rr + 1) % NumSA

\* The fill of a systolic array overlaps the instruction in front; the difference
\* of two unsigned cycle counts is huge when the one in front is overdue.
FaultyOverlapped(i, behind) == Overlap[i]
Overlapped(i, behind) ==
  IF behind < 0 \/ Overlap[i] < behind THEN Overlap[i] ELSE behind
FinishTime(i, q) ==
  IF q = <<>> THEN cyc[i]
  ELSE LET behind == left[q[Len(q)]] IN behind + cyc[i] - Overlapped(i, behind)

IssueCompute(i) ==
  /\ Issuing(i) /\ Op[i] = "COMP" /\ cyc[i] # 0
  /\ left' = [left EXCEPT ![i] = FinishTime(i, pipe[Target(i)])]
  /\ pipe' = [pipe EXCEPT ![Target(i)] = Append(@, i)]
  /\ rr' = NextRR(i)
  /\ Erase(i)
  /\ phase' = "cache"
  /\ UNCHANGED <<exited, cyc, tileVars, dmaVars, respVars, tagVars, memVars>>

\* A COMP of zero cycles finishes at once, without Core::finish_instruction and its
\* check, and the scan goes on, through an iterator that erase has just invalidated:
\* it reads the successor in the freed node, or whatever the allocator left there.
SkipCompute(i) ==
  /\ Issuing(i) /\ Op[i] = "COMP" /\ cyc[i] = 0
  /\ Complete(i, WithoutHead(i))
  /\ rr' = NextRR(i)
  /\ exited' \in {exited, "wild iterator"}
  /\ UNCHANGED <<phase, pipe, left, cyc, tileVars, dmaVars, respVars, tagVars, memVars>>

\* A barrier on the tag of a load
SkippedBy(i) == {k \in Kids[i] : Op[k] = "COMP" /\ ComputeType[k] = "MATMUL"}

IssueBarrier(i) ==
  /\ Issuing(i) /\ Op[i] = "BAR"
  /\ CASE tagTable[TagOf[i]] = "absent" ->
            exited' = "missing tag" /\ UNCHANGED <<flowVars, tagVars, cyc>>
       [] tagTable[TagOf[i]] = "sparse" ->
            /\ cyc' = [k \in Inst |-> IF k \in SkippedBy(i) THEN 0 ELSE cyc[k]]
            /\ FinishInst(i, WithoutHead(i)) /\ UNCHANGED tagVars
       [] tagTable[TagOf[i]] = "done" ->
            FinishInst(i, WithoutHead(i)) /\ UNCHANGED <<tagVars, cyc>>
       [] tagTable[TagOf[i]] = "pending" ->
            WaitForTag(i) /\ Erase(i) /\ UNCHANGED <<exited, cyc>>
  /\ phase' = "cache"
  /\ UNCHANGED <<pipe, rr, left, tileVars, dmaVars, respVars, memVars>>

IssueNone ==
  /\ Running("issue") /\ \A n \in 1..Len(tiles) : readyQ[tiles[n]] = <<>>
  /\ phase' = "retire"
  /\ UNCHANGED <<exited, tileVars, flowVars, pipeVars, dmaVars, respVars, tagVars, memVars>>

-------------------------------------------------------------------------------
(* A cycle that issues nothing gives up the first tile all of whose instructions *)
(* are finished: "retry" is cleared whatever the scan finds.                     *)
FaultyAllButOne(t) == nrFinished[t] + 1 >= Len(Body[t])
FaultySomethingFinished(t) == nrFinished[t] = Len(Body[t]) /\ nrFinished[t] > 0
AllFinished(t) == nrFinished[t] = Len(Body[t])

RetireTile(n) ==
  /\ AllFinished(tiles[n]) /\ \A m \in 1..(n - 1) : ~AllFinished(tiles[m])
  /\ finishedTiles' = Append(finishedTiles, tiles[n])
  /\ tiles' = SubSeq(tiles, 1, n - 1) \o SubSeq(tiles, n + 1, Len(tiles))

Retire ==
  /\ Running("retire")
  /\ \/ \E n \in 1..Len(tiles) : RetireTile(n)
     \/ (\A n \in 1..Len(tiles) : ~AllFinished(tiles[n])) /\ UNCHANGED <<tiles, finishedTiles>>
  /\ phase' = "cache"
  /\ UNCHANGED <<exited, arrived, returned, flowVars, pipeVars, dmaVars, respVars, tagVars, memVars>>

\* Dram::cache_cycle, which Simulator::core_cycle calls after the cores' cycles:
\* what has left the core may be answered from here on.
CacheCycle ==
  /\ Running("cache")
  /\ mem' = [i \in Inst |-> mem[i] + net[i]]
  /\ net' = [i \in Inst |-> 0]
  /\ phase' = "idle"
  /\ UNCHANGED <<exited, queued, tileVars, flowVars, pipeVars, dmaVars, respVars, tagVars>>

\* exit(EXIT_FAILURE) or a wild pointer ends the process.  A missing tag is an exception
\* or undefined behaviour; process_trace_file (main.cc) may catch the exception and go on
\* with a core left in the middle of a cycle.  The model ends there too.
Exited == exited # "no" /\ UNCHANGED vars

-------------------------------------------------------------------------------
Compute == (\E u \in Unit : RetireCompute(u)) \/ EndCompute
Dma == \/ DrainSyncLoad \/ DrainAsyncLoad \/ WakeWaiter \/ DrainStore
       \/ DmaRetire \/ DmaTake \/ DmaIdle \/ DmaGenerate
Issue == \/ \E i \in Inst : \/ IssueSparseLoad(i) \/ SkipLoad(i) \/ IssueLoad(i) \/ IssueStore(i)
                            \/ IssueCompute(i) \/ SkipCompute(i) \/ IssueBarrier(i)
         \/ IssueNone
Cycle == StartCycle \/ Compute \/ Dma \/ Issue \/ Retire \/ CacheCycle

Next ==
  \/ Cycle
  \/ \E t \in Tile : IssueTile(t)
  \/ PopFinishedTile
  \/ \E i \in Inst : PopRequest(i) \/ PushResponse(i)
  \/ Exited

Spec == Init /\ [][Next]_vars

(* Simulator::cycle runs core cycles for as long as anything is running, and between *)
(* them the interconnect takes the requests at the head of the queue and delivers    *)
(* the responses the memory has ready.  These turns come between two core cycles     *)
(* again and again but not without interruption, hence the strong fairness.          *)
Fairness ==
  /\ WF_vars(Cycle)
  /\ SF_vars(PopFinishedTile)
  /\ SF_vars(\E i \in Inst : PopRequest(i))
  /\ SF_vars(\E i \in Inst : PushResponse(i))

FairSpec == Spec /\ Fairness

-------------------------------------------------------------------------------
(* Core::running *)
FaultyCoreRunning ==
  \/ tiles # <<>> \/ \E u \in Unit : pipe[u] # <<>>
  \/ cur # None \/ ldq # <<>> \/ stq # <<>>
CoreRunning ==
  \/ tiles # <<>>
  \/ \E u \in Unit : pipe[u] # <<>>
  \/ waitq # {} \/ finq # <<>>
  \/ cur # None
  \/ ldq # <<>> \/ stq # <<>>

-------------------------------------------------------------------------------
(* What the core expects of a program.  TileGraphParser makes tags out of the name of a   *)
(* DRAM argument and loop indices and hands them on; nothing in the core checks them.     *)

\* The loads of a tag are one DMA of the kernel, met again in another outer loop (the parser
\* forgets the tags it knows between two of them): all of them asynchronous or none, all of
\* them left out as sparse or none.  And a barrier waits for a load that reports: only an
\* asynchronous load sets its tag, or a sparse one.
TagDiscipline ==
  /\ \A m, k \in Inst : Loading(m) /\ Loading(k) /\ TagOf[m] = TagOf[k] =>
       IsAsync[m] = IsAsync[k] /\ IsSparse[m] = IsSparse[k]
  /\ \A b, m \in Inst : Op[b] = "BAR" /\ Loading(m) /\ TagOf[m] = TagOf[b] =>
       IsAsync[m] \/ IsSparse[m]

\* A barrier depends on a load of its tag, or on a later one of the loads at the top of its
\* tile: the barriers of an inner loop hang on the last load in front of the loop only.
TopLoad(m) == Loading(m) /\ Parents(m) = {}
Before(m, k) ==
  /\ Owner[m] = Owner[k]
  /\ \E a, b \in 1..Len(Body[Owner[m]]) :
       a < b /\ Body[Owner[m]][a] = m /\ Body[Owner[m]][b] = k
BarrierDiscipline ==
  \A b \in Inst : Op[b] = "BAR" =>
    \E p \in Parents(b), m \in Inst :
      /\ Loading(m) /\ TagOf[m] = TagOf[b]
      /\ m = p \/ (TopLoad(m) /\ TopLoad(p) /\ Before(m, p))

-------------------------------------------------------------------------------
(* Properties *)

TypeOK ==
  /\ phase \in Phase
  /\ exited \in {"no", "double finish", "missing tag", "response before issue", "wild iterator"}
  /\ arrived \subseteq Tile /\ tiles \in Seq(Tile)
  /\ finishedTiles \in Seq(Tile) /\ returned \subseteq Tile
  /\ readyQ \in [Tile -> Seq(Inst)] /\ readyCtr \in [Inst -> Int]
  /\ finished \in [Inst -> BOOLEAN] /\ nrFinished \in [Tile -> Nat]
  /\ pipe \in [Unit -> Seq(Inst)] /\ rr \in 0..(NumSA - 1)
  /\ left \in [Inst -> Int] /\ cyc \in [Inst -> Nat]
  /\ ldq \in Seq(Inst) /\ stq \in Seq(Inst) /\ cur \in Inst \cup {None}
  /\ dmaFinished \in BOOLEAN /\ generated \in BOOLEAN /\ pending \in Nat
  /\ waiting \in [Inst -> Nat] /\ waitq \subseteq Inst
  /\ finq \in Seq(Inst) /\ wake \in Seq(Inst)
  /\ tagTable \in [Tag -> TagState] /\ waiters \in [Tag -> Seq(Inst)]
  /\ queued \in [Inst -> Nat] /\ net \in [Inst -> Nat] /\ mem \in [Inst -> Nat]

\* What an instruction waits for is exactly what is still on its way: unsent, in the
\* request queue, in the interconnect or in the memory.  inc_waiting_request
\* runs for all requests at once, dec_waiting_request for each response.
Conservation ==
  \A i \in Inst :
    waiting[i] = queued[i] + net[i] + mem[i] + (IF i = cur /\ generated THEN pending ELSE 0)

\* push_memory_response drops the last response of an instruction that is not in the
\* waiting queue (its "Can't happend" branch asserts nothing), and the instruction would
\* then wait for ever.  So: an instruction that is owed responses is waiting or still
\* current, and one that is waiting is owed at least one.
NoLostCompletion ==
  \A i \in Inst : /\ waiting[i] > 0 => i \in waitq \/ i = cur
                  /\ i \in waitq => waiting[i] > 0

\* The DMA engine gives up an instruction one cycle after its last request went out, and
\* only dma_cycle puts it in the waiting queue.  Until then one of its requests must still
\* be on this side of the memory, or the last response could come too early.
Late == {"issue", "retire", "cache"}
LastOneOut ==
  dmaFinished /\ cur # None =>
    queued[cur] + (IF phase \in Late THEN 0 ELSE net[cur]) >= 1

\* Together: the books on requests are right in every state in which the interconnect, the
\* memory or the DMA engine may act, so no response is lost, doubled or too early.
Traffic == Conservation /\ NoLostCompletion /\ LastOneOut

\* No use of data before the data: when a barrier is finished no load of its tag has
\* anything left to do, and a synchronous load finishes after its last response.
TransferDone(m) == waiting[m] = 0 /\ m # cur /\ ~Holds(ldq, m)
DataBeforeUse ==
  /\ \A b, m \in Inst : Op[b] = "BAR" /\ finished[b] /\ Loading(m) /\ TagOf[m] = TagOf[b]
                          => TransferDone(m)
  /\ \A m \in Inst : Loading(m) /\ ~IsAsync[m] /\ finished[m] => TransferDone(m)

\* An instruction finishes after all the instructions it depends on, whatever mix of
\* pipelines, DMA responses and tags finished them.
ParentsFirst == \A i \in Inst : \A k \in Kids[i] : finished[k] => finished[i]

\* Together: instructions finish in an order that the dependencies of the tile and the tags
\* allow, although four queues and the memory finish them in whatever order they like.
FinishInOrder == DataBeforeUse /\ ParentsFirst

\* The counter that lets Core::cycle give up a tile speaks for each of its instructions,
\* through Core::finish_instruction and through the short cut of zero-cycle COMPs.
RetiredAreComplete ==
  \A t \in returned \cup {finishedTiles[n] : n \in 1..Len(finishedTiles)} :
    \A i \in Inst : Owner[i] = t => finished[i]

\* DMA and pipelines reach the tile of an instruction through raw pointers (_owner,
\* _owner_ready_queue_ref); the tile must not be gone before the instruction is finished.
AtWork(i) == \/ Holds(ldq, i) \/ Holds(stq, i) \/ i = cur \/ InPipe(i)
             \/ i \in waitq \/ Holds(finq, i) \/ Holds(wake, i)
             \/ Holds(waiters[TagOf[i]], i)
OwnerAlive == \A i \in Inst : AtWork(i) /\ ~finished[i] => Holds(tiles, Owner[i])

\* Together: a tile leaves the core when its work is done, and not before.
TileLifetime == RetiredAreComplete /\ OwnerAlive

\* No instruction falls out of the core's hands: until it is finished it waits for a
\* parent, stands in a queue that the core visits, or waits for a tag whose load is in
\* flight.  register_tag forgets waiters, and the load that set the tag may be over.
InFlight(m) == Holds(ldq, m) \/ m = cur \/ m \in waitq \/ Holds(finq, m)
TagWillCome(g) == \E m \in Inst : InFlight(m) /\ IsAsync[m] /\ TagOf[m] = g
NothingForgotten ==
  \A i \in Inst : Owner[i] \in arrived /\ ~finished[i] =>
    \/ readyCtr[i] > 0 \/ Holds(readyQ[Owner[i]], i)
    \/ InFlight(i) \/ Holds(stq, i) \/ InPipe(i) \/ Holds(wake, i)
    \/ Holds(waiters[TagOf[i]], i) /\ tagTable[TagOf[i]] = "pending" /\ TagWillCome(TagOf[i])

\* A COMP starts no earlier than it is issued and finishes no earlier than the one in
\* front of it, so that the unsigned difference in the overlap is never negative.
PipelineTiming ==
  [][\A i \in Inst : IssueCompute(i) =>
       /\ left'[i] >= cyc[i]
       /\ \A n \in 1..Len(pipe[Target(i)]) : left'[i] >= left[pipe[Target(i)][n]]]_vars

\* Core::running is what ends the simulation; it looks neither at the request queue nor at
\* what is in the memory system.  When it is false none of that exists.
QuiesceSound ==
  phase = "idle" /\ exited = "no" /\ ~CoreRunning =>
    /\ \A i \in Inst : queued[i] = 0 /\ net[i] = 0 /\ mem[i] = 0
    /\ \A i \in Inst : Owner[i] \in arrived => finished[i]

\* The checks that end the process with an error never fire: no instruction is finished
\* twice, no barrier looks up a tag nobody registered, no response comes before its load
\* was issued.
NeverExits == exited \in {"no", "wild iterator"}

\* Nor do the assertions: dec_ready_counter never starts from 0, what dma_cycle takes off
\* the finished queue is owed nothing and has its tag still pending, and every
\* response that can come is one that its instruction waits for.
AssertionsHold ==
  /\ \A i \in Inst : readyCtr[i] >= 0 /\ (mem[i] > 0 => waiting[i] > 0)
  /\ \A n \in 1..Len(finq) :
       /\ waiting[finq[n]] = 0
       /\ Loading(finq[n]) /\ IsAsync[finq[n]] => tagTable[TagOf[finq[n]]] = "pending"

\* Together: no run of these tiles takes one of the exits or trips one of the assertions.
NoErrorPath == NeverExits /\ AssertionsHold

\* Every tile handed to the core is given back.
TileCompletes == \A t \in Tile : t \in arrived ~> t \in returned

\* Once no more tiles come, Core::running becomes false for good, so that Simulator::cycle
\* returns: the stores that outlive their tiles leave no entry in a queue behind.
Quiesces == <>[](~CoreRunning)

\* Together: the core comes to rest with all its work given back.
ComesToRest == TileCompletes /\ Quiesces

===============================================================================
