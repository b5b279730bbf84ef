------------------------------ MODULE CoreProofs ------------------------------
(***************************************************************************)
(* Proofs about module Core, for every program, every number of tile       *)
(* slots, systolic arrays and ports, and every order of memory responses,  *)
(* in three parts: types and memory traffic; where tiles and instructions  *)
(* are; tags.                                                              *)
(***************************************************************************)
EXTENDS Core, CoreRefines, QueueLemmas, FiniteSetTheorems, SequenceTheorems, TLAPS

-------------------------------------------------------------------------------
(***************************************************************************)
(* Part 1.  Types and memory traffic                                       *)
(*                                                                         *)
(* The argument for NoLostCompletion: Core::dma_cycle takes an instruction *)
(* off the DMA engine one cycle after its last request went out, and the   *)
(* cache of the memory side, which every request must pass, runs after     *)
(* the core in each cycle.  So while the instruction is still current one  *)
(* of its requests has not reached the memory yet (LastOneOut), the count  *)
(* of what it waits for is not zero (Conservation), and the last response  *)
(* finds the instruction in the waiting queue.                             *)
(***************************************************************************)

LoadInst == {i \in Inst : Op[i] = "MOVIN"}
StoreInst == {i \in Inst : Op[i] = "MOVOUT"}

\* The type invariant that is inductive on its own: the queues of the DMA engine
\* hold loads and stores, a tile's ready queue its own instructions, and a count of
\* responses is an integer.
InstOf(t) == {i \in Inst : Owner[i] = t}
ReadyType(q) == q \in [Tile -> Seq(Inst)] /\ \A t \in Tile : q[t] \in Seq(InstOf(t))
FlowType ==
  /\ ReadyType(readyQ) /\ readyCtr \in [Inst -> Int]
  /\ finished \in [Inst -> BOOLEAN] /\ nrFinished \in [Tile -> Nat]
TileType ==
  /\ arrived \subseteq Tile /\ tiles \in Seq(Tile)
  /\ finishedTiles \in Seq(Tile) /\ returned \subseteq Tile
PipeType ==
  /\ pipe \in [Unit -> Seq(Inst)] /\ rr \in 0..(NumSA - 1)
  /\ left \in [Inst -> Int] /\ cyc \in [Inst -> Nat]
DmaType ==
  /\ ldq \in Seq(LoadInst) /\ stq \in Seq(StoreInst)
  /\ cur \in LoadInst \cup StoreInst \cup {None}
  /\ dmaFinished \in BOOLEAN /\ generated \in BOOLEAN /\ pending \in Nat
  /\ ~dmaFinished => cur # None
  /\ generated => ~dmaFinished /\ pending > 0
  /\ ~generated => pending = 0
RespType ==
  /\ waiting \in [Inst -> Int] /\ waitq \subseteq Inst
  /\ finq \in Seq(Inst) /\ wake \in Seq(Inst)
TagType == tagTable \in [Tag -> TagState] /\ waiters \in [Tag -> Seq(Inst)]
MemType == queued \in [Inst -> Nat] /\ net \in [Inst -> Nat] /\ mem \in [Inst -> Nat]
ExitType == exited \in {"no", "double finish", "missing tag", "response before issue", "wild iterator"}
TypeInv ==
  /\ phase \in Phase /\ ExitType /\ TileType /\ FlowType /\ PipeType /\ DmaType
  /\ RespType /\ TagType /\ MemType

-------------------------------------------------------------------------------
(* Sequences and the order of ready instructions *)

\* An order of a finite set is a sequence of its elements.
LEMMA OrdersType ==
  ASSUME NEW S, IsFiniteSet(S), NEW order \in Orders(S)
  PROVE  order \in Seq(S)
<1>1. Cardinality(S) \in Nat
  BY FS_CardinalityType
<1>2. QED
  BY <1>1 DEF Orders

\* Taking the head off a queue leaves an element and a shorter queue.
LEMMA FrontTailType ==
  ASSUME NEW S, NEW q \in Seq(S), q # <<>>
  PROVE  Front(q) \in S /\ Tail(q) \in Seq(S)
BY DEF Front

\* Finishing an instruction keeps the dataflow state well typed.
LEMMA CompleteType ==
  ASSUME NEW i \in Inst, NEW q, ReadyType(q), FlowType, Complete(i, q)
  PROVE  FlowType'
<1> USE CoreProgram DEF ProgramAssumption
<1>1. PICK order \in Orders(NewlyReady(i)) : readyQ' = [q EXCEPT ![Owner[i]] = @ \o order]
  BY DEF Complete
<1>2. NewlyReady(i) \subseteq InstOf(Owner[i])
  BY CoreLinks DEF NewlyReady, InstOf, LinkAssumption
<1>3. IsFiniteSet(NewlyReady(i))
  BY FS_Subset DEF NewlyReady
<1>4. order \in Seq(NewlyReady(i))
  BY <1>3, OrdersType
<1>5. order \in Seq(InstOf(Owner[i])) /\ order \in Seq(Inst)
  BY <1>2, <1>4 DEF InstOf
<1>6. q[Owner[i]] \o order \in Seq(InstOf(Owner[i])) /\ q[Owner[i]] \o order \in Seq(Inst)
  BY <1>5 DEF ReadyType
<1>7. ReadyType(readyQ')
  BY <1>1, <1>6 DEF ReadyType
<1>8. readyCtr' \in [Inst -> Int] /\ finished' \in [Inst -> BOOLEAN]
  BY DEF Complete, FlowType
<1>9. nrFinished' \in [Tile -> Nat]
  <2>1. nrFinished' = [nrFinished EXCEPT ![Owner[i]] = @ + 1]
    BY DEF Complete
  <2>2. QED
    BY <2>1 DEF FlowType
<1>10. QED
  BY <1>7, <1>8, <1>9 DEF FlowType

\* So does finishing it twice, which ends the process.
LEMMA FinishType ==
  ASSUME NEW i \in Inst, NEW q, ReadyType(q), FlowType, ExitType, FinishInst(i, q)
  PROVE  FlowType' /\ ExitType'
<1>1. CASE finished[i]
  BY <1>1 DEF FinishInst, flowVars, FlowType, ReadyType, ExitType
<1>2. CASE ~finished[i]
  BY <1>2, CompleteType DEF FinishInst, ExitType
<1>3. QED
  BY <1>1, <1>2

-------------------------------------------------------------------------------
(* Type correctness *)

\* The initial values of Init have the types the code declares.
LEMMA TypeInit == Init => TypeInv
<1> SUFFICES ASSUME Init PROVE TypeInv
  OBVIOUS
<1> USE CoreProgram, CoreConfig DEF ProgramAssumption, ConfigAssumption, Init
<1>1. \A i \in Inst : Cardinality(Parents(i)) \in Int
  <2> TAKE i \in Inst
  <2>1. IsFiniteSet(Parents(i))
    BY FS_Subset DEF Parents
  <2>2. QED
    BY <2>1, FS_CardinalityType
<1>2. FlowType
  BY <1>1, EmptySeq DEF FlowType, ReadyType
<1>3. PipeType
  BY DEF PipeType
<1>4. DmaType
  BY EmptySeq DEF DmaType
<1>5. TileType /\ RespType /\ TagType /\ MemType /\ ExitType /\ phase \in Phase
  BY DEF TileType, RespType, TagType, MemType, ExitType, Phase, TagState
<1>6. QED
  BY <1>2, <1>3, <1>4, <1>5 DEF TypeInv

\* What a step does not touch keeps its type.
LEMMA Frame ==
  ASSUME TypeInv
  PROVE  /\ UNCHANGED exited => ExitType'
         /\ UNCHANGED tileVars => TileType'
         /\ UNCHANGED flowVars => FlowType'
         /\ UNCHANGED pipeVars => PipeType'
         /\ UNCHANGED dmaVars => DmaType'
         /\ UNCHANGED respVars => RespType'
         /\ UNCHANGED tagVars => TagType'
         /\ UNCHANGED memVars => MemType'
<1> USE DEF TypeInv
<1>1. UNCHANGED exited => ExitType'
  BY DEF ExitType
<1>2. UNCHANGED tileVars => TileType'
  BY DEF TileType, tileVars
<1>3. UNCHANGED flowVars => FlowType'
  BY DEF FlowType, ReadyType, flowVars
<1>4. UNCHANGED pipeVars => PipeType'
  BY DEF PipeType, pipeVars
<1>5. UNCHANGED dmaVars => DmaType'
  BY DEF DmaType, dmaVars
<1>6. UNCHANGED respVars => RespType'
  BY DEF RespType, respVars
<1>7. UNCHANGED tagVars => TagType'
  BY DEF TagType, tagVars
<1>8. UNCHANGED memVars => MemType'
  BY DEF MemType, memVars
<1>9. QED
  BY <1>1, <1>2, <1>3, <1>4, <1>5, <1>6, <1>7, <1>8

\* The steps that only the callers of the core take
LEMMA TypeIssueTile ==
  ASSUME TypeInv, NEW t \in Tile, IssueTile(t)
  PROVE  TypeInv'
<1> USE CoreProgram DEF ProgramAssumption, TypeInv, IssueTile
<1>1. PICK order \in Orders(Roots(t)) : readyQ' = [readyQ EXCEPT ![t] = @ \o order]
  OBVIOUS
<1>2. Roots(t) \subseteq InstOf(t) /\ InstOf(t) \subseteq Inst /\ IsFiniteSet(Roots(t))
  BY FS_Subset DEF Roots, InstOf
<1>3. order \in Seq(InstOf(t)) /\ order \in Seq(Inst)
  BY <1>2, OrdersType
<1>a. readyQ[t] \o order \in Seq(InstOf(t)) /\ readyQ[t] \o order \in Seq(Inst)
  BY <1>3 DEF FlowType, ReadyType
<1>b. ReadyType(readyQ')
  BY <1>1, <1>a DEF FlowType, ReadyType
<1>4. FlowType'
  BY <1>b DEF FlowType, ReadyType
<1>5. TileType'
  BY DEF TileType
<1>6. QED
  BY <1>4, <1>5, Frame

\* Core::pop_finished_tile moves a tile out of the core and touches no instruction.
LEMMA TypePopFinishedTile ==
  ASSUME TypeInv, PopFinishedTile
  PROVE  TypeInv'
BY FrontTailType, Frame DEF TypeInv, PopFinishedTile, TileType

\* Requests and responses change counts and the queues of waiting and finished transfers only.
LEMMA TypeTraffic ==
  ASSUME TypeInv, NEW i \in Inst, PopRequest(i) \/ PushResponse(i)
  PROVE  TypeInv'
<1> USE DEF TypeInv
<1>1. CASE PopRequest(i)
  BY <1>1, Frame DEF PopRequest, MemType
<1>2. CASE PushResponse(i)
  <2> USE <1>2 DEF PushResponse
  <2>1. MemType'
    BY DEF MemType
  <2>2. waiting' \in [Inst -> Int]
    BY DEF RespType
  <2>3. waitq' \subseteq Inst /\ finq' \in Seq(Inst) /\ wake' \in Seq(Inst)
    <3>1. CASE waitq' = waitq \ {i} /\ finq' = Append(finq, i)
      BY <3>1 DEF RespType
    <3>2. CASE UNCHANGED <<waitq, finq>>
      BY <3>2 DEF RespType
    <3>3. QED
      BY <3>1, <3>2
  <2>4. QED
    BY <2>1, <2>2, <2>3, Frame DEF RespType
<1>3. QED
  BY <1>1, <1>2

\* Core::compute_cycle takes heads off pipelines and finishes them.
LEMMA TypeCompute ==
  ASSUME TypeInv, Compute
  PROVE  TypeInv'
<1> USE DEF TypeInv
<1>1. ASSUME NEW u \in Unit, RetireCompute(u) PROVE TypeInv'
  <2> USE <1>1 DEF RetireCompute, Elapsed
  <2>1. Front(pipe[u]) \in Inst /\ Tail(pipe[u]) \in Seq(Inst)
    BY FrontTailType DEF PipeType
  <2>2. FlowType' /\ ExitType'
    BY <2>1, FinishType DEF FlowType
  <2>3. PipeType'
    BY <2>1 DEF PipeType
  <2>4. QED
    BY <2>2, <2>3, Frame
<1>2. CASE EndCompute
  BY <1>2, Frame DEF EndCompute, Phase
<1>3. QED
  BY <1>1, <1>2 DEF Compute

\* A cycle that passes takes one from the time an instruction has left.
LEMMA TickType ==
  ASSUME PipeType, Tick, UNCHANGED <<pipe, rr, cyc>>
  PROVE  PipeType'
BY DEF PipeType, Tick

\* Core::dma_cycle: the drain of finished transfers, then one step of the DMA engine.
LEMMA TypeDma ==
  ASSUME TypeInv, Dma
  PROVE  TypeInv'
<1> USE CoreProgram DEF ProgramAssumption, TypeInv, LoadInst, StoreInst
<1>1. CASE DrainSyncLoad
  <2> USE <1>1 DEF DrainSyncLoad
  <2>1. Front(finq) \in Inst /\ Tail(finq) \in Seq(Inst)
    BY FrontTailType DEF RespType
  <2>2. FlowType' /\ ExitType'
    BY <2>1, FinishType DEF FlowType
  <2>3. QED
    BY <2>1, <2>2, Frame DEF RespType
<1>2. CASE DrainAsyncLoad
  <2> USE <1>2 DEF DrainAsyncLoad
  <2>1. Front(finq) \in Inst /\ Tail(finq) \in Seq(Inst)
    BY FrontTailType DEF RespType
  <2>2. TagType'
    BY <2>1 DEF TagType, TagState
  <2>3. waiters[TagOf[Front(finq)]] \in Seq(Inst)
    BY <2>1 DEF TagType
  <2>4. RespType'
    BY <2>1, <2>3 DEF RespType
  <2>5. QED
    BY <2>2, <2>4, Frame DEF ExitType
<1>3. CASE WakeWaiter
  <2> USE <1>3 DEF WakeWaiter
  <2>1. Front(wake) \in Inst /\ Tail(wake) \in Seq(Inst)
    BY FrontTailType DEF RespType
  <2>2. FlowType' /\ ExitType'
    BY <2>1, FinishType DEF FlowType
  <2>3. QED
    BY <2>1, <2>2, Frame DEF RespType
<1>4. CASE DrainStore
  <2> USE <1>4 DEF DrainStore
  <2>1. Tail(finq) \in Seq(Inst)
    BY FrontTailType DEF RespType
  <2>2. QED
    BY <2>1, Frame DEF RespType
<1>5. CASE DmaRetire
  <2> USE <1>5 DEF DmaRetire
  <2>1. cur \in Inst
    BY DEF DmaType
  <2>2. FlowType' /\ ExitType'
    <3>1. CASE FinishedByIssue(cur)
      BY <2>1, <3>1, FinishType DEF FlowType
    <3>2. CASE ~FinishedByIssue(cur)
      BY <3>2, Frame
    <3>3. QED
      BY <3>1, <3>2
  <2>3. DmaType' /\ RespType'
    BY <2>1 DEF DmaType, RespType
  <2>4. QED
    BY <2>2, <2>3, Frame
<1>6. CASE DmaTake
  <2> USE <1>6 DEF DmaTake
  <2>1. DmaType'
    <3>1. CASE ldq # <<>> /\ cur' = Front(ldq) /\ ldq' = Tail(ldq) /\ UNCHANGED stq
      <4>1. Front(ldq) \in LoadInst /\ Tail(ldq) \in Seq(LoadInst)
        BY <3>1, FrontTailType DEF DmaType
      <4>2. QED
        BY <3>1, <4>1 DEF DmaType
    <3>2. CASE stq # <<>> /\ cur' = Front(stq) /\ stq' = Tail(stq) /\ UNCHANGED ldq
      <4>1. Front(stq) \in StoreInst /\ Tail(stq) \in Seq(StoreInst)
        BY <3>2, FrontTailType DEF DmaType
      <4>2. QED
        BY <3>2, <4>1 DEF DmaType
    <3>3. QED
      BY <3>1, <3>2
  <2>2. QED
    BY <2>1, Frame
<1>7. CASE DmaIdle
  <2>1. PipeType'
    BY <1>7, TickType DEF DmaIdle
  <2>2. QED
    BY <1>7, <2>1, Frame DEF DmaIdle, Phase
<1>8. CASE DmaGenerate
  <2> USE <1>8 DEF DmaGenerate
  <2>1. PipeType'
    BY TickType
  <2>2. cur \in Inst
    BY DEF DmaType
  <2>3. Owed \in Nat /\ Sent \in Nat /\ Sent <= Owed /\ Counted \in Nat
    BY <2>2, CoreConfig DEF Owed, Sent, Counted, ConfigAssumption, DmaType
  <2>4. DmaType'
    <3>1. pending' \in Nat /\ (pending' = 0 <=> Owed = Sent)
      BY <2>3
    <3>2. (dmaFinished' <=> Owed = Sent) /\ (generated' <=> Owed # Sent)
      OBVIOUS
    <3>3. dmaFinished' \in BOOLEAN /\ generated' \in BOOLEAN
      OBVIOUS
    <3>4. cur # None /\ UNCHANGED <<ldq, stq, cur>>
      BY DEF DmaType
    <3>5. QED
      BY <3>1, <3>2, <3>3, <3>4 DEF DmaType
  <2>5. RespType'
    BY <2>2, <2>3 DEF RespType
  <2>6. MemType'
    BY <2>2, <2>3 DEF MemType
  <2>7. QED
    BY <2>1, <2>4, <2>5, <2>6, Frame DEF Phase
<1>9. QED
  BY <1>1, <1>2, <1>3, <1>4, <1>5, <1>6, <1>7, <1>8 DEF Dma

\* What the issue stage does to the ready queue of the tile
LEMMA IssuingType ==
  ASSUME TypeInv, NEW i \in Inst, Issuing(i)
  PROVE  ReadyType(WithoutHead(i))
<1> USE CoreProgram DEF ProgramAssumption, TypeInv, FlowType, ReadyType
<1>1. PICK n \in 1..Len(tiles) : readyQ[tiles[n]] # <<>> /\ Front(readyQ[tiles[n]]) = i
  BY DEF Issuing
<1>2. tiles[n] \in Tile
  BY DEF TileType
<1>3. Front(readyQ[tiles[n]]) \in InstOf(tiles[n])
  BY <1>1, <1>2, FrontTailType
<1>4. Owner[i] = tiles[n] /\ readyQ[Owner[i]] # <<>>
  BY <1>1, <1>3 DEF InstOf
<1>5. Tail(readyQ[Owner[i]]) \in Seq(Inst) /\ Tail(readyQ[Owner[i]]) \in Seq(InstOf(Owner[i]))
  BY <1>4, FrontTailType
<1>6. QED
  BY <1>5 DEF WithoutHead

\* Erasing the head of a ready queue keeps the queues typed.
LEMMA EraseType ==
  ASSUME TypeInv, NEW i \in Inst, Issuing(i), Erase(i)
  PROVE  FlowType'
BY IssuingType DEF Erase, TypeInv, FlowType, ReadyType

\* DMA::register_tag keeps the tag table typed.
LEMMA RegisterType ==
  ASSUME TypeInv, NEW g \in Tag, NEW s \in TagState, RegisterTag(g, s)
  PROVE  TagType'
BY DEF RegisterTag, TypeInv, TagType

\* DMA::register_tag_waiter keeps the lists of waiters typed.
LEMMA WaitType ==
  ASSUME TypeInv, NEW i \in Inst, WaitForTag(i)
  PROVE  TagType'
BY CoreProgram DEF ProgramAssumption, WaitForTag, TypeInv, TagType

\* The systolic array that is chosen exists.
LEMMA PipelineType ==
  ASSUME TypeInv, NEW i \in Inst
  PROVE  Target(i) \in Unit /\ NextRR(i) \in 0..(NumSA - 1)
<1>1. rr \in 0..(NumSA - 1) /\ NumSA \in Nat \ {0}
  BY CoreConfig DEF ConfigAssumption, TypeInv, PipeType
<1>2. QED
  BY <1>1 DEF Target, NextRR, Unit, VU

\* The time a COMP is given is an integer.
LEMMA FinishTimeType ==
  ASSUME TypeInv, NEW i \in Inst, NEW q \in Seq(Inst)
  PROVE  FinishTime(i, q) \in Int
<1>1. cyc[i] \in Nat /\ Overlap[i] \in Nat
  BY CoreProgram DEF ProgramAssumption, TypeInv, PipeType
<1>2. CASE q = <<>>
  BY <1>1, <1>2 DEF FinishTime
<1>3. CASE q # <<>>
  <2>1. q[Len(q)] \in Inst
    BY <1>3
  <2>2. left[q[Len(q)]] \in Int
    BY <2>1 DEF TypeInv, PipeType
  <2>3. QED
    BY <1>1, <1>3, <2>2 DEF FinishTime, Overlapped
<1>4. QED
  BY <1>2, <1>3

\* The issue stage of Core::cycle, one case per kind of instruction.
LEMMA TypeIssue ==
  ASSUME TypeInv, Issue
  PROVE  TypeInv'
<1> USE DEF TypeInv
<1>0. ASSUME NEW i \in Inst PROVE TagOf[i] \in Tag
  BY <1>0, CoreProgram DEF ProgramAssumption
<1>p. {"idle", "compute", "dma", "issue", "retire", "cache"} = Phase
  BY DEF Phase
<1>1. ASSUME NEW i \in Inst, IssueSparseLoad(i) PROVE TypeInv'
  <2> USE <1>1 DEF IssueSparseLoad
  <2>1. FlowType' /\ ExitType'
    BY IssuingType, FinishType
  <2>2. TagType'
    BY <1>0, RegisterType DEF TagState
  <2>3. QED
    BY <1>p, <2>1, <2>2, Frame
<1>2. ASSUME NEW i \in Inst, SkipLoad(i) PROVE TypeInv'
  <2> USE <1>2 DEF SkipLoad
  <2>1. FlowType' /\ ExitType' /\ TagType'
    <3>1. CASE tagTable[TagOf[i]] = "pending"
      BY <3>1, WaitType, EraseType, Frame
    <3>2. CASE tagTable[TagOf[i]] # "pending"
      BY <3>2, IssuingType, FinishType, Frame
    <3>3. QED
      BY <3>1, <3>2
  <2>2. QED
    BY <1>p, <2>1, Frame
<1>3. ASSUME NEW i \in Inst, IssueLoad(i) PROVE TypeInv'
  <2> USE <1>3 DEF IssueLoad
  <2>1. TagType'
    BY <1>0, RegisterType DEF TagState
  <2>2. i \in LoadInst
    BY DEF LoadInst
  <2>3. DmaType'
    BY <2>2 DEF DmaType
  <2>4. QED
    BY <1>p, <2>1, <2>3, EraseType, Frame
<1>4. ASSUME NEW i \in Inst, IssueStore(i) PROVE TypeInv'
  <2> USE <1>4 DEF IssueStore
  <2>1. i \in StoreInst
    BY DEF StoreInst
  <2>2. DmaType'
    BY <2>1 DEF DmaType
  <2>3. QED
    BY <1>p, <2>2, EraseType, Frame
<1>5. ASSUME NEW i \in Inst, IssueCompute(i) PROVE TypeInv'
  <2> USE <1>5 DEF IssueCompute
  <2>1. Target(i) \in Unit /\ NextRR(i) \in 0..(NumSA - 1)
    BY PipelineType
  <2>2. pipe[Target(i)] \in Seq(Inst)
    BY <2>1 DEF PipeType
  <2>3. FinishTime(i, pipe[Target(i)]) \in Int
    BY <2>2, FinishTimeType
  <2>4. PipeType'
    BY <2>1, <2>2, <2>3 DEF PipeType
  <2>5. QED
    BY <1>p, <2>4, EraseType, Frame
<1>6. ASSUME NEW i \in Inst, SkipCompute(i) PROVE TypeInv'
  <2> USE <1>6 DEF SkipCompute
  <2>1. FlowType'
    BY IssuingType, CompleteType
  <2>2. PipeType'
    BY PipelineType DEF PipeType
  <2>3. QED
    BY <2>1, <2>2, Frame DEF ExitType
<1>7. ASSUME NEW i \in Inst, IssueBarrier(i) PROVE TypeInv'
  <2> USE <1>7 DEF IssueBarrier
  <2>1. tagTable[TagOf[i]] \in TagState
    BY <1>0 DEF TagType
  <2>2. FlowType' /\ ExitType' /\ TagType' /\ cyc' \in [Inst -> Nat]
    <3>1. CASE tagTable[TagOf[i]] = "absent"
      BY <3>1, Frame DEF ExitType, PipeType
    <3>2. CASE tagTable[TagOf[i]] = "sparse"
      <4>1. FinishInst(i, WithoutHead(i)) /\ UNCHANGED tagVars
        BY <3>2
      <4>2. cyc' = [k \in Inst |-> IF k \in SkippedBy(i) THEN 0 ELSE cyc[k]]
        BY <3>2
      <4>3. QED
        BY <4>1, <4>2, IssuingType, FinishType, Frame DEF PipeType
    <3>3. CASE tagTable[TagOf[i]] = "done"
      BY <3>3, IssuingType, FinishType, Frame DEF PipeType
    <3>4. CASE tagTable[TagOf[i]] = "pending"
      BY <3>4, WaitType, EraseType, Frame DEF PipeType
    <3>5. QED
      BY <2>1, <3>1, <3>2, <3>3, <3>4 DEF TagState
  <2>3. PipeType'
    BY <2>2 DEF PipeType
  <2>4. QED
    BY <1>p, <2>2, <2>3, Frame
<1>8. CASE IssueNone
  BY <1>8, <1>p, Frame DEF IssueNone
<1>9. QED
  BY <1>1, <1>2, <1>3, <1>4, <1>5, <1>6, <1>7, <1>8 DEF Issue

\* Giving up a tile moves it from one list of the core to another.
LEMMA TypeRetire ==
  ASSUME TypeInv, Retire \/ CacheCycle
  PROVE  TypeInv'
<1> USE DEF TypeInv
<1>1. CASE Retire
  <2> USE <1>1 DEF Retire
  <2>1. TileType'
    <3>1. ASSUME NEW n \in 1..Len(tiles), RetireTile(n) PROVE TileType'
      <4>1. tiles \in Seq(Tile) /\ finishedTiles \in Seq(Tile) /\ tiles[n] \in Tile
        BY DEF TileType
      <4>2. SubSeq(tiles, 1, n - 1) \in Seq(Tile)
        BY <4>1
      <4>3. SubSeq(tiles, n + 1, Len(tiles)) \in Seq(Tile)
        BY <4>1
      <4>4. tiles' = SubSeq(tiles, 1, n - 1) \o SubSeq(tiles, n + 1, Len(tiles))
        BY <3>1 DEF RetireTile
      <4> HIDE <1>1 DEF TypeInv, Retire
      <4>5. tiles' \in Seq(Tile)
        BY <4>2, <4>3, <4>4, ConcatProperties
      <4>6. finishedTiles' \in Seq(Tile)
        BY <3>1, <4>1, AppendProperties DEF RetireTile
      <4>7. arrived' = arrived /\ returned' = returned
        BY <1>1 DEF Retire
      <4>8. QED
        BY <4>5, <4>6, <4>7 DEF TileType, TypeInv
    <3>2. CASE UNCHANGED <<tiles, finishedTiles>>
      BY <3>2 DEF TileType
    <3>3. QED
      BY <3>1, <3>2
  <2>2. QED
    BY <2>1, Frame DEF Phase
<1>2. CASE CacheCycle
  <2> USE <1>2 DEF CacheCycle
  <2>1. MemType'
    BY DEF MemType
  <2>2. QED
    BY <2>1, Frame DEF Phase
<1>3. QED
  BY <1>1, <1>2

\* Every variable keeps its type, for every program and every configuration.
THEOREM TypeCorrect == Spec => []TypeInv
<1>1. Init => TypeInv
  BY TypeInit
<1>2. TypeInv /\ [Next]_vars => TypeInv'
  <2> SUFFICES ASSUME TypeInv, [Next]_vars PROVE TypeInv'
    OBVIOUS
  <2>1. CASE UNCHANGED vars
    BY <2>1, Frame DEF vars, TypeInv
  <2>2. CASE Cycle
    <3>1. CASE StartCycle
      BY <3>1, Frame DEF StartCycle, Phase, TypeInv
    <3>2. QED
      BY <2>2, <3>1, TypeCompute, TypeDma, TypeIssue, TypeRetire DEF Cycle
  <2>3. ASSUME NEW t \in Tile, IssueTile(t) PROVE TypeInv'
    BY <2>3, TypeIssueTile
  <2>4. CASE PopFinishedTile
    BY <2>4, TypePopFinishedTile
  <2>5. ASSUME NEW i \in Inst, PopRequest(i) \/ PushResponse(i) PROVE TypeInv'
    BY <2>5, TypeTraffic
  <2>6. QED
    BY <2>1, <2>2, <2>3, <2>4, <2>5 DEF Next, Exited
<1>3. QED
  BY <1>1, <1>2, PTL DEF Spec

\* No count of open requests is below zero.
LEMMA WaitingNat ==
  TypeInv /\ Conservation => waiting \in [Inst -> Nat]
<1> SUFFICES ASSUME TypeInv, Conservation PROVE waiting \in [Inst -> Nat]
  OBVIOUS
<1> USE DEF TypeInv
<1>1. ASSUME NEW i \in Inst PROVE waiting[i] \in Nat
  <2>1. waiting[i] = queued[i] + net[i] + mem[i] + (IF i = cur /\ generated THEN pending ELSE 0)
    BY DEF Conservation
  <2>2. queued[i] \in Nat /\ net[i] \in Nat /\ mem[i] \in Nat /\ pending \in Nat
    BY DEF MemType, DmaType
  <2>3. QED
    BY <2>1, <2>2
<1>2. QED
  BY <1>1 DEF RespType

\* TypeInv without the sign of the counts of responses is TypeOK; Conservation adds it.
LEMMA TypeInvConserved ==
  TypeInv /\ Conservation => TypeOK
<1> SUFFICES ASSUME TypeInv, Conservation PROVE TypeOK
  OBVIOUS
<1> USE DEF TypeInv
<1>1. waiting \in [Inst -> Nat]
  BY WaitingNat
<1>2. ldq \in Seq(Inst) /\ stq \in Seq(Inst) /\ cur \in Inst \cup {None}
  BY DEF DmaType, LoadInst, StoreInst
<1>3. QED
  BY <1>1, <1>2 DEF TypeOK, ExitType, TileType, FlowType, ReadyType, PipeType, DmaType, RespType, TagType, MemType

-------------------------------------------------------------------------------
(* Every response finds its instruction *)

traffic == <<cur, dmaFinished, generated, pending, waiting, waitq, queued, net, mem>>

\* The inductive invariant.  Conservation and LastOneOut together say that an instruction
\* the DMA engine gives up is still owed a response.
TrafficInv == TypeInv /\ Conservation /\ LastOneOut /\ NoLostCompletion

\* A step that moves no request or response, and starts no issue stage with a transfer
\* half given up, keeps the invariant.
LEMMA TrafficFrame ==
  ASSUME TrafficInv, UNCHANGED traffic, phase' \in Late => phase \in Late \/ cur = None
  PROVE  Conservation' /\ LastOneOut' /\ NoLostCompletion'
<1> USE DEF TrafficInv, traffic
<1>1. Conservation' /\ NoLostCompletion'
  BY DEF Conservation, NoLostCompletion
<1>2. LastOneOut'
  <2> SUFFICES ASSUME dmaFinished', cur' # None PROVE LastOneOut'
    BY DEF LastOneOut
  <2>1. cur \in Inst
    BY DEF TypeInv, DmaType, LoadInst, StoreInst
  <2>2. queued[cur] \in Nat /\ net[cur] \in Nat
    BY <2>1 DEF TypeInv, MemType
  <2>3. QED
    BY <2>2 DEF LastOneOut
<1>3. QED
  BY <1>1, <1>2

\* The steps that move no request or response.
LEMMA QuietSteps ==
  ASSUME [Next]_vars,
         ~ \E i \in Inst : PopRequest(i) \/ PushResponse(i),
         ~DmaRetire, ~DmaTake, ~DmaGenerate, ~CacheCycle
  PROVE  UNCHANGED traffic /\ (phase' \in Late => phase \in Late \/ cur = None)
<1> USE DEF traffic, Late, Running, Drained
<1>1. CASE UNCHANGED vars
  BY <1>1 DEF vars, dmaVars, respVars, memVars
<1>2. ASSUME NEW t \in Tile, IssueTile(t) PROVE UNCHANGED traffic /\ UNCHANGED phase
  BY <1>2 DEF IssueTile, dmaVars, respVars, memVars
<1>3. CASE PopFinishedTile
  BY <1>3 DEF PopFinishedTile, dmaVars, respVars, memVars
<1>4. CASE StartCycle
  BY <1>4 DEF StartCycle, dmaVars, respVars, memVars
<1>5. CASE Compute
  <2>1. ASSUME NEW u \in Unit, RetireCompute(u) PROVE UNCHANGED traffic /\ UNCHANGED phase
    BY <2>1 DEF RetireCompute, dmaVars, respVars, memVars
  <2>2. CASE EndCompute
    BY <2>2 DEF EndCompute, dmaVars, respVars, memVars
  <2>3. QED
    BY <1>5, <2>1, <2>2 DEF Compute
<1>6. CASE Dma
  <2>1. CASE DrainSyncLoad
    BY <2>1 DEF DrainSyncLoad, dmaVars, memVars
  <2>2. CASE DrainAsyncLoad
    BY <2>2 DEF DrainAsyncLoad, dmaVars, memVars
  <2>3. CASE WakeWaiter
    BY <2>3 DEF WakeWaiter, dmaVars, memVars
  <2>4. CASE DrainStore
    BY <2>4 DEF DrainStore, dmaVars, memVars
  <2>5. CASE DmaIdle
    BY <2>5 DEF DmaIdle, dmaVars, respVars, memVars
  <2>6. QED
    BY <1>6, <2>1, <2>2, <2>3, <2>4, <2>5 DEF Dma
<1>7. CASE Issue
  <2>1. ASSUME NEW i \in Inst,
               \/ IssueSparseLoad(i) \/ SkipLoad(i) \/ IssueLoad(i) \/ IssueStore(i)
               \/ IssueCompute(i) \/ SkipCompute(i) \/ IssueBarrier(i)
        PROVE  UNCHANGED traffic /\ phase \in Late
    <3> USE DEF Issuing, dmaVars, respVars, memVars
    <3>1. CASE IssueSparseLoad(i)
      BY <3>1 DEF IssueSparseLoad
    <3>2. CASE SkipLoad(i)
      BY <3>2 DEF SkipLoad
    <3>3. CASE IssueLoad(i)
      BY <3>3 DEF IssueLoad
    <3>4. CASE IssueStore(i)
      BY <3>4 DEF IssueStore
    <3>5. CASE IssueCompute(i)
      BY <3>5 DEF IssueCompute
    <3>6. CASE SkipCompute(i)
      BY <3>6 DEF SkipCompute
    <3>7. CASE IssueBarrier(i)
      BY <3>7 DEF IssueBarrier
    <3>8. QED
      BY <2>1, <3>1, <3>2, <3>3, <3>4, <3>5, <3>6, <3>7
  <2>2. CASE IssueNone
    BY <2>2 DEF IssueNone, dmaVars, respVars, memVars
  <2>3. QED
    BY <1>7, <2>1, <2>2 DEF Issue
<1>8. CASE Retire
  BY <1>8 DEF Retire, dmaVars, respVars, memVars
<1>9. QED
  BY <1>1, <1>2, <1>3, <1>4, <1>5, <1>6, <1>7, <1>8 DEF Next, Cycle, Exited

\* A request that leaves the core is still this side of the memory.
LEMMA PopRequestTraffic ==
  ASSUME TrafficInv, NEW i \in Inst, PopRequest(i)
  PROVE  Conservation' /\ LastOneOut' /\ NoLostCompletion'
<1> USE DEF TrafficInv, PopRequest, respVars, dmaVars
<1>1. MemType /\ RespType /\ DmaType
  BY DEF TypeInv
<1>2. \A j \in Inst : queued'[j] + net'[j] = queued[j] + net[j] /\ UNCHANGED mem[j]
  BY <1>1 DEF MemType
<1>3. \A j \in Inst : queued'[j] \in Nat /\ net'[j] \in Nat /\ queued[j] \in Nat /\ net[j] \in Nat /\ mem[j] \in Nat
  BY <1>1 DEF MemType
<1>4. Conservation'
  BY <1>1, <1>2, <1>3 DEF Conservation, DmaType
<1>5. LastOneOut'
  BY <1>1, <1>2, <1>3 DEF LastOneOut, DmaType, LoadInst, StoreInst, Running, Late
<1>6. NoLostCompletion'
  BY DEF NoLostCompletion
<1>7. QED
  BY <1>4, <1>5, <1>6

\* The last response of an instruction in the waiting queue takes it out.
LEMMA PushResponseTraffic ==
  ASSUME TrafficInv, NEW i \in Inst, PushResponse(i)
  PROVE  Conservation' /\ LastOneOut' /\ NoLostCompletion'
<1> USE DEF TrafficInv, PushResponse, dmaVars
<1>1. MemType /\ RespType /\ DmaType
  BY DEF TypeInv
<1>2. \A j \in Inst : waiting[j] - mem[j] = waiting'[j] - mem'[j]
  BY <1>1 DEF MemType, RespType
<1>3. \A j \in Inst : /\ waiting[j] \in Int /\ waiting'[j] \in Int
                      /\ mem[j] \in Nat /\ mem'[j] \in Int /\ queued[j] \in Nat /\ net[j] \in Nat
  BY <1>1 DEF MemType, RespType
<1>4. Conservation'
  <2> SUFFICES ASSUME NEW j \in Inst
               PROVE  waiting'[j] = queued'[j] + net'[j] + mem'[j]
                                      + (IF j = cur' /\ generated' THEN pending' ELSE 0)
    BY DEF Conservation
  <2>1. waiting[j] = queued[j] + net[j] + mem[j] + (IF j = cur /\ generated THEN pending ELSE 0)
    BY DEF Conservation
  <2> DEFINE unsent == IF j = cur /\ generated THEN pending ELSE 0
  <2>2. unsent \in Nat /\ unsent' = unsent
    BY <1>1 DEF DmaType
  <2>3. queued'[j] = queued[j] /\ net'[j] = net[j]
    OBVIOUS
  <2> HIDE DEF unsent, PushResponse, TrafficInv
  <2>4. waiting[j] = queued[j] + net[j] + mem[j] + unsent
    BY <2>1 DEF unsent
  <2>5. waiting[j] - mem[j] = waiting'[j] - mem'[j]
    BY <1>2
  <2>6. /\ waiting[j] \in Int /\ waiting'[j] \in Int
        /\ mem[j] \in Nat /\ mem'[j] \in Int /\ queued[j] \in Nat /\ net[j] \in Nat
    BY <1>3
  <2>7. waiting'[j] = queued'[j] + net'[j] + mem'[j] + unsent'
    BY <2>2, <2>3, <2>4, <2>5, <2>6
  <2>8. QED
    BY <2>7 DEF unsent
<1>5. LastOneOut'
  BY <1>1 DEF LastOneOut, DmaType
<1>6. NoLostCompletion'
  <2>1. \A j \in Inst \ {i} : waiting'[j] = waiting[j] /\ (j \in waitq' <=> j \in waitq)
    BY <1>1 DEF RespType
  <2>2. waiting'[i] = waiting[i] - 1
    BY <1>1 DEF RespType
  <2>3. CASE waiting[i] = 1 /\ i \in waitq
    BY <1>3, <2>1, <2>2, <2>3 DEF NoLostCompletion
  <2>4. CASE ~(waiting[i] = 1 /\ i \in waitq)
    BY <1>3, <2>1, <2>2, <2>4 DEF NoLostCompletion
  <2>5. QED
    BY <2>3, <2>4
<1>7. QED
  BY <1>4, <1>5, <1>6

\* The instruction that DMA engine gives up is owed a response (LastOneOut), so it is right
\* to put it in the waiting queue.
LEMMA DmaRetireTraffic ==
  ASSUME TrafficInv, DmaRetire
  PROVE  Conservation' /\ LastOneOut' /\ NoLostCompletion'
<1> USE DEF TrafficInv, DmaRetire, memVars
<1>1. MemType /\ RespType /\ DmaType
  BY DEF TypeInv
<1>2. ~generated /\ cur \in Inst
  BY <1>1 DEF DmaType, LoadInst, StoreInst
<1>3. phase = "dma"
  BY DEF Drained, Running
<1>4. queued[cur] \in Nat /\ net[cur] \in Nat /\ mem[cur] \in Nat
  BY <1>1, <1>2 DEF MemType
<1>5. waiting[cur] > 0
  <2>1. queued[cur] + net[cur] >= 1
    BY <1>2, <1>3, <1>4 DEF LastOneOut, Late
  <2>2. waiting[cur] = queued[cur] + net[cur] + mem[cur]
    BY <1>2, <1>4 DEF Conservation
  <2>3. QED
    BY <1>4, <2>1, <2>2
<1>6. Conservation'
  BY <1>2 DEF Conservation
<1>7. LastOneOut'
  BY DEF LastOneOut
<1>8. NoLostCompletion'
  BY <1>5 DEF NoLostCompletion
<1>9. QED
  BY <1>6, <1>7, <1>8

\* The transfer the engine takes up next has counted no request yet.
LEMMA DmaTakeTraffic ==
  ASSUME TrafficInv, DmaTake
  PROVE  Conservation' /\ LastOneOut' /\ NoLostCompletion'
<1> USE DEF TrafficInv, DmaTake, memVars, respVars
<1>1. ~generated /\ cur = None /\ None \notin Inst
  BY CoreProgram DEF TypeInv, DmaType, ProgramAssumption
<1>2. Conservation'
  BY <1>1 DEF Conservation
<1>3. LastOneOut'
  BY DEF LastOneOut
<1>4. NoLostCompletion'
  BY <1>1 DEF NoLostCompletion
<1>5. QED
  BY <1>2, <1>3, <1>4

\* A transfer is never empty, so the cycle in which it ends sends a request.
LEMMA DmaGenerateTraffic ==
  ASSUME TrafficInv, DmaGenerate
  PROVE  Conservation' /\ LastOneOut' /\ NoLostCompletion'
<1> USE DEF TrafficInv, DmaGenerate
<1>1. MemType /\ RespType /\ DmaType
  BY DEF TypeInv
<1>2. cur \in Inst /\ Op[cur] \in {"MOVIN", "MOVOUT"}
  BY <1>1 DEF DmaType, LoadInst, StoreInst
<1>3. Requests[cur] \in Nat /\ Requests[cur] >= 1
  BY <1>2, CoreProgram, CoreTransfers DEF ProgramAssumption, TransferAssumption
<1>4. pending \in Nat /\ (generated => pending >= 1) /\ (~generated => pending = 0)
  BY <1>1 DEF DmaType
<1>5. /\ Owed \in Nat /\ Owed >= 1
      /\ Sent \in Nat /\ Sent >= 1 /\ Sent <= Owed
      /\ Counted \in Nat /\ Owed = pending + Counted
  BY <1>3, <1>4, CoreConfig DEF Owed, Sent, Counted, ConfigAssumption
<1>6. /\ waiting'[cur] = waiting[cur] + Counted
      /\ queued'[cur] = queued[cur] + Sent
      /\ \A j \in Inst \ {cur} : waiting'[j] = waiting[j] /\ queued'[j] = queued[j]
  BY <1>1, <1>2 DEF RespType, MemType
<1>7. /\ \A j \in Inst : waiting[j] \in Int /\ queued[j] \in Nat /\ net[j] \in Nat /\ mem[j] \in Nat
      /\ net' = net /\ mem' = mem /\ cur' = cur /\ waitq' = waitq
  BY <1>1 DEF RespType, MemType
<1>8. pending' = Owed - Sent /\ (generated' <=> Owed # Sent)
  OBVIOUS
<1>9. Conservation'
  <2>1. waiting[cur] = queued[cur] + net[cur] + mem[cur] + (IF generated THEN pending ELSE 0)
    BY <1>2 DEF Conservation
  <2>2. waiting[cur] = queued[cur] + net[cur] + mem[cur] + pending
    BY <1>4, <2>1, <1>7, <1>2
  <2>3. waiting'[cur] = queued'[cur] + net'[cur] + mem'[cur] + pending'
    BY <1>2, <1>4, <1>5, <1>6, <1>7, <1>8, <2>2
  <2>4. pending' \in Nat /\ (~generated' => pending' = 0)
    BY <1>5, <1>8
  <2>5. waiting'[cur] = queued'[cur] + net'[cur] + mem'[cur] + (IF generated' THEN pending' ELSE 0)
    BY <2>3, <2>4
  <2>6. \A j \in Inst \ {cur} : waiting'[j] = queued'[j] + net'[j] + mem'[j] + 0
    BY <1>6, <1>7 DEF Conservation
  <2>7. QED
    BY <1>7, <2>5, <2>6 DEF Conservation
<1>10. LastOneOut'
  <2>1. phase' \in Late
    BY DEF Late
  <2>2. queued'[cur] >= 1
    BY <1>2, <1>5, <1>6, <1>7
  <2>3. queued'[cur] + 0 >= 1
    BY <1>2, <1>5, <1>6, <1>7
  <2>4. QED
    BY <1>7, <2>1, <2>3 DEF LastOneOut
<1>11. NoLostCompletion'
  BY <1>2, <1>5, <1>6, <1>7 DEF NoLostCompletion
<1>12. QED
  BY <1>9, <1>10, <1>11

\* What is still in the request queue when the cycle ends has not passed the cache.
LEMMA CacheCycleTraffic ==
  ASSUME TrafficInv, CacheCycle
  PROVE  Conservation' /\ LastOneOut' /\ NoLostCompletion'
<1> USE DEF TrafficInv, CacheCycle, respVars, dmaVars
<1>1. MemType /\ RespType /\ DmaType
  BY DEF TypeInv
<1>2. \A j \in Inst : /\ queued[j] \in Nat /\ net[j] \in Nat /\ mem[j] \in Nat
                      /\ mem'[j] = mem[j] + net[j] /\ net'[j] = 0
  BY <1>1 DEF MemType
<1>3. Conservation'
  BY <1>1, <1>2 DEF Conservation, DmaType
<1>4. LastOneOut'
  BY <1>1, <1>2 DEF LastOneOut, Late, Running, DmaType, LoadInst, StoreInst
<1>5. NoLostCompletion'
  BY DEF NoLostCompletion
<1>6. QED
  BY <1>3, <1>4, <1>5

\* Every step of the core and of its callers keeps the traffic invariant.
LEMMA TrafficStep ==
  TrafficInv /\ TypeInv' /\ [Next]_vars => TrafficInv'
<1> SUFFICES ASSUME TrafficInv, TypeInv', [Next]_vars PROVE TrafficInv'
  OBVIOUS
<1>1. ASSUME NEW i \in Inst, PopRequest(i) \/ PushResponse(i)
      PROVE  Conservation' /\ LastOneOut' /\ NoLostCompletion'
  BY <1>1, PopRequestTraffic, PushResponseTraffic
<1>2. CASE DmaRetire \/ DmaTake \/ DmaGenerate \/ CacheCycle
  BY <1>2, DmaRetireTraffic, DmaTakeTraffic, DmaGenerateTraffic, CacheCycleTraffic DEF TrafficInv
<1>3. CASE /\ ~ \E i \in Inst : PopRequest(i) \/ PushResponse(i)
           /\ ~DmaRetire /\ ~DmaTake /\ ~DmaGenerate /\ ~CacheCycle
  BY <1>3, QuietSteps, TrafficFrame DEF TrafficInv
<1>4. QED
  BY <1>1, <1>2, <1>3 DEF TrafficInv

\* Requests and responses are conserved, the last request of a transfer is on this side of
\* the memory until the waiting queue holds the transfer, and no completion is lost: for
\* every order in which the memory answers.
THEOREM TrafficCorrect == Spec => []TrafficInv
<1>1. Init => TrafficInv
  <2> SUFFICES ASSUME Init PROVE TrafficInv
    OBVIOUS
  <2>1. Conservation /\ NoLostCompletion
    BY DEF Init, Conservation, NoLostCompletion
  <2>2. LastOneOut
    BY DEF Init, LastOneOut
  <2>3. QED
    BY <2>1, <2>2, TypeInit DEF TrafficInv
<1>2. TrafficInv /\ TypeInv' /\ [Next]_vars => TrafficInv'
  BY TrafficStep
<1>3. QED
  BY <1>1, <1>2, TypeCorrect, PTL DEF Spec

\* An instruction waits for exactly the responses that are on their way.
THEOREM ConservationHolds == Spec => []Conservation
<1>1. TrafficInv => Conservation
  BY DEF TrafficInv
<1>2. QED
  BY <1>1, TrafficCorrect, PTL

\* One request of a transfer that is sent but not yet in the waiting queue is always out.
THEOREM LastOneOutHolds == Spec => []LastOneOut
<1>1. TrafficInv => LastOneOut
  BY DEF TrafficInv
<1>2. QED
  BY <1>1, TrafficCorrect, PTL

\* The branch of push_memory_response that drops a completion is never taken.
THEOREM NoCompletionLost == Spec => []NoLostCompletion
<1>1. TrafficInv => NoLostCompletion
  BY DEF TrafficInv
<1>2. QED
  BY <1>1, TrafficCorrect, PTL

\* Every variable has the type that the code declares: no count of responses wraps below 0.
THEOREM TypesHold == Spec => []TypeOK
<1>1. TrafficInv => TypeOK
  BY TypeInvConserved DEF TrafficInv
<1>2. QED
  BY <1>1, TrafficCorrect, PTL

\* The three together, as module Core states them.
THEOREM TrafficHolds == Spec => []Traffic
<1>1. TrafficInv => Traffic
  BY DEF TrafficInv, Traffic
<1>2. QED
  BY <1>1, TrafficCorrect, PTL

-------------------------------------------------------------------------------
(***************************************************************************)
(* Part 2.  Where tiles and instructions are                               *)
(*                                                                         *)
(* Tiles: each tile the core has accepted is in exactly one of the lists   *)
(* _tiles, _finished_tiles and "given back", once (TilesApart); with that  *)
(* every step of the core is a step of TileService or none at all.         *)
(* Instructions: each is in at most one place (OnePlace), is finished by   *)
(* whoever takes it out of there, and goes nowhere before its tile is here *)
(* and its parents are finished; the counters count what they are said to  *)
(* count (CountersRight).  That a tile is given back only when it is done, *)
(* and that running() is false only when nothing is left, follows.         *)
(* Pipelines: no computation overtakes the one in front (PipelineTiming).  *)
(***************************************************************************)

(* Tiles *)

\* Each accepted tile is in one list, once.
TilesApart ==
  /\ Distinct(tiles) /\ Distinct(finishedTiles)
  /\ arrived = Held \cup Elems(finishedTiles) \cup returned
  /\ Held \cap Elems(finishedTiles) = {} /\ Held \cap returned = {}
  /\ Elems(finishedTiles) \cap returned = {}

\* Both modules call the entries of _tiles and _finished_tiles by names of their own.
LEMMA HeldElems == Held = Elems(tiles) /\ Service!InDone = Elems(finishedTiles)
BY DEF Held, Elems, Service!InDone

\* And each has its own copy of module FiniteSets.
LEMMA SameCardinality == \A S : Service!Cardinality(S) = Cardinality(S)
BY DEF Cardinality, Service!Cardinality

\* A tile that Core::issue accepts is new to the core and finds a slot.
LEMMA IssueTileService ==
  ASSUME TypeInv, TilesApart, NEW t \in Tile, IssueTile(t)
  PROVE  TilesApart' /\ Service!Accept(t)
<1> USE DEF TilesApart, IssueTile
<1>1. tiles \in Seq(Tile)
  BY DEF TypeInv, TileType
<1>2. t \notin Held /\ t \notin Elems(finishedTiles) /\ t \notin returned
  OBVIOUS
<1>3. Held' = Held \cup {t} /\ Distinct(tiles')
  <2>1. Held' = Elems(Append(tiles, t))
    BY DEF Held, Elems
  <2>2. QED
    BY <1>1, <1>2, <2>1, ElemsAppend, HeldElems
<1>4. TilesApart'
  BY <1>2, <1>3
<1>5. Cardinality(Held) < TileSlots
  <2>1. Cardinality(Held) \in Nat /\ Cardinality(Held) <= Len(tiles)
    BY <1>1, ElemsFinite, HeldElems
  <2>2. Len(tiles) < TileSlots /\ Len(tiles) \in Nat /\ TileSlots \in Nat
    BY <1>1, CoreConfig DEF CanIssue, ConfigAssumption
  <2>3. QED
    BY <2>1, <2>2
<1>6. UNCHANGED <<finishedTiles, returned>>
  OBVIOUS
<1> HIDE DEF IssueTile, TilesApart
<1>7. Service!Accept(t)
  BY <1>2, <1>3, <1>5, <1>6, HeldElems, SameCardinality DEF Service!Accept
<1>8. QED
  BY <1>4, <1>7

\* The scan at the end of Core::cycle moves one tile that the core holds.
LEMMA RetireService ==
  ASSUME TypeInv, TilesApart, Retire
  PROVE  /\ TilesApart'
         /\ (\E t \in Tile : Service!Finish(t)) \/ UNCHANGED <<Held, finishedTiles, returned>>
<1> USE DEF TilesApart
<1>1. tiles \in Seq(Tile) /\ finishedTiles \in Seq(Tile) /\ arrived' = arrived /\ returned' = returned
  BY DEF TypeInv, TileType, Retire
<1>2. ASSUME NEW n \in 1..Len(tiles), RetireTile(n)
      PROVE  TilesApart' /\ \E t \in Tile : Service!Finish(t)
  <2>1. tiles' = Erased(tiles, n) /\ finishedTiles' = Append(finishedTiles, tiles[n])
    BY <1>2 DEF RetireTile, Erased
  <2>2. tiles[n] \in Tile /\ tiles[n] \in Held
    BY <1>1 DEF Held
  <2>3. Distinct(tiles') /\ Elems(tiles') = Elems(tiles) \ {tiles[n]}
    BY <1>1, <2>1, ElemsErased
  <2>4. Held' = Held \ {tiles[n]}
    BY <2>3, HeldElems DEF Held, Elems
  <2>5. Elems(finishedTiles') = Elems(finishedTiles) \cup {tiles[n]} /\ Distinct(finishedTiles')
    BY <1>1, <2>1, <2>2, ElemsAppend
  <2>6. TilesApart'
    BY <1>1, <2>2, <2>3, <2>4, <2>5
  <2>7. Service!Finish(tiles[n])
    BY <1>1, <2>1, <2>2, <2>4 DEF Service!Finish
  <2>8. QED
    BY <2>2, <2>6, <2>7
<1>3. CASE UNCHANGED <<tiles, finishedTiles>>
  BY <1>1, <1>3 DEF Held
<1>4. QED
  BY <1>2, <1>3 DEF Retire

\* Core::pop_finished_tile gives back the tile that finished first.
LEMMA PopFinishedService ==
  ASSUME TypeInv, TilesApart, PopFinishedTile
  PROVE  TilesApart' /\ Service!GiveBack
<1> USE DEF TilesApart, PopFinishedTile
<1>1. finishedTiles \in Seq(Tile) /\ finishedTiles # <<>>
  BY DEF TypeInv, TileType
<1>2. /\ Elems(finishedTiles) = Elems(finishedTiles') \cup {Front(finishedTiles)}
      /\ Distinct(finishedTiles') /\ Front(finishedTiles) \notin Elems(finishedTiles')
  BY <1>1, ElemsTail DEF Front
<1>3. Held' = Held
  BY DEF Held
<1>4. TilesApart'
  BY <1>2, <1>3
<1>5. Head(finishedTiles) = Front(finishedTiles)
  BY <1>1 DEF Front
<1>6. QED
  BY <1>1, <1>3, <1>4, <1>5 DEF Service!GiveBack

\* No other step touches a list of tiles.
LEMMA TileFrame ==
  ASSUME [Next]_vars, ~Retire, ~PopFinishedTile, ~ \E t \in Tile : IssueTile(t)
  PROVE  UNCHANGED tileVars
<1>1. CASE UNCHANGED vars
  BY <1>1 DEF vars
<1>2. ASSUME NEW i \in Inst, PopRequest(i) \/ PushResponse(i) PROVE UNCHANGED tileVars
  BY <1>2 DEF PopRequest, PushResponse
<1>3. CASE StartCycle \/ CacheCycle
  BY <1>3 DEF StartCycle, CacheCycle
<1>4. CASE Compute
  BY <1>4 DEF Compute, RetireCompute, EndCompute
<1>5. CASE Dma
  BY <1>5 DEF Dma, DrainSyncLoad, DrainAsyncLoad, WakeWaiter, DrainStore, DmaRetire, DmaTake,
              DmaIdle, DmaGenerate
<1>6. CASE Issue
  BY <1>6 DEF Issue, IssueSparseLoad, SkipLoad, IssueLoad, IssueStore, IssueCompute, SkipCompute,
              IssueBarrier, IssueNone
<1>7. QED
  BY <1>1, <1>2, <1>3, <1>4, <1>5, <1>6 DEF Next, Cycle, Exited

\* Every step keeps the lists of tiles apart, and is a step of the service or none.
LEMMA ServiceStep ==
  TypeInv /\ TilesApart /\ [Next]_vars
    => TilesApart' /\ [Service!Next]_<<Held, finishedTiles, returned>>
<1> SUFFICES ASSUME TypeInv, TilesApart, [Next]_vars
             PROVE  TilesApart' /\ [Service!Next]_<<Held, finishedTiles, returned>>
  OBVIOUS
<1>1. CASE Retire
  BY <1>1, RetireService DEF Service!Next
<1>2. CASE PopFinishedTile
  BY <1>2, PopFinishedService DEF Service!Next
<1>3. ASSUME NEW t \in Tile, IssueTile(t)
      PROVE  TilesApart' /\ [Service!Next]_<<Held, finishedTiles, returned>>
  BY <1>3, IssueTileService DEF Service!Next
<1>4. CASE UNCHANGED tileVars
  BY <1>4 DEF tileVars, TilesApart, Held
<1>5. QED
  BY <1>1, <1>2, <1>3, <1>4, TileFrame

\* At first the core has no tile.
LEMMA ServiceInit == Init => TilesApart /\ Service!Init
<1> SUFFICES ASSUME Init PROVE TilesApart /\ Service!Init
  OBVIOUS
<1>1. Held = {} /\ Elems(tiles) = {} /\ Elems(finishedTiles) = {}
  BY DEF Init, Held, Elems
<1>2. Distinct(tiles) /\ Distinct(finishedTiles)
  BY DEF Init, Distinct
<1>3. QED
  BY <1>1, <1>2 DEF Init, TilesApart, Service!Init

\* A tile is never in two lists of the core, nor twice in one, nor in none.
THEOREM TilesApartHold == Spec => []TilesApart
<1>1. QED
  BY ServiceInit, ServiceStep, TypeCorrect, PTL DEF Spec

\* The core implements the service that the schedulers rely on.
THEOREM CoreImplementsService == Spec => ServiceSpec
<1>1. QED
  BY ServiceInit, ServiceStep, TilesApartHold, TypeCorrect, PTL
  DEF Spec, ServiceSpec, Service!Spec, Service!vars

-------------------------------------------------------------------------------
(* Where an instruction is *)

\* The places an instruction may be in.  "tag": it waits for a tag, or stands in the list of
\* waiters that the loop over get_tag_waiter is going through.
Place == {"ready", "pipe", "ldq", "stq", "cur", "waitq", "finq", "tag"}
InWake(i) == Holds(wake, i)
InWaiters(i) == Holds(waiters[TagOf[i]], i)
At(i) == {a \in Place :
            \/ a = "ready" /\ Holds(readyQ[Owner[i]], i)
            \/ a = "pipe" /\ InPipe(i)
            \/ a = "ldq" /\ Holds(ldq, i)
            \/ a = "stq" /\ Holds(stq, i)
            \/ a = "cur" /\ i = cur
            \/ a = "waitq" /\ i \in waitq
            \/ a = "finq" /\ Holds(finq, i)
            \/ a = "tag" /\ (InWake(i) \/ InWaiters(i))}

\* No queue holds an instruction twice, no two pipelines hold the same one, and an
\* instruction waits for its own tag.
QueuesDistinct ==
  /\ \A t \in Tile : Distinct(readyQ[t])
  /\ \A u \in Unit : Distinct(pipe[u])
  /\ \A u, v \in Unit : \A i \in Inst : Holds(pipe[u], i) /\ Holds(pipe[v], i) => u = v
  /\ Distinct(ldq) /\ Distinct(stq) /\ Distinct(finq) /\ Distinct(wake)
  /\ \A g \in Tag : Distinct(waiters[g])
  /\ \A g \in Tag : \A i \in Inst : Holds(waiters[g], i) => TagOf[i] = g

OnePlace == \A i \in Inst : \A a, b \in At(i) : a = b

\* The load of a tag that an instruction may wait for: the tag is set when it comes back.
AsyncLoad(m) == Loading(m) /\ IsAsync[m]
LoadOut(m) == AsyncLoad(m) /\ InFlight(m)
\* A tag is set once: at most one load of a tag is ever out, and after it the tag is known.
OneLoadOut ==
  /\ \A m \in Inst : LoadOut(m) => tagTable[TagOf[m]] # "absent"
  /\ \A m, k \in Inst : LoadOut(m) /\ LoadOut(k) /\ TagOf[m] = TagOf[k] => m = k

\* An instruction is finished by whoever takes it out of its place, except that a store
\* and an asynchronous load are finished when the DMA engine gives them up.  The list of
\* waiters is not emptied when the tag is set, so it says nothing after that.
Undone == {"ready", "pipe", "ldq", "stq", "cur"}
FinishedWhen ==
  \A i \in Inst :
    /\ At(i) \cap Undone # {} \/ InWake(i) => ~finished[i]
    /\ At(i) \cap {"waitq", "finq"} # {} => (finished[i] <=> FinishedByIssue(i))
    /\ \A m \in Inst : LoadOut(m) /\ TagOf[m] = TagOf[i] =>
         ~InWake(i) /\ (InWaiters(i) => ~finished[i])

\* An instruction goes nowhere before its tile has come and its parents are finished.
Started(i) == finished[i] \/ At(i) # {}
NotTooEarly == \A i \in Inst : Started(i) => readyCtr[i] = 0 /\ Owner[i] \in arrived

\* The counters count what they are said to count.
FinishedOf(t) == {i \in InstOf(t) : finished[i]}
ParentsLeft(i) == {p \in Parents(i) : ~finished[p]}
CountersRight ==
  /\ \A i \in Inst : readyCtr[i] = Cardinality(ParentsLeft(i))
  /\ \A t \in Tile : nrFinished[t] = Cardinality(FinishedOf(t))

WakeInDma == wake # <<>> => phase = "dma"
NoDoubleFinish == exited \notin {"double finish", "response before issue"}

FlowInv ==
  /\ QueuesDistinct /\ OnePlace /\ OneLoadOut /\ FinishedWhen /\ NotTooEarly /\ CountersRight
  /\ WakeInDma /\ NoDoubleFinish

\* Holds and Elems say the same.
LEMMA HoldsElems ==
  ASSUME NEW q, NEW x
  PROVE  Holds(q, x) <=> x \in Elems(q)
BY DEF Holds, Elems

\* What appending to a queue, taking its head off and joining two do to what it holds
LEMMA HoldsAppend ==
  ASSUME NEW S, NEW q \in Seq(S), NEW e \in S
  PROVE  /\ \A x : Holds(Append(q, e), x) <=> Holds(q, x) \/ x = e
         /\ Distinct(q) /\ ~Holds(q, e) => Distinct(Append(q, e))
BY ElemsAppend, HoldsElems

\* The head of a queue without duplicates is held by it, and no longer by its tail.
LEMMA HoldsTail ==
  ASSUME NEW S, NEW q \in Seq(S), q # <<>>, Distinct(q)
  PROVE  /\ \A x : Holds(Tail(q), x) <=> Holds(q, x) /\ x # Front(q)
         /\ Distinct(Tail(q)) /\ Holds(q, Front(q))
BY ElemsTail, HoldsElems DEF Front

\* Joining two queues that have nothing in common
LEMMA HoldsConcat ==
  ASSUME NEW S, NEW q \in Seq(S), NEW r \in Seq(S)
  PROVE  /\ \A x : Holds(q \o r, x) <=> Holds(q, x) \/ Holds(r, x)
         /\ Distinct(q) /\ Distinct(r) /\ (\A x : ~(Holds(q, x) /\ Holds(r, x))) => Distinct(q \o r)
<1>1. (\A x : ~(Holds(q, x) /\ Holds(r, x))) => Elems(q) \cap Elems(r) = {}
  BY HoldsElems
<1>2. QED
  BY <1>1, ElemsConcat, HoldsElems

\* An empty queue holds nothing.
LEMMA HoldsEmpty == (\A x : ~Holds(<<>>, x)) /\ Distinct(<<>>)
BY DEF Holds, Distinct

\* An order of a finite set has all its elements, each once.
LEMMA HoldsOrder ==
  ASSUME NEW S, IsFiniteSet(S), NEW order \in Orders(S)
  PROVE  (\A x : Holds(order, x) <=> x \in S) /\ Distinct(order)
<1> DEFINE n == Cardinality(S)
<1>1. n \in Nat /\ IsFiniteSet(1..n) /\ Cardinality(1..n) = n
  BY FS_CardinalityType, FS_Interval
<1>2. order \in [1..n -> S] /\ \A a, b \in DOMAIN order : a # b => order[a] # order[b]
  BY DEF Orders
<1>3. order \in Seq(S) /\ Len(order) = n /\ DOMAIN order = 1..n
  BY <1>1, <1>2
<1>4. order \in Injection(1..n, S)
  BY <1>2, <1>3 DEF Injection, IsInjective
<1>5. order \in Surjection(1..n, S)
  BY <1>1, <1>4, FS_Injection
<1>6. \A x \in S : \E k \in 1..n : order[k] = x
  BY <1>5 DEF Surjection
<1>7. \A k \in 1..n : order[k] \in S
  BY <1>2
<1>8. QED
  BY <1>2, <1>3, <1>6, <1>7 DEF Holds, Distinct

\* The places of an instruction, one by one
LEMMA AtPlace ==
  ASSUME NEW i
  PROVE  /\ At(i) \subseteq Place
         /\ "ready" \in At(i) <=> Holds(readyQ[Owner[i]], i)
         /\ "pipe" \in At(i) <=> InPipe(i)
         /\ "ldq" \in At(i) <=> Holds(ldq, i)
         /\ "stq" \in At(i) <=> Holds(stq, i)
         /\ "cur" \in At(i) <=> i = cur
         /\ "waitq" \in At(i) <=> i \in waitq
         /\ "finq" \in At(i) <=> Holds(finq, i)
         /\ "tag" \in At(i) <=> InWake(i) \/ InWaiters(i)
BY DEF At, Place

\* The same after a step
LEMMA AtPlaceNext ==
  ASSUME NEW i
  PROVE  /\ At(i)' \subseteq Place
         /\ "ready" \in At(i)' <=> Holds(readyQ'[Owner[i]], i)
         /\ "pipe" \in At(i)' <=> InPipe(i)'
         /\ "ldq" \in At(i)' <=> Holds(ldq', i)
         /\ "stq" \in At(i)' <=> Holds(stq', i)
         /\ "cur" \in At(i)' <=> i = cur'
         /\ "waitq" \in At(i)' <=> i \in waitq'
         /\ "finq" \in At(i)' <=> Holds(finq', i)
         /\ "tag" \in At(i)' <=> InWake(i)' \/ InWaiters(i)'
BY DEF At, Place

\* A load is out while it is in one of four places.
LEMMA LoadOutAt ==
  ASSUME NEW m
  PROVE  LoadOut(m) <=> AsyncLoad(m) /\ At(m) \cap {"ldq", "cur", "waitq", "finq"} # {}
BY AtPlace DEF LoadOut, InFlight

\* The same after a step
LEMMA LoadOutAtNext ==
  ASSUME NEW m
  PROVE  LoadOut(m)' <=> AsyncLoad(m) /\ At(m)' \cap {"ldq", "cur", "waitq", "finq"} # {}
BY AtPlaceNext DEF LoadOut, InFlight, AsyncLoad, Loading

\* What may happen to an instruction in a step that puts no asynchronous load in flight:
\* it stays or leaves a place; it is somewhere it is not finished at; it has been given up by
\* the DMA engine or answered; it is finished and gone; it waits for a tag; it has just been
\* woken, and the load of its tag is over.
Fate(j) ==
  \/ /\ finished'[j] = finished[j] /\ At(j)' \subseteq At(j)
     /\ (InWake(j)' => InWake(j)) /\ (InWaiters(j)' => InWaiters(j))
  \/ ~finished'[j] /\ \E a \in Undone : At(j)' \subseteq {a}
  \/ (finished'[j] <=> FinishedByIssue(j)) /\ (At(j)' \subseteq {"waitq"} \/ At(j)' \subseteq {"finq"})
  \/ finished'[j] /\ At(j)' = {}
  \/ ~finished'[j] /\ At(j)' \subseteq {"tag"} /\ ~InWake(j)'
  \/ finished'[j] /\ At(j)' \subseteq {"tag"} /\ ~InWake(j)' /\ \A m \in Inst : LoadOut(m) => TagOf[m] # TagOf[j]

\* With such a fate for each instruction none is in two places or finished in the wrong one.
LEMMA FateKeeps ==
  ASSUME OnePlace, FinishedWhen, \A m \in Inst : LoadOut(m)' => LoadOut(m),
         \A j \in Inst : Fate(j)
  PROVE  OnePlace' /\ FinishedWhen'
<1>1. ASSUME NEW j \in Inst PROVE \A a, b \in At(j)' : a = b
  BY DEF OnePlace, Fate
<1>2. ASSUME NEW j \in Inst
      PROVE  /\ At(j)' \cap Undone # {} \/ InWake(j)' => ~finished'[j]
             /\ At(j)' \cap {"waitq", "finq"} # {} => (finished'[j] <=> FinishedByIssue(j))
             /\ \A m \in Inst : LoadOut(m)' /\ TagOf[m] = TagOf[j] =>
                  ~InWake(j)' /\ (InWaiters(j)' => ~finished'[j])
  <2>1. /\ InWake(j)' \/ InWaiters(j)' <=> "tag" \in At(j)'
        /\ "tag" \notin Undone /\ "tag" \notin {"waitq", "finq"} /\ Undone \cap {"waitq", "finq"} = {}
    BY AtPlaceNext DEF Undone
  <2>2. /\ At(j) \cap Undone # {} \/ InWake(j) => ~finished[j]
        /\ At(j) \cap {"waitq", "finq"} # {} => (finished[j] <=> FinishedByIssue(j))
        /\ \A m \in Inst : LoadOut(m) /\ TagOf[m] = TagOf[j] =>
             ~InWake(j) /\ (InWaiters(j) => ~finished[j])
    BY DEF FinishedWhen
  <2>3. CASE /\ finished'[j] = finished[j] /\ At(j)' \subseteq At(j)
             /\ (InWake(j)' => InWake(j)) /\ (InWaiters(j)' => InWaiters(j))
    BY <2>2, <2>3
  <2>4. CASE ~finished'[j] /\ \E a \in Undone : At(j)' \subseteq {a}
    BY <2>1, <2>4
  <2>5. CASE (finished'[j] <=> FinishedByIssue(j)) /\ (At(j)' \subseteq {"waitq"} \/ At(j)' \subseteq {"finq"})
    BY <2>1, <2>5
  <2>6. CASE finished'[j] /\ At(j)' = {}
    BY <2>1, <2>6
  <2>7. CASE ~finished'[j] /\ At(j)' \subseteq {"tag"} /\ ~InWake(j)'
    BY <2>1, <2>7
  <2>8. CASE finished'[j] /\ At(j)' \subseteq {"tag"} /\ ~InWake(j)' /\ \A m \in Inst : LoadOut(m) => TagOf[m] # TagOf[j]
    BY <2>1, <2>8
  <2>9. QED
    BY <2>3, <2>4, <2>5, <2>6, <2>7, <2>8 DEF Fate
<1>3. \A j \in Inst : FinishedByIssue(j)' <=> FinishedByIssue(j)
  BY DEF FinishedByIssue
<1>4. QED
  BY <1>1, <1>2, <1>3 DEF OnePlace, FinishedWhen, Undone

\* Nothing is started too early by a step in which only what waits for no parent starts.
LEMMA EarlyKeeps ==
  ASSUME NotTooEarly, arrived \subseteq arrived',
         \A j \in Inst : readyCtr[j] = 0 => readyCtr'[j] = 0,
         \A j \in Inst : Started(j)' => Started(j) \/ (readyCtr'[j] = 0 /\ Owner[j] \in arrived')
  PROVE  NotTooEarly'
BY DEF NotTooEarly

\* A set of loads that only shrinks keeps "at most one load of a tag is out".
LEMMA LoadsKeep ==
  ASSUME OneLoadOut, \A m \in Inst : LoadOut(m)' => LoadOut(m),
         \A g \in Tag : tagTable[g] # "absent" => tagTable'[g] # "absent"
  PROVE  OneLoadOut'
<1>1. \A m \in Inst : TagOf[m] \in Tag
  BY CoreProgram DEF ProgramAssumption
<1>2. QED
  BY <1>1 DEF OneLoadOut

\* The counters of an instruction and of a tile are numbers of instructions.
LEMMA CountersNat ==
  ASSUME CountersRight
  PROVE  /\ \A i \in Inst : /\ IsFiniteSet(ParentsLeft(i)) /\ readyCtr[i] \in Nat
                            /\ readyCtr[i] = 0 <=> ParentsLeft(i) = {}
         /\ \A t \in Tile : IsFiniteSet(FinishedOf(t)) /\ nrFinished[t] \in Nat
<1>1. \A i \in Inst : IsFiniteSet(ParentsLeft(i))
  <2> TAKE i \in Inst
  <2>1. ParentsLeft(i) \in SUBSET Inst
    BY DEF ParentsLeft, Parents
  <2>2. QED
    BY <2>1, CoreProgram, FS_Subset DEF ProgramAssumption
<1>2. \A t \in Tile : IsFiniteSet(FinishedOf(t))
  <2> TAKE t \in Tile
  <2>1. FinishedOf(t) \in SUBSET Inst
    BY DEF FinishedOf, InstOf
  <2>2. QED
    BY <2>1, CoreProgram, FS_Subset DEF ProgramAssumption
<1>3. QED
  BY <1>1, <1>2, FS_CardinalityType, FS_EmptySet DEF CountersRight

\* Finishing an instruction that was not finished counts it once, with its children and with
\* its tile.
LEMMA CountersKeep ==
  ASSUME TypeInv, CountersRight, NEW i \in Inst, ~finished[i], NEW q, Complete(i, q)
  PROVE  CountersRight'
<1> USE CoreProgram DEF ProgramAssumption
<1>1. /\ finished' = [finished EXCEPT ![i] = TRUE]
      /\ nrFinished' = [nrFinished EXCEPT ![Owner[i]] = @ + 1]
      /\ readyCtr' = [k \in Inst |-> IF k \in Kids[i] THEN readyCtr[k] - 1 ELSE readyCtr[k]]
  BY DEF Complete
<1>2. finished \in [Inst -> BOOLEAN] /\ nrFinished \in [Tile -> Nat] /\ readyCtr \in [Inst -> Int]
  BY DEF TypeInv, FlowType
<1>3. ASSUME NEW k \in Inst PROVE readyCtr'[k] = Cardinality(ParentsLeft(k)')
  <2>1. readyCtr[k] = Cardinality(ParentsLeft(k)) /\ IsFiniteSet(ParentsLeft(k))
    BY CountersNat DEF CountersRight
  <2>a. \A p \in Inst : finished'[p] <=> finished[p] \/ p = i
    BY <1>1, <1>2
  <2>2. ParentsLeft(k)' = ParentsLeft(k) \ {i}
    BY <2>a DEF ParentsLeft, Parents
  <2>3. i \in ParentsLeft(k) <=> k \in Kids[i]
    BY DEF ParentsLeft, Parents
  <2>4. Cardinality(ParentsLeft(k) \ {i}) =
          IF i \in ParentsLeft(k) THEN Cardinality(ParentsLeft(k)) - 1 ELSE Cardinality(ParentsLeft(k))
    BY <2>1, FS_RemoveElement
  <2>5. QED
    BY <1>1, <2>1, <2>2, <2>3, <2>4
<1>4. ASSUME NEW t \in Tile PROVE nrFinished'[t] = Cardinality(FinishedOf(t)')
  <2>1. nrFinished[t] = Cardinality(FinishedOf(t)) /\ IsFiniteSet(FinishedOf(t))
    BY CountersNat DEF CountersRight
  <2>2. CASE t = Owner[i]
    <3>1. FinishedOf(t)' = FinishedOf(t) \cup {i} /\ i \notin FinishedOf(t)
      BY <1>1, <1>2, <2>2 DEF FinishedOf, InstOf
    <3>2. Cardinality(FinishedOf(t) \cup {i}) = Cardinality(FinishedOf(t)) + 1
      BY <2>1, <3>1, FS_AddElement
    <3>3. QED
      BY <1>1, <1>2, <2>1, <2>2, <3>1, <3>2
  <2>3. CASE t # Owner[i]
    <3>1. FinishedOf(t)' = FinishedOf(t)
      BY <1>1, <1>2, <2>3 DEF FinishedOf, InstOf
    <3>2. QED
      BY <1>1, <1>2, <2>1, <2>3, <3>1
  <2>4. QED
    BY <2>2, <2>3
<1>5. QED
  BY <1>3, <1>4 DEF CountersRight

\* Finishing an instruction makes ready the children that waited for it alone, which were
\* nowhere before, and no other.  "q" is readyQ without what the caller took from it.
LEMMA CompleteStep ==
  ASSUME TypeInv, NotTooEarly, CountersRight,
         NEW i \in Inst, ~finished[i], At(i) # {},
         NEW q, ReadyType(q), \A t \in Tile : Distinct(q[t]),
         \A k \in Inst : Holds(q[Owner[k]], k) => Holds(readyQ[Owner[k]], k),
         Complete(i, q)
  PROVE  /\ \A t \in Tile : Distinct(readyQ'[t])
         /\ \A k \in Inst : Holds(readyQ'[Owner[k]], k) <=> Holds(q[Owner[k]], k) \/ k \in NewlyReady(i)
         /\ \A k \in NewlyReady(i) : /\ k \in Inst /\ k # i /\ ~finished[k] /\ At(k) = {}
                                     /\ readyCtr'[k] = 0 /\ Owner[k] \in arrived
         /\ \A k \in Inst : readyCtr[k] = 0 => readyCtr'[k] = 0
<1> USE CoreProgram DEF ProgramAssumption
<1>1. PICK order \in Orders(NewlyReady(i)) : readyQ' = [q EXCEPT ![Owner[i]] = @ \o order]
  BY DEF Complete
<1>2. /\ readyCtr' = [k \in Inst |-> IF k \in Kids[i] THEN readyCtr[k] - 1 ELSE readyCtr[k]]
      /\ readyCtr \in [Inst -> Int]
  BY DEF Complete, TypeInv, FlowType
<1>3. readyCtr[i] = 0 /\ Owner[i] \in arrived
  BY DEF NotTooEarly, Started
<1>4. ASSUME NEW k \in NewlyReady(i)
      PROVE  k \in Inst /\ Owner[k] = Owner[i] /\ readyCtr[k] = 1 /\ k \in Kids[i]
  BY CoreLinks DEF NewlyReady, LinkAssumption
<1>5. ASSUME NEW k \in NewlyReady(i)
      PROVE  k # i /\ ~finished[k] /\ At(k) = {} /\ readyCtr'[k] = 0 /\ Owner[k] \in arrived
  BY <1>2, <1>3, <1>4 DEF NotTooEarly, Started
<1>6. ASSUME NEW k \in Inst, readyCtr[k] = 0 PROVE readyCtr'[k] = 0
  <2>0. ParentsLeft(k) = {}
    BY <1>6, CountersNat
  <2>1. i \notin ParentsLeft(k)
    BY <2>0
  <2>2. k \notin Kids[i]
    BY <2>1 DEF ParentsLeft, Parents
  <2>3. QED
    BY <1>2, <1>6, <2>2
<1>7. IsFiniteSet(NewlyReady(i))
  BY FS_Subset DEF NewlyReady
<1>8. (\A k : Holds(order, k) <=> k \in NewlyReady(i)) /\ Distinct(order) /\ order \in Seq(NewlyReady(i))
  BY <1>7, HoldsOrder, OrdersType
<1>9. order \in Seq(Inst) /\ q[Owner[i]] \in Seq(Inst) /\ q \in [Tile -> Seq(Inst)]
  BY <1>4, <1>8 DEF ReadyType
<1>10. \A k : ~(Holds(q[Owner[i]], k) /\ Holds(order, k))
  <2> SUFFICES ASSUME NEW k, Holds(q[Owner[i]], k), k \in NewlyReady(i) PROVE FALSE
    BY <1>8
  <2>1. Holds(readyQ[Owner[k]], k) /\ At(k) = {}
    BY <1>4, <1>5
  <2>2. QED
    BY <2>1, AtPlace
<1>11. /\ \A k : Holds(q[Owner[i]] \o order, k) <=> Holds(q[Owner[i]], k) \/ Holds(order, k)
       /\ Distinct(q[Owner[i]] \o order)
  BY <1>8, <1>9, <1>10, HoldsConcat
<1>12. readyQ'[Owner[i]] = q[Owner[i]] \o order /\ \A t \in Tile \ {Owner[i]} : readyQ'[t] = q[t]
  BY <1>1, <1>9
<1>13. \A t \in Tile : Distinct(readyQ'[t])
  BY <1>11, <1>12
<1>14. ASSUME NEW k \in Inst
       PROVE  Holds(readyQ'[Owner[k]], k) <=> Holds(q[Owner[k]], k) \/ k \in NewlyReady(i)
  <2>1. CASE Owner[k] = Owner[i]
    BY <1>8, <1>11, <1>12, <2>1
  <2>2. CASE Owner[k] # Owner[i]
    BY <1>4, <1>12, <2>2
  <2>3. QED
    BY <2>1, <2>2
<1>15. QED
  BY <1>4, <1>5, <1>6, <1>13, <1>14

\* An instruction that issues is at the head of the ready queue of its tile and nowhere else.
LEMMA WithoutHeadKeeps ==
  ASSUME TypeInv, FlowInv, NEW i \in Inst, Issuing(i)
  PROVE  /\ At(i) = {"ready"} /\ ~finished[i]
         /\ ReadyType(WithoutHead(i))
         /\ \A t \in Tile : Distinct(WithoutHead(i)[t])
         /\ \A k \in Inst : Holds(WithoutHead(i)[Owner[k]], k) <=> Holds(readyQ[Owner[k]], k) /\ k # i
<1> USE CoreProgram DEF ProgramAssumption
<1>1. readyQ \in [Tile -> Seq(Inst)] /\ \A t \in Tile : readyQ[t] \in Seq(InstOf(t))
  BY DEF TypeInv, FlowType, ReadyType
<1>2. \A t \in Tile : Distinct(readyQ[t])
  BY DEF FlowInv, QueuesDistinct
<1>3. PICK n \in 1..Len(tiles) : readyQ[tiles[n]] # <<>> /\ Front(readyQ[tiles[n]]) = i
  BY DEF Issuing
<1>4. tiles[n] \in Tile
  BY DEF TypeInv, TileType
<1>5. Owner[i] = tiles[n]
  <2>1. Front(readyQ[tiles[n]]) \in InstOf(tiles[n])
    BY <1>1, <1>3, <1>4, FrontTailType
  <2>2. QED
    BY <1>3, <2>1 DEF InstOf
<1>6. /\ \A k : Holds(Tail(readyQ[Owner[i]]), k) <=> Holds(readyQ[Owner[i]], k) /\ k # i
      /\ Distinct(Tail(readyQ[Owner[i]])) /\ Holds(readyQ[Owner[i]], i)
  BY <1>1, <1>2, <1>3, <1>4, <1>5, HoldsTail
<1>7. At(i) = {"ready"} /\ ~finished[i]
  BY <1>6, AtPlace DEF FlowInv, OnePlace, FinishedWhen, Undone
<1>8. /\ WithoutHead(i)[Owner[i]] = Tail(readyQ[Owner[i]])
      /\ \A t \in Tile \ {Owner[i]} : WithoutHead(i)[t] = readyQ[t]
  BY <1>1 DEF WithoutHead
<1>9. \A t \in Tile : Distinct(WithoutHead(i)[t])
  BY <1>2, <1>6, <1>8
<1>10. ASSUME NEW k \in Inst
       PROVE  Holds(WithoutHead(i)[Owner[k]], k) <=> Holds(readyQ[Owner[k]], k) /\ k # i
  <2>1. CASE Owner[k] = Owner[i]
    BY <1>6, <1>8, <2>1
  <2>2. CASE Owner[k] # Owner[i]
    BY <1>8, <2>2
  <2>3. QED
    BY <2>1, <2>2
<1>11. QED
  BY <1>7, <1>9, <1>10, IssuingType

\* The places other than the ready queue that a step does not give to an instruction
Rests(j) ==
  At(j)' \ {"ready"} \subseteq At(j) /\ (InWake(j)' => InWake(j)) /\ (InWaiters(j)' => InWaiters(j))
\* Where an instruction is that a step has just finished
Done(i) ==
  \/ At(i)' \ {"ready"} = {}
  \/ At(i)' \ {"ready"} \subseteq {"waitq"} /\ FinishedByIssue(i) /\ "cur" \in At(i)
  \/ /\ At(i)' \ {"ready"} \subseteq {"tag"} /\ ~InWake(i)'
     /\ \A m \in Inst : LoadOut(m) => TagOf[m] # TagOf[i]

\* A step that finishes an instruction, takes it from its place and moves no other.
LEMMA FinishStep ==
  ASSUME TypeInv, FlowInv, UNCHANGED arrived,
         \A g \in Tag : tagTable[g] # "absent" => tagTable'[g] # "absent",
         NEW i \in Inst, At(i) # {}, ~finished[i],
         NEW q, ReadyType(q), \A t \in Tile : Distinct(q[t]),
         \A k \in Inst : Holds(q[Owner[k]], k) => Holds(readyQ[Owner[k]], k),
         ~Holds(q[Owner[i]], i), Complete(i, q),
         Done(i), \A j \in Inst \ {i} : Rests(j)
  PROVE  /\ OnePlace' /\ OneLoadOut' /\ FinishedWhen' /\ NotTooEarly' /\ CountersRight'
         /\ \A t \in Tile : Distinct(readyQ'[t])
<1> USE DEF FlowInv
<1>1. /\ \A t \in Tile : Distinct(readyQ'[t])
      /\ \A k \in Inst : Holds(readyQ'[Owner[k]], k) <=> Holds(q[Owner[k]], k) \/ k \in NewlyReady(i)
      /\ \A k \in NewlyReady(i) : /\ k \in Inst /\ k # i /\ ~finished[k] /\ At(k) = {}
                                  /\ readyCtr'[k] = 0 /\ Owner[k] \in arrived
      /\ \A k \in Inst : readyCtr[k] = 0 => readyCtr'[k] = 0
  BY CompleteStep
<1>2. finished'[i] /\ \A j \in Inst \ {i} : finished'[j] = finished[j]
  BY DEF Complete, TypeInv, FlowType
<1>3. "ready" \notin At(i)'
  BY <1>1, AtPlaceNext
<1>4. Fate(i)
  <2>1. At(i)' = At(i)' \ {"ready"}
    BY <1>3
  <2>2. CASE At(i)' \ {"ready"} = {}
    BY <1>2, <2>1, <2>2 DEF Fate
  <2>3. CASE At(i)' \ {"ready"} \subseteq {"waitq"} /\ FinishedByIssue(i)
    BY <1>2, <2>1, <2>3 DEF Fate
  <2>4. CASE /\ At(i)' \ {"ready"} \subseteq {"tag"} /\ ~InWake(i)'
             /\ \A m \in Inst : LoadOut(m) => TagOf[m] # TagOf[i]
    BY <1>2, <2>1, <2>4 DEF Fate
  <2>5. QED
    BY <2>2, <2>3, <2>4 DEF Done
<1>5. ASSUME NEW j \in Inst \ {i}
      PROVE  Fate(j) /\ (Started(j)' => Started(j) \/ j \in NewlyReady(i))
  <2>1. CASE j \in NewlyReady(i)
    <3>1. At(j)' \subseteq {"ready"} /\ ~finished'[j]
      BY <1>1, <1>2, <2>1 DEF Rests
    <3>2. QED
      BY <2>1, <3>1 DEF Fate, Undone
  <2>2. CASE j \notin NewlyReady(i)
    <3>1. "ready" \in At(j)' => "ready" \in At(j)
      BY <1>1, <2>2, AtPlace, AtPlaceNext
    <3>2. /\ finished'[j] = finished[j] /\ At(j)' \subseteq At(j)
          /\ (InWake(j)' => InWake(j)) /\ (InWaiters(j)' => InWaiters(j))
      BY <1>2, <3>1 DEF Rests
    <3>3. Started(j)' => Started(j)
      BY <3>2 DEF Started
    <3>4. QED
      BY <3>2, <3>3 DEF Fate
  <2>3. QED
    BY <2>1, <2>2
<1>6. ASSUME NEW m \in Inst, LoadOut(m)' PROVE LoadOut(m)
  <2>1. CASE m = i
    BY <1>6, <2>1, LoadOutAt, LoadOutAtNext DEF Done
  <2>2. CASE m # i
    BY <1>6, <2>2, LoadOutAt, LoadOutAtNext DEF Rests
  <2>3. QED
    BY <2>1, <2>2
<1>7. \A j \in Inst : Fate(j)
  BY <1>4, <1>5
<1>8. OnePlace' /\ FinishedWhen'
  BY <1>6, <1>7, FateKeeps
<1>9. OneLoadOut'
  BY <1>6, LoadsKeep
<1>10. CountersRight'
  BY CountersKeep
<1>11. Started(i)
  BY DEF Started
<1>12. \A j \in Inst : Started(j)' => Started(j) \/ (readyCtr'[j] = 0 /\ Owner[j] \in arrived')
  BY <1>1, <1>5, <1>11
<1>13. NotTooEarly'
  BY <1>1, <1>12, EarlyKeeps
<1>14. QED
  BY <1>1, <1>8, <1>9, <1>10, <1>13

\* A step that finishes nothing and puts no asynchronous load in flight
LEMMA MoveStep ==
  ASSUME TypeInv, FlowInv, UNCHANGED <<arrived, readyCtr, finished, nrFinished>>,
         \A g \in Tag : tagTable[g] # "absent" => tagTable'[g] # "absent",
         \A m \in Inst : LoadOut(m)' => LoadOut(m),
         \A j \in Inst : Fate(j) /\ (Started(j)' => Started(j))
  PROVE  OnePlace' /\ OneLoadOut' /\ FinishedWhen' /\ NotTooEarly' /\ CountersRight'
<1> USE DEF FlowInv
<1>1. OnePlace' /\ FinishedWhen'
  BY FateKeeps
<1>2. OneLoadOut'
  BY LoadsKeep
<1>3. NotTooEarly'
  BY EarlyKeeps
<1>4. CountersRight'
  BY DEF CountersRight, ParentsLeft, FinishedOf, Parents, InstOf
<1>5. QED
  BY <1>1, <1>2, <1>3, <1>4

\* An instruction that stays in every queue or leaves it
LEMMA RestsWhere ==
  ASSUME NEW j, InPipe(j)' => InPipe(j),
         Holds(ldq', j) => Holds(ldq, j), Holds(stq', j) => Holds(stq, j), j = cur' => j = cur,
         j \in waitq' => j \in waitq, Holds(finq', j) => Holds(finq, j),
         Holds(wake', j) => Holds(wake, j),
         Holds(waiters'[TagOf[j]], j) => Holds(waiters[TagOf[j]], j)
  PROVE  Rests(j)
<1>1. (InWake(j)' => InWake(j)) /\ (InWaiters(j)' => InWaiters(j))
  BY DEF InWake, InWaiters
<1>2. ASSUME NEW a \in At(j)', a # "ready" PROVE a \in At(j)
  <2>1. a \in Place
    BY AtPlaceNext
  <2>2. QED
    BY <1>1, <1>2, <2>1, AtPlace, AtPlaceNext DEF Place
<1>3. QED
  BY <1>1, <1>2 DEF Rests

\* Whoever leaves the only place it was in is nowhere but among the ready.
LEMMA LeavesPlace ==
  ASSUME NEW i, Rests(i), NEW a, At(i) = {a}, a # "ready" => a \notin At(i)'
  PROVE  At(i)' \ {"ready"} = {}
BY DEF Rests

\* The head of a queue of the core has no other place.
LEMMA OnlyPlace ==
  ASSUME OnePlace, NEW i \in Inst, NEW a \in At(i)
  PROVE  At(i) = {a}
BY DEF OnePlace

\* A step that does not end the process finishes nothing twice.
LEMMA ExitsKeep == NoDoubleFinish /\ UNCHANGED exited => NoDoubleFinish'
BY Zenon DEF NoDoubleFinish

\* Core::compute_cycle finishes the head of a pipeline.
LEMMA RetireComputeFlow ==
  ASSUME TypeInv, FlowInv, NEW u \in Unit, RetireCompute(u)
  PROVE  FlowInv'
<1> USE DEF RetireCompute
<1>1. pipe \in [Unit -> Seq(Inst)] /\ pipe[u] # <<>> /\ phase' = "compute" /\ phase = "compute"
  BY DEF TypeInv, PipeType, Elapsed, Running
<1>2. PICK i \in Inst : i = Front(pipe[u])
  BY <1>1, FrontTailType
<1>a. pipe' = [pipe EXCEPT ![u] = Tail(pipe[u])] /\ FinishInst(i, readyQ)
  BY <1>2
<1>3. UNCHANGED <<arrived, dmaVars, respVars, tagVars>>
  BY DEF tileVars
<1> HIDE DEF RetireCompute
<1>4. /\ \A v \in Unit : Distinct(pipe[v])
      /\ \A v, w \in Unit : \A k \in Inst : Holds(pipe[v], k) /\ Holds(pipe[w], k) => v = w
  BY DEF FlowInv, QueuesDistinct
<1>5. /\ \A x : Holds(Tail(pipe[u]), x) <=> Holds(pipe[u], x) /\ x # i
      /\ Distinct(Tail(pipe[u])) /\ Holds(pipe[u], i)
  BY <1>1, <1>2, <1>4, HoldsTail
<1>6. At(i) = {"pipe"} /\ ~finished[i]
  <2>1. "pipe" \in At(i)
    BY <1>5, AtPlace DEF InPipe
  <2>2. QED
    BY <1>5, <2>1, OnlyPlace DEF FlowInv, FinishedWhen, Undone
<1>7. \A v \in Unit, k \in Inst : Holds(pipe'[v], k) <=> Holds(pipe[v], k) /\ k # i
  BY <1>1, <1>a, <1>4, <1>5
<1>8. \A j \in Inst : Rests(j)
  <2> TAKE j \in Inst
  <2>1. InPipe(j)' => InPipe(j)
    BY <1>7 DEF InPipe
  <2>2. QED
    BY <1>3, <2>1, RestsWhere DEF dmaVars, respVars, tagVars
<1>9. Done(i)
  <2>1. ~InPipe(i)'
    BY <1>5, <1>7 DEF InPipe
  <2>2. QED
    BY <1>6, <1>8, <2>1, LeavesPlace, AtPlaceNext DEF Done
<1>10. Complete(i, readyQ) /\ exited' = exited
  BY <1>a, <1>6 DEF FinishInst
<1>11. ReadyType(readyQ) /\ (\A t \in Tile : Distinct(readyQ[t])) /\ ~Holds(readyQ[Owner[i]], i)
  BY <1>6, AtPlace DEF TypeInv, FlowType, FlowInv, QueuesDistinct
<1>12. /\ OnePlace' /\ OneLoadOut' /\ FinishedWhen' /\ NotTooEarly' /\ CountersRight'
       /\ \A t \in Tile : Distinct(readyQ'[t])
  BY <1>3, <1>5, <1>6, <1>8, <1>9, <1>10, <1>11, FinishStep DEF tagVars
<1>13. QueuesDistinct'
  <2>1. \A v \in Unit : Distinct(pipe'[v])
    BY <1>1, <1>a, <1>4, <1>5
  <2>2. \A v, w \in Unit : \A k \in Inst : Holds(pipe'[v], k) /\ Holds(pipe'[w], k) => v = w
    BY <1>4, <1>7
  <2>3. QED
    BY <1>3, <1>12, <2>1, <2>2 DEF FlowInv, QueuesDistinct, dmaVars, respVars, tagVars
<1>14. WakeInDma' /\ NoDoubleFinish'
  BY <1>1, <1>3, <1>10, ExitsKeep DEF FlowInv, WakeInDma, respVars
<1>15. QED
  BY <1>12, <1>13, <1>14 DEF FlowInv

\* A step that moves one instruction to another place
LEMMA MoveOne ==
  ASSUME TypeInv, FlowInv, UNCHANGED <<arrived, readyCtr, finished, nrFinished>>,
         \A g \in Tag : tagTable[g] # "absent" => tagTable'[g] # "absent",
         NEW i \in Inst, At(i) # {}, Fate(i), LoadOut(i)' => LoadOut(i),
         \A j \in Inst \ {i} :
           Rests(j) /\ (Holds(readyQ'[Owner[j]], j) => Holds(readyQ[Owner[j]], j))
  PROVE  OnePlace' /\ OneLoadOut' /\ FinishedWhen' /\ NotTooEarly' /\ CountersRight'
<1>1. ASSUME NEW j \in Inst \ {i}
      PROVE  Fate(j) /\ (Started(j)' => Started(j)) /\ (LoadOut(j)' => LoadOut(j))
  <2>1. At(j)' \subseteq At(j)
    BY AtPlace, AtPlaceNext DEF Rests
  <2>2. Fate(j) /\ (Started(j)' => Started(j))
    BY <2>1 DEF Fate, Started, Rests
  <2>3. LoadOut(j)' => LoadOut(j)
    BY <2>1, LoadOutAt, LoadOutAtNext
  <2>4. QED
    BY <2>2, <2>3
<1>2. Started(i)
  BY DEF Started
<1>3. /\ \A j \in Inst : Fate(j) /\ (Started(j)' => Started(j))
      /\ \A m \in Inst : LoadOut(m)' => LoadOut(m)
  BY <1>1, <1>2
<1>4. QED
  BY <1>3, MoveStep

\* A step that at most takes instructions out of their places
LEMMA QuietStep ==
  ASSUME TypeInv, FlowInv, UNCHANGED <<arrived, flowVars>>,
         \A g \in Tag : tagTable[g] # "absent" => tagTable'[g] # "absent",
         \A j \in Inst : Rests(j)
  PROVE  OnePlace' /\ OneLoadOut' /\ FinishedWhen' /\ NotTooEarly' /\ CountersRight'
<1>1. ASSUME NEW j \in Inst
      PROVE  Fate(j) /\ (Started(j)' => Started(j)) /\ (LoadOut(j)' => LoadOut(j))
  <2>1. At(j)' \subseteq At(j)
    BY AtPlace, AtPlaceNext DEF Rests, flowVars
  <2>2. Fate(j) /\ (Started(j)' => Started(j))
    BY <2>1 DEF Fate, Started, Rests, flowVars
  <2>3. LoadOut(j)' => LoadOut(j)
    BY <2>1, LoadOutAt, LoadOutAtNext
  <2>4. QED
    BY <2>2, <2>3
<1>2. UNCHANGED <<arrived, readyCtr, finished, nrFinished>>
  BY DEF flowVars
<1>3. QED
  BY <1>1, <1>2, MoveStep

\* The last response of a synchronous load finishes it.
LEMMA DrainSyncLoadFlow ==
  ASSUME TypeInv, FlowInv, DrainSyncLoad
  PROVE  FlowInv'
<1> USE DEF DrainSyncLoad
<1>1. finq \in Seq(Inst) /\ finq # <<>> /\ phase = "dma" /\ phase' = "dma" /\ Distinct(finq)
  BY DEF TypeInv, RespType, FlowInv, QueuesDistinct, Running
<1>2. PICK i \in Inst : i = Front(finq)
  BY <1>1, FrontTailType
<1>3. finq' = Tail(finq) /\ FinishInst(i, readyQ) /\ Loading(i) /\ ~IsAsync[i]
  BY <1>2
<1>4. UNCHANGED <<arrived, pipeVars, dmaVars, waiting, waitq, wake, tagVars>>
  BY DEF tileVars
<1> HIDE DEF DrainSyncLoad
<1>5. (\A x : Holds(finq', x) <=> Holds(finq, x) /\ x # i) /\ Distinct(finq') /\ Holds(finq, i)
  BY <1>1, <1>2, <1>3, HoldsTail
<1>6. At(i) = {"finq"} /\ ~finished[i]
  <2>1. "finq" \in At(i)
    BY <1>5, AtPlace
  <2>2. ~FinishedByIssue(i)
    BY <1>3 DEF FinishedByIssue, Loading
  <2>3. QED
    BY <2>1, <2>2, OnlyPlace DEF FlowInv, FinishedWhen
<1>7. \A j \in Inst : Rests(j)
  BY <1>4, <1>5, RestsWhere DEF InPipe, pipeVars, dmaVars, tagVars
<1>8. Done(i)
  BY <1>5, <1>6, <1>7, LeavesPlace, AtPlaceNext DEF Done
<1>9. Complete(i, readyQ) /\ exited' = exited
  BY <1>3, <1>6 DEF FinishInst
<1>10. ReadyType(readyQ) /\ (\A t \in Tile : Distinct(readyQ[t])) /\ ~Holds(readyQ[Owner[i]], i)
  BY <1>6, AtPlace DEF TypeInv, FlowType, FlowInv, QueuesDistinct
<1>11. /\ OnePlace' /\ OneLoadOut' /\ FinishedWhen' /\ NotTooEarly' /\ CountersRight'
       /\ \A t \in Tile : Distinct(readyQ'[t])
  BY <1>4, <1>6, <1>7, <1>8, <1>9, <1>10, FinishStep DEF tagVars
<1>12. QueuesDistinct'
  BY <1>4, <1>5, <1>11 DEF FlowInv, QueuesDistinct, pipeVars, dmaVars, tagVars
<1>13. WakeInDma' /\ NoDoubleFinish'
  BY <1>1, <1>9, ExitsKeep DEF FlowInv, WakeInDma
<1>14. QED
  BY <1>11, <1>12, <1>13 DEF FlowInv

\* A store that is answered leaves the engine; it was finished before.
LEMMA DrainStoreFlow ==
  ASSUME TypeInv, FlowInv, DrainStore
  PROVE  FlowInv'
<1> USE DEF DrainStore
<1>1. finq \in Seq(Inst) /\ finq # <<>> /\ phase' = phase /\ Distinct(finq)
  BY DEF TypeInv, RespType, FlowInv, QueuesDistinct
<1>2. UNCHANGED <<arrived, flowVars, pipeVars, dmaVars, waiting, waitq, wake, tagVars, exited>>
  BY DEF tileVars
<1>3. (\A x : Holds(finq', x) => Holds(finq, x)) /\ Distinct(finq')
  BY <1>1, HoldsTail
<1> HIDE DEF DrainStore
<1>4. \A j \in Inst : Rests(j)
  BY <1>2, <1>3, RestsWhere DEF InPipe, pipeVars, dmaVars, tagVars
<1>5. OnePlace' /\ OneLoadOut' /\ FinishedWhen' /\ NotTooEarly' /\ CountersRight'
  BY <1>2, <1>4, QuietStep DEF tagVars
<1>6. QueuesDistinct'
  BY <1>2, <1>3 DEF FlowInv, QueuesDistinct, pipeVars, dmaVars, tagVars, flowVars
<1>7. WakeInDma' /\ NoDoubleFinish'
  BY <1>1, <1>2, ExitsKeep DEF FlowInv, WakeInDma
<1>8. QED
  BY <1>5, <1>6, <1>7 DEF FlowInv

\* The loop over get_tag_waiter finishes the waiters of a tag whose load is over.
LEMMA WakeWaiterFlow ==
  ASSUME TypeInv, FlowInv, WakeWaiter
  PROVE  FlowInv'
<1> USE DEF WakeWaiter
<1>1. wake \in Seq(Inst) /\ wake # <<>> /\ phase = "dma" /\ phase' = "dma" /\ Distinct(wake)
  BY DEF TypeInv, RespType, FlowInv, QueuesDistinct, Running
<1>2. PICK i \in Inst : i = Front(wake)
  BY <1>1, FrontTailType
<1>3. wake' = Tail(wake) /\ FinishInst(i, readyQ)
  BY <1>2
<1>4. UNCHANGED <<arrived, pipeVars, dmaVars, waiting, waitq, finq, tagVars>>
  BY DEF tileVars
<1> HIDE DEF WakeWaiter
<1>5. (\A x : Holds(wake', x) <=> Holds(wake, x) /\ x # i) /\ Distinct(wake') /\ Holds(wake, i)
  BY <1>1, <1>2, <1>3, HoldsTail
<1>6. At(i) = {"tag"} /\ ~finished[i] /\ \A m \in Inst : LoadOut(m) => TagOf[m] # TagOf[i]
  <2>1. InWake(i)
    BY <1>5 DEF InWake
  <2>2. "tag" \in At(i)
    BY <2>1, AtPlace
  <2>3. QED
    BY <2>1, <2>2, OnlyPlace DEF FlowInv, FinishedWhen
<1>7. \A j \in Inst : Rests(j)
  BY <1>4, <1>5, RestsWhere DEF InPipe, pipeVars, dmaVars, tagVars
<1>8. Done(i)
  <2>1. ~InWake(i)'
    BY <1>5 DEF InWake
  <2>2. At(i)' \ {"ready"} \subseteq {"tag"}
    BY <1>6, <1>7 DEF Rests
  <2>3. QED
    BY <1>6, <2>1, <2>2 DEF Done
<1>9. Complete(i, readyQ) /\ exited' = exited
  BY <1>3, <1>6 DEF FinishInst
<1>10. ReadyType(readyQ) /\ (\A t \in Tile : Distinct(readyQ[t])) /\ ~Holds(readyQ[Owner[i]], i)
  BY <1>6, AtPlace DEF TypeInv, FlowType, FlowInv, QueuesDistinct
<1>11. /\ OnePlace' /\ OneLoadOut' /\ FinishedWhen' /\ NotTooEarly' /\ CountersRight'
       /\ \A t \in Tile : Distinct(readyQ'[t])
  BY <1>4, <1>6, <1>7, <1>8, <1>9, <1>10, FinishStep DEF tagVars
<1>12. QueuesDistinct'
  BY <1>4, <1>5, <1>11 DEF FlowInv, QueuesDistinct, pipeVars, dmaVars, tagVars
<1>13. WakeInDma' /\ NoDoubleFinish'
  BY <1>1, <1>9, ExitsKeep DEF FlowInv, WakeInDma
<1>14. QED
  BY <1>11, <1>12, <1>13 DEF FlowInv

\* What happens at the end of an asynchronous load that the engine has finished before
LEMMA DrainAsyncLoadEffect ==
  ASSUME DrainAsyncLoad
  PROVE  /\ phase = "dma" /\ phase' = phase /\ wake = <<>> /\ finq # <<>>
         /\ Loading(Front(finq)) /\ IsAsync[Front(finq)]
         /\ finished[Front(finq)] => exited' = exited
         /\ tagTable' = [tagTable EXCEPT ![TagOf[Front(finq)]] = "done"]
         /\ wake' = waiters[TagOf[Front(finq)]] /\ finq' = Tail(finq)
         /\ UNCHANGED <<tileVars, flowVars, pipeVars, dmaVars, waiting, waitq, waiters, memVars>>
BY Zenon DEF DrainAsyncLoad, Running

\* An asynchronous load that is over sets its tag and hands its waiters to the loop over
\* get_tag_waiter: no other load of the tag is out.
LEMMA DrainAsyncLoadFlow ==
  ASSUME TypeInv, FlowInv, DrainAsyncLoad
  PROVE  FlowInv'
<1> USE CoreProgram DEF ProgramAssumption
<1>1. finq \in Seq(Inst) /\ finq # <<>> /\ phase' = "dma" /\ Distinct(finq) /\ wake = <<>>
  BY DrainAsyncLoadEffect DEF TypeInv, RespType, FlowInv, QueuesDistinct
<1>2. PICK f \in Inst : f = Front(finq)
  BY <1>1, FrontTailType
<1>3. /\ finq' = Tail(finq) /\ Loading(f) /\ IsAsync[f]
      /\ wake' = waiters[TagOf[f]] /\ tagTable' = [tagTable EXCEPT ![TagOf[f]] = "done"]
      /\ finished[f] => exited' = exited
  BY <1>2, DrainAsyncLoadEffect
<1>4. UNCHANGED <<arrived, flowVars, pipeVars, dmaVars, waiting, waitq, waiters>>
  BY DrainAsyncLoadEffect DEF tileVars
<1>5. (\A x : Holds(finq', x) <=> Holds(finq, x) /\ x # f) /\ Distinct(finq') /\ Holds(finq, f)
  BY <1>1, <1>2, <1>3, HoldsTail
<1>6. At(f) = {"finq"} /\ LoadOut(f) /\ finished[f]
  <2>1. "finq" \in At(f)
    BY <1>5, AtPlace
  <2>2. LoadOut(f)
    BY <1>3, <2>1, LoadOutAt DEF AsyncLoad
  <2>3. FinishedByIssue(f)
    BY <1>3 DEF FinishedByIssue
  <2>4. QED
    BY <2>1, <2>2, <2>3, OnlyPlace DEF FlowInv, FinishedWhen
<1>7. ASSUME NEW j \in Inst, InWake(j)'
      PROVE  InWaiters(j) /\ TagOf[j] = TagOf[f]
  <2>1. Holds(waiters[TagOf[f]], j) /\ TagOf[f] \in Tag
    BY <1>3, <1>7 DEF InWake
  <2>2. TagOf[j] = TagOf[f]
    BY <2>1 DEF FlowInv, QueuesDistinct
  <2>3. QED
    BY <2>1, <2>2 DEF InWaiters
<1>8. \A j \in Inst : (InWaiters(j)' <=> InWaiters(j)) /\ ~InWake(j) /\ (InPipe(j)' <=> InPipe(j))
  BY <1>1, <1>4 DEF InWaiters, InWake, Holds, InPipe, pipeVars
<1>9. \A j \in Inst : At(j)' \subseteq At(j)
  <2> TAKE j \in Inst
  <2>1. readyQ' = readyQ /\ ldq' = ldq /\ stq' = stq /\ cur' = cur /\ waitq' = waitq
    BY <1>4 DEF flowVars, dmaVars
  <2>2. ASSUME NEW a \in At(j)' PROVE a \in At(j)
    <3>1. a \in Place
      BY AtPlaceNext
    <3>2. QED
      BY <1>5, <1>7, <1>8, <2>1, <2>2, <3>1, AtPlace, AtPlaceNext DEF Place
  <2>3. QED
    BY <2>2
<1>10. \A m \in Inst : LoadOut(m)' => LoadOut(m) /\ m # f
  <2> TAKE m \in Inst
  <2>1. At(f)' = {}
    BY <1>5, <1>6, <1>9, AtPlaceNext
  <2>2. QED
    BY <1>9, <2>1, LoadOutAt, LoadOutAtNext
<1>11. finished' = finished
  BY <1>4 DEF flowVars
<1>12. OnePlace'
  BY <1>9 DEF FlowInv, OnePlace
<1>13. FinishedWhen'
  <2>1. ASSUME NEW j \in Inst
        PROVE  /\ At(j) \cap Undone # {} => ~finished[j]
               /\ At(j) \cap {"waitq", "finq"} # {} => (finished[j] <=> FinishedByIssue(j))
               /\ \A m \in Inst : LoadOut(m) /\ TagOf[m] = TagOf[j] => (InWaiters(j) => ~finished[j])
    BY DEF FlowInv, FinishedWhen
  <2>2. ASSUME NEW j \in Inst
        PROVE  /\ At(j)' \cap Undone # {} \/ InWake(j)' => ~finished[j]
               /\ At(j)' \cap {"waitq", "finq"} # {} => (finished[j] <=> FinishedByIssue(j))
    BY <1>6, <1>7, <1>9, <2>1
  <2>3. ASSUME NEW j \in Inst, NEW m \in Inst, LoadOut(m)', TagOf[m] = TagOf[j]
        PROVE  ~InWake(j)' /\ (InWaiters(j)' => ~finished[j])
    <3>1. LoadOut(m) /\ m # f
      BY <1>10, <2>3
    <3>2. TagOf[m] # TagOf[f]
      BY <1>6, <3>1 DEF FlowInv, OneLoadOut
    <3>3. QED
      BY <1>7, <1>8, <2>1, <2>3, <3>1, <3>2
  <2>4. \A j \in Inst : FinishedByIssue(j)' <=> FinishedByIssue(j)
    BY DEF FinishedByIssue
  <2>5. QED
    BY <1>11, <2>2, <2>3, <2>4 DEF FinishedWhen, Undone
<1>14. OneLoadOut'
  <2>1. \A g \in Tag : tagTable[g] # "absent" => tagTable'[g] # "absent"
    BY <1>3 DEF TypeInv, TagType
  <2>2. QED
    BY <1>10, <2>1, LoadsKeep DEF FlowInv
<1>15. NotTooEarly' /\ CountersRight'
  <2>1. UNCHANGED <<readyCtr, finished, nrFinished>>
    BY <1>4 DEF flowVars
  <2>2. \A j \in Inst : Started(j)' => Started(j)
    BY <1>9, <2>1 DEF Started
  <2>3. NotTooEarly'
    BY <1>4, <2>1, <2>2, EarlyKeeps DEF FlowInv
  <2>4. CountersRight'
    BY <2>1 DEF FlowInv, CountersRight, ParentsLeft, FinishedOf, Parents, InstOf
  <2>5. QED
    BY <2>3, <2>4
<1>16. QueuesDistinct'
  BY <1>3, <1>4, <1>5 DEF FlowInv, QueuesDistinct, pipeVars, dmaVars, flowVars
<1>17. WakeInDma' /\ NoDoubleFinish'
  BY <1>1, <1>3, <1>6, ExitsKeep DEF FlowInv, WakeInDma
<1>18. QED
  BY <1>12, <1>13, <1>14, <1>15, <1>16, <1>17 DEF FlowInv

\* The DMA engine gives up its transfer: a store or an asynchronous load is finished by it.
LEMMA DmaRetireFlow ==
  ASSUME TypeInv, FlowInv, DmaRetire
  PROVE  FlowInv'
<1> USE DEF DmaRetire
<1>1. cur # None /\ wake = <<>>
  BY DEF Drained
<1>2. PICK i \in Inst : i = cur
  BY <1>1 DEF TypeInv, DmaType, LoadInst, StoreInst
<1>3. /\ IF FinishedByIssue(i) THEN FinishInst(i, readyQ) ELSE UNCHANGED <<exited, flowVars>>
      /\ waitq' = waitq \cup {i} /\ cur' = None
  BY <1>2
<1>4. UNCHANGED <<arrived, pipeVars, ldq, stq, waiting, finq, wake, tagVars>>
  BY DEF tileVars
<1> HIDE DEF DmaRetire
<1>5. At(i) = {"cur"} /\ ~finished[i]
  <2>1. "cur" \in At(i)
    BY <1>2, AtPlace
  <2>2. QED
    BY <2>1, OnlyPlace DEF FlowInv, FinishedWhen, Undone
<1>6. \A j \in Inst \ {i} : Rests(j)
  BY <1>3, <1>4, CoreProgram, RestsWhere DEF InPipe, pipeVars, tagVars, ProgramAssumption
<1>7. At(i)' \ {"ready"} \subseteq {"waitq"}
  <2>1. i # cur'
    BY <1>3, CoreProgram DEF ProgramAssumption
  <2>2. ~Holds(ldq', i) /\ ~Holds(stq', i) /\ ~Holds(finq', i) /\ ~InPipe(i)'
    BY <1>4, <1>5, AtPlace DEF InPipe, pipeVars
  <2>3. ~InWake(i)' /\ ~InWaiters(i)'
    BY <1>4, <1>5, AtPlace DEF InWake, InWaiters, tagVars
  <2>4. QED
    BY <2>1, <2>2, <2>3, AtPlaceNext DEF Place
<1>8. /\ OnePlace' /\ OneLoadOut' /\ FinishedWhen' /\ NotTooEarly' /\ CountersRight'
      /\ \A t \in Tile : Distinct(readyQ'[t])
      /\ exited' = exited
  <2>1. CASE FinishedByIssue(i)
    <3>1. Complete(i, readyQ) /\ exited' = exited
      BY <1>3, <1>5, <2>1 DEF FinishInst
    <3>2. Done(i)
      BY <1>5, <1>7, <2>1 DEF Done
    <3>3. ReadyType(readyQ) /\ (\A t \in Tile : Distinct(readyQ[t])) /\ ~Holds(readyQ[Owner[i]], i)
      BY <1>5, AtPlace DEF TypeInv, FlowType, FlowInv, QueuesDistinct
    <3>4. QED
      BY <1>4, <1>5, <1>6, <3>1, <3>2, <3>3, FinishStep DEF tagVars
  <2>2. CASE ~FinishedByIssue(i)
    <3>1. UNCHANGED <<exited, flowVars>>
      BY <1>3, <2>2
    <3>2. At(i)' \subseteq {"waitq"} /\ ~finished'[i]
      BY <1>5, <1>7, <3>1, AtPlace, AtPlaceNext DEF flowVars
    <3>3. Fate(i) /\ (LoadOut(i)' => LoadOut(i))
      BY <1>5, <2>2, <3>2, LoadOutAt, LoadOutAtNext DEF Fate
    <3>4. QED
      BY <1>4, <1>5, <1>6, <3>1, <3>3, MoveOne DEF flowVars, tagVars, FlowInv, QueuesDistinct
  <2>3. QED
    BY <2>1, <2>2
<1>9. QueuesDistinct'
  BY <1>4, <1>8 DEF FlowInv, QueuesDistinct, pipeVars, tagVars
<1>10. WakeInDma' /\ NoDoubleFinish'
  BY <1>1, <1>4, <1>8, ExitsKeep DEF FlowInv, WakeInDma
<1>11. QED
  BY <1>8, <1>9, <1>10 DEF FlowInv

\* The engine takes the first load, or the first store if there is no load.
LEMMA DmaTakeFlow ==
  ASSUME TypeInv, FlowInv, DmaTake
  PROVE  FlowInv'
<1> USE DEF DmaTake
<1>1. cur = None /\ wake = <<>> /\ None \notin Inst
  BY CoreProgram DEF Drained, ProgramAssumption
<1>2. UNCHANGED <<arrived, flowVars, pipeVars, waiting, waitq, finq, wake, tagVars, exited>>
  BY DEF tileVars, respVars
<1>3. ldq \in Seq(Inst) /\ stq \in Seq(Inst) /\ Distinct(ldq) /\ Distinct(stq)
  BY DEF TypeInv, DmaType, LoadInst, StoreInst, FlowInv, QueuesDistinct
<1>4. \/ ldq # <<>> /\ cur' = Front(ldq) /\ ldq' = Tail(ldq) /\ UNCHANGED stq
      \/ stq # <<>> /\ cur' = Front(stq) /\ stq' = Tail(stq) /\ UNCHANGED ldq
  OBVIOUS
<1> HIDE DEF DmaTake
<1>5. PICK i \in Inst : i = cur'
  BY <1>3, <1>4, FrontTailType
<1>6. /\ (\A x : Holds(ldq', x) <=> Holds(ldq, x) /\ (x # i \/ Holds(stq, i)))
      /\ (\A x : Holds(stq', x) <=> Holds(stq, x) /\ (x # i \/ Holds(ldq, i)))
      /\ Holds(ldq, i) \/ Holds(stq, i)
      /\ ~(Holds(ldq, i) /\ Holds(stq, i)) /\ Distinct(ldq') /\ Distinct(stq')
  <2>1. ~(Holds(ldq, i) /\ Holds(stq, i))
    BY AtPlace DEF FlowInv, OnePlace
  <2>2. CASE ldq # <<>> /\ cur' = Front(ldq) /\ ldq' = Tail(ldq) /\ UNCHANGED stq
    BY <1>3, <1>5, <2>1, <2>2, HoldsTail
  <2>3. CASE stq # <<>> /\ cur' = Front(stq) /\ stq' = Tail(stq) /\ UNCHANGED ldq
    BY <1>3, <1>5, <2>1, <2>3, HoldsTail
  <2>4. QED
    BY <1>4, <2>2, <2>3
<1>7. (At(i) = {"ldq"} \/ At(i) = {"stq"}) /\ ~finished[i]
  <2>1. PICK a \in {"ldq", "stq"} : a \in At(i)
    BY <1>6, AtPlace
  <2>2. QED
    BY <2>1, OnlyPlace DEF FlowInv, FinishedWhen, Undone
<1>8. \A j \in Inst \ {i} :
        Rests(j) /\ (Holds(readyQ'[Owner[j]], j) => Holds(readyQ[Owner[j]], j))
  BY <1>2, <1>5, <1>6, RestsWhere DEF InPipe, pipeVars, flowVars, tagVars
<1>9. At(i)' \subseteq {"cur"}
  <2>1. readyQ' = readyQ /\ waitq' = waitq /\ finq' = finq
    BY <1>2 DEF flowVars
  <2>2. (InPipe(i)' <=> InPipe(i)) /\ (InWake(i)' <=> InWake(i)) /\ (InWaiters(i)' <=> InWaiters(i))
    BY <1>2 DEF InPipe, InWake, InWaiters, pipeVars, tagVars
  <2>3. ~Holds(ldq', i) /\ ~Holds(stq', i)
    BY <1>6
  <2>4. QED
    BY <1>7, <2>1, <2>2, <2>3, AtPlace, AtPlaceNext DEF Place
<1>10. Fate(i) /\ (LoadOut(i)' => LoadOut(i))
  <2>1. finished'[i] = finished[i]
    BY <1>2 DEF flowVars
  <2>2. Fate(i)
    BY <1>7, <1>9, <2>1 DEF Fate, Undone
  <2>3. LoadOut(i)' => LoadOut(i)
    <3>1. LoadOut(i)' => AsyncLoad(i)
      BY LoadOutAtNext
    <3>2. AsyncLoad(i) => ~Holds(stq, i)
      BY <1>3 DEF AsyncLoad, Loading, TypeInv, DmaType, StoreInst, Holds
    <3>3. QED
      BY <1>6, <3>1, <3>2, LoadOutAt, AtPlace
  <2>4. QED
    BY <2>2, <2>3
<1>11. OnePlace' /\ OneLoadOut' /\ FinishedWhen' /\ NotTooEarly' /\ CountersRight'
  BY <1>2, <1>7, <1>8, <1>10, MoveOne DEF flowVars, tagVars
<1>12. QueuesDistinct'
  BY <1>2, <1>6 DEF FlowInv, QueuesDistinct, pipeVars, tagVars, flowVars
<1>13. WakeInDma' /\ NoDoubleFinish'
  BY <1>1, <1>2, ExitsKeep DEF FlowInv, WakeInDma
<1>14. QED
  BY <1>11, <1>12, <1>13 DEF FlowInv

\* The last response of a transfer takes it from the waiting to the finished queue.
LEMMA PushResponseFlow ==
  ASSUME TypeInv, FlowInv, NEW i \in Inst, PushResponse(i)
  PROVE  FlowInv'
<1> USE DEF PushResponse
<1>1. UNCHANGED <<arrived, flowVars, pipeVars, dmaVars, wake, tagVars, exited, phase>>
  BY DEF tileVars
<1>2. finq \in Seq(Inst) /\ Distinct(finq)
  BY DEF TypeInv, RespType, FlowInv, QueuesDistinct
<1>3. CASE i \in waitq /\ waitq' = waitq \ {i} /\ finq' = Append(finq, i)
  <2>1. At(i) = {"waitq"} /\ (finished[i] <=> FinishedByIssue(i)) /\ ~Holds(finq, i)
    <3>1. "waitq" \in At(i)
      BY <1>3, AtPlace
    <3>2. At(i) = {"waitq"}
      BY <3>1, OnlyPlace DEF FlowInv
    <3>3. QED
      BY <3>1, <3>2, AtPlace DEF FlowInv, FinishedWhen
  <2>2. (\A x : Holds(finq', x) <=> Holds(finq, x) \/ x = i) /\ Distinct(finq')
    BY <1>2, <1>3, <2>1, HoldsAppend
  <2>3. \A j \in Inst \ {i} :
          Rests(j) /\ (Holds(readyQ'[Owner[j]], j) => Holds(readyQ[Owner[j]], j))
    BY <1>1, <1>3, <2>2, RestsWhere DEF InPipe, pipeVars, flowVars, tagVars, dmaVars
  <2>4. At(i)' \subseteq {"finq"}
    <3>1. readyQ' = readyQ /\ ldq' = ldq /\ stq' = stq /\ cur' = cur /\ i \notin waitq'
      BY <1>1, <1>3 DEF flowVars, dmaVars
    <3>2. (InPipe(i)' <=> InPipe(i)) /\ (InWake(i)' <=> InWake(i)) /\ (InWaiters(i)' <=> InWaiters(i))
      BY <1>1 DEF InPipe, InWake, InWaiters, pipeVars, tagVars
    <3>3. QED
      BY <2>1, <3>1, <3>2, AtPlace, AtPlaceNext DEF Place
  <2>5. Fate(i) /\ (LoadOut(i)' => LoadOut(i))
    <3>1. finished'[i] = finished[i]
      BY <1>1 DEF flowVars
    <3>2. QED
      BY <2>1, <2>4, <3>1, LoadOutAt, LoadOutAtNext DEF Fate
  <2>6. OnePlace' /\ OneLoadOut' /\ FinishedWhen' /\ NotTooEarly' /\ CountersRight'
    BY <1>1, <2>1, <2>3, <2>5, MoveOne DEF flowVars, tagVars
  <2>7. QueuesDistinct'
    BY <1>1, <2>2 DEF FlowInv, QueuesDistinct, pipeVars, tagVars, flowVars, dmaVars
  <2>8. WakeInDma' /\ NoDoubleFinish'
    BY <1>1, ExitsKeep DEF FlowInv, WakeInDma
  <2>9. QED
    BY <2>6, <2>7, <2>8 DEF FlowInv
<1>4. CASE UNCHANGED <<waitq, finq>>
  <2>1. \A j \in Inst : Rests(j)
    BY <1>1, <1>4, RestsWhere DEF InPipe, pipeVars, dmaVars, tagVars
  <2>2. OnePlace' /\ OneLoadOut' /\ FinishedWhen' /\ NotTooEarly' /\ CountersRight'
    BY <1>1, <2>1, QuietStep DEF tagVars
  <2>3. QueuesDistinct'
    BY <1>1, <1>4 DEF FlowInv, QueuesDistinct, pipeVars, tagVars, flowVars, dmaVars
  <2>4. WakeInDma' /\ NoDoubleFinish'
    BY <1>1, ExitsKeep DEF FlowInv, WakeInDma
  <2>5. QED
    BY <2>2, <2>3, <2>4 DEF FlowInv
<1>5. QED
  BY <1>3, <1>4

\* The instruction that issues finishes at once.
LEMMA IssueFinish ==
  ASSUME TypeInv, FlowInv, NEW i \in Inst, Issuing(i), Complete(i, WithoutHead(i)),
         UNCHANGED <<tileVars, pipe, ldq, stq, cur, respVars>>,
         \A g \in Tag : /\ tagTable[g] # "absent" => tagTable'[g] # "absent"
                        /\ waiters'[g] = waiters[g] \/ waiters'[g] = <<>>
  PROVE  /\ OnePlace' /\ OneLoadOut' /\ FinishedWhen' /\ NotTooEarly' /\ CountersRight'
         /\ QueuesDistinct' /\ WakeInDma'
<1> USE CoreProgram DEF ProgramAssumption
<1>1. /\ At(i) = {"ready"} /\ ~finished[i]
      /\ ReadyType(WithoutHead(i))
      /\ \A t \in Tile : Distinct(WithoutHead(i)[t])
      /\ \A k \in Inst : Holds(WithoutHead(i)[Owner[k]], k) <=> Holds(readyQ[Owner[k]], k) /\ k # i
  BY WithoutHeadKeeps
<1>2. \A g \in Tag : /\ \A x : Holds(waiters'[g], x) => Holds(waiters[g], x)
                     /\ Distinct(waiters'[g])
  BY HoldsEmpty DEF FlowInv, QueuesDistinct
<1>3. \A j \in Inst : Rests(j)
  BY <1>2, RestsWhere DEF InPipe, respVars
<1>4. Done(i)
  BY <1>1, <1>3, LeavesPlace DEF Done
<1>5. /\ OnePlace' /\ OneLoadOut' /\ FinishedWhen' /\ NotTooEarly' /\ CountersRight'
      /\ \A t \in Tile : Distinct(readyQ'[t])
  BY <1>1, <1>3, <1>4, FinishStep DEF tileVars
<1>6. QueuesDistinct'
  BY <1>2, <1>5 DEF FlowInv, QueuesDistinct, respVars
<1>7. WakeInDma'
  BY DEF FlowInv, WakeInDma, Issuing, Running, respVars
<1>8. QED
  BY <1>5, <1>6, <1>7

\* The instruction that issues waits for its tag.
LEMMA IssueWait ==
  ASSUME TypeInv, FlowInv, NEW i \in Inst, Issuing(i), Erase(i), WaitForTag(i),
         UNCHANGED <<tileVars, pipe, ldq, stq, cur, respVars>>
  PROVE  /\ OnePlace' /\ OneLoadOut' /\ FinishedWhen' /\ NotTooEarly' /\ CountersRight'
         /\ QueuesDistinct' /\ WakeInDma'
<1> USE CoreProgram DEF ProgramAssumption
<1>1. /\ At(i) = {"ready"} /\ ~finished[i]
      /\ \A t \in Tile : Distinct(WithoutHead(i)[t])
      /\ \A k \in Inst : Holds(WithoutHead(i)[Owner[k]], k) <=> Holds(readyQ[Owner[k]], k) /\ k # i
  BY WithoutHeadKeeps
<1>2. /\ readyQ' = WithoutHead(i) /\ UNCHANGED <<readyCtr, finished, nrFinished>>
      /\ waiters' = [waiters EXCEPT ![TagOf[i]] = Append(@, i)] /\ tagTable' = tagTable
      /\ wake = <<>> /\ wake' = <<>>
  BY DEF Erase, WaitForTag, FlowInv, WakeInDma, Issuing, Running, respVars
<1>3. waiters \in [Tag -> Seq(Inst)] /\ TagOf[i] \in Tag
  BY DEF TypeInv, TagType
<1>4. \A g \in Tag : /\ \A x : Holds(waiters'[g], x) <=> Holds(waiters[g], x) \/ (x = i /\ g = TagOf[i])
                     /\ Distinct(waiters'[g])
  <2> TAKE g \in Tag
  <2>1. Distinct(waiters[g])
    BY DEF FlowInv, QueuesDistinct
  <2>2. CASE g = TagOf[i]
    <3>1. ~Holds(waiters[g], i)
      BY <1>1, <2>2, AtPlace DEF InWaiters
    <3>2. QED
      BY <1>2, <1>3, <2>1, <2>2, <3>1, HoldsAppend
  <2>3. CASE g # TagOf[i]
    BY <1>2, <1>3, <2>1, <2>3
  <2>4. QED
    BY <2>2, <2>3
<1>5. \A j \in Inst \ {i} :
        Rests(j) /\ (Holds(readyQ'[Owner[j]], j) => Holds(readyQ[Owner[j]], j))
  <2> TAKE j \in Inst \ {i}
  <2>1. Holds(waiters'[TagOf[j]], j) => Holds(waiters[TagOf[j]], j)
    BY <1>4
  <2>2. Rests(j)
    BY <2>1, RestsWhere DEF InPipe, respVars
  <2>3. QED
    BY <1>1, <1>2, <2>2
<1>6. At(i)' \subseteq {"tag"} /\ ~InWake(i)'
  <2>1. ~InWake(i)'
    BY <1>2 DEF InWake, Holds
  <2>2. ~Holds(readyQ'[Owner[i]], i)
    BY <1>1, <1>2
  <2>3. ~InPipe(i)' /\ ~Holds(ldq', i) /\ ~Holds(stq', i) /\ i # cur' /\ i \notin waitq' /\ ~Holds(finq', i)
    BY <1>1, AtPlace DEF InPipe, respVars
  <2>4. QED
    BY <2>1, <2>2, <2>3, AtPlaceNext DEF Place
<1>7. Fate(i) /\ (LoadOut(i)' => LoadOut(i))
  <2>1. ~finished'[i]
    BY <1>1, <1>2
  <2>2. QED
    BY <1>6, <2>1, LoadOutAtNext DEF Fate
<1>8. OnePlace' /\ OneLoadOut' /\ FinishedWhen' /\ NotTooEarly' /\ CountersRight'
  BY <1>1, <1>2, <1>5, <1>7, MoveOne DEF tileVars
<1>9. QueuesDistinct'
  <2>1. \A g \in Tag : \A k \in Inst : Holds(waiters'[g], k) => TagOf[k] = g
    BY <1>4 DEF FlowInv, QueuesDistinct
  <2>2. QED
    BY <1>1, <1>2, <1>4, <2>1 DEF FlowInv, QueuesDistinct, respVars
<1>10. QED
  BY <1>2, <1>8, <1>9 DEF WakeInDma

\* A load of a tile that the sparse metadata leaves out
LEMMA IssueSparseLoadFlow ==
  ASSUME TypeInv, FlowInv, NEW i \in Inst, IssueSparseLoad(i)
  PROVE  FlowInv'
<1> USE DEF IssueSparseLoad
<1>1. ~finished[i]
  BY WithoutHeadKeeps
<1>2. Complete(i, WithoutHead(i)) /\ exited' = exited
  BY <1>1 DEF FinishInst
<1>3. \A g \in Tag : /\ tagTable[g] # "absent" => tagTable'[g] # "absent"
                     /\ waiters'[g] = waiters[g] \/ waiters'[g] = <<>>
  BY DEF RegisterTag, TypeInv, TagType
<1>4. UNCHANGED <<tileVars, pipe, ldq, stq, cur, respVars>>
  BY DEF pipeVars, dmaVars
<1>5. QED
  BY <1>2, <1>3, <1>4, IssueFinish, ExitsKeep DEF FlowInv

\* A load whose tag is known finishes at once or waits for the load that registered the tag.
LEMMA SkipLoadFlow ==
  ASSUME TypeInv, FlowInv, NEW i \in Inst, SkipLoad(i)
  PROVE  FlowInv'
<1> USE DEF SkipLoad
<1>1. UNCHANGED <<tileVars, pipe, ldq, stq, cur, respVars>>
  BY DEF pipeVars, dmaVars
<1>2. CASE tagTable[TagOf[i]] = "pending"
  BY <1>1, <1>2, IssueWait, ExitsKeep DEF FlowInv
<1>3. CASE tagTable[TagOf[i]] # "pending"
  <2>1. ~finished[i]
    BY WithoutHeadKeeps
  <2>2. Complete(i, WithoutHead(i)) /\ exited' = exited
    BY <1>3, <2>1 DEF FinishInst
  <2>3. UNCHANGED <<tagTable, waiters>>
    BY <1>3 DEF tagVars
  <2>4. QED
    BY <1>1, <2>2, <2>3, IssueFinish, ExitsKeep DEF FlowInv
<1>4. QED
  BY <1>2, <1>3

\* What a barrier does, case by case
LEMMA IssueBarrierEffect ==
  ASSUME TypeInv, NEW i \in Inst, IssueBarrier(i)
  PROVE  /\ Issuing(i) /\ Op[i] = "BAR" /\ phase' = "cache"
         /\ UNCHANGED <<pipe, rr, left, tileVars, dmaVars, respVars, memVars>>
         /\ \/ /\ tagTable[TagOf[i]] = "absent" /\ NoDoubleFinish'
               /\ UNCHANGED <<flowVars, tagVars, cyc>>
            \/ /\ tagTable[TagOf[i]] = "sparse" \/ tagTable[TagOf[i]] = "done"
               /\ FinishInst(i, WithoutHead(i)) /\ UNCHANGED tagVars
            \/ /\ tagTable[TagOf[i]] = "pending"
               /\ WaitForTag(i) /\ Erase(i) /\ UNCHANGED exited
<1>1. tagTable[TagOf[i]] \in TagState
  BY CoreProgram DEF ProgramAssumption, TypeInv, TagType
<1> USE DEF IssueBarrier
<1>2. CASE tagTable[TagOf[i]] = "absent"
  BY Zenon, <1>2 DEF NoDoubleFinish
<1>3. CASE tagTable[TagOf[i]] = "sparse"
  BY Zenon, <1>3
<1>4. CASE tagTable[TagOf[i]] = "done"
  BY Zenon, <1>4
<1>5. CASE tagTable[TagOf[i]] = "pending"
  BY Zenon, <1>5
<1>6. QED
  BY Zenon, <1>1, <1>2, <1>3, <1>4, <1>5 DEF TagState

\* A barrier finishes, waits, or ends the process.
LEMMA IssueBarrierFlow ==
  ASSUME TypeInv, FlowInv, NEW i \in Inst, IssueBarrier(i)
  PROVE  FlowInv'
<1>1. /\ Issuing(i) /\ Op[i] = "BAR" /\ phase' = "cache"
      /\ UNCHANGED <<tileVars, pipe, ldq, stq, cur, respVars>>
  BY IssueBarrierEffect DEF dmaVars
<1>2. CASE NoDoubleFinish' /\ UNCHANGED <<flowVars, tagVars, cyc>>
  <2>1. \A j \in Inst : Rests(j)
    BY <1>1, <1>2, RestsWhere DEF InPipe, respVars, tagVars
  <2>2. OnePlace' /\ OneLoadOut' /\ FinishedWhen' /\ NotTooEarly' /\ CountersRight'
    BY <1>1, <1>2, <2>1, QuietStep DEF tagVars, tileVars
  <2>3. QueuesDistinct'
    BY <1>1, <1>2 DEF FlowInv, QueuesDistinct, respVars, flowVars, tagVars
  <2>4. WakeInDma'
    BY <1>1 DEF FlowInv, WakeInDma, Issuing, Running, respVars
  <2>5. QED
    BY <1>2, <2>2, <2>3, <2>4 DEF FlowInv
<1>3. CASE FinishInst(i, WithoutHead(i)) /\ UNCHANGED tagVars
  <2>1. ~finished[i]
    BY <1>1, WithoutHeadKeeps
  <2>2. Complete(i, WithoutHead(i)) /\ exited' = exited
    BY <1>3, <2>1 DEF FinishInst
  <2>3. UNCHANGED <<tagTable, waiters>>
    BY <1>3 DEF tagVars
  <2>4. QED
    BY <1>1, <2>2, <2>3, IssueFinish, ExitsKeep DEF FlowInv
<1>4. CASE WaitForTag(i) /\ Erase(i) /\ UNCHANGED exited
  BY <1>1, <1>4, IssueWait, ExitsKeep DEF FlowInv
<1>5. QED
  BY <1>2, <1>3, <1>4, IssueBarrierEffect

\* A COMP of zero cycles finishes at once, whatever the iterator reads after it.
LEMMA SkipComputeFlow ==
  ASSUME TypeInv, FlowInv, NEW i \in Inst, SkipCompute(i)
  PROVE  FlowInv'
<1>1. NoDoubleFinish'
  BY Zenon DEF SkipCompute, FlowInv, NoDoubleFinish
<1>2. /\ Issuing(i) /\ Complete(i, WithoutHead(i))
      /\ UNCHANGED <<tileVars, pipe, ldq, stq, cur, respVars, tagTable, waiters>>
  BY Zenon DEF SkipCompute, dmaVars, tagVars
<1>3. QED
  BY <1>1, <1>2, IssueFinish DEF FlowInv

\* A load is queued; it is the only load of its tag that is out if it sets the tag.
LEMMA IssueLoadFlow ==
  ASSUME TypeInv, FlowInv, NEW i \in Inst, IssueLoad(i)
  PROVE  FlowInv'
<1> USE CoreProgram DEF ProgramAssumption, IssueLoad
<1>1. /\ At(i) = {"ready"} /\ ~finished[i]
      /\ \A t \in Tile : Distinct(WithoutHead(i)[t])
      /\ \A k \in Inst : Holds(WithoutHead(i)[Owner[k]], k) <=> Holds(readyQ[Owner[k]], k) /\ k # i
  BY WithoutHeadKeeps
<1>2. /\ readyQ' = WithoutHead(i) /\ UNCHANGED <<readyCtr, finished, nrFinished>>
      /\ waiters' = [waiters EXCEPT ![TagOf[i]] = <<>>]
      /\ tagTable' = [tagTable EXCEPT ![TagOf[i]] = "pending"]
      /\ ldq' = Append(ldq, i) /\ Loading(i)
      /\ IsAsync[i] => tagTable[TagOf[i]] = "absent"
      /\ wake = <<>> /\ wake' = <<>>
  BY DEF Erase, RegisterTag, FlowInv, WakeInDma, Issuing, Running, respVars, AlreadyLoaded, Loading
<1>3. UNCHANGED <<arrived, pipe, stq, cur, waitq, finq, exited>>
  BY DEF tileVars, pipeVars, respVars
<1>4. /\ waiters \in [Tag -> Seq(Inst)] /\ TagOf \in [Inst -> Tag] /\ tagTable \in [Tag -> TagState]
      /\ ldq \in Seq(Inst) /\ Distinct(ldq)
  BY DEF TypeInv, TagType, DmaType, LoadInst, FlowInv, QueuesDistinct
<1> HIDE DEF IssueLoad
<1>5. (\A x : Holds(ldq', x) <=> Holds(ldq, x) \/ x = i) /\ Distinct(ldq')
  BY <1>1, <1>2, <1>4, HoldsAppend, AtPlace
<1>6. \A g \in Tag : /\ \A x : Holds(waiters'[g], x) <=> Holds(waiters[g], x) /\ g # TagOf[i]
                     /\ Distinct(waiters'[g])
  BY <1>2, <1>4 DEF FlowInv, QueuesDistinct, Holds, Distinct
<1>7. ASSUME NEW j \in Inst \ {i}
      PROVE  /\ finished'[j] = finished[j] /\ At(j)' \subseteq At(j)
             /\ ~InWake(j)' /\ (InWaiters(j)' => InWaiters(j) /\ TagOf[j] # TagOf[i])
  <2>1. Rests(j)
    BY <1>2, <1>3, <1>4, <1>5, <1>6, RestsWhere DEF InPipe
  <2>2. "ready" \in At(j)' => "ready" \in At(j)
    BY <1>1, <1>2, AtPlace, AtPlaceNext
  <2>3. ~InWake(j)'
    BY <1>2 DEF InWake, Holds
  <2>4. InWaiters(j)' => InWaiters(j) /\ TagOf[j] # TagOf[i]
    BY <1>4, <1>6 DEF InWaiters
  <2>5. QED
    BY <1>2, <2>1, <2>2, <2>3, <2>4 DEF Rests
<1>8. At(i)' \subseteq {"ldq"} /\ ~finished'[i] /\ ~InWake(i)' /\ ~InWaiters(i)'
  <2>1. ~InWake(i)' /\ ~InWaiters(i)'
    BY <1>2, <1>4, <1>6 DEF InWake, InWaiters, Holds
  <2>2. ~Holds(readyQ'[Owner[i]], i)
    BY <1>1, <1>2
  <2>3. ~InPipe(i)' /\ ~Holds(stq', i) /\ i # cur' /\ i \notin waitq' /\ ~Holds(finq', i)
    BY <1>1, <1>3, AtPlace DEF InPipe
  <2>4. QED
    BY <1>1, <1>2, <2>1, <2>2, <2>3, AtPlaceNext DEF Place
<1>9. \A m \in Inst : LoadOut(m)' => (LoadOut(m) /\ m # i) \/ (m = i /\ IsAsync[i])
  BY <1>7, LoadOutAt, LoadOutAtNext DEF AsyncLoad
<1>10. \A m \in Inst : LoadOut(m) /\ IsAsync[i] => TagOf[m] # TagOf[i]
  BY <1>2 DEF FlowInv, OneLoadOut
<1>11. OnePlace'
  <2>1. ASSUME NEW j \in Inst, NEW a \in At(j)', NEW b \in At(j)' PROVE a = b
    <3>1. CASE j = i
      BY <1>8, <2>1, <3>1
    <3>2. CASE j # i
      BY <1>7, <2>1, <3>2 DEF FlowInv, OnePlace
    <3>3. QED
      BY <3>1, <3>2
  <2>2. QED
    BY <2>1 DEF OnePlace
<1>12. OneLoadOut'
  <2>1. \A m \in Inst : LoadOut(m) => tagTable[TagOf[m]] # "absent"
    BY DEF FlowInv, OneLoadOut
  <2>2. \A m \in Inst : LoadOut(m)' => tagTable'[TagOf[m]] # "absent"
    BY <1>2, <1>4, <1>9, <2>1
  <2>3. \A m, k \in Inst : LoadOut(m) /\ LoadOut(k) /\ TagOf[m] = TagOf[k] => m = k
    BY DEF FlowInv, OneLoadOut
  <2>4. \A m, k \in Inst : LoadOut(m)' /\ LoadOut(k)' /\ TagOf[m] = TagOf[k] => m = k
    BY <1>9, <1>10, <2>3
  <2>5. QED
    BY <2>2, <2>4 DEF OneLoadOut
<1>13. FinishedWhen'
  <2>1. ASSUME NEW j \in Inst
        PROVE  /\ At(j) \cap Undone # {} => ~finished[j]
               /\ At(j) \cap {"waitq", "finq"} # {} => (finished[j] <=> FinishedByIssue(j))
               /\ \A m \in Inst : LoadOut(m) /\ TagOf[m] = TagOf[j] => (InWaiters(j) => ~finished[j])
    BY DEF FlowInv, FinishedWhen
  <2>2. ASSUME NEW j \in Inst
        PROVE  /\ At(j)' \cap Undone # {} \/ InWake(j)' => ~finished'[j]
               /\ At(j)' \cap {"waitq", "finq"} # {} => (finished'[j] <=> FinishedByIssue(j))
               /\ \A m \in Inst : LoadOut(m)' /\ TagOf[m] = TagOf[j] =>
                    ~InWake(j)' /\ (InWaiters(j)' => ~finished'[j])
    <3>1. CASE j = i
      BY <1>8, <3>1
    <3>2. CASE j # i
      BY <1>7, <1>9, <2>1, <3>2
    <3>3. QED
      BY <3>1, <3>2
  <2>3. \A j \in Inst : FinishedByIssue(j)' <=> FinishedByIssue(j)
    BY DEF FinishedByIssue
  <2>4. QED
    BY <2>2, <2>3 DEF FinishedWhen, Undone
<1>14. NotTooEarly' /\ CountersRight'
  <2>1. Started(i) /\ \A j \in Inst : Started(j)' => Started(j)
    BY <1>1, <1>2, <1>7 DEF Started
  <2>2. NotTooEarly'
    BY <1>2, <1>3, <2>1, EarlyKeeps DEF FlowInv
  <2>3. CountersRight'
    BY <1>2 DEF FlowInv, CountersRight, ParentsLeft, FinishedOf, Parents, InstOf
  <2>4. QED
    BY <2>2, <2>3
<1>15. QueuesDistinct'
  <2>1. \A g \in Tag : \A k \in Inst : Holds(waiters'[g], k) => TagOf[k] = g
    BY <1>6 DEF FlowInv, QueuesDistinct
  <2>2. QED
    BY <1>1, <1>2, <1>3, <1>5, <1>6, <2>1 DEF FlowInv, QueuesDistinct
<1>16. WakeInDma' /\ NoDoubleFinish'
  BY <1>2, <1>3, ExitsKeep DEF FlowInv, WakeInDma
<1>17. QED
  BY <1>11, <1>12, <1>13, <1>14, <1>15, <1>16 DEF FlowInv

\* The instruction that issues joins a queue of the DMA engine or a pipeline: the places
\* "stq" and "pipe", of which the other is left alone.
LEMMA IssueInto ==
  ASSUME TypeInv, FlowInv, NEW i \in Inst, Issuing(i), Erase(i), ~Loading(i),
         UNCHANGED <<tileVars, ldq, cur, respVars, tagVars>>,
         \/ /\ \A j \in Inst : InPipe(j)' <=> InPipe(j)
            /\ \A j \in Inst : Holds(stq', j) <=> Holds(stq, j) \/ j = i
         \/ /\ \A j \in Inst : InPipe(j)' <=> InPipe(j) \/ j = i
            /\ stq' = stq
  PROVE  /\ OnePlace' /\ OneLoadOut' /\ FinishedWhen' /\ NotTooEarly' /\ CountersRight'
         /\ WakeInDma' /\ \A t \in Tile : Distinct(readyQ'[t])
<1>1. /\ At(i) = {"ready"} /\ ~finished[i]
      /\ \A t \in Tile : Distinct(WithoutHead(i)[t])
      /\ \A k \in Inst : Holds(WithoutHead(i)[Owner[k]], k) <=> Holds(readyQ[Owner[k]], k) /\ k # i
  BY WithoutHeadKeeps
<1>2. readyQ' = WithoutHead(i) /\ UNCHANGED <<readyCtr, finished, nrFinished>>
  BY DEF Erase
<1>3. wake = <<>> /\ wake' = <<>> /\ waitq' = waitq /\ finq' = finq
  BY DEF FlowInv, WakeInDma, Issuing, Running, respVars
<1>4. \A j \in Inst \ {i} :
        Rests(j) /\ (Holds(readyQ'[Owner[j]], j) => Holds(readyQ[Owner[j]], j))
  BY <1>1, <1>2, <1>3, RestsWhere DEF tagVars
<1>5. \E a \in {"stq", "pipe"} : At(i)' \subseteq {a}
  <2>1. ~Holds(readyQ'[Owner[i]], i)
    BY <1>1, <1>2
  <2>2. ~Holds(ldq', i) /\ i # cur' /\ i \notin waitq' /\ ~Holds(finq', i)
    BY <1>1, <1>3, AtPlace
  <2>3. ~InWake(i)' /\ ~InWaiters(i)'
    BY <1>1, <1>3, AtPlace, HoldsEmpty DEF InWake, InWaiters, tagVars
  <2>4. ~InPipe(i)' \/ ~Holds(stq', i)
    BY <1>1, AtPlace
  <2>5. QED
    BY <2>1, <2>2, <2>3, <2>4, AtPlaceNext DEF Place
<1>6. Fate(i) /\ ~LoadOut(i)'
  <2>1. ~finished'[i]
    BY <1>1, <1>2
  <2>2. QED
    BY <1>5, <2>1, LoadOutAtNext DEF Fate, Undone, AsyncLoad
<1>7. OnePlace' /\ OneLoadOut' /\ FinishedWhen' /\ NotTooEarly' /\ CountersRight'
  BY <1>1, <1>2, <1>4, <1>6, MoveOne DEF tileVars, tagVars
<1>8. QED
  BY <1>1, <1>2, <1>3, <1>7 DEF WakeInDma

\* A store is queued for the DMA engine.
LEMMA IssueStoreFlow ==
  ASSUME TypeInv, FlowInv, NEW i \in Inst, IssueStore(i)
  PROVE  FlowInv'
<1> USE DEF IssueStore
<1>1. UNCHANGED <<tileVars, pipe, ldq, cur, respVars, tagVars, exited>>
  BY DEF pipeVars
<1>2. (\A x : Holds(stq', x) <=> Holds(stq, x) \/ x = i) /\ Distinct(stq')
  <2>1. stq \in Seq(Inst) /\ Distinct(stq)
    BY DEF TypeInv, DmaType, StoreInst, FlowInv, QueuesDistinct
  <2>2. ~Holds(stq, i)
    BY WithoutHeadKeeps, AtPlace
  <2>3. QED
    BY <2>1, <2>2, HoldsAppend
<1>3. ~Loading(i)
  BY DEF Loading
<1>4. /\ OnePlace' /\ OneLoadOut' /\ FinishedWhen' /\ NotTooEarly' /\ CountersRight'
      /\ WakeInDma' /\ \A t \in Tile : Distinct(readyQ'[t])
  BY <1>1, <1>2, <1>3, IssueInto DEF InPipe
<1>5. QueuesDistinct'
  BY <1>1, <1>2, <1>4 DEF FlowInv, QueuesDistinct, respVars, tagVars
<1>6. QED
  BY <1>1, <1>4, <1>5, ExitsKeep DEF FlowInv

\* A COMP joins the pipeline chosen for it.
LEMMA IssueComputeFlow ==
  ASSUME TypeInv, FlowInv, NEW i \in Inst, IssueCompute(i)
  PROVE  FlowInv'
<1> USE DEF IssueCompute
<1>1. UNCHANGED <<tileVars, ldq, stq, cur, respVars, tagVars, exited>>
  BY DEF dmaVars
<1>2. Target(i) \in Unit /\ pipe \in [Unit -> Seq(Inst)]
  BY PipelineType DEF TypeInv, PipeType
<1>3. pipe' = [pipe EXCEPT ![Target(i)] = Append(@, i)] /\ ~Loading(i) /\ Issuing(i) /\ Erase(i)
  BY DEF Loading
<1> HIDE DEF IssueCompute
<1>4. \A v \in Unit : ~Holds(pipe[v], i) /\ Distinct(pipe[v])
  BY <1>3, WithoutHeadKeeps, AtPlace DEF InPipe, FlowInv, QueuesDistinct
<1>5. \A v \in Unit :
        /\ \A x : Holds(pipe'[v], x) <=> Holds(pipe[v], x) \/ (v = Target(i) /\ x = i)
        /\ Distinct(pipe'[v])
  <2> TAKE v \in Unit
  <2>1. CASE v = Target(i)
    BY <1>2, <1>3, <1>4, <2>1, HoldsAppend
  <2>2. CASE v # Target(i)
    BY <1>2, <1>3, <1>4, <2>2
  <2>3. QED
    BY <2>1, <2>2
<1>6. \A j \in Inst : InPipe(j)' <=> InPipe(j) \/ j = i
  BY <1>2, <1>5 DEF InPipe
<1>7. /\ OnePlace' /\ OneLoadOut' /\ FinishedWhen' /\ NotTooEarly' /\ CountersRight'
      /\ WakeInDma' /\ \A t \in Tile : Distinct(readyQ'[t])
  BY <1>1, <1>3, <1>6, IssueInto
<1>8. QueuesDistinct'
  <2>1. \A v, w \in Unit : \A k \in Inst : Holds(pipe'[v], k) /\ Holds(pipe'[w], k) => v = w
    BY <1>4, <1>5 DEF FlowInv, QueuesDistinct
  <2>2. QED
    BY <1>1, <1>5, <1>7, <2>1 DEF FlowInv, QueuesDistinct, respVars, tagVars
<1>9. QED
  BY <1>1, <1>7, <1>8, ExitsKeep DEF FlowInv

\* A tile arrives: its instructions without parents become ready; none was anywhere before.
LEMMA IssueTileFlow ==
  ASSUME TypeInv, FlowInv, NEW t \in Tile, IssueTile(t)
  PROVE  FlowInv'
<1> USE CoreProgram DEF ProgramAssumption, IssueTile
<1>1. PICK order \in Orders(Roots(t)) : readyQ' = [readyQ EXCEPT ![t] = @ \o order]
  OBVIOUS
<1>2. /\ t \notin arrived /\ arrived' = arrived \cup {t}
      /\ UNCHANGED <<phase, exited, readyCtr, finished, nrFinished, pipeVars, dmaVars, respVars, tagVars>>
  OBVIOUS
<1> HIDE DEF IssueTile
<1>3. IsFiniteSet(Roots(t)) /\ Roots(t) \subseteq Inst
  BY FS_Subset DEF Roots
<1>4. (\A k : Holds(order, k) <=> k \in Roots(t)) /\ Distinct(order) /\ order \in Seq(Inst)
  BY <1>3, HoldsOrder, OrdersType
<1>5. ASSUME NEW k \in Inst, Owner[k] = t PROVE ~Started(k)
  BY <1>2, <1>5 DEF FlowInv, NotTooEarly
<1>6. readyQ \in [Tile -> Seq(Inst)] /\ readyQ[t] \in Seq(InstOf(t)) /\ Distinct(readyQ[t])
  BY DEF TypeInv, FlowType, ReadyType, FlowInv, QueuesDistinct
<1>7. \A k : ~Holds(readyQ[t], k)
  <2> SUFFICES ASSUME NEW k, Holds(readyQ[t], k) PROVE FALSE
    OBVIOUS
  <2>1. k \in Inst /\ Owner[k] = t
    BY <1>6 DEF Holds, InstOf
  <2>2. QED
    BY <1>5, <2>1, AtPlace DEF Started
<1>8. (\A k : Holds(readyQ'[t], k) <=> k \in Roots(t)) /\ Distinct(readyQ'[t])
  <2>1. readyQ'[t] = readyQ[t] \o order
    BY <1>1, <1>6
  <2>2. QED
    BY <1>4, <1>6, <1>7, <2>1, HoldsConcat
<1>9. \A s \in Tile \ {t} : readyQ'[s] = readyQ[s]
  BY <1>1, <1>6
<1>10. \A j \in Inst : Rests(j)
  BY <1>2, RestsWhere DEF InPipe, pipeVars, dmaVars, respVars, tagVars
<1>11. ASSUME NEW j \in Inst
       PROVE  /\ Fate(j) /\ (LoadOut(j)' => LoadOut(j))
              /\ Started(j)' => Started(j) \/ (readyCtr'[j] = 0 /\ Owner[j] \in arrived')
  <2>1. CASE j \in Roots(t)
    <3>1. ~finished'[j] /\ At(j)' \subseteq {"ready"} /\ readyCtr'[j] = 0 /\ Owner[j] \in arrived'
      BY <1>2, <1>5, <1>10, <2>1 DEF Roots, Started, Rests
    <3>2. QED
      BY <3>1, LoadOutAtNext DEF Fate, Undone
  <2>2. CASE j \notin Roots(t)
    <3>1. "ready" \in At(j)' => "ready" \in At(j)
      BY <1>8, <1>9, <2>2, AtPlace, AtPlaceNext
    <3>2. At(j)' \subseteq At(j)
      BY <1>10, <3>1 DEF Rests
    <3>3. QED
      BY <1>2, <1>10, <3>2, LoadOutAt, LoadOutAtNext DEF Fate, Rests, Started
  <2>3. QED
    BY <2>1, <2>2
<1>12. OnePlace' /\ FinishedWhen'
  BY <1>11, FateKeeps DEF FlowInv
<1>13. OneLoadOut'
  BY <1>2, <1>11, LoadsKeep DEF FlowInv, tagVars
<1>14. NotTooEarly'
  BY <1>2, <1>11, EarlyKeeps DEF FlowInv
<1>15. CountersRight'
  BY <1>2 DEF FlowInv, CountersRight, ParentsLeft, FinishedOf, Parents, InstOf
<1>16. QueuesDistinct'
  BY <1>2, <1>8, <1>9 DEF FlowInv, QueuesDistinct, pipeVars, dmaVars, respVars, tagVars
<1>17. WakeInDma' /\ NoDoubleFinish'
  BY <1>2, ExitsKeep DEF FlowInv, WakeInDma, respVars
<1>18. QED
  BY <1>12, <1>13, <1>14, <1>15, <1>16, <1>17 DEF FlowInv

\* What the flow invariant is about
flow == <<exited, arrived, flowVars, pipe, ldq, stq, cur, waitq, finq, wake, tagVars>>

\* The steps that move no instruction
LEMMA QuietFlowSteps ==
  ASSUME [Next]_vars, WakeInDma,
         ~ \E i \in Inst : PushResponse(i), ~ \E u \in Unit : RetireCompute(u),
         ~DrainSyncLoad, ~DrainAsyncLoad, ~WakeWaiter, ~DrainStore, ~DmaRetire, ~DmaTake,
         ~ \E i \in Inst : \/ IssueSparseLoad(i) \/ SkipLoad(i) \/ IssueLoad(i) \/ IssueStore(i)
                           \/ IssueCompute(i) \/ SkipCompute(i) \/ IssueBarrier(i),
         ~ \E t \in Tile : IssueTile(t)
  PROVE  UNCHANGED flow /\ (wake = <<>> \/ UNCHANGED phase)
<1> USE DEF flow, Running, Drained, WakeInDma
<1>1. CASE UNCHANGED vars
  BY <1>1 DEF vars, tileVars, pipeVars, dmaVars, respVars
<1>2. CASE PopFinishedTile
  BY <1>2 DEF PopFinishedTile, pipeVars, dmaVars, respVars
<1>3. ASSUME NEW i \in Inst, PopRequest(i)
      PROVE  UNCHANGED flow /\ (wake = <<>> \/ UNCHANGED phase)
  BY <1>3 DEF PopRequest, tileVars, pipeVars, dmaVars, respVars
<1>4. CASE StartCycle
  BY <1>4 DEF StartCycle, tileVars, pipeVars, dmaVars, respVars
<1>5. CASE EndCompute
  BY <1>5 DEF EndCompute, tileVars, pipeVars, dmaVars, respVars
<1>6. CASE DmaIdle
  BY <1>6 DEF DmaIdle, tileVars, dmaVars, respVars
<1>7. CASE DmaGenerate
  BY <1>7 DEF DmaGenerate, tileVars
<1>8. CASE IssueNone
  BY <1>8 DEF IssueNone, tileVars, pipeVars, dmaVars, respVars
<1>9. CASE Retire
  BY <1>9 DEF Retire, pipeVars, dmaVars, respVars
<1>10. CASE CacheCycle
  BY <1>10 DEF CacheCycle, tileVars, pipeVars, dmaVars, respVars
<1>11. QED
  BY <1>1, <1>2, <1>3, <1>4, <1>5, <1>6, <1>7, <1>8, <1>9, <1>10
  DEF Next, Cycle, Compute, Dma, Issue, Exited

\* Such a step keeps every instruction where it is.
LEMMA QuietFlow ==
  ASSUME TypeInv, FlowInv, UNCHANGED flow, wake = <<>> \/ UNCHANGED phase
  PROVE  FlowInv'
<1> USE DEF flow
<1>1. \A j \in Inst : Rests(j)
  BY RestsWhere DEF InPipe, tagVars
<1>2. OnePlace' /\ OneLoadOut' /\ FinishedWhen' /\ NotTooEarly' /\ CountersRight'
  BY <1>1, QuietStep DEF tagVars
<1>3. QueuesDistinct'
  BY DEF FlowInv, QueuesDistinct, flowVars, tagVars
<1>4. WakeInDma' /\ NoDoubleFinish'
  BY ExitsKeep DEF FlowInv, WakeInDma
<1>5. QED
  BY <1>2, <1>3, <1>4 DEF FlowInv

\* Every step of the core and of its callers keeps the flow invariant.
LEMMA FlowStep ==
  TypeInv /\ FlowInv /\ [Next]_vars => FlowInv'
<1> SUFFICES ASSUME TypeInv, FlowInv, [Next]_vars PROVE FlowInv'
  OBVIOUS
<1>1. ASSUME NEW i \in Inst, PushResponse(i) PROVE FlowInv'
  BY <1>1, PushResponseFlow
<1>2. ASSUME NEW u \in Unit, RetireCompute(u) PROVE FlowInv'
  BY <1>2, RetireComputeFlow
<1>3. CASE DrainSyncLoad \/ DrainAsyncLoad \/ WakeWaiter \/ DrainStore \/ DmaRetire \/ DmaTake
  BY <1>3, DrainSyncLoadFlow, DrainAsyncLoadFlow, WakeWaiterFlow, DrainStoreFlow, DmaRetireFlow,
     DmaTakeFlow
<1>4. ASSUME NEW i \in Inst,
             \/ IssueSparseLoad(i) \/ SkipLoad(i) \/ IssueLoad(i) \/ IssueStore(i)
             \/ IssueCompute(i) \/ SkipCompute(i) \/ IssueBarrier(i)
      PROVE  FlowInv'
  BY <1>4, IssueSparseLoadFlow, SkipLoadFlow, IssueLoadFlow, IssueStoreFlow, IssueComputeFlow,
     SkipComputeFlow, IssueBarrierFlow
<1>5. ASSUME NEW t \in Tile, IssueTile(t) PROVE FlowInv'
  BY <1>5, IssueTileFlow
<1>6. CASE /\ ~ \E i \in Inst : PushResponse(i)
           /\ ~ \E u \in Unit : RetireCompute(u)
           /\ ~DrainSyncLoad /\ ~DrainAsyncLoad /\ ~WakeWaiter /\ ~DrainStore /\ ~DmaRetire /\ ~DmaTake
           /\ ~ \E i \in Inst : \/ IssueSparseLoad(i) \/ SkipLoad(i) \/ IssueLoad(i) \/ IssueStore(i)
                                \/ IssueCompute(i) \/ SkipCompute(i) \/ IssueBarrier(i)
           /\ ~ \E t \in Tile : IssueTile(t)
  BY <1>6, QuietFlowSteps, QuietFlow DEF FlowInv
<1>7. QED
  BY <1>1, <1>2, <1>3, <1>4, <1>5, <1>6

\* At first no instruction is anywhere.
LEMMA FlowInit == Init => FlowInv
<1> SUFFICES ASSUME Init PROVE FlowInv
  OBVIOUS
<1> USE CoreProgram DEF ProgramAssumption
<1>1. \A i \in Inst : At(i) = {} /\ ~finished[i]
  <2> TAKE i \in Inst
  <2>1. ~Holds(readyQ[Owner[i]], i) /\ ~Holds(waiters[TagOf[i]], i)
    BY HoldsEmpty DEF Init
  <2>2. ~InPipe(i)
    BY HoldsEmpty DEF Init, InPipe
  <2>3. ~Holds(ldq, i) /\ ~Holds(stq, i) /\ ~Holds(finq, i) /\ ~Holds(wake, i)
    BY HoldsEmpty DEF Init
  <2>4. i # cur /\ i \notin waitq /\ ~finished[i]
    BY DEF Init
  <2>5. QED
    BY <2>1, <2>2, <2>3, <2>4, AtPlace DEF Place, InWake, InWaiters
<1>2. \A i \in Inst : ~InWake(i) /\ ~InWaiters(i) /\ ~LoadOut(i)
  BY <1>1, AtPlace, LoadOutAt
<1>3. OnePlace /\ OneLoadOut /\ FinishedWhen /\ NotTooEarly
  BY <1>1, <1>2 DEF OnePlace, OneLoadOut, FinishedWhen, NotTooEarly, Started
<1>4. QueuesDistinct
  BY HoldsEmpty DEF Init, QueuesDistinct
<1>5. CountersRight
  <2>1. \A i \in Inst : ParentsLeft(i) = Parents(i)
    BY <1>1 DEF ParentsLeft, Parents
  <2>2. \A t \in Tile : FinishedOf(t) = {}
    BY <1>1 DEF FinishedOf, InstOf
  <2>3. QED
    BY <2>1, <2>2, FS_EmptySet DEF CountersRight, Init
<1>6. WakeInDma /\ exited = "no"
  BY DEF Init, WakeInDma
<1>7. NoDoubleFinish
  BY <1>6, Zenon DEF NoDoubleFinish
<1>8. QED
  BY <1>3, <1>4, <1>5, <1>6, <1>7 DEF FlowInv

\* Each instruction is in one place at a time and finished by one of them, the counters of
\* its tile and of its children are right, and no instruction is finished twice.
THEOREM FlowCorrect == Spec => []FlowInv
<1>1. QED
  BY FlowInit, FlowStep, TypeCorrect, PTL DEF Spec

-------------------------------------------------------------------------------
(* What follows for the order of instructions, for tiles and for the end of a run *)

\* An instruction finishes after all those it depends on.
THEOREM ParentsFirstHolds == Spec => []ParentsFirst
<1>1. TypeInv /\ FlowInv => ParentsFirst
  <2> SUFFICES ASSUME TypeInv, FlowInv, NEW i \in Inst, NEW k \in Kids[i], finished[k]
               PROVE  finished[i]
    BY DEF ParentsFirst
  <2>1. k \in Inst
    BY CoreProgram DEF ProgramAssumption
  <2>2. readyCtr[k] = 0
    BY <2>1 DEF FlowInv, NotTooEarly, Started
  <2>3. ParentsLeft(k) = {}
    BY <2>1, <2>2, CountersNat DEF FlowInv
  <2>4. QED
    BY <2>1, <2>3 DEF ParentsLeft, Parents
<1>2. QED
  BY <1>1, TypeCorrect, FlowCorrect, PTL

\* A synchronous load is finished by the last of its responses: the half of DataBeforeUse that
\* does not depend on tags.
SyncLoadsDone == \A m \in Inst : Loading(m) /\ ~IsAsync[m] /\ finished[m] => TransferDone(m)

\* When it is finished nothing of it is under way any more.
THEOREM SyncLoadsAreDone == Spec => []SyncLoadsDone
<1>1. TrafficInv /\ FlowInv => SyncLoadsDone
  <2> SUFFICES ASSUME TrafficInv, FlowInv, NEW m \in Inst, Loading(m), ~IsAsync[m], finished[m]
               PROVE  TransferDone(m)
    BY DEF SyncLoadsDone
  <2>1. ~FinishedByIssue(m)
    BY DEF FinishedByIssue, Loading
  <2>2. ~Holds(ldq, m) /\ m # cur /\ m \notin waitq
    BY <2>1, AtPlace DEF FlowInv, FinishedWhen, Undone
  <2>3. waiting[m] \in Nat
    BY WaitingNat DEF TrafficInv
  <2>4. waiting[m] = 0
    BY <2>2, <2>3 DEF TrafficInv, NoLostCompletion
  <2>5. QED
    BY <2>2, <2>4 DEF TransferDone
<1>2. QED
  BY <1>1, TrafficCorrect, FlowCorrect, PTL

\* The counter of a tile that is all finished counts each of its instructions.
LEMMA AllAreFinished ==
  ASSUME TypeInv, FlowInv, NEW t \in Tile, AllFinished(t), NEW i \in Inst, Owner[i] = t
  PROVE  finished[i]
<1>1. Body[t] \in Seq(Inst)
  BY CoreProgram DEF ProgramAssumption
<1>2. Distinct(Body[t])
  BY CoreLinks DEF Distinct, LinkAssumption
<1>3. Elems(Body[t]) = InstOf(t)
  <2>1. \A n \in 1..Len(Body[t]) : Body[t][n] \in InstOf(t)
    <3>1. \A n \in 1..Len(Body[t]) : Body[t][n] \in Inst
      BY <1>1, ElementOfSeq
    <3>2. \A n \in 1..Len(Body[t]) : Owner[Body[t][n]] = t
      BY CoreLinks DEF LinkAssumption
    <3>3. QED
      BY <3>1, <3>2 DEF InstOf
  <2>2. \A k \in InstOf(t) : \E n \in 1..Len(Body[t]) : k = Body[t][n]
    BY CoreLinks DEF LinkAssumption, InstOf
  <2>3. QED
    BY <2>1, <2>2 DEF Elems
<1>4. IsFiniteSet(InstOf(t)) /\ Cardinality(InstOf(t)) = Len(Body[t])
  BY <1>1, <1>2, <1>3, ElemsCount
<1>5. Cardinality(FinishedOf(t)) = Len(Body[t])
  BY DEF AllFinished, FlowInv, CountersRight
<1>6. FinishedOf(t) = InstOf(t)
  <2>1. FinishedOf(t) \in SUBSET InstOf(t)
    BY DEF FinishedOf
  <2>2. QED
    BY <1>4, <1>5, <2>1, FS_Subset
<1>7. QED
  BY <1>6 DEF FinishedOf, InstOf

\* Finishing an instruction unfinishes none.
LEMMA FinishKeeps ==
  ASSUME TypeInv, NEW i, NEW q, Complete(i, q) \/ FinishInst(i, q)
  PROVE  \A j \in Inst : finished[j] => finished'[j]
<1>1. Complete(i, q) \/ UNCHANGED flowVars
  BY Zenon DEF FinishInst
<1>2. finished \in [Inst -> BOOLEAN]
  BY DEF TypeInv, FlowType
<1>3. CASE Complete(i, q)
  BY <1>2, <1>3 DEF Complete
<1>4. CASE UNCHANGED flowVars
  BY <1>4 DEF flowVars
<1>5. QED
  BY <1>1, <1>3, <1>4

\* What is finished stays finished.
LEMMA FinishedStays ==
  ASSUME TypeInv, [Next]_vars
  PROVE  \A j \in Inst : finished[j] => finished'[j]
<1>1. CASE UNCHANGED flowVars
  BY <1>1 DEF flowVars
<1>2. CASE \E i, q : Complete(i, q) \/ FinishInst(i, q)
  BY <1>2, FinishKeeps
<1>3. CASE UNCHANGED finished
  BY <1>3
<1>4. UNCHANGED flowVars \/ UNCHANGED finished \/ \E i, q : Complete(i, q) \/ FinishInst(i, q)
  <2>1. CASE UNCHANGED vars
    BY <2>1 DEF vars
  <2>2. ASSUME NEW t \in Tile, IssueTile(t) PROVE UNCHANGED finished
    BY <2>2 DEF IssueTile
  <2>3. CASE PopFinishedTile \/ StartCycle \/ Retire \/ CacheCycle
    BY <2>3 DEF PopFinishedTile, StartCycle, Retire, CacheCycle
  <2>4. ASSUME NEW i \in Inst, PopRequest(i) \/ PushResponse(i) PROVE UNCHANGED flowVars
    BY <2>4 DEF PopRequest, PushResponse
  <2>5. CASE Compute
    BY <2>5 DEF Compute, RetireCompute, EndCompute
  <2>6. CASE Dma
    <3>1. CASE DrainAsyncLoad
      BY <3>1, DrainAsyncLoadEffect
    <3>2. CASE DrainSyncLoad \/ WakeWaiter \/ DrainStore \/ DmaRetire
      BY <3>2 DEF DrainSyncLoad, WakeWaiter, DrainStore, DmaRetire
    <3>3. CASE DmaTake \/ DmaIdle \/ DmaGenerate
      BY <3>3 DEF DmaTake, DmaIdle, DmaGenerate
    <3>4. QED
      BY <2>6, <3>1, <3>2, <3>3 DEF Dma
  <2>7. CASE Issue
    <3>1. ASSUME NEW i \in Inst, IssueSparseLoad(i) \/ SkipCompute(i)
          PROVE  \E j, q : Complete(j, q) \/ FinishInst(j, q)
      BY <3>1, Zenon DEF IssueSparseLoad, SkipCompute
    <3>2. ASSUME NEW i \in Inst, SkipLoad(i)
          PROVE  UNCHANGED finished \/ \E j, q : Complete(j, q) \/ FinishInst(j, q)
      BY <3>2 DEF SkipLoad, Erase
    <3>3. ASSUME NEW i \in Inst, IssueLoad(i) \/ IssueStore(i) \/ IssueCompute(i)
          PROVE  UNCHANGED finished
      BY <3>3 DEF IssueLoad, IssueStore, IssueCompute, Erase
    <3>4. ASSUME NEW i \in Inst, IssueBarrier(i)
          PROVE  UNCHANGED finished \/ \E j, q : Complete(j, q) \/ FinishInst(j, q)
      BY <3>4, IssueBarrierEffect DEF Erase, flowVars
    <3>5. CASE IssueNone
      BY <3>5 DEF IssueNone
    <3>6. QED
      BY <2>7, <3>1, <3>2, <3>3, <3>4, <3>5 DEF Issue
  <2>8. QED
    BY <2>1, <2>2, <2>3, <2>4, <2>5, <2>6, <2>7 DEF Next, Cycle, Exited
<1>5. QED
  BY <1>1, <1>2, <1>3, <1>4

\* A tile leaves the list of tiles only when its counter has reached the number of its
\* instructions.
LEMMA RetiredStep ==
  TypeInv /\ FlowInv /\ RetiredAreComplete /\ [Next]_vars => RetiredAreComplete'
<1> SUFFICES ASSUME TypeInv, FlowInv, RetiredAreComplete, [Next]_vars,
                    NEW t \in returned' \cup Elems(finishedTiles'), NEW i \in Inst, Owner[i] = t
             PROVE  finished'[i]
  BY DEF RetiredAreComplete, Elems
<1>1. \A s \in returned \cup Elems(finishedTiles) : \A j \in Inst : Owner[j] = s => finished[j]
  BY DEF RetiredAreComplete, Elems
<1>2. finished[i] => finished'[i]
  BY FinishedStays
<1>3. tiles \in Seq(Tile) /\ finishedTiles \in Seq(Tile)
  BY DEF TypeInv, TileType
<1>4. CASE t \in returned \cup Elems(finishedTiles)
  BY <1>1, <1>2, <1>4
<1>5. CASE t \notin returned \cup Elems(finishedTiles)
  <2>1. ~PopFinishedTile
    <3> SUFFICES ASSUME PopFinishedTile PROVE FALSE
      OBVIOUS
    <3>1. finishedTiles' = Tail(finishedTiles) /\ returned' = returned \cup {Front(finishedTiles)}
      BY DEF PopFinishedTile
    <3>2. Elems(finishedTiles) = Elems(finishedTiles') \cup {Front(finishedTiles)}
      BY <1>3, <3>1, ElemsTail DEF PopFinishedTile, Front
    <3>3. QED
      BY <1>5, <3>1, <3>2
  <2>2. \A s \in Tile : ~IssueTile(s)
    BY <1>5 DEF IssueTile
  <2>3. ~UNCHANGED tileVars
    BY <1>5 DEF tileVars
  <2>4. Retire
    BY <2>1, <2>2, <2>3, TileFrame
  <2>5. PICK n \in 1..Len(tiles) : RetireTile(n)
    BY <1>5, <2>4 DEF Retire
  <2>6. t = tiles[n] /\ t \in Tile /\ AllFinished(t)
    <3>1. tiles[n] \in Tile /\ finishedTiles' = Append(finishedTiles, tiles[n])
      BY <1>3, <2>5 DEF RetireTile
    <3>2. Elems(finishedTiles') = Elems(finishedTiles) \cup {tiles[n]}
      BY <1>3, <3>1, ElemsAppend
    <3>3. QED
      BY <1>5, <2>4, <2>5, <3>1, <3>2 DEF Retire, RetireTile
  <2>7. QED
    BY <1>2, <2>6, AllAreFinished
<1>6. QED
  BY <1>4, <1>5

\* All instructions of a tile that the core gives up or has given back are finished.
THEOREM RetiredAreCompleteHolds == Spec => []RetiredAreComplete
<1>1. Init => RetiredAreComplete
  BY DEF Init, RetiredAreComplete
<1>2. QED
  BY <1>1, RetiredStep, FlowCorrect, TypeCorrect, PTL DEF Spec

\* A tile leaves the core when its work is done, and not before: while an instruction of it
\* is at work the raw pointers of the DMA engine and the pipelines find it in _tiles.
THEOREM TileLifetimeHolds == Spec => []TileLifetime
<1>1. TypeInv /\ FlowInv /\ TilesApart /\ RetiredAreComplete => TileLifetime
  <2> SUFFICES ASSUME TypeInv, FlowInv, TilesApart, RetiredAreComplete,
                      NEW i \in Inst, AtWork(i), ~finished[i]
               PROVE  Holds(tiles, Owner[i])
    BY DEF TileLifetime, OwnerAlive
  <2>1. At(i) # {}
    BY AtPlace DEF AtWork, InWake, InWaiters
  <2>2. Owner[i] \in arrived
    BY <2>1 DEF FlowInv, NotTooEarly, Started
  <2>3. Owner[i] \notin Elems(finishedTiles) \cup returned
    BY DEF RetiredAreComplete, Elems
  <2>4. Owner[i] \in Elems(tiles)
    BY <2>2, <2>3, HeldElems DEF TilesApart
  <2>5. QED
    BY <2>4, HoldsElems
<1>2. QED
  BY <1>1, TypeCorrect, FlowCorrect, TilesApartHold, RetiredAreCompleteHolds, PTL

\* When Core::running says no, no request of the core is anywhere and every instruction of
\* every tile it accepted is finished.
THEOREM QuiesceSoundHolds == Spec => []QuiesceSound
<1>1. TrafficInv /\ TilesApart /\ RetiredAreComplete => QuiesceSound
  <2> SUFFICES ASSUME TrafficInv, TilesApart, RetiredAreComplete, ~CoreRunning
               PROVE  /\ \A i \in Inst : queued[i] = 0 /\ net[i] = 0 /\ mem[i] = 0
                      /\ \A i \in Inst : Owner[i] \in arrived => finished[i]
    BY DEF QuiesceSound
  <2>1. ASSUME NEW i \in Inst PROVE queued[i] = 0 /\ net[i] = 0 /\ mem[i] = 0
    <3>1. i \notin waitq /\ i # cur
      BY CoreProgram DEF CoreRunning, ProgramAssumption
    <3>2. waiting[i] \in Nat /\ queued[i] \in Nat /\ net[i] \in Nat /\ mem[i] \in Nat
      BY WaitingNat DEF TrafficInv, TypeInv, MemType
    <3>3. waiting[i] = 0
      BY <3>1, <3>2 DEF TrafficInv, NoLostCompletion
    <3>4. waiting[i] = queued[i] + net[i] + mem[i]
      BY <3>1, <3>2 DEF TrafficInv, Conservation
    <3>5. \A a, b, c \in Nat : a + b + c = 0 => a = 0 /\ b = 0 /\ c = 0
      OBVIOUS
    <3>6. QED
      BY <3>2, <3>3, <3>4, <3>5
  <2>2. ASSUME NEW i \in Inst, Owner[i] \in arrived PROVE finished[i]
    <3>1. Held = {}
      BY HeldElems DEF CoreRunning, Elems
    <3>2. Owner[i] \in Elems(finishedTiles) \cup returned
      BY <2>2, <3>1 DEF TilesApart
    <3>3. QED
      BY <3>2 DEF RetiredAreComplete, Elems
  <2>3. QED
    BY <2>1, <2>2
<1>2. QED
  BY <1>1, TrafficCorrect, TilesApartHold, RetiredAreCompleteHolds, PTL

-------------------------------------------------------------------------------
(* Pipelines *)

\* A pipeline is sorted by the cycle in which its instructions are over.
Sorted(q) == \A m, n \in 1..Len(q) : m <= n => left[q[m]] <= left[q[n]]
\* Core::compute_cycle leaves no head behind whose time is up, and _core_cycle moves on by one
\* before the issue stage.
HeadsAhead ==
  \A u \in Unit : pipe[u] # <<>> =>
    /\ phase = "dma" => left[Front(pipe[u])] >= 1
    /\ phase = "issue" => left[Front(pipe[u])] >= 0
\* The invariant behind PipelineTiming: the difference of two cycle counts that the overlap is
\* cut down to is not negative, and a COMP is as long as the program says or skipped.
TimingInv ==
  /\ \A u \in Unit : Sorted(pipe[u])
  /\ HeadsAhead
  /\ \A i \in Inst : cyc[i] \in {Cycles[i], 0}

\* A COMP that issues ends after its own cycles, and not before those in front of it.
LEMMA OverlapTiming ==
  ASSUME TypeInv, TimingInv, NEW i \in Inst, IssueCompute(i)
  PROVE  /\ left'[i] >= cyc[i]
         /\ \A n \in 1..Len(pipe[Target(i)]) : left'[i] >= left[pipe[Target(i)][n]]
<1>1. Target(i) \in Unit /\ pipe[Target(i)] \in Seq(Inst) /\ left \in [Inst -> Int]
  BY PipelineType DEF TypeInv, PipeType
<1>2. PICK q \in Seq(Inst) : q = pipe[Target(i)]
  BY <1>1
<1>3. left'[i] = FinishTime(i, q) /\ cyc[i] # 0 /\ Running("issue")
  BY <1>1, <1>2 DEF IssueCompute, Issuing
<1>4. cyc[i] = Cycles[i] /\ cyc[i] \in Nat /\ Overlap[i] \in Nat /\ Overlap[i] <= cyc[i]
  BY <1>3, CoreProgram, CoreOverlap DEF ProgramAssumption, OverlapAssumption, TimingInv
<1>5. CASE q = <<>>
  <2>1. left'[i] = cyc[i]
    BY <1>3, <1>5 DEF FinishTime
  <2>2. Len(q) = 0
    BY <1>5
  <2>3. QED
    BY <1>2, <1>4, <2>1, <2>2
<1>6. CASE q # <<>>
  <2>1. Len(q) \in Nat \ {0} /\ q[1] \in Inst /\ q[Len(q)] \in Inst
    BY <1>6, EmptySeq, LenProperties, ElementOfSeq
  <2> DEFINE behind == left[q[Len(q)]]
  <2>2. /\ behind \in Int /\ left[q[1]] \in Int
        /\ \A n \in 1..Len(q) : left[q[n]] \in Int /\ left[q[n]] <= behind
    <3>1. \A n \in 1..Len(q) : q[n] \in Inst
      BY ElementOfSeq
    <3>2. \A m, n \in 1..Len(q) : m <= n => left[q[m]] <= left[q[n]]
      BY <1>1, <1>2 DEF TimingInv, Sorted
    <3>3. Len(q) \in 1..Len(q) /\ \A n \in 1..Len(q) : n <= Len(q)
      BY <2>1
    <3>4. QED
      BY <1>1, <2>1, <3>1, <3>2, <3>3
  <2>3. behind >= 0
    <3>1. left[Front(q)] >= 0
      BY <1>1, <1>2, <1>3, <1>6 DEF TimingInv, HeadsAhead, Running
    <3>2. 1 \in 1..Len(q)
      BY <2>1
    <3>3. left[q[1]] <= behind
      BY <2>2, <3>2
    <3>4. QED
      BY <2>2, <3>1, <3>3 DEF Front
  <2>4. left'[i] = behind + cyc[i] - Overlapped(i, behind)
    BY <1>3, <1>6 DEF FinishTime
  <2>5. Overlapped(i, behind) \in Nat /\ Overlapped(i, behind) <= behind /\ Overlapped(i, behind) <= cyc[i]
    BY <1>4, <2>2, <2>3 DEF Overlapped
  <2> HIDE DEF behind
  <2>6. left'[i] >= cyc[i] /\ left'[i] >= behind /\ left'[i] \in Int
    <3>1. \A b, c, o \in Int : o <= b /\ o <= c => b + c - o >= c /\ b + c - o >= b /\ b + c - o \in Int
      OBVIOUS
    <3>2. behind \in Int /\ cyc[i] \in Int /\ Overlapped(i, behind) \in Int
      BY <1>4, <2>2, <2>5
    <3>3. QED
      BY <2>4, <2>5, <3>1, <3>2
  <2>7. ASSUME NEW n \in 1..Len(q) PROVE left'[i] >= left[q[n]]
    <3>1. left[q[n]] \in Int /\ left[q[n]] <= behind /\ behind \in Int
      BY <2>2
    <3>2. QED
      BY <2>6, <3>1
  <2>8. QED
    BY <1>2, <2>6, <2>7
<1>7. QED
  BY <1>5, <1>6

\* A step that leaves the pipelines and their times alone
LEMMA TimingFrame ==
  ASSUME TimingInv, UNCHANGED <<pipe, left>>, \A i \in Inst : cyc'[i] \in {Cycles[i], 0},
         phase' = "dma" => phase = "dma" \/ \A u \in Unit : pipe[u] # <<>> => left[Front(pipe[u])] >= 1,
         phase' = "issue" => phase = "issue"
  PROVE  TimingInv'
BY DEF TimingInv, Sorted, HeadsAhead

\* Core::compute_cycle takes heads off.
LEMMA RetireComputeTiming ==
  ASSUME TypeInv, TimingInv, NEW u \in Unit, RetireCompute(u)
  PROVE  TimingInv'
<1>1. /\ pipe' = [pipe EXCEPT ![u] = Tail(@)] /\ pipe[u] # <<>> /\ phase = "compute"
      /\ UNCHANGED <<phase, left, cyc>>
  BY Zenon DEF RetireCompute, Elapsed, Running
<1>2. pipe \in [Unit -> Seq(Inst)]
  BY DEF TypeInv, PipeType
<1>3. ASSUME NEW v \in Unit PROVE Sorted(pipe[v])'
  <2>1. CASE v = u
    <3>1. PICK q \in Seq(Inst) : q = pipe[u]
      BY <1>2
    <3>2. pipe'[v] = Tail(q) /\ q # <<>> /\ Sorted(q)
      BY <1>1, <1>2, <2>1, <3>1 DEF TimingInv
    <3>3. /\ Len(q) \in Nat \ {0} /\ Len(Tail(q)) = Len(q) - 1
          /\ \A n \in 1..Len(Tail(q)) : Tail(q)[n] = q[n + 1]
      BY <3>2, HeadTailProperties, EmptySeq, LenProperties
    <3>4. ASSUME NEW m \in 1..Len(Tail(q)), NEW n \in 1..Len(Tail(q)), m <= n
          PROVE  left[Tail(q)[m]] <= left[Tail(q)[n]]
      <4>1. m + 1 \in 1..Len(q) /\ n + 1 \in 1..Len(q) /\ m + 1 <= n + 1
        BY <3>3, <3>4
      <4>2. left[q[m + 1]] <= left[q[n + 1]]
        BY <3>2, <4>1 DEF Sorted
      <4>3. QED
        BY <3>3, <4>2
    <3>5. QED
      BY <1>1, <3>2, <3>4 DEF Sorted
  <2>2. CASE v # u
    BY <1>1, <1>2, <2>2 DEF TimingInv, Sorted
  <2>3. QED
    BY <2>1, <2>2
<1>4. QED
  BY <1>1, <1>3 DEF TimingInv, HeadsAhead

\* _core_cycle moves on for all that is in a pipeline.
LEMMA TickTiming ==
  ASSUME TypeInv, TimingInv, Tick, phase = "dma", phase' = "issue", UNCHANGED <<pipe, cyc>>
  PROVE  TimingInv'
<1>1. pipe \in [Unit -> Seq(Inst)] /\ left \in [Inst -> Int]
  BY DEF TypeInv, PipeType
<1>2. ASSUME NEW u \in Unit, NEW n \in 1..Len(pipe[u])
      PROVE  left'[pipe[u][n]] = left[pipe[u][n]] - 1 /\ left[pipe[u][n]] \in Int
  <2>1. pipe[u][n] \in Inst /\ InPipe(pipe[u][n])
    BY <1>1, ElementOfSeq DEF InPipe, Holds
  <2>2. QED
    BY <1>1, <2>1 DEF Tick
<1>3. ASSUME NEW u \in Unit, NEW m \in 1..Len(pipe[u]), NEW n \in 1..Len(pipe[u]), m <= n
      PROVE  left'[pipe[u][m]] <= left'[pipe[u][n]]
  <2>1. left[pipe[u][m]] <= left[pipe[u][n]]
    BY <1>3 DEF TimingInv, Sorted
  <2>2. QED
    BY <1>2, <2>1
<1>4. ASSUME NEW u \in Unit, pipe[u] # <<>> PROVE left'[Front(pipe[u])] >= 0
  <2>1. 1 \in 1..Len(pipe[u])
    BY <1>1, <1>4, EmptySeq, LenProperties
  <2>2. left[pipe[u][1]] >= 1
    BY <1>4 DEF TimingInv, HeadsAhead, Front
  <2>3. QED
    BY <1>2, <2>1, <2>2 DEF Front
<1>5. QED
  BY <1>3, <1>4 DEF TimingInv, Sorted, HeadsAhead

\* A COMP joins its pipeline behind all the others.
LEMMA IssueComputeTiming ==
  ASSUME TypeInv, FlowInv, TimingInv, NEW i \in Inst, IssueCompute(i)
  PROVE  TimingInv'
<1>1. Target(i) \in Unit /\ pipe \in [Unit -> Seq(Inst)] /\ left \in [Inst -> Int]
  BY PipelineType DEF TypeInv, PipeType
<1>2. /\ pipe' = [pipe EXCEPT ![Target(i)] = Append(@, i)] /\ cyc' = cyc /\ phase' = "cache"
      /\ \A j \in Inst \ {i} : left'[j] = left[j]
  BY <1>1 DEF IssueCompute
<1>3. ~InPipe(i)
  <2>1. At(i) = {"ready"}
    BY WithoutHeadKeeps DEF IssueCompute
  <2>2. QED
    BY <2>1, AtPlace
<1>4. ASSUME NEW u \in Unit, NEW n \in 1..Len(pipe[u])
      PROVE  pipe[u][n] \in Inst /\ left'[pipe[u][n]] = left[pipe[u][n]]
  <2>1. pipe[u][n] \in Inst /\ pipe[u][n] # i
    BY <1>1, <1>3, ElementOfSeq DEF InPipe, Holds
  <2>2. QED
    BY <1>2, <2>1
<1>5. ASSUME NEW u \in Unit PROVE Sorted(pipe[u])'
  <2>1. Sorted(pipe[u])
    BY DEF TimingInv
  <2>2. CASE u # Target(i)
    <3>1. pipe'[u] = pipe[u]
      BY <1>1, <1>2, <2>2
    <3>2. QED
      BY <1>4, <2>1, <3>1 DEF Sorted
  <2>3. CASE u = Target(i)
    <3>1. PICK q \in Seq(Inst) : q = pipe[u]
      BY <1>1
    <3>2. pipe'[u] = Append(q, i)
      BY <1>1, <1>2, <2>3, <3>1
    <3>3. /\ Len(q) \in Nat /\ Len(Append(q, i)) = Len(q) + 1
          /\ \A n \in 1..Len(q) : Append(q, i)[n] = q[n]
          /\ Append(q, i)[Len(q) + 1] = i
      BY AppendProperties, LenProperties
    <3>4. ASSUME NEW m \in 1..Len(q) + 1, NEW n \in 1..Len(q) + 1, m <= n
          PROVE  left'[Append(q, i)[m]] <= left'[Append(q, i)[n]]
      <4>1. CASE n \in 1..Len(q)
        <5>1. m \in 1..Len(q)
          BY <3>3, <3>4, <4>1
        <5>2. left[q[m]] <= left[q[n]]
          BY <2>1, <3>1, <3>4, <4>1, <5>1 DEF Sorted
        <5>3. QED
          BY <1>4, <3>1, <3>3, <4>1, <5>1, <5>2
      <4>2. CASE n = Len(q) + 1
        <5>1. left' \in [Inst -> Int]
          BY TypeIssue DEF TypeInv, PipeType, Issue
        <5>2. CASE m = Len(q) + 1
          BY <3>3, <4>2, <5>1, <5>2
        <5>3. CASE m \in 1..Len(q)
          <6>1. left'[i] >= left[q[m]] /\ left'[q[m]] = left[q[m]] /\ q[m] \in Inst
            BY <1>4, <2>3, <3>1, <5>3, OverlapTiming
          <6>2. QED
            BY <1>1, <3>3, <4>2, <5>1, <5>3, <6>1
        <5>4. QED
          BY <3>3, <5>2, <5>3
      <4>3. QED
        BY <3>3, <4>1, <4>2
    <3>5. QED
      BY <3>2, <3>3, <3>4 DEF Sorted
  <2>4. QED
    BY <2>2, <2>3
<1>6. QED
  BY <1>2, <1>5 DEF TimingInv, HeadsAhead

\* Every step keeps the timing invariant.
LEMMA TimingStep ==
  TypeInv /\ FlowInv /\ TimingInv /\ [Next]_vars => TimingInv'
<1> SUFFICES ASSUME TypeInv, FlowInv, TimingInv, [Next]_vars PROVE TimingInv'
  OBVIOUS
<1>1. CASE UNCHANGED <<pipeVars, phase>>
  BY <1>1, TimingFrame DEF pipeVars, TimingInv
<1>2. CASE UNCHANGED pipeVars /\ phase' \notin {"dma", "issue"}
  BY <1>2, TimingFrame DEF pipeVars, TimingInv
<1>3. CASE UNCHANGED vars
  BY <1>1, <1>3 DEF vars
<1>4. ASSUME NEW t \in Tile, IssueTile(t) PROVE TimingInv'
  BY <1>1, <1>4 DEF IssueTile
<1>5. CASE PopFinishedTile \/ StartCycle \/ Retire \/ CacheCycle
  BY <1>1, <1>2, <1>5 DEF PopFinishedTile, StartCycle, Retire, CacheCycle
<1>6. ASSUME NEW i \in Inst, PopRequest(i) \/ PushResponse(i) PROVE TimingInv'
  BY <1>1, <1>6 DEF PopRequest, PushResponse
<1>7. CASE Compute
  <2>1. CASE EndCompute
    <3>1. \A u \in Unit : pipe[u] # <<>> => left[Front(pipe[u])] >= 1
      <4> SUFFICES ASSUME NEW u \in Unit, pipe[u] # <<>> PROVE left[Front(pipe[u])] >= 1
        OBVIOUS
      <4>1. ~(left[Front(pipe[u])] <= 0)
        BY <2>1 DEF EndCompute, Elapsed
      <4>2. pipe[u] \in Seq(Inst) /\ left \in [Inst -> Int]
        BY DEF TypeInv, PipeType
      <4>3. PICK i \in Inst : i = Front(pipe[u])
        BY <4>2, FrontTailType
      <4>4. left[i] \in Int
        BY <4>2
      <4>5. QED
        BY <4>1, <4>3, <4>4
    <3>2. UNCHANGED pipeVars /\ phase' = "dma"
      BY <2>1 DEF EndCompute
    <3>3. QED
      BY <3>1, <3>2, TimingFrame DEF pipeVars, TimingInv
  <2>2. QED
    BY <1>7, <2>1, RetireComputeTiming DEF Compute
<1>8. CASE Dma
  <2>1. CASE DmaIdle \/ DmaGenerate
    BY <2>1, TickTiming DEF DmaIdle, DmaGenerate, Drained, Running
  <2>2. CASE DrainSyncLoad \/ WakeWaiter \/ DmaRetire \/ DrainStore \/ DmaTake
    BY <1>1, <2>2, Zenon DEF DrainSyncLoad, WakeWaiter, DmaRetire, DrainStore, DmaTake
  <2>3. CASE DrainAsyncLoad
    BY <1>1, <2>3, Zenon DEF DrainAsyncLoad
  <2>4. QED
    BY <1>8, <2>1, <2>2, <2>3 DEF Dma
<1>9. CASE Issue
  <2>1. ASSUME NEW i \in Inst, IssueCompute(i) PROVE TimingInv'
    BY <2>1, IssueComputeTiming
  <2>2. ASSUME NEW i \in Inst, IssueSparseLoad(i) \/ SkipLoad(i) \/ IssueLoad(i) \/ IssueStore(i)
        PROVE  TimingInv'
    <3>1. UNCHANGED pipeVars /\ phase' = "cache"
      BY <2>2, Zenon DEF IssueSparseLoad, SkipLoad, IssueLoad, IssueStore
    <3>2. QED
      BY <1>2, <3>1
  <2>3. ASSUME NEW i \in Inst, SkipCompute(i) PROVE TimingInv'
    <3>1. UNCHANGED <<phase, pipe, left, cyc>>
      BY <2>3, Zenon DEF SkipCompute
    <3>2. QED
      BY <3>1, TimingFrame DEF TimingInv
  <2>4. ASSUME NEW i \in Inst, IssueBarrier(i) PROVE TimingInv'
    <3>1. UNCHANGED <<pipe, left>> /\ phase' = "cache"
      BY <2>4, IssueBarrierEffect
    <3>2. cyc' = cyc \/ cyc' = [k \in Inst |-> IF k \in SkippedBy(i) THEN 0 ELSE cyc[k]]
      <4>1. tagTable[TagOf[i]] \in TagState
        BY CoreProgram DEF ProgramAssumption, TypeInv, TagType
      <4>2. QED
        BY <2>4, <4>1, Zenon DEF IssueBarrier, TagState
    <3>3. \A k \in Inst : cyc'[k] \in {Cycles[k], 0}
      BY <3>2 DEF TimingInv
    <3>4. QED
      BY <3>1, <3>3, TimingFrame
  <2>5. CASE IssueNone
    BY <1>2, <2>5 DEF IssueNone
  <2>6. QED
    BY <1>9, <2>1, <2>2, <2>3, <2>4, <2>5 DEF Issue
<1>10. QED
  BY <1>3, <1>4, <1>5, <1>6, <1>7, <1>8, <1>9 DEF Next, Cycle, Exited

\* The cycle counts that Core::cycle computes when it issues a COMP never wrap around: the
\* COMP ends after its own cycles and not before those in front of it in its pipeline.
THEOREM PipelineTimingHolds == Spec => PipelineTiming
<1>1. Init => TimingInv
  <2> SUFFICES ASSUME Init PROVE TimingInv
    OBVIOUS
  <2>1. \A u \in Unit : pipe[u] = <<>>
    BY DEF Init
  <2>2. QED
    BY <2>1 DEF Init, TimingInv, Sorted, HeadsAhead
<1>2. TypeInv /\ TimingInv =>
        \A i \in Inst : IssueCompute(i) =>
          /\ left'[i] >= cyc[i]
          /\ \A n \in 1..Len(pipe[Target(i)]) : left'[i] >= left[pipe[Target(i)][n]]
  BY OverlapTiming
<1>3. QED
  BY <1>1, <1>2, TimingStep, TypeCorrect, FlowCorrect, PTL DEF Spec, PipelineTiming

-------------------------------------------------------------------------------
(***************************************************************************)
(* Part 3.  Tags                                                           *)
(*                                                                         *)
(* Tags of DMA transfers and what hangs on them, for every program that    *)
(* uses its tags as the tile graph parser does: no load is waited for in   *)
(* vain, no barrier is finished before its loads, no instruction is ever   *)
(* lost, none of the exits of the core is taken.                           *)
(*                                                                         *)
(* Core.cc relies on the program here.  What it relies on is stated as     *)
(* TagDiscipline and BarrierDiscipline, which the theorems that need them  *)
(* carry as hypotheses; the program that TLC checks satisfies both.        *)
(***************************************************************************)

(* The invariant *)

\* The places of a load that is not over.
Moving == {"ldq", "cur", "waitq", "finq"}

\* Each place holds instructions of its own kind.
KindsRight ==
  \A i \in Inst :
    /\ "pipe" \in At(i) => Op[i] = "COMP"
    /\ At(i) \cap Moving # {} => Op[i] \in {"MOVIN", "MOVOUT"} /\ (Loading(i) => ~IsSparse[i])
    /\ "tag" \in At(i) => Op[i] = "BAR" \/ (AsyncLoad(i) /\ ~IsSparse[i])

\* A tag of a load that is left out never waits for data, and no other tag is ever marked so.
SparseTags ==
  \A i \in Inst : Loading(i) =>
    IF IsSparse[i] THEN tagTable[TagOf[i]] \in {"absent", "sparse"}
                   ELSE tagTable[TagOf[i]] # "sparse"

\* A tag is pending while an asynchronous load of it is out, and only then; a synchronous load
\* leaves its tag pending for ever.
PendingTags ==
  /\ \A m \in Inst : LoadOut(m) => tagTable[TagOf[m]] = "pending"
  /\ \A g \in Tag : tagTable[g] = "pending" =>
       \E m \in Inst : /\ Loading(m) /\ TagOf[m] = g /\ ~IsSparse[m]
                       /\ IsAsync[m] => LoadOut(m)

\* A barrier is over, or about to be, when its tag is set; who stands in the list of waiters
\* and is not over has a tag to come; a load that has issued has registered its tag.
Touched(i) == finished[i] \/ At(i) \ {"ready"} # {}
TagsRespected ==
  \A i \in Inst :
    /\ Op[i] = "BAR" /\ (finished[i] \/ InWake(i)) => tagTable[TagOf[i]] \in {"done", "sparse"}
    /\ InWaiters(i) /\ ~finished[i] /\ ~InWake(i) => tagTable[TagOf[i]] = "pending"
    /\ Loading(i) /\ Touched(i) => tagTable[TagOf[i]] # "absent"

\* An instruction whose turn has come is somewhere until it is finished.
Due(i) == Owner[i] \in arrived /\ readyCtr[i] = 0
Everywhere == \A i \in Inst : Due(i) /\ ~finished[i] => At(i) # {}

TagInv == KindsRight /\ SparseTags /\ PendingTags /\ TagsRespected /\ Everywhere

\* The instructions at the top of a tile leave its ready queue in the order of its body: as long
\* as one of them is in the queue, a later one is in it, further back.
Behind(q, m, k) == \A a \in 1..Len(q) : q[a] = m => \E b \in 1..Len(q) : a < b /\ q[b] = k
RootsInOrder ==
  \A m, k \in Inst : Before(m, k) /\ Parents(m) = {} /\ Parents(k) = {} =>
    Behind(readyQ[Owner[m]], m, k)

-------------------------------------------------------------------------------
(* Steps that leave the tags alone *)

\* A transfer is in one of four places.
LEMMA InFlightAt ==
  ASSUME NEW m
  PROVE  /\ InFlight(m) <=> At(m) \cap Moving # {}
         /\ LoadOut(m) <=> AsyncLoad(m) /\ At(m) \cap Moving # {}
         /\ LoadOut(m)' <=> AsyncLoad(m) /\ At(m)' \cap Moving # {}
         /\ InWake(m) \/ InWaiters(m) <=> "tag" \in At(m)
         /\ InWake(m)' \/ InWaiters(m)' <=> "tag" \in At(m)'
BY AtPlace, AtPlaceNext, LoadOutAt, LoadOutAtNext DEF InFlight, Moving

\* An instruction that the step does not move, except that it may become ready
Stays(j) ==
  /\ finished'[j] = finished[j]
  /\ At(j) \subseteq At(j)' /\ At(j)' \subseteq At(j) \cup {"ready"}
  /\ InWake(j)' <=> InWake(j)

\* What a step that leaves the tags alone may do to an instruction
Goes(j) ==
  /\ At(j) # {} => At(j)' # {} \/ finished'[j]
  /\ finished[j] => finished'[j]
  /\ InWake(j)' => InWake(j)
  /\ InWake(j) => InWake(j)' \/ finished'[j]
  /\ "pipe" \in At(j)' => Op[j] = "COMP"
  /\ At(j)' \cap Moving # {} => At(j) \cap Moving # {} \/ Op[j] = "MOVOUT"
  /\ LoadOut(j) => LoadOut(j)'
  /\ Loading(j) /\ Touched(j)' => Touched(j) \/ tagTable[TagOf[j]] # "absent"
  /\ Op[j] = "BAR" /\ finished'[j] =>
       finished[j] \/ InWake(j) \/ tagTable[TagOf[j]] \in {"done", "sparse"}

\* An instruction that becomes due is somewhere.
DueSomewhere == \A j \in Inst : Due(j)' /\ ~finished'[j] => Due(j) \/ At(j)' # {}

\* With such a fate for each instruction the invariant is kept.
LEMMA TagMoves ==
  ASSUME TagInv, UNCHANGED tagVars, \A j \in Inst : Goes(j), DueSomewhere
  PROVE  TagInv'
<1>1. KindsRight'
  <2> SUFFICES ASSUME NEW i \in Inst
               PROVE  /\ "pipe" \in At(i)' => Op[i] = "COMP"
                      /\ At(i)' \cap Moving # {} =>
                           Op[i] \in {"MOVIN", "MOVOUT"} /\ (Loading(i) => ~IsSparse[i])
                      /\ "tag" \in At(i)' => Op[i] = "BAR" \/ (AsyncLoad(i) /\ ~IsSparse[i])
    BY DEF KindsRight, Loading, AsyncLoad, Moving
  <2>1. InWaiters(i)' <=> InWaiters(i)
    BY DEF InWaiters, tagVars
  <2>2. "tag" \in At(i)' => "tag" \in At(i)
    BY <2>1, InFlightAt DEF Goes
  <2>3. QED
    BY <2>2 DEF TagInv, KindsRight, Goes, Loading
<1>2. SparseTags'
  BY DEF TagInv, SparseTags, Loading, tagVars
<1>3. PendingTags'
  <2>1. ASSUME NEW m \in Inst, LoadOut(m)' PROVE LoadOut(m)
    BY <2>1, InFlightAt DEF Goes, AsyncLoad, Loading
  <2>2. \A m \in Inst : LoadOut(m) => LoadOut(m)'
    BY DEF Goes
  <2>3. QED
    BY <2>1, <2>2 DEF TagInv, PendingTags, tagVars, Loading
<1>4. TagsRespected'
  <2> SUFFICES ASSUME NEW i \in Inst
               PROVE  /\ Op[i] = "BAR" /\ (finished'[i] \/ InWake(i)') => tagTable[TagOf[i]] \in {"done", "sparse"}
                      /\ InWaiters(i)' /\ ~finished'[i] /\ ~InWake(i)' => tagTable[TagOf[i]] = "pending"
                      /\ Loading(i) /\ Touched(i)' => tagTable[TagOf[i]] # "absent"
    BY DEF TagsRespected, tagVars, Loading
  <2>1. InWaiters(i)' <=> InWaiters(i)
    BY DEF InWaiters, tagVars
  <2>2. QED
    BY <2>1 DEF TagInv, TagsRespected, Goes
<1>5. Everywhere'
  <2> SUFFICES ASSUME NEW i \in Inst, Due(i)', ~finished'[i] PROVE At(i)' # {}
    BY DEF Everywhere
  <2>1. Due(i) \/ At(i)' # {}
    BY DEF DueSomewhere
  <2>2. ~finished[i] /\ (At(i) # {} => At(i)' # {})
    BY DEF Goes
  <2>3. QED
    BY <2>1, <2>2 DEF TagInv, Everywhere
<1>6. QED
  BY <1>1, <1>2, <1>3, <1>4, <1>5 DEF TagInv

\* An instruction that is not moved is among those.
LEMMA StaysGoes ==
  ASSUME KindsRight, NEW j \in Inst, Stays(j)
  PROVE  Goes(j)
<1>1. "ready" \notin Moving /\ (LoadOut(j) => LoadOut(j)')
  BY InFlightAt DEF Stays, Moving
<1>2. At(j)' \cap Moving = At(j) \cap Moving /\ At(j)' \ {"ready"} = At(j) \ {"ready"}
  BY <1>1 DEF Stays
<1>3. Touched(j)' <=> Touched(j)
  BY <1>2 DEF Touched, Stays
<1>4. "pipe" \in At(j)' => Op[j] = "COMP"
  BY DEF Stays, KindsRight
<1>5. QED
  BY <1>1, <1>2, <1>3, <1>4 DEF Goes, Stays

\* Every queue but the ready queue as it was
LEMMA StaysWhere ==
  ASSUME NEW j, finished'[j] = finished[j],
         Holds(readyQ[Owner[j]], j) => Holds(readyQ'[Owner[j]], j),
         InPipe(j)' <=> InPipe(j), Holds(ldq', j) <=> Holds(ldq, j), Holds(stq', j) <=> Holds(stq, j),
         j = cur' <=> j = cur, j \in waitq' <=> j \in waitq, Holds(finq', j) <=> Holds(finq, j),
         InWake(j)' <=> InWake(j), InWaiters(j)' <=> InWaiters(j)
  PROVE  Stays(j)
<1>1. ASSUME NEW a \in At(j) PROVE a \in At(j)'
  <2>1. a \in Place
    BY AtPlace
  <2>2. QED
    BY <1>1, <2>1, AtPlace, AtPlaceNext DEF Place
<1>2. ASSUME NEW a \in At(j)', a # "ready" PROVE a \in At(j)
  <2>1. a \in Place
    BY AtPlaceNext
  <2>2. QED
    BY <1>2, <2>1, AtPlace, AtPlaceNext DEF Place
<1>3. QED
  BY <1>1, <1>2 DEF Stays

\* A step that starts no tile and counts no parent makes nothing due.
LEMMA NothingDue ==
  ASSUME UNCHANGED <<arrived, readyCtr>>
  PROVE  DueSomewhere
BY DEF DueSomewhere, Due

\* What becomes due when an instruction is finished has joined its ready queue; and no other
\* instruction is touched.
LEMMA FinishDue ==
  ASSUME TypeInv, FlowInv, NEW i \in Inst, ~finished[i], At(i) # {},
         NEW q, ReadyType(q), \A t \in Tile : Distinct(q[t]),
         \A k \in Inst : Holds(q[Owner[k]], k) => Holds(readyQ[Owner[k]], k),
         Complete(i, q), UNCHANGED arrived
  PROVE  /\ DueSomewhere /\ finished'[i]
         /\ \A k \in Inst \ {i} : finished'[k] = finished[k]
         /\ \A k \in Inst : Holds(q[Owner[k]], k) => Holds(readyQ'[Owner[k]], k)
<1>1. \A k \in Inst : Holds(readyQ'[Owner[k]], k) <=> Holds(q[Owner[k]], k) \/ k \in NewlyReady(i)
  BY CompleteStep DEF FlowInv
<1>2. finished'[i] /\ \A k \in Inst \ {i} : finished'[k] = finished[k]
  BY DEF Complete, TypeInv, FlowType
<1>3. DueSomewhere
  <2> SUFFICES ASSUME NEW j \in Inst, Due(j)', ~Due(j) PROVE At(j)' # {}
    BY DEF DueSomewhere
  <2>1. readyCtr'[j] = 0 /\ readyCtr[j] # 0
    BY DEF Due
  <2>2. readyCtr' = [k \in Inst |-> IF k \in Kids[i] THEN readyCtr[k] - 1 ELSE readyCtr[k]]
    BY DEF Complete
  <2>3. readyCtr[j] \in Int
    BY DEF TypeInv, FlowType
  <2>4. j \in NewlyReady(i)
    BY <2>1, <2>2, <2>3 DEF NewlyReady
  <2>5. QED
    BY <1>1, <2>4, AtPlaceNext
<1>4. QED
  BY <1>1, <1>2, <1>3

\* No instruction but one changes queues; the ready queues are left to the caller.
Others(i) ==
  \A j \in Inst \ {i} :
    /\ InPipe(j)' <=> InPipe(j)
    /\ Holds(ldq', j) <=> Holds(ldq, j)
    /\ Holds(stq', j) <=> Holds(stq, j)
    /\ j = cur' <=> j = cur
    /\ j \in waitq' <=> j \in waitq
    /\ Holds(finq', j) <=> Holds(finq, j)
    /\ InWake(j)' <=> InWake(j)
    /\ InWaiters(j)' <=> InWaiters(j)
Kept(i, q) == \A j \in Inst \ {i} : Holds(readyQ[Owner[j]], j) => Holds(q[Owner[j]], j)

\* A step that finishes an instruction and takes it from its place
LEMMA TagFinish ==
  ASSUME TypeInv, FlowInv, TagInv, UNCHANGED <<arrived, tagTable, waiters>>,
         NEW i \in Inst, ~finished[i], At(i) # {}, Others(i),
         NEW q, ReadyType(q), \A t \in Tile : Distinct(q[t]), Kept(i, q),
         \A k \in Inst : Holds(q[Owner[k]], k) => Holds(readyQ[Owner[k]], k),
         Complete(i, q),
         InWake(i)' => InWake(i), "pipe" \in At(i)' => Op[i] = "COMP",
         At(i)' \cap Moving # {} => At(i) \cap Moving # {},
         LoadOut(i) => LoadOut(i)',
         Loading(i) => At(i) # {"ready"} \/ tagTable[TagOf[i]] # "absent",
         Op[i] = "BAR" => InWake(i) \/ tagTable[TagOf[i]] \in {"done", "sparse"}
  PROVE  TagInv'
<1>1. /\ DueSomewhere /\ finished'[i]
      /\ \A k \in Inst \ {i} : finished'[k] = finished[k]
      /\ \A k \in Inst : Holds(q[Owner[k]], k) => Holds(readyQ'[Owner[k]], k)
  BY FinishDue
<1>2. ASSUME NEW j \in Inst \ {i} PROVE Goes(j)
  <2>1. Stays(j)
    BY <1>1, StaysWhere DEF Others, Kept
  <2>2. QED
    BY <2>1, StaysGoes DEF TagInv
<1>3. Goes(i)
  <2>1. At(i) # {"ready"} => Touched(i)
    BY DEF Touched
  <2>2. QED
    BY <1>1, <2>1 DEF Goes
<1>4. QED
  BY <1>1, <1>2, <1>3, TagMoves DEF tagVars

\* A step that finishes nothing and moves one instruction
LEMMA TagMove ==
  ASSUME FlowInv, TagInv, UNCHANGED <<arrived, readyCtr, finished, tagTable, waiters>>,
         NEW i \in Inst, Others(i), Kept(i, readyQ'), Goes(i)
  PROVE  TagInv'
<1>1. ASSUME NEW j \in Inst \ {i} PROVE Goes(j)
  <2>1. Stays(j)
    BY StaysWhere DEF Others, Kept
  <2>2. QED
    BY <2>1, StaysGoes DEF TagInv
<1>2. DueSomewhere
  BY NothingDue
<1>3. QED
  BY <1>1, <1>2, TagMoves DEF tagVars

\* A step that moves nothing
LEMMA TagQuiet ==
  ASSUME TagInv, UNCHANGED <<arrived, flowVars, pipe, ldq, stq, cur, waitq, finq, wake, tagVars>>
  PROVE  TagInv'
<1>1. ASSUME NEW j \in Inst PROVE Goes(j)
  <2>1. Stays(j)
    BY StaysWhere DEF InPipe, InWake, InWaiters, flowVars, tagVars
  <2>2. QED
    BY <2>1, StaysGoes DEF TagInv
<1>2. DueSomewhere
  BY NothingDue DEF flowVars
<1>3. QED
  BY <1>1, <1>2, TagMoves

\* Core::compute_cycle finishes the head of a pipeline, which is a COMP.
LEMMA RetireComputeTags ==
  ASSUME TypeInv, FlowInv, TagInv, NEW u \in Unit, RetireCompute(u)
  PROVE  TagInv'
<1> USE DEF RetireCompute
<1>1. pipe \in [Unit -> Seq(Inst)] /\ pipe[u] # <<>>
  BY DEF TypeInv, PipeType, Elapsed
<1>2. PICK i \in Inst : i = Front(pipe[u])
  BY <1>1, FrontTailType
<1>3. pipe' = [pipe EXCEPT ![u] = Tail(pipe[u])] /\ FinishInst(i, readyQ)
  BY <1>2
<1>4. UNCHANGED <<arrived, dmaVars, respVars, tagVars>>
  BY DEF tileVars
<1> HIDE DEF RetireCompute
<1>5. /\ \A v \in Unit : Distinct(pipe[v])
      /\ \A v, w \in Unit : \A k \in Inst : Holds(pipe[v], k) /\ Holds(pipe[w], k) => v = w
  BY DEF FlowInv, QueuesDistinct
<1>6. (\A x : Holds(Tail(pipe[u]), x) <=> Holds(pipe[u], x) /\ x # i) /\ Holds(pipe[u], i)
  BY <1>1, <1>2, <1>5, HoldsTail
<1>7. At(i) = {"pipe"} /\ ~finished[i] /\ Op[i] = "COMP"
  <2>1. "pipe" \in At(i)
    BY <1>6, AtPlace DEF InPipe
  <2>2. QED
    BY <1>6, <2>1, OnlyPlace DEF FlowInv, FinishedWhen, Undone, TagInv, KindsRight
<1>8. \A v \in Unit, k \in Inst : Holds(pipe'[v], k) <=> Holds(pipe[v], k) /\ k # i
  BY <1>1, <1>3, <1>5, <1>6
<1>9. Others(i) /\ Kept(i, readyQ)
  BY <1>4, <1>8 DEF Others, Kept, InPipe, InWake, InWaiters, dmaVars, respVars, tagVars
<1>10. Complete(i, readyQ) /\ ~Loading(i) /\ ~LoadOut(i)
  BY <1>3, <1>7 DEF FinishInst, Loading, LoadOut, AsyncLoad
<1>11. ReadyType(readyQ) /\ \A t \in Tile : Distinct(readyQ[t])
  BY DEF TypeInv, FlowType, FlowInv, QueuesDistinct
<1>12. (InWake(i)' => InWake(i)) /\ At(i)' \cap Moving = {}
  <2>1. ~Holds(ldq', i) /\ i # cur' /\ i \notin waitq' /\ ~Holds(finq', i)
    BY <1>4, <1>7, AtPlace DEF dmaVars, respVars
  <2>2. QED
    BY <1>4, <2>1, AtPlaceNext DEF Moving, InWake, respVars
<1>13. QED
  BY <1>4, <1>7, <1>9, <1>10, <1>11, <1>12, TagFinish DEF tagVars

\* The last response of a synchronous load finishes it; no tag speaks of it.
LEMMA DrainSyncLoadTags ==
  ASSUME TypeInv, FlowInv, TagInv, DrainSyncLoad
  PROVE  TagInv'
<1> USE DEF DrainSyncLoad
<1>1. finq \in Seq(Inst) /\ finq # <<>> /\ Distinct(finq)
  BY DEF TypeInv, RespType, FlowInv, QueuesDistinct
<1>2. PICK i \in Inst : i = Front(finq)
  BY <1>1, FrontTailType
<1>3. finq' = Tail(finq) /\ FinishInst(i, readyQ) /\ Loading(i) /\ ~IsAsync[i]
  BY <1>2
<1>4. UNCHANGED <<arrived, pipeVars, dmaVars, waiting, waitq, wake, tagVars>>
  BY DEF tileVars
<1> HIDE DEF DrainSyncLoad
<1>5. (\A x : Holds(finq', x) <=> Holds(finq, x) /\ x # i) /\ Holds(finq, i)
  BY <1>1, <1>2, <1>3, HoldsTail
<1>6. At(i) = {"finq"} /\ ~finished[i]
  <2>1. "finq" \in At(i)
    BY <1>5, AtPlace
  <2>2. ~FinishedByIssue(i)
    BY <1>3 DEF FinishedByIssue, Loading
  <2>3. QED
    BY <2>1, <2>2, OnlyPlace DEF FlowInv, FinishedWhen
<1>7. Others(i) /\ Kept(i, readyQ)
  BY <1>4, <1>5 DEF Others, Kept, InPipe, InWake, InWaiters, pipeVars, dmaVars, tagVars
<1>8. Complete(i, readyQ) /\ ~LoadOut(i) /\ Op[i] # "BAR"
  BY <1>3, <1>6 DEF FinishInst, Loading, LoadOut, AsyncLoad
<1>9. ReadyType(readyQ) /\ \A t \in Tile : Distinct(readyQ[t])
  BY DEF TypeInv, FlowType, FlowInv, QueuesDistinct
<1>10. (InWake(i)' => InWake(i)) /\ "pipe" \notin At(i)' /\ At(i) \cap Moving # {}
  <2>1. ~InPipe(i)'
    BY <1>4, <1>6, AtPlace DEF InPipe, pipeVars
  <2>2. QED
    BY <1>4, <1>6, <2>1, AtPlaceNext DEF Moving, InWake
<1>11. QED
  BY <1>4, <1>6, <1>7, <1>8, <1>9, <1>10, TagFinish DEF tagVars

\* The loop over get_tag_waiter finishes instructions whose tag is set.
LEMMA WakeWaiterTags ==
  ASSUME TypeInv, FlowInv, TagInv, WakeWaiter
  PROVE  TagInv'
<1> USE DEF WakeWaiter
<1>1. wake \in Seq(Inst) /\ wake # <<>> /\ Distinct(wake)
  BY DEF TypeInv, RespType, FlowInv, QueuesDistinct
<1>2. PICK i \in Inst : i = Front(wake)
  BY <1>1, FrontTailType
<1>3. wake' = Tail(wake) /\ FinishInst(i, readyQ)
  BY <1>2
<1>4. UNCHANGED <<arrived, pipeVars, dmaVars, waiting, waitq, finq, tagVars>>
  BY DEF tileVars
<1> HIDE DEF WakeWaiter
<1>5. (\A x : Holds(wake', x) <=> Holds(wake, x) /\ x # i) /\ Holds(wake, i)
  BY <1>1, <1>2, <1>3, HoldsTail
<1>6. At(i) = {"tag"} /\ ~finished[i] /\ InWake(i)
  <2>1. InWake(i)
    BY <1>5 DEF InWake
  <2>2. "tag" \in At(i)
    BY <2>1, AtPlace
  <2>3. QED
    BY <2>1, <2>2, OnlyPlace DEF FlowInv, FinishedWhen
<1>7. Others(i) /\ Kept(i, readyQ)
  BY <1>4, <1>5 DEF Others, Kept, InPipe, InWake, InWaiters, pipeVars, dmaVars, tagVars
<1>8. Complete(i, readyQ)
  BY <1>3, <1>6 DEF FinishInst
<1>9. ReadyType(readyQ) /\ \A t \in Tile : Distinct(readyQ[t])
  BY DEF TypeInv, FlowType, FlowInv, QueuesDistinct
<1>10. ~InWake(i)' /\ "pipe" \notin At(i)' /\ At(i)' \cap Moving = {} /\ ~LoadOut(i)
  <2>1. ~InPipe(i)' /\ ~InWake(i)'
    BY <1>4, <1>5, <1>6, AtPlace DEF InPipe, InWake, pipeVars
  <2>2. ~Holds(ldq', i) /\ i # cur' /\ i \notin waitq' /\ ~Holds(finq', i)
    BY <1>4, <1>6, AtPlace DEF dmaVars
  <2>3. QED
    BY <1>6, <2>1, <2>2, AtPlaceNext, InFlightAt DEF Moving
<1>11. QED
  BY <1>4, <1>6, <1>7, <1>8, <1>9, <1>10, TagFinish DEF tagVars

\* A store that has been answered leaves the engine; it was finished when its requests were out.
LEMMA DrainStoreTags ==
  ASSUME TypeInv, FlowInv, TagInv, DrainStore
  PROVE  TagInv'
<1> USE DEF DrainStore
<1>1. finq \in Seq(Inst) /\ finq # <<>> /\ Distinct(finq)
  BY DEF TypeInv, RespType, FlowInv, QueuesDistinct
<1>2. PICK i \in Inst : i = Front(finq)
  BY <1>1, FrontTailType
<1>3. finq' = Tail(finq) /\ ~Loading(i)
  BY <1>2
<1>4. UNCHANGED <<arrived, flowVars, pipeVars, dmaVars, waiting, waitq, wake, tagVars>>
  BY DEF tileVars
<1> HIDE DEF DrainStore
<1>5. (\A x : Holds(finq', x) <=> Holds(finq, x) /\ x # i) /\ Holds(finq, i)
  BY <1>1, <1>2, <1>3, HoldsTail
<1>6. At(i) = {"finq"} /\ finished[i] /\ Op[i] = "MOVOUT"
  <2>1. "finq" \in At(i)
    BY <1>5, AtPlace
  <2>2. Op[i] = "MOVOUT"
    BY <1>3, <2>1 DEF TagInv, KindsRight, Moving, Loading
  <2>3. QED
    BY <2>1, <2>2, OnlyPlace DEF FlowInv, FinishedWhen, FinishedByIssue
<1>7. Others(i) /\ Kept(i, readyQ')
  BY <1>4, <1>5 DEF Others, Kept, InPipe, InWake, InWaiters, flowVars, pipeVars, dmaVars, tagVars
<1>8. Goes(i)
  <2>1. ~InWake(i) /\ ~InWake(i)' /\ ~InPipe(i)' /\ ~LoadOut(i)
    BY <1>3, <1>4, <1>6, AtPlace DEF InWake, InPipe, pipeVars, LoadOut, AsyncLoad
  <2>2. finished'[i]
    BY <1>4, <1>6 DEF flowVars
  <2>3. QED
    BY <1>6, <2>1, <2>2, AtPlaceNext DEF Goes, Loading
<1>9. QED
  BY <1>4, <1>7, <1>8, TagMove DEF flowVars, tagVars

\* The DMA engine gives up its transfer, which then waits for its responses.
LEMMA DmaRetireTags ==
  ASSUME TypeInv, FlowInv, TagInv, DmaRetire
  PROVE  TagInv'
<1> USE DEF DmaRetire
<1>1. PICK i \in Inst : i = cur
  BY DEF TypeInv, DmaType, LoadInst, StoreInst
<1>2. /\ IF FinishedByIssue(i) THEN FinishInst(i, readyQ) ELSE UNCHANGED <<exited, flowVars>>
      /\ waitq' = waitq \cup {i} /\ cur' = None
  BY <1>1
<1>3. UNCHANGED <<arrived, pipeVars, ldq, stq, waiting, finq, wake, tagVars>>
  BY DEF tileVars
<1> HIDE DEF DmaRetire
<1>4. Op[i] \in {"MOVIN", "MOVOUT"}
  BY <1>1, CoreProgram DEF TypeInv, DmaType, LoadInst, StoreInst, ProgramAssumption
<1>5. At(i) = {"cur"} /\ ~finished[i]
  <2>1. "cur" \in At(i)
    BY <1>1, AtPlace
  <2>2. QED
    BY <2>1, OnlyPlace DEF FlowInv, FinishedWhen, Undone
<1>6. Others(i)
  BY <1>1, <1>2, <1>3, CoreProgram
  DEF Others, InPipe, InWake, InWaiters, pipeVars, tagVars, ProgramAssumption
<1>7. "waitq" \in At(i)' /\ ~InWake(i)' /\ ~InWake(i) /\ ~InPipe(i)'
  BY <1>2, <1>3, <1>5, AtPlace, AtPlaceNext DEF InWake, InPipe, pipeVars
<1>8. (LoadOut(i) => LoadOut(i)') /\ "pipe" \notin At(i)' /\ At(i) \cap Moving # {} /\ At(i) # {"ready"}
  BY <1>5, <1>7, AtPlaceNext, InFlightAt DEF Moving
<1>9. CASE FinishedByIssue(i)
  <2>1. Complete(i, readyQ)
    BY <1>2, <1>5, <1>9 DEF FinishInst
  <2>2. ReadyType(readyQ) /\ \A t \in Tile : Distinct(readyQ[t])
    BY DEF TypeInv, FlowType, FlowInv, QueuesDistinct
  <2>3. QED
    BY <1>3, <1>4, <1>5, <1>6, <1>7, <1>8, <2>1, <2>2, TagFinish DEF Kept, tagVars
<1>10. CASE ~FinishedByIssue(i)
  <2>1. UNCHANGED <<exited, flowVars>>
    BY <1>2, <1>10
  <2>2. Kept(i, readyQ')
    BY <2>1 DEF Kept, flowVars
  <2>3. Goes(i)
    <3>1. ~finished'[i] /\ Touched(i) /\ At(i)' # {}
      BY <1>5, <1>7, <2>1 DEF flowVars, Touched
    <3>2. QED
      BY <1>5, <1>7, <1>8, <3>1 DEF Goes
  <2>4. QED
    BY <1>3, <1>6, <2>1, <2>2, <2>3, TagMove DEF flowVars, tagVars
<1>11. QED
  BY <1>9, <1>10

\* The engine takes a transfer from one of its queues.
LEMMA DmaTakeTags ==
  ASSUME TypeInv, FlowInv, TagInv, DmaTake
  PROVE  TagInv'
<1> USE DEF DmaTake
<1>1. cur = None /\ None \notin Inst
  BY CoreProgram DEF ProgramAssumption
<1>2. UNCHANGED <<arrived, flowVars, pipeVars, waiting, waitq, finq, wake, tagVars>>
  BY DEF tileVars, respVars
<1>3. /\ ldq \in Seq(Inst) /\ stq \in Seq(Inst) /\ Distinct(ldq) /\ Distinct(stq)
      /\ \A x : Holds(stq, x) => Op[x] = "MOVOUT"
  BY DEF TypeInv, DmaType, LoadInst, StoreInst, FlowInv, QueuesDistinct, Holds
<1>4. \E i \in Inst : /\ cur' = i /\ Others(i)
                      /\ At(i) \in {{"ldq"}, {"stq"}} /\ (At(i) = {"stq"} => Op[i] = "MOVOUT")
  <2>1. CASE ldq # <<>> /\ cur' = Front(ldq) /\ ldq' = Tail(ldq) /\ UNCHANGED stq
    <3>1. PICK i \in Inst : i = Front(ldq)
      BY <1>3, <2>1, FrontTailType
    <3>2. (\A x : Holds(ldq', x) <=> Holds(ldq, x) /\ x # i) /\ Holds(ldq, i)
      BY <1>3, <2>1, <3>1, HoldsTail
    <3>3. At(i) = {"ldq"}
      <4>1. "ldq" \in At(i)
        BY <3>2, AtPlace
      <4>2. QED
        BY <4>1, OnlyPlace DEF FlowInv
    <3>4. Others(i)
      BY <1>1, <1>2, <2>1, <3>1, <3>2 DEF Others, InPipe, InWake, InWaiters, pipeVars, tagVars
    <3>5. QED
      BY <2>1, <3>1, <3>3, <3>4
  <2>2. CASE stq # <<>> /\ cur' = Front(stq) /\ stq' = Tail(stq) /\ UNCHANGED ldq
    <3>1. PICK i \in Inst : i = Front(stq)
      BY <1>3, <2>2, FrontTailType
    <3>2. (\A x : Holds(stq', x) <=> Holds(stq, x) /\ x # i) /\ Holds(stq, i)
      BY <1>3, <2>2, <3>1, HoldsTail
    <3>3. At(i) = {"stq"}
      <4>1. "stq" \in At(i)
        BY <3>2, AtPlace
      <4>2. QED
        BY <4>1, OnlyPlace DEF FlowInv
    <3>4. Others(i)
      BY <1>1, <1>2, <2>2, <3>1, <3>2 DEF Others, InPipe, InWake, InWaiters, pipeVars, tagVars
    <3>5. QED
      BY <1>3, <2>2, <3>1, <3>2, <3>3, <3>4
  <2>3. QED
    BY <2>1, <2>2
<1> HIDE DEF DmaTake
<1>5. PICK i \in Inst : /\ cur' = i /\ Others(i)
                        /\ At(i) \in {{"ldq"}, {"stq"}} /\ (At(i) = {"stq"} => Op[i] = "MOVOUT")
  BY <1>4
<1>6. "cur" \in At(i)' /\ ~InWake(i) /\ ~InWake(i)' /\ "pipe" \notin At(i)'
  BY <1>2, <1>5, AtPlace, AtPlaceNext DEF InWake, InPipe, pipeVars
<1>7. At(i) \cap Moving # {} \/ Op[i] = "MOVOUT"
  BY <1>5 DEF Moving
<1>8. Touched(i) /\ finished' = finished /\ (LoadOut(i) => LoadOut(i)')
  BY <1>2, <1>5, <1>6, InFlightAt DEF Touched, flowVars, Moving
<1>9. Goes(i)
  BY <1>6, <1>7, <1>8 DEF Goes
<1>10. Kept(i, readyQ')
  BY <1>2 DEF Kept, flowVars
<1>11. QED
  BY <1>2, <1>5, <1>9, <1>10, TagMove DEF flowVars, tagVars

\* A response is counted; the last one moves its transfer on.
LEMMA PushResponseTags ==
  ASSUME TypeInv, FlowInv, TagInv, NEW i \in Inst, PushResponse(i)
  PROVE  TagInv'
<1> USE DEF PushResponse
<1>1. UNCHANGED <<arrived, flowVars, pipeVars, dmaVars, wake, tagVars, exited>>
  BY DEF tileVars
<1>2. finq \in Seq(Inst)
  BY DEF TypeInv, RespType
<1>3. CASE i \in waitq /\ waitq' = waitq \ {i} /\ finq' = Append(finq, i)
  <2>1. At(i) = {"waitq"}
    <3>1. "waitq" \in At(i)
      BY <1>3, AtPlace
    <3>2. QED
      BY <3>1, OnlyPlace DEF FlowInv
  <2>2. \A x : Holds(finq', x) <=> Holds(finq, x) \/ x = i
    BY <1>2, <1>3, HoldsAppend
  <2>3. Others(i) /\ Kept(i, readyQ')
    BY <1>1, <1>3, <2>2 DEF Others, Kept, InPipe, InWake, InWaiters, flowVars, pipeVars, dmaVars, tagVars
  <2>4. "finq" \in At(i)' /\ ~InWake(i) /\ ~InWake(i)' /\ "pipe" \notin At(i)'
    BY <1>1, <2>1, <2>2, AtPlace, AtPlaceNext DEF InWake, InPipe, pipeVars
  <2>5. Touched(i) /\ finished' = finished /\ (LoadOut(i) => LoadOut(i)') /\ At(i) \cap Moving # {}
    BY <1>1, <2>1, <2>4, InFlightAt DEF Touched, flowVars, Moving
  <2>6. Goes(i)
    BY <2>4, <2>5 DEF Goes
  <2>7. QED
    BY <1>1, <2>3, <2>6, TagMove DEF flowVars, tagVars
<1>4. CASE UNCHANGED <<waitq, finq>>
  BY <1>1, <1>4, TagQuiet DEF pipeVars, dmaVars
<1>5. QED
  BY <1>3, <1>4

\* A tile arrives, and its instructions without parents are due and ready.
LEMMA IssueTileTags ==
  ASSUME TypeInv, FlowInv, TagInv, NEW t \in Tile, IssueTile(t)
  PROVE  TagInv'
<1> USE CoreProgram DEF ProgramAssumption, IssueTile
<1>1. PICK order \in Orders(Roots(t)) : readyQ' = [readyQ EXCEPT ![t] = @ \o order]
  OBVIOUS
<1>2. /\ arrived' = arrived \cup {t}
      /\ UNCHANGED <<readyCtr, finished, pipeVars, dmaVars, respVars, tagVars>>
  OBVIOUS
<1> HIDE DEF IssueTile
<1>3. IsFiniteSet(Roots(t)) /\ Roots(t) \subseteq Inst
  BY FS_Subset DEF Roots
<1>4. (\A k : Holds(order, k) <=> k \in Roots(t)) /\ order \in Seq(Inst)
  BY <1>3, HoldsOrder, OrdersType
<1>5. readyQ \in [Tile -> Seq(Inst)]
  BY DEF TypeInv, FlowType, ReadyType
<1>6. /\ \A k : Holds(readyQ'[t], k) <=> Holds(readyQ[t], k) \/ k \in Roots(t)
      /\ \A s \in Tile \ {t} : readyQ'[s] = readyQ[s]
  <2>1. readyQ'[t] = readyQ[t] \o order /\ \A s \in Tile \ {t} : readyQ'[s] = readyQ[s]
    BY <1>1, <1>5
  <2>2. QED
    BY <1>4, <1>5, <2>1, HoldsConcat
<1>7. ASSUME NEW j \in Inst PROVE Goes(j)
  <2>1. Holds(readyQ[Owner[j]], j) => Holds(readyQ'[Owner[j]], j)
    BY <1>6
  <2>2. Stays(j)
    BY <1>2, <2>1, StaysWhere DEF InPipe, InWake, InWaiters, pipeVars, dmaVars, respVars, tagVars
  <2>3. QED
    BY <2>2, StaysGoes DEF TagInv
<1>8. DueSomewhere
  <2> SUFFICES ASSUME NEW j \in Inst, Due(j)', ~Due(j) PROVE At(j)' # {}
    BY DEF DueSomewhere
  <2>1. j \in Roots(t) /\ Owner[j] = t
    BY <1>2 DEF Due, Roots
  <2>2. QED
    BY <1>6, <2>1, AtPlaceNext
<1>9. QED
  BY <1>2, <1>7, <1>8, TagMoves

-------------------------------------------------------------------------------
(* Steps of the issue stage *)

\* A store or a COMP joins its queue.
LEMMA IssueIntoTags ==
  ASSUME TypeInv, FlowInv, TagInv, NEW i \in Inst, Issuing(i), Erase(i),
         UNCHANGED <<tileVars, ldq, cur, respVars, tagVars>>,
         \/ /\ Op[i] = "MOVOUT" /\ \A j \in Inst : InPipe(j)' <=> InPipe(j)
            /\ \A j \in Inst : Holds(stq', j) <=> Holds(stq, j) \/ j = i
         \/ /\ Op[i] = "COMP" /\ \A j \in Inst : InPipe(j)' <=> InPipe(j) \/ j = i
            /\ stq' = stq
  PROVE  TagInv'
<1>1. /\ At(i) = {"ready"} /\ ~finished[i]
      /\ \A k \in Inst : Holds(WithoutHead(i)[Owner[k]], k) <=> Holds(readyQ[Owner[k]], k) /\ k # i
  BY WithoutHeadKeeps
<1>2. readyQ' = WithoutHead(i) /\ UNCHANGED <<readyCtr, finished, nrFinished>>
  BY DEF Erase
<1>3. Others(i) /\ Kept(i, readyQ')
  BY <1>1, <1>2 DEF Others, Kept, InWake, InWaiters, respVars, tagVars
<1>4. ~InWake(i) /\ ~InWake(i)' /\ At(i)' \cap Moving = {} /\ ~LoadOut(i)
  <2>1. ~Holds(ldq', i) /\ i # cur' /\ i \notin waitq' /\ ~Holds(finq', i)
    BY <1>1, AtPlace DEF respVars
  <2>2. QED
    BY <1>1, <2>1, AtPlace, AtPlaceNext, InFlightAt DEF Moving, InWake, respVars
<1>5. At(i)' # {} /\ ("pipe" \in At(i)' => Op[i] = "COMP")
  BY <1>1, AtPlace, AtPlaceNext
<1>6. Goes(i)
  BY <1>1, <1>2, <1>4, <1>5 DEF Goes, Loading
<1>7. QED
  BY <1>2, <1>3, <1>6, TagMove DEF tileVars, tagVars

\* A store is queued for the engine.
LEMMA IssueStoreTags ==
  ASSUME TypeInv, FlowInv, TagInv, NEW i \in Inst, IssueStore(i)
  PROVE  TagInv'
<1> USE DEF IssueStore
<1>1. \A x : Holds(stq', x) <=> Holds(stq, x) \/ x = i
  <2>1. stq \in Seq(Inst)
    BY DEF TypeInv, DmaType, StoreInst
  <2>2. QED
    BY <2>1, HoldsAppend
<1>2. UNCHANGED <<tileVars, pipe, ldq, cur, respVars, tagVars>>
  BY DEF pipeVars
<1>3. QED
  BY <1>1, <1>2, IssueIntoTags DEF InPipe

\* A COMP joins its pipeline.
LEMMA IssueComputeTags ==
  ASSUME TypeInv, FlowInv, TagInv, NEW i \in Inst, IssueCompute(i)
  PROVE  TagInv'
<1> USE DEF IssueCompute
<1>1. Target(i) \in Unit /\ pipe \in [Unit -> Seq(Inst)]
  BY PipelineType DEF TypeInv, PipeType
<1>2. \A v \in Unit : \A x \in Inst : Holds(pipe'[v], x) <=> Holds(pipe[v], x) \/ (v = Target(i) /\ x = i)
  <2> TAKE v \in Unit
  <2>1. CASE v = Target(i)
    BY <1>1, <2>1, HoldsAppend
  <2>2. CASE v # Target(i)
    BY <1>1, <2>2
  <2>3. QED
    BY <2>1, <2>2
<1>3. \A j \in Inst : InPipe(j)' <=> InPipe(j) \/ j = i
  BY <1>1, <1>2 DEF InPipe
<1>4. UNCHANGED <<tileVars, ldq, stq, cur, respVars, tagVars>>
  BY DEF dmaVars
<1>5. QED
  BY <1>3, <1>4, IssueIntoTags

\* The instruction that issues finishes at once, and its tag, if it has one, is set.
LEMMA IssueFinishTags ==
  ASSUME TypeInv, FlowInv, TagInv, NEW i \in Inst, Issuing(i), Complete(i, WithoutHead(i)),
         UNCHANGED <<tileVars, pipe, ldq, stq, cur, respVars, tagVars>>,
         Loading(i) => tagTable[TagOf[i]] # "absent",
         Op[i] = "BAR" => tagTable[TagOf[i]] \in {"done", "sparse"}
  PROVE  TagInv'
<1>1. /\ At(i) = {"ready"} /\ ~finished[i]
      /\ ReadyType(WithoutHead(i))
      /\ \A t \in Tile : Distinct(WithoutHead(i)[t])
      /\ \A k \in Inst : Holds(WithoutHead(i)[Owner[k]], k) <=> Holds(readyQ[Owner[k]], k) /\ k # i
  BY WithoutHeadKeeps
<1>2. Others(i) /\ Kept(i, WithoutHead(i))
  BY <1>1 DEF Others, Kept, InPipe, InWake, InWaiters, respVars, tagVars
<1>3. ~InWake(i)' /\ At(i)' \cap Moving = {} /\ ~LoadOut(i) /\ "pipe" \notin At(i)'
  <2>1. ~Holds(ldq', i) /\ i # cur' /\ i \notin waitq' /\ ~Holds(finq', i) /\ ~InPipe(i)'
    BY <1>1, AtPlace DEF respVars, InPipe
  <2>2. QED
    BY <1>1, <2>1, AtPlace, AtPlaceNext, InFlightAt DEF Moving, InWake, respVars
<1>4. QED
  BY <1>1, <1>2, <1>3, TagFinish DEF tileVars, tagVars

\* A COMP of zero cycles
LEMMA SkipComputeTags ==
  ASSUME TypeInv, FlowInv, TagInv, NEW i \in Inst, SkipCompute(i)
  PROVE  TagInv'
<1>1. /\ Issuing(i) /\ Complete(i, WithoutHead(i)) /\ Op[i] = "COMP"
      /\ UNCHANGED <<tileVars, pipe, ldq, stq, cur, respVars, tagVars>>
  BY Zenon DEF SkipCompute, dmaVars
<1>2. QED
  BY <1>1, IssueFinishTags DEF Loading

\* The instruction that issues waits for its tag, which the load of the tag will set.
LEMMA IssueWaitTags ==
  ASSUME TypeInv, FlowInv, TagInv, NEW i \in Inst, Issuing(i), Erase(i), WaitForTag(i),
         UNCHANGED <<tileVars, pipe, ldq, stq, cur, respVars>>,
         tagTable[TagOf[i]] = "pending", Op[i] = "BAR" \/ (AsyncLoad(i) /\ ~IsSparse[i])
  PROVE  TagInv'
<1>1. /\ At(i) = {"ready"} /\ ~finished[i]
      /\ \A k \in Inst : Holds(WithoutHead(i)[Owner[k]], k) <=> Holds(readyQ[Owner[k]], k) /\ k # i
  BY WithoutHeadKeeps
<1>2. /\ readyQ' = WithoutHead(i) /\ UNCHANGED <<arrived, readyCtr, finished, nrFinished>>
      /\ waiters' = [waiters EXCEPT ![TagOf[i]] = Append(@, i)] /\ tagTable' = tagTable
      /\ wake' = wake
  BY DEF Erase, WaitForTag, respVars, tileVars
<1>3. waiters \in [Tag -> Seq(Inst)] /\ TagOf[i] \in Tag
  BY CoreProgram DEF TypeInv, TagType, ProgramAssumption
<1>4. \A j \in Inst : InWaiters(j)' <=> InWaiters(j) \/ j = i
  <2> TAKE j \in Inst
  <2>1. TagOf[j] \in Tag
    BY CoreProgram DEF ProgramAssumption
  <2>2. CASE TagOf[j] = TagOf[i]
    BY <1>2, <1>3, <2>1, <2>2, HoldsAppend DEF InWaiters
  <2>3. CASE TagOf[j] # TagOf[i]
    BY <1>2, <1>3, <2>1, <2>3 DEF InWaiters
  <2>4. QED
    BY <2>2, <2>3
<1>5. /\ \A j \in Inst : InWake(j)' <=> InWake(j)
      /\ \A j \in Inst \ {i} : Stays(j)
  <2>1. \A j \in Inst : (InWake(j)' <=> InWake(j)) /\ (InPipe(j)' <=> InPipe(j))
    BY <1>2 DEF InWake, InPipe
  <2>2. QED
    BY <1>1, <1>2, <1>4, <2>1, StaysWhere DEF respVars
<1>6. At(i)' = {"tag"} /\ ~InWake(i)
  <2>1. ~InPipe(i)' /\ ~Holds(ldq', i) /\ ~Holds(stq', i) /\ i # cur' /\ i \notin waitq' /\ ~Holds(finq', i)
    BY <1>1, AtPlace DEF InPipe, respVars
  <2>2. ~Holds(readyQ'[Owner[i]], i) /\ ~InWake(i)
    BY <1>1, <1>2, AtPlace DEF InWake
  <2>3. QED
    BY <1>4, <2>1, <2>2, AtPlaceNext DEF Place
<1>7. \A m \in Inst : At(m)' \cap Moving = At(m) \cap Moving
  <2>1. "ready" \notin Moving /\ "tag" \notin Moving
    BY DEF Moving
  <2>2. QED
    BY <1>1, <1>5, <1>6, <2>1 DEF Stays
<1>8. \A m \in Inst : LoadOut(m)' <=> LoadOut(m)
  BY <1>7, InFlightAt
<1>9. KindsRight'
  <2> SUFFICES ASSUME NEW j \in Inst
               PROVE  /\ "pipe" \in At(j)' => Op[j] = "COMP"
                      /\ "tag" \in At(j)' => Op[j] = "BAR" \/ (AsyncLoad(j) /\ ~IsSparse[j])
    BY <1>7 DEF KindsRight, Loading, AsyncLoad, Moving, TagInv
  <2>1. QED
    BY <1>5, <1>6 DEF TagInv, KindsRight, Stays
<1>10. SparseTags' /\ PendingTags'
  BY <1>2, <1>8 DEF TagInv, SparseTags, PendingTags, Loading
<1>11. TagsRespected'
  <2> SUFFICES ASSUME NEW j \in Inst
               PROVE  /\ Op[j] = "BAR" /\ (finished[j] \/ InWake(j)) => tagTable[TagOf[j]] \in {"done", "sparse"}
                      /\ InWaiters(j)' /\ ~finished[j] /\ ~InWake(j) => tagTable[TagOf[j]] = "pending"
                      /\ Loading(j) /\ Touched(j)' => tagTable[TagOf[j]] # "absent"
    BY <1>2, <1>5 DEF TagsRespected, Loading
  <2>1. CASE j = i
    BY <1>1, <1>6, <2>1
  <2>2. CASE j # i
    <3>1. Touched(j)' => Touched(j)
      BY <1>5, <2>2 DEF Touched, Stays
    <3>2. QED
      BY <1>4, <2>2, <3>1 DEF TagInv, TagsRespected
  <2>3. QED
    BY <2>1, <2>2
<1>12. Everywhere'
  <2> SUFFICES ASSUME NEW j \in Inst, Due(j)', ~finished'[j] PROVE At(j)' # {}
    BY DEF Everywhere
  <2>1. Due(j) /\ ~finished[j]
    BY <1>2 DEF Due
  <2>2. QED
    BY <1>5, <1>6, <2>1 DEF Stays, TagInv, Everywhere
<1>13. QED
  BY <1>9, <1>10, <1>11, <1>12 DEF TagInv

\* An asynchronous load of a tag that is known finishes or waits for the tag.
LEMMA SkipLoadTags ==
  ASSUME TypeInv, FlowInv, TagInv, NEW i \in Inst, SkipLoad(i)
  PROVE  TagInv'
<1> USE DEF SkipLoad
<1>1. UNCHANGED <<tileVars, pipe, ldq, stq, cur, respVars>> /\ AsyncLoad(i) /\ ~IsSparse[i]
  BY DEF pipeVars, dmaVars, AsyncLoad, Loading, AlreadyLoaded
<1>2. CASE tagTable[TagOf[i]] = "pending"
  BY <1>1, <1>2, IssueWaitTags
<1>3. CASE tagTable[TagOf[i]] # "pending"
  <2>1. ~finished[i]
    BY WithoutHeadKeeps
  <2>2. Complete(i, WithoutHead(i))
    BY <1>3, <2>1 DEF FinishInst
  <2>3. UNCHANGED tagVars /\ tagTable[TagOf[i]] # "absent"
    BY <1>3 DEF AlreadyLoaded
  <2>4. QED
    BY <1>1, <2>2, <2>3, IssueFinishTags
<1>4. QED
  BY <1>2, <1>3

\* A barrier finishes when its tag is set, waits for it, or ends the process.
LEMMA IssueBarrierTags ==
  ASSUME TypeInv, FlowInv, TagInv, NEW i \in Inst, IssueBarrier(i)
  PROVE  TagInv'
<1>1. /\ Issuing(i) /\ Op[i] = "BAR" /\ ~Loading(i)
      /\ UNCHANGED <<tileVars, pipe, ldq, stq, cur, respVars>>
  BY IssueBarrierEffect DEF dmaVars, Loading
<1>2. CASE UNCHANGED <<flowVars, tagVars, cyc>>
  BY <1>1, <1>2, TagQuiet DEF tileVars, respVars
<1>3. CASE /\ tagTable[TagOf[i]] = "sparse" \/ tagTable[TagOf[i]] = "done"
           /\ FinishInst(i, WithoutHead(i)) /\ UNCHANGED tagVars
  <2>1. ~finished[i]
    BY <1>1, WithoutHeadKeeps
  <2>2. Complete(i, WithoutHead(i))
    BY <1>3, <2>1 DEF FinishInst
  <2>3. QED
    BY <1>1, <1>3, <2>2, IssueFinishTags
<1>4. CASE tagTable[TagOf[i]] = "pending" /\ WaitForTag(i) /\ Erase(i)
  BY <1>1, <1>4, IssueWaitTags
<1>5. QED
  BY <1>2, <1>3, <1>4, IssueBarrierEffect

\* The load of a tag is over: the tag is set and its waiters are visited.
LEMMA DrainAsyncLoadTags ==
  ASSUME TagDiscipline, TypeInv, FlowInv, TagInv, DrainAsyncLoad
  PROVE  TagInv'
<1> USE CoreProgram DEF ProgramAssumption
<1>1. finq \in Seq(Inst) /\ finq # <<>> /\ Distinct(finq) /\ wake = <<>>
  BY DrainAsyncLoadEffect DEF TypeInv, RespType, FlowInv, QueuesDistinct
<1>2. PICK f \in Inst : f = Front(finq)
  BY <1>1, FrontTailType
<1>3. /\ finq' = Tail(finq) /\ AsyncLoad(f)
      /\ wake' = waiters[TagOf[f]] /\ tagTable' = [tagTable EXCEPT ![TagOf[f]] = "done"]
  BY <1>2, DrainAsyncLoadEffect DEF AsyncLoad
<1>4. UNCHANGED <<arrived, flowVars, pipeVars, dmaVars, waiting, waitq, waiters>>
  BY DrainAsyncLoadEffect DEF tileVars
<1>5. (\A x : Holds(finq', x) <=> Holds(finq, x) /\ x # f) /\ Holds(finq, f)
  BY <1>1, <1>2, <1>3, HoldsTail
<1>6. At(f) = {"finq"} /\ LoadOut(f) /\ finished[f] /\ ~IsSparse[f]
  <2>1. "finq" \in At(f)
    BY <1>5, AtPlace
  <2>2. LoadOut(f) /\ Loading(f)
    BY <1>3, <2>1, InFlightAt DEF Moving, AsyncLoad
  <2>3. FinishedByIssue(f)
    BY <1>3 DEF FinishedByIssue, AsyncLoad
  <2>4. QED
    BY <2>1, <2>2, <2>3, OnlyPlace DEF FlowInv, FinishedWhen, TagInv, KindsRight, Moving
<1>7. tagTable[TagOf[f]] = "pending"
  BY <1>6 DEF TagInv, PendingTags
<1>8. /\ \A g \in Tag \ {TagOf[f]} : tagTable'[g] = tagTable[g]
      /\ tagTable'[TagOf[f]] = "done"
  BY <1>3 DEF TypeInv, TagType
<1>9. ASSUME NEW j \in Inst
      PROVE  /\ InWaiters(j)' <=> InWaiters(j)
             /\ InWake(j)' <=> InWaiters(j) /\ TagOf[j] = TagOf[f]
             /\ ~InWake(j)
  <2>1. InWaiters(j)' <=> InWaiters(j)
    BY <1>4 DEF InWaiters
  <2>2. InWake(j)' <=> Holds(waiters[TagOf[f]], j)
    BY <1>3 DEF InWake
  <2>3. Holds(waiters[TagOf[f]], j) => TagOf[j] = TagOf[f]
    BY DEF FlowInv, QueuesDistinct
  <2>4. ~InWake(j)
    BY <1>1, HoldsEmpty DEF InWake
  <2>5. QED
    BY <2>1, <2>2, <2>3, <2>4 DEF InWaiters
<1>10. \A j \in Inst \ {f} : At(j)' = At(j)
  <2> TAKE j \in Inst \ {f}
  <2>1. /\ readyQ' = readyQ /\ ldq' = ldq /\ stq' = stq /\ cur' = cur /\ waitq' = waitq
        /\ InPipe(j)' <=> InPipe(j)
        /\ Holds(finq', j) <=> Holds(finq, j)
        /\ InWake(j)' \/ InWaiters(j)' <=> InWake(j) \/ InWaiters(j)
    BY <1>4, <1>5, <1>9 DEF flowVars, dmaVars, InPipe, pipeVars
  <2>2. \A a \in Place : a \in At(j)' <=> a \in At(j)
    BY <2>1, AtPlace, AtPlaceNext DEF Place
  <2>3. QED
    BY <2>2, AtPlace, AtPlaceNext
<1>11. At(f)' = {}
  <2>1. /\ ~Holds(readyQ'[Owner[f]], f) /\ ~Holds(ldq', f) /\ ~Holds(stq', f) /\ f # cur' /\ f \notin waitq'
        /\ ~InPipe(f)' /\ ~Holds(finq', f) /\ ~InWake(f)' /\ ~InWaiters(f)'
    BY <1>4, <1>5, <1>6, <1>9, AtPlace DEF flowVars, dmaVars, InPipe, pipeVars
  <2>2. QED
    BY <2>1, AtPlaceNext DEF Place
<1>12. finished' = finished /\ UNCHANGED <<arrived, readyCtr>>
  BY <1>4 DEF flowVars
<1>13. KindsRight'
  <2> SUFFICES ASSUME NEW i \in Inst
               PROVE  /\ "pipe" \in At(i)' => Op[i] = "COMP"
                      /\ At(i)' \cap Moving # {} =>
                           Op[i] \in {"MOVIN", "MOVOUT"} /\ (Loading(i) => ~IsSparse[i])
                      /\ "tag" \in At(i)' => Op[i] = "BAR" \/ (AsyncLoad(i) /\ ~IsSparse[i])
    BY DEF KindsRight, Loading, AsyncLoad, Moving
  <2>1. QED
    BY <1>10, <1>11 DEF TagInv, KindsRight
<1>14. SparseTags'
  <2> SUFFICES ASSUME NEW i \in Inst, Loading(i)
               PROVE  IF IsSparse[i] THEN tagTable'[TagOf[i]] \in {"absent", "sparse"}
                                     ELSE tagTable'[TagOf[i]] # "sparse"
    BY DEF SparseTags, Loading
  <2>1. CASE TagOf[i] = TagOf[f]
    <3>1. ~IsSparse[i]
      BY <1>3, <1>6, <2>1 DEF TagDiscipline, AsyncLoad
    <3>2. QED
      BY <1>8, <2>1, <3>1
  <2>2. CASE TagOf[i] # TagOf[f]
    BY <1>8, <2>2 DEF TagInv, SparseTags
  <2>3. QED
    BY <2>1, <2>2
<1>15. PendingTags'
  <2>1. ASSUME NEW m \in Inst PROVE LoadOut(m)' <=> LoadOut(m) /\ m # f
    BY <1>10, <1>11, InFlightAt
  <2>2. ASSUME NEW m \in Inst, LoadOut(m), m # f PROVE TagOf[m] # TagOf[f]
    BY <1>6, <2>2 DEF FlowInv, OneLoadOut
  <2>3. \A m \in Inst : LoadOut(m)' => tagTable'[TagOf[m]] = "pending"
    BY <1>8, <2>1, <2>2 DEF TagInv, PendingTags
  <2>4. ASSUME NEW g \in Tag, tagTable'[g] = "pending"
        PROVE  \E m \in Inst : /\ Loading(m) /\ TagOf[m] = g /\ ~IsSparse[m]
                               /\ IsAsync[m] => LoadOut(m)'
    <3>1. g # TagOf[f] /\ tagTable[g] = "pending"
      BY <1>8, <2>4
    <3>2. PICK m \in Inst : Loading(m) /\ TagOf[m] = g /\ ~IsSparse[m] /\ (IsAsync[m] => LoadOut(m))
      BY <3>1 DEF TagInv, PendingTags
    <3>3. QED
      BY <2>1, <3>1, <3>2
  <2>5. QED
    BY <2>3, <2>4 DEF PendingTags, Loading
<1>16. TagsRespected'
  <2> SUFFICES ASSUME NEW i \in Inst
               PROVE  /\ Op[i] = "BAR" /\ (finished[i] \/ InWake(i)') => tagTable'[TagOf[i]] \in {"done", "sparse"}
                      /\ InWaiters(i)' /\ ~finished[i] /\ ~InWake(i)' => tagTable'[TagOf[i]] = "pending"
                      /\ Loading(i) /\ Touched(i)' => tagTable'[TagOf[i]] # "absent"
    BY <1>12 DEF TagsRespected, Loading
  <2>1. CASE TagOf[i] = TagOf[f]
    BY <1>8, <1>9, <2>1
  <2>2. CASE TagOf[i] # TagOf[f]
    <3>1. i # f /\ tagTable'[TagOf[i]] = tagTable[TagOf[i]] /\ (Touched(i)' <=> Touched(i))
      BY <1>8, <1>10, <1>12, <2>2 DEF Touched
    <3>2. QED
      BY <1>9, <2>2, <3>1 DEF TagInv, TagsRespected
  <2>3. QED
    BY <2>1, <2>2
<1>17. Everywhere'
  <2> SUFFICES ASSUME NEW i \in Inst, Due(i)', ~finished'[i] PROVE At(i)' # {}
    BY DEF Everywhere
  <2>1. i # f /\ Due(i) /\ ~finished[i]
    BY <1>6, <1>12 DEF Due
  <2>2. QED
    BY <1>10, <2>1 DEF TagInv, Everywhere
<1>18. QED
  BY <1>13, <1>14, <1>15, <1>16, <1>17 DEF TagInv

\* A load that issues registers its tag, and DMA::register_tag forgets who waited for it: by
\* the discipline nobody did who is not finished.
LEMMA RegisterTags ==
  ASSUME TagDiscipline, TypeInv, FlowInv, TagInv,
         NEW i \in Inst, Loading(i), Issuing(i), NEW st, RegisterTag(TagOf[i], st),
         UNCHANGED <<pipe, stq, cur, respVars>>, DueSomewhere,
         \A j \in Inst \ {i} :
           /\ finished'[j] = finished[j]
           /\ Holds(ldq', j) <=> Holds(ldq, j)
           /\ Holds(readyQ[Owner[j]], j) => Holds(readyQ'[Owner[j]], j),
         \A j \in Inst : InWaiters(j) /\ TagOf[j] = TagOf[i] => finished[j],
         \/ st = "sparse" /\ IsSparse[i] /\ finished'[i] /\ ldq' = ldq
         \/ /\ st = "pending" /\ ~IsSparse[i] /\ ~finished'[i] /\ Holds(ldq', i)
            /\ IsAsync[i] => tagTable[TagOf[i]] = "absent"
  PROVE  TagInv'
<1>0. \A j \in Inst : TagOf[j] \in Tag /\ IsAsync[j] \in BOOLEAN /\ IsSparse[j] \in BOOLEAN
  BY CoreProgram DEF ProgramAssumption
<1>1. At(i) = {"ready"} /\ ~finished[i]
  BY WithoutHeadKeeps
<1>2. /\ tagTable'[TagOf[i]] = st
      /\ \A g \in Tag \ {TagOf[i]} : tagTable'[g] = tagTable[g]
      /\ waiters'[TagOf[i]] = <<>>
      /\ \A g \in Tag \ {TagOf[i]} : waiters'[g] = waiters[g]
      /\ wake = <<>> /\ wake' = <<>>
  BY <1>0 DEF RegisterTag, TypeInv, TagType, FlowInv, WakeInDma, Issuing, Running, respVars
<1>3. ASSUME NEW j \in Inst
      PROVE  /\ ~InWake(j) /\ ~InWake(j)'
             /\ InWaiters(j)' <=> InWaiters(j) /\ TagOf[j] # TagOf[i]
  <2>1. ~InWake(j) /\ ~InWake(j)'
    BY <1>2, HoldsEmpty DEF InWake
  <2>2. CASE TagOf[j] = TagOf[i]
    BY <1>0, <1>2, <2>1, <2>2, HoldsEmpty DEF InWaiters
  <2>3. CASE TagOf[j] # TagOf[i]
    BY <1>0, <1>2, <2>1, <2>3 DEF InWaiters
  <2>4. QED
    BY <2>2, <2>3
<1>4. ASSUME NEW j \in Inst \ {i}
      PROVE  /\ At(j)' \subseteq At(j) \cup {"ready"}
             /\ \A a \in At(j) : a # "tag" => a \in At(j)'
             /\ At(j)' \cap Moving = At(j) \cap Moving
  <2>1. /\ InPipe(j)' <=> InPipe(j)
        /\ waitq' = waitq /\ finq' = finq
        /\ "tag" \in At(j)' => "tag" \in At(j)
    BY <1>3, InFlightAt DEF InPipe, respVars
  <2>2. \A a \in Place : a # "ready" /\ a \in At(j)' => a \in At(j)
    BY <2>1, AtPlace, AtPlaceNext DEF Place
  <2>3. \A a \in Place : a # "tag" /\ a \in At(j) => a \in At(j)'
    BY <2>1, AtPlace, AtPlaceNext DEF Place
  <2>4. Moving \subseteq Place /\ "ready" \notin Moving /\ "tag" \notin Moving
    BY DEF Moving, Place
  <2>5. /\ \A a \in At(j) : a \in Place
        /\ \A a \in At(j)' : a \in Place
    BY AtPlace, AtPlaceNext
  <2>6. At(j)' \subseteq At(j) \cup {"ready"}
    BY <2>2, <2>5
  <2>7. \A a \in At(j) : a # "tag" => a \in At(j)'
    BY <2>3, <2>5
  <2>8. At(j)' \cap Moving = At(j) \cap Moving
    BY <2>4, <2>6, <2>7
  <2>9. QED
    BY <2>6, <2>7, <2>8
<1>5. /\ At(i)' \subseteq {"ready", "ldq"}
      /\ "ldq" \in At(i)' <=> st = "pending"
  <2>1. ~InPipe(i)' /\ ~Holds(stq', i) /\ i # cur' /\ i \notin waitq' /\ ~Holds(finq', i)
    BY <1>1, AtPlace DEF InPipe, respVars
  <2>2. ~InWake(i)' /\ ~InWaiters(i)' /\ (ldq' = ldq => ~Holds(ldq', i))
    BY <1>1, <1>3, AtPlace
  <2>3. QED
    BY <2>1, <2>2, AtPlaceNext DEF Place
<1>6. \A j \in Inst \ {i} : (LoadOut(j)' <=> LoadOut(j)) /\ (Touched(j)' => Touched(j))
  BY <1>4, InFlightAt DEF Touched
<1>7. ~LoadOut(i) /\ (LoadOut(i)' => st = "pending") /\ (IsAsync[i] /\ st = "pending" => LoadOut(i)')
  <2>1. ~LoadOut(i)
    BY <1>1, InFlightAt DEF Moving
  <2>2. LoadOut(i)' <=> IsAsync[i] /\ st = "pending"
    BY <1>5, InFlightAt DEF Moving, AsyncLoad
  <2>3. QED
    BY <2>1, <2>2
<1>8. KindsRight'
  <2> SUFFICES ASSUME NEW j \in Inst
               PROVE  /\ "pipe" \in At(j)' => Op[j] = "COMP"
                      /\ At(j)' \cap Moving # {} =>
                           Op[j] \in {"MOVIN", "MOVOUT"} /\ (Loading(j) => ~IsSparse[j])
                      /\ "tag" \in At(j)' => Op[j] = "BAR" \/ (AsyncLoad(j) /\ ~IsSparse[j])
    BY DEF KindsRight, Loading, AsyncLoad, Moving
  <2>1. CASE j = i
    BY <1>5, <2>1 DEF Loading, Moving
  <2>2. CASE j # i
    BY <1>4, <2>2 DEF TagInv, KindsRight
  <2>3. QED
    BY <2>1, <2>2
<1>9. SparseTags'
  <2> SUFFICES ASSUME NEW j \in Inst, Loading(j)
               PROVE  IF IsSparse[j] THEN tagTable'[TagOf[j]] \in {"absent", "sparse"}
                                     ELSE tagTable'[TagOf[j]] # "sparse"
    BY DEF SparseTags, Loading
  <2>1. CASE TagOf[j] = TagOf[i]
    <3>1. IsSparse[j] = IsSparse[i]
      BY <2>1 DEF TagDiscipline
    <3>2. QED
      BY <1>2, <2>1, <3>1
  <2>2. CASE TagOf[j] # TagOf[i]
    BY <1>0, <1>2, <2>2 DEF TagInv, SparseTags
  <2>3. QED
    BY <2>1, <2>2
<1>10. PendingTags'
  <2>1. ASSUME NEW m \in Inst, LoadOut(m)' PROVE tagTable'[TagOf[m]] = "pending"
    <3>1. CASE m = i
      BY <1>2, <1>7, <2>1, <3>1
    <3>2. CASE m # i /\ TagOf[m] # TagOf[i]
      BY <1>0, <1>2, <1>6, <2>1, <3>2 DEF TagInv, PendingTags
    <3>3. CASE m # i /\ TagOf[m] = TagOf[i]
      <4>1. Loading(m) /\ ~IsSparse[m]
        BY <1>6, <2>1, <3>3, InFlightAt DEF AsyncLoad, TagInv, KindsRight
      <4>2. ~IsSparse[i]
        BY <3>3, <4>1 DEF TagDiscipline
      <4>3. QED
        BY <1>2, <3>3, <4>2
    <3>4. QED
      BY <3>1, <3>2, <3>3
  <2>2. ASSUME NEW g \in Tag, tagTable'[g] = "pending"
        PROVE  \E m \in Inst : /\ Loading(m) /\ TagOf[m] = g /\ ~IsSparse[m]
                               /\ IsAsync[m] => LoadOut(m)'
    <3>1. CASE g = TagOf[i]
      BY <1>2, <1>7, <2>2, <3>1
    <3>2. CASE g # TagOf[i]
      <4>1. PICK m \in Inst : Loading(m) /\ TagOf[m] = g /\ ~IsSparse[m] /\ (IsAsync[m] => LoadOut(m))
        BY <1>2, <2>2, <3>2 DEF TagInv, PendingTags
      <4>2. QED
        BY <1>6, <3>2, <4>1
    <3>3. QED
      BY <3>1, <3>2
  <2>3. QED
    BY <2>1, <2>2 DEF PendingTags, Loading
<1>11. TagsRespected'
  <2> SUFFICES ASSUME NEW j \in Inst
               PROVE  /\ Op[j] = "BAR" /\ finished'[j] => tagTable'[TagOf[j]] \in {"done", "sparse"}
                      /\ InWaiters(j)' /\ ~finished'[j] => tagTable'[TagOf[j]] = "pending"
                      /\ Loading(j) /\ Touched(j)' => tagTable'[TagOf[j]] # "absent"
    BY <1>3 DEF TagsRespected, Loading
  <2>1. CASE j = i
    BY <1>1, <1>2, <1>3, <2>1, AtPlace DEF Loading
  <2>2. CASE j # i /\ TagOf[j] # TagOf[i]
    BY <1>0, <1>2, <1>3, <1>6, <2>2 DEF TagInv, TagsRespected
  <2>3. CASE j # i /\ TagOf[j] = TagOf[i]
    <3>1. ASSUME Op[j] = "BAR", finished'[j] PROVE st # "pending"
      <4>1. tagTable[TagOf[i]] \in {"done", "sparse"}
        BY <2>3, <3>1 DEF TagInv, TagsRespected
      <4>2. IsAsync[i] \/ IsSparse[i]
        BY <2>3, <3>1 DEF TagDiscipline
      <4>3. QED
        BY <4>1, <4>2
    <3>2. QED
      BY <1>2, <1>3, <2>3, <3>1
  <2>4. QED
    BY <2>1, <2>2, <2>3
<1>12. Everywhere'
  <2> SUFFICES ASSUME NEW j \in Inst, Due(j)', ~finished'[j] PROVE At(j)' # {}
    BY DEF Everywhere
  <2>1. CASE j = i
    BY <1>5, <2>1
  <2>2. CASE j # i
    <3>1. ~finished[j] /\ (Due(j) \/ At(j)' # {})
      BY <2>2 DEF DueSomewhere
    <3>2. Due(j) => At(j) # {}
      BY <3>1 DEF TagInv, Everywhere
    <3>3. CASE \E a \in At(j) : a # "tag"
      BY <1>4, <2>2, <3>3
    <3>4. CASE "tag" \in At(j)
      <4>1. InWaiters(j) /\ TagOf[j] # TagOf[i]
        BY <1>3, <3>1, <3>4, InFlightAt
      <4>2. QED
        BY <1>3, <4>1, InFlightAt
    <3>5. QED
      BY <3>1, <3>2, <3>3, <3>4
  <2>3. QED
    BY <2>1, <2>2
<1>13. QED
  BY <1>8, <1>9, <1>10, <1>11, <1>12 DEF TagInv

\* A load that sparsity leaves out marks its tag and is finished.
LEMMA IssueSparseLoadTags ==
  ASSUME TagDiscipline, TypeInv, FlowInv, TagInv, NEW i \in Inst, IssueSparseLoad(i)
  PROVE  TagInv'
<1> USE DEF IssueSparseLoad
<1>1. /\ At(i) = {"ready"} /\ ~finished[i]
      /\ ReadyType(WithoutHead(i))
      /\ \A t \in Tile : Distinct(WithoutHead(i)[t])
      /\ \A k \in Inst : Holds(WithoutHead(i)[Owner[k]], k) <=> Holds(readyQ[Owner[k]], k) /\ k # i
  BY WithoutHeadKeeps
<1>2. Complete(i, WithoutHead(i)) /\ UNCHANGED arrived
  BY <1>1 DEF FinishInst, tileVars
<1>3. /\ DueSomewhere /\ finished'[i]
      /\ \A k \in Inst \ {i} : finished'[k] = finished[k]
      /\ \A k \in Inst : Holds(WithoutHead(i)[Owner[k]], k) => Holds(readyQ'[Owner[k]], k)
  BY <1>1, <1>2, FinishDue
<1>4. UNCHANGED <<pipe, ldq, stq, cur, respVars>> /\ Loading(i) /\ IsSparse[i] /\ Issuing(i)
  BY DEF pipeVars, dmaVars, Loading
<1>5. RegisterTag(TagOf[i], "sparse")
  OBVIOUS
<1>6. ASSUME NEW j \in Inst, InWaiters(j), TagOf[j] = TagOf[i] PROVE finished[j]
  <2>1. tagTable[TagOf[i]] # "pending"
    BY <1>4 DEF TagInv, SparseTags
  <2>2. wake = <<>>
    BY DEF FlowInv, WakeInDma, Issuing, Running
  <2>3. ~InWake(j)
    BY <2>2, HoldsEmpty DEF InWake
  <2>4. QED
    BY <1>6, <2>1, <2>3 DEF TagInv, TagsRespected
<1> HIDE DEF IssueSparseLoad
<1>7. QED
  BY <1>1, <1>3, <1>4, <1>5, <1>6, RegisterTags

\* A load is queued for the engine.
LEMMA IssueLoadTags ==
  ASSUME TagDiscipline, TypeInv, FlowInv, TagInv, NEW i \in Inst, IssueLoad(i)
  PROVE  TagInv'
<1> USE DEF IssueLoad
<1>1. /\ At(i) = {"ready"} /\ ~finished[i]
      /\ \A k \in Inst : Holds(WithoutHead(i)[Owner[k]], k) <=> Holds(readyQ[Owner[k]], k) /\ k # i
  BY WithoutHeadKeeps
<1>2. readyQ' = WithoutHead(i) /\ UNCHANGED <<arrived, readyCtr, finished>>
  BY DEF Erase, tileVars
<1>3. \A x : Holds(ldq', x) <=> Holds(ldq, x) \/ x = i
  <2>1. ldq \in Seq(Inst)
    BY DEF TypeInv, DmaType, LoadInst
  <2>2. QED
    BY <2>1, HoldsAppend
<1>4. DueSomewhere
  BY <1>2, NothingDue
<1>5. UNCHANGED <<pipe, stq, cur, respVars>> /\ Loading(i) /\ ~IsSparse[i] /\ Issuing(i)
  BY DEF pipeVars, Loading
<1>6. RegisterTag(TagOf[i], "pending") /\ (IsAsync[i] => tagTable[TagOf[i]] = "absent")
  BY DEF AlreadyLoaded
<1> HIDE DEF IssueLoad
<1>7. ASSUME NEW j \in Inst, InWaiters(j), TagOf[j] = TagOf[i] PROVE finished[j]
  <2>1. wake = <<>>
    BY <1>5 DEF FlowInv, WakeInDma, Issuing, Running
  <2>2. ~InWake(j)
    BY <2>1, HoldsEmpty DEF InWake
  <2>3. ~finished[j] => tagTable[TagOf[i]] = "pending"
    BY <1>7, <2>2 DEF TagInv, TagsRespected
  <2>4. Op[j] = "BAR" \/ AsyncLoad(j)
    BY <1>7, InFlightAt DEF TagInv, KindsRight
  <2>5. IsAsync[i]
    BY <1>5, <1>7, <2>4 DEF TagDiscipline, AsyncLoad
  <2>6. QED
    BY <1>6, <2>3, <2>5
<1>8. QED
  BY <1>1, <1>2, <1>3, <1>4, <1>5, <1>6, <1>7, RegisterTags

-------------------------------------------------------------------------------
(* The tags are right in every reachable state, and what follows from it *)

\* Every step of the core and of its callers keeps the tag invariant.
LEMMA TagStep ==
  TagDiscipline /\ TypeInv /\ FlowInv /\ TagInv /\ [Next]_vars => TagInv'
<1> SUFFICES ASSUME TagDiscipline, TypeInv, FlowInv, TagInv, [Next]_vars PROVE TagInv'
  OBVIOUS
<1>1. ASSUME NEW i \in Inst, PushResponse(i) PROVE TagInv'
  BY <1>1, PushResponseTags
<1>2. ASSUME NEW u \in Unit, RetireCompute(u) PROVE TagInv'
  BY <1>2, RetireComputeTags
<1>3. CASE DrainSyncLoad \/ DrainAsyncLoad \/ WakeWaiter \/ DrainStore \/ DmaRetire \/ DmaTake
  BY <1>3, DrainSyncLoadTags, DrainAsyncLoadTags, WakeWaiterTags, DrainStoreTags, DmaRetireTags,
     DmaTakeTags
<1>4. ASSUME NEW i \in Inst,
             \/ IssueSparseLoad(i) \/ SkipLoad(i) \/ IssueLoad(i) \/ IssueStore(i)
             \/ IssueCompute(i) \/ SkipCompute(i) \/ IssueBarrier(i)
      PROVE  TagInv'
  BY <1>4, IssueSparseLoadTags, SkipLoadTags, IssueLoadTags, IssueStoreTags, IssueComputeTags,
     SkipComputeTags, IssueBarrierTags
<1>5. ASSUME NEW t \in Tile, IssueTile(t) PROVE TagInv'
  BY <1>5, IssueTileTags
<1>6. CASE /\ ~ \E i \in Inst : PushResponse(i)
           /\ ~ \E u \in Unit : RetireCompute(u)
           /\ ~DrainSyncLoad /\ ~DrainAsyncLoad /\ ~WakeWaiter /\ ~DrainStore /\ ~DmaRetire /\ ~DmaTake
           /\ ~ \E i \in Inst : \/ IssueSparseLoad(i) \/ SkipLoad(i) \/ IssueLoad(i) \/ IssueStore(i)
                                \/ IssueCompute(i) \/ SkipCompute(i) \/ IssueBarrier(i)
           /\ ~ \E t \in Tile : IssueTile(t)
  <2>1. UNCHANGED flow
    BY <1>6, QuietFlowSteps DEF FlowInv
  <2>2. QED
    BY <2>1, TagQuiet DEF flow
<1>7. QED
  BY <1>1, <1>2, <1>3, <1>4, <1>5, <1>6

\* At first no tag is known and no instruction is due.
LEMMA TagInit == Init => TagInv
<1> SUFFICES ASSUME Init PROVE TagInv
  OBVIOUS
<1>1. \A i \in Inst : At(i) = {} /\ ~finished[i]
  <2>1. ASSUME NEW i \in Inst PROVE ~finished[i]
    BY DEF Init
  <2>2. \A i \in Inst : ~Started(i) \/ Owner[i] \in arrived
    BY FlowInit DEF FlowInv, NotTooEarly
  <2>3. QED
    BY <2>1, <2>2 DEF Started, Init
<1>2. \A i \in Inst : ~InWake(i) /\ ~InWaiters(i) /\ ~LoadOut(i)
  BY <1>1, InFlightAt
<1>3. \A g \in Tag : tagTable[g] = "absent"
  BY DEF Init
<1>4. \A i \in Inst : TagOf[i] \in Tag
  BY CoreProgram DEF ProgramAssumption
<1>5. KindsRight /\ TagsRespected
  BY <1>1, <1>2 DEF KindsRight, TagsRespected, Touched
<1>6. SparseTags /\ PendingTags
  BY <1>2, <1>3, <1>4 DEF SparseTags, PendingTags
<1>7. Everywhere
  BY DEF Everywhere, Due, Init
<1>8. QED
  BY <1>5, <1>6, <1>7 DEF TagInv

\* A tag is pending exactly as long as a load of it is out, who waits for it waits for that
\* load, and no instruction of a tile the core has accepted is nowhere.
THEOREM TagsCorrect == Spec /\ TagDiscipline => []TagInv
<1>1. TagDiscipline /\ [Next]_vars => TagDiscipline'
  BY DEF TagDiscipline, Loading
<1>2. QED
  BY <1>1, TagInit, TagStep, TypeCorrect, FlowCorrect, PTL DEF Spec

\* A load of a tag that is set, or that is left out, has nothing left to do.
LEMMA SetTagMeansDone ==
  ASSUME TagDiscipline, TrafficInv, FlowInv, TagInv, NEW b \in Inst, Op[b] = "BAR",
         tagTable[TagOf[b]] \in {"done", "sparse"},
         NEW m \in Inst, Loading(m), TagOf[m] = TagOf[b]
  PROVE  TransferDone(m)
<1>1. IsAsync[m] \/ IsSparse[m]
  BY DEF TagDiscipline
<1>2. ~LoadOut(m)
  BY DEF TagInv, PendingTags
<1>3. At(m) \cap Moving = {}
  BY <1>1, <1>2, InFlightAt DEF TagInv, KindsRight, AsyncLoad
<1>4. ~Holds(ldq, m) /\ m # cur /\ m \notin waitq
  BY <1>3, AtPlace DEF Moving
<1>5. waiting[m] \in Nat
  BY WaitingNat DEF TrafficInv
<1>6. waiting[m] = 0
  BY <1>4, <1>5 DEF TrafficInv, NoLostCompletion
<1>7. QED
  BY <1>4, <1>6 DEF TransferDone

\* Instructions finish in the order of the dependencies of their tile, and a barrier not before
\* the loads of its tag have all their data.
THEOREM FinishInOrderHolds == Spec /\ TagDiscipline => []FinishInOrder
<1>1. TagDiscipline /\ TrafficInv /\ FlowInv /\ TagInv /\ ParentsFirst /\ SyncLoadsDone => FinishInOrder
  <2> SUFFICES ASSUME TagDiscipline, TrafficInv, FlowInv, TagInv, SyncLoadsDone,
                      NEW b \in Inst, NEW m \in Inst, Op[b] = "BAR", finished[b],
                      Loading(m), TagOf[m] = TagOf[b]
               PROVE  TransferDone(m)
    BY DEF FinishInOrder, DataBeforeUse, SyncLoadsDone
  <2>1. tagTable[TagOf[b]] \in {"done", "sparse"}
    BY DEF TagInv, TagsRespected
  <2>2. QED
    BY <2>1, SetTagMeansDone
<1>2. TagDiscipline /\ [Next]_vars => TagDiscipline'
  BY DEF TagDiscipline, Loading
<1>3. QED
  BY <1>1, <1>2, TrafficCorrect, FlowCorrect, TagsCorrect, ParentsFirstHolds, SyncLoadsAreDone, PTL
  DEF Spec

\* No instruction falls out of the core's hands: what is not finished waits for a parent, is in
\* a queue the core visits, or waits for a tag whose load is out and will set it.
THEOREM NothingForgottenHolds == Spec /\ TagDiscipline => []NothingForgotten
<1>1. TagDiscipline /\ TypeInv /\ FlowInv /\ TagInv => NothingForgotten
  <2> SUFFICES ASSUME TagDiscipline, TypeInv, FlowInv, TagInv,
                      NEW i \in Inst, Owner[i] \in arrived, ~finished[i], ~(readyCtr[i] > 0)
               PROVE  \/ Holds(readyQ[Owner[i]], i)
                      \/ InFlight(i) \/ Holds(stq, i) \/ InPipe(i) \/ Holds(wake, i)
                      \/ Holds(waiters[TagOf[i]], i) /\ tagTable[TagOf[i]] = "pending"
                                                     /\ TagWillCome(TagOf[i])
    BY DEF NothingForgotten
  <2>1. readyCtr[i] = 0
    BY CountersNat DEF FlowInv
  <2>2. At(i) # {}
    BY <2>1 DEF TagInv, Everywhere, Due
  <2>3. ASSUME InWaiters(i), ~InWake(i)
        PROVE  tagTable[TagOf[i]] = "pending" /\ TagWillCome(TagOf[i])
    <3>1. tagTable[TagOf[i]] = "pending" /\ TagOf[i] \in Tag
      BY <2>3, CoreProgram DEF TagInv, TagsRespected, ProgramAssumption
    <3>2. PICK m \in Inst : Loading(m) /\ TagOf[m] = TagOf[i] /\ ~IsSparse[m] /\ (IsAsync[m] => LoadOut(m))
      BY <3>1 DEF TagInv, PendingTags
    <3>3. Op[i] = "BAR" \/ AsyncLoad(i)
      BY <2>3, InFlightAt DEF TagInv, KindsRight
    <3>4. IsAsync[m]
      BY <3>2, <3>3 DEF TagDiscipline, AsyncLoad
    <3>5. QED
      BY <3>1, <3>2, <3>4 DEF TagWillCome, LoadOut
  <2>4. QED
    BY <2>2, <2>3, AtPlace DEF Place, InFlight, InWake, InWaiters
<1>2. TagDiscipline /\ [Next]_vars => TagDiscipline'
  BY DEF TagDiscipline, Loading
<1>3. QED
  BY <1>1, <1>2, TypeCorrect, FlowCorrect, TagsCorrect, PTL DEF Spec

\* The assertions of the instruction counters and of Core::dma_cycle hold, and every response
\* that can come finds an instruction that waits for it.
THEOREM AssertionsAlwaysHold == Spec /\ TagDiscipline => []AssertionsHold
<1>1. TrafficInv /\ FlowInv /\ TagInv => AssertionsHold
  <2> SUFFICES ASSUME TrafficInv, FlowInv, TagInv PROVE AssertionsHold
    OBVIOUS
  <2>1. \A i \in Inst : readyCtr[i] >= 0
    BY CountersNat DEF FlowInv
  <2>2. waiting \in [Inst -> Nat]
    BY WaitingNat DEF TrafficInv
  <2>3. ASSUME NEW i \in Inst, mem[i] > 0 PROVE waiting[i] > 0
    <3>1. queued[i] \in Nat /\ net[i] \in Nat /\ mem[i] \in Nat /\ pending \in Nat
      BY DEF TrafficInv, TypeInv, MemType, DmaType
    <3>2. waiting[i] = queued[i] + net[i] + mem[i] + (IF i = cur /\ generated THEN pending ELSE 0)
      BY DEF TrafficInv, Conservation
    <3>3. QED
      BY <2>3, <3>1, <3>2
  <2>4. ASSUME NEW n \in 1..Len(finq)
        PROVE  /\ waiting[finq[n]] = 0
               /\ Loading(finq[n]) /\ IsAsync[finq[n]] => tagTable[TagOf[finq[n]]] = "pending"
    <3>1. PICK i \in Inst : i = finq[n]
      <4>1. finq \in Seq(Inst)
        BY DEF TrafficInv, TypeInv, RespType
      <4>2. QED
        BY <4>1, ElementOfSeq
    <3>2. "finq" \in At(i)
      BY <3>1, AtPlace DEF Holds
    <3>3. i \notin waitq /\ i # cur
      BY <3>2, AtPlace DEF FlowInv, OnePlace
    <3>4. waiting[i] = 0
      BY <2>2, <3>3 DEF TrafficInv, NoLostCompletion
    <3>5. AsyncLoad(i) => LoadOut(i)
      BY <3>2, InFlightAt DEF Moving
    <3>6. QED
      BY <3>1, <3>4, <3>5 DEF TagInv, PendingTags, AsyncLoad
  <2>5. QED
    BY <2>1, <2>3, <2>4 DEF AssertionsHold
<1>2. QED
  BY <1>1, TrafficCorrect, FlowCorrect, TagsCorrect, PTL

-------------------------------------------------------------------------------
(* A barrier never looks up a tag nobody has registered *)

\* What taking its head off or appending others does to the order of a queue
LEMMA BehindKeeps ==
  ASSUME NEW q \in Seq(Inst), NEW r \in Seq(Inst), NEW m, NEW k, Behind(q, m, k)
  PROVE  /\ q # <<>> => Behind(Tail(q), m, k)
         /\ ~Holds(r, m) => Behind(q \o r, m, k)
<1>1. ASSUME q # <<>> PROVE Behind(Tail(q), m, k)
  <2>1. /\ Len(q) \in Nat \ {0} /\ Len(Tail(q)) = Len(q) - 1
        /\ \A a \in 1..Len(Tail(q)) : Tail(q)[a] = q[a + 1]
    BY <1>1, HeadTailProperties, EmptySeq, LenProperties
  <2> SUFFICES ASSUME NEW a \in 1..Len(Tail(q)), Tail(q)[a] = m
               PROVE  \E b \in 1..Len(Tail(q)) : a < b /\ Tail(q)[b] = k
    BY DEF Behind
  <2>2. a + 1 \in 1..Len(q) /\ q[a + 1] = m
    BY <2>1
  <2>3. PICK b \in 1..Len(q) : a + 1 < b /\ q[b] = k
    BY <2>2 DEF Behind
  <2>4. b - 1 \in 1..Len(Tail(q)) /\ a < b - 1 /\ (b - 1) + 1 = b
    BY <2>1, <2>2, <2>3
  <2>5. QED
    BY <2>1, <2>3, <2>4
<1>2. ASSUME ~Holds(r, m) PROVE Behind(q \o r, m, k)
  <2>1. /\ Len(q) \in Nat /\ Len(r) \in Nat /\ Len(q \o r) = Len(q) + Len(r)
        /\ \A a \in 1..Len(q) + Len(r) : (q \o r)[a] = IF a <= Len(q) THEN q[a] ELSE r[a - Len(q)]
    BY ConcatProperties, LenProperties
  <2> SUFFICES ASSUME NEW a \in 1..Len(q \o r), (q \o r)[a] = m
               PROVE  \E b \in 1..Len(q \o r) : a < b /\ (q \o r)[b] = k
    BY DEF Behind
  <2>2. a <= Len(q)
    <3> SUFFICES ASSUME ~(a <= Len(q)) PROVE FALSE
      OBVIOUS
    <3>1. a - Len(q) \in 1..Len(r) /\ r[a - Len(q)] = m
      BY <2>1
    <3>2. QED
      BY <1>2, <3>1 DEF Holds
  <2>3. a \in 1..Len(q) /\ q[a] = m
    BY <2>1, <2>2
  <2>4. PICK b \in 1..Len(q) : a < b /\ q[b] = k
    BY <2>3 DEF Behind
  <2>5. b \in 1..Len(q \o r) /\ (q \o r)[b] = k
    BY <2>1, <2>4
  <2>6. QED
    BY <2>4, <2>5
<1>3. QED
  BY <1>1, <1>2

\* How a step may change the ready queues: an instruction is taken off a head or not, and then
\* perhaps finished, which appends the children it makes ready.
ReadyStep ==
  \E i \in Inst : \E q \in {readyQ, WithoutHead(i)} :
    /\ q # readyQ => Issuing(i)
    /\ readyQ' = q \/ Complete(i, q)

\* There is no other way.
LEMMA ReadySteps ==
  ASSUME TypeInv, [Next]_vars, ~UNCHANGED readyQ, ~ \E t \in Tile : IssueTile(t)
  PROVE  ReadyStep
<1>1. ASSUME NEW i \in Inst, FinishInst(i, readyQ) \/ Complete(i, readyQ) PROVE ReadyStep
  <2>1. Complete(i, readyQ)
    BY <1>1, Zenon DEF FinishInst, flowVars
  <2>2. QED
    BY <2>1 DEF ReadyStep
<1>2. ASSUME NEW i \in Inst, Issuing(i),
             FinishInst(i, WithoutHead(i)) \/ Complete(i, WithoutHead(i)) \/ Erase(i)
      PROVE  ReadyStep
  <2>1. Complete(i, WithoutHead(i)) \/ readyQ' = WithoutHead(i)
    BY <1>2, Zenon DEF FinishInst, flowVars, Erase
  <2>2. QED
    BY <1>2, <2>1 DEF ReadyStep
<1>3. ~UNCHANGED flowVars
  BY DEF flowVars
<1>4. CASE UNCHANGED vars
  BY <1>3, <1>4 DEF vars
<1>5. CASE PopFinishedTile \/ StartCycle \/ Retire \/ CacheCycle
  BY <1>3, <1>5 DEF PopFinishedTile, StartCycle, Retire, CacheCycle
<1>6. ASSUME NEW i \in Inst, PopRequest(i) \/ PushResponse(i) PROVE FALSE
  BY <1>3, <1>6 DEF PopRequest, PushResponse
<1>7. CASE Compute
  <2>1. PICK u \in Unit : RetireCompute(u)
    BY <1>3, <1>7 DEF Compute, EndCompute
  <2>2. pipe[u] \in Seq(Inst) /\ pipe[u] # <<>> /\ FinishInst(Front(pipe[u]), readyQ)
    BY <2>1 DEF RetireCompute, Elapsed, TypeInv, PipeType
  <2>3. PICK i \in Inst : i = Front(pipe[u])
    BY <2>2, FrontTailType
  <2>4. QED
    BY <1>1, <2>2, <2>3
<1>8. CASE Dma
  <2>1. CASE DrainSyncLoad
    <3>1. finq \in Seq(Inst) /\ finq # <<>> /\ FinishInst(Front(finq), readyQ)
      BY <2>1 DEF DrainSyncLoad, TypeInv, RespType
    <3>2. PICK i \in Inst : i = Front(finq)
      BY <3>1, FrontTailType
    <3>3. QED
      BY <1>1, <3>1, <3>2
  <2>2. CASE WakeWaiter
    <3>1. wake \in Seq(Inst) /\ wake # <<>> /\ FinishInst(Front(wake), readyQ)
      BY <2>2 DEF WakeWaiter, TypeInv, RespType
    <3>2. PICK i \in Inst : i = Front(wake)
      BY <3>1, FrontTailType
    <3>3. QED
      BY <1>1, <3>1, <3>2
  <2>3. CASE DmaRetire
    <3>1. cur \in Inst
      BY <2>3 DEF DmaRetire, TypeInv, DmaType, LoadInst, StoreInst
    <3>2. FinishInst(cur, readyQ)
      BY <1>3, <2>3, Zenon DEF DmaRetire
    <3>3. QED
      BY <1>1, <3>1, <3>2
  <2>4. CASE DrainAsyncLoad
    BY <1>3, <2>4, DrainAsyncLoadEffect
  <2>5. CASE DrainStore \/ DmaTake \/ DmaIdle \/ DmaGenerate
    BY <1>3, <2>5 DEF DrainStore, DmaTake, DmaIdle, DmaGenerate
  <2>6. QED
    BY <1>8, <2>1, <2>2, <2>3, <2>4, <2>5 DEF Dma
<1>9. CASE Issue
  <2>1. ASSUME NEW i \in Inst, IssueSparseLoad(i) \/ SkipCompute(i) PROVE ReadyStep
    <3>1. Issuing(i) /\ (FinishInst(i, WithoutHead(i)) \/ Complete(i, WithoutHead(i)))
      BY <2>1, Zenon DEF IssueSparseLoad, SkipCompute
    <3>2. QED
      BY <1>2, <3>1
  <2>2. ASSUME NEW i \in Inst, SkipLoad(i) \/ IssueLoad(i) \/ IssueStore(i) \/ IssueCompute(i) PROVE ReadyStep
    <3>1. Issuing(i) /\ (Erase(i) \/ FinishInst(i, WithoutHead(i)))
      BY <2>2, Zenon DEF SkipLoad, IssueLoad, IssueStore, IssueCompute
    <3>2. QED
      BY <1>2, <3>1
  <2>3. ASSUME NEW i \in Inst, IssueBarrier(i) PROVE ReadyStep
    <3>1. Issuing(i) /\ (Erase(i) \/ FinishInst(i, WithoutHead(i)))
      BY <1>3, <2>3, IssueBarrierEffect
    <3>2. QED
      BY <1>2, <3>1
  <2>4. CASE IssueNone
    BY <1>3, <2>4 DEF IssueNone
  <2>5. QED
    BY <1>9, <2>1, <2>2, <2>3, <2>4 DEF Issue
<1>10. QED
  BY <1>4, <1>5, <1>6, <1>7, <1>8, <1>9 DEF Next, Cycle, Exited

\* A tile that comes puts its roots in the order of its body.
LEMMA IssueTileRoots ==
  ASSUME TypeInv, FlowInv, RootsInOrder, NEW t \in Tile, IssueTile(t)
  PROVE  RootsInOrder'
<1> USE CoreProgram DEF ProgramAssumption
<1>1. PICK order \in Orders(Roots(t)) :
        /\ \A a, b \in 1..Len(order), c, d \in 1..Len(Body[t]) :
             order[a] = Body[t][c] /\ order[b] = Body[t][d] /\ a < b => c < d
        /\ readyQ' = [readyQ EXCEPT ![t] = @ \o order]
  BY DEF IssueTile
<1>2. t \notin arrived
  BY DEF IssueTile
<1>3. IsFiniteSet(Roots(t)) /\ Roots(t) \subseteq Inst
  BY FS_Subset DEF Roots
<1>4. (\A k : Holds(order, k) <=> k \in Roots(t)) /\ order \in Seq(Inst)
  BY <1>3, HoldsOrder, OrdersType
<1>5. readyQ \in [Tile -> Seq(Inst)] /\ readyQ[t] \in Seq(InstOf(t))
  BY DEF TypeInv, FlowType, ReadyType
<1>6. readyQ[t] = <<>>
  <2>1. ASSUME NEW k \in InstOf(t) PROVE ~Holds(readyQ[t], k)
    <3>1. ~Started(k)
      BY <1>2 DEF FlowInv, NotTooEarly, InstOf
    <3>2. QED
      BY <3>1, AtPlace DEF Started, InstOf
  <2>2. readyQ[t] # <<>> => readyQ[t][1] \in Elems(readyQ[t]) /\ readyQ[t][1] \in InstOf(t)
    BY <1>5, ElemsEmpty, ElemsType, SMTT(30)
  <2>3. QED
    BY <2>1, <2>2, HoldsElems
<1>7. readyQ'[t] = order
  BY <1>1, <1>4, <1>5, <1>6
<1>8. \A s \in Tile \ {t} : readyQ'[s] = readyQ[s]
  BY <1>1, <1>5
<1> SUFFICES ASSUME NEW m \in Inst, NEW k \in Inst, Before(m, k), Parents(m) = {}, Parents(k) = {}
             PROVE  Behind(readyQ'[Owner[m]], m, k)
  BY DEF RootsInOrder, Before, Parents
<1>9. CASE Owner[m] = t
  <2>1. PICK c \in 1..Len(Body[t]), d \in 1..Len(Body[t]) : c < d /\ Body[t][c] = m /\ Body[t][d] = k
    BY <1>9 DEF Before
  <2>2. k \in Roots(t)
    <3>1. ParentsLeft(k) = {} /\ Owner[k] = t
      BY <1>9 DEF ParentsLeft, Before
    <3>2. readyCtr[k] = 0
      BY <3>1, CountersNat DEF FlowInv
    <3>3. QED
      BY <3>1, <3>2 DEF Roots
  <2>3. PICK b \in 1..Len(order) : order[b] = k
    BY <1>4, <2>2 DEF Holds
  <2>4. ASSUME NEW a \in 1..Len(order), order[a] = m PROVE a < b
    <3>1. ~(b < a)
      <4>1. b < a => d < c
        BY <1>1, <2>1, <2>3, <2>4
      <4>2. c \in Int /\ d \in Int
        OBVIOUS
      <4>3. QED
        BY <2>1, <4>1, <4>2
    <3>2. a # b
      <4>1. a = b => m = k
        BY <2>3, <2>4
      <4>2. m = k => c = d
        BY <2>1, CoreLinks DEF LinkAssumption
      <4>3. c \in Int /\ d \in Int
        OBVIOUS
      <4>4. QED
        BY <2>1, <4>1, <4>2, <4>3
    <3>3. a \in Int /\ b \in Int
      OBVIOUS
    <3>4. QED
      BY <3>1, <3>2, <3>3
  <2>5. QED
    BY <1>7, <1>9, <2>3, <2>4 DEF Behind
<1>10. CASE Owner[m] # t
  BY <1>8, <1>10 DEF RootsInOrder
<1>11. QED
  BY <1>9, <1>10

\* Every other step takes heads off and appends instructions that have parents.
LEMMA RootsStep ==
  TypeInv /\ FlowInv /\ RootsInOrder /\ [Next]_vars => RootsInOrder'
<1> SUFFICES ASSUME TypeInv, FlowInv, RootsInOrder, [Next]_vars PROVE RootsInOrder'
  OBVIOUS
<1>1. CASE UNCHANGED readyQ
  BY <1>1 DEF RootsInOrder, Behind, Before, Parents
<1>2. CASE \E t \in Tile : IssueTile(t)
  BY <1>2, IssueTileRoots
<1>3. CASE ~UNCHANGED readyQ /\ ~ \E t \in Tile : IssueTile(t)
  <2> SUFFICES ASSUME NEW m \in Inst, NEW k \in Inst, Before(m, k), Parents(m) = {}, Parents(k) = {}
               PROVE  Behind(readyQ'[Owner[m]], m, k)
    BY DEF RootsInOrder, Before, Parents
  <2>0. PICK i \in Inst : \E q \in {readyQ, WithoutHead(i)} :
          /\ q # readyQ => Issuing(i)
          /\ readyQ' = q \/ Complete(i, q)
    BY <1>3, ReadySteps DEF ReadyStep
  <2>1. PICK q \in {readyQ, WithoutHead(i)} :
          /\ q # readyQ => Issuing(i)
          /\ readyQ' = q \/ Complete(i, q)
    BY <2>0
  <2>2. /\ readyQ \in [Tile -> Seq(Inst)] /\ Behind(readyQ[Owner[m]], m, k)
        /\ Owner[m] \in Tile /\ Owner[i] \in Tile
    BY CoreProgram DEF ProgramAssumption, TypeInv, FlowType, ReadyType, RootsInOrder
  <2>3. q \in [Tile -> Seq(Inst)] /\ Behind(q[Owner[m]], m, k)
    <3>1. CASE q = readyQ
      BY <2>2, <3>1
    <3>2. CASE q # readyQ
      <4>1. q = WithoutHead(i) /\ Issuing(i)
        BY <2>1, <3>2
      <4>2. q \in [Tile -> Seq(Inst)]
        BY <4>1, WithoutHeadKeeps DEF ReadyType
      <4>3. readyQ[Owner[i]] # <<>>
        <5>1. At(i) = {"ready"}
          BY <4>1, WithoutHeadKeeps
        <5>2. Holds(readyQ[Owner[i]], i)
          BY <5>1, AtPlace
        <5>3. QED
          BY <5>2, HoldsEmpty
      <4>4. q[Owner[m]] = IF Owner[m] = Owner[i] THEN Tail(readyQ[Owner[m]]) ELSE readyQ[Owner[m]]
        BY <2>2, <4>1 DEF WithoutHead
      <4>5. <<>> \in Seq(Inst) /\ readyQ[Owner[m]] \in Seq(Inst)
        BY <2>2
      <4>6. QED
        BY <2>2, <4>2, <4>3, <4>4, <4>5, BehindKeeps
    <3>3. QED
      BY <3>1, <3>2
  <2>4. CASE readyQ' = q
    BY <2>3, <2>4
  <2>5. CASE Complete(i, q)
    <3>1. PICK order \in Orders(NewlyReady(i)) : readyQ' = [q EXCEPT ![Owner[i]] = @ \o order]
      BY <2>5 DEF Complete
    <3>2. NewlyReady(i) \subseteq Inst /\ IsFiniteSet(NewlyReady(i))
      <4>1. NewlyReady(i) \in SUBSET Inst
        BY CoreProgram DEF ProgramAssumption, NewlyReady
      <4>2. QED
        BY <4>1, CoreProgram, FS_Subset DEF ProgramAssumption
    <3>3. order \in Seq(Inst) /\ \A x : Holds(order, x) <=> x \in NewlyReady(i)
      BY <3>2, HoldsOrder, OrdersType
    <3>4. ~Holds(order, m)
      BY <3>3 DEF NewlyReady, Parents
    <3>5. readyQ'[Owner[m]] = IF Owner[m] = Owner[i] THEN q[Owner[m]] \o order ELSE q[Owner[m]]
      BY <2>2, <2>3, <3>1
    <3>6. q[Owner[m]] \in Seq(Inst)
      BY <2>2, <2>3
    <3>7. QED
      BY <2>3, <3>3, <3>4, <3>5, <3>6, BehindKeeps
  <2>6. QED
    BY <2>1, <2>4, <2>5
<1>4. QED
  BY <1>1, <1>2, <1>3

\* A barrier that issues finds its tag: a load of the tag is a parent of it, or stood in the
\* ready queue in front of a parent.
LEMMA TagIsKnown ==
  ASSUME BarrierDiscipline, FlowInv, TagInv, RootsInOrder,
         NEW i \in Inst, Op[i] = "BAR", "ready" \in At(i)
  PROVE  tagTable[TagOf[i]] # "absent"
<1>1. PICK p \in Parents(i), m \in Inst :
        /\ Loading(m) /\ TagOf[m] = TagOf[i]
        /\ m = p \/ (TopLoad(m) /\ TopLoad(p) /\ Before(m, p))
  BY DEF BarrierDiscipline
<1>2. readyCtr[i] = 0 /\ Owner[i] \in arrived
  BY DEF FlowInv, NotTooEarly, Started
<1>3. p \in Inst /\ finished[p] /\ Owner[p] = Owner[i]
  <2>1. ParentsLeft(i) = {}
    BY <1>2, CountersNat DEF FlowInv
  <2>2. QED
    BY <2>1, CoreLinks DEF ParentsLeft, Parents, LinkAssumption
<1>4. Touched(m)
  <2>1. CASE m = p
    BY <1>3, <2>1 DEF Touched
  <2>2. CASE TopLoad(m) /\ TopLoad(p) /\ Before(m, p)
    <3> SUFFICES ASSUME ~Touched(m) PROVE FALSE
      OBVIOUS
    <3>1. Due(m) /\ ~finished[m]
      <4>1. ParentsLeft(m) = {}
        BY <2>2 DEF TopLoad, ParentsLeft
      <4>2. readyCtr[m] = 0
        BY <4>1, CountersNat DEF FlowInv
      <4>3. QED
        BY <1>2, <1>3, <2>2, <4>2 DEF Due, Before, Touched
    <3>2. "ready" \in At(m)
      BY <3>1 DEF TagInv, Everywhere, Touched
    <3>3. Behind(readyQ[Owner[m]], m, p)
      BY <1>3, <2>2 DEF RootsInOrder, TopLoad
    <3>4. Holds(readyQ[Owner[p]], p)
      BY <2>2, <3>2, <3>3, AtPlace DEF Behind, Holds, Before
    <3>5. "ready" \in At(p)
      BY <3>4, AtPlace
    <3>6. QED
      BY <1>3, <3>5 DEF FlowInv, FinishedWhen, Undone
  <2>3. QED
    BY <1>1, <2>1, <2>2
<1>5. QED
  BY <1>1, <1>4 DEF TagInv, TagsRespected

TagKnown == exited # "missing tag"

\* Only a barrier can miss a tag.
LEMMA TagKnownStep ==
  ASSUME BarrierDiscipline, TypeInv, FlowInv, TagInv, RootsInOrder, TagKnown, [Next]_vars
  PROVE  TagKnown'
<1>1. UNCHANGED exited => TagKnown'
  BY Zenon DEF TagKnown
<1>2. ASSUME NEW i, NEW q, FinishInst(i, q) PROVE TagKnown'
  BY <1>2, Zenon DEF FinishInst, TagKnown
<1>3. CASE UNCHANGED vars
  BY <1>1, <1>3, Zenon DEF vars
<1>4. ASSUME NEW t \in Tile, IssueTile(t) PROVE TagKnown'
  BY <1>1, <1>4, Zenon DEF IssueTile
<1>5. CASE PopFinishedTile \/ StartCycle \/ Retire \/ CacheCycle
  BY <1>1, <1>5, Zenon DEF PopFinishedTile, StartCycle, Retire, CacheCycle
<1>6. ASSUME NEW i \in Inst, PopRequest(i) \/ PushResponse(i) PROVE TagKnown'
  BY <1>1, <1>6, Zenon DEF PopRequest, PushResponse
<1>7. CASE Compute
  BY <1>1, <1>2, <1>7, Zenon DEF Compute, RetireCompute, EndCompute
<1>8. CASE Dma
  <2>1. CASE DrainSyncLoad \/ WakeWaiter \/ DmaRetire
    BY <1>1, <1>2, <2>1, Zenon DEF DrainSyncLoad, WakeWaiter, DmaRetire
  <2>2. CASE DrainAsyncLoad
    BY <2>2, Zenon DEF DrainAsyncLoad, TagKnown
  <2>3. CASE DrainStore \/ DmaTake \/ DmaIdle \/ DmaGenerate
    BY <1>1, <2>3, Zenon DEF DrainStore, DmaTake, DmaIdle, DmaGenerate
  <2>4. QED
    BY <1>8, <2>1, <2>2, <2>3, Zenon DEF Dma
<1>9. CASE Issue
  <2>1. ASSUME NEW i \in Inst, IssueSparseLoad(i) \/ SkipLoad(i) PROVE TagKnown'
    BY <1>1, <1>2, <2>1, Zenon DEF IssueSparseLoad, SkipLoad
  <2>2. ASSUME NEW i \in Inst, IssueLoad(i) \/ IssueStore(i) \/ IssueCompute(i) PROVE TagKnown'
    BY <1>1, <2>2, Zenon DEF IssueLoad, IssueStore, IssueCompute
  <2>3. ASSUME NEW i \in Inst, SkipCompute(i) PROVE TagKnown'
    BY <2>3, Zenon DEF SkipCompute, TagKnown
  <2>4. ASSUME NEW i \in Inst, IssueBarrier(i) PROVE TagKnown'
    <3>1. Issuing(i) /\ Op[i] = "BAR"
      BY <2>4, IssueBarrierEffect
    <3>2. "ready" \in At(i)
      BY <3>1, WithoutHeadKeeps
    <3>3. tagTable[TagOf[i]] # "absent"
      BY <3>1, <3>2, TagIsKnown
    <3>4. FinishInst(i, WithoutHead(i)) \/ UNCHANGED exited
      BY <2>4, <3>3, IssueBarrierEffect
    <3>5. QED
      BY <1>1, <1>2, <3>4
  <2>5. CASE IssueNone
    BY <1>1, <2>5, Zenon DEF IssueNone
  <2>6. QED
    BY <1>9, <2>1, <2>2, <2>3, <2>4, <2>5, Zenon DEF Issue
<1>10. QED
  BY <1>3, <1>4, <1>5, <1>6, <1>7, <1>8, <1>9, Zenon DEF Next, Cycle, Exited

\* No run of a program that keeps both disciplines takes one of the exits of the core or trips
\* one of its assertions.
THEOREM NoErrorPathHolds == Spec /\ TagDiscipline /\ BarrierDiscipline => []NoErrorPath
<1>1. Init => RootsInOrder /\ TagKnown
  <2> SUFFICES ASSUME Init PROVE RootsInOrder /\ TagKnown
    OBVIOUS
  <2>1. \A m \in Inst : readyQ[Owner[m]] = <<>>
    BY CoreProgram DEF ProgramAssumption, Init
  <2>2. exited = "no"
    BY DEF Init
  <2>3. TagKnown
    BY <2>2, Zenon DEF TagKnown
  <2>4. QED
    BY <2>1, <2>3 DEF RootsInOrder, Behind
<1>2. (BarrierDiscipline /\ [Next]_vars => BarrierDiscipline') /\ (TagDiscipline /\ [Next]_vars => TagDiscipline')
  BY DEF BarrierDiscipline, TagDiscipline, Parents, TopLoad, Before, Loading
<1>3. BarrierDiscipline /\ TypeInv /\ FlowInv /\ TagInv /\ RootsInOrder /\ TagKnown /\ [Next]_vars =>
        RootsInOrder' /\ TagKnown'
  BY RootsStep, TagKnownStep
<1>4. TypeInv /\ FlowInv /\ TagKnown /\ AssertionsHold => NoErrorPath
  <2> SUFFICES ASSUME TypeInv, FlowInv, TagKnown PROVE NeverExits
    BY DEF NoErrorPath
  <2>1. ExitType /\ NoDoubleFinish
    BY DEF TypeInv, FlowInv
  <2>2. QED
    BY <2>1, Zenon DEF ExitType, NoDoubleFinish, TagKnown, NeverExits
<1>5. QED
  BY <1>1, <1>2, <1>3, <1>4, TypeCorrect, FlowCorrect, TagsCorrect, AssertionsAlwaysHold, PTL DEF Spec
===============================================================================
