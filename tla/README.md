# A TLA+ model of TopoTraceSim

TopoTraceSim simulates neural processing units (NPUs) on a network. Its heart is
*TOGSim* (`src/PyTorchSim/TOGSim`), a cycle-level simulator in C++: it reads tile
operation graphs, cuts them into tiles, runs the tiles on simulated cores and sends
their memory traffic through an interconnect to a DRAM. Around it stand a PyTorch
device extension and compiler (`PyTorchSimDevice`, `PyTorchSimFrontend`), a Python
driver (`Simulator/simulator.py`), and scripts that feed a network simulator.

This directory holds specifications of the parts of that system whose behaviour
depends on the order of events, the configurations that check them with TLC, and proofs
checked with TLAPS. `PROJECT.json` says for each definition which lines of code
it models, which run checks which property, and which fault of the code each property
was seen to catch.

## 1. The system

TOGSim is **one thread**. What is concurrent in it is simulated: cores, DMA engines,
ports, channels and three clocks take their turns inside `Simulator::cycle`.
Nondeterminism comes from four places: how long the memory takes and in which
order it answers; which tiles a kernel has and how they are linked; the relative phase of
the clocks; and a few containers whose order the language leaves open (a `std::set` of
pointers, a priority queue of equals). Around it things are concurrent for real: the streams of
OpenReg are threads, Python threads and streams share a FIFO to the simulator process, and
the processes of a compilation share a directory of files. The compiler is sequential;
what is hard in it is arithmetic on tiles that must agree in many places.

    PyTorch graph --> MLIRScheduling (fusion) --> template or generated kernel --> MLIR text
                      mlir_scheduling.py          tiles, DMAs, search                 |
                                                                                      v
    torch.npu.launch_kernel <-- CustomAsyncCompile.mlir <-- compile cache: binary, tile graph
          |  task on a stream                               extension_codecache.py
          v
    TOGSimulator._send_command --> FIFO

    trace file --> process_trace_file --> Scheduler (one per partition)
                     main.cc                 |  kernel = queue of subgraphs
                                             |  slot of a core <- subgraph
                                             v
                  Simulator::core_cycle --> Core::issue(tile)      finish_tile
                                             |  instructions           ^
                                             v                         |
                   pipelines <-- Core::cycle --> DMA, tag table --> finished tiles
                                             |  requests   ^ responses
                                             v             |
                  Simulator::icnt_cycle --> ports --> interconnect --> caches --> DRAM

| Component | State | Operations | What makes it hard | Correct when |
|---|---|---|---|---|
| **Core, DMA, instructions, tiles** (`Core.cc`, `DMA.cc/.h`, `Instruction.h`, `Tile.cc`) | tiles, ready queues, ready counters, pipelines, load/store queues, current transfer, tag table with waiters, waiting and finished queues | `can_issue`, `issue`, `pop_finished_tile`, `cycle` (compute, DMA, issue, retire), `pop_memory_request`, `push_memory_response` | an instruction is finished from seven places; loads, barriers and tags of several tiles meet in one tag table; responses race with the hand-over from the DMA engine to the waiting queue; raw pointers into tiles | dataflow order and data before use; no completion lost, none twice; tiles come back complete, once; `running()` false means nothing is out |
| **Tile scheduling** (`Scheduler.cc`, `TileGraph.cc`, `Tile.cc`) | kernel queue per partition, unallocated subgraphs, subgraph per slot, ready and blocked tiles, parent counters | `enqueue_graph`, `peek_tile`, `get_tile`, `allocate_subgraph`, `finish_tile`, `refresh_status`, `empty` | "finished" looks at ready and blocked tiles, not at running ones; kernels are dropped one at a time and only on some calls; bound subgraphs | parents first; one home per subgraph; kernels in launch order; nothing dropped; every trace ends |
| **Main loop** (`Simulator.cc`) | clocks, cycle mask, loop over slots and cores | `cycle`, `core_cycle`, `dram_cycle`, `icnt_cycle`, `running` | three clock periods; end condition looks at some queues only | every request answered; loop ends exactly when all is done |
| **Trace commands** (`main.cc`) | position in the trace | `LAUNCH_KERNEL`, `DEVICE_SYNC`, end | a caught exception loses a command | a sync waits for what was launched before it |
| **Interconnect** (`Interconnect.cc`) | message queues per pair of nodes, output queues, round robin | `push`, `pop`, `cycle` | contention for ports | delivers once, to the right node, after its latency, without starvation |
| **DRAM** (`Dram.cc`, `DelayQueue.cc`), **L2 front end** (`L2Cache.cc`) | delay queue and credit per channel, crossbar queues | `push`, `cycle`, `cache_cycle` | bandwidth credit; order of the cycles | answers once, within its bandwidth |
| **DMA addresses** (`Instruction.cc`) | none | `get_dram_address` | shifts, masks, strides | a transfer becomes the requests its bytes need |
| **Cache model** (`Cache.cc`, from GPGPU-Sim) | tag array, MSHR, sectors, miss queue | `access`, `fill`, `cycle` | merging, reservation failures, write-back | as many responses as requests; no MSHR entry leaks |
| **Sparse core** (`SparseCore.cc`) | sub-cores, one queue of transfers | as Core | sub-cores share a pipeline | responses reach the sub-core that asked |
| **Graph parser** (`TileGraphParser.cc`) | graph under construction | `get_tiles_from_iter` | loop unrolling, dependences of tiles and instructions | acyclic graphs with the links the core relies on |
| **Sessions** (`simulator.py`, `torch_openreg/openreg/__init__.py`) | current simulator, FIFO handle and lock, default streams, process | enter and exit a session, `launch_kernel`, `synchronize`, `_send_command` | several threads, streams and a process that may die; a default stream belongs to another device than it seems to | a launch reaches the simulator it was meant for; a synchronization is a barrier on its timeline; sessions end |
| **Compile cache** (`extension_codecache.py`, `mlir_autotune.py`) | a directory per source text with lock, binary, tile graph, run directories, logs | `load`, `run_kernel_simulation`, benchmark requests | looks before the lock, writes in place, deaths and time-outs | a call runs whole files of its own source; every call ends |
| **Kernel generation** (`mlir_common.py`, `mlir_codegen_backend.py`) | tile with its order, lanes and constraints; buffers | tile heuristics, DMA of each access, recompilation, search | the same element is computed in three ways (address, place on a lane, index vector); a tile changes under way | DMAs move the right elements; operands agree; buffers fit; the search ends |
| **MLIR operations** (`mlir_ops.py`) | the table of sizes and types of values | one function per operation | operations call each other and convert operands on the way | lines agree with the table; results have the right size and type |
| **Templates** (`mlir_*_template.py`), **fusion** (`mlir_scheduling.py`) | loop nest, tiles of operands, hooks, fused nodes | tile heuristics, rendering, prologue and epilogue | padding, offsets, order of hooks, edge tiles | the result of the operator, within the scratchpad |
| **All-to-all experiments** (`SOTA/QinleTorus`, `scripts`) | tokens, trace rows, packets | routing, traces, schedulers of packets, report | rows of one token in four files | capacity held; the trace carries what was routed; times follow; cycles counted once |
| **OpenReg streams and events** (`third_party/openreg/csrc/stream.cpp`) | task queue, worker thread, event flags | stream and event calls | real threads, condition variables | FIFO execution, events, no lost wake-up |
| **OpenReg memory** (`memory.cpp`) | block registry, protection counts | allocate, free, copy, protect | nested protection | no overlap, no access to protected pages |

The tile operation graph, plots and the vendored PopNet are listed in
`PROJECT.json` as not modelled: they translate files and have no protocol of their own.

`PROJECT.json` lists the hazards of this code, each at its line, with the
properties that guard it.

## 2. The modules

| Module | Models |
|---|---|
| `Core` | one core with its DMA engine: 27 actions, from `IssueTile` to `CacheCycle` |
| `TileService` | abstract: what a core promises the scheduler |
| `CoreRefines` | the refinement mapping from `Core` to `TileService` |
| `CoreProofs` | theorems about `Core`, in three parts: types and memory traffic; the refinement, instructions, tiles, the end, timing; tags, barriers, what no program runs into |
| `QueueLemmas` | lemmas about the elements of a queue, for both kinds of proofs |
| `TileScheduler` | trace commands, schedulers of all partitions, `core_cycle`; its cores are `TileService`s |
| `SchedulerProofs` | theorems about `TileScheduler` |
| `MemSystem` | clocks, interconnect, cache front end, DRAM; its cores are sources of requests |
| `MemService` | abstract: what a core relies on when it sends requests |
| `DmaAddress` | which requests a transfer becomes, as operators |
| `MemTransfers` | `MemSystem` with the traffic of DMA transfers |
| `MemProofs` | theorems about `MemSystem` and `MemTransfers`: where a request is, the refinement, what comes of a transfer |
| `OpenRegStream` | streams of the simulated device, their worker threads, events, and the calls that wait |
| `StreamProofs` | theorems about `OpenRegStream` |
| `SimSession` | sessions of the Python front end: program threads, the threads of the default streams, the FIFO, the simulator process with its crash |
| `SessionProofs` | theorems about `SimSession`: order, flushing, barriers, lost launches |
| `CompileCache` | calls of several processes that compile and run kernels over one directory of files |
| `CacheProofs` | theorems about `CompileCache`, with proofs |
| `Tiling` | the tile descriptor as operators: lanes, vector size, constraints, trimming, divisors |
| `KernelGen` | compilation of one fused kernel: first tile, a DMA for each access, recompilation, search |
| `VectorOps` | the operations of a loop body: which operations each calls, which conversions it inserts, what types its lines show |
| `TemplateTiles` | which tiles a template may use; where an element of a tile lies |
| `MatmulKernels`, `SortNetwork`, `FlashLoop`, `CatCopy` | the loops and moves of each family of templates, and the result each has to leave |
| `Fusion` | when two nodes go into one kernel |
| `TemplateKernel` | a template node from fusion and choice of tile over the hooks of the renderer to the execution of its loops |
| `AllToAll` | the all-to-all of a mixture of experts, from tokens to the report |
| `AllToAllProofs` | theorems about `AllToAll`: the capacity, and the chain of times |
| `MC...` | programs, traces, traffic, kernels and jobs for TLC |

**How they fit together.** The simulator is too big for one state space, so it is cut at
two interfaces and each side is checked against the same abstract specification.
`Core` implements `TileService`, and `TileScheduler` keeps to it
(`CoreContract`: its cores are used as `TileService` allows, and behave in every way it allows).
`MemSystem` implements `MemService`, whose two sets are the variables `net` and `mem`
of `Core`: a request may be answered in any order, to the core that asked, but only after the
caches have had a cycle since it left the core.
`SimSession` takes over what `OpenRegStream` shows of a stream (tasks run in order, one at a time), and
what `TileScheduler` shows of a trace (kernels finish, a synchronization waits for them).
`KernelGen` and `TemplateKernel` share `Tiling`; the first is about kernels made from loop bodies, the
second about those made from templates.

**Steps and atomicity.** A handler that is straight-line code is one action. `Core::cycle` is not:
it has loops whose bodies change state, so `phase` walks through them
(`idle -> compute -> dma -> issue -> retire -> cache`), and every loop
iteration is an action. Nothing else can happen in between, because there is one
thread: all actions of callers require phase `idle`. The loops over cores and slots in
`core_cycle` are walked the same way in `TileScheduler` (`step`, `slot`, `core`). In `MemSystem` one
action is one `core_cycle`, `dram_cycle` or half of an `icnt_cycle`, since the
iterations of those loops touch different queues.

`OpenRegStream` is about real threads, so its steps are what the memory model and the mutexes make
atomic: one atomic access or one critical section. A call such as `orStreamSynchronize` is
a sequence of such steps (`push`, `notify`, `await`, ...), and each thread carries out the steps of its
`plan`. Going to sleep on the condition variable of a stream takes two (`Doze`, which keeps the
mutex, and `Sleep`), because what happens between the test of the predicate and the sleep is where a
notification can be lost. The condition variable may also wake a thread for nothing (`Spurious`).

**Names.** Variables carry the name of the field they model where it is not awkward, and the
comment at each declaration gives it otherwise (`ldq` is `_ld_inst_queue`).

**Abstractions in `Core`.**
- Absolute cycle counts become time left: `left[i]` is `finish_cycle - _core_cycle`.
- The requests of an instruction are counted, not told apart; in the queue, the
  interconnect (`net`) and the memory (`mem`) there is one number per instruction. Any
  order of requests is allowed, which includes the FIFO order of the code.
- The value of a tag is one of absent, pending, done, sparse; the number of uses after
  that only feeds a debug message.
- `SkipCompute` is the branch for a COMP of zero cycles, which erases from a container
  while iterating over it. The model takes both outcomes a build may produce: the
  scan goes on with the next instruction, or the process is gone (`"wild iterator"`).
- A failed check (`exit(EXIT_FAILURE)`, a throwing lookup) sets `exited`, after
  which the model stops.

**Abstractions in the compiler modules.** An element of a tensor is its address in it, so that a
wrong stride, offset or lane shows as a wrong element. The result of an operator is symbolic: a
product is the set of pairs that were multiplied and added, an attention score a bag of differences of
scores, so that a rescaling that is left out or done twice shows. The text of a kernel is abstracted to
its loops and transfers, and those are executed: the runs compare what is left in DRAM with the definition
of the operator. The DMA engine and the matrix unit are external: they are modelled from how the templates
use them (`Place`, `Operand`, `Brought`). A DMA brings nothing for an element behind the end of a
tensor, and writes nothing there.

**Abstractions in `SimSession` and `CompileCache`.** A Python thread can be interrupted where it may give up
the interpreter lock: before a call that blocks, and between calls. A file is absent, partial or whole. The
round of a launch (the synchronizations that precede it) and who ended a session are history that no
guard reads.

**Assumptions.** What the graph parser and the configuration guarantee is stated as named assumptions:
`CoreProgram` (types), `CoreLinks` (instructions are linked inside their tile, each once in its
body), `CoreTransfers` (no transfer without a request), `CoreOverlap` (a COMP overlaps with the one in front
of it for at most its own cycles: the generator of tile graphs subtracts an offset), `CoreConfig`;
`SchedulerKernels` (a subgraph has a tile, belongs to one kernel, and may run on a core of its partition);
`StreamPrograms` (threads make the calls of the API, so each push is followed by its notification and `new`
gives a stream that was not there), and so on. TLC evaluates each on the
programs of the runs. They are the places where the code trusts its input: for example
nothing in it refuses a transfer of zero elements, which would wait for ever.

**Disciplines.** Some properties need more than well-formed input: they need the callers to keep rules that
the code relies on, does not check, and (some of them) cannot keep itself. These are definitions, not
assumptions. A theorem that needs one has it as a hypothesis, so that what depends on it can be read off,
and the MC modules assume them of the programs TLC runs.

| Discipline | Says | Who keeps it |
|---|---|---|
| `TagDiscipline` (`Core`) | the loads of one tag are all asynchronous or none, all sparse or none; a barrier waits for a load that sets its tag | the parser: a tag is the argument and the loop indices of one DMA node, and a node is asynchronous or not; only asynchronous DMAs get a wait node |
| `BarrierDiscipline` (`Core`) | a barrier depends on a load of its tag, or on a later load at the top of the same tile | the parser: the wait stands behind its DMA; instructions of an inner loop hang on the last one in front of it |
| `NullsLead` (`TileScheduler`) | only the first kernel of its partition in a trace is a null kernel | the trace; the code does not check, see *Observed* |
| `StreamDiscipline` (`OpenRegStream`) | a stream that is created or destroyed belongs to the thread that does it; nobody else synchronizes the device meanwhile; nothing is queued after the destruction | the caller, as for any object that is deleted |
| `EventDiscipline` (`OpenRegStream`) | an event is recorded by one thread, and again only after that thread synchronized with the last record | the caller: an event has one flag |
| `LaunchDiscipline` (`OpenRegStream`) | a job is one launch | how jobs are named in the model |

## 3. The runs

Passing runs:

| Run | Question | States | Bounds, and why they suffice |
|---|---|---|---|
| `CoreFlow` | Is the core's bookkeeping consistent, whatever the order of responses? | 117 000 | Tiles from `MCCore`, two slots, two systolic arrays, one port; the constraint `Together` lets the tiles of one set in `FlowCasts` meet. Two slots give two tiles interleaved and a third that takes the place of the first. Loads of two requests with one port are sent over two cycles, so that responses come back while the rest is still unsent. |
| `CoreLive` | Does every tile come back, and the core come to rest? | 8 600 | The chain tile, the empty tile, and a tile that shares its tag |
| `Sched` | Do kernels run in order, complete, and in one place, and does each trace end? | 36 000 | Three cores in two partitions, two slots, two tiles per core. Five traces chosen for: three kernels queued together; a launch behind a sync; a late kernel in front of another; a null kernel; a partition that does not exist |
| `Mem` | Does a transfer ask for the lines it needs, and is each request delivered once, to the right core, and answered in the end? | 29 000 | Two cores with a transfer of two lines each (one row that starts inside a line; two rows apart), two ports each, two channels, three of the four requests to one channel, periods 3, 2, 1 (every phase of the clocks), a bandwidth cap that binds |
| `Stream` | Do jobs run in the order the calls ask for, do waiting calls wait for what they should, and is everyone woken? | 108 000 | Two threads, two streams, two events, four jobs, four programs: `Example` (the calls of `example/example.cpp`), `Crossed` (two streams that wait for each other's events, a synchronization of the device), `Again` (an event recorded again once its first record is over), `Early` (a stream destroyed with work in its queue). Two of each are enough for every pair of parties that can miss each other: caller and worker, worker and worker, caller and event |
| `Session` | Do launches reach their simulator in order, is a synchronization a barrier, and does every session end? | 37 000 | Two threads, two devices, two sessions, a FIFO of one line (so that writers block), one crash. Programs: a session another thread uses while the first ends it; one inside another; one on device 1; one whose thread changes device |
| `Cache` | Does a call run whole files of its own kernel, does its simulator find the graph later, and does it end? | 18 000 | Three calls of one kernel (attached, functional only, autotuning) and one of a kernel that overflows the scratchpad, one death |
| `A2A` | Does the trace carry what the router decided, do its times follow from each other, and does the report count each kernel once and not end too early? | 219 000 | A 3 x 3 torus (the smallest where both directions of a ring differ), nine experts, three of them popular, capacity 2; every builder, both schedulers and the mesh converter, three tables of kernel times (one with a router of which no cycles were read), both options for the time of the network |
| `Kernel` | Do the DMAs of a kernel move the right elements with a tile that fits, and does the search end? | 1 800 | 19 loop nests on two lanes, all but one of them tuned. Sizes are chosen to be no multiples of the tiles; every kind of index of the compiler's tests occurs: transposed, broadcast, FloorDiv, ModularIndexing, gathered, reductions along either axis, low precision |
| `Ops` | Do the operations of a loop body print well-typed lines and give results of the type PyTorch gives? | 336 000 | 59 operations and sequences on every combination of scalars and vectors of 2 and 8 elements of seven types. One size that divides the other, one that is smaller than the vectors of four used for scalars, every pair of types in both orders; a result is again such an operand, so nothing is gained by longer bodies |
| `Templates` | Do the loops of a template leave the result of the operator in DRAM? | 12 000 | Two lanes and 1024 bytes on each; for each job every candidate tile among the first four. Shapes smaller than, equal to and no multiples of a tile; bias, transposed operands, prologue, epilogue, reduction; strides, padding; four convolutions with a dilated window, which `ResultRight` excepts, and two jobs for which there is no tile; sorts of eight elements for all inputs of zeros and ones (which decide about a sorting network) and of four for all orders; attention with several blocks of keys; concatenation of up to three inputs, one of them repeated |

The programs of `MCCore`: `A` is the usual chain (asynchronous load, barrier, matmul, store);
`B` an inner loop whose barriers hang on the last of the outer loads only; `C` a second load of
`A`'s tag; `D` an empty tile; `X` a load left out by sparsity whose matmul becomes
free; `S` a synchronous load with overlapping COMPs. Each is a shape that
`TileLoopNode::get_tiles_from_iter` makes. The traces of `MCScheduler` use kernels with the tile
graph of an accumulation loop (one tile, its iterations, the tile that joins them),
of parallel loops (several subgraphs, one bound to a core), and a plain chain.

What the properties say, by the hazard they guard:

- *`Traffic`*: `Conservation` (an instruction waits for exactly what is on its way), `LastOneOut` and
  `NoLostCompletion` (the last response never comes before the instruction is in the
  waiting queue, where the code would silently drop it).
- *`FinishInOrder`*: `ParentsFirst` and `DataBeforeUse` (no barrier passes before the data of its tag is there,
  although the load counts as finished once its requests are out). *`NothingForgotten`*:
  `register_tag` clears the list of waiters; nobody who needs it is on it. *`NoErrorPath`*:
  no tile of the programs runs into a failed check or a throwing lookup.
- *`TileLifetime`*: a tile is given up when its work is done (`RetiredAreComplete`), and raw pointers outlive no
  tile that is still needed (`OwnerAlive`). *`ServiceSpec`*: the core implements `TileService`.
- *`PipelineTiming`*: the unsigned subtraction in the overlap never wraps.
- *End*: `QuiesceSound` (`running()` is false only when nothing is out), `ComesToRest` (`TileCompletes`: every
  tile comes back; `Quiesces`: `running()` becomes false for good).
- *Scheduling*: `HandedRightly` (a tile goes out after its parents, on the one core of its
  subgraph), `NothingDropped`, `KernelsInTurn`, `SyncComplete`, `CoreContract`, `TraceEnds`.
- *Memory*: `RequestsKept`, `ServiceSpec`, `AllAnswered`; *addresses*: `TransfersWhole` (a transfer of neighbouring
  elements makes no more requests than the bytes of its rows need, or one more for each row, which may start inside
  a line; when all answers are there they hold every byte that the elements would have if the tensor lay `Displacement` bytes
  lower, which is what the shift of the base does, see *Observed*. `ElementByte` says where an element really is,
  without the code's arithmetic. No element may straddle two lines, because only the
  line of its first byte is asked for: its size must divide the line and the base be a
  multiple of eight times its size, so that it is one of its size after the shift as well, see `Aligned`).
- *Streams*: `HappensBefore` (a job starts after the jobs in front of it, in its stream or through
  events), `SyncMeansDone`, `NoLostWakeup`, `StreamsWhole` (no call touches a stream that is gone),
  `CallsReturn` (every call but a destruction comes to its end). The order the calls ask for is recorded in
  history variables (`before`, `covers`, `needs`, `known`) when a task is queued; no guard reads them.
- *Sessions*: `LaunchesArrive` (`SyncFlushes`: when `synchronize` returns on device 0 no earlier command of the
  thread is still in a stream; `LostForAReason`: a launch is lost only to a crash, to another thread
  that ends the session, or to an end on a device whose synchronization waits for nothing), `Barrier`
  (on the timeline of the simulator), `SessionsEnd`.
- *Cache*: `RunsRightKernel` (whole files while no process dies: for what a call runs inside the lock, `RunsWholeFiles`, and
  for the graph that the simulator of a launch reads after the lock is given back, `SimulatorsFindGraph`: it is there, and half written
  only because another call of the same source, which had found none, makes it again; a directory of its own
  for each run; no run of a kernel too large in functional mode), `CallsEnd`.
- *Kernels*: `ElementsRight` (`Addresses`: each DMA touches the addresses of the elements of its tile;
  `SameLayout`: operands of one loop agree on what lies on which lane where; `IndicesCover`: index vectors name
  the elements of the tile), `TileRight` (a tile is within its constraints, buffers do not
  overlap, lanes hold their part), `SearchEnds`, `SearchIsSafe` (tuning never fails a kernel that compiled).
- *Operations*: `OperationsRight` (`TypesAgree`: each line shows the types its operands were defined with, and the
  table says of a value what its line says; `ResultRight`: one value of the size and type PyTorch asks for; `ResultType` is its
  table, not the code's, and `Deviates` names the calls for which the code gives another).
- *Templates*: `ResultRight` (products and convolutions with what is fused, but those with a dilated window; sorts,
  attention, concatenations),
  `Buildable` (`TilesFit`: two copies of each tile fit; `Declared`: all that hooks add is in the text).
- *All-to-all*: `CapacityHeld`; `Causal` (hops, experts and outputs follow each other in time); `TraceTrue`
  (`Delivered`: what is kept is carried there and back; `ReportCovers`: the report counts each run of a kernel once, and its total,
  with the window as the time of the network, is not over before the last packet has arrived or PopNet has stopped).

One run expects a violation, a claim of the repository that its code does not keep (details under
`findings`): `StreamDestroy`. `orStreamDestroy` destroys a stream, says the README of OpenReg; it may never
return, because `stop_flag` is set outside the mutex and a worker about to sleep misses the notification.
Other disagreements between the code and what is said of it are in the next section, with the exception that a property makes
of each; without the exception TLC finds the property violated.

### Observed

What the code does and a reader might not expect. The properties above are stated so that they hold in spite of it;
where one had to leave a case out, this list says so. In the simulator:

- `DEVICE_SYNC` returns early when a null kernel is at the front of a queue: `running()` is false with kernels
  behind it (`Scheduler.cc:52`, against `PyTorchSim/README.md:242`). The traces of `Sched` have no null kernel
  at the front when a sync comes, and the theorem about `SyncComplete` asks for it (`NullsLead`).
- Timestamps are documented in nanoseconds (`README.md:231`, `simulator.py:324`) and compared with core cycles
  (`Scheduler.cc:13`).
- The simple interconnect "adds fixed hop latency" (`README.md:458`); a message behind an overdue one crosses
  faster (`Interconnect.cc:51`).
- The base of a transfer is divided by eight along with its offset (`Instruction.cc:111`, operator precedence;
  line 114 has it right): all lines lie `base - base \div 8` bytes too low. The base is the address of the tensor
  (`data_ptr`, `simulator.py:471`). `TransfersWhole` is about what comes in spite of that; with 0 in the place of `Displacement` TLC finds
  an answered transfer none of whose lines holds a byte of its tensor.
- The comment "Let's retry" at `Core.cc:349` suggests that a cycle gives up all finished tiles;
  `retry` is cleared after one pass, so it gives up one.
- `refresh_status` logs that a kernel "has completed" (`Scheduler.cc:64`) when its last tile is
  taken, not when it is finished.
- The bandwidth credit of a channel (`Dram.cc:473`) grows without bound while the channel is idle.

In the device extension and the front end:

- An event has one flag and no versions (`stream.cpp:115`, against `OpenRegGuard.h:129-133`): when it is recorded
  again while its first record is queued, a waiter goes on too early. `HappensBefore` is checked, and proved,
  for programs that do not (`EventDiscipline`).
- `orStreamQuery` (`stream.cpp:249`) reports success when the queue is empty, though the
  worker may still run the last task.
- `orDeviceSynchronize` uses a copy of the set of streams (`stream.cpp:305`); a stream that another
  thread destroys meanwhile is touched after it is deleted.
- All default streams are created on device 0 (`openreg/__init__.py:84`), so `synchronize` on another device
  waits for nothing. `SyncFlushes` is stated for device 0.
- `synchronize` returns when the command is in the FIFO, not when the kernels have finished: it is a barrier on
  the timeline of the simulator only.
- `open()` of the FIFO waits for ever when the process dies first; an exception in a task is printed and goes
  no further; a compiling process that dies while it makes a tile graph leaves a partial one which nobody
  writes again. `RunsWholeFiles` and `SimulatorsFindGraph` speak of runs without a death.
- The file lock of a kernel does not cover the test whether its tile graph exists (`extension_codecache.py:212`), and the graph
  is written in place. Without any death, a call that looked early makes the graph again after another has launched the kernel,
  and the simulator, which reads it after the lock, may find half of it. "Skip if TOG file already exists" (line 211) is not kept.
  `SimulatorsFindGraph` says that this is the only way to a half-written graph; the run reaches it.
- The kernel id is read and incremented outside the lock (`simulator.py:336`): ids in the log may repeat.

In the compiler:

- The axis of the lanes is moved off a divided axis only when the tile is recompiled anyway
  (`mlir_codegen_backend.py:1319`). When the tile happens to be divisible, as for `x[8, 6] * scale[i // 2]`,
  the operands disagree about the lanes. `SameLayout` leaves this case (`LaneCut`) out.
- A lone `ModularIndexing` with a divisor above one reads other addresses (line 1341); a strided reduction to a
  scalar gives one stride to a tile of two dimensions (1390); the vector size forced at the first
  compilation stays for later tiles (`mlir_common.py:826`); index vectors are wrong when a lane holds
  several rounds of more than one element. These are not among the kernels of the run or excepted where the
  property says so.
- A tile whose vector size is no power of two raises a `RecompileSignal` that nobody catches at the first compilation.
- Sorting is not stable for equal elements and then repeats indices (`mlir_sort_template.py:125`); `Sorted` asks
  for the values, and for the indices where the values differ.
- Attention adds padded keys with score zero when the number of keys is no multiple of its tile, and ignores
  masks; a convolution without bias clears only part of the output tile
  (`mlir_conv_template.py:51`); extra inputs of an epilogue beyond two are not counted against the scratchpad;
  an epilogue with stores of its own replaces the store of the template's output. The jobs of the run stay
  clear of these.
- Convolutions ignore the dilation of their window where they reach the input (`map_I_H`, `map_I_W`, `mlir_conv_template.py:40`;
  the same in the other three), though tiles are sized for it and the lowering takes it. `OutputRight` excepts these (`Dilated`);
  each of the four dilated jobs of the run leaves sums of other products.
- A template for which no tile fits raises: an IndexError when there is no tile of the product (`Refuse`), a RuntimeError
  when there is no window. `conv_multi_tile_mapping` raises the latter for every window with fewer rows than columns, whatever fits
  (`mlir_template.py:330`: the search starts at `max_k_h_w = K_W`).

In the operations (`mlir_ops.py`; `Excepted` in `VectorOps` leaves the calls out that print a wrong line):

- `sqrt`, `cos`, `sin`, `tanh`, `log`, `rsqrt`, `neg` and `pow` cast an f16 operand to f32 and show the type it had
  before; functions of reals print their operation for integers too; `reciprocal` casts an integer into a
  variable nobody reads (`openand`, line 769) and then raises.
- Line 271 compares `op_type1` with `"index"` where `op_type2[1]` is meant: an index is converted as the first operand of
  an integer, not as the second.
- A choice between scalars shows an empty type for its condition (line 149); a vector of one index is printed as a
  vector and then taken for a scalar; a bit cast of an index has no line in MLIR.
- A masked body joins the default f32 constant of line 129, and the constants of `exp2` and `expm1` are f32 (lines 343, 349):
  other types come back as f32, where PyTorch keeps them (`WidensToF32`). The largest or smallest of integers cannot be
  reduced, for want of an infinity (`RefusesIntegers`). `OperationsRight` asks for the right lines of these, not for the right type.
- bf16 begins with neither `i` nor `f`, so no conversion handles it: it is not among the types of the run.
- About values, which the model leaves out: integers are widened and made real as unsigned numbers (`extui`, `uitofp`),
  although `int_truediv` promises true division, and `i1` is widened to other integers as signed, so that true becomes
  -1; the masked body of an integer goes through f32.

In the experiment scripts:

- `communication_parallel_links` counts `2 * ary * dims` links; a torus has `2 * dims * ary ^ dims`.
- The layer trace serves an expert's chunks in the order of the sources, not of arrival
  (`build_switch_layer_trace.py:168`), and with the direct scheduler lets it start before the chunk is there.
- By default, and in `run_switch_layer_benchmark.sh`, the breakdown takes the average delay of a packet for the window of the network
  (`compute_moe_breakdown.py:159`), although what the measured window has beyond the transfer is to be charged to congestion (line 109):
  its total may be over before the last packet is. With `noi-wait-source` set to
  `a2a-window` it never is (`ReportCovers`), but cycles in which some chiplets compute while others send count as both.
- A run of PopNet that did not finish is reported with its last time.

### Fairness

- `Core`: `WF(Cycle)`, because `Simulator::cycle` calls `core_cycle` as long as anything is running.
  Between two cycles the ports pop and push and the scheduler takes finished tiles; each of
  these gets its turn again and again but is disabled while a cycle is under way, so it is
  `SF`. That memory answers is what `AllAnswered` shows of `MemSystem`.
- `TileScheduler`: `WF` on reading commands and on the loop; `SF(Finish(c))`: a core that holds tiles
  finishes one in the end, which is `TileCompletes` of `Core`. `SF(Stop)`: the code stops as soon
  as nothing is running; the model lets a cycle start in that case too, because a store
  still out keeps a core running, and `Quiesces` says that this ends.
- `MemSystem`: `WF(Next)`, one loop in one thread.
- `SimSession`: `WF` for each thread, stream and process, `SF` for taking the lock of the FIFO, which others
  take and give back. Nothing obliges a process to crash.
- `CompileCache`: `WF` for the work of each call, for the read of the simulator and for the time-out of the lock,
  which is what makes a call end whose lock is never free.
- `KernelGen`: the compiler is one thread and goes on while it can (written out as a formula over `Ended`
  instead of `WF(Next)`, which TLC evaluates much more slowly; it means the same, since
  the spec can take a step until it has ended).
- `OpenRegStream`: `WF(Work(s))` for each worker and `SF(Call(h))` for each calling thread: the
  operating system runs every thread, and a mutex that is free again and again is obtained in the
  end (a thread that wants it is disabled while the worker holds it). Spurious wake-ups are not
  fair: nothing may depend on them.

## 4. The proofs

TLAPS checks them for every value of the constants that satisfies the assumptions above: any program,
trace or calling threads, any number of cores, slots, ports, streams and events. What a theorem needs
beyond that stands in front of its arrow. The invariants of the runs, and their action properties, are proved for all
of `Core`, `TileScheduler`, `MemSystem`, `OpenRegStream`, `SimSession` and `CompileCache`, and so are the refinements of
`TileService` and `MemService`; the exceptions are listed at the end.

### Traffic of a core

The first part of `CoreProofs`, for every program, configuration and order of responses:

| Theorem | Statement |
|---|---|
| `TypeCorrect` | `Spec => []TypeInv`, an inductive type invariant stronger than `TypeOK` |
| `TrafficCorrect` | `Spec => []TrafficInv`, the inductive invariant for the memory traffic |
| `ConservationHolds`, `LastOneOutHolds`, `NoCompletionLost`, `TypesHold` | the properties of `CoreFlow` with those names |

The argument. `push_memory_response` moves an instruction from the waiting to the finished queue
when its counter reaches zero, and does nothing if it is not waiting. `dma_cycle` puts it
there only in the cycle *after* the one that sent its last request. Why can the last response not
come in between? Because `Simulator::core_cycle` runs `Dram::cache_cycle` after the cores, and
a request that leaves a core after that must pass the cache cycle of the *next* core cycle,
which comes after the DMA stage that does the hand-over. `LastOneOut` states this: while
the engine holds a transfer whose requests are all out, one of them is still in the request
queue, or in the network and not past the cache cycle. With `Conservation` the
counter is then not zero. Neither `NoLostCompletion` nor `LastOneOut` is inductive alone: the first
needs the second at `PushResponse`, the second needs `Conservation` and the type facts
(`~generated => pending = 0`, `generated => pending > 0`, a busy engine has an
instruction) at `DmaGenerate`. `TrafficInv` is their conjunction with `TypeInv`.
`TypeOK` needs it too: that a counter of responses is never negative
follows from `Conservation`, not from types. The proof has a lemma per group of actions and a frame
lemma (`QuietSteps`, `TrafficFrame`) for those that do not touch the traffic.

`TrafficHolds` restates the three for the property `Traffic` of the run `CoreFlow`.

### Instructions and tiles of a core

The second part of `CoreProofs`:

| Theorem | Statement |
|---|---|
| `CoreImplementsService` | `Spec => ServiceSpec`: the refinement of `TileService`, which `CoreFlow` checks |
| `FlowCorrect` | `Spec => []FlowInv`, the inductive invariant on instructions |
| `ParentsFirstHolds`, `SyncLoadsAreDone`, `RetiredAreCompleteHolds`, `TilesApartHold` | parts of the properties below |
| `TileLifetimeHolds`, `QuiesceSoundHolds` | `Spec => []TileLifetime`, `Spec => []QuiesceSound` |
| `PipelineTimingHolds` | `Spec => PipelineTiming`, an action property |

The argument. The refinement needs only that a tile is in one of the lists of held, finished and returned
tiles, and once (`TilesApart`): then giving up the n-th tile takes exactly that tile away, and each step maps to
an acceptance, a completion, a return or nothing. For the rest one has to know where an instruction is.
`At(i)` is the set of places that hold it: its ready queue, a pipeline, the two DMA queues, the engine, the
waiting and finished queues, a list of waiters. `FlowInv` says that this is at most one place (`OnePlace`), that
nobody stands twice in one (`QueuesDistinct`), which places mean finished (`FinishedWhen`), that nobody
goes anywhere before its parents are finished (`NotTooEarly`), and that `readyCtr` and `nrFinished` are the
numbers of unfinished parents and finished instructions (`CountersRight`). Why is the counter never
decremented twice? Because whoever finishes an instruction takes it out of its place, with two
exceptions: a store, and an asynchronous load, which are finished when the engine gives them up and go on to the
waiting queue. Those, and the list of waiters that `set_tag_finish` leaves behind, are what makes the invariant long: a barrier that
was woken is still in the list, and must not be woken again. It is not, because a tag is set by one load only
(`OneLoadOut`: `register_tag` makes later loads of the same tag skip). `QuiesceSound` then combines `FlowInv`
with the traffic: what is out counts in `waiting`, hence its instruction is in a place `running()` looks at.
`PipelineTiming` rests on the order inside a pipeline (`TimingInv`: time left is sorted, and
nobody but the first has less than nothing left) and on `CoreOverlap`.

The third part of `CoreProofs`:

| Theorem | Statement |
|---|---|
| `TagsCorrect` | `Spec /\ TagDiscipline => []TagInv`, the inductive invariant on tags |
| `FinishInOrderHolds` | `Spec /\ TagDiscipline => []FinishInOrder` |
| `NothingForgottenHolds` | `Spec /\ TagDiscipline => []NothingForgotten` |
| `AssertionsAlwaysHold` | `Spec /\ TagDiscipline => []AssertionsHold` |
| `NoErrorPathHolds` | `Spec /\ TagDiscipline /\ BarrierDiscipline => []NoErrorPath` |

The argument. A tag that is pending has a load on its way that will set it (`PendingTags`), except the tag of a
synchronous load, which stays pending for ever (nobody may wait for it: `TagDiscipline`). Whoever stands in
a list of waiters and is not finished has a pending tag (`TagsRespected`); so a registration that clears
the list forgets nobody, and nobody waits for a tag that is set already. An instruction whose turn has come is in
some place until it is finished (`Everywhere`). That a barrier never looks up a tag that is not in the
table needs the order of issue: the loads at the top of a tile leave the ready queue in the order of the
body (`RootsInOrder`), so a barrier behind the last of them comes after all of them. This is the reason for
`BarrierDiscipline`: a program whose barrier depends on no such load does run into the throwing
lookup. `NoErrorPath` allows one exit, the undefined iterator of a COMP of zero cycles.

### The compile cache

`CacheProofs`, for any number of calls, sources and deaths and any mix of modes:

| Theorem | Statement |
|---|---|
| `CacheCorrect` | `Spec => []CacheInv`, the inductive invariant |
| `RightKernelHolds` | `Spec => []RunsRightKernel`, a property of the run `Cache` |

The argument. Who is inside the lock of a source is written in the program counters
(`LockRight`), so at most one call is. A file is partial only while a call inside the lock writes
it (`FilesMade`, as long as nobody has died), and a call that runs a kernel is inside the lock
itself, hence finds no partial file; that the files are there at all follows from the way it came,
because nothing is removed. The number of a run directory comes from counting the
directories, which gives a free one only because they are always `0 .. n - 1` (`NextIsFree`).
None of this is inductive alone: the files need the lock, the directories need the lock between
counting and making. One lemma per action, and `Enters`, `Leaves` and `KeepsDirectories` for what they share.
What a simulator reads after the lock is part of the invariant too (`Seen`). A launch finds its graph whole under the lock
(`WholeInside`), and nothing removes a file; so later the graph is whole, or partial while a call of the same source writes it
(`FilesMade`), which is another call, because this one has ended. That call is then on its way behind the
writing or at its end, and stays there (`KeepsSeen`), so what the simulator saw remains explained.
`CacheInv` itself is not an invariant of a run: it quantifies over `Nat`.

### Scheduling

`SchedulerProofs`, for any number of partitions, cores, slots and kernels, and all traces:

| Theorem | Statement |
|---|---|
| `TilesTracked`, `SchedCorrect` | `Spec => []TileInv`, `Spec => []SchedInv`, the inductive invariants |
| `ContractHolds` | `Spec => CoreContract`: every core is used as `TileService` allows |
| `HandedRightlyHolds`, `NothingDroppedHolds`, `KernelsInTurnHolds` | `Spec => []...`, the properties of `Sched` |
| `SyncCompleteHolds` | `Spec /\ NullsLead => []SyncComplete` |

The argument goes up from tiles to kernels. *Tiles*: each waits in its subgraph or has gone to one core, once,
and its counter is the number of its parents that are not back (`TileInv`). *Subgraphs*: one that has left its
kernel is in one slot of a core it may run on, or is done, and one with a tile on a core has its home there (`GraphInv`).
This is what makes `GraphFinished` right although it looks at ready and blocked tiles only: a subgraph with
tiles that run is not forgotten, because its tiles are handed out (`NothingDropped` needs no more). *Kernels*:
queues hold launched kernels of their partition in the order of the launches, and only the head has been
started (`QueueInv`). For `SyncComplete` one has to show that `running()` is true while a kernel is left. It
is, as long as the head of a queue has something left to issue (`HeadsBusy`), and a null kernel behind
another breaks exactly that: `refresh_status` drops one kernel, the null kernel comes to the front, and
`empty` looks at nothing else. Hence the hypothesis `NullsLead`; without it the statement is false.

### The memory system

`MemProofs`, for any number of cores, ports and channels, all clock periods and latencies, any channel hash and all plans
of requests:

| Theorem | Statement |
|---|---|
| `MemInvHolds` | `Spec => []MemInv`, the inductive invariant |
| `RequestsKeptHolds` | `Spec => []RequestsKept`, a property of the run `Mem` |
| `MemImplementsService` | `Spec => ServiceSpec`: what a core relies on when it sends requests |
| `TransfersWholeHolds` | `Spec => []TransfersWhole` for any transfers, a property of the run `Mem` |

The argument. All the queues together are one function from names to sequences (`Queues`). `Kept` says that no two
share an entry, that none holds one twice, and that what has been made is in one of them. An action of
`MemSystem` moves many entries at once: `Exchange` alone has one hop per port, per channel and per node. So each
queue gets a set of entries that leave and one of entries that come (`Hop`), and `Round` says that if what leaves
anywhere comes in at exactly one place the queues stay apart and nothing is lost; `Relay` is the case
of single entries handed from the front of one queue to the back of another (`DramCycle`, `Tick`). What remains is to
find those sets and to see that they agree: at a core, the entries that leave its queue are those its ports take
(`EnterThere`, `EnterSource`), no message enters at two nodes (`EnterOnce`), and a node takes from one source
at a time (`ChosenOnce`: the round robin distances of two sources differ). `Kept` alone does not give the service:
`Routed` says that a message is on its way to the node it has to go to, which depends on whether it has
been answered, and that only what has been answered is on its way back; `Fresh` says that a request taken
since the last cycle of the caches has not reached the DRAM, because the caches pass it on in that cycle at the earliest. With these,
`CoreCycle` is the service's `CacheCycle`, `Exchange` is its `Turn` with what the ports take and what arrives at the cores, and
all other steps are stutters. What the assumptions on the plan say is that a request is made by one core, once; this
is so because a core makes each `mem_fetch` anew.

`TransfersWholeHolds` puts this together with the addresses, for any tiles, strides, element widths and bases and
every power of two as the size of a request. It is no consequence of the invariant alone:

- *The plan.* `RequestsOf` puts the lines in the order of their addresses by counting how many lie below
  each. `RankedFacts` (in `QueueLemmas`) shows that this gives every element of a finite set of
  numbers exactly one place. So the plan of a core has as many requests as there are lines, each line once.
- *No line in vain* (`FewRequests`). The lines of a row of neighbours lie between those of its first and last byte,
  at most `Ceiling + 1` (`RowLines`); all lines are the image of rows times such places (`FS_Surjection`, `FS_Product`).
- *All bytes* (`AllCovered`, `InOneLine`). `Displaced`: the address that the code computes is that of the element's first byte, `ElementByte`,
  less `Displacement`, the same for all elements. For an aligned element it is a multiple of its size, and a line is one as well; so the
  last byte is in the same line.
- *All answers* (`AllReceived`). A core ends an instruction by counting answers. By `Kept` no answer is there twice,
  by `Routed` each is one of the core's own requests, and as many distinct elements of a finite set as it has are all
  of it: the count is enough.

The assumptions: `AddressAssumption` (a request size that is a power of two, for which the mask is a
remainder) and `TransferAssumption` (a core's requests are those of its transfer). The proof showed that
`TransfersWhole` as first stated was right for neighbouring elements only: with a stride between the columns each
element may need its own line. It now says so.

### Streams and events

`StreamProofs`, for any number of threads, streams, events and jobs:

| Theorem | Statement |
|---|---|
| `TypesHold` | `Spec => []TypeInv`: types, and each stream is created once |
| `WakeCorrect`, `NoLostWakeupHolds` | `Spec => []WakeInv` (inductive), `Spec => []NoLostWakeup` |
| `StreamsCorrect`, `StreamsWholeHolds` | `Spec /\ StreamDiscipline => []StreamInv` (inductive), `... => []StreamsWhole` |
| `OrderCorrect`, `HappensBeforeHolds` | `Spec /\ EventDiscipline /\ LaunchDiscipline => []FlowInv` (inductive), `... => []HappensBefore` |
| `SyncMeansDoneHolds` | the same for `SyncMeansDone`, with all three disciplines |

The argument. A call becomes several steps of its thread, and `orDeviceSynchronize` puts new ones into the plan
when it copies the registry; so the invariants speak of the steps that are still to come. *Wake-ups*
need no discipline: a dozing worker holds the mutex and has no task (`Dozers`), a sleeping one with a task has a
notification at the front of some plan (`Heard`), and whoever waits for an event that has happened has a worker
that is about to tell it (`Roused`). *Life of a stream*: `LifeInv` and `StopInv` say which steps may still touch a stream
in which state. *Order*: `EventInv` says that while an event is recorded its flag is down and the record is the
only one, so that a raised flag tells of the latest one; `OrderInv` says that whatever a queued
task comes after has run, or is in front of it in its queue, or is covered by an event whose wait is
(`Past`). The waits are where streams depend on each other: when one is passed the flag is up, and then what
the event covers has run. `SyncMeansDone` adds that a worker that leaves has nothing queued, for destructions.

### Sessions

`SessionProofs`, for any number of threads, devices, sessions and crashes, any size of the FIFO and all programs:

| Theorem | Statement |
|---|---|
| `SessionSound` | `Spec => []Sound`, the inductive invariant on commands under way |
| `SessionTypes` | `Spec => []TypeOK` |
| `SyncReturnsFlushed` | `Spec => []SyncFlushes` |
| `SynchronizeSeparates` | `Spec => Barrier`, an action property |
| `LaunchesReachSimulator` | `NestedSessions` implies `Spec => []LaunchesArrive` |

The argument has three layers. *Commands* (`Sound`): a command is in the queue of its device, in the hand of that stream's thread,
in the FIFO or among the kernels of its session, and in one of them (`Placed`); those of one thread, device and session are in the order of
the calls along the way (`InOrder`); and a thread that waits in `orDeviceSynchronize` has, on every device it has
passed, no command left, and where it waits its mark behind its commands (`Flushing`). A mark may be woken by the wrong queue
only if a thread had two, which the shape of its plan excludes (`Shape`, `MarkOnce`). This gives
`SyncFlushes`. It does not give the barrier, because on another device than 0 `synchronize` flushes nothing.

*Barriers* (`Apart`, which adds `Entered` and `Separated`): between two launches of different rounds there is a
DEVICE_SYNC that the process has not read, or the process is simulating and the first of the two is one of the kernels it
simulates, or the second can no longer be written because its FIFO is closed or its process gone. The last case is why
a line that is lost does no harm: a DEVICE_SYNC is lost only when all later lines of the session are lost too. Here the order
of the stream is needed once more, since the FIFO may be closed or broken between the two lines. That a FIFO is never opened
again after it was closed, and that whatever is in a stream is for a session that was entered, is `Entered`.

*Lost launches* (`Arriving`): one thread `o` has all the `with` statements (`Owned(o)`), and what it has left of them is
nested like the chain of `old_tog_simulator` (`Bracketed`, `Chained`): when it closes the FIFO of `s`, the session its
`until` has flushed just before is `s` indeed, because the current simulator ends first. Hence a launch that finds
its FIFO closed was made by another thread, or was not flushed because the device was not 0 (`Reasoned`).
Without nesting this fails: a program that leaves the outer session first synchronizes the
inner one and closes the outer. `NestedSessions` is what `with` statements in one thread are; the run `Session` checks it
of its programs (`Disciplined`).

### All-to-all

`AllToAllProofs`, for every builder of traces, router, number of sources, experts and tokens and every capacity:
`CapacityNeverExceeded` (`Spec => []CapacityHeld`). The counts of one expert are kept by source and added up over the sources;
`KeptFacts` says what the sum becomes when one token more is kept. The proof showed that the property had been stated
wrongly for a capacity of zero: `run_switch_tile_routes.py` (line 65) takes it for "no limit", the other
builders drop every token. `CapacityHeld` now says so.

`TimesFollow` (`Spec => []Causal`), for every torus, number of experts, chunks and tokens, and all costs. The time of a chunk
is a `MapThenSumSet` of the times of its hops, that is a recursive function over sets that takes the terms in an
arbitrary order. `SumsExist`, `SumsFacts` and `SumsAgree` (by the least counterexample, not by
the induction theorems) show that such a function exists for every finite set, that any term may be taken off first,
and that two sums with the same terms agree; hence `Elapsed` grows by exactly one hop at a time (`ElapsedFacts`),
and a packet is over before the next packet of its chunk leaves (`PacketFacts`). For the layer the invariant is `Layered`: each output
in the part of the trace that `build_layer_rows` has done stands behind its dispatch, started when the transfer of that
dispatch was over and when every earlier output of its chiplet had been computed, and the clock of the chiplet has reached its
end. `DispatchesFrom` says that the rows still to come are all dispatches; without it a row could be
replaced twice, and an output be taken for a dispatch. `LayeredStep` is the step of the loop: two rows in the place of one, later rows
shifted. That what the drivers write are rows with times that are numbers, between nodes, is `EmitRows`, one lemma for each builder.

The theorem rests on `TimesAssumption`: the phases are those that the builders accept, each kernel has a cost, and the powers of the size of
the torus are positive numbers, which arithmetic gives but the provers, for want of induction, do not.

### What is only model-checked

- `TraceTrue` of `A2A`: `Delivered` does not hold for every value of the constants of the module (tokens that are not a whole
  number of flits), and that coordinates name a node needs sums of powers, by induction over
  the dimensions; `ReportCovers` adds up cycles by key, over the rows that come first with theirs.
- The compiler runs (`Kernel`, `Ops`, `Templates`): their properties are about the results of recursive definitions
  over shapes, which is induction over data, out of the prover's reach.
- Liveness, also out of its reach: `ComesToRest`, `TraceEnds`, `AllAnswered`, `CallsReturn`, `SessionsEnd`, `CallsEnd`,
  `SearchEnds`.

## 5. Not modelled

- Statistics, trace logs, command-line and YAML parsing: no behaviour depends on them.
- BookSim2 and Ramulator2, behind their wrappers: external simulators. `MemService` is what the
  rest relies on.
- `L2DataCache` and the cache model; the sparse core; the parser; the memory of OpenReg. See the plan.
- The waits that the breakdown adds from a hardware configuration (control, links of a chiplet).
- The values that the operations of a loop body compute: `VectorOps` has their types, and the models of the kernels
  take the values for granted.
- The text of MLIR that the templates and the back end print; the max-pooling template; the
  generator of tile graphs (`AsmParser`), which reads compiled assembly.
- The C++ adapters that register OpenReg with PyTorch; plots, reports and experiment scripts
  other than those `AllToAll` maps.
- In OpenReg's streams: several devices, elapsed times, and the queries, which only read.
- What follows a caught exception inside a cycle (`main.cc:80`): the model stops there.
- 32-bit overflow of DMA offsets, indirect DMA indices, two of the four dimensions.
- Stonne graphs and mixed core types in the scheduler.

## 6. Plan

Done: `Core`, `TileService`, `TileScheduler`, `MemSystem`, `MemService`, `DmaAddress`,
`OpenRegStream`; `SimSession`; `CompileCache`; `Tiling`, `KernelGen` and `VectorOps`;
`TemplateTiles`, `MatmulKernels`, `SortNetwork`, `FlashLoop`, `CatCopy`, `Fusion`, `TemplateKernel`; `AllToAll`;
proofs of every safety property of `Core`, `TileScheduler`, `MemSystem`, `OpenRegStream`, `SimSession` and `CompileCache`,
and of the capacity and the times of `AllToAll`.

Components to model, in this order:

1. `OpenRegMemory`: blocks and nested protection of pages.
2. `SectorCache` and `L2DataCache` behind `MemService`: MSHR and miss queue at their limits;
   one response for each request.
3. `SparseCore`: sub-cores that share a queue, against `TileService`.
4. `TileGraphParser` as pure operators: the links it makes satisfy `CoreLinks` and
   `SchedulerKernels`.
5. A composition of scheduler, core and memory on one small program, for the end condition.
