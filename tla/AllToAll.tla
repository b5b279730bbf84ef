-------------------------------- MODULE AllToAll --------------------------------
(***************************************************************************)
(* The all-to-all experiments of SOTA/QinleTorus and scripts: a driver     *)
(* runs kernels in PyTorchSim and writes a trace with a row per chunk, a   *)
(* builder derives a trace of a whole MoE layer from it, a scheduler turns *)
(* the rows into packets of a bench file, PopNet runs the bench, and its   *)
(* output is turned into metrics.                                          *)
(*                                                                         *)
(* "kind" says which program wrote the trace:                              *)
(*   "pairs"       scripts/run_a2a_pytorchsim.py                           *)
(*   "chunked"     pytorchsim/run_chunked_a2a.py                           *)
(*   "projection"  run_moe_layer.py                                        *)
(*   "expert"      run_switch_moe_layer.py                                 *)
(*   "layer"       the latter and analysis/build_switch_layer_trace.py     *)
(*   "uniform"     analysis/build_switch_a2a_trace.py                      *)
(*   "routed"      run_switch_routed_moe_layer.py                          *)
(*   "checkpoint"  run_switch_hf_moe_layer.py                              *)
(*   "tiles"       run_switch_tile_routes.py, which writes routes only     *)
(* "chunked" has as many chunks as the torus has dimensions, the default.  *)
(* Cycles are integers; the factors of timing.py are in hundredths.        *)
(***************************************************************************)
EXTENDS Integers, Sequences, FiniteSets, FiniteSetsExt, SequencesExt

CONSTANTS
  Ary, Dims,        \* the torus
  Experts,          \* number of experts
  TokenCounts,      \* [kind -> the numbers of tokens per source that a user asks for]
  Capacity,         \* expert capacity
  TokenBytes, FlitSize,
  InjectGap, ChunkGap,
  HopDelay, Slack,  \* 190 and 10: PIPE_DELAY + WIRE_DELAY and slack, in hundredths
  Phases,           \* the sequence of the option --phases
  Routes,           \* [source -> the experts its router may choose]
  Costs,            \* set of [kernel -> cycles], a kernel is <<"router", source>> or <<"expert", expert>>
  Snapshots,        \* the times at which PopNet prints its progress
  Delays,           \* the averages that it may print of the delays of packets
  None

Node == 0 .. Ary^Dims - 1
Nodes == Ary^Dims
Expert == 0 .. Experts - 1
Dim == 0 .. Dims - 1
Kind == {"pairs", "chunked", "projection", "expert", "layer", "uniform", "routed", "checkpoint", "tiles"}

ASSUME AllToAllAssumption ==
  /\ {Ary, Dims, Experts, FlitSize, TokenBytes} \subseteq Nat \ {0} /\ TokenCounts \in [Kind -> SUBSET (Nat \ {0})]
  /\ {Capacity, InjectGap, ChunkGap, HopDelay, Slack} \subseteq Nat /\ Snapshots \subseteq Nat
  /\ Delays \subseteq Nat /\ 0 \in Delays
  /\ Routes \in [Node -> SUBSET Expert]
  /\ Nodes \in Nat \ {0}     \* as a power of such a number is

TimesAssumption ==    \* any other phase raises a ValueError
  /\ Phases \in Seq({"dispatch", "return"})
  /\ \A c \in Costs : /\ \A n \in Node : c[<<"router", n>>] \in Nat
                        /\ \A e \in Expert \cup Node : c[<<"expert", e>>] \in Nat
  /\ \A d \in Dim : Ary^d \in Nat \ {0}
ASSUME TimesParameters == TimesAssumption

VARIABLES
  kind, scheduler, tokens, cost,  \* the experiment
  stage,     \* "check", "route", "emit", "layer", "bench", "run", "done", "raised"
  at,        \* position in the loop of the stage
  raw, kept, \* [Node -> [Expert -> Nat]], tokens routed, and kept under the capacity
  clock,     \* [Node -> Nat], source_ready_cycle of the drivers, expert_available of the layer
  rows,      \* the trace
  bench,     \* the packets; the file has them by their injection cycles
  report     \* what the metrics say of PopNet's run, or None
trace == <<raw, kept, clock, rows>>
vars == <<kind, scheduler, tokens, cost, stage, at, trace, bench, report>>

Zero == [n \in Node |-> 0]
Init ==
  /\ kind \in Kind
  /\ scheduler \in {"direct", "dimrotation"} /\ tokens \in TokenCounts[kind] /\ cost \in Costs
  /\ stage = "check" /\ at = 0 /\ rows = <<>> /\ bench = {} /\ report = None
  /\ clock = Zero /\ raw = [n \in Node |-> [e \in Expert |-> 0]] /\ kept = raw

-------------------------------------------------------------------------------
(* scheduler/topology.py and scheduler/timing.py *)
NodeToCoord(n) == [d \in Dim |-> (n \div Ary^(Dims - 1 - d)) % Ary]
CoordToNode(c) == MapThenSumSet(LAMBDA d : c[d] * Ary^(Dims - 1 - d), Dim)
HopsInDim(a, b) == LET diff == IF a < b THEN b - a ELSE a - b IN Min({diff, Ary - diff})
Distance(src, dst) == MapThenSumSet(LAMBDA d : HopsInDim(src[d], dst[d]), Dim)
DimRotation(chunk) == [i \in Dim |-> (chunk + i) % Dims]
DimOrderPath(src, dst, order) ==
  [i \in 0 .. Dims |-> [d \in Dim |-> IF \E j \in 0 .. i - 1 : order[j] = d THEN dst[d] ELSE src[d]]]
Estimate(hops, flits) == ((hops * HopDelay + flits * 100) * (100 + Slack)) \div 10000 + 1
HopCycles(src, dst, flits) == IF src = dst THEN 0 ELSE Estimate(Distance(src, dst), flits)

PathOf(r) == DimOrderPath(NodeToCoord(r.src), NodeToCoord(r.dst), DimRotation(r.chunk))
FaultyElapsed(r, i) ==       \* every hop takes as long as the first
  i * HopCycles(PathOf(r)[0], PathOf(r)[1], r.flits)
Elapsed(r, i) ==     \* estimated cycles of the first i hops of a chunk
  MapThenSumSet(LAMBDA j : HopCycles(PathOf(r)[j], PathOf(r)[j + 1], r.flits), 0 .. i - 1)
TransferCycles(r) ==
  IF scheduler = "dimrotation" THEN Elapsed(r, Dims)
  ELSE Estimate(Distance(NodeToCoord(r.src), NodeToCoord(r.dst)), r.flits)

-------------------------------------------------------------------------------
(* The drivers.  A pair is a source and an expert on another node; the drivers that have *)
(* no experts send from each node to each other node. *)
HasExperts == kind \notin {"pairs", "chunked", "projection"}
Target == IF HasExperts THEN Expert ELSE Node
Chiplet(e) ==
  IF ~HasExperts THEN e
  ELSE IF kind = "checkpoint" THEN Min({Nodes - 1, (e * Nodes) \div Experts})
  ELSE e \div (Experts \div Nodes)
Pair(i) == <<i \div Cardinality(Target), i % Cardinality(Target)>>
Pairs == Cardinality(Node) * Cardinality(Target)

FaultySplitTokens(n) == [c \in Dim |-> n \div Dims]      \* the remainder is lost
SplitTokens(n) == [c \in Dim |-> (n \div Dims) + (IF c < n % Dims THEN 1 ELSE 0)]
Flits(bytes) == (bytes + FlitSize - 1) \div FlitSize
ChunksOf(n) ==       \* chunks with tokens in them, as <<chunk, tokens>>: the first n if there are not enough for all
  [i \in 1 .. (IF n < Dims THEN n ELSE Dims) |-> <<i - 1, SplitTokens(n)[i - 1]>>]

(* The checks before anything runs: a ValueError ends the program. *)
PerExpert == tokens \div Experts
Divisible ==
  CASE kind \in {"expert", "layer", "uniform"} ->
         Experts % Nodes = 0 /\ tokens % Experts = 0 /\ PerExpert <= Capacity /\ PerExpert % Dims = 0
    [] kind = "chunked" -> (tokens * TokenBytes) % Dims = 0 /\ ((tokens * TokenBytes) \div Dims) % 4 = 0
    [] kind = "projection" -> tokens % Dims = 0
    [] kind = "routed" -> Experts % Nodes = 0
    [] OTHER -> TRUE
(* A kernel of whose log no cycle is read ends the program with a RuntimeError, before it has written a trace. *)
Measured ==
  /\ kind \in {"layer", "uniform", "routed", "checkpoint"} => \A s \in Node : cost[<<"router", s>>] > 0
  /\ kind \in {"projection", "expert", "layer"} => \A e \in Target : cost[<<"expert", e>>] > 0
Check ==
  /\ stage = "check"
  /\ stage' = IF ~Divisible \/ ~Measured THEN "raised" ELSE IF kind \in {"routed", "checkpoint", "tiles"} THEN "route" ELSE "emit"
  /\ UNCHANGED <<kind, scheduler, tokens, cost, at, trace, bench, report>>

(* Top-1 routing under the capacity of an expert.  The loops of "routed" and "tiles" are over tokens first, so *)
(* that the sources take turns. *)
Total(counts, e, S) == MapThenSumSet(LAMBDA s : counts[s][e], S)
KeptBy(e) == Total(kept, e, Node)
Count(s, e, hasRoom) ==
  /\ raw' = [raw EXCEPT ![s][e] = @ + 1]
  /\ kept' = IF hasRoom THEN [kept EXCEPT ![s][e] = @ + 1] ELSE kept
  /\ at' = at + 1 /\ UNCHANGED <<kind, scheduler, tokens, cost, stage, clock, rows, bench, report>>
FaultyRouteUnderCapacity ==      \* one token too many
  /\ stage = "route" /\ kind = "routed" /\ at < Nodes * tokens
  /\ LET s == at % Nodes IN \E e \in Routes[s] : Count(s, e, KeptBy(e) <= Capacity)
RouteUnderCapacity ==        \* apply_capacity: the capacity is that of all sources together
  /\ stage = "route" /\ kind = "routed" /\ at < Nodes * tokens
  /\ LET s == at % Nodes IN \E e \in Routes[s] : Count(s, e, KeptBy(e) < Capacity)
RoutePerSource ==
  /\ stage = "route" /\ kind = "checkpoint" /\ at < Nodes * tokens
  /\ LET s == at \div tokens IN \E e \in Routes[s] : Count(s, e, raw[s][e] < Capacity)
RouteTile ==                 \* no capacity at all when it is 0
  /\ stage = "route" /\ kind = "tiles" /\ at < Nodes * tokens
  /\ LET s == at % Nodes IN \E e \in Routes[s] : Count(s, e, Capacity = 0 \/ raw[s][e] < Capacity)
Routed ==
  /\ stage = "route" /\ at = Nodes * tokens /\ at' = 0
  /\ stage' = IF kind = "tiles" THEN "done" ELSE "emit"
  /\ UNCHANGED <<kind, scheduler, tokens, cost, trace, bench, report>>

(* The rows of one pair. *)
Row(s, e, chunk, flits, phase, ready, cycles, key) ==
  [src |-> IF phase = "return" THEN Chiplet(e) ELSE s, dst |-> IF phase = "return" THEN s ELSE Chiplet(e),
   origin |-> s, expert |-> e, chunk |-> chunk, flits |-> flits, phase |-> phase,
   ready |-> ready, cycles |-> cycles, key |-> key]
AddRows(new) == rows' = rows \o new /\ UNCHANGED clock
PairIndex == MapThenSumSet(LAMBDA i : IF Pair(i)[1] # Pair(i)[2] THEN 1 ELSE 0, 0 .. at - 1)
PairRow(s, e) ==
  AddRows(<<Row(s, e, 0, Flits(tokens * TokenBytes), "dispatch", PairIndex * InjectGap, 0, <<"none", s, e>>)>>)
ChunkRows(s, e) ==
  AddRows([c \in 1 .. Dims |->
    Row(s, e, c - 1, Flits((tokens * TokenBytes) \div Dims), "dispatch",
        PairIndex * InjectGap + (c - 1) * ChunkGap, 0, <<"none", s, e, c>>)])

InTurn(s, e, each) ==        \* the chunks of a source are computed one after the other
  /\ rows' = rows \o [c \in 1 .. Dims |->
       Row(s, e, c - 1, Flits((each \div Dims) * TokenBytes), "dispatch",
           clock[s] + c * cost[<<"expert", e>>], cost[<<"expert", e>>], <<"event", s, e, c>>)]
  /\ clock' = [clock EXCEPT ![s] = @ + Dims * cost[<<"expert", e>>]]
ProjectionRows(s, e) == InTurn(s, e, tokens)
ExpertRows(s, e) == InTurn(s, e, PerExpert)

Accounted(s) == \E i \in DOMAIN rows : rows[i].key = <<"router", s>>
PhaseOf(i) == Phases[((i - 1) % Len(Phases)) + 1]
Traffic(s, e, n) ==          \* n tokens in each phase, all of them ready when the router is done
  LET router == cost[<<"router", s>>]
  IN AddRows([i \in 1 .. Len(ChunksOf(n)) * Len(Phases) |->
       LET c == ChunksOf(n)[((i - 1) \div Len(Phases)) + 1]
           first == ~Accounted(s) /\ PhaseOf(i) = "dispatch" /\ \A j \in 1 .. i - 1 : PhaseOf(j) # "dispatch"
       IN Row(s, e, c[1], Flits(c[2] * TokenBytes), PhaseOf(i), router,
              IF first THEN router ELSE 0, IF first THEN <<"router", s>> ELSE <<"none", s, e, i>>)])
UniformRows(s, e) == Traffic(s, e, PerExpert)
RoutedRows(s, e) == Traffic(s, e, kept[s][e])
CheckpointRows(s, e) == Traffic(s, e, kept[s][e])

EmitPair ==
  /\ stage = "emit" /\ at < Pairs /\ at' = at + 1
  /\ LET s == Pair(at)[1]  e == Pair(at)[2] IN
       \/ Chiplet(e) = s /\ UNCHANGED <<rows, clock>>
       \/ /\ Chiplet(e) # s
          /\ \/ kind = "pairs" /\ PairRow(s, e)
             \/ kind = "chunked" /\ ChunkRows(s, e)
             \/ kind = "projection" /\ ProjectionRows(s, e)
             \/ kind \in {"expert", "layer"} /\ ExpertRows(s, e)
             \/ kind = "uniform" /\ UniformRows(s, e)
             \/ kind = "routed" /\ RoutedRows(s, e)
             \/ kind = "checkpoint" /\ CheckpointRows(s, e)
  /\ UNCHANGED <<kind, scheduler, tokens, cost, stage, raw, kept, bench, report>>

FlitsOf(S) == MapThenSumSet(LAMBDA n : rows[n].flits, S)
EachNodeMoves(flits) ==
  \A a \in Node : /\ FlitsOf({n \in DOMAIN rows : rows[n].src = a}) = (Nodes - 1) * flits
                  /\ FlitsOf({n \in DOMAIN rows : rows[n].dst = a}) = (Nodes - 1) * flits
CheckPairs == Len(rows) = Nodes * (Nodes - 1) /\ EachNodeMoves(Flits(tokens * TokenBytes))
CheckChunks ==
  Len(rows) = Nodes * (Nodes - 1) * Dims /\ EachNodeMoves(Dims * Flits((tokens * TokenBytes) \div Dims))
CheckProjections ==
  /\ Len(rows) = Nodes * (Nodes - 1) * Dims /\ EachNodeMoves(Dims * Flits((tokens \div Dims) * TokenBytes))
  /\ \A n \in DOMAIN rows : rows[n].cycles > 0
CheckExperts ==
  /\ Len(rows) = Nodes * (Experts - Experts \div Nodes) * Dims
  /\ \A n \in DOMAIN rows : rows[n].cycles > 0 /\ rows[n].ready > 0
CheckTrace ==
  CASE kind = "pairs" -> CheckPairs
    [] kind = "chunked" -> CheckChunks
    [] kind = "projection" -> CheckProjections
    [] kind \in {"expert", "layer"} -> CheckExperts
    [] OTHER -> rows # <<>>
Emitted ==           \* an assertion of check_trace or an empty trace ends the program
  /\ stage = "emit" /\ at = Pairs /\ at' = 1
  /\ stage' = IF ~CheckTrace THEN "raised" ELSE IF kind = "layer" THEN "layer" ELSE "bench"
  /\ clock' = Zero /\ UNCHANGED <<kind, scheduler, tokens, cost, raw, kept, rows, bench, report>>

-------------------------------------------------------------------------------
(* build_layer_rows: a chunk is dispatched when the router of its source is done, waits for the chiplet *)
(* of its expert, and returns when the expert is done.  The chunks are taken in the order of the sources. *)
ExpertKey(r) == <<"expert", r.origin, r.expert, r.chunk>>
ExpertStart(r, arrives) == Max({clock[r.dst], arrives})
LayerRow ==
  /\ stage = "layer" /\ at <= Len(rows)
  /\ LET r == rows[at]
         router == cost[<<"router", r.origin>>]
         arrives == router + TransferCycles(r)
         done == ExpertStart(r, arrives) + r.cycles
         dispatch == [r EXCEPT !.ready = router, !.key = <<"router", r.origin>>,
                               !.cycles = IF Accounted(r.origin) THEN 0 ELSE router]
         return == [r EXCEPT !.src = r.dst, !.dst = r.src, !.phase = "return", !.ready = done,
                             !.key = ExpertKey(r)]
     IN /\ rows' = SubSeq(rows, 1, at - 1) \o <<dispatch, return>> \o SubSeq(rows, at + 1, Len(rows))
        /\ clock' = [clock EXCEPT ![r.dst] = done]
  /\ at' = at + 2 /\ UNCHANGED <<kind, scheduler, tokens, cost, stage, raw, kept, bench, report>>
LayerDone ==
  /\ stage = "layer" /\ at > Len(rows) /\ stage' = "bench"
  /\ UNCHANGED <<kind, scheduler, tokens, cost, at, trace, bench, report>>

(* The schedulers.  A packet remembers the rows it carries. *)
Hops(r) == {i \in 0 .. Dims - 1 : PathOf(r)[i] # PathOf(r)[i + 1]}
ScheduleDimRotation ==
  {[at |-> rows[n].ready + Elapsed(rows[n], i), src |-> PathOf(rows[n])[i], dst |-> PathOf(rows[n])[i + 1],
    flits |-> rows[n].flits, of |-> {n}, hop |-> i] : n \in DOMAIN rows, i \in Dim}
Between(src, dst) == {n \in DOMAIN rows : rows[n].src = src /\ rows[n].dst = dst}
ScheduleDirect ==    \* one packet for a source and a destination, at the earliest cycle of its rows
  {[at |-> Min({rows[n].ready : n \in ns}), src |-> NodeToCoord(rows[Min(ns)].src),
    dst |-> NodeToCoord(rows[Min(ns)].dst), flits |-> MapThenSumSet(LAMBDA n : rows[n].flits, ns),
    of |-> ns, hop |-> 0] : ns \in {Between(p[1], p[2]) : p \in Node \X Node} \ {{}}}
ScheduleMesh ==      \* pytorchsim_csv_to_popnet.py: the rows as they are
  {[at |-> rows[n].ready, src |-> NodeToCoord(rows[n].src), dst |-> NodeToCoord(rows[n].dst),
    flits |-> rows[n].flits, of |-> {n}, hop |-> 0] : n \in DOMAIN rows}
Schedule ==
  IF kind = "pairs" THEN ScheduleMesh
  ELSE IF scheduler = "direct" THEN ScheduleDirect
  ELSE {p \in ScheduleDimRotation : \E n \in p.of : p.hop \in Hops(rows[n])}
BuildBench ==
  /\ stage = "bench" /\ stage' = "run" /\ bench' = Schedule
  /\ UNCHANGED <<kind, scheduler, tokens, cost, at, trace, report>>

-------------------------------------------------------------------------------
(* compute_moe_breakdown.py *)
ComputeTime == Max({rows[n].ready : n \in DOMAIN rows})
UniqueCompute ==     \* the first row of each key counts
  MapThenSumSet(LAMBDA n : rows[n].cycles,
                {n \in DOMAIN rows : \A m \in 1 .. n - 1 : rows[m].key # rows[n].key})
ParallelLinks == 2 * Ary * Dims
BenchFlits == MapThenSumSet(LAMBDA p : p.flits, bench)
NoiTransfer ==
  Max({(BenchFlits + ParallelLinks - 1) \div ParallelLinks} \cup {rows[n].flits : n \in DOMAIN rows})
(* PopNet prints the time and the number of packets finished now and then, and stops when its time is up; *)
(* parse_stdout and compute_metrics read that.  No packet is finished before it has been injected.         *)
FinishTime(seen) ==      \* seen: [times printed -> packets finished]
  LET all == {t \in DOMAIN seen : seen[t] >= Cardinality(bench)}
  IN IF all = {} THEN Max(DOMAIN seen) ELSE Min(all)
FirstInjection == Min({p.at : p \in bench})
Injected(t) == Cardinality({p \in bench : p.at <= t})
(* The option --noi-wait-source says what stands for the network's time: by default the average delay of a *)
(* packet, else the window from the first injection to the end.  The waits for control and for the links  *)
(* of a chiplet, constants of a configuration that are added, are left out.                               *)
NetworkTime(source, delay, latency) == IF source = "average-delay" THEN delay ELSE latency
Breakdown(source, delay, finish) ==
  LET network == NetworkTime(source, delay, finish - FirstInjection)
      extra == Max({0, network - NoiTransfer})
  IN [source |-> source, finish |-> finish, unique |-> UniqueCompute,
      transfer |-> NoiTransfer, congestion |-> extra, total |-> ComputeTime + NoiTransfer + extra]
RunPopNet ==
  /\ stage = "run" /\ stage' = "done"
  /\ \E seen \in [Snapshots -> {0, Cardinality(bench) - 1, Cardinality(bench)}] :
       /\ \A t, u \in Snapshots : t < u => seen[t] <= seen[u]
       /\ \A t \in Snapshots : seen[t] <= Injected(t)
       /\ \E source \in {"average-delay", "a2a-window"}, delay \in Delays :
            /\ delay <= Max({0, FinishTime(seen) - FirstInjection})
            /\ report' = Breakdown(source, delay, FinishTime(seen))
  /\ UNCHANGED <<kind, scheduler, tokens, cost, at, trace, bench>>

Next ==
  \/ Check \/ RouteUnderCapacity \/ RoutePerSource \/ RouteTile \/ Routed \/ EmitPair \/ Emitted \/ LayerRow \/ LayerDone \/ BuildBench \/ RunPopNet
Spec == Init /\ [][Next]_vars

-------------------------------------------------------------------------------
\* An expert never takes more than its capacity (of all sources, or of each), and a token is dropped only
\* when its expert has no room left, though the sources are served token by token.  A capacity of zero is
\* none for the tiles and no room at all for the others.
CapacityHeld ==
  \A e \in Expert :
    IF kind = "routed"
      THEN /\ KeptBy(e) <= Capacity
           /\ (\E s \in Node : kept[s][e] < raw[s][e]) => KeptBy(e) = Capacity
      ELSE \A s \in Node : kept[s][e] = IF kind = "tiles" /\ Capacity = 0 THEN raw[s][e]
                                       ELSE Min({raw[s][e], Capacity})

HopsOf(n) == {p \in bench : n \in p.of}
\* What the routers keep is what the network carries.  The chunks of a source and an expert hold all the
\* tokens kept, out and back; no assertion of a check_trace fails; every row is in packets that lead from
\* its source to its destination, under DimRotation in steps of one dimension.
Delivered ==
  /\ stage = "raised" => ~Divisible \/ ~Measured \/ rows = <<>>
  /\ stage \in {"run", "done"} /\ kind # "tiles" =>
    /\ kind \in {"routed", "checkpoint"} => \A s \in Node, e \in Expert, ph \in {"dispatch", "return"} :
         Chiplet(e) # s =>
           FlitsOf({n \in DOMAIN rows : rows[n].origin = s /\ rows[n].expert = e /\ rows[n].phase = ph})
             = kept[s][e] * (TokenBytes \div FlitSize)
    /\ \A n \in DOMAIN rows :
         LET src == NodeToCoord(rows[n].src)  dst == NodeToCoord(rows[n].dst) IN
         /\ \E p \in HopsOf(n) : p.src = src
         /\ \A p \in HopsOf(n) : p.dst = dst \/ \E q \in HopsOf(n) : q.hop > p.hop /\ q.src = p.dst
         /\ CoordToNode(dst) = rows[n].dst
    /\ scheduler = "dimrotation" /\ kind # "pairs" => \A p \in bench : \E d \in Dim :
         p.src # p.dst /\ \A c \in Dim \ {d} : p.src[c] = p.dst[c]

\* The chain of times through builder and scheduler: under DimRotation a chunk takes a hop when the hop
\* before it should be over, an expert works on a chunk that has arrived and on one chunk at a time, and
\* its output leaves when it is done.
Causal ==
  stage \in {"run", "done"} =>
    /\ scheduler = "dimrotation" => \A n \in DOMAIN rows : \A p, q \in HopsOf(n) :
         p.hop < q.hop => q.at >= p.at + HopCycles(p.src, p.dst, p.flits)
    /\ kind = "layer" => \A n, m \in DOMAIN rows :
         /\ rows[m].phase = "return" /\ n = m - 1 => \A p \in HopsOf(n) :
              scheduler = "dimrotation" =>
                rows[m].ready - rows[m].cycles >= p.at + HopCycles(p.src, p.dst, p.flits)
         /\ (rows[n].phase = "return" /\ rows[m].phase = "return" /\ rows[n].src = rows[m].src /\ n < m)
              => rows[m].ready - rows[m].cycles >= rows[n].ready

\* The breakdown counts each run of a kernel once, a router for each source that sends and an expert for each
\* chunk; and, with the window for the network's time, its end-to-end time is not over before the last packet
\* has arrived, or PopNet has stopped.  (It may be later: cycles in which some chiplets compute while others
\* send count as both.  With the average delay it may be too early.)
ReportCovers ==
  report # None =>
    /\ report.source = "a2a-window" => report.total >= report.finish
    /\ kind \in {"layer", "uniform", "routed", "checkpoint"} => report.unique =
      MapThenSumSet(LAMBDA s : cost[<<"router", s>>], {rows[n].origin : n \in DOMAIN rows})
      + (IF kind # "layer" THEN 0
         ELSE MapThenSumSet(LAMBDA n : cost[<<"expert", rows[n].expert>>],
                            {n \in DOMAIN rows : rows[n].phase = "return"}))

\* Together: the trace and the report say of the network what the model and the router made of the tokens.
TraceTrue == Delivered /\ ReportCovers
===============================================================================
