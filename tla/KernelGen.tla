------------------------------- MODULE KernelGen -------------------------------
(***************************************************************************)
(* Code generation for one fused kernel: the choice of a tile, a DMA for   *)
(* each access of the loop body, the retries when an access needs another  *)
(* tile, and the search for the fastest tile (mlir/mlir_common.py,         *)
(* BaseMLIRKernel; mlir/mlir_codegen_backend.py, MLIRKernel).              *)
(*                                                                         *)
(* A kernel is [ranges, depth, body]: the sizes of its loops, how many of  *)
(* them are no reductions, and its accesses in program order.  An access   *)
(* is [op, name, terms, indirect, from, type]; op is "load", "store",      *)
(* "store_reduction", "reduction" or "index"; the index is the sum of its  *)
(* terms [dim, coeff, floor, mod], each coeff * ((x_dim // floor) % mod),  *)
(* mod = 0 for none; "indirect" adds a loaded value to it; "from" is the   *)
(* place of the load that a store copies, or 0.                            *)
(***************************************************************************)
EXTENDS Tiling

CONSTANTS
  Kernels,     \* the kernels, a sequence
  Autotune,    \* the kernels that are compiled in autotune mode
  LowpVec,     \* vlen // 16, the cap for kernels with f16 or bf16 buffers
  Lowp,        \* the kernels that have such buffers
  MaxRetry,    \* max_retry_compile, 5
  MaxStep,     \* the bound 10 on steps of the search that give no new tile
  MaxTile,     \* 2 ** 13
  Costs(_),    \* Costs(n): the cycles that n candidates may take, Inf for one that fails
  Inf, None

VARIABLES
  k,           \* the kernel, an index of Kernels
  tile,        \* kernel_group.tile_desc
  pc,          \* "compute", "body", "code", "stride", "while", "tune", "done", "raised"
  mode,        \* which compilation this is: "first", "initial" of a stride, "grow"
  recompile,   \* recodegen = "recompile"
  tries,       \* recompile_try
  loop,        \* [size, step] of the compute loop
  at,          \* the next access
  dmas,        \* the DMAs emitted for the accesses before it
  start,       \* initial_tile_size of the search
  strides,     \* the lane strides left to try
  axes, todo,  \* candidate_axes, and what the for loop over them has left
  seen, count, \* search_space and prevent_infinite_loop
  choices,     \* sequence of [size, split, stride, dmas]
  chosen       \* the candidate that is used, 0 when it is the first code, None before
body == <<loop, at, dmas>>
search == <<start, strides, axes, todo, seen, count, choices, chosen>>
vars == <<k, tile, pc, mode, recompile, tries, body, search>>

Kernel == Kernels[k]
Ranges == Kernel.ranges
NrDim == Len(Ranges)
Ascending(S) == SortSeq(SetToSeq(S), <)

(* set_ranges, and the tile a kernel starts with, with the two edge cases of compute_tile_size. *)
FirstTile(kernel) ==
  LET split == kernel.depth
      t == [MultiDimTile(InitTileSize(kernel.ranges, 2), split, 2) EXCEPT !.nr = Len(kernel.ranges) - kernel.depth]
  IN CASE kernel.ranges = <<1>> -> [t EXCEPT !.stride = 1, !.split = 1]
       [] kernel.ranges # <<1>> /\ split = 0 -> [t EXCEPT !.split = 1, !.stride = t.size[1]]
       [] OTHER -> t
Init ==
  /\ k \in 1 .. Len(Kernels) /\ tile = FirstTile(Kernels[k])
  /\ pc = "compute" /\ mode = "first" /\ recompile = FALSE /\ tries = 0
  /\ loop = None /\ at = 1 /\ dmas = <<>>
  /\ start = <<>> /\ strides = <<>> /\ axes = {} /\ todo = <<>> /\ seen = {} /\ count = 0
  /\ choices = <<>> /\ chosen = None

-------------------------------------------------------------------------------
(* compute_tile_size *)
IsView(term) == term.floor > 1 \/ term.mod > 0
Implicit(a) ==
  /\ a.op = "load" /\ \E i \in DOMAIN a.terms : IsView(a.terms[i])
  /\ Len(a.terms) > 1 \/ a.terms[1].coeff > 1
(* The terms of these accesses, for each kernel, and their dimensions in the order in which the dictionary *)
(* of extract_dividers meets them.                                                                         *)
ImplicitTerms ==
  [n \in DOMAIN Kernels |-> FoldLeft(LAMBDA terms, a : terms \o a.terms, <<>>, SelectSeq(Kernels[n].body, Implicit))]
DimOrder ==
  [n \in DOMAIN Kernels |->
    FoldLeft(LAMBDA dims, t : IF Contains(dims, t.dim) THEN dims ELSE Append(dims, t.dim), <<>>, ImplicitTerms[n])]
ViewsOf(dim) == {v \in Range(ImplicitTerms[k]) : v.dim = dim}
Dividers == [i \in DOMAIN DimOrder[k] |-> {v.floor : v \in ViewsOf(DimOrder[k][i])}]

Trimmed(t) == TrimLargeTail(t, Ranges)
TrimFails(t) == NoTile \in Range(Trimmed(t).size)
TrimmedBefore(t) ==    \* the axes before the one that fails are trimmed already
  LET bad == Min({i \in Axes(t) : Trimmed(t).size[i] = NoTile})
  IN [t EXCEPT !.size = [i \in Axes(t) |-> IF i < bad THEN Trimmed(t).size[i] ELSE @[i]]]
Constrained == ApplyConstraints(tile, Dividers)
Adjusted == PadLaneTile(SelectLaneAxis(Trimmed(Constrained)))

(* get_safe_vec_size; forced_vec_size stays what the last compilation set. *)
SafeVec(t) == IF k \in Lowp /\ LowpVec > 0 THEN Smaller(ComputeVec(t), LowpVec) ELSE ComputeVec(t)
Forced(t) == [t EXCEPT !.forced = SafeVec(t)]
Rejected(t) == LET v == ComputeVec(t) IN v > 1 /\ \A e \in 1 .. 20 : 2^e # v    \* no power of two

(* What an exception that leaves codegen_nodes does: make_choices catches a rejected tile, and a size error  *)
(* only while it grows a tile.                                                                               *)
FaultyLeave(what) ==     \* only a size error is caught while a tile grows
  /\ UNCHANGED <<start, strides, seen, count, choices, chosen>>
  /\ CASE mode = "grow" /\ what = "size" -> pc' = "while" /\ axes' = axes \ {Head(todo)} /\ todo' = Tail(todo)
       [] mode = "initial" /\ what = "rejected" -> pc' = "stride" /\ UNCHANGED <<axes, todo>>
       [] OTHER -> pc' = "raised" /\ UNCHANGED <<axes, todo>>
Leave(what) ==
  /\ UNCHANGED <<start, strides, seen, count, choices, chosen>>
  /\ CASE mode = "grow" /\ what \in {"rejected", "size"} ->
            /\ pc' = "while" /\ axes' = axes \ {Head(todo)} /\ todo' = Tail(todo)
       [] mode = "initial" /\ what = "rejected" -> pc' = "stride" /\ UNCHANGED <<axes, todo>>
       [] OTHER -> pc' = "raised" /\ UNCHANGED <<axes, todo>>

ComputeTileSize ==
  /\ pc = "compute"
  /\ IF NrDim > 4 \/ (~recompile /\ TrimFails(Constrained)) THEN
       /\ tile' = IF NrDim > 4 THEN tile ELSE TrimmedBefore(Constrained)
       /\ Leave("size") /\ UNCHANGED body
     ELSE
       \E t \in {Forced(IF recompile THEN Constrained ELSE Adjusted)} :
         /\ tile' = t
         /\ IF Rejected(t) THEN Leave("rejected") /\ UNCHANGED body
            ELSE /\ loop' = [size |-> NumelPerLane(t), step |-> ComputeVec(t)] /\ at' = 1 /\ dmas' = <<>>
                 /\ pc' = "body" /\ UNCHANGED search
  /\ UNCHANGED <<k, mode, recompile, tries>>

-------------------------------------------------------------------------------
(* get_dma_info: the tile of one access, and how far apart its elements are in DRAM *)
DimsOf(terms) == {terms[i].dim : i \in DOMAIN terms}
HasMod(terms) == \E i \in DOMAIN terms : terms[i].mod > 0
LocalDims(a) ==
  IF a.op = "store_reduction" THEN SelectSeq([i \in 1 .. NrDim |-> i], LAMBDA d : d \in DimsOf(a.terms))
  ELSE [i \in 1 .. NrDim |-> i]

(* An axis order that makes the reduced axes the outer ones of the scratchpad, as the compute loop wants. *)
AxisOrder(a, n) ==
  LET reduces == a.op # "store_reduction" /\ (IF n = 2 THEN Kernel.depth = 1 ELSE Kernel.depth < n)
  IN CASE reduces /\ n = 2 -> <<1, 0>>
       [] reduces /\ n = 3 -> IF NrDim - Kernel.depth = 1 THEN <<1, 2, 0>> ELSE <<2, 1, 0>>
       [] OTHER -> [i \in 1 .. n |-> i - 1]
Supported(a) ==
  LET n == Len(LocalDims(a))
  IN n <= 4 /\ ~(n = 4 /\ Kernel.depth < 3 /\ a.op # "store_reduction")
LocalTile(t, a) ==
  LET dims == LocalDims(a)
      n == Len(dims)
      split == IF t.split \in Range(dims) THEN CHOOSE i \in 1 .. n : dims[i] = t.split ELSE Larger(n, 1)
      sizes == [i \in 1 .. n |-> t.size[dims[i]]]
      Of(size, axis, stride) == [MultiDimTile(size, 0, 1) EXCEPT !.split = axis, !.stride = stride]
  IN CASE n = 0 /\ a.op # "store_reduction" -> Of(<<UsedLanes(t) * t.stride>>, 1, t.stride)
       [] n = 0 /\ a.op = "store_reduction" -> Of(<<1>>, 1, 1)
       [] n = 1 /\ Kernel.depth = 0 -> Of(<<1>> \o sizes, split + 1, t.stride)
       [] OTHER -> [Of(sizes, split, t.stride) EXCEPT !.order = AxisOrder(a, n)]

(* When a view has another number of terms than the tile has axes, the terms of a dimension with the greater *)
(* divisors are left out.                                                                                    *)
Used(a) ==
  LET Dropped(t) == \E v \in ViewsOf(t.dim) : v.floor < t.floor
  IN IF a.terms # <<>> /\ Len(a.terms) # Len(LocalDims(a)) /\ HasMod(a.terms)
     THEN SelectSeq(a.terms, LAMBDA t : ~Dropped(t)) ELSE a.terms
(* A plain index, a single dimension or none, has a stride for each axis of the tile; any other has one for  *)
(* each of its dimensions and for those it lacks.                                                            *)
IsPlain(terms) == terms = <<>> \/ (Len(terms) = 1 /\ terms[1].coeff = 1 /\ ~IsView(terms[1]))
DramDims(a) ==
  LET most == IF a.op = "store_reduction" THEN NrDim - 1 ELSE NrDim
  IN IF IsPlain(Used(a)) THEN LocalDims(a) ELSE Ascending(DimsOf(Used(a)) \cup 1 .. most)
StrideOf(terms, d) ==    \* of the first of the finest terms
  LET Finer(best, t) == IF t.dim = d /\ (best.floor = 0 \/ t.floor < best.floor) THEN t ELSE best
  IN FoldLeft(Finer, [coeff |-> 0, floor |-> 0], terms).coeff
DimStrides(a) == LET dims == DramDims(a) IN [i \in DOMAIN dims |-> StrideOf(Used(a), dims[i])]

(* A quotient by the divisor of an axis does not change along the inner part of the axis. *)
DivisorOf(terms, d) ==
  IF HasMod(terms) THEN 1 ELSE FoldLeft(LAMBDA cut, t : IF t.dim = d /\ t.floor > 1 THEN t.floor ELSE cut, 1, terms)
Divisors(a) == LET dims == LocalDims(a) IN [i \in DOMAIN dims |-> DivisorOf(Used(a), dims[i])]
Split(local, cuts) ==
  LET Cut(done, i) ==
        IF cuts[i] = 1 THEN done
        ELSE [tile |-> ApplyDivisor(done.tile, i + done.added, cuts[i]), added |-> done.added + 1]
  IN FoldLeft(Cut, [tile |-> local, added |-> 0], [i \in DOMAIN cuts |-> i]).tile
Apart(each, cuts) ==
  FoldLeft(\o, <<>>, [i \in DOMAIN each |-> IF i \in DOMAIN cuts /\ cuts[i] > 1 THEN <<each[i], 0>> ELSE <<each[i]>>])
DramStride(a, each, cuts) ==    \* the only loop of a reduction to a scalar has a dummy loop around it
  LET dummy == Kernel.depth = 0 /\ NrDim = 1
      apart == Apart(each, cuts)
  IN CASE LocalDims(a) = <<>> -> <<0>>
       [] LocalDims(a) # <<>> /\ dummy /\ ~IsPlain(Used(a)) -> <<0>> \o Front(apart)
       [] OTHER -> (IF dummy THEN <<0>> ELSE <<>>) \o apart

(* allocate_sram_buffer: one buffer for a tensor and an index. *)
BufferOf(a) == <<a.name, a.terms>>
DmaOf(t, a) ==    \* the set of the one DMA
  {[access |-> at, size |-> local.size, order |-> local.order, split |-> local.split, stride |-> local.stride,
    cuts |-> cuts, dram |-> DramStride(a, each, cuts), buffer |-> BufferOf(a), type |-> a.type]
      : local \in {Split(LocalTile(t, a), Divisors(a))}, each \in {DimStrides(a)}, cuts \in {Divisors(a)}}

(* The first view of the access that the tile does not suit, and the tile to try instead. *)
FloorMisfit(t, a) ==
  IF HasMod(a.terms) THEN {}
  ELSE {i \in DOMAIN a.terms : a.terms[i].floor > 1 /\ a.terms[i].dim \in Range(LocalDims(a))
                               /\ t.size[a.terms[i].dim] % a.terms[i].floor # 0}
ForFloor(t, term) ==
  LET wider == Fix(t, term.dim, UpTo(t.size[term.dim], term.floor * t.stride))
  IN IF term.dim = t.split THEN [wider EXCEPT !.split = 1 + (term.dim % Len(t.size))] ELSE wider
ModMisfit(t, a) ==
  {i \in DOMAIN Used(a) : LET v == Used(a)[i] IN
     v.mod > 0 /\ (t.size[v.dim] % v.floor # 0 \/ (v.mod * v.floor) % t.size[v.dim] # 0)}
ForMod(t, term) ==
  LET now == t.size[term.dim]
      fits == {n \in 1 .. now : (now - n) % term.floor = 0 /\ term.mod % n = 0 /\ n % term.floor = 0}
  IN IF now % term.floor # 0 THEN Fix(t, term.dim, UpTo(now, term.floor * t.stride))
     ELSE Fix(t, term.dim, IF fits = {} THEN term.mod * term.floor ELSE Max(fits))

(* Indices of gathered elements and index values need tiles that divide the dimensions. *)
NeedsWholeTiles(a) == a.indirect \/ a.op = "index"
Misfits(t, a) ==
  CASE NeedsWholeTiles(a) /\ ~IsDividable(t, Ranges) -> TRUE
    [] a.op \in {"reduction", "index"} -> FALSE
    [] OTHER -> Supported(a) /\ FloorMisfit(t, a) \cup ModMisfit(t, a) # {}
NextTile(t, a) ==
  CASE NeedsWholeTiles(a) /\ ~IsDividable(t, Ranges) -> AdjustToDivisible(t, Ranges)
    [] FloorMisfit(t, a) # {} -> ForFloor(t, a.terms[Min(FloorMisfit(t, a))])
    [] OTHER -> ForMod(t, Used(a)[Min(ModMisfit(t, a))])

-------------------------------------------------------------------------------
(* The loop body: node.run for each access *)
Access == Kernel.body[at]
(* get_dma_code: there are three kinds of loads; a kind is a lane axis, a lane stride and a type. *)
ReadKinds(ds) == {<<ds[i].split, ds[i].stride, ds[i].type>> : i \in {j \in DOMAIN ds : Kernel.body[ds[j].access].op = "load"}}
(* A store of a loaded value uses the buffer of the load, when the sizes of the tiles are the same. *)
Loaded(from) == dmas[CHOOSE i \in DOMAIN dmas : dmas[i].access = from]
StoreBuffer(d) ==
  IF Access.from = 0 \/ Loaded(Access.from).size # d.size THEN d.buffer ELSE Loaded(Access.from).buffer
Emitted(d) == dmas' = Append(dmas, d) /\ at' = at + 1 /\ UNCHANGED <<pc, search>>
Ready(op) == pc = "body" /\ at <= Len(Kernel.body) /\ Access.op = op /\ ~Misfits(tile, Access)
Unsupported == Leave("unsupported") /\ UNCHANGED <<dmas, at>>
Load ==
  /\ Ready("load")
  /\ IF ~Supported(Access) THEN Unsupported
     ELSE \E d \in DmaOf(tile, Access) :
            IF Cardinality(ReadKinds(Append(dmas, d))) > 3 THEN Unsupported ELSE Emitted(d)
  /\ UNCHANGED <<k, tile, mode, recompile, tries, loop>>
Store ==
  /\ Ready("store")
  /\ IF ~Supported(Access) THEN Unsupported
     ELSE \E d \in DmaOf(tile, Access) : Emitted([d EXCEPT !.buffer = StoreBuffer(d)])
  /\ UNCHANGED <<k, tile, mode, recompile, tries, loop>>
StoreReduction ==
  /\ Ready("store_reduction")
  /\ IF ~Supported(Access) THEN Unsupported ELSE \E d \in DmaOf(tile, Access) : Emitted(d)
  /\ UNCHANGED <<k, tile, mode, recompile, tries, loop>>
(* reduction: the partial results of a lane fill a number of whole vectors. *)
Reduce ==
  /\ Ready("reduction")
  /\ IF RowsPerLane(tile) > 0 /\ ComputeVec(tile) % RowsPerLane(tile) = 0 THEN at' = at + 1 /\ UNCHANGED <<pc, search>>
     ELSE Leave("assertion") /\ UNCHANGED at
  /\ UNCHANGED <<k, tile, mode, recompile, tries, loop, dmas>>
IndexExpr ==
  /\ Ready("index")
  /\ at' = at + 1 /\ UNCHANGED <<k, tile, pc, mode, recompile, tries, loop, dmas, search>>
FaultyRecompile ==     \* goes on with the code generated so far
  /\ pc = "body" /\ at <= Len(Kernel.body) /\ Misfits(tile, Access)
  /\ tile' = NextTile(tile, Access) /\ recompile' = TRUE /\ tries' = tries + 1
  /\ IF tries + 1 > MaxRetry THEN Leave("retries") ELSE UNCHANGED <<pc, search>>
  /\ UNCHANGED <<k, mode, body>>
Recompile ==
  /\ pc = "body" /\ at <= Len(Kernel.body) /\ Misfits(tile, Access)
  /\ tile' = NextTile(tile, Access) /\ recompile' = TRUE /\ tries' = tries + 1
  /\ IF tries + 1 > MaxRetry THEN Leave("retries") ELSE pc' = "compute" /\ UNCHANGED search
  /\ UNCHANGED <<k, mode, body>>
BodyDone ==
  /\ pc = "body" /\ at > Len(Kernel.body) /\ pc' = "code"
  /\ UNCHANGED <<k, tile, mode, recompile, tries, body, search>>

(* _index_expr: the element of the tile at position j of a lane.  A reduction has its first axis innermost. *)
IndexTile ==
  IF Kernel.depth = NrDim THEN tile ELSE [tile EXCEPT !.order = [i \in Axes(tile) |-> IF i = Len(@) THEN 0 ELSE i]]
IndexVector(j, lane) ==
  [i \in Axes(tile) |->
    LET dim == (j \div StridePerLane(IndexTile)[i]) % SizePerLane(tile)[i]
        outer == (dim \div tile.stride) % (tile.size[i] \div tile.stride)
    IN IF i = tile.split THEN (dim % tile.stride) + (outer * Lanes) + (lane * tile.stride) ELSE dim]

-------------------------------------------------------------------------------
(* make_choices and autotune *)
Reset == recompile' = FALSE /\ tries' = 0
FirstCode ==
  /\ pc = "code" /\ mode = "first"
  /\ IF k \in Autotune /\ Ranges # <<1>> /\ Ranges # <<>> THEN
       /\ pc' = "stride" /\ start' = tile.size /\ strides' = <<2, 4, 8>>
       /\ tile' = [tile EXCEPT !.tolerance = 30] /\ UNCHANGED chosen
     ELSE pc' = "done" /\ chosen' = 0 /\ UNCHANGED <<start, strides, tile>>
  /\ UNCHANGED <<k, mode, recompile, tries, body, axes, todo, seen, count, choices>>
NextStride ==
  /\ pc = "stride" /\ strides # <<>>
  /\ tile' = [SetTileSize(tile, start) EXCEPT !.stride = Head(strides)] /\ strides' = Tail(strides)
  /\ axes' = {i \in Axes(tile) : ~tile.fixed[i]} /\ todo' = <<>> /\ seen' = {} /\ count' = 0
  /\ pc' = "compute" /\ mode' = "initial" /\ Reset
  /\ UNCHANGED <<k, body, start, choices, chosen>>
Candidate == [size |-> tile.size, split |-> tile.split, stride |-> tile.stride, dmas |-> dmas]
InitialCode ==
  /\ pc = "code" /\ mode = "initial" /\ pc' = "while"
  /\ seen' = {tile.size} /\ choices' = Append(choices, Candidate)
  /\ UNCHANGED <<k, tile, mode, recompile, tries, body, start, strides, axes, todo, count, chosen>>
While ==
  /\ pc = "while" /\ todo = <<>>
  /\ IF count < MaxStep /\ axes # {} THEN todo' = Ascending(axes) /\ UNCHANGED pc ELSE pc' = "stride" /\ UNCHANGED todo
  /\ UNCHANGED <<k, tile, mode, recompile, tries, body, start, strides, axes, seen, count, choices, chosen>>
Largest(axis) == tile.size[axis] >= 2 * Ranges[axis] \/ tile.size[axis] >= MaxTile
Drop == axes' = axes \ {Head(todo)} /\ todo' = Tail(todo)
Grow ==
  LET axis == Head(todo)
      size == ScaleTileDim(tile, axis, Ranges[axis])
  IN /\ pc = "while" /\ todo # <<>> /\ Reset
     /\ IF Largest(axis) \/ size = NoTile THEN Drop /\ UNCHANGED <<pc, mode, tile>>
        ELSE pc' = "compute" /\ mode' = "grow" /\ tile' = [tile EXCEPT !.size[axis] = size] /\ UNCHANGED <<axes, todo>>
     /\ UNCHANGED <<k, body, start, strides, seen, count, choices, chosen>>
Uneven ==
  LET lane == tile.size[tile.split]
      pad == UsedLanes(tile) * tile.stride
  IN lane > pad /\ lane % pad # 0
FaultyGrownCode ==     \* keeps an axis whose tile does not grow any more
  /\ pc = "code" /\ mode = "grow" /\ pc' = "while"
  /\ todo' = Tail(todo) /\ axes' = axes /\ seen' = seen \cup {tile.size}
  /\ IF Uneven THEN count' = count + 1 /\ UNCHANGED choices
     ELSE IF tile.size \in seen THEN UNCHANGED <<count, choices>>
     ELSE count' = count + 1 /\ choices' = Append(choices, Candidate)
  /\ UNCHANGED <<k, tile, mode, recompile, tries, body, start, strides, chosen>>
GrownCode ==
  /\ pc = "code" /\ mode = "grow" /\ pc' = "while"
  /\ CASE Uneven -> todo' = Tail(todo) /\ count' = count + 1 /\ UNCHANGED <<axes, seen, choices>>
       [] ~Uneven /\ tile.size \in seen -> Drop /\ UNCHANGED <<seen, count, choices>>
       [] OTHER -> /\ todo' = Tail(todo) /\ count' = count + 1 /\ UNCHANGED axes
                   /\ seen' = seen \cup {tile.size} /\ choices' = Append(choices, Candidate)
  /\ UNCHANGED <<k, tile, mode, recompile, tries, body, start, strides, chosen>>
Searched ==
  /\ pc = "stride" /\ strides = <<>> /\ pc' = "tune"
  /\ UNCHANGED <<k, tile, mode, recompile, tries, body, search>>

(* autotune: candidates run one by one until one succeeds, the others in parallel with a time limit. *)
Best(cost) == CHOOSE i \in DOMAIN cost : \A j \in DOMAIN cost : cost[i] < cost[j] \/ (cost[i] = cost[j] /\ i <= j)
Tune ==
  /\ pc = "tune"
  /\ \E cost \in Costs(Len(choices)) :
       IF choices = <<>> THEN pc' = "done" /\ chosen' = 0
       ELSE IF cost[Best(cost)] = Inf THEN pc' = "raised" /\ UNCHANGED chosen
       ELSE pc' = "done" /\ chosen' = Best(cost)
  /\ UNCHANGED <<k, tile, mode, recompile, tries, body, start, strides, axes, todo, seen, count, choices>>

Next ==
  \/ ComputeTileSize \/ Load \/ Store \/ StoreReduction \/ Reduce \/ IndexExpr \/ Recompile \/ BodyDone
  \/ FirstCode \/ NextStride \/ InitialCode \/ While \/ Grow \/ GrownCode \/ Searched \/ Tune
Ended == pc \in {"done", "raised"}
(* The compiler goes on until it ends: weak fairness of Next, written out because Next is enabled exactly *)
(* when the compiler has not ended, which TLC would work out again for every state.                       *)
Spec == Init /\ [][Next]_vars /\ ([]<>Ended \/ []<><<TRUE>>_vars)

-------------------------------------------------------------------------------
(* Where an element of the kernel's tile, given by its coordinates x, is for a DMA. *)
Code == pc = "code"
Element(t, n) ==
  [i \in Axes(t) |-> (n \div Product(SubSeq(t.size, i + 1, Len(t.size)))) % t.size[i]]
Elements(t) == {Element(t, n) : n \in 0 .. Product(t.size) - 1}
(* The first elements of the tiles of the loop nest. *)
Bases(t) ==
  LET last == [i \in Axes(t) |-> CeilDiv(Ranges[i], t.size[i])]
      grid == [t EXCEPT !.size = last]
  IN {[i \in Axes(t) |-> e[i] * t.size[i]] : e \in Elements(grid)}
AccessOf(d) == Kernel.body[d.access]
Whole(d) == AccessOf(d).op # "store_reduction"
Coords(d, x) ==
  LET dims == LocalDims(AccessOf(d))
      cut == FlattenSeq([i \in DOMAIN dims |-> IF d.cuts[i] = 1 THEN <<x[dims[i]]>> ELSE <<x[dims[i]] \div d.cuts[i], x[dims[i]] % d.cuts[i]>>])
  IN IF Kernel.depth = 0 /\ NrDim = 1 THEN <<0>> \o cut ELSE cut
Dot(u, v) == FoldFunction(+, 0, [i \in DOMAIN u |-> u[i] * v[i]])
Offset(d, x) == Dot(Coords(d, x), TileStride(d))
IndexAt(a, x) ==
  LET Value(t) == t.coeff * (IF t.mod = 0 THEN x[t.dim] \div t.floor ELSE (x[t.dim] \div t.floor) % t.mod)
  IN FoldFunction(+, 0, [i \in DOMAIN a.terms |-> Value(a.terms[i])])

(* Every element of every tile is moved from, or to, the address of its index in DRAM: what stride per axis, *)
(* splits and constraints on sizes in get_dma_info are for.  (A gathered value is added to it.)              *)
Addresses ==
  Code => \A i \in DOMAIN dmas :
    LET d == dmas[i]
        a == AccessOf(d)
    IN /\ Len(d.dram) = Len(d.size)
       /\ NrDim > 0 => \A b \in Bases(tile), x \in Elements(tile) :
            LET y == [j \in Axes(tile) |-> b[j] + x[j]]
            IN (\A j \in Axes(tile) : y[j] < Ranges[j])
                 => IndexAt(a, b) + Dot(Coords(d, x), d.dram) = IndexAt(a, IF Whole(d) THEN y ELSE
                      [j \in Axes(tile) |-> IF j \in Range(LocalDims(a)) THEN y[j] ELSE b[j]])

(* The compute loop reads and writes all its operands at one offset and lane: the DMAs of a kernel agree on  *)
(* where an element of the tile is, also those that split an axis or order the axes differently.  Not when   *)
(* it is the lane axis that is cut in two: the code gives that axis up only when its tile does not fit yet.  *)
LaneCut == \E i \in DOMAIN dmas : LET d == dmas[i] IN tile.split \in DOMAIN d.cuts /\ d.cuts[tile.split] > 1
SameLayout ==
  (Code /\ NrDim > 0 /\ ~LaneCut) => \A i, j \in DOMAIN dmas : (Whole(dmas[i]) /\ Whole(dmas[j])) =>
    /\ dmas[i].stride = dmas[j].stride
    /\ \A x \in Elements(tile) : /\ Offset(dmas[i], x) = Offset(dmas[j], x)
                                 /\ Coords(dmas[i], x)[dmas[i].split] = Coords(dmas[j], x)[dmas[j].split]

(* The code that is kept was generated for its last tile: no access that a change of the tile was made for   *)
(* before is unsuited by a later change.                                                                     *)
TileFits == Code => \A i \in DOMAIN Kernel.body : ~Misfits(tile, Kernel.body[i])

(* DMAs that share a buffer move the same elements, or copy what the other one loaded: no operand overwrites *)
(* another before the compute loop has read it.                                                              *)
BuffersApart ==
  Code => \A i, j \in DOMAIN dmas : (i < j /\ dmas[i].buffer = dmas[j].buffer) =>
    \/ AccessOf(dmas[j]).from = dmas[i].access
    \/ AccessOf(dmas[i]).name = AccessOf(dmas[j]).name /\ AccessOf(dmas[i]).terms = AccessOf(dmas[j]).terms

(* Elements are dealt to the lanes "stride" at a time; no lane gets more than the size per lane, for which   *)
(* the buffers have room, unless tiles had to be divisors of the dimensions.                                 *)
LanesHold ==
  (Code /\ ~\E i \in DOMAIN Kernel.body : NeedsWholeTiles(Kernel.body[i])) =>
    Cardinality({n \in 0 .. tile.size[tile.split] - 1 : (n \div tile.stride) % Lanes = 0})
            <= SizePerLane(tile)[tile.split]

(* Position j of a lane stands for the element that index_expr computes for it: the lanes together have every *)
(* element of the tile.  (Lanes that hold several rounds of more than one element are left out.)             *)
IndicesCover ==
  (Code /\ (\E i \in DOMAIN Kernel.body : Kernel.body[i].op = "index")
        /\ (tile.stride = 1 \/ SizePerLane(tile)[tile.split] <= tile.stride))
    => Elements(tile) \subseteq {IndexVector(j, l) : j \in 0 .. NumelPerLane(tile) - 1, l \in 0 .. UsedLanes(tile) - 1}

(* Together: every DMA of the kernel moves the elements that the code around it works on. *)
ElementsRight == Addresses /\ SameLayout /\ IndicesCover
(* Together: no tile, buffer or lane is used for more than it was made for. *)
TileRight == TileFits /\ BuffersApart /\ LanesHold

(* Compilation and search end, whatever the accesses ask for and the candidates cost. *)
SearchEnds == <>Ended
(* The search for a faster tile never fails on a kernel that compiled, but when every candidate fails.       *)
SearchIsSafe == [][(pc' = "raised" /\ pc # "raised") => (mode = "first" \/ pc = "tune")]_vars

================================================================================
