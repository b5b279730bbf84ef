--------------------------------- MODULE Tiling ---------------------------------
(***************************************************************************)
(* The tile descriptor of the compiler (mlir/mlir_common.py): the sizes of *)
(* a tile, the order of its axes in the scratchpad, and which axis is      *)
(* spread over the vector lanes, "stride" elements to each lane in turn.   *)
(*                                                                         *)
(* A tile is a record: size, order (a greater number is an inner axis),    *)
(* multiple, divide, fixed (the TileConstraint of each axis), split (the   *)
(* lane axis), stride, forced (forced_vec_size, 0 for None), nr (number of *)
(* reduction axes, the last ones), tolerance (tail_ratio_threshold in      *)
(* hundredths).  Axes count from 1.  Ratios are compared exactly.          *)
(***************************************************************************)
EXTENDS Integers, Sequences, FiniteSets, FiniteSetsExt, Functions, SequencesExt

CONSTANT Lanes    \* vector_lane

ASSUME LanesAssumption == Lanes \in Nat \ {0}

NoTile == 0       \* TileSizeError
Smaller(a, b) == IF a < b THEN a ELSE b
Larger(a, b) == IF a > b THEN a ELSE b
CeilDiv(a, b) == (a + b - 1) \div b
UpTo(a, b) == CeilDiv(a, b) * b
Product(s) == FoldFunction(LAMBDA x, y : x * y, 1, s)
Axes(tile) == 1 .. Len(tile.size)

MultiDimTile(size, split, stride) ==
  [size |-> size, order |-> [i \in 1 .. Len(size) |-> i - 1],
   multiple |-> [i \in 1 .. Len(size) |-> IF i = split THEN stride ELSE 1],
   divide |-> [i \in 1 .. Len(size) |-> FALSE], fixed |-> [i \in 1 .. Len(size) |-> FALSE],
   split |-> split, stride |-> stride, forced |-> 0, nr |-> 0, tolerance |-> 1]
SetTileSize(tile, size) == [tile EXCEPT !.size = size, !.order = [i \in 1 .. Len(size) |-> i - 1]]
TileStride(tile) ==
  [i \in Axes(tile) |-> Product([j \in Axes(tile) |-> IF tile.order[j] > tile.order[i] THEN tile.size[j] ELSE 1])]

-------------------------------------------------------------------------------
(* VectorLaneMapping *)
UsedLanes(tile) == Smaller(CeilDiv(tile.size[tile.split], tile.stride), Lanes)
SizePerLane(tile) == [tile.size EXCEPT ![tile.split] = CeilDiv(@, UsedLanes(tile))]
NumelPerLane(tile) == Product(SizePerLane(tile))
StridePerLane(tile) ==
  LET share == tile.size[tile.split] \div SizePerLane(tile)[tile.split]
      own == TileStride(tile)
  IN [i \in Axes(tile) |-> IF own[i] > own[tile.split] THEN own[i] \div share ELSE own[i]]
ReductionNumel(tile) == Product(SubSeq(tile.size, Len(tile.size) - tile.nr + 1, Len(tile.size)))
RowsPerLane(tile) == NumelPerLane(tile) \div Larger(ReductionNumel(tile), 1)
ComputeVec(tile) ==
  LET numel == NumelPerLane(tile)
      unit == IF tile.nr > 0 THEN RowsPerLane(tile) ELSE tile.stride
      times == {m \in {2, 4, 8} : IF tile.nr > 0 THEN numel >= unit * m ELSE numel \div unit >= m}
      widest == unit * Max(times \union {1})
      whole == Larger(unit, 1)
  IN CASE tile.forced = 0 -> widest
       [] tile.forced # 0 /\ tile.nr = 0 -> tile.forced
       [] OTHER -> Larger((Smaller(widest, tile.forced) \div whole) * whole, unit)

-------------------------------------------------------------------------------
(* TileConstraint.adjust and TileAdjustMixin *)
Adjust(tile, i, old, new, dim) ==
  LET down == new - (new % tile.multiple[i])
      fits == {n \in 1 .. down : n % tile.multiple[i] = 0 /\ dim % n = 0}
  IN CASE tile.fixed[i] -> old
       [] ~tile.fixed[i] /\ ~tile.divide[i] -> Larger(down, tile.multiple[i])
       [] OTHER -> IF fits = {} THEN NoTile ELSE Max(fits)

Padding(size, dim) == (size - (dim % size)) % size
(* The cost of a size: the part of the dimension that is padding, and half the number of tiles. *)
Cheaper(tile, i, new, old, dim) ==
  LET weight == IF tile.divide[i] THEN 0 ELSE 1
      Cost(n) == 2 * Padding(n, dim) * n + weight * dim * dim    \* over 2 * n * dim
  IN Cost(new) * old < Cost(old) * new
TrimmedSize(tile, i, dim) ==
  LET now == tile.size[i]
      tried == [n \in 1 .. now - 1 |-> Adjust(tile, i, now, n, dim)]
      sizes == Range(tried) \cup {now}
  IN CASE tile.fixed[i] \/ 100 * Padding(now, dim) < tile.tolerance * dim -> now
       [] \E n \in DOMAIN tried : tried[n] = NoTile -> NoTile
       [] OTHER -> Max({n \in sizes : ~\E m \in sizes : Cheaper(tile, i, m, n, dim)})
TrimLargeTail(tile, ranges) ==
  [tile EXCEPT !.size = [i \in Axes(tile) |-> IF i <= Len(ranges) THEN TrimmedSize(tile, i, ranges[i]) ELSE @[i]]]

SelectLaneAxis(tile) ==
  LET used == [i \in 1 .. Larger(1, Len(tile.size) - tile.nr) |-> CeilDiv(tile.size[i], tile.stride)]
  IN [tile EXCEPT !.split = Min({i \in DOMAIN used : \A j \in DOMAIN used : used[i] >= used[j]})]
PadLaneTile(tile) == [tile EXCEPT !.size[tile.split] = UpTo(@, UsedLanes(tile) * tile.stride)]

IsDividable(tile, dims) ==
  \A i \in Axes(tile) : (IF i = tile.split THEN UpTo(dims[i], tile.stride) ELSE dims[i]) % tile.size[i] = 0
AdjustToDivisible(tile, dims) ==
  LET size == [i \in Axes(tile) |-> Max({n \in 1 .. tile.size[i] : dims[i] % n = 0})]
  IN [SetTileSize(tile, size) EXCEPT !.divide = [i \in Axes(tile) |-> TRUE],
        !.stride = IF size[tile.split] % @ # 0 THEN 1 ELSE @]
ScaleTileDim(tile, axis, dim) == Adjust(tile, axis, tile.size[axis], 2 * tile.size[axis], dim)
Fix(tile, axis, size) == [SetTileSize(tile, [tile.size EXCEPT ![axis] = size]) EXCEPT !.fixed[axis] = TRUE]

(* dividers[i] is what the i-th axis of the dictionary asks for: axes are taken by their position in it. *)
ApplyConstraints(tile, dividers) ==
  LET asked == [i \in Axes(tile) |-> IF i <= Len(dividers) THEN dividers[i] \ {1} ELSE {}]
  IN [tile EXCEPT
        !.size = [i \in Axes(tile) |-> IF asked[i] = {} \/ (tile.fixed[i] /\ @[i] <= Min(asked[i])) THEN @[i] ELSE Min(asked[i])],
        !.fixed = [i \in Axes(tile) |-> @[i] \/ asked[i] # {}]]

(* An axis becomes two, the inner one of "divisor" elements.  The new order is the list of the axes sorted *)
(* by their place, which for some orders is not the place of each axis.                                    *)
SortedAxes(place) ==
  LET Rank(i) == Cardinality({j \in DOMAIN place : place[j] < place[i]})
  IN [r \in DOMAIN place |-> (CHOOSE i \in DOMAIN place : Rank(i) = r - 1) - 1]
FaultyApplyDivisor(tile, axis, divisor) ==   \* inner and outer are swapped
  LET outer == CeilDiv(tile.size[axis], divisor)
      place == InsertAt([i \in Axes(tile) |-> 2 * tile.order[i]], axis + 1, 2 * tile.order[axis] + 1)
  IN [tile EXCEPT !.size = InsertAt([@ EXCEPT ![axis] = divisor], axis + 1, outer),
        !.order = SortedAxes(place), !.split = IF @ > axis THEN @ + 1 ELSE @]
ApplyDivisor(tile, axis, divisor) ==
  LET outer == CeilDiv(tile.size[axis], divisor)
      place == InsertAt([i \in Axes(tile) |-> 2 * tile.order[i]], axis + 1, 2 * tile.order[axis] + 1)
  IN [tile EXCEPT !.size = InsertAt([@ EXCEPT ![axis] = outer], axis + 1, divisor),
        !.order = SortedAxes(place), !.split = IF @ > axis THEN @ + 1 ELSE @]

(* The first tile of a kernel with these ranges; NoTile when there are more than four. *)
InitTileSize(ranges, stride) ==
  LET n == Len(ranges)
      last == <<1, 2, 4 * Lanes, Lanes>>
  IN CASE n = 0 -> <<1>>
       [] n = 1 -> IF ranges[1] = 1 THEN <<1>> ELSE <<2 * stride * Lanes>>
       [] n = 2 -> <<2 * Lanes, stride * Lanes>>
       [] n \in {3, 4} -> SubSeq(last, 5 - n, 4)
       [] OTHER -> <<>>
================================================================================
