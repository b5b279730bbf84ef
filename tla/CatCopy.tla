-------------------------------- MODULE CatCopy --------------------------------
(***************************************************************************)
(* The concatenation kernel (mlir/mlir_cat_template.py): tile by tile each *)
(* input is brought in and written out behind the inputs before it.        *)
(*                                                                         *)
(* A job gives the shapes of its inputs, the name of each (a tensor may    *)
(* come twice), their strides, the dimension and the output's strides.     *)
(***************************************************************************)
EXTENDS TemplateTiles

Kept(job) == SelectSeq([d \in 1 .. Len(job.shapes[1]) |-> d], LAMBDA d : d # job.dim)
KeptSizes(job) == [i \in DOMAIN Kept(job) |-> job.shapes[1][Kept(job)[i]]]
FirstFive(S) == {n \in S : Cardinality({m \in S : m < n}) < 5}
(* get_tile_candidates *)
CatTiles(job) ==
  LET sizes == KeptSizes(job)
      number == Len(job.shapes)
      total == Spad \div ((Lanes * Precision) * (2 * number))
      Even(size, n) == n <= total /\ (n % Lanes = 0 \/ n \in {2 ^ x : x \in 0 .. n})
      Cuts(size) == FirstFive({n \in Divisors(size) : n = size \/ Even(size, n)})
      Room(s) == (Product(s) * (number + 1)) * Precision <= Spad * Lanes
      combos == {s \in [DOMAIN sizes -> UNION {Cuts(sizes[i]) : i \in DOMAIN sizes}] :
                   (\A i \in DOMAIN s : s[i] \in Cuts(sizes[i])) /\ Room(s)}
      ranked == Tiles({[used |-> Product(s), key |-> s, tile |-> s] : s \in combos})
  IN CASE sizes = <<>> -> <<<<1>>>>
       [] sizes # <<>> /\ combos = {} -> <<[i \in DOMAIN sizes |-> 1]>>
       [] OTHER -> SubSeq(ranked, 1, Smaller(4, Len(ranked)))

(* A tile has four dimensions at most: of the others the three largest are kept, the rest go one at a time. *)
Excluded(tile) ==
  {i \in DOMAIN tile : Cardinality({j \in DOMAIN tile : tile[j] > tile[i] \/ (tile[j] = tile[i] /\ j < i)}) >= 3}
Trimmed(tile) == [i \in DOMAIN tile |-> IF i \in Excluded(tile) THEN 1 ELSE tile[i]]
(* How much of each input goes at a time along the concatenated dimension. *)
AlongDim(job, tile) ==
  LET extra == CeilDiv((Spad * Lanes) \div 2, Product(Trimmed(tile)) * Precision) - Len(job.shapes)
      Take(acc, shape) == LET n == IF acc.left > 0 THEN Smaller(shape[job.dim], acc.left) ELSE 1
                          IN [left |-> IF acc.left > 0 THEN acc.left - n ELSE acc.left, taken |-> Append(acc.taken, n)]
  IN FoldLeft(Take, [left |-> extra, taken |-> <<>>], job.shapes).taken
Before(job, n) == FoldFunction(+, 0, [i \in 1 .. n - 1 |-> job.shapes[i][job.dim]])

CatOuter(job, tile) ==
  LET kept == Kept(job)
  IN IF kept = <<>> THEN <<Loop(-1, 1, 1)>>   \* nothing to loop over
     ELSE [i \in DOMAIN kept |-> Loop(kept[i], job.shapes[1][kept[i]], Trimmed(tile)[i])]
(* The loop along the concatenated dimension counts in variable 0. *)
CatInner(job, tile, n) == <<Loop(0, job.shapes[n][job.dim], AlongDim(job, tile)[n])>>
(* The n-th input's tile and where it goes; the axes that were excluded only move the base. *)
CatMoves(job, tile, n, i) ==
  LET rank == Len(job.shapes[1])
      Place0(d) == CHOOSE p \in DOMAIN Kept(job) : Kept(job)[p] = d
      dims == SelectSeq([d \in 1 .. rank |-> d], LAMBDA d : d = job.dim \/ Place0(d) \notin Excluded(tile))
      size == [x \in DOMAIN dims |-> IF dims[x] = job.dim THEN AlongDim(job, tile)[n] ELSE Trimmed(tile)[Place0(dims[x])]]
      desc == MultiDimTile(size, Len(size), 1)
      start == [x \in DOMAIN dims |-> IF dims[x] = job.dim THEN i[0] ELSE i[dims[x]]]
      end == [x \in DOMAIN dims |-> job.shapes[n][dims[x]]]
      Base(strides) == FoldFunction(+, 0, [d \in (1 .. rank) \ Range(dims) |-> i[d] * strides[d]])
      Strides(strides) == [x \in DOMAIN dims |-> strides[dims[x]]]
      Shift(s) == [x \in DOMAIN dims |-> IF dims[x] = job.dim THEN s[x] + Before(job, n) ELSE s[x]]
  IN [in |-> At(Move(desc, start, Strides(job.strides[n]), end), Base(job.strides[n])),
      out |-> At(Move(desc, Shift(start), Strides(job.os), Shift(end)), Base(job.os))]
(* Input tensors with the same name share a buffer. *)
Buffer(job, n) == job.names[n]

Concatenation(job) ==
  LET index(n) == [1 .. Len(job.shapes[n]) -> 0 .. Max(Range(job.shapes[n])) - 1]
      Address(i, strides) == FoldFunction(+, 0, [d \in DOMAIN i |-> i[d] * strides[d]])
      Of(n) == {<<Address([i EXCEPT ![job.dim] = @ + Before(job, n)], job.os), <<Buffer(job, n), Address(i, job.strides[n])>>>>
                : i \in {j \in index(n) : \A d \in DOMAIN j : j[d] < job.shapes[n][d]}}
  IN UNION {Of(n) : n \in DOMAIN job.shapes}
================================================================================
