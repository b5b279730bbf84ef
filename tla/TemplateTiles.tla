----------------------------- MODULE TemplateTiles -----------------------------
(***************************************************************************)
(* Which tiles a template kernel may use (mlir/mlir_template.py, the       *)
(* select_tile of each template) and where an element of a tile lies in    *)
(* the scratchpad of the lanes.                                            *)
(*                                                                         *)
(* A candidate is [used, key, tile]: the bytes it needs, the order in      *)
(* which the loops of the mapping meet it, and the sizes, a record.        *)
(***************************************************************************)
EXTENDS Tiling

CONSTANTS
  Spad,       \* spad_info["spad_size"], bytes of a lane
  Precision,  \* bytes of an element
  Subtile     \* CONFIG_SUBTILE

Divisors(n) == {d \in 1 .. n : n % d = 0}
LexBefore(s, t) == \E i \in DOMAIN s : s[i] < t[i] /\ \A j \in 1 .. i - 1 : s[j] = t[j]
(* sorted(..., key=used, reverse=True): a stable sort. *)
Ranked(S) ==
  LET Later(a, b) == b.used > a.used \/ (a.used = b.used /\ LexBefore(b.key, a.key))
      Nth(i) == CHOOSE a \in S : Cardinality({b \in S : Later(a, b)}) = i - 1
  IN [i \in 1 .. Cardinality(S) |-> Nth(i)]
Tiles(S) == LET ranked == Ranked(S) IN [i \in DOMAIN ranked |-> ranked[i].tile]

SpadPerLane(m, n) == Larger(m * CeilDiv(n, Lanes), 2)
(* Two copies of every buffer have to fit, in all and on each lane. *)
Fits(elements, perLane) ==
  elements * Precision < (Spad * Lanes) \div 2 /\ perLane * Precision < Spad \div 2

-------------------------------------------------------------------------------
(* The sizes a dimension may be cut into; "small" is what it is padded to when it has less than a lane each. *)
SizesOf(dim, small) ==
  IF dim > Lanes THEN {d * Lanes : d \in Divisors(UpTo(dim, Lanes) \div Lanes)} ELSE {UpTo(dim, small)}
SizesOfK(dim, padK) ==
  LET k == Larger(dim, 8)
      padded == UpTo(k, CASE dim > Lanes -> Lanes [] dim <= Lanes /\ padK -> 8 [] OTHER -> 1)
  IN IF k > Lanes THEN {d * Lanes : d \in Divisors(padded \div Lanes)} ELSE {padded}

GemmCombinationMapping(M, N, K, extra, prologue, padK) ==
  LET Total(m, n, k) == m * k * (1 + prologue) + k * n + m * n * (1 + extra)
      OnLane(m, n, k) == SpadPerLane(k, n) + SpadPerLane(m * (1 + prologue), k) + SpadPerLane(m * (1 + extra), n)
      sizes == SizesOf(M, 8) \X SizesOf(N, 8) \X SizesOfK(K, padK)
  IN Tiles({[used |-> Total(s[1], s[2], s[3]) * Precision, key |-> <<s[3], s[1], s[2]>>,
             tile |-> [m |-> s[1], n |-> s[2], k |-> s[3]]]
           : s \in {q \in sizes : Fits(Total(q[1], q[2], q[3]), OnLane(q[1], q[2], q[3]))}})

(* The window of the input that an output of "out" by "kernel" reads. *)
Window(out, kernel, stride, dilation) == 1 + (out - 1) * stride + (kernel - 1) * dilation
(* One output window and one kernel window <<oh, ow, kh, kw>> for a matmul tile: conv_*_mapping.  A job *)
(* is a convolution; of[w] says what window w needs of the weights, the input and the output.          *)
Windows(t, of, extra) ==
  LET Sum(s) == s.w[1] * s.w[2] + s.x[1] * s.x[2] + s.y[1] * s.y[2] * (1 + extra)
      OnLane(s) == SpadPerLane(s.w[1], s.w[2]) + SpadPerLane(s.x[1], s.x[2]) + SpadPerLane(s.y[1] * (1 + extra), s.y[2])
  IN Tiles({[used |-> Sum(of[w]) * Precision, key |-> w,
             tile |-> [kh |-> w[3], kw |-> w[4], oh |-> w[1], ow |-> w[2], m |-> t.m, n |-> t.n, k |-> t.k]]
           : w \in {v \in DOMAIN of : Fits(Sum(of[v]), OnLane(of[v]))}})
WindowRows(job, oh, kh) == Window(oh, kh, job.stride[1], job.dilation[1])
WindowColumns(job, ow, kw) == Window(ow, kw, job.stride[2], job.dilation[2])

(* gemm_combination_mapping(...)[0], a tile of the product, and the windows for it.  No tile is an IndexError; *)
(* no window a RuntimeError, "Cannot find a valid mapping".  Either way the template gets nothing.             *)
WithFirst(tiles, Mapping(_)) == IF tiles = <<>> THEN <<>> ELSE Mapping(tiles[1])
ConvCombinationMapping(job, extra) ==
  LET For(first) ==
        LET t == [first EXCEPT !.k = Smaller(@, Lanes)]
        IN Windows(t, [w \in Divisors(job.OH) \X Divisors(job.OW) \X Divisors(job.KH) \X Divisors(job.KW) |->
                         [w |-> <<w[4] * w[3] * t.k, t.n>>,
                          x |-> <<WindowColumns(job, w[2], w[4]) * WindowRows(job, w[1], w[3]) * t.m, t.k>>,
                          y |-> <<w[2] * w[1] * t.m, t.n>>]], extra)
  IN WithFirst(GemmCombinationMapping(job.B, job.OC, job.IC, extra, 0, FALSE), For)
MultiTileWindows(job, extra) ==
  LET For(t) == Windows(t, [w \in Divisors(job.OH) \X Divisors(job.OW) \X Divisors(job.KH) \X {job.KW} |->
                              [w |-> <<w[3] * t.k, t.n>>,
                               x |-> <<WindowColumns(job, w[2], job.KW) * WindowRows(job, w[1], w[3]) * t.m, t.k>>,
                               y |-> <<w[2] * w[1] * t.m, t.n>>]], extra)
  IN WithFirst(GemmCombinationMapping(job.B, job.OC, job.IC * job.KW, extra, 0, FALSE), For)
(* The best window is looked for from max_k_h_w = K_W on: without one of so many rows there is "no valid mapping". *)
ConvMultiTileMapping(job, extra) ==
  LET windows == MultiTileWindows(job, extra)
  IN IF \E i \in DOMAIN windows : windows[i].kh >= job.KW THEN windows ELSE <<>>
(* The columns of the output take the place of the batch. *)
ConvSingleBatchMapping(job, KW, extra) ==
  LET For(t) == Windows(t, [w \in Divisors(job.OH) \X {t.m} \X Divisors(job.KH) \X Divisors(KW) |->
                              [w |-> <<w[4] * w[3] * t.k, t.n>>,
                               x |-> <<WindowColumns(job, t.m, w[4]) * WindowRows(job, w[1], w[3]) * w[4], t.k>>,
                               y |-> <<t.m * w[1], t.n>>]], extra)
  IN WithFirst(GemmCombinationMapping(job.OW, job.OC, job.IC, extra, 0, FALSE), For)

-------------------------------------------------------------------------------
(* select_tile of the templates.  subM, subN: what the DMA moves at a time. *)
Upto(n) == IF n < Lanes THEN n ELSE Lanes
WithSub(t, subM, subN) == [f \in DOMAIN t \cup {"subM", "subN"} |-> IF f = "subM" THEN subM ELSE IF f = "subN" THEN subN ELSE t[f]]
GemmTiles(job, extraRead, prologue) ==
  LET empty == job.M = 0 \/ job.N = 0 \/ job.K = 0
      tiles == IF empty THEN <<[m |-> 1, n |-> 1, k |-> 1]>>
               ELSE GemmCombinationMapping(job.M, job.N, job.K, Larger(extraRead - 2, 0), prologue, TRUE)
      Whole(t) == WithSub(t, t.m, t.n)
      Part(t) == WithSub(t, IF prologue > 0 THEN t.m ELSE Upto(t.m),
                         IF t.m = job.M /\ t.n = job.N /\ t.n <= 512 THEN Upto(t.n) ELSE t.n)
  IN FlattenSeq([i \in DOMAIN tiles |-> IF Subtile THEN <<Whole(tiles[i]), Part(tiles[i])>> ELSE <<Whole(tiles[i])>>])
BmmTiles(job, extra, prologue) ==
  LET tiles == GemmCombinationMapping(job.M, job.N, job.K, extra, 0, TRUE)
      Part(t) == WithSub([t EXCEPT !.k = IF prologue > 0 THEN @ \div 2 ELSE @], IF prologue > 0 THEN t.m ELSE Upto(t.m), t.n)
  IN [i \in DOMAIN tiles |-> Part(tiles[i])]

WithWindow(t, ih, iw) == [f \in DOMAIN t \cup {"ih", "iw"} |-> IF f = "ih" THEN ih ELSE IF f = "iw" THEN iw ELSE t[f]]
Rows(job, t) == WindowRows(job, t.oh, t.kh)
ConvTiles(job, extra) ==
  LET tiles == ConvCombinationMapping(job, extra)
      Columns(t) == WindowColumns(job, t.ow, t.kw)
  IN [i \in DOMAIN tiles |->
        LET t == tiles[i]
        IN WithSub(WithWindow(t, Rows(job, t), Columns(t)), Upto(t.m), IF t.n > 512 THEN t.n ELSE Upto(t.n))]
MultiTileTiles(job, extra) ==
  LET tiles == ConvMultiTileMapping(job, extra)
      Columns(t) == WindowColumns(job, t.ow, 1)
  IN [i \in DOMAIN tiles |->
        LET t == tiles[i] IN WithSub(WithWindow(t, Rows(job, t), Columns(t)), Upto(t.m), Upto(t.n))]
SingleBatchTiles(job, extra) ==
  LET tiles == ConvSingleBatchMapping(job, 1, extra)
      Columns(t) == WindowColumns(job, t.ow, t.kw)
  IN [i \in DOMAIN tiles |->
        LET t == tiles[i] IN WithSub(WithWindow(t, Rows(job, t), Columns(t)), Upto(Columns(t)), Upto(t.n))]
StridedTiles(job, extra) ==
  LET tiles == ConvSingleBatchMapping(job, job.KW, extra)
      Columns(t) == WindowColumns(job, t.ow, t.kw)
  IN [i \in DOMAIN tiles |->
        LET t == tiles[i] IN WithSub(WithWindow(t, Rows(job, t), Columns(t)), Upto(t.m), Upto(t.n))]

-------------------------------------------------------------------------------
(* A descriptor with given strides, its lane axis counted from 1; the smaller the stride, the further inside. *)
Described(size, stride, split) ==
  LET Outside(i) == {j \in DOMAIN size : stride[j] > stride[i] \/ (stride[j] = stride[i] /\ j < i)}
  IN [MultiDimTile(size, split, 1) EXCEPT !.order = [i \in DOMAIN size |-> Cardinality(Outside(i))]]
(* External: where the DMA engine puts an element of a tile, and where the matrix unit expects an element *)
(* of an operand of "rows" rows that starts at "from": a column on a lane, columns one after the other.   *)
Place(tile, e) ==
  LET stride == StridePerLane(tile)
      Step(i) == stride[i] * (IF i = tile.split THEN e[i] \div Lanes ELSE e[i])
  IN <<e[tile.split] % Lanes, FoldFunction(+, 0, [i \in Axes(tile) |-> Step(i)])>>
Operand(from, rows, r, c) == <<c % Lanes, from + (c \div Lanes) * rows + r>>

-------------------------------------------------------------------------------
(* Loops, and what a transfer moves. *)
Nothing == -1              \* a padded element: zero

Digits(n, sizes) ==
  [i \in DOMAIN sizes |->
     (n \div Product([j \in DOMAIN sizes |-> IF j > i THEN sizes[j] ELSE 1])) % sizes[i]]
Elements(sizes) == {Digits(n, sizes) : n \in 0 .. Product(sizes) - 1}

Loop(var, to, by) == [var |-> var, to |-> to, by |-> by]
Rounds(loops) == Product([i \in DOMAIN loops |-> CeilDiv(loops[i].to, loops[i].by)])
(* The values of the loop variables in the n-th round. *)
Round(loops, n) ==
  LET at == Digits(n, [i \in DOMAIN loops |-> CeilDiv(loops[i].to, loops[i].by)])
  IN [v \in {loops[i].var : i \in DOMAIN loops} |->
        LET i == CHOOSE j \in DOMAIN loops : loops[j].var = v IN at[i] * loops[i].by]

(* def_dma_op: a tile whose first element has the coordinates "from"; a coordinate counts "stride" elements, *)
(* those from "limit" on are padding; "base" is the rest of the offset when the template gives one.         *)
Move(tile, from, stride, limit) == [tile |-> tile, from |-> from, stride |-> stride, limit |-> limit, base |-> 0]
Brought(move) ==
  LET Address(e) ==
        IF \E i \in DOMAIN e : move.from[i] + e[i] >= move.limit[i] THEN Nothing
        ELSE FoldFunction(+, move.base, [i \in DOMAIN e |-> (move.from[i] + e[i]) * move.stride[i]])
      moved == {<<Place(move.tile, e), Address(e)>> : e \in Elements(move.tile.size)}
  IN [p \in {q[1] : q \in moved} |-> (CHOOSE q \in moved : q[1] = p)[2]]
At(move, base) == [move EXCEPT !.base = base]
================================================================================
