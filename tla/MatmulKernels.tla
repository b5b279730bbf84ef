----------------------------- MODULE MatmulKernels -----------------------------
(***************************************************************************)
(* The kernels the templates of a matrix product and of a convolution      *)
(* render (mlir/mlir_gemm_template.py, mlir_bmm_template.py and the four   *)
(* mlir_conv*_template.py): their loops, what a DMA of each operand moves, *)
(* the views the matrix unit is given, and what the output has to be.      *)
(*                                                                         *)
(* A kernel is a sequence of outer loops, one of inner loops, and for each *)
(* point of them four transfers (x, w, y, bias).  An element of a tensor   *)
(* is the address it has in it.  The contents of an output element are the *)
(* products <<element of X, element of W>> summed into it.                 *)
(***************************************************************************)
EXTENDS TemplateTiles

Stale == <<-2, -2>>        \* whatever was in the scratchpad before
Twice == <<-3, -3>>        \* a product that was added again
Biased(at) == <<-4, at>>   \* an element of the bias

-------------------------------------------------------------------------------
(* Y = X W: M by K times K by N.  With a reduction behind it the output is built column by column. *)
GemmOuter(job, t) ==
  LET m == Loop("m", job.M, t.m)
      n == Loop("n", job.N, t.n)
  IN IF job.M = 0 \/ job.N = 0 \/ job.K = 0 THEN <<Loop("m", 0, 1)>> ELSE IF job.reduce THEN <<n, m>> ELSE <<m, n>>
GemmMoves(job, t, i) ==
  LET Swap(s) == IF job.reduce THEN <<s[2], s[1]>> ELSE s
      column == Swap(<<job.ys[1], IF job.N > 1 THEN job.ys[2] ELSE 0>>)
      out == IF job.reduce THEN Described(<<t.n, t.m>>, <<t.m, 1>>, 1) ELSE Described(<<t.m, t.n>>, <<1, t.m>>, 2)
      at == Swap(<<i.m, i.n>>)
      end == Swap(<<job.M, job.N>>)
  IN [x |-> Move(Described(<<t.m, t.k>>, <<1, t.m>>, 2), <<i.m, i.k>>, job.xs, <<job.M, job.K>>),
      w |-> Move(Described(<<t.k, t.n>>, <<1, t.k>>, 2), <<i.k, i.n>>,
                 IF job.N > 1 THEN job.ws ELSE <<job.ys[1], 0>>, <<job.K, job.N>>),
      y |-> Move(out, at, column, end), bias |-> Move(out, at, Swap(job.bs), end)]

(* The same for each of B matrices. *)
BmmOuter(job, t) ==
  LET m == Loop("m", job.M, t.m)
      n == Loop("n", job.N, t.n)
  IN <<Loop("b", job.B, 1)>> \o IF job.reduce THEN <<n, m>> ELSE <<m, n>>
BmmMoves(job, t, i) ==
  LET Swap(s) == IF job.reduce THEN <<s[1], s[3], s[2]>> ELSE s
      out == IF job.reduce THEN Described(<<1, t.n, t.m>>, <<0, t.m, 1>>, 2) ELSE Described(<<1, t.m, t.n>>, <<0, 1, t.m>>, 3)
      at == Swap(<<i.b, i.m, i.n>>)
      end == Swap(<<job.B, job.M, job.N>>)
  IN [x |-> Move(Described(<<1, t.m, t.k>>, <<0, 1, t.m>>, 3), <<i.b, i.m, i.k>>, job.xs, <<job.B, job.M, job.K>>),
      w |-> Move(Described(<<1, t.k, t.n>>, <<0, 1, t.k>>, 3), <<i.b, i.k, i.n>>, job.ws, <<job.B, job.K, job.N>>),
      y |-> Move(out, at, Swap(job.ys), end), bias |-> Move(out, at, Swap(job.bs), end)]
WholeTile(t) == {[x |-> 0, w |-> 0, y |-> 0]}

-------------------------------------------------------------------------------
(* A convolution: the input is padded and laid out for the kernel by the wrapper, so are the weights. *)
Height(job) == job.IH + 2 * job.padding[1]
Width(job) == job.IW + 2 * job.padding[2]
MapIH(job, oh, kh) == oh * job.stride[1] + kh
MapIW(job, ow, kw) == ow * job.stride[2] + kw
ChannelsOut(job, split, from) ==   \* Bias_idx
  Move(split, from, <<0, 1, 0, 0>>, <<job.B, job.OC, job.OH, job.OW>>)

(* input: I_H, I_W, BATCH, I_C *)
ConvOuter(job, t) == <<Loop("m", job.B, t.m), Loop("n", job.OC, t.n), Loop("oh", job.OH, t.oh), Loop("ow", job.OW, t.ow)>>
ConvInner(job, t) == <<Loop("kh", job.KH, t.kh), Loop("kw", job.KW, t.kw), Loop("k", job.IC, t.k)>>
ConvWeights(job, t, i) ==
  Move(Described(<<t.kh, t.kw, t.k, t.n>>, <<t.kw * t.k * t.n, t.k * t.n, 1, t.k>>, 4), <<i.kh, i.kw, i.k, i.n>>,
       <<job.KW * job.IC * job.OC, job.IC * job.OC, job.OC, 1>>, <<job.KH, job.KW, job.IC, job.OC>>)
ConvOutput(job, t) == Described(<<t.m, t.n, t.oh, t.ow>>, <<1, t.m, t.ow * t.m * t.n, t.m * t.n>>, 2)
ConvMoves(job, t, i) ==
  LET at == <<i.m, i.n, i.oh, i.ow>>
  IN [x |-> Move(Described(<<t.ih, t.iw, t.m, t.k>>, <<t.iw * t.m * t.k, t.m * t.k, 1, t.m>>, 4),
                 <<MapIH(job, i.oh, i.kh), MapIW(job, i.ow, i.kw), i.m, i.k>>,
                 <<Width(job) * job.B * job.IC, job.B * job.IC, job.IC, 1>>, <<Height(job), Width(job), job.B, job.IC>>),
      w |-> ConvWeights(job, t, i),
      y |-> Move(ConvOutput(job, t), at, <<job.OC * job.OH * job.OW, job.OH * job.OW, job.OW, 1>>,
                 <<job.B, job.OC, job.OH, job.OW>>),
      bias |-> ChannelsOut(job, ConvOutput(job, t), at)]
ConvViews(job, t) ==
  {[w |-> kh * SpadPerLane(t.kw * t.k, t.n) + kw * SpadPerLane(t.k, t.n),
    x |-> MapIH(job, oh, kh) * SpadPerLane(t.iw * t.m, t.k) + MapIW(job, ow, kw) * SpadPerLane(t.m, t.k),
    y |-> oh * SpadPerLane(t.ow * t.m, t.n) + ow * SpadPerLane(t.m, t.n)]
   : kh \in 0 .. t.kh - 1, kw \in 0 .. t.kw - 1, oh \in 0 .. t.oh - 1, ow \in 0 .. t.ow - 1}

(* Few channels: the columns of the window and the channels are one dimension.  input: I_H, BATCH, I_W, I_C *)
MultiTileInner(job, t) == <<Loop("kh", job.KH, t.kh), Loop("k", job.IC * job.KW, t.k)>>
MultiTileMoves(job, t, i) ==
  LET at == <<i.m, i.n, i.oh, i.ow>>
      columns == job.IC * job.KW
  IN [x |-> Move(Described(<<t.ih, t.ow, t.m, t.k>>, <<t.ow * t.m * t.k, t.m * t.k, 1, t.m>>, 4),
                 <<MapIH(job, i.oh, i.kh), i.ow, i.m, i.k>>,
                 <<Width(job) * job.B * job.IC, job.IC * job.stride[2], job.IC * Width(job), 1>>,
                 <<Height(job), job.OW, job.B, columns>>),
      w |-> Move(Described(<<t.kh, 1, t.k, t.n>>, <<t.k * t.n, t.k * t.n, 1, t.k>>, 4), <<i.kh, 0, i.k, i.n>>,
                 <<columns * job.OC, 0, job.OC, 1>>, <<job.KH, 1, columns, job.OC>>),
      y |-> Move(ConvOutput(job, t), at, <<job.OC * job.OH * job.OW, job.OH * job.OW, job.OW, 1>>,
                 <<job.B, job.OC, job.OH, job.OW>>),
      bias |-> ChannelsOut(job, ConvOutput(job, t), at)]
MultiTileViews(job, t) ==
  {[w |-> kh * SpadPerLane(t.k, t.n),
    x |-> MapIH(job, oh, kh) * SpadPerLane(t.ow * t.m, t.k) + ow * SpadPerLane(t.m, t.k),
    y |-> oh * SpadPerLane(t.ow * t.m, t.n) + ow * SpadPerLane(t.m, t.n)]
   : kh \in 0 .. t.kh - 1, oh \in 0 .. t.oh - 1, ow \in 0 .. t.ow - 1}

(* One batch: the columns of the output are the rows of the product.  input: BATCH, I_H, I_W, I_C *)
SingleBatchOuter(job, t) == <<Loop("n", job.OC, t.n), Loop("oh", job.OH, t.oh), Loop("m", job.OW, t.m)>>
SingleBatchOut(job, t, i) ==
  LET tile == Described(<<1, t.n, t.oh, t.m>>, <<t.oh * t.m * t.n, t.m, t.m * t.n, 1>>, 2)
      at == <<0, i.n, i.oh, i.m>>
  IN [y |-> Move(tile, at, <<0, job.OH * job.OW, job.OW, 1>>, <<1, job.OC, job.OH, job.OW>>),
      bias |-> ChannelsOut(job, tile, at)]
SingleBatchMoves(job, t, i) ==
  SingleBatchOut(job, t, i) @@
  [x |-> Move(Described(<<1, t.ih, t.iw, t.k>>, <<t.ih * t.iw * t.k, t.iw * t.k, 1, t.iw>>, 4),
              <<0, MapIH(job, i.oh, i.kh), MapIW(job, i.m, i.kw), i.k>>,
              <<0, Width(job) * job.IC, job.IC, 1>>, <<1, Height(job), Width(job), job.IC>>),
   w |-> ConvWeights(job, t, i)]
SingleBatchViews(job, t) ==
  {[w |-> kh * SpadPerLane(t.kw * t.k, t.n) + kw * SpadPerLane(t.k, t.n),
    x |-> MapIH(job, oh, kh) * SpadPerLane(t.iw, t.k) + kw, y |-> oh * SpadPerLane(t.m, t.n)]
   : kh \in 0 .. t.kh - 1, kw \in 0 .. t.kw - 1, oh \in 0 .. t.oh - 1}
(* With a stride: a row of the tile for each column of the window. *)
StridedMoves(job, t, i) ==
  SingleBatchOut(job, t, i) @@
  [x |-> Move(Described(<<t.ih, t.kw, t.m, t.k>>, <<t.kw * t.m * t.k, t.m * t.k, 1, t.m>>, 4),
              <<MapIH(job, i.oh, i.kh), i.kw, i.m, i.k>>,
              <<Width(job) * job.IC, job.IC, job.IC * job.stride[2], 1>>, <<Height(job), job.KW, job.OW, job.IC>>),
   w |-> ConvWeights(job, t, i)]
StridedViews(job, t) ==
  {[w |-> kh * SpadPerLane(t.kw * t.k, t.n) + kw * SpadPerLane(t.k, t.n),
    x |-> MapIH(job, oh, kh) * SpadPerLane(t.m * t.kw, t.k) + kw * SpadPerLane(t.m, t.k), y |-> oh * SpadPerLane(t.m, t.n)]
   : kh \in 0 .. t.kh - 1, kw \in 0 .. t.kw - 1, oh \in 0 .. t.oh - 1}

-------------------------------------------------------------------------------
(* WRAPPER_TEMPLATE: the element of the caller's tensors that is at an address of what the kernel is given. *)
(* An input is <<batch, channel, row, column>>, a weight <<channel out, channel, row, column>>.             *)
Unpadded(job, e) ==
  LET row == e[3] - job.padding[1]
      column == e[4] - job.padding[2]
  IN IF row \notin 0 .. job.IH - 1 \/ column \notin 0 .. job.IW - 1 THEN Nothing
     ELSE ((e[1] * job.IC + e[2]) * job.IH + row) * job.IW + column
ConvInputAt(job, at) ==
  LET d == Digits(at, <<Height(job), Width(job), job.B, job.IC>>) IN Unpadded(job, <<d[3], d[4], d[1], d[2]>>)
MultiTileInputAt(job, at) ==
  LET d == Digits(at, <<Height(job), job.B, Width(job), job.IC>>) IN Unpadded(job, <<d[2], d[4], d[1], d[3]>>)
SingleBatchInputAt(job, at) ==
  LET d == Digits(at, <<job.B, Height(job), Width(job), job.IC>>) IN Unpadded(job, <<d[1], d[4], d[2], d[3]>>)
StridedInputAt(job, at) ==
  LET d == Digits(at, <<job.B, Height(job), Width(job), job.IC>>) IN Unpadded(job, <<d[1], d[4], d[2], d[3]>>)
InputAt(job, at) ==
  CASE at = Nothing -> Nothing
    [] at # Nothing /\ job.kind = "conv" -> ConvInputAt(job, at)
    [] at # Nothing /\ job.kind = "conv_mt" -> MultiTileInputAt(job, at)
    [] at # Nothing /\ job.kind = "conv_sb" -> SingleBatchInputAt(job, at)
    [] at # Nothing /\ job.kind = "conv_sbs" -> StridedInputAt(job, at)
WeightAt(job, at) ==
  LET d == Digits(at, <<job.KH, job.KW, job.IC, job.OC>>)
  IN IF at = Nothing THEN Nothing ELSE ((d[4] * job.IC + d[3]) * job.KH + d[1]) * job.KW + d[2]

-------------------------------------------------------------------------------
(* Which template a call of matmul, bmm or convolution is lowered to. *)
ConvKind(B, IC, stride, few, singleBatch, multiTile) ==
  CASE B = 1 /\ singleBatch /\ stride[1] = 1 -> "conv_sb"
    [] B = 1 /\ singleBatch /\ stride[1] # 1 -> "conv_sbs"
    [] ~(B = 1 /\ singleBatch) /\ IC < few /\ multiTile -> "conv_mt"
    [] OTHER -> "conv"
IsConv(job) == job.kind \in {"conv", "conv_mt", "conv_sb", "conv_sbs"}
Outer(job, t) ==
  CASE job.kind = "gemm" -> GemmOuter(job, t)
    [] job.kind = "bmm" -> BmmOuter(job, t)
    [] job.kind \in {"conv", "conv_mt"} -> ConvOuter(job, t)
    [] job.kind \in {"conv_sb", "conv_sbs"} -> SingleBatchOuter(job, t)
Inner(job, t) ==
  CASE job.kind \in {"gemm", "bmm"} -> <<Loop("k", job.K, t.k)>>
    [] job.kind = "conv_mt" -> MultiTileInner(job, t)
    [] OTHER -> ConvInner(job, t)
Moves(job, t, i) ==
  CASE job.kind = "gemm" -> GemmMoves(job, t, i)
    [] job.kind = "bmm" -> BmmMoves(job, t, i)
    [] job.kind = "conv" -> ConvMoves(job, t, i)
    [] job.kind = "conv_mt" -> MultiTileMoves(job, t, i)
    [] job.kind = "conv_sb" -> SingleBatchMoves(job, t, i)
    [] job.kind = "conv_sbs" -> StridedMoves(job, t, i)
Views(job, t) ==
  CASE job.kind \in {"gemm", "bmm"} -> WholeTile(t)
    [] job.kind = "conv" -> ConvViews(job, t)
    [] job.kind = "conv_mt" -> MultiTileViews(job, t)
    [] job.kind = "conv_sb" -> SingleBatchViews(job, t)
    [] job.kind = "conv_sbs" -> StridedViews(job, t)
(* The elements of a lane that %v0 sets to zero. *)
Zeroed(job, t) == IF IsConv(job) THEN SpadPerLane(t.oh * t.m, t.n) ELSE SpadPerLane(t.m, t.n)
================================================================================
