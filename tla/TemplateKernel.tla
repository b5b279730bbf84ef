---------------------------- MODULE TemplateKernel ----------------------------
(***************************************************************************)
(* From a node of the graph that a template implements to the tensor in    *)
(* DRAM: the nodes around it are fused (mlir_scheduling.py), a tile is     *)
(* chosen, the kernel is rendered (mlir/mlir_template.py) and run.         *)
(*                                                                         *)
(* A job is [kind, ...]: what the template is given, described where its   *)
(* kernel is (MatmulKernels, SortNetwork, FlashLoop, CatCopy).  Those of a *)
(* matrix product or a convolution also have before and after, <<>> or the *)
(* node that computes an operand and the node that reads the output.       *)
(* Its values are the possible inputs of a sort, {<<>>} otherwise.         *)
(***************************************************************************)
EXTENDS MatmulKernels, SortNetwork, FlashLoop, CatCopy, Fusion

CONSTANTS
  Jobs,   \* a sequence
  TopK    \* codegen_autotune_template_topk; 1 without autotuning

VARIABLES
  job, fused,     \* the job and which of "before" and "after" went into its kernel
  phase,          \* "fuse", "tile", "render", "run", "done"; "refused" when an exception ends the compilation
  hooks, unseen,  \* the hooks still to run, the buffers that grew after they were shown
  ran,            \* the kernels that have run
  tile, at,       \* the tile; the place in its loops, and the next step there
  sram, dram      \* buffer -> contents
vars == <<job, fused, phase, hooks, unseen, ran, tile, at, sram, dram>>

IsProduct(j) == j.kind \in {"gemm", "bmm"} \cup Conv
Has(j, which) == IsProduct(j) /\ (IF which = "before" THEN j.before ELSE j.after) # <<>>
Neighbour(j, which) == IF which = "before" THEN j.before[1] ELSE j.after[1]
FusedReduction == "after" \in fused /\ Neighbour(job, "after").reduction
(* The output of a reduction is built column by column. *)
Task == IF job.kind \in {"gemm", "bmm"} THEN [reduce |-> FusedReduction] @@ job ELSE job

Init ==
  /\ \E j \in Range(Jobs) :
       /\ job = [f \in DOMAIN j \ {"values"} |-> j[f]]
       /\ \E x \in j.values : dram = [x |-> x, y |-> <<>>, out |-> <<>>]
  /\ fused = {} /\ phase = "fuse" /\ hooks = <<>> /\ unseen = {} /\ ran = {}
  /\ tile = <<>> /\ at = [outer |-> 0, input |-> 1, inner |-> 0, step |-> "start"]
  /\ sram = <<>>

-------------------------------------------------------------------------------
(* The scheduler fuses as long as something can be fused. *)
Group == [job.node EXCEPT !.nodes = 1 + Cardinality(fused)]
CanFuse(which) ==
  /\ IsProduct(job) /\ Has(job, which) /\ which \notin fused
  /\ IF which = "before" THEN CanFusePrologue(Neighbour(job, which), Group)
     ELSE CanFuseHorizontal(Group, Neighbour(job, which))
Fuse(which) ==
  /\ phase = "fuse" /\ CanFuse(which)
  /\ fused' = fused \cup {which}
  /\ UNCHANGED <<job, phase, hooks, unseen, ran, tile, at, sram, dram>>

(* get_tile_candidates, for the nodes that were fused. *)
ExtraBuffers ==
  IF "after" \notin fused THEN 0
  ELSE LET node == Neighbour(job, "after")
       IN CASE job.kind = "gemm" -> Cardinality(node.reads \ job.node.writes)
            [] job.kind = "bmm" -> 1
            [] OTHER -> Cardinality((node.reads \cup node.writes) \ job.node.writes)
Candidates ==
  LET prologue == IF "before" \in fused THEN 1 ELSE 0
  IN CASE job.kind = "gemm" -> GemmTiles(job, ExtraBuffers, prologue)
       [] job.kind = "bmm" -> BmmTiles(job, ExtraBuffers, prologue)
       [] job.kind = "conv" -> ConvTiles(job, ExtraBuffers)
       [] job.kind = "conv_mt" -> MultiTileTiles(job, ExtraBuffers)
       [] job.kind = "conv_sb" -> SingleBatchTiles(job, ExtraBuffers)
       [] job.kind = "conv_sbs" -> StridedTiles(job, ExtraBuffers)
       [] job.kind = "flash" -> FlashTiles(job)
       [] job.kind = "cat" -> CatTiles(job)
       [] job.kind = "sort" -> <<<<>>>>

-------------------------------------------------------------------------------
(* A hook writes a part of the kernel's text: [priority, adds, shows], the buffers it adds to and shows. *)
Hook(priority, adds, shows) == [priority |-> priority, adds |-> adds, shows |-> shows]
GlobalVars == Hook(10, {}, {"map"})
DefKernel == Hook(5, {}, {"arg"})
FaultyLocalVars == Hook(5, {}, {"const", "alloc"})   \* shown in the order of the text
LocalVars == Hook(10, {}, {"const", "alloc"})
DmaOp == Hook(5, {"const", "map"}, {})
PrepareInput == Hook(1, {"const", "map"}, {"prologue"})
StoreOutput == Hook(1, {"const", "map"}, {"epilogue"})
ReductionOutput == Hook(5, {}, {"reductions"})
Registered(j, parts) ==
  LET head == <<GlobalVars, DefKernel, LocalVars>>
      If(condition, seq) == IF condition THEN seq ELSE <<>>
  IN CASE IsProduct(j) /\ Rounds(Outer([reduce |-> FALSE] @@ j, tile)) = 0 -> <<DefKernel>>
       [] j.kind = "cat" -> head \o [i \in 1 .. 2 * Len(j.shapes) |-> DmaOp]
       [] j.kind = "sort" -> head \o <<DmaOp, DmaOp, DmaOp>>
       [] j.kind = "flash" -> head \o <<DmaOp, DmaOp, DmaOp, DmaOp>>
       [] OTHER -> head \o If(j.bias, <<DmaOp>>) \o If("before" \in parts, <<PrepareInput>>)
                     \o If("before" \notin parts, <<DmaOp, DmaOp>>) \o <<StoreOutput>> \o If(FusedReduction, <<ReductionOutput>>)
(* _sort_hooks_by_priority *)
InOrder(seq) ==
  LET Of(priority) == SelectSeq(seq, LAMBDA h : h.priority = priority)
  IN Of(1) \o Of(5) \o Of(10)

Select ==
  /\ phase = "fuse" /\ \A which \in {"before", "after"} : ~CanFuse(which)
  /\ phase' = "tile"
  /\ \E i \in 1 .. Smaller(TopK, Len(Candidates)) : tile' = Candidates[i]
  /\ UNCHANGED <<job, fused, hooks, unseen, ran, at, sram, dram>>
(* Without a tile select_tile raises, or render does when it takes the first of none. *)
Refuse ==
  /\ phase = "fuse" /\ \A which \in {"before", "after"} : ~CanFuse(which)
  /\ Candidates = <<>>
  /\ phase' = "refused"
  /\ UNCHANGED <<job, fused, hooks, unseen, ran, tile, at, sram, dram>>
(* codegen_template_code: the text, then the bodies of the fused nodes, go into the buffers. *)
Render ==
  /\ phase = "tile"
  /\ phase' = "render"
  /\ hooks' = InOrder(Registered(job, fused))
  /\ unseen' = {"arg"} \cup (IF "before" \in fused THEN {"prologue", "alloc"} ELSE {})
                       \cup (IF "after" \in fused THEN {"epilogue", "const", "alloc"} ELSE {})
                       \cup (IF FusedReduction THEN {"reductions"} ELSE {})
  /\ UNCHANGED <<job, fused, ran, tile, at, sram, dram>>
RunHook ==
  /\ phase = "render" /\ hooks # <<>>
  /\ hooks' = Tail(hooks)
  /\ unseen' = (unseen \cup Head(hooks).adds) \ Head(hooks).shows
  /\ UNCHANGED <<job, fused, phase, ran, tile, at, sram, dram>>
Finalize ==
  /\ phase = "render" /\ hooks = <<>>
  /\ phase' = "run"
  /\ UNCHANGED <<job, fused, hooks, unseen, ran, tile, at, sram, dram>>

-------------------------------------------------------------------------------
(* The kernels run.  A node that was not fused has a kernel of its own. *)
Separate(which) == Has(job, which) /\ which \notin fused
RunBefore ==
  /\ phase = "run" /\ Separate("before") /\ "before" \notin ran
  /\ ran' = ran \cup {"before"}
  /\ UNCHANGED <<job, fused, phase, hooks, unseen, tile, at, sram, dram>>
Running(step) == phase = "run" /\ at.step = step /\ (Separate("before") => "before" \in ran) /\ "template" \notin ran
UnchangedKernel == UNCHANGED <<job, fused, phase, hooks, unseen, tile>>
Left(loops) == at.outer < Rounds(loops)
(* What a transfer out leaves in DRAM. *)
Written(brought, contents) ==
  [a \in Range(brought) \ {Nothing} |-> contents[CHOOSE p \in DOMAIN brought : brought[p] = a]]

OuterLoops ==
  CASE IsProduct(job) -> Outer(Task, tile)
    [] job.kind = "flash" -> FlashOuter(job, tile)
    [] job.kind = "sort" -> SortOuter(job)
    [] job.kind = "cat" -> CatOuter(job, tile)
EndTemplate ==
  /\ Running("start") /\ ~Left(OuterLoops)
  /\ ran' = ran \cup {"template"}
  /\ UnchangedKernel /\ UNCHANGED <<at, sram, dram>>

(* ---- a matrix product or a convolution ---- *)
Here == Moves(Task, tile, Round(OuterLoops, at.outer) @@ Round(Inner(Task, tile), at.inner))
StartRound ==
  /\ IsProduct(job) /\ Running("start") /\ Left(OuterLoops)
  /\ LET out == Brought(Here.y)
         bias == Brought(Here.bias)
         Resident(p) == IF sram # <<>> /\ p \in DOMAIN sram.y THEN sram.y[p] ELSE {Stale}
         Begin(p) ==
           CASE job.bias /\ bias[p] = Nothing -> {}
             [] job.bias /\ bias[p] # Nothing -> {Biased(bias[p])}
             [] ~job.bias /\ p[2] < Zeroed(Task, tile) -> {}
             [] ~job.bias /\ p[2] >= Zeroed(Task, tile) -> Resident(p)
     IN sram' = [y |-> [p \in DOMAIN out |-> Begin(p)], x |-> <<>>, w |-> <<>>, dressed |-> {},
                 partial |-> IF sram = <<>> THEN <<>> ELSE sram.partial]
  /\ at' = [at EXCEPT !.inner = 0, !.step = IF Rounds(Inner(Task, tile)) = 0 THEN "store" ELSE "load"]
  /\ UnchangedKernel /\ UNCHANGED <<ran, dram>>

(* load_input: the fused operand, the body that computes it in place, the other operand. *)
FaultyLoads ==   \* the body runs before its operand has come
  IF "before" \notin fused THEN <<"x", "w">>
  ELSE LET of == Neighbour(job, "before").operand IN <<"body", of, IF of = "x" THEN "w" ELSE "x">>
Loads ==
  IF "before" \notin fused THEN <<"x", "w">>
  ELSE LET of == Neighbour(job, "before").operand IN <<of, "body", IF of = "x" THEN "w" ELSE "x">>
Load ==
  /\ IsProduct(job) /\ Running("load")
  /\ LET Do(s, load) ==
           CASE load = "x" -> [s EXCEPT !.x = Brought(Here.x), !.dressed = @ \ {"x"}]
             [] load = "w" -> [s EXCEPT !.w = Brought(Here.w), !.dressed = @ \ {"w"}]
             [] load = "body" -> [s EXCEPT !.dressed = @ \cup {Neighbour(job, "before").operand}]
     IN sram' = FoldLeft(Do, sram, Loads)
  /\ at' = [at EXCEPT !.step = "multiply"]
  /\ UnchangedKernel /\ UNCHANGED <<ran, dram>>

(* linalg.matmul over each view: the products of a row and a column go to one place. *)
Undressed == <<-5, -5>>
Multiply ==
  /\ IsProduct(job) /\ Running("multiply")
  /\ LET views == Views(Task, tile)
         Row(v, p) == (p[2] - v.y) % tile.m
         Column(v, p) == (((p[2] - v.y) \div tile.m) * Lanes) + p[1]
         Touches(v, p) == p[2] >= v.y /\ Column(v, p) < tile.n
         Pair(v, p, k) ==
           <<sram.x[Operand(v.x, tile.m, Row(v, p), k)], sram.w[Operand(v.w, tile.k, k, Column(v, p))]>>
         Terms(p) == {s \in views \X (0 .. tile.k - 1) : Touches(s[1], p) /\ Nothing \notin Range(Pair(s[1], p, s[2]))}
         Sum(p) ==
           LET new == {Pair(s[1], p, s[2]) : s \in Terms(p)}
               again == Cardinality(new) < Cardinality(Terms(p)) \/ new \cap sram.y[p] # {}
               raw == "before" \in fused /\ sram.dressed = {} /\ new # {}
           IN sram.y[p] \cup new \cup (IF again THEN {Twice} ELSE {}) \cup (IF raw THEN {Undressed} ELSE {})
     IN sram' = [sram EXCEPT !.y = [p \in DOMAIN sram.y |-> Sum(p)]]
  /\ at' = IF at.inner + 1 < Rounds(Inner(Task, tile)) THEN [at EXCEPT !.inner = @ + 1, !.step = "load"]
           ELSE [at EXCEPT !.step = "store"]
  /\ UnchangedKernel /\ UNCHANGED <<ran, dram>>

(* codegen_epilogue_body: the output of the kernel is the epilogue's, or both when that is a reduction. *)
Store ==
  /\ IsProduct(job) /\ Running("store")
  /\ LET out == Brought(Here.y)
         rows == job.M - Round(OuterLoops, at.outer).m
         ColumnOf(p) == <<p[1], p[2] \div tile.m>>
         OfColumn(g) == {p \in DOMAIN sram.y : ColumnOf(p) = g /\ p[2] % tile.m < rows}
         SoFar(g) == IF g \in DOMAIN sram.partial THEN sram.partial[g] ELSE {}
     IN CASE fused \cap {"after"} = {} ->
               /\ dram' = [dram EXCEPT !.y = Written(out, sram.y) @@ @]
               /\ sram' = sram
          [] "after" \in fused /\ ~FusedReduction ->
               /\ dram' = [dram EXCEPT !.out = Written(out, sram.y) @@ @]
               /\ sram' = sram
          [] FusedReduction ->
               /\ dram' = [dram EXCEPT !.y = Written(out, sram.y) @@ @]
               /\ sram' = [sram EXCEPT !.partial =
                             [g \in {ColumnOf(p) : p \in DOMAIN sram.y} |-> SoFar(g) \cup {sram.y[p] : p \in OfColumn(g)}]]
  /\ at' = LET lastRow == Last(OuterLoops)
               column == (at.outer + 1) % CeilDiv(lastRow.to, lastRow.by) = 0
           IN IF FusedReduction /\ column THEN [at EXCEPT !.step = "flush"]
              ELSE [at EXCEPT !.outer = @ + 1, !.inner = 0, !.step = "start"]
  /\ UnchangedKernel /\ UNCHANGED ran
(* store_reduction_epilogue: what was kept of each column goes out and is cleared. *)
Flush ==
  /\ IsProduct(job) /\ Running("flush")
  /\ LET i == Round(OuterLoops, at.outer)
         batch == IF job.kind = "bmm" THEN i.b ELSE 0
         Column(g) == i.n + g[2] * Lanes + g[1]
     IN dram' = [dram EXCEPT !.out =
                   [a \in {batch * job.N + Column(g) : g \in {h \in DOMAIN sram.partial : Column(h) < job.N}} |->
                      sram.partial[CHOOSE g \in DOMAIN sram.partial : batch * job.N + Column(g) = a]] @@ @]
  /\ sram' = [sram EXCEPT !.partial = <<>>]
  /\ at' = [at EXCEPT !.outer = @ + 1, !.inner = 0, !.step = "start"]
  /\ UnchangedKernel /\ UNCHANGED ran

(* ---- attention ---- *)
Attend == FlashMoves(job, tile, Round(OuterLoops, at.outer) @@ Round(FlashInner(job, tile), at.inner))
FlashBegin ==
  /\ job.kind = "flash" /\ Running("start") /\ Left(OuterLoops)
  /\ sram' = [q |-> Brought(Attend.q), kept |-> FlashStart(tile)]
  /\ at' = [at EXCEPT !.inner = 0, !.step = "block"]
  /\ UnchangedKernel /\ UNCHANGED <<ran, dram>>
FlashStep ==
  /\ job.kind = "flash" /\ Running("block")
  /\ sram' = [sram EXCEPT !.kept = FlashBlock(job, tile, sram.q, Brought(Attend.k), Brought(Attend.v), @)]
  /\ at' = IF at.inner + 1 < Rounds(FlashInner(job, tile)) THEN [at EXCEPT !.inner = @ + 1] ELSE [at EXCEPT !.step = "store"]
  /\ UnchangedKernel /\ UNCHANGED <<ran, dram>>
FlashEnd ==
  /\ job.kind = "flash" /\ Running("store")
  /\ dram' = [dram EXCEPT !.y = Written(Brought(Attend.out), FlashOutput(tile, sram.kept)) @@ @]
  /\ at' = [at EXCEPT !.outer = @ + 1, !.inner = 0, !.step = "start"]
  /\ UnchangedKernel /\ UNCHANGED <<ran, sram>>

(* ---- sort: sram is, for each lane, the chunks of its line ---- *)
SortHere(strides) == SortMove(job, strides, Round(OuterLoops, at.outer))
SortSteps == MergeSteps(job.shape[job.dim] \div job.vector)
SortLoad ==
  /\ job.kind = "sort" /\ Running("start") /\ Left(OuterLoops)
  /\ LET in == Brought(SortHere(job.strides))
         lanes == {p[1] : p \in {q \in DOMAIN in : in[q] # Nothing}}
         Line(lane) == [e \in 1 .. job.shape[job.dim] |-> [v |-> dram.x[in[<<lane, e - 1>>]], i |-> e - 1]]
     IN sram' = [lane \in lanes |-> LocalSort(Chunks(Line(lane), job.vector), job.descending, job.stable)]
  /\ at' = [at EXCEPT !.inner = 0, !.step = "merge"]
  /\ UnchangedKernel /\ UNCHANGED <<ran, dram>>
SortMerge ==
  /\ job.kind = "sort" /\ Running("merge") /\ at.inner < Len(SortSteps)
  /\ sram' = [lane \in DOMAIN sram |-> MergeStep(sram[lane], SortSteps[at.inner + 1], job.descending, job.stable)]
  /\ at' = [at EXCEPT !.inner = @ + 1]
  /\ UnchangedKernel /\ UNCHANGED <<ran, dram>>
SortStore ==
  /\ job.kind = "sort" /\ Running("merge") /\ at.inner = Len(SortSteps)
  /\ LET Line(lane) == Joined(sram[lane])
         places == (DOMAIN sram) \X (0 .. job.shape[job.dim] - 1)
         Out(brought) == [p \in places |-> brought[p]]
     IN dram' = [dram EXCEPT !.y = Written(Out(Brought(SortHere(job.ys))), [p \in places |-> Line(p[1])[p[2] + 1].v]) @@ @,
                             !.out = Written(Out(Brought(SortHere(job.is))), [p \in places |-> Line(p[1])[p[2] + 1].i]) @@ @]
  /\ at' = [at EXCEPT !.outer = @ + 1, !.inner = 0, !.step = "start"]
  /\ UnchangedKernel /\ UNCHANGED <<ran, sram>>

(* ---- concatenation: input after input, piece after piece ---- *)
CatBegin ==
  /\ job.kind = "cat" /\ Running("start") /\ Left(OuterLoops)
  /\ at' = [at EXCEPT !.input = 1, !.inner = 0, !.step = "copy"]
  /\ UnchangedKernel /\ UNCHANGED <<ran, sram, dram>>
CatCopyPiece ==
  /\ job.kind = "cat" /\ Running("copy") /\ at.input <= Len(job.shapes)
  /\ LET n == at.input
         inner == CatInner(job, tile, n)
         moves == CatMoves(job, tile, n, Round(OuterLoops, at.outer) @@ Round(inner, at.inner))
         in == Brought(moves.in)
         held == [p \in DOMAIN in |-> <<Buffer(job, n), in[p]>>]
     IN /\ sram' = (Buffer(job, n) :> held) @@ sram
        /\ dram' = [dram EXCEPT !.y = Written(Brought(moves.out), held) @@ @]
        /\ at' = IF at.inner + 1 < Rounds(inner) THEN [at EXCEPT !.inner = @ + 1]
                 ELSE [at EXCEPT !.input = @ + 1, !.inner = 0]
  /\ UnchangedKernel /\ UNCHANGED ran
CatEnd ==
  /\ job.kind = "cat" /\ Running("copy") /\ at.input > Len(job.shapes)
  /\ at' = [at EXCEPT !.outer = @ + 1, !.step = "start"]
  /\ UnchangedKernel /\ UNCHANGED <<ran, sram, dram>>

-------------------------------------------------------------------------------
(* What a matrix product or a convolution has to be: output address -> its terms. *)
Bias(j, addressed) == IF j.bias THEN {Biased(addressed)} ELSE {}
ProductOf(j) ==
  LET At2(i, strides) == i[1] * strides[1] + i[2] * strides[2]
      At3(i, strides) == i[1] * strides[1] + i[2] * strides[2] + i[3] * strides[3]
      Gemm(i) == {<<At2(<<i[1], k>>, j.xs), At2(<<k, i[2]>>, j.ws)>> : k \in 0 .. j.K - 1} \cup Bias(j, At2(i, j.bs))
      Bmm(i) == {<<At3(<<i[1], i[2], k>>, j.xs), At3(<<i[1], k, i[3]>>, j.ws)>> : k \in 0 .. j.K - 1}
                  \cup Bias(j, At3(i, j.bs))
      InRange(h, w) == h \in 0 .. j.IH - 1 /\ w \in 0 .. j.IW - 1
      RowIn(i, r) == i[3] * j.stride[1] + r * j.dilation[1] - j.padding[1]
      ColumnIn(i, c) == i[4] * j.stride[2] + c * j.dilation[2] - j.padding[2]
      Window4 == (0 .. j.IC - 1) \X (0 .. j.KH - 1) \X (0 .. j.KW - 1)
      Convolved(i) ==
        {<<((i[1] * j.IC + q[1]) * j.IH + RowIn(i, q[2])) * j.IW + ColumnIn(i, q[3]),
           ((i[2] * j.IC + q[1]) * j.KH + q[2]) * j.KW + q[3]>>
         : q \in {r \in Window4 : InRange(RowIn(i, r[2]), ColumnIn(i, r[3]))}} \cup Bias(j, i[2])
      Table(S, Address(_), Value(_)) == [a \in {Address(i) : i \in S} |-> Value(CHOOSE i \in S : Address(i) = a)]
  IN CASE j.kind = "gemm" -> Table((0 .. j.M - 1) \X (0 .. j.N - 1), LAMBDA i : At2(i, j.ys), Gemm)
       [] j.kind = "bmm" -> Table((0 .. j.B - 1) \X (0 .. j.M - 1) \X (0 .. j.N - 1), LAMBDA i : At3(i, j.ys), Bmm)
       [] OTHER -> Table((0 .. j.B - 1) \X (0 .. j.OC - 1) \X (0 .. j.OH - 1) \X (0 .. j.OW - 1),
                         LAMBDA i : ((i[1] * j.OC + i[2]) * j.OH + i[3]) * j.OW + i[4], Convolved)
(* The terms of an output element, in the caller's tensors. *)
Decoded(j, terms) ==
  IF j.kind \notin Conv THEN terms
  ELSE LET Tag(t) == t[1] < 0
           Caller(t) == IF Tag(t) THEN t ELSE <<InputAt(j, t[1]), WeightAt(j, t[2])>>
       IN {Caller(t) : t \in {u \in terms : Tag(u) \/ Nothing \notin Range(Caller(u))}}
(* What the node behind it makes of the output. *)
Reduced(j, y) ==
  LET batches == IF j.kind = "bmm" THEN 0 .. j.B - 1 ELSE {0}
      Column(b, n) == {y[(IF j.kind = "bmm" THEN b * j.ys[1] + m * j.ys[2] ELSE m * j.ys[1]) + n * Last(j.ys)] : m \in 0 .. j.M - 1}
  IN [a \in {b * j.N + n : b \in batches, n \in 0 .. j.N - 1} |-> Column(a \div j.N, a % j.N)]
After(j, y) == IF Neighbour(j, "after").reduction THEN Reduced(j, y) ELSE y

RunAfter ==
  /\ phase = "run" /\ "template" \in ran /\ Separate("after") /\ "after" \notin ran
  /\ ran' = ran \cup {"after"}
  /\ dram' = [dram EXCEPT !.out = After(job, dram.y)]
  /\ UNCHANGED <<job, fused, phase, hooks, unseen, tile, at, sram>>
Finish ==
  /\ phase = "run" /\ "template" \in ran /\ (Separate("after") => "after" \in ran)
  /\ phase' = "done"
  /\ UNCHANGED <<job, fused, hooks, unseen, ran, tile, at, sram, dram>>
Done == phase \in {"done", "refused"} /\ UNCHANGED vars

Next ==
  \/ \E which \in {"before", "after"} : Fuse(which)
  \/ Select \/ Refuse \/ Render \/ RunHook \/ Finalize
  \/ RunBefore \/ EndTemplate \/ RunAfter \/ Finish
  \/ StartRound \/ Load \/ Multiply \/ Store \/ Flush
  \/ FlashBegin \/ FlashStep \/ FlashEnd
  \/ SortLoad \/ SortMerge \/ SortStore
  \/ CatBegin \/ CatCopyPiece \/ CatEnd
  \/ Done
Spec == Init /\ [][Next]_vars

-------------------------------------------------------------------------------
(* What the kernels of a matrix product or a convolution leave is the sum of exactly its products, with its *)
(* bias, and what the node behind it makes of that.                                                         *)
SumsRight ==
  LET product == ProductOf(job)
      Right(got, want) == DOMAIN got = DOMAIN want /\ \A a \in DOMAIN want : Decoded(job, got[a]) = want[a]
  IN /\ "after" \notin fused \/ FusedReduction => Right(dram.y, product)
     /\ Has(job, "after") =>
          IF Neighbour(job, "after").reduction THEN dram.out = Reduced(job, product) ELSE Right(dram.out, product)

(* The kernels reach the input by map_I_H and map_I_W, which leave the dilation out: a convolution whose *)
(* window is spread by it is excepted below.                                                             *)
Dilated(j) == j.kind \in Conv /\ ((j.dilation[1] > 1 /\ j.KH > 1) \/ (j.dilation[2] > 1 /\ j.KW > 1))

(* When the kernels have run, every element of the output of a matrix product or a convolution that is not *)
(* dilated is the sum of exactly its products, with its bias, whatever the tile and whatever was fused; so *)
(* is what the node behind it makes of it.  A fused pointwise epilogue stores its own output in place of   *)
(* the template's.                                                                                         *)
OutputRight == phase = "done" /\ IsProduct(job) /\ ~Dilated(job) => SumsRight

(* The tile a template was given leaves room on each lane for two copies of its input, weight and output *)
(* buffers: the kernel loads a tile while it works on another.                                           *)
TilesFit ==
  phase = "run" /\ IsProduct(job) /\ Running("load") =>
    (2 * (NumelPerLane(Here.x.tile) + NumelPerLane(Here.w.tile) + NumelPerLane(Here.y.tile))) * Precision <= Spad

(* A hook may add to the maps, constants and buffers at the head of the text: when the kernel is finished *)
(* nothing that was added is missing from it.                                                             *)
Declared == phase = "run" => unseen = {} \/ hooks # <<>> \/ Rounds(OuterLoops) = 0

(* Together: the kernel that runs is one that can be built: nothing it names is missing, and two copies of *)
(* the tiles it holds fit the scratchpad.                                                                 *)
Buildable == TilesFit /\ Declared

(* The lines of a sorted tensor are in order and hold the elements their indices name, each once. *)
SortLines ==
  LET others == Range(Others(job))
      places == {p \in [others -> 0 .. Max(Range(job.shape)) - 1] : \A d \in others : p[d] < job.shape[d]}
      OfLine(p, e, strides) == FoldFunction(+, e * strides[job.dim], [d \in others |-> p[d] * strides[d]])
  IN {[v |-> [e \in 1 .. job.shape[job.dim] |-> dram.y[OfLine(p, e - 1, job.ys)]],
       i |-> [e \in 1 .. job.shape[job.dim] |-> dram.out[OfLine(p, e - 1, job.is)]],
       x |-> [e \in 1 .. job.shape[job.dim] |-> dram.x[OfLine(p, e - 1, job.strides)]]] : p \in places}
Sorted ==
  phase = "done" /\ job.kind = "sort" =>
    \A line \in SortLines :
      /\ Range(line.i) = 0 .. Len(line.x) - 1
      /\ \A e \in DOMAIN line.v : line.v[e] = line.x[line.i[e] + 1]
      /\ \A e \in 1 .. Len(line.v) - 1 : IF job.descending THEN line.v[e] >= line.v[e + 1] ELSE line.v[e] <= line.v[e + 1]

(* However many blocks the keys come in, and whichever holds the largest score, each element of the output *)
(* is the values weighted by the exponentials of their scores, over the sum of those, each counted once.   *)
AttentionRight ==
  phase = "done" /\ job.kind = "flash" => {<<a, dram.y[a]>> : a \in DOMAIN dram.y} = Attention(job)
(* Each element of each input is in the output once, behind the inputs before it, for every tile. *)
Concatenated ==
  phase = "done" /\ job.kind = "cat" => {<<a, dram.y[a]>> : a \in DOMAIN dram.y} = Concatenation(job)

(* Together: what the kernels leave in DRAM is the result the operator is defined by. *)
ResultRight == OutputRight /\ Sorted /\ AttentionRight /\ Concatenated
===============================================================================
