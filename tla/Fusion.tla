-------------------------------- MODULE Fusion --------------------------------
(***************************************************************************)
(* When two nodes of the graph go into one kernel (mlir_scheduling.py).    *)
(*                                                                         *)
(* A node is [kind, nodes, reduction, vars, rvars, size, reads, writes,    *)
(* inputs, view, unmet, rstride, inputNumel]: kind is the template's or    *)
(* "none", nodes how many were fused into it, vars and rvars its iteration *)
(* space, size that of its buffer, unmet the buffers it still waits for,   *)
(* rstride the stride of the reduced dimension.                            *)
(***************************************************************************)
EXTENDS Integers, Sequences, FiniteSets, SequencesExt

CONSTANTS
  FusePrologue, FuseNodes, FuseReductionEpilogue, FuseReductions,   \* CONFIG_FUSION_*
  MaxFusionSize

Conv == {"conv", "conv_mt", "conv_sb", "conv_sbs"}
(* support_epilogue_fusion, support_prologue_fusion, support_reduction_fusion *)
Supports(kind) ==
  [epilogue |-> kind \in {"gemm", "bmm"} \cup Conv, prologue |-> kind \in {"gemm", "bmm"}, reduction |-> kind \in {"gemm", "bmm"}]
Template(node) == node.kind # "none"
Numel(sizes) == FoldLeft(LAMBDA a, b : a * b, 1, sizes)
Alone(a, b) == a.nodes = 1 /\ b.nodes = 1

(* can_fuse_with_exceptions, case 3: a pointwise node in front of a template. *)
CanFusePrologue(a, b) ==
  /\ FusePrologue
  /\ Alone(a, b) /\ ~Template(a) /\ ~a.reduction /\ Template(b)
  /\ Supports(b.kind).prologue
  /\ Cardinality(a.writes) = 1
  /\ a.writes \subseteq b.inputs /\ ~a.view
  /\ b.vars[1] # 1
  /\ a.writes \cap b.reads # {}

(* can_fuse_horizontal, case 0: two reductions over the same space, neither reading what the other writes. *)
CanFuseReductions(a, b) ==
  /\ a.vars = b.vars /\ a.rvars = b.rvars
  /\ a.writes \cap (b.reads \cup b.writes) = {} /\ b.writes \cap (a.reads \cup a.writes) = {}
(* Case 1: a pointwise node behind a template. *)
CanFuseEpilogue(a, b) ==
  /\ Alone(a, b) /\ Template(a) /\ ~Template(b) /\ ~b.reduction
  /\ Supports(a.kind).epilogue
  /\ Numel(a.vars) = Numel(b.vars)
  /\ a.writes # {} /\ b.unmet \subseteq a.writes /\ a.reads \cap b.writes = {}
  /\ a.vars = b.vars \/ (~(Supports(a.kind).prologue /\ a.vars[1] = 1) /\ a.vars = b.size)
(* Case 2: a reduction behind a template, not along the innermost dimension. *)
CanFuseReductionEpilogue(a, b) ==
  /\ FuseReductionEpilogue
  /\ Alone(a, b) /\ Template(a) /\ ~Template(b) /\ b.reduction
  /\ Supports(a.kind).reduction
  /\ Numel(a.size) = Numel(b.size) * Numel(b.rvars)
  /\ b.rstride # 1 /\ 1 \notin Range(a.size)
  /\ a.writes \cap b.reads # {}
  /\ b.inputNumel = Numel(a.size)
CanFuseHorizontal(a, b) ==
  /\ FuseNodes
  /\ a.nodes + b.nodes <= MaxFusionSize
  /\ ~(Template(a) /\ Template(b))
  /\ IF a.reduction /\ b.reduction /\ ~Template(a) /\ ~Template(b) /\ FuseReductions
     THEN CanFuseReductions(a, b)
     ELSE CanFuseEpilogue(a, b) \/ CanFuseReductionEpilogue(a, b)
===============================================================================
