------------------------------- MODULE FlashLoop -------------------------------
(***************************************************************************)
(* The attention kernel (mlir/mlir_sdpa_template.py): for a tile of rows   *)
(* of the query it walks the keys block by block, keeping for each row the *)
(* largest score so far, the sum of the exponentials and the weighted      *)
(* values, all relative to that largest score.                             *)
(*                                                                         *)
(* Scores are integers.  exp(x) is the integer x: a sum is a bag of        *)
(* exponents, an output element a set of <<element of the value, exponent>>.*)
(* A job gives b, l, s, e, the strides qs, ks, vs, os, and the query and   *)
(* the key as functions of the address.                                    *)
(***************************************************************************)
EXTENDS TemplateTiles, Bags

NegInf == -1000   \* -1.0e+30

(* select_tile: a lane for each row, a block of as many keys. *)
FlashTiles(job) == <<[l |-> Lanes, s |-> Lanes, e |-> job.e]>>
FlashOuter(job, t) == <<Loop("b", job.b, 1), Loop("l", job.l, t.l)>>
FlashInner(job, t) == <<Loop("s", job.s, t.s)>>
FlashMoves(job, t, i) ==
  LET rows == Described(<<1, t.l, t.e>>, <<0, t.e, 1>>, 2)
      end == <<job.b, job.l, job.e>>
      keys == <<job.b, job.s, job.e>>
  IN [q |-> Move(rows, <<i.b, i.l, 0>>, job.qs, end),
      k |-> Move(Described(<<1, t.s, t.e>>, <<0, 1, t.s>>, 3), <<i.b, i.s, 0>>, job.ks, keys),
      v |-> Move(Described(<<1, t.s, t.e>>, <<0, t.e, 1>>, 2), <<i.b, i.s, 0>>, job.vs, keys),
      out |-> Move(rows, <<i.b, i.l, 0>>, job.os, end)]

(* What is kept of a row before the first block. *)
FlashStart(t) == [row \in 0 .. t.l - 1 |-> [max |-> NegInf, sum |-> EmptyBag, out |-> [e \in 0 .. t.e - 1 |-> {}]]]
(* key @ query.t, the operands where the DMA put them. *)
Score(job, t, q, k, key, row) ==
  LET KeyPart(e) == k[Operand(0, t.s, key, e)]
      QueryPart(e) == q[Operand(0, t.e, e, row)]
      Term(e) == IF Nothing \in {KeyPart(e), QueryPart(e)} THEN 0 ELSE job.key[KeyPart(e)] * job.query[QueryPart(e)]
  IN FoldFunction(+, 0, [e \in 0 .. t.e - 1 |-> Term(e)])
ShiftedBag(bag, by) == [x \in {y + by : y \in DOMAIN bag} |-> bag[x - by]]
FlashRow(job, t, q, k, v, row, kept) ==
  LET score == [key \in 0 .. t.s - 1 |-> Score(job, t, q, k, key, row)]
      max == Max(Range(score) \cup {kept.max})
      rescale == kept.max - max
      Weighted(e) == {<<v[Operand(0, t.e, e, key)], score[key] - max>> : key \in DOMAIN score}   \* value.t @ mul
      exps == [x \in {score[key] - max : key \in DOMAIN score} |-> Cardinality({key \in DOMAIN score : score[key] - max = x})]
  IN [max |-> max, sum |-> ShiftedBag(kept.sum, rescale) (+) exps,
      out |-> [e \in DOMAIN kept.out |->
                 {<<w[1], w[2] + rescale>> : w \in kept.out[e]} \cup {w \in Weighted(e) : w[1] # Nothing}]]
FlashBlock(job, t, q, k, v, kept) == [row \in DOMAIN kept |-> FlashRow(job, t, q, k, v, row, kept[row])]
(* out @ row_sum^(-1), in the layout of the output tile. *)
FlashOutput(t, kept) ==
  [p \in {Operand(0, t.e, e, row) : e \in 0 .. t.e - 1, row \in DOMAIN kept} |->
     LET at == CHOOSE x \in (0 .. t.e - 1) \X DOMAIN kept : Operand(0, t.e, x[1], x[2]) = p
     IN [num |-> kept[at[2]].out[at[1]], den |-> kept[at[2]].sum]]

(* What attention is: of each row, every value weighted by exp(score - largest score), over the sum of the weights. *)
Attention(job) ==
  LET Score3(b, r, j) ==
        FoldFunction(+, 0, [e \in 0 .. job.e - 1 |-> job.query[b * job.qs[1] + r * job.qs[2] + e * job.qs[3]] *
                                                    job.key[b * job.ks[1] + j * job.ks[2] + e * job.ks[3]]])
      Of(b, r, e) ==
        LET score == [j \in 0 .. job.s - 1 |-> Score3(b, r, j)]
            max == Max(Range(score))
        IN [num |-> {<<b * job.vs[1] + j * job.vs[2] + e * job.vs[3], score[j] - max>> : j \in DOMAIN score},
            den |-> [x \in {score[j] - max : j \in DOMAIN score} |-> Cardinality({j \in DOMAIN score : score[j] - max = x})]]
      index == (0 .. job.b - 1) \X (0 .. job.l - 1) \X (0 .. job.e - 1)
  IN {<<i[1] * job.os[1] + i[2] * job.os[2] + i[3] * job.os[3], Of(i[1], i[2], i[3])>> : i \in index}
================================================================================
