------------------------------ MODULE SortNetwork ------------------------------
(***************************************************************************)
(* The sort kernel (mlir/mlir_sort_template.py): a bitonic network inside  *)
(* each vector ("chunk") of a line, then a bitonic merge of the chunks.    *)
(* An element is [v, i]: its value and where it was in the line.           *)
(***************************************************************************)
EXTENDS TemplateTiles

PowersOfTwo(n) == {2 ^ e : e \in 0 .. n} \cap (1 .. n)
(* The steps of a network over n elements: blocks of "size", partners "stride" apart. *)
BitonicStages(n) ==
  SetToSortSeq({s \in PowersOfTwo(n) \X PowersOfTwo(n) : 2 * s[2] <= s[1]},
               LAMBDA a, b : a[1] < b[1] \/ (a[1] = b[1] /\ a[2] > b[2]))
Partner(p, stride) == IF (p \div stride) % 2 = 0 THEN p + stride ELSE p - stride
SelectMin(p, size, stride, descending) == (((p \div stride) % 2 = 0) = ((p \div size) % 2 = 0)) # descending

PairLessEqual(a, b) == a.v < b.v \/ (a.v = b.v /\ a.i <= b.i)
PairGreaterEqual(a, b) == a.v > b.v \/ (a.v = b.v /\ a.i <= b.i)
BitonicSortPair(chunk, descending, stable) ==
  LET Before(a, b) ==
        CASE ~stable -> a.v <= b.v
          [] stable /\ descending -> a.v < b.v \/ (a.v = b.v /\ a.i >= b.i)
          [] stable /\ ~descending -> PairLessEqual(a, b)
      Stage(now, s) ==
        [p \in DOMAIN now |->
           LET other == now[Partner(p - 1, s[2]) + 1]
           IN IF SelectMin(p - 1, s[1], s[2], descending) = Before(now[p], other) THEN now[p] ELSE other]
  IN FoldLeft(Stage, chunk, BitonicStages(Len(chunk)))
MergeSortedPair(left, right, ascending, stable) ==
  LET mirror == Reverse(right)
      Keep(a, b) ==
        CASE ascending /\ stable -> PairLessEqual(a, b)
          [] ascending /\ ~stable -> a.v <= b.v
          [] ~ascending /\ stable -> PairGreaterEqual(a, b)
          [] ~ascending /\ ~stable -> a.v >= b.v
  IN [left |-> [p \in DOMAIN left |-> IF Keep(left[p], mirror[p]) THEN left[p] ELSE mirror[p]],
      right |-> [p \in DOMAIN left |-> IF Keep(left[p], mirror[p]) THEN mirror[p] ELSE left[p]]]

-------------------------------------------------------------------------------
(* render: what the kernel does to a line, a sequence of chunks counted from 0. *)
CanSort(size, vector) == size > 0 /\ size % vector = 0 /\ size \div vector \in PowersOfTwo(size)
Chunks(line, vector) == [c \in 0 .. Len(line) \div vector - 1 |-> SubSeq(line, c * vector + 1, (c + 1) * vector)]
Joined(chunks) == FlattenSeq([c \in 1 .. Cardinality(DOMAIN chunks) |-> chunks[c - 1]])
LocalSort(chunks, descending, stable) == [c \in DOMAIN chunks |-> BitonicSortPair(chunks[c], descending, stable)]
(* The merges, in order: every second group of k chunks from "start" on, chunks j apart. *)
MergeSteps(n) ==
  LET steps == {s \in PowersOfTwo(n) \X PowersOfTwo(n) \X (0 .. n - 1) : 2 * s[2] <= s[1] /\ s[3] \in {0, s[1]}}
      Earlier(a, b) == a[1] < b[1] \/ (a[1] = b[1] /\ (a[2] > b[2] \/ (a[2] = b[2] /\ a[3] < b[3])))
  IN SetToSortSeq(steps, Earlier)
MergeStep(chunks, step, descending, stable) ==
  LET k == step[1]
      j == step[2]
      ascending == (step[3] = 0) # descending
      Sorted(c) == BitonicSortPair(chunks[c], ~ascending, stable)
      Merged(c) == MergeSortedPair(Sorted(c), Sorted(c + j), ascending, stable)
      OfBlock(c) == c >= step[3] /\ ((c - step[3]) \div k) % 2 = 0
  IN [c \in DOMAIN chunks |->
        IF ~OfBlock(c) THEN chunks[c]
        ELSE BitonicSortPair(IF (c \div j) % 2 = 0 THEN Merged(c).left ELSE Merged(c - j).right, ~ascending, stable)]

-------------------------------------------------------------------------------
(* The lines of a tensor: one for each lane along the longest of the other dimensions, loops over them all. *)
Others(job) == SelectSeq([d \in 1 .. Len(job.shape) |-> d], LAMBDA d : d # job.dim)
TileDim(job) ==
  LET others == Range(Others(job))
  IN CHOOSE d \in others : \A o \in others : job.shape[d] > job.shape[o] \/ (job.shape[d] = job.shape[o] /\ d <= o)
SortOuter(job) ==
  LET others == Others(job)
  IN IF others = <<>> THEN <<Loop(1, 1, 1)>>
     ELSE [i \in DOMAIN others |->
             Loop(others[i], job.shape[others[i]], IF others[i] = TileDim(job) THEN Smaller(Lanes, job.shape[others[i]]) ELSE 1)]
SortMove(job, strides, i) ==
  LET size == job.shape[job.dim]
      one == Len(job.shape) = 1
      lane == IF one THEN job.dim ELSE TileDim(job)
      rows == IF one THEN 1 ELSE Smaller(Lanes, job.shape[lane])
      base == FoldFunction(+, 0, [d \in DOMAIN i |-> IF d = lane /\ ~one THEN 0 ELSE i[d] * strides[d]])
  IN At(Move(Described(<<rows, size>>, <<size, 1>>, 1), <<IF one THEN 0 ELSE i[lane], 0>>, <<strides[lane], strides[job.dim]>>,
             <<IF one THEN 1 ELSE job.shape[lane], size>>), base)
================================================================================
