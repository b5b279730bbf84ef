----------------------------- MODULE MCTemplates -----------------------------
(* Products, convolutions, sorts, attention and concatenations on two lanes. *)
EXTENDS TemplateKernel

RowMajor(sizes) == [i \in DOMAIN sizes |-> Numel(SubSeq(sizes, i + 1, Len(sizes)))]
(* The nodes around a template. *)
Node == [kind |-> "none", nodes |-> 1, reduction |-> FALSE, vars |-> <<>>, rvars |-> <<>>, size |-> <<>>, reads |-> {},
         writes |-> {}, inputs |-> {}, view |-> FALSE, unmet |-> {}, rstride |-> 0, inputNumel |-> 0, operand |-> "none"]
Computes(operand, name) == [Node EXCEPT !.reads = {"raw"}, !.writes = {name}, !.operand = operand]
PointwiseNode(space, size, reads) == [Node EXCEPT !.vars = space, !.size = size, !.reads = {"Y"} \cup reads, !.unmet = {"Y"}, !.writes = {"Z"}]
SumOver(size, rows, rstride, numel) ==
  [Node EXCEPT !.reduction = TRUE, !.vars = size, !.rvars = <<rows>>, !.size = size, !.reads = {"Y"}, !.unmet = {"Y"},
               !.writes = {"Z"}, !.rstride = rstride, !.inputNumel = numel]
Of(kind, size) ==
  [Node EXCEPT !.kind = kind, !.vars = size, !.size = size, !.reads = {"X", "W"}, !.inputs = {"X", "W"}, !.writes = {"Y"}]

Gemm(M, N, K, before, after) ==
  [kind |-> "gemm", M |-> M, N |-> N, K |-> K, xs |-> <<K, 1>>, ws |-> <<N, 1>>, ys |-> <<N, 1>>, bs |-> <<0, 1>>,
   bias |-> FALSE, node |-> Of("gemm", <<M, N>>), before |-> before, after |-> after]
Bmm(B, M, N, K, before, after) ==
  [kind |-> "bmm", B |-> B, M |-> M, N |-> N, K |-> K, xs |-> <<M * K, K, 1>>, ws |-> <<K * N, N, 1>>, ys |-> <<M * N, N, 1>>,
   bs |-> <<0, 0, 1>>, bias |-> FALSE, node |-> Of("bmm", <<B, M, N>>), before |-> before, after |-> after]
(* Convolutions with a bias; "few" is an eighth of the lanes. *)
Convolution(B, IC, OC, image, kernel, stride, padding, dilation, singleBatch, few, after) ==
  LET Out(d) == 1 + ((image[d] + 2 * padding[d] - dilation[d] * (kernel[d] - 1) - 1) \div stride[d])
      kind == ConvKind(B, IC, stride, few, singleBatch, TRUE)
  IN [kind |-> kind, B |-> B, IC |-> IC, OC |-> OC, IH |-> image[1], IW |-> image[2], KH |-> kernel[1], KW |-> kernel[2],
      OH |-> Out(1), OW |-> Out(2), stride |-> stride, padding |-> padding, dilation |-> dilation, bias |-> TRUE,
      node |-> Of(kind, <<B, OC, Out(1), Out(2)>>), before |-> <<>>, after |-> after]

(* Windows spread by a dilation, one for each of the four templates (see Dilated). *)
MCDilated == <<
  Convolution(3, 3, 3, <<4, 3>>, <<2, 2>>, <<1, 1>>, <<0, 0>>, <<2, 1>>, TRUE, 1, <<>>),
  Convolution(3, 1, 3, <<4, 4>>, <<2, 1>>, <<1, 1>>, <<0, 0>>, <<2, 1>>, TRUE, 2, <<>>),
  Convolution(1, 2, 3, <<4, 4>>, <<2, 2>>, <<1, 1>>, <<0, 0>>, <<2, 2>>, TRUE, 1, <<>>),
  Convolution(1, 2, 3, <<5, 4>>, <<2, 2>>, <<2, 2>>, <<0, 1>>, <<2, 1>>, TRUE, 1, <<>>)
>>
(* No tile: a window of few channels with fewer rows than columns, and a product that leaves no room for *)
(* what the node behind it reads.                                                                        *)
MCRefused == <<
  Convolution(3, 1, 3, <<3, 4>>, <<1, 2>>, <<1, 1>>, <<0, 0>>, <<1, 1>>, TRUE, 2, <<>>),
  Gemm(2, 1, 3, <<>>, <<PointwiseNode(<<2, 1>>, <<2, 1>>, {"a", "b", "c", "d", "e"})>>)
>>
MCProducts == <<
  Gemm(3, 3, 3, <<>>, <<>>),
  [Gemm(5, 3, 15, <<Computes("x", "X")>>, <<PointwiseNode(<<15>>, <<5, 3>>, {"residual"})>>) EXCEPT !.bias = TRUE, !.ws = <<1, 15>>],
  Gemm(3, 5, 3, <<Computes("w", "W")>>, <<>>),
  Gemm(5, 3, 3, <<>>, <<SumOver(<<3>>, 5, 3, 15)>>),
  Gemm(3, 4, 3, <<[Computes("x", "X") EXCEPT !.view = TRUE]>>, <<SumOver(<<3>>, 4, 1, 12)>>),
  Gemm(1, 3, 4, <<Computes("x", "X")>>, <<PointwiseNode(<<3>>, <<1, 3>>, {})>>),
  Gemm(3, 1, 4, <<>>, <<>>),
  Gemm(0, 3, 4, <<>>, <<>>),
  Bmm(2, 3, 3, 4, <<Computes("x", "X")>>, <<>>),
  Bmm(2, 3, 3, 2, <<>>, <<PointwiseNode(<<2, 3, 3>>, <<2, 3, 3>>, {})>>),
  Bmm(2, 5, 3, 2, <<>>, <<SumOver(<<2, 3>>, 5, 3, 30)>>),
  Convolution(3, 3, 3, <<3, 3>>, <<2, 2>>, <<1, 1>>, <<0, 0>>, <<1, 1>>, TRUE, 1, <<>>),
  Convolution(2, 2, 2, <<3, 3>>, <<2, 3>>, <<2, 2>>, <<1, 1>>, <<1, 1>>, TRUE, 1, <<PointwiseNode(<<32>>, <<2, 2, 2, 2>>, {})>>),
  Convolution(3, 1, 3, <<3, 4>>, <<2, 2>>, <<1, 2>>, <<1, 1>>, <<1, 1>>, TRUE, 2, <<>>),
  Convolution(1, 2, 3, <<3, 4>>, <<3, 2>>, <<1, 1>>, <<1, 0>>, <<1, 1>>, TRUE, 1, <<>>),
  Convolution(1, 2, 3, <<5, 4>>, <<3, 2>>, <<2, 2>>, <<1, 1>>, <<1, 1>>, TRUE, 1, <<>>)
>>

Sort(shape, dim, descending, stable, vector, values) ==
  [kind |-> "sort", shape |-> shape, dim |-> dim, strides |-> RowMajor(shape), ys |-> RowMajor(shape), is |-> RowMajor(shape),
   descending |-> descending, stable |-> stable, vector |-> vector, values |-> values, bias |-> FALSE]
Bits(n) == [0 .. n - 1 -> {0, 1}]
Shuffles(n) == {f \in [0 .. n - 1 -> 0 .. n - 1] : Range(f) = 0 .. n - 1}
Scattered(n, by) == {[a \in 0 .. n - 1 |-> (a * by) % n]}
MCSorts == <<
  Sort(<<8>>, 1, FALSE, TRUE, 2, Bits(8)), Sort(<<8>>, 1, TRUE, TRUE, 2, Bits(8)),
  Sort(<<4>>, 1, TRUE, FALSE, 2, Shuffles(4)), Sort(<<4>>, 1, FALSE, FALSE, 4, Shuffles(4)),
  Sort(<<2, 3, 8>>, 3, FALSE, FALSE, 2, Scattered(48, 19)), Sort(<<8, 3>>, 1, TRUE, FALSE, 4, Scattered(24, 7))
>>
Attend2(b, l, s, e, query, key) ==
  [kind |-> "flash", b |-> b, l |-> l, s |-> s, e |-> e, qs |-> <<l * e, e, 1>>, ks |-> <<s * e, e, 1>>, vs |-> <<s * e, e, 1>>,
   os |-> <<l * e, e, 1>>, query |-> [a \in 0 .. b * l * e - 1 |-> query[1 + (a % Len(query))]],
   key |-> [a \in 0 .. b * s * e - 1 |-> key[1 + (a % Len(key))]], bias |-> FALSE]
MCAttention == <<
  Attend2(1, 2, 6, 2, <<1, 0, 2, -1>>, <<1, 2, 0, 3, 1>>),
  Attend2(2, 3, 4, 2, <<1, -1, 2>>, <<0, 1, 2, 3, -2>>)
>>
Cat(shapes, names, dim) ==
  LET out == [shapes[1] EXCEPT ![dim] = FoldFunction(+, 0, [n \in DOMAIN shapes |-> shapes[n][dim]])]
  IN [kind |-> "cat", shapes |-> shapes, names |-> names, dim |-> dim, strides |-> [n \in DOMAIN shapes |-> RowMajor(shapes[n])],
      os |-> RowMajor(out), bias |-> FALSE]
MCCats == <<
  Cat(<<<<3, 2>>, <<3, 4>>>>, <<"a", "b">>, 2), Cat(<<<<2, 4>>, <<1, 4>>, <<2, 4>>>>, <<"a", "b", "a">>, 1),
  Cat(<<<<3>>, <<2>>>>, <<"a", "b">>, 1), Cat(<<<<2, 1, 2, 3, 2>>, <<2, 2, 2, 3, 2>>>>, <<"a", "b">>, 2)
>>
Given(j) == IF j.kind = "sort" THEN j ELSE [values |-> {<<>>}] @@ j
MCJobs ==
  LET all == MCProducts \o MCDilated \o MCRefused \o MCSorts \o MCAttention \o MCCats
  IN [i \in DOMAIN all |-> Given(all[i])]
==============================================================================
