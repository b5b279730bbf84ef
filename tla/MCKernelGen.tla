------------------------------ MODULE MCKernelGen ------------------------------
(* Kernels of the kinds that the tests of PyTorchSim compile, on two lanes. *)
EXTENDS KernelGen

Term(d, c) == [dim |-> d, coeff |-> c, floor |-> 1, mod |-> 0]
Quot(d, c, y) == [Term(d, c) EXCEPT !.floor = y]
Modular(d, c, y, z) == [Quot(d, c, y) EXCEPT !.mod = z]
Acc(op, name, terms) == [op |-> op, name |-> name, terms |-> terms, indirect |-> FALSE, from |-> 0, type |-> "f32"]
Read(name, terms) == Acc("load", name, terms)
Write(name, terms) == Acc("store", name, terms)
Copy(name, terms, from) == [Write(name, terms) EXCEPT !.from = from]
Gather(name, terms) == [Read(name, terms) EXCEPT !.indirect = TRUE]
Reduction(name) == Acc("reduction", name, <<>>)
WriteReduction(name, terms) == Acc("store_reduction", name, terms)
Of(ranges, depth, code) == [ranges |-> ranges, depth |-> depth, body |-> code]

Row(n) == <<Term(1, n), Term(2, 1)>>
MCKernels == <<
  Of(<<12>>, 1, <<Read("x", <<Term(1, 1)>>), Copy("y", <<Term(1, 1)>>, 1)>>),
  Of(<<6, 8>>, 2, <<Read("x", Row(8)), Read("bias", <<Term(2, 1)>>), Read("s", <<>>), Write("y", Row(8))>>),
  \* GroupNorm: a mean for every three channels
  Of(<<2, 6, 8>>, 3, <<Read("x", <<Term(1, 48), Term(2, 8), Term(3, 1)>>), Read("mean", <<Term(1, 2), Quot(2, 1, 3)>>),
                       Write("y", <<Term(1, 48), Term(2, 8), Term(3, 1)>>)>>),
  \* a scale for every two elements of a row, several of them in a tile
  Of(<<16, 8>>, 2, <<Read("x", Row(8)), Read("scale", <<Quot(2, 1, 2)>>), Write("y", Row(8))>>),
  \* the same for two rows
  Of(<<8, 6>>, 2, <<Read("x", Row(6)), Read("scale", <<Quot(1, 1, 2)>>), Write("y", Row(6))>>),
  \* a transposed view of four by three, and cat([a, a])
  Of(<<4, 12>>, 2, <<Read("x", <<Term(1, 12), Modular(2, 3, 1, 4), Modular(2, 1, 4, 3)>>), Write("y", Row(12))>>),
  Of(<<8>>, 1, <<Read("a", <<Modular(1, 1, 1, 4)>>), Copy("y", <<Term(1, 1)>>, 1)>>),
  \* reductions along rows, of everything, of two axes
  Of(<<6, 8>>, 1, <<Read("x", Row(8)), Reduction("sum"), WriteReduction("y", <<Term(1, 1)>>)>>),
  Of(<<16>>, 0, <<Read("x", <<Term(1, 1)>>), Reduction("sum"), WriteReduction("y", <<>>)>>),
  Of(<<2, 4, 8>>, 2, <<Read("x", <<Term(1, 32), Term(2, 8), Term(3, 1)>>), Reduction("max"), WriteReduction("y", <<Term(1, 4), Term(2, 1)>>)>>),
  Of(<<4, 2, 4>>, 1, <<Read("x", <<Term(1, 8), Term(2, 4), Term(3, 1)>>), Reduction("sum"), WriteReduction("y", <<Term(1, 1)>>)>>),
  \* a tile that grows to three times a power of two, which the compute loop cannot do
  Of(<<6, 8, 4>>, 2, <<Read("x", <<Term(1, 32), Term(2, 4), Term(3, 1)>>), Reduction("sum"), WriteReduction("y", <<Term(1, 8), Term(2, 1)>>)>>),
  \* a gather, and positions
  Of(<<6, 10>>, 2, <<Read("index", <<Term(1, 1)>>), Gather("x", <<Term(2, 1)>>), Write("y", Row(10))>>),
  Of(<<10>>, 1, <<Acc("index", "i", <<Term(1, 1)>>), Write("y", <<Term(1, 1)>>)>>),
  Of(<<4, 6>>, 2, <<Read("x", Row(6)), Acc("index", "j", <<Term(2, 1)>>), Write("y", Row(6))>>),
  Of(<<2, 2, 4, 4>>, 4, <<Read("x", <<Term(1, 32), Term(2, 16), Term(3, 4), Term(4, 1)>>), Write("y", <<Term(1, 32), Term(2, 4), Term(3, 8), Term(4, 1)>>)>>),
  Of(<<1>>, 1, <<Read("x", <<>>), Write("y", <<>>)>>),
  \* needs of two accesses on one axis
  Of(<<12, 4>>, 2, <<Read("x", <<Quot(1, 4, 3), Term(2, 1)>>), Read("z", <<Modular(1, 4, 1, 4), Term(2, 1)>>), Write("y", Row(4))>>),
  \* one tensor read in two ways
  Of(<<4, 8>>, 2, <<Read("x", Row(8)), Read("x", <<Term(1, 8)>>), Write("y", Row(8))>>)
>>
MCAutotune == DOMAIN MCKernels \ {9}
MCCosts(n) ==
  {[i \in 1 .. n |-> IF i = b THEN 1 ELSE IF i \in f THEN Inf ELSE 2] : b \in 0 .. n, f \in {{}, {1}, 1 .. n}}
================================================================================
