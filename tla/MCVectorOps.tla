------------------------------ MODULE MCVectorOps ------------------------------
(* Every operation of a loop body, on operands of all lengths and types. *)
EXTENDS VectorOps

Ask(name, n) == [call |-> Call(name), operands |-> n]

MCAsked ==
  {Ask(name, 1) : name \in Plain \cup Trigonometric \cup Unequal \cup Rounded \cup
     {"exp2", "expm1", "log10", "log2", "log1p", "tan", "relu", "sigmoid", "reciprocal", "square", "logical_not", "bitwise_not"}}
  \cup {Ask(name, 2) : name \in (Binary \ (OfBits \cup {"vlane_offset"})) \cup DOMAIN Logicals \cup DOMAIN Bitwises
     \cup {"pow", "int_truediv", "masked"}}
  \cup {Ask("where", 3), Ask("fma", 3)}
  \cup {[call |-> To("to_dtype", t), operands |-> 1] : t \in Types \ {"index", "i1"}}
  \cup {[call |-> To("to_dtype_bitcast", t), operands |-> 1] : t \in Types \ {"index", "i1"}}
  \cup {[call |-> [To("store", t) EXCEPT !.n = n], operands |-> 1] : t \in Types \ {"index", "i1"}, n \in {2, 8}}
  \cup {[call |-> [To("multi_reduction", kind) EXCEPT !.n = n], operands |-> 1] : kind \in {"sum", "max"}, n \in {1, 2}}
  \cup {[call |-> By("mask", n), operands |-> 0] : n \in Sizes \ {1}}
  \cup {[call |-> By("index_vector", n), operands |-> 0] : n \in Sizes}
  \cup {Ask("exchange", 1)}
================================================================================
