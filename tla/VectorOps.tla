------------------------------- MODULE VectorOps -------------------------------
(***************************************************************************)
(* The operations of a loop body (mlir/mlir_ops.py, ExtensionOverrides).   *)
(* Each function prints a line of MLIR, or calls other operations through  *)
(* ops, which print theirs.  A line names the types of its operands; they  *)
(* are taken from var_info, a table beside the text.  What the operations  *)
(* compute is not modelled, only the types they print.                     *)
(*                                                                         *)
(* A value is [size, type, made]: what var_info has for it, and the type   *)
(* that the line which defines it gives it.  Values are on a stack, the    *)
(* last operand on top; todo is what is left of the functions called.      *)
(***************************************************************************)
EXTENDS Integers, SequencesExt

CONSTANTS
  Sizes,     \* of vectors; 1 is a scalar
  Types,     \* of elements
  Asked      \* the calls that loop bodies contain, [call, operands]; operands is a number

Bits == [t \in {"i1", "i8", "i32", "i64", "f16", "f32", "index"} |->
          CASE t = "i1" -> 1 [] t = "i8" -> 8 [] t = "f16" -> 16 [] t \in {"i32", "f32"} -> 32 [] OTHER -> 64]
IsFloat(t) == t \in {"f16", "f32"}     \* begins with "f"
IsInt(t) == ~IsFloat(t)                \* begins with "i", as "index" does
Fixed(t) == IsInt(t) /\ t # "index"

Text(size, type) == IF size > 1 THEN <<size, type>> ELSE <<0, type>>
Info(v) == Text(v.size, v.type)
Vector(size, type) == [size |-> size, type |-> type, made |-> <<size, type>>]
Value(size, type) == [size |-> size, type |-> type, made |-> Text(size, type)]
Operand == {Value(n, t) : n \in Sizes, t \in Types}

(* A call: its name, a type or a kind, a number, and the place of the operand that it replaces. *)
Call(name) == [name |-> name, to |-> "", n |-> 0, at |-> 1]
To(name, type) == [Call(name) EXCEPT !.to = type]
By(name, n) == [Call(name) EXCEPT !.n = n]
On(at, call) == [call EXCEPT !.at = at]

VARIABLES
  call, given,   \* the operation asked for, and its operands
  stack, todo,
  right,         \* every line so far shows the types of its operands, and MLIR has it for them
  raised
vars == <<call, given, stack, todo, right, raised>>

Init ==
  /\ \E a \in Asked : call = a.call /\ given \in [1 .. a.operands -> Operand]
  /\ stack = given /\ todo = <<call>> /\ right = TRUE /\ raised = FALSE

At(i) == stack[Len(stack) + 1 - i]
Top == At(1)
Push(v) == Append(stack, v)
Without(n) == SubSeq(stack, 1, Len(stack) - n)
Bring(i) == Append(RemoveAt(stack, Len(stack) + 1 - i), At(i))

-------------------------------------------------------------------------------
(* Functions that call others.  Each gives the calls it makes, in order. *)
Swap == By("bring", 2)
Dup == Call("dup")
Constant(type) == To("constant", type)
Cast(type) == To("to_dtype", type)

(* binary_elementwise_common, for the operands at places p and q. *)
FaultyCommon(p, q) ==      \* broadcasts the second operand only
  LET a == At(p)
      b == At(q)
  IN (IF a.size # b.size THEN <<On(q, By("broadcast", a.size))>> ELSE <<>>)
     \o (IF a.type = b.type THEN <<>> ELSE <<On(q, Cast(a.type))>>)
SameSize(p, q) ==
  LET a == At(p)
      b == At(q)
  IN CASE a.size > b.size -> <<On(q, By("broadcast", a.size))>>
       [] a.size < b.size -> <<On(p, By("broadcast", b.size))>>
       [] OTHER -> <<>>
SameType(p, q) ==
  LET a == At(p).type
      b == At(q).type
  IN CASE a = b -> <<>>
       [] a = "index" /\ IsFloat(b) -> <<On(p, To("index_cast", "i64")), On(p, Cast(b))>>
       [] a = "index" /\ Fixed(b) -> <<On(p, To("index_cast", b))>>
       [] Fixed(a) /\ IsFloat(b) -> <<On(p, Cast(b))>>
       [] IsFloat(a) /\ IsInt(b) -> <<On(q, Cast(a))>>
       [] OTHER -> CASE Bits[a] > Bits[b] -> <<On(q, To("ext", a))>>
                     [] Bits[a] < Bits[b] -> <<On(p, To("ext", b))>>
                     [] OTHER -> <<>>
Common(p, q) == SameSize(p, q) \o SameType(p, q)

ToDtype(c) ==
  LET src == At(c.at).type
      Cast1(name) == <<[c EXCEPT !.name = name]>>
  IN CASE src = c.to -> <<>>
       [] src = "index" /\ c.to # "index" -> <<On(c.at, To("index_cast", "i64")), c>>
       [] c.to = "index" /\ src # "index" -> Cast1("index_cast")
       [] Fixed(src) /\ IsFloat(c.to) -> Cast1("uitofp")
       [] IsFloat(src) /\ Fixed(c.to) -> Cast1("fptosi")
       [] Fixed(src) /\ Fixed(c.to) -> Cast1(IF Bits[c.to] > Bits[src] THEN "extsi" ELSE "trunci")
       [] OTHER -> Cast1(IF Bits[c.to] > Bits[src] THEN "extf" ELSE "truncf")

(* where, with the condition on top. *)
Where ==
  LET widest == At(3).size
  IN <<Call("to_bool")>>
     \o (CASE Top.size < widest -> <<By("broadcast", widest)>>
           [] Top.size > widest -> <<On(3, By("broadcast", Top.size)), On(2, By("broadcast", Top.size))>>
           [] OTHER -> <<>>)
     \o <<Call("arith.select")>>
(* masked, on the mask and the result of its body: where it is false, an f32 constant. *)
Masked == <<Constant("f32"), By("bring", 3), Call("where")>>

(* Functions that the vector unit has for vectors only. *)
ThroughVector(name) == <<By("broadcast", 4), Call(name), Call("extractelement")>>
Plain == {"exp", "erf"}
Trigonometric == {"cos", "sin", "tanh"}
(* An operand of another width is made f32, and the line shows the type it had. *)
AutoCast(name) ==
  (IF IsFloat(Top.type) THEN <<Cast("f32")>> ELSE <<>>) \o <<To("math." \o name, Top.type)>>
Transcendental(name) ==
  CASE name \in Plain \cup Trigonometric /\ Top.size = 1 -> ThroughVector(name)
    [] name \in Plain /\ Top.size > 1 -> <<To("math." \o name, Top.type)>>
    [] OTHER -> AutoCast(name)
Exponential(name) ==
  IF name = "exp2" THEN <<Constant("f32"), Call("mul"), Call("exp")>> ELSE <<Call("exp"), Constant("f32"), Call("sub")>>
Tan == <<Dup, Call("sin"), Swap, Call("cos"), Call("truediv")>>
LikeTop == Call("like")     \* a constant of the type of the operand on top
Logarithm(name) ==
  IF name = "log1p" THEN <<LikeTop, Call("add"), Call("log")>> ELSE <<Call("log"), LikeTop, Call("mul")>>
(* Functions whose caller has the last word about what var_info says of the result. *)
Registered == [Call("register") EXCEPT !.to = Top.type, !.n = Top.size]
Relu == <<LikeTop, Call("maximum"), Registered>>
Sigmoid ==
  LET one == Constant(Top.type)
  IN <<Call("neg"), Call("exp"), one, Swap, Call("add"), one, Swap, Call("truediv"), Registered>>
Reciprocal ==      \* an integer is cast, but the result is not used
  (IF IsInt(Top.type) THEN <<Dup, Cast("f32"), Call("drop")>> ELSE <<>>)
  \o <<Constant(Top.type), Swap, Call("truediv"), Registered>>

ToBool ==
  IF Top.type = "i1" THEN <<>>
  ELSE <<LikeTop>> \o (IF Top.size > 1 THEN <<By("broadcast", Top.size)>> ELSE <<>>)
       \o <<Call("ne"), [Registered EXCEPT !.to = "i1"]>>
Logical(bitwise) == <<Swap, Call("to_bool"), Swap, Call("to_bool"), Call(bitwise)>>
LogicalNot == <<LikeTop, Call("eq")>>
Bitwise2(bitwise) == IF IsFloat(At(1).type) \/ IsFloat(At(2).type) THEN <<Call("raise")>> ELSE <<Call(bitwise)>>
BitwiseNot == IF IsFloat(Top.type) THEN <<Call("raise")>> ELSE <<LikeTop, Call("xor")>>
Rounding(name) == IF IsFloat(Top.type) THEN <<To("math." \o name, Top.type)>> ELSE <<>>

Comparison == {"eq", "ne", "lt", "gt", "le", "ge"}
Arithmetic == {"add", "sub", "mul", "vlane_offset", "minimum", "maximum", "remainder"}
OfIntegers == {"truncdiv", "floordiv", "mod"}
OfBits == {"and_", "or_", "xor"}
Binary == Comparison \cup Arithmetic \cup OfIntegers \cup OfBits \cup {"truediv"}
(* The line of a binary operation, when its operands agree. *)
Checked(name) ==
  IF (name \in OfIntegers /\ IsFloat(At(2).type)) \/ (name = "truediv" /\ IsInt(At(2).type))
  THEN <<Call("raise")>> ELSE <<Call("arith." \o name)>>
Power ==
  (IF IsFloat(At(2).type) THEN <<On(2, Cast("f32")), On(1, Cast("f32"))>> ELSE <<>>) \o <<To("arith.pow", At(2).type)>>
IntTruediv == (IF IsInt(At(2).type) THEN <<On(2, Cast("f32")), On(1, Cast("f32"))>> ELSE <<>>) \o <<Call("truediv")>>
Fma == <<Call("mul"), Swap, Call("add")>>      \* the addend is below

(* One exchange of bitonic_sort; it sorts vectors only. *)
Exchange ==
  IF Top.size < 2 THEN <<Call("raise")>>
  ELSE <<Dup, Call("vector_shuffle"), Call("pair"), Call("minimum"), By("bring", 3), By("bring", 3), Call("maximum"),
         By("constant_mask", Top.size), Call("where")>>
(* reduction: what a vector of partial results comes to, n elements of it. *)
Reduction(c) ==
  IF Top.size % c.n # 0 THEN <<Call("raise")>> ELSE
  <<To(IF c.to \in {"max", "min"} THEN "infinity" ELSE "constant", Top.type)>>
  \o (IF c.n # 1 THEN <<By("broadcast", c.n)>> ELSE <<>>)
  \o (IF Top.size > c.n THEN <<[c EXCEPT !.name = "vector.multi_reduction"]>> ELSE <<Call("drop")>>)
(* MLIRKernel.store, for a buffer of type "to" and n elements at a time. *)
Slice(c) == (IF c.n < Top.size THEN <<By("extract_strided_slice", c.n)>> ELSE <<>>) \o <<Call("_store")>>
Store(c) == <<Cast(c.to), By("slice", c.n)>>

(* get_mask: which of the n elements are still in the loop. *)
Mask(n) ==
  <<Constant("index"), Constant("index"), Call("sub"), By("broadcast", n), [By("step", n) EXCEPT !.to = "index"], Swap, Call("lt")>>
(* _index_expr: the n elements of a vector along an axis that is dealt to the lanes. *)
IndexVector(n) ==
  LET With(name) == <<Constant("index"), By("broadcast", n), Call(name)>>
      lane == <<Constant("i64"), By("broadcast", 4), Dup, Call("vlane_offset")>>
              \o (IF n < 4 THEN <<By("extract_strided_slice", n)>> ELSE <<>>) \o <<To("index_cast", "index")>>
  IN <<[By("step", n) EXCEPT !.to = "index"]>> \o With("add") \o With("truncdiv") \o With("remainder")
     \o <<Dup>> \o With("remainder") \o <<Swap>> \o With("truncdiv") \o With("remainder") \o With("mul")
     \o <<Call("add")>> \o lane \o <<Call("add")>>

(* The calls that a call makes, when it prints no line itself. *)
Logicals == [logical_and |-> "and_", logical_or |-> "or_", logical_xor |-> "xor"]
Bitwises == [bitwise_and |-> "and_", bitwise_or |-> "or_", bitwise_xor |-> "xor"]
Unequal == {"sqrt", "log", "rsqrt", "neg"}
Rounded == {"round", "floor", "trunc", "ceil"}
Calls(c) ==
  LET name == c.name
  IN CASE name \in Binary -> Common(2, 1) \o <<To("checked", name)>>
       [] name = "pow" -> Common(2, 1) \o <<Call("power")>>
       [] name = "int_truediv" -> Common(2, 1) \o <<Call("promote")>>
       [] name = "checked" -> Checked(c.to)
       [] name = "power" -> Power
       [] name = "promote" -> IntTruediv
       [] name = "where" -> Common(3, 2) \o <<Call("choose")>>
       [] name = "choose" -> Where
       [] name = "masked" -> Masked
       [] name = "to_dtype" -> ToDtype(c)
       [] name \in Plain \cup Trigonometric \cup Unequal -> Transcendental(name)
       [] name \in {"exp2", "expm1"} -> Exponential(name)
       [] name \in {"log10", "log2", "log1p"} -> Logarithm(name)
       [] name = "tan" -> Tan
       [] name = "relu" -> Relu
       [] name = "sigmoid" -> Sigmoid
       [] name = "reciprocal" -> Reciprocal
       [] name = "square" -> <<Dup, Call("mul")>>
       [] name = "fma" -> Fma
       [] name = "to_bool" -> ToBool
       [] name \in DOMAIN Logicals -> Logical(Logicals[name])
       [] name \in DOMAIN Bitwises -> Bitwise2(Bitwises[name])
       [] name = "logical_not" -> LogicalNot
       [] name = "bitwise_not" -> BitwiseNot
       [] name \in Rounded -> Rounding(name)
       [] name = "exchange" -> Exchange
       [] name = "multi_reduction" -> Reduction(c)
       [] name = "store" -> Store(c)
       [] name = "slice" -> Slice(c)
       [] name = "mask" -> Mask(c.n)
       [] name = "index_vector" -> IndexVector(c.n)
Functions ==
  Binary \cup Plain \cup Trigonometric \cup Unequal \cup Rounded \cup DOMAIN Logicals \cup DOMAIN Bitwises
  \cup {"pow", "int_truediv", "checked", "power", "promote", "where", "choose", "masked", "to_dtype", "exp2", "expm1",
        "log10", "log2", "log1p", "tan", "relu", "sigmoid", "reciprocal", "square", "fma", "to_bool", "logical_not",
        "bitwise_not", "exchange", "multi_reduction", "store", "slice",
        "mask", "index_vector"}
Expand ==
  /\ todo # <<>> /\ Head(todo).name \in Functions
  /\ todo' = Calls(Head(todo)) \o Tail(todo)
  /\ UNCHANGED <<call, given, stack, right, raised>>
-------------------------------------------------------------------------------
(* Lines of MLIR *)
Emit(values, well) ==
  /\ todo # <<>> /\ todo' = Tail(todo)
  /\ stack' = values /\ right' = (right /\ well)
  /\ UNCHANGED <<call, given, raised>>
Replace(at, v) == [stack EXCEPT ![Len(stack) + 1 - at] = v]
Shows(at, text) == At(at).made = text

(* One operand becomes another, and the line shows what var_info has for it. *)
Converted(c, v) ==
  CASE c.name \in {"broadcast", "extract_strided_slice"} -> Vector(c.n, v.type)
    [] c.name = "extractelement" -> Value(1, v.type)
    [] OTHER -> Value(v.size, c.to)
Widens(s, t) == Bits[t] > Bits[s] /\ ((IsFloat(s) /\ IsFloat(t)) \/ (Fixed(s) /\ Fixed(t)))
HasConversion(c, v) ==
  CASE c.name \in {"ext", "extsi", "extf"} -> Widens(v.type, c.to)
    [] c.name \in {"trunci", "truncf"} -> Widens(c.to, v.type)
    [] c.name = "index_cast" -> IsInt(v.type) /\ IsInt(c.to) /\ (v.type = "index") # (c.to = "index")
    [] c.name = "to_dtype_bitcast" -> v.type # "index" /\ c.to # "index"
    [] c.name = "extract_strided_slice" -> v.size > c.n
    [] OTHER -> TRUE
Conversion ==
  {"broadcast", "extract_strided_slice", "extractelement", "ext", "index_cast", "uitofp", "fptosi", "extsi", "trunci", "extf",
   "truncf", "to_dtype_bitcast"}
Fails(c, v) ==
  \/ c.name = "broadcast" /\ v.size > 1 /\ c.n % v.size # 0
  \/ c.name = "to_dtype_bitcast" /\ Bits[v.type] # Bits[c.to]
Convert ==
  LET c == Head(todo)
      v == At(c.at)
  IN /\ todo # <<>> /\ c.name \in Conversion /\ ~Fails(c, v)
     /\ Emit(Replace(c.at, Converted(c, v)), v.made = Info(v) /\ HasConversion(c, v))

Ones == {"math." \o name : name \in Plain \cup Trigonometric \cup Unequal \cup Rounded}
Unary ==
  LET c == Head(todo)
      v == Value(Top.size, c.to)
  IN todo # <<>> /\ c.name \in Ones /\ Emit(Replace(1, v), Shows(1, v.made) /\ IsFloat(c.to))

Twos == {"arith." \o name : name \in Binary \cup {"pow"}}
Among(name, names) == \E n \in names : name = "arith." \o n
HasBinary(name, t) ==
  CASE Among(name, OfIntegers \cup OfBits) -> IsInt(t)
    [] Among(name, {"truediv", "pow"}) -> IsFloat(t)
    [] OTHER -> TRUE
(* Both operands are shown with the type of the first. *)
Elementwise ==
  LET c == Head(todo)
      type == IF c.to = "" THEN At(2).type ELSE c.to
      text == Text(At(2).size, type)
  IN /\ todo # <<>> /\ c.name \in Twos
     /\ Emit(Append(Without(2), Value(At(2).size, IF Among(c.name, Comparison) THEN "i1" ELSE type)),
             Shows(2, text) /\ Shows(1, text) /\ HasBinary(c.name, type))
(* The line for scalars has an empty type for the condition. *)
Select ==
  LET v == At(3)
  IN /\ todo # <<>> /\ Head(todo).name = "arith.select"
     /\ Emit(Append(Without(3), Value(v.size, v.type)),
             v.size > 1 /\ Shows(3, Info(v)) /\ Shows(2, Info(v)) /\ Shows(1, <<v.size, "i1">>))
Shuffle ==
  /\ todo # <<>> /\ Head(todo).name = "vector_shuffle"
  /\ Emit(Replace(1, Vector(Top.size, Top.type)), Shows(1, <<Top.size, Top.type>>))
MultiReduction ==
  LET c == Head(todo)
      v == At(2)
  IN /\ todo # <<>> /\ c.name = "vector.multi_reduction"
     /\ Emit(Append(Without(2), Value(c.n, v.type)),
             Shows(2, Info(v)) /\ Shows(1, Text(c.n, v.type)) /\ v.size % c.n = 0 /\ (c.to \in {"max", "min"} => IsFloat(v.type)))
StoreLine ==
  /\ todo # <<>> /\ Head(todo).name = "_store" /\ Emit(Without(1), Shows(1, Info(Top)))
(* Lines without operands. *)
Made(c) ==
  CASE c.name = "like" -> Value(1, Top.type)
    [] c.name = "constant_mask" -> Vector(c.n, "i1")
    [] c.name = "step" -> Vector(c.n, c.to)
    [] OTHER -> Value(1, c.to)
Make ==
  LET c == Head(todo)
  IN /\ todo # <<>> /\ c.name \in {"constant", "like", "infinity", "constant_mask", "step"}
     /\ ~(c.name = "infinity" /\ IsInt(c.to))
     /\ Emit(Push(Made(c)), TRUE)

(* No lines: which value is an operand of what. *)
Arranged(c) ==
  CASE c.name = "dup" -> Push(Top)
    [] c.name = "pair" -> stack \o <<At(2), At(1)>>
    [] c.name = "drop" -> Without(1)
    [] c.name = "bring" -> Bring(c.n)
    [] c.name = "register" -> Replace(1, [Top EXCEPT !.type = c.to, !.size = c.n])
Arrange ==
  LET c == Head(todo)
  IN todo # <<>> /\ c.name \in {"dup", "pair", "drop", "bring", "register"} /\ Emit(Arranged(c), TRUE)
(* An exception ends the kernel. *)
Raise ==
  LET c == Head(todo)
  IN /\ todo # <<>>
     /\ \/ c.name = "raise"
        \/ c.name = "infinity" /\ IsInt(c.to)
        \/ c.name \in Conversion /\ Fails(c, At(c.at))
     /\ raised' = TRUE /\ todo' = <<>>
     /\ UNCHANGED <<call, given, stack, right>>

Next ==
  \/ Expand \/ Convert \/ Unary \/ Elementwise \/ Select \/ Shuffle \/ MultiReduction \/ StoreLine \/ Make \/ Arrange \/ Raise
Spec == Init /\ [][Next]_vars

-------------------------------------------------------------------------------
(* What PyTorch makes of operands of two types: the floating-point one, or the wider; an index becomes the other. *)
Joined(s, t) ==
  CASE s = t \/ t = "index" -> s
    [] s = "index" -> t
    [] IsFloat(s) # IsFloat(t) -> IF IsFloat(s) THEN s ELSE t
    [] OTHER -> IF Bits[s] > Bits[t] THEN s ELSE t
Type(i) == given[i].type

(* Calls whose lines MLIR does not take.  A function that casts its operand to f32 shows the type it had before; *)
(* functions of the vector unit are not for integers; an index is converted as the first operand only; a choice  *)
(* between scalars, or a bit cast of an index, has no line; a vector of one index is taken for a scalar.         *)
CastsFirst == Trigonometric \cup Unequal \cup {"log10", "log2", "log1p", "tan", "sigmoid"}
LateIndex(s, t) == Fixed(s) /\ t = "index"
Pairs == Binary \cup DOMAIN Bitwises \cup {"pow", "int_truediv"}
Excepted ==
  LET name == call.name
  IN \/ name \in CastsFirst /\ Type(1) = "f16"
     \/ name \in CastsFirst \cup Plain \cup {"expm1"} /\ IsInt(Type(1))
     \/ name = "pow" /\ Joined(Type(1), Type(2)) # "f32"
     \/ name \in Pairs \cup {"where"} /\ LateIndex(Type(1), Type(2))
     \/ name = "fma" /\ (LateIndex(Type(2), Type(3)) \/ LateIndex(Joined(Type(2), Type(3)), Type(1)))
     \/ name \in {"where", "masked"} /\ \A i \in DOMAIN given : given[i].size = 1
     \/ name = "to_dtype_bitcast" /\ Type(1) = "index"
     \/ name = "index_vector" /\ call.n = 1

(* Every line shows each operand with the type of the line that defines it, and what var_info has for a     *)
(* value is what its line says: the conversions that the functions insert, and the casts of their results,  *)
(* keep the table and the text together.                                                                    *)
TypesAgree == right /\ \A i \in DOMAIN stack : stack[i].made = Info(stack[i])

(* An operation gives one value, as long as the longest of its operands, of the type PyTorch gives it whatever *)
(* the order of the operands: again an operand that the operations are made for, so that any sequence of them  *)
(* is as right as one.  One that raises has operands that PyTorch never gives it (it promotes integers before  *)
(* it divides), never lengths that do not fit.                                                                 *)
Longest == IF call.n # 0 THEN call.n ELSE Max({given[i].size : i \in DOMAIN given})
Predicate == Comparison \cup DOMAIN Logicals \cup {"logical_not"}
Promoted(t) == IF IsFloat(t) THEN t ELSE "f32"
ResultType ==
  LET name == call.name
  IN CASE name \in Predicate \cup {"mask"} -> "i1"
       [] name = "index_vector" -> "index"
       [] name \in {"to_dtype", "to_dtype_bitcast"} -> call.to
       [] name \in {"exp2", "expm1"} -> Promoted(Type(1))
       [] name = "int_truediv" -> Promoted(Joined(Type(1), Type(2)))
       [] name = "masked" -> Type(2)
       [] name = "fma" -> Joined(Joined(Type(2), Type(3)), Type(1))
       [] name \in Pairs \cup {"where"} -> Joined(Type(1), Type(2))
       [] OTHER -> Type(1)
OnlyFor ==
  \/ call.name \in {"truediv", "reciprocal"} /\ \A i \in DOMAIN given : IsInt(Type(i))
  \/ call.name \in OfIntegers \cup DOMAIN Bitwises \cup {"bitwise_not"} /\ \E i \in DOMAIN given : IsFloat(Type(i))
  \/ call.name = "multi_reduction" /\ given[1].size < call.n
  \/ call.name = "exchange" /\ given[1].size = 1
  \/ call.name = "to_dtype_bitcast" /\ Bits[Type(1)] # Bits[call.to]

(* Where the code gives another type than PyTorch, or refuses what PyTorch has: the constants of masked, exp2  *)
(* and expm1 are f32 and widen what they meet, and no infinity is there for the largest and smallest integer.  *)
WidensToF32 ==
  \/ call.name = "masked" /\ Type(2) # "f32"
  \/ call.name \in {"exp2", "expm1"} /\ Type(1) = "f16"
RefusesIntegers == call.name = "multi_reduction" /\ call.to \in {"max", "min"} /\ IsInt(Type(1))
Deviates == WidensToF32 \/ RefusesIntegers

ResultRight ==
  todo = <<>> =>
    IF raised THEN OnlyFor
    ELSE IF call.name = "store" THEN stack = <<>>
    ELSE stack = <<Value(Longest, ResultType)>>

(* For every call that MLIR takes at all: the operations of ExtensionOverrides, which call one another and     *)
(* convert operands as they go, print well-typed lines and, but for the deviations, return what PyTorch does.   *)
OperationsRight == Excepted \/ (TypesAgree /\ (Deviates \/ ResultRight))
================================================================================
