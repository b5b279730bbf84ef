SPECIFICATION Spec
CONSTANTS
  Sizes = {1, 2, 8}
  Types = {"i1", "i8", "i32", "i64", "index", "f16", "f32"}
  Asked <- MCAsked
CHECK_DEADLOCK FALSE
INVARIANT OperationsRight
