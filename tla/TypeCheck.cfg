SPECIFICATION Spec
CONSTANTS
  VarTypes <- MCVarTypes
  Signatures <- MCSignatures
  Overloads <- MCOverloads
  BinOps = {"add", "sub", "cat", "eq", "and_l", "bitand", "in"}
  UnOps = {"sub", "lnot", "not", "question"}
  CastTargets <- MCCasts
  Avoided = {"null_first", "other_subscript", "in_other", "null_test"}
  MaxStack = 3
  MaxTypeDepth = 1
INVARIANTS BitsFitTypes CmpIsEquality 
