SPECIFICATION Spec
CONSTANTS
  Names = {"p", "a", "b"}
  Functions = {"b"}
  Builtins = {}
  Params <- MCParams
  Forms <- MCForms
  MaxNodes = 4
INVARIANTS DepthsBalanced
PROPERTIES ResolvesInnermost 
