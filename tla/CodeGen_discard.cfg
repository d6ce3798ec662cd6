SPECIFICATION Spec
CONSTANTS
  Names <- MCNames
  FunctionLists <- MCFunctionLists
  Arity <- MCArity
  Void = {"f"}
  Locals = {0}
  Consts = {1}
  Literals = {"a"}
  BinOps = {"add"}
  UnOps = {"lnot"}
  Forms <- DiscardForms
  MaxNodes = 2
INVARIANTS DiscardBalanced
