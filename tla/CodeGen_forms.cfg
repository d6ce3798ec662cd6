SPECIFICATION Spec
CONSTANTS
  Names <- MCNames
  FunctionLists <- MCFunctionLists
  Arity <- MCArity
  Void = {"f"}
  Locals = {0}
  Consts = {1}
  Literals = {"a", "b"}
  BinOps = {"add"}
  UnOps = {"lnot"}
  Forms <- FlatForms
  MaxNodes = 2
INVARIANTS GeneratorInv JumpsResolved NoFallThrough StringsComplete
