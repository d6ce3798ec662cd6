SPECIFICATION Spec
CONSTANTS
  Names <- MCNames
  FunctionLists <- OnlyMain
  Arity <- MCArity
  Void = {}
  Locals = {0}
  Consts = {}
  Literals = {}
  BinOps = {"add"}
  UnOps = {"lnot"}
  Forms <- NestForms
  MaxNodes = 3
INVARIANTS LabelsUnique NoDanglingLabel StackBalanced
PROPERTIES LoopControl
