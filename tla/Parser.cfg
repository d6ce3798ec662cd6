SPECIFICATION Spec
CONSTANTS
  Identifiers <- MCIdentifiers
  Numbers = {"1"}
  Floats = {"1.5"}
  Strings = {"s"}
  BasicTypes <- MCBasicTypes
  Builtins = {"len"}
  Topics <- MCTopics
INVARIANTS TreeIsSource PrecedenceKept
PROPERTIES RewindsRestore Terminates
