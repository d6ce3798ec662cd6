SPECIFICATION CSpec
CONSTANTS
  Width = 4
  Rounds = 3
  Overloads <- MCOverloads
  Sources <- AllSources
  Locals <- MCLocals
  Structs <- MCStructs
  Element <- MCElement
  Length <- MCLength
  Target <- MCTarget
  Optionals <- MCOptionals
  Arity <- MCArity
  Setup <- MCSetup
INVARIANTS ValueKept CrashesKnown TypesWritten CodeComputes
PROPERTIES OneRoundIsEnough
