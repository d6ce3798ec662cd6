SPECIFICATION Spec
CONSTANTS
  Programs <- ContinueElse
  Rounds = 1
  Slots = {0, 1}
  Values = {0, 5}
  Fuel = 60
PROPERTIES JccJmpPreserves
