SPECIFICATION Spec
CONSTANTS
  Programs <- MCPrograms
  Rounds = 2
  Slots = {0, 1}
  Values = {0, 5}
  Fuel = 60
INVARIANTS TargetsUnique CrashesKnown
PROPERTIES SoundPasses 
