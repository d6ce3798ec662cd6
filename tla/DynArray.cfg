SPECIFICATION DynSpec
CONSTANTS
  Addr = {a1, a2, a3, a4}
  NULL = NULL
  Junk = Junk
  Sizes = {2, 4, 8}
  Failures = {"malloc", "realloc", "expand"}
  INITIAL_MAX_CHUNKS = 2
  Arrays = {x, y}
  MaxSize = 3
INVARIANTS ElementsInBlock ChunksInBounds Registered NoLeak
PROPERTIES AllocSpec
