----------------------------- MODULE DynArray ------------------------------
(***************************************************************************)
(* The growing arrays of the compiler (dynarray.h), on the blocks of       *)
(* alloc.c.  Every list of the program is one: instructions, tokens,       *)
(* statements, labels.  The macros keep size, capacity and ptr in a struct *)
(* of the caller; sizes count elements.                                    *)
(***************************************************************************)
EXTENDS Alloc

CONSTANTS
  Arrays,     (* The arrays of the program.                                *)
  MaxSize     (* Bound on the elements of an array.                        *)

ASSUME MaxSizeAssumption == MaxSize \in Nat

VARIABLES arrays

dynVars == <<heap, allocated_chunks, chunk_count, chunk_capacity, phase,
             next_chunk, leaked, arrays>>

Empty == [size |-> 0, capacity |-> 0, ptr |-> NULL]

(* An array that must hold size elements doubles its capacity until it is  *)
(* greater than size.                                                      *)
Doublings(capacity) ==
  LET base == IF capacity = 0 THEN 1 ELSE capacity
  IN  {base * 2^k : k \in 1 .. MaxSize + 1}

(* Mutant: the capacity is doubled once.                                   *)
GrownOnce(capacity, size) ==
  IF size < capacity THEN capacity
  ELSE IF capacity = 0 THEN 2 ELSE capacity * 2

Grown(capacity, size) ==
  IF size < capacity THEN capacity
  ELSE CHOOSE c \in Doublings(capacity) :
         size < c /\ \A d \in Doublings(capacity) : size < d => c <= d

(* Doubling a number, or 1, gets past every size.                          *)
ASSUME DoublingsAssumption ==
  \A capacity \in Sizes \cup {0}, size \in 0 .. MaxSize :
    Doublings(capacity) \subseteq Nat \ {0, 1} /\ \E d \in Doublings(capacity) : size < d
(* The program may ask for every capacity its arrays grow to.              *)
ASSUME CapacitiesAssumption ==
  \A capacity \in Sizes \cup {0}, size \in 0 .. MaxSize : Grown(capacity, size) \in Sizes

(* Mutant: the block is reallocated behind the back of the allocator.      *)
ReallocatedDirectly(a, size, capacity) ==
  \E p \in Addr :
    /\ IF arrays[a].ptr = NULL
         THEN danpa_alloc(p, capacity)
         ELSE /\ p \in (Addr \ DOMAIN heap) \cup {arrays[a].ptr}
              /\ heap' = Moved(arrays[a].ptr, p, capacity)
              /\ UNCHANGED <<allocated_chunks, chunk_count, chunk_capacity,
                             phase, next_chunk, leaked>>
    /\ arrays' = [arrays EXCEPT ![a] = [size |-> size, capacity |-> capacity, ptr |-> p]]

(* The array is reallocated to its new capacity.  When memory runs out,    *)
(* ptr is NULL behind a capacity that says there is room: every caller     *)
(* that asked for elements writes them at once, through the NULL, and one  *)
(* that asked for none goes on.                                            *)
Reallocated(a, size, capacity) ==
  \E p \in Addr \cup {NULL} :
    /\ danpa_realloc(arrays[a].ptr, p, capacity)
    /\ p = NULL => (phase' = "aborted" <=> size > 0)
    /\ arrays' = [arrays EXCEPT ![a] = [size |-> size, capacity |-> capacity,
                                        ptr |-> p]]

NoMemory ==
  /\ "malloc" \in Failures
  /\ Abort
  /\ UNCHANGED arrays

----------------------------------------------------------------------------
(* The capacity to begin with is 0: no block is allocated.                 *)
DYNARRAY_INIT(a) ==
  /\ arrays' = [arrays EXCEPT ![a] = Empty]
  /\ UNCHANGED allocVars

DYNARRAY_ADD(a) ==
  LET size == arrays[a].size + 1
  IN  /\ size <= MaxSize
      /\ IF size >= arrays[a].capacity
           THEN \/ Reallocated(a, size, Grown(arrays[a].capacity, arrays[a].capacity))
                \/ arrays[a].ptr = NULL /\ NoMemory
         ELSE IF arrays[a].ptr = NULL
           THEN WriteNull /\ UNCHANGED arrays
           ELSE /\ arrays' = [arrays EXCEPT ![a].size = size]
                /\ UNCHANGED allocVars

(* The array is reallocated even when its capacity is enough.              *)
DYNARRAY_RESIZE(a, size) ==
  \/ Reallocated(a, size, Grown(arrays[a].capacity, size))
  \/ arrays[a].ptr = NULL /\ NoMemory

(* The callers pop what they pushed.                                       *)
DYNARRAY_POP(a) ==
  /\ arrays[a].size > 0
  /\ arrays' = [arrays EXCEPT ![a].size = @ - 1]
  /\ UNCHANGED allocVars

ArrayStep ==
  /\ phase = "running"
  /\ \E a \in Arrays :
       \/ DYNARRAY_INIT(a)
       \/ DYNARRAY_ADD(a)
       \/ \E size \in 0 .. MaxSize : DYNARRAY_RESIZE(a, size)
       \/ DYNARRAY_POP(a)

Cleanup ==
  /\ cleanup_memory \/ FreeChunk \/ CleanupEnds \/ Stopped
  /\ UNCHANGED arrays

DynInit ==
  /\ Init
  /\ arrays = [a \in Arrays |-> Empty]

DynNext == ArrayStep \/ Cleanup

DynSpec == DynInit /\ [][DynNext]_dynVars

----------------------------------------------------------------------------
(* Properties.                                                             *)
(* The elements of an array are inside its block, also right after it was  *)
(* resized, popped or initialised again, and two arrays never share a      *)
(* block.                                                                  *)
ElementsInBlock ==
  phase = "running" =>
    \A a \in Arrays :
      /\ arrays[a].size > 0 =>
           arrays[a].ptr \in DOMAIN heap /\ arrays[a].size <= heap[arrays[a].ptr]
      /\ \A b \in Arrays :
           arrays[a].ptr # NULL /\ arrays[a].ptr = arrays[b].ptr => a = b

(* The macros call the allocator the way it expects to be called.          *)
AllocSpec == Spec
=============================================================================
