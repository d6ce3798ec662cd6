------------------------------- MODULE Alloc -------------------------------
(***************************************************************************)
(* The compiler's memory (alloc.c): every block is registered in one array *)
(* when it is allocated, stays registered under its new address when it is *)
(* reallocated, and is freed by cleanup_memory at the end of main.         *)
(*                                                                         *)
(* heap is the C library's view: the blocks in use, with their sizes.  An  *)
(* index of allocated_chunks is that of the code, and the empty function   *)
(* stands for a NULL array.                                                *)
(***************************************************************************)
EXTENDS Integers

CONSTANTS
  Addr,       (* The addresses malloc may return.                          *)
  NULL,
  Junk,       (* What a slot holds before it is written.                   *)
  Sizes,      (* The sizes the program asks for.                           *)
  Failures,   (* The calls of the C library that may run out of memory.    *)
  INITIAL_MAX_CHUNKS

ASSUME AddrAssumption == NULL \notin Addr /\ Junk \notin Addr
ASSUME SizesAssumption == Sizes \subseteq Nat
(* The array grows by half its capacity: from one slot it would not grow.  *)
ASSUME CapacityAssumption == INITIAL_MAX_CHUNKS \in Nat /\ INITIAL_MAX_CHUNKS >= 2

VARIABLES
  heap, allocated_chunks, chunk_count, chunk_capacity,
  phase,      (* "running", "cleanup" (inside cleanup_memory), "done",     *)
              (* "aborted", or "lost" without an array.                    *)
  next_chunk, (* The loop variable of cleanup_memory.                      *)
  leaked      (* History: the blocks whose reallocation failed.  They are  *)
              (* in use, and nobody holds their address any more.          *)

allocVars == <<heap, allocated_chunks, chunk_count, chunk_capacity, phase,
               next_chunk, leaked>>

Slot == Addr \cup {NULL, Junk}

(* The C library: a block enters or leaves the heap.                       *)
With(p, size)  == [a \in DOMAIN heap \cup {p} |-> IF a = p THEN size ELSE heap[a]]
Without(p)     == [a \in DOMAIN heap \ {p} |-> heap[a]]
Moved(p, q, size) ==
  [a \in (DOMAIN heap \ {p}) \cup {q} |-> IF a = q THEN size ELSE heap[a]]

(* expand_array: the old slots are kept.                                   *)
Expanded(array, new_size) ==
  [i \in 0 .. new_size - 1 |-> IF i \in DOMAIN array THEN array[i] ELSE Junk]

Abort ==
  /\ phase' = "aborted"
  /\ UNCHANGED <<heap, allocated_chunks, chunk_count, chunk_capacity, next_chunk, leaked>>

----------------------------------------------------------------------------
(* Mutant: the array grows when it is too full already.                    *)
RegisterLate(p) ==
  LET first  == allocated_chunks = <<>>
      size   == IF first THEN INITIAL_MAX_CHUNKS ELSE chunk_capacity
      array  == IF first THEN Expanded(allocated_chunks, size) ELSE allocated_chunks
      filled == [array EXCEPT ![chunk_count] = p]
      full   == chunk_count + 1 > size
      grown  == size + size \div 2
  IN  /\ chunk_count' = chunk_count + 1
      /\ chunk_capacity' = IF full THEN grown ELSE size
      /\ allocated_chunks' = IF full THEN Expanded(filled, grown) ELSE filled
      /\ UNCHANGED phase

(* danpa_alloc(size) returns p.  expand_array does not look at what realloc *)
(* returned: when the memory for the array runs out the program goes on     *)
(* with a NULL array, and what its next use does is undefined ("lost").     *)
Register(p) ==
  LET first  == allocated_chunks = <<>>
      size   == IF first THEN INITIAL_MAX_CHUNKS ELSE chunk_capacity
      array  == IF first THEN Expanded(allocated_chunks, size) ELSE allocated_chunks
      filled == [array EXCEPT ![chunk_count] = p]
      full   == chunk_count + 1 >= size
      grown  == size + size \div 2
  IN  /\ chunk_count' = chunk_count + 1
      /\ chunk_capacity' = IF full THEN grown ELSE size
      /\ \/ /\ allocated_chunks' = IF full THEN Expanded(filled, grown) ELSE filled
            /\ UNCHANGED phase
         \/ /\ "expand" \in Failures
            /\ first \/ full
            /\ allocated_chunks' = <<>>
            /\ phase' = "lost"

danpa_alloc(p, size) ==
  /\ p \in Addr \ DOMAIN heap
  /\ heap' = With(p, size)
  /\ Register(p)
  /\ UNCHANGED <<next_chunk, leaked>>

(* Mutant: a block that moved stays registered under its old address.      *)
ReallocForgets(ptr, p, size) ==
  IF ptr = NULL
  THEN danpa_alloc(p, size)
  ELSE IF \A i \in 0 .. chunk_count - 1 : allocated_chunks[i] # ptr
  THEN Abort
  ELSE /\ p \in (Addr \ DOMAIN heap) \cup {ptr}
       /\ heap' = Moved(ptr, p, size)
       /\ UNCHANGED <<phase, allocated_chunks, chunk_count, chunk_capacity,
                      next_chunk, leaked>>

(* danpa_realloc(ptr, size) returns p: the same address, a new one, or     *)
(* NULL.  It does not look at what realloc returned: a block the C library *)
(* cannot reallocate stays in use, its slot is overwritten with NULL, and  *)
(* the program goes on with the NULL or has written through it already.    *)
danpa_realloc(ptr, p, size) ==
  IF ptr = NULL
  THEN danpa_alloc(p, size)
  ELSE IF \A i \in 0 .. chunk_count - 1 : allocated_chunks[i] # ptr
  THEN Abort
  ELSE \E i \in 0 .. chunk_count - 1 :
         /\ allocated_chunks[i] = ptr
         /\ \A j \in 0 .. i - 1 : allocated_chunks[j] # ptr
         /\ \/ /\ p \in (Addr \ DOMAIN heap) \cup {ptr}
               /\ heap' = Moved(ptr, p, size)
               /\ UNCHANGED <<phase, leaked>>
            \/ /\ "realloc" \in Failures /\ p = NULL
               /\ leaked' = leaked \cup {ptr}
               /\ phase' \in {phase, "aborted"}
               /\ UNCHANGED heap
         /\ allocated_chunks' = [allocated_chunks EXCEPT ![i] = p]
         /\ UNCHANGED <<chunk_count, chunk_capacity, next_chunk>>

(* Mutant: the first chunk is skipped.                                     *)
CleanupFromOne ==
  /\ phase = "running"
  /\ phase' = "cleanup"
  /\ next_chunk' = 1
  /\ UNCHANGED <<heap, allocated_chunks, chunk_count, chunk_capacity, leaked>>

(* cleanup_memory frees the chunks in the order of the array; freeing the  *)
(* NULL of a lost block does nothing.                                      *)
cleanup_memory ==
  /\ phase = "running"
  /\ phase' = "cleanup"
  /\ next_chunk' = 0
  /\ UNCHANGED <<heap, allocated_chunks, chunk_count, chunk_capacity, leaked>>

FreeChunk ==
  /\ phase = "cleanup"
  /\ next_chunk < chunk_count
  /\ heap' = Without(allocated_chunks[next_chunk])
  /\ next_chunk' = next_chunk + 1
  /\ UNCHANGED <<allocated_chunks, chunk_count, chunk_capacity, phase, leaked>>

CleanupEnds ==
  /\ phase = "cleanup"
  /\ next_chunk >= chunk_count
  /\ phase' = "done"
  /\ UNCHANGED <<heap, allocated_chunks, chunk_count, chunk_capacity, next_chunk, leaked>>

----------------------------------------------------------------------------
(* The program passes to danpa_realloc a block it was given and has not    *)
(* given back since, or NULL.  A block whose reallocation failed was given *)
(* back: the program has overwritten its address with the NULL it got.     *)
Alloc ==
  /\ phase = "running"
  /\ \E size \in Sizes :
       \/ \E p \in Addr : danpa_alloc(p, size)
       \/ "malloc" \in Failures /\ Abort

Realloc ==
  /\ phase = "running"
  /\ \E ptr \in (DOMAIN heap \ leaked) \cup {NULL}, p \in Addr \cup {NULL}, size \in Sizes :
       danpa_realloc(ptr, p, size)

(* The program writes later through a NULL it was given.                   *)
WriteNull ==
  /\ phase = "running"
  /\ leaked # {}
  /\ Abort

Stopped == phase \in {"done", "aborted", "lost"} /\ UNCHANGED allocVars

Init ==
  /\ heap = <<>>
  /\ allocated_chunks = <<>>
  /\ chunk_count = 0
  /\ chunk_capacity = 0
  /\ phase = "running"
  /\ next_chunk = 0
  /\ leaked = {}

Next ==
  \/ Alloc \/ Realloc \/ WriteNull
  \/ cleanup_memory \/ FreeChunk \/ CleanupEnds \/ Stopped

Spec == Init /\ [][Next]_allocVars

----------------------------------------------------------------------------
(* Properties.                                                             *)

TypeOK ==
  /\ DOMAIN heap \subseteq Addr
  /\ \A a \in DOMAIN heap : heap[a] \in Nat
  /\ \A i \in DOMAIN allocated_chunks : allocated_chunks[i] \in Slot
  /\ chunk_count \in Nat
  /\ chunk_capacity \in Nat
  /\ phase \in {"running", "cleanup", "done", "aborted", "lost"}
  /\ next_chunk \in Nat
  /\ leaked \subseteq Addr

(* The next chunk has a slot: the array grows before it is full, so that   *)
(* danpa_alloc, which tests the capacity after it wrote the slot, never    *)
(* writes behind the array.                                                *)
ChunksInBounds ==
  chunk_count > 0 /\ phase # "lost" =>
    /\ DOMAIN allocated_chunks = 0 .. chunk_capacity - 1
    /\ chunk_count < chunk_capacity

(* While the program runs, each block in use is registered in exactly one  *)
(* slot, under its current address; only the blocks whose reallocation     *)
(* failed are in none.                                                     *)
Registered ==
  phase = "running" =>
    \A a \in DOMAIN heap :
      IF a \in leaked
        THEN \A i \in 0 .. chunk_count - 1 : allocated_chunks[i] # a
        ELSE \E i \in 0 .. chunk_count - 1 :
               /\ allocated_chunks[i] = a
               /\ \A j \in 0 .. chunk_count - 1 : allocated_chunks[j] = a => j = i

(* cleanup_memory frees a block that is in use, or NULL: never a block     *)
(* twice, never the old address of a block that moved, never a slot that   *)
(* was not written.                                                        *)
FreesLive ==
  phase = "cleanup" /\ next_chunk < chunk_count =>
    allocated_chunks[next_chunk] \in DOMAIN heap \cup {NULL}

(* When cleanup_memory returns, every block was given back but those whose *)
(* reallocation failed: they leak, all of them, and no other block does.   *)
NoLeak == phase = "done" => DOMAIN heap = leaked
=============================================================================
