--------------------------- MODULE DynArrayProofs ---------------------------
(***************************************************************************)
(* TLAPS proofs about Alloc, for every number of addresses, every initial  *)
(* capacity of at least two slots and every call that may run out of       *)
(* memory, and about DynArray: the elements of an array are always inside  *)
(* a block of its own, and the arrays use the allocator as Alloc says.     *)
(***************************************************************************)
EXTENDS DynArray, WellFoundedInduction, TLAPS

----------------------------------------------------------------------------
(* The registry.                                                           *)
(* The array has a slot more than it needs, once it exists.                *)
IsArray ==
  phase # "lost" =>
  IF chunk_count = 0
    THEN allocated_chunks = <<>>
    ELSE /\ allocated_chunks \in [0 .. chunk_capacity - 1 -> Slot]
         /\ chunk_count < chunk_capacity

(* The chunks cleanup_memory has not freed are the blocks in use, each in  *)
(* one slot, but for those whose reallocation failed: of these only a NULL *)
(* is left.                                                                *)
InUse == next_chunk .. chunk_count - 1

Held == DOMAIN heap \ leaked

ChunksInUse ==
  phase \in {"running", "cleanup"} =>
    /\ next_chunk <= chunk_count
    /\ leaked \subseteq DOMAIN heap
    /\ \A i \in InUse : allocated_chunks[i] \in Held \cup {NULL}
    /\ \A i, j \in InUse :
         allocated_chunks[i] # NULL /\ allocated_chunks[i] = allocated_chunks[j] => i = j
    /\ \A a \in Held : \E i \in InUse : allocated_chunks[i] = a

AllocInv ==
  /\ TypeOK
  /\ IsArray
  /\ ChunksInUse
  /\ phase = "running" => next_chunk = 0
  /\ phase = "done" => DOMAIN heap = leaked

----------------------------------------------------------------------------
(* The initial state, without an array, satisfies the invariant.           *)
LEMMA InitAlloc ==
  ASSUME Init
  PROVE  AllocInv
<1>1. /\ heap = <<>> /\ allocated_chunks = <<>> /\ chunk_count = 0
      /\ chunk_capacity = 0 /\ phase = "running" /\ next_chunk = 0 /\ leaked = {}
  BY DEF Init
<1>2. DOMAIN heap = {} /\ DOMAIN allocated_chunks = {}
  BY <1>1
<1> QED BY <1>1, <1>2 DEF AllocInv, TypeOK, IsArray, ChunksInUse, InUse, Held

(* danpa_alloc: the new block goes to the first free slot.                 *)
LEMMA AllocStep ==
  ASSUME AllocInv, phase = "running",
         NEW p \in Addr, NEW size \in Nat, danpa_alloc(p, size)
  PROVE  AllocInv'
<1> DEFINE cap    == IF allocated_chunks = <<>> THEN INITIAL_MAX_CHUNKS ELSE chunk_capacity
           array  == IF allocated_chunks = <<>> THEN Expanded(allocated_chunks, cap)
                                                ELSE allocated_chunks
           filled == [array EXCEPT ![chunk_count] = p]
<1> USE CapacityAssumption
<1>1. /\ p \notin DOMAIN heap /\ heap' = With(p, size)
      /\ chunk_count' = chunk_count + 1
      /\ next_chunk' = next_chunk /\ leaked' = leaked
      /\ chunk_capacity' = IF chunk_count + 1 >= cap THEN cap + cap \div 2 ELSE cap
      /\ \/ /\ allocated_chunks' = IF chunk_count + 1 >= cap
                                     THEN Expanded(filled, cap + cap \div 2) ELSE filled
            /\ phase' = phase
         \/ allocated_chunks' = <<>> /\ phase' = "lost"
  BY DEF danpa_alloc, Register
<1>2. /\ chunk_count \in Nat /\ chunk_capacity \in Nat /\ next_chunk = 0
      /\ DOMAIN heap \subseteq Addr /\ \A a \in DOMAIN heap : heap[a] \in Nat
      /\ IsArray /\ ChunksInUse /\ leaked \subseteq Addr /\ leaked \subseteq DOMAIN heap
      /\ NULL \notin DOMAIN heap /\ p # NULL
  BY AddrAssumption DEF AllocInv, TypeOK, ChunksInUse
<1>3. /\ cap \in Nat /\ cap >= 2 /\ chunk_count < cap
      /\ array \in [0 .. cap - 1 -> Slot]
      /\ \A i \in 0 .. chunk_count - 1 : array[i] = allocated_chunks[i]
  <2>1. CASE chunk_count = 0
      BY <1>2, <2>1 DEF IsArray, Expanded, Slot
  <2>2. CASE chunk_count # 0
    <3>1. /\ allocated_chunks \in [0 .. chunk_capacity - 1 -> Slot]
          /\ chunk_count < chunk_capacity
      BY <1>2, <2>2 DEF IsArray
    <3>2. 0 \in DOMAIN allocated_chunks
      BY <1>2, <2>2, <3>1
    <3>3. allocated_chunks # <<>>
      BY <3>2
    <3> QED BY <1>2, <2>2, <3>1, <3>3
  <2> QED BY <2>1, <2>2
<1> HIDE DEF cap, array
<1>4. /\ filled \in [0 .. cap - 1 -> Slot]
      /\ filled[chunk_count] = p
      /\ \A i \in 0 .. chunk_count - 1 : filled[i] = allocated_chunks[i]
  <2>1. p \in Slot /\ chunk_count \in 0 .. cap - 1
    BY <1>2, <1>3 DEF Slot
  <2>2. filled \in [0 .. cap - 1 -> Slot] /\ filled[chunk_count] = p
    BY <1>3, <2>1
  <2>3. ASSUME NEW i \in 0 .. chunk_count - 1
        PROVE  filled[i] = allocated_chunks[i]
    <3>1. i # chunk_count /\ i \in 0 .. cap - 1
      BY <1>2, <1>3
    <3> QED BY <1>3, <3>1
  <2> QED BY <2>2, <2>3
<1> HIDE DEF filled
<1>5. chunk_capacity' \in Nat
  BY <1>1, <1>3
<1>6. DOMAIN heap' = DOMAIN heap \cup {p} /\ \A a \in DOMAIN heap' : heap'[a] \in Nat
  BY <1>1, <1>2 DEF With
<1>7. CASE allocated_chunks' = <<>> /\ phase' = "lost"
  <2>1. DOMAIN allocated_chunks' = {}
    BY <1>7
  <2>2. TypeOK'
    BY <1>1, <1>2, <1>5, <1>6, <1>7, <2>1 DEF TypeOK
  <2> QED BY <1>7, <2>2 DEF AllocInv, IsArray, ChunksInUse
<1> SUFFICES ASSUME /\ phase' = phase
                    /\ allocated_chunks' = IF chunk_count + 1 >= cap
                                             THEN Expanded(filled, cap + cap \div 2)
                                             ELSE filled
             PROVE  AllocInv'
  BY <1>1, <1>7
<1>8. /\ chunk_count' < chunk_capacity'
      /\ allocated_chunks' \in [0 .. chunk_capacity' - 1 -> Slot]
      /\ allocated_chunks'[chunk_count] = p
      /\ \A i \in 0 .. chunk_count - 1 : allocated_chunks'[i] = allocated_chunks[i]
  <2>1. CASE chunk_count + 1 >= cap
    <3> DEFINE grown == cap + cap \div 2
    <3>1. grown \in Nat /\ grown > cap /\ chunk_count + 1 = cap
      BY <1>2, <1>3, <2>1
    <3>2. allocated_chunks' = Expanded(filled, grown) /\ chunk_capacity' = grown
      BY <1>1, <2>1
    <3> HIDE DEF grown
    <3>3. /\ allocated_chunks' \in [0 .. grown - 1 -> Slot]
          /\ \A i \in 0 .. cap - 1 : allocated_chunks'[i] = filled[i]
      BY <1>3, <1>4, <3>1, <3>2 DEF Expanded, Slot
    <3>4. chunk_count' = cap /\ chunk_count \in 0 .. cap - 1
      BY <1>1, <1>2, <3>1
    <3>5. allocated_chunks'[chunk_count] = p
      BY <1>4, <3>3, <3>4
    <3>6. \A i \in 0 .. chunk_count - 1 : allocated_chunks'[i] = allocated_chunks[i]
      <4>1. 0 .. chunk_count - 1 \subseteq 0 .. cap - 1
        BY <1>2, <1>3
      <4> QED BY <1>4, <3>3, <4>1
    <3> QED BY <3>1, <3>2, <3>3, <3>4, <3>5, <3>6
  <2>2. CASE ~ (chunk_count + 1 >= cap)
    BY <1>1, <1>2, <1>3, <1>4, <2>2
  <2> QED BY <2>1, <2>2
<1>9. TypeOK'
  <2>1. \A i \in DOMAIN allocated_chunks' : allocated_chunks'[i] \in Slot
    BY <1>8
  <2> QED BY <1>1, <1>2, <1>5, <1>6, <2>1 DEF TypeOK
<1>10. IsArray'
  <2>1. chunk_count' # 0
    BY <1>1, <1>2
  <2> QED BY <1>8, <2>1 DEF IsArray
<1>11. ChunksInUse'
  <2>1. /\ \A i \in 0 .. chunk_count - 1 : allocated_chunks[i] \in Held \cup {NULL}
        /\ \A i, j \in 0 .. chunk_count - 1 :
             allocated_chunks[i] # NULL /\ allocated_chunks[i] = allocated_chunks[j] => i = j
        /\ \A a \in Held : \E i \in 0 .. chunk_count - 1 : allocated_chunks[i] = a
    BY <1>2 DEF ChunksInUse, InUse
  <2>2. /\ InUse' = 0 .. chunk_count /\ next_chunk' <= chunk_count'
        /\ \A i \in 0 .. chunk_count : i \in 0 .. chunk_count - 1 \/ i = chunk_count
        /\ 0 .. chunk_count - 1 \subseteq 0 .. chunk_count /\ chunk_count \in 0 .. chunk_count
    BY <1>1, <1>2 DEF InUse
  <2>3. Held' = Held \cup {p} /\ p \notin Held /\ leaked' \subseteq DOMAIN heap'
    BY <1>1, <1>2, <1>6 DEF Held
  <2>4. \A i \in InUse' : allocated_chunks'[i] \in Held' \cup {NULL}
    BY <1>8, <2>1, <2>2, <2>3
  <2>5. \A i, j \in InUse' :
          allocated_chunks'[i] # NULL /\ allocated_chunks'[i] = allocated_chunks'[j] => i = j
    <3>1. /\ allocated_chunks'[chunk_count] = p
          /\ \A i \in 0 .. chunk_count - 1 : allocated_chunks'[i] # p
      BY <1>2, <1>8, <2>1, <2>3
    <3>2. ASSUME NEW i \in 0 .. chunk_count - 1, NEW j \in 0 .. chunk_count - 1,
                 allocated_chunks'[i] # NULL, allocated_chunks'[i] = allocated_chunks'[j]
          PROVE  i = j
      BY <1>8, <2>1, <3>2
    <3> QED BY <2>2, <3>1, <3>2
  <2>6. \A a \in Held' : \E i \in InUse' : allocated_chunks'[i] = a
    BY <1>8, <2>1, <2>2, <2>3
  <2> QED BY <2>2, <2>3, <2>4, <2>5, <2>6 DEF ChunksInUse
<1> QED BY <1>1, <1>2, <1>9, <1>10, <1>11 DEF AllocInv

(* danpa_realloc: the slot follows the block, or loses it.                 *)
LEMMA ReallocStep ==
  ASSUME AllocInv, phase = "running",
         NEW ptr \in Held \cup {NULL}, NEW p \in Addr \cup {NULL}, NEW size \in Nat,
         danpa_realloc(ptr, p, size)
  PROVE  AllocInv'
<1>1. CASE ptr = NULL
  <2>1. danpa_alloc(p, size) /\ p \in Addr
    BY <1>1 DEF danpa_realloc, danpa_alloc
  <2> QED BY <2>1, AllocStep
<1>2. CASE ptr # NULL
  <2>1. /\ chunk_count \in Nat /\ chunk_capacity \in Nat /\ next_chunk = 0
        /\ DOMAIN heap \subseteq Addr /\ \A a \in DOMAIN heap : heap[a] \in Nat
        /\ \A i \in DOMAIN allocated_chunks : allocated_chunks[i] \in Slot
        /\ IsArray /\ leaked \subseteq Addr /\ NULL \notin DOMAIN heap
    BY AddrAssumption DEF AllocInv, TypeOK
  <2>2. /\ \A i \in 0 .. chunk_count - 1 : allocated_chunks[i] \in Held \cup {NULL}
        /\ \A i, j \in 0 .. chunk_count - 1 :
             allocated_chunks[i] # NULL /\ allocated_chunks[i] = allocated_chunks[j] => i = j
        /\ \A a \in Held : \E i \in 0 .. chunk_count - 1 : allocated_chunks[i] = a
        /\ leaked \subseteq DOMAIN heap
    BY <2>1 DEF AllocInv, ChunksInUse, InUse
  (* The block is registered: danpa_realloc finds it.                      *)
  <2>3. ~ \A i \in 0 .. chunk_count - 1 : allocated_chunks[i] # ptr
    BY <1>2, <2>2
  <2>4. PICK i \in 0 .. chunk_count - 1 :
          /\ allocated_chunks[i] = ptr
          /\ \/ /\ p \in (Addr \ DOMAIN heap) \cup {ptr}
                /\ heap' = Moved(ptr, p, size)
                /\ UNCHANGED <<phase, leaked>>
             \/ /\ p = NULL
                /\ leaked' = leaked \cup {ptr}
                /\ phase' \in {phase, "aborted"}
                /\ UNCHANGED heap
          /\ allocated_chunks' = [allocated_chunks EXCEPT ![i] = p]
          /\ UNCHANGED <<chunk_count, chunk_capacity, next_chunk>>
    BY <1>2, <2>3 DEF danpa_realloc
  <2>5. /\ allocated_chunks \in [0 .. chunk_capacity - 1 -> Slot]
        /\ chunk_count < chunk_capacity /\ i \in 0 .. chunk_capacity - 1
        /\ chunk_count # 0 /\ 0 .. chunk_count - 1 \subseteq 0 .. chunk_capacity - 1
    BY <2>1, <2>4 DEF IsArray
  <2>6. /\ allocated_chunks' \in [0 .. chunk_capacity - 1 -> Slot]
        /\ allocated_chunks'[i] = p
        /\ \A j \in 0 .. chunk_count - 1 : j # i => allocated_chunks'[j] = allocated_chunks[j]
    BY <2>4, <2>5 DEF Slot
  <2>7. InUse' = 0 .. chunk_count - 1 /\ next_chunk' <= chunk_count' /\ next_chunk' = 0
    BY <2>1, <2>4 DEF InUse
  (* The block moved, or the program got a NULL and its slot too.          *)
  <2>8. /\ DOMAIN heap' \subseteq Addr /\ \A a \in DOMAIN heap' : heap'[a] \in Nat
        /\ leaked' \subseteq Addr /\ leaked' \subseteq DOMAIN heap'
        /\ p = NULL => Held' = Held \ {ptr}
        /\ p # NULL => Held' = (Held \ {ptr}) \cup {p} /\ p \notin Held \ {ptr}
        /\ phase' \in {"running", "aborted"}
    <3>1. CASE /\ p \in (Addr \ DOMAIN heap) \cup {ptr}
               /\ heap' = Moved(ptr, p, size)
               /\ UNCHANGED <<phase, leaked>>
      <4>1. DOMAIN heap' = (DOMAIN heap \ {ptr}) \cup {p}
            /\ \A a \in DOMAIN heap' : heap'[a] \in Nat
        BY <2>1, <3>1 DEF Moved
      <4>2. ptr \in Held /\ p # NULL /\ p \in Addr
        BY <1>2, <2>1, <3>1, AddrAssumption DEF Held
      <4> QED BY <2>1, <2>2, <3>1, <4>1, <4>2 DEF Held
    <3>2. CASE /\ p = NULL
               /\ leaked' = leaked \cup {ptr}
               /\ phase' \in {phase, "aborted"}
               /\ UNCHANGED heap
      BY <1>2, <2>1, <2>2, <3>2 DEF Held
    <3> QED BY <2>4, <3>1, <3>2
  <2>9. TypeOK' /\ IsArray'
    BY <2>1, <2>4, <2>5, <2>6, <2>7, <2>8 DEF TypeOK, IsArray
  <2>10. \A j \in 0 .. chunk_count - 1 : allocated_chunks'[j] \in Held' \cup {NULL}
    <3> SUFFICES ASSUME NEW j \in 0 .. chunk_count - 1
                 PROVE  allocated_chunks'[j] \in Held' \cup {NULL}
      OBVIOUS
    <3>1. CASE j = i
      BY <2>6, <2>8, <3>1
    <3>2. CASE j # i
      <4>1. allocated_chunks'[j] = allocated_chunks[j] /\ allocated_chunks[j] # ptr
        BY <1>2, <2>2, <2>4, <2>6, <3>2
      <4> QED BY <2>2, <2>8, <4>1
    <3> QED BY <3>1, <3>2
  <2>11. ASSUME NEW j \in 0 .. chunk_count - 1, NEW k \in 0 .. chunk_count - 1,
                allocated_chunks'[j] # NULL, allocated_chunks'[j] = allocated_chunks'[k]
         PROVE  j = k
    <3>1. ASSUME NEW m \in 0 .. chunk_count - 1, m # i, p # NULL
          PROVE  allocated_chunks'[m] # p
      <4>1. allocated_chunks'[m] = allocated_chunks[m] /\ allocated_chunks[m] # ptr
        BY <1>2, <2>2, <2>4, <2>6, <3>1
      <4> QED BY <2>2, <2>8, <3>1, <4>1
    <3>2. CASE j = i \/ k = i
      BY <2>6, <2>11, <3>1, <3>2
    <3>3. CASE j # i /\ k # i
      BY <2>2, <2>6, <2>11, <3>3
    <3> QED BY <3>2, <3>3
  <2>12. \A a \in Held' : \E j \in 0 .. chunk_count - 1 : allocated_chunks'[j] = a
    <3> SUFFICES ASSUME NEW a \in Held'
                 PROVE  \E j \in 0 .. chunk_count - 1 : allocated_chunks'[j] = a
      OBVIOUS
    <3>1. CASE a = p
      BY <2>4, <2>6, <3>1
    <3>2. CASE a # p
      <4>1. a \in Held /\ a # ptr
        BY <2>8, <3>2
      <4>2. PICK j \in 0 .. chunk_count - 1 : allocated_chunks[j] = a
        BY <2>2, <4>1
      <4> QED BY <2>4, <2>6, <4>1, <4>2
    <3> QED BY <3>1, <3>2
  <2>13. ChunksInUse'
    BY <2>4, <2>7, <2>8, <2>10, <2>11, <2>12 DEF ChunksInUse
  <2> QED BY <2>7, <2>8, <2>9, <2>13 DEF AllocInv
<1> QED BY <1>1, <1>2

(* cleanup_memory preserves the invariant: it frees the chunks one by      *)
(* one.                                                                    *)
LEMMA CleanupStep ==
  ASSUME AllocInv, cleanup_memory \/ FreeChunk \/ CleanupEnds
  PROVE  AllocInv'
<1>1. /\ chunk_count \in Nat /\ next_chunk \in Nat /\ TypeOK /\ IsArray /\ ChunksInUse
      /\ UNCHANGED <<allocated_chunks, chunk_count, chunk_capacity, leaked>>
  BY DEF AllocInv, TypeOK, cleanup_memory, FreeChunk, CleanupEnds
<1>2. IsArray'
  <2>1. phase # "lost"
    BY DEF cleanup_memory, FreeChunk, CleanupEnds
  <2> QED BY <1>1, <2>1 DEF IsArray
<1>3. CASE cleanup_memory
  <2>1. phase = "running" /\ phase' = "cleanup" /\ next_chunk' = 0 /\ next_chunk = 0
        /\ heap' = heap
    BY <1>3 DEF cleanup_memory, AllocInv
  <2>2. TypeOK' /\ ChunksInUse'
    BY <1>1, <2>1 DEF TypeOK, ChunksInUse, InUse, Held
  <2> QED BY <1>2, <2>1, <2>2 DEF AllocInv
<1>4. CASE FreeChunk
  <2> DEFINE p == allocated_chunks[next_chunk]
  <2>1. /\ phase = "cleanup" /\ phase' = phase /\ next_chunk < chunk_count
        /\ next_chunk' = next_chunk + 1 /\ heap' = Without(p)
    BY <1>4 DEF FreeChunk
  <2>2. /\ DOMAIN heap' = DOMAIN heap \ {p}
        /\ \A a \in DOMAIN heap' : heap'[a] = heap[a]
    BY <2>1 DEF Without
  <2>3. TypeOK'
    BY <1>1, <2>1, <2>2 DEF TypeOK
  <2>4. /\ next_chunk \in InUse /\ next_chunk \notin InUse'
        /\ InUse' \subseteq InUse /\ \A i \in InUse : i # next_chunk => i \in InUse'
        /\ next_chunk' <= chunk_count'
    BY <1>1, <2>1 DEF InUse
  <2>5. /\ \A i \in InUse : allocated_chunks[i] \in Held \cup {NULL}
        /\ \A i, j \in InUse :
             allocated_chunks[i] # NULL /\ allocated_chunks[i] = allocated_chunks[j] => i = j
        /\ \A a \in Held : \E i \in InUse : allocated_chunks[i] = a
        /\ leaked \subseteq DOMAIN heap /\ NULL \notin DOMAIN heap
    BY <1>1, <2>1, AddrAssumption DEF ChunksInUse, TypeOK
  <2>6. Held' = Held \ {p} /\ leaked' \subseteq DOMAIN heap'
    <3>1. p \notin leaked
      BY <2>4, <2>5 DEF Held
    <3> QED BY <1>1, <2>2, <2>5, <3>1 DEF Held
  <2>7. \A i \in InUse' : allocated_chunks'[i] \in Held' \cup {NULL}
    <3> SUFFICES ASSUME NEW i \in InUse'
                 PROVE  allocated_chunks'[i] \in Held' \cup {NULL}
      OBVIOUS
    <3>1. i \in InUse /\ i # next_chunk /\ allocated_chunks'[i] = allocated_chunks[i]
      BY <1>1, <2>4
    <3>2. allocated_chunks[i] = NULL \/ allocated_chunks[i] # p
      BY <2>4, <2>5, <3>1
    <3> QED BY <2>5, <2>6, <3>1, <3>2
  <2>8. \A i, j \in InUse' :
          allocated_chunks'[i] # NULL /\ allocated_chunks'[i] = allocated_chunks'[j] => i = j
    BY <1>1, <2>4, <2>5
  <2>9. \A a \in Held' : \E i \in InUse' : allocated_chunks'[i] = a
    BY <1>1, <2>4, <2>5, <2>6
  <2> QED BY <1>2, <2>1, <2>3, <2>4, <2>6, <2>7, <2>8, <2>9 DEF AllocInv, ChunksInUse
<1>5. CASE CleanupEnds
  <2>1. /\ phase = "cleanup" /\ phase' = "done" /\ next_chunk >= chunk_count
        /\ heap' = heap /\ next_chunk' = next_chunk
    BY <1>5 DEF CleanupEnds
  <2>2. InUse = {}
    BY <1>1, <2>1 DEF InUse
  <2>3. DOMAIN heap = leaked
    BY <1>1, <2>1, <2>2 DEF ChunksInUse, Held
  <2> QED BY <1>1, <1>2, <2>1, <2>3 DEF AllocInv, TypeOK, ChunksInUse
<1> QED BY <1>3, <1>4, <1>5

(* A program that stops or aborts preserves the invariant.                 *)
LEMMA UnchangedAlloc ==
  ASSUME AllocInv,
         UNCHANGED <<heap, allocated_chunks, chunk_count, chunk_capacity, next_chunk, leaked>>,
         phase' = phase \/ (phase' = "aborted" /\ phase # "lost")
  PROVE  AllocInv'
BY DEF AllocInv, TypeOK, IsArray, ChunksInUse, InUse, Held

(* Every step preserves the invariant.                                     *)
LEMMA NextAlloc ==
  ASSUME AllocInv, [Next]_allocVars
  PROVE  AllocInv'
<1>1. CASE Alloc
  <2>1. PICK size \in Sizes :
          (\E p \in Addr : danpa_alloc(p, size)) \/ Abort
    BY <1>1 DEF Alloc
  <2>2. size \in Nat /\ phase = "running"
    BY <1>1, SizesAssumption DEF Alloc
  <2>3. CASE Abort
    BY <2>2, <2>3, UnchangedAlloc DEF Abort
  <2> QED BY <2>1, <2>2, <2>3, AllocStep
<1>2. CASE Realloc
  <2>1. PICK ptr \in Held \cup {NULL}, p \in Addr \cup {NULL}, size \in Sizes :
          danpa_realloc(ptr, p, size)
    BY <1>2 DEF Realloc, Held
  <2> QED BY <1>2, <2>1, SizesAssumption, ReallocStep DEF Realloc
<1>3. CASE cleanup_memory \/ FreeChunk \/ CleanupEnds
  BY <1>3, CleanupStep
<1>4. CASE Stopped \/ UNCHANGED allocVars
  <2>1. UNCHANGED <<heap, allocated_chunks, chunk_count, chunk_capacity, next_chunk, leaked>>
        /\ phase' = phase
    BY <1>4 DEF Stopped, allocVars
  <2> QED BY <2>1, UnchangedAlloc
<1>5. CASE WriteNull
  BY <1>5, UnchangedAlloc DEF WriteNull, Abort
<1> QED BY <1>1, <1>2, <1>3, <1>4, <1>5 DEF Next

(* The inductive invariant holds in every reachable state.                 *)
LEMMA AllocInvariance ==
  Spec => []AllocInv
<1>1. Init => AllocInv
  BY InitAlloc
<1>2. AllocInv /\ [Next]_allocVars => AllocInv'
  BY NextAlloc
<1> QED BY <1>1, <1>2, PTL DEF Spec

(* danpa_alloc never writes behind the array of the chunks.                *)
THEOREM InBounds ==
  Spec => []ChunksInBounds
<1>1. AllocInv => ChunksInBounds
  BY DEF AllocInv, TypeOK, IsArray, ChunksInBounds
<1> QED BY <1>1, AllocInvariance, PTL

(* Every block in use is registered, once, under its current address,      *)
(* unless its reallocation failed: then no slot holds it.                  *)
THEOREM AllRegistered ==
  Spec => []Registered
<1>1. ASSUME AllocInv, phase = "running", NEW a \in DOMAIN heap
      PROVE  IF a \in leaked
               THEN \A i \in 0 .. chunk_count - 1 : allocated_chunks[i] # a
               ELSE \E i \in 0 .. chunk_count - 1 :
                      /\ allocated_chunks[i] = a
                      /\ \A j \in 0 .. chunk_count - 1 : allocated_chunks[j] = a => j = i
  <2>1. InUse = 0 .. chunk_count - 1 /\ ChunksInUse /\ a # NULL
    BY <1>1, AddrAssumption DEF AllocInv, InUse, TypeOK
  <2>2. /\ \A i \in 0 .. chunk_count - 1 : allocated_chunks[i] \in Held \cup {NULL}
        /\ \A b \in Held : \E i \in 0 .. chunk_count - 1 : allocated_chunks[i] = b
        /\ \A i, j \in 0 .. chunk_count - 1 :
             allocated_chunks[i] # NULL /\ allocated_chunks[i] = allocated_chunks[j] => i = j
    BY <1>1, <2>1 DEF ChunksInUse
  <2>3. CASE a \in leaked
    <3>1. a \notin Held \cup {NULL}
      BY <2>1, <2>3 DEF Held
    <3> QED BY <2>2, <2>3, <3>1
  <2>4. CASE a \notin leaked
    <3>1. PICK i \in 0 .. chunk_count - 1 : allocated_chunks[i] = a
      BY <1>1, <2>2, <2>4 DEF Held
    <3>2. \A j \in 0 .. chunk_count - 1 : allocated_chunks[j] = a => j = i
      BY <2>1, <2>2, <3>1
    <3> QED BY <2>4, <3>1, <3>2
  <2> QED BY <2>3, <2>4
<1>2. AllocInv => Registered
  BY <1>1 DEF Registered
<1> QED BY <1>2, AllocInvariance, PTL

(* cleanup_memory frees only blocks in use, and in the end all of them but *)
(* those whose reallocation failed.                                        *)
THEOREM CleanupFreesAll ==
  Spec => [](FreesLive /\ NoLeak)
<1>1. ASSUME AllocInv, phase = "cleanup", next_chunk < chunk_count
      PROVE  allocated_chunks[next_chunk] \in DOMAIN heap \cup {NULL}
  <2>1. next_chunk \in InUse /\ ChunksInUse
    BY <1>1 DEF AllocInv, TypeOK, InUse
  <2> QED BY <1>1, <2>1 DEF ChunksInUse, Held
<1>2. AllocInv => FreesLive /\ NoLeak
  BY <1>1 DEF FreesLive, NoLeak, AllocInv
<1> QED BY <1>2, AllocInvariance, PTL

----------------------------------------------------------------------------
(* The arrays.                                                             *)
Array == [size : 0 .. MaxSize, capacity : Sizes \cup {0}, ptr : Addr \cup {NULL}]

(* An array has neither block nor element, or a block of its capacity with *)
(* room for one more element than it has.  After a reallocation that       *)
(* failed an array without a block has a capacity.                         *)
ArrayBlock(a) ==
  /\ arrays[a].ptr = NULL => arrays[a].size = 0
  /\ arrays[a].ptr # NULL =>
       /\ arrays[a].ptr \in Held
       /\ heap[arrays[a].ptr] = arrays[a].capacity
       /\ arrays[a].size < arrays[a].capacity

ArraysInv ==
  /\ arrays \in [Arrays -> Array]
  /\ phase = "running" =>
       /\ \A a \in Arrays : ArrayBlock(a)
       /\ \A a, b \in Arrays : arrays[a].ptr # NULL /\ arrays[a].ptr = arrays[b].ptr => a = b

DynInv == AllocInv /\ ArraysInv

----------------------------------------------------------------------------
(* The sizes of an array are numbers.                                      *)
LEMMA ArrayNumbers ==
  ASSUME NEW array \in Array
  PROVE  /\ array.size \in 0 .. MaxSize /\ array.capacity \in Sizes \cup {0}
         /\ array.ptr \in Addr \cup {NULL}
         /\ array.size \in Nat /\ array.capacity \in Nat
<1>1. /\ array.size \in 0 .. MaxSize /\ array.capacity \in Sizes \cup {0}
      /\ array.ptr \in Addr \cup {NULL}
  BY DEF Array
<1>2. Sizes \cup {0} \subseteq Nat /\ 0 .. MaxSize \subseteq Nat
  BY SizesAssumption, MaxSizeAssumption
<1> QED BY <1>1, <1>2

(* The loop that doubles the capacity ends with room for the elements.     *)
LEMMA GrownIsLarger ==
  ASSUME NEW c \in Sizes \cup {0}, NEW s \in 0 .. MaxSize
  PROVE  Grown(c, s) \in Sizes /\ s < Grown(c, s) /\ (s < c \/ 1 < Grown(c, s))
<1>1. Grown(c, s) \in Sizes
  BY CapacitiesAssumption
<1>2. CASE s < c
  BY <1>1, <1>2 DEF Grown
<1>3. CASE ~(s < c)
  <2> DEFINE T == {d \in Doublings(c) : s < d}
  <2>1. T \subseteq Nat /\ T # {}
    BY DoublingsAssumption
  <2>2. PICK least \in T : \A d \in T : ~(<<d, least>> \in OpToRel(<, Nat))
    BY <2>1, NatLessThanWellFounded, WFMin
  <2>3. ASSUME NEW m \in Nat, NEW n \in Nat, m < n
        PROVE  <<m, n>> \in OpToRel(<, Nat)
    BY <2>3 DEF OpToRel
  <2>4. \A d \in Doublings(c) : s < d => least <= d
    <3> SUFFICES ASSUME NEW d \in Doublings(c), s < d
                 PROVE  least <= d
      OBVIOUS
    <3>1. d \in T /\ d \in Nat /\ least \in Nat
      BY <2>1
    <3>2. ~(d < least)
      BY <2>2, <2>3, <3>1
    <3> QED BY <3>1, <3>2
  <2>5. \E k \in Doublings(c) : s < k /\ \A d \in Doublings(c) : s < d => k <= d
    BY <2>4
  <2>6. Grown(c, s) \in Doublings(c) /\ s < Grown(c, s)
    BY <1>3, <2>5 DEF Grown
  <2>7. Doublings(c) \subseteq Nat \ {0, 1}
    BY DoublingsAssumption
  <2>8. ASSUME NEW g \in Nat \ {0, 1}
        PROVE  1 < g
    OBVIOUS
  <2> QED BY <1>1, <2>6, <2>7, <2>8
<1> QED BY <1>2, <1>3

(* Reallocating the block of an array, or allocating its first one, is a   *)
(* step of the allocator, and leaves the blocks of the others alone.       *)
LEMMA ReallocatedStep ==
  ASSUME DynInv, phase = "running", NEW a \in Arrays, NEW size \in 0 .. MaxSize,
         NEW capacity \in Sizes, size < capacity, Reallocated(a, size, capacity)
  PROVE  DynInv' /\ Realloc
<1> DEFINE ptr == arrays[a].ptr
<1>1. PICK p \in Addr \cup {NULL} :
        /\ danpa_realloc(ptr, p, capacity)
        /\ p = NULL => (phase' = "aborted" <=> size > 0)
        /\ arrays' = [arrays EXCEPT ![a] = [size |-> size, capacity |-> capacity,
                                            ptr |-> p]]
  BY DEF Reallocated
<1>2. /\ AllocInv /\ arrays \in [Arrays -> Array]
      /\ \A b \in Arrays : ArrayBlock(b)
      /\ \A b, c \in Arrays : arrays[b].ptr # NULL /\ arrays[b].ptr = arrays[c].ptr => b = c
      /\ DOMAIN heap \subseteq Addr /\ NULL \notin DOMAIN heap
  BY AddrAssumption DEF DynInv, ArraysInv, AllocInv, TypeOK
<1>3. ptr \in Held \cup {NULL} /\ capacity \in Nat
  BY <1>2, SizesAssumption DEF ArrayBlock
<1>4. AllocInv' /\ Realloc
  BY <1>1, <1>2, <1>3, ReallocStep DEF Realloc, Held
<1>5. [size |-> size, capacity |-> capacity, ptr |-> p] \in Array
  BY DEF Array
<1>6. arrays' \in [Arrays -> Array]
  BY <1>1, <1>2, <1>5
<1>7. ASSUME phase' = "running"
      PROVE  /\ \A b \in Arrays : ArrayBlock(b)'
             /\ \A b, c \in Arrays :
                  arrays'[b].ptr # NULL /\ arrays'[b].ptr = arrays'[c].ptr => b = c
  <2>1. /\ arrays'[a] = [size |-> size, capacity |-> capacity, ptr |-> p]
        /\ \A b \in Arrays : b # a => arrays'[b] = arrays[b]
    BY <1>1, <1>2
  (* An array that lost its block was resized to no element.               *)
  <2>2. /\ p = NULL => size = 0
        /\ p # NULL => p \in Held' /\ heap'[p] = capacity
        /\ \A q \in Held : q # ptr => q # p /\ q \in Held' /\ heap'[q] = heap[q]
    <3>1. CASE ptr = NULL
      <4>1. p \in Addr \ DOMAIN heap /\ heap' = With(p, capacity) /\ leaked' = leaked
        BY <1>1, <3>1 DEF danpa_realloc, danpa_alloc
      <4>2. leaked \subseteq DOMAIN heap
        BY <1>2 DEF AllocInv, ChunksInUse
      <4> QED BY <1>2, <3>1, <4>1, <4>2, AddrAssumption DEF With, Held
    <3>2. CASE ptr # NULL
      <4>1. \/ /\ p \in (Addr \ DOMAIN heap) \cup {ptr}
               /\ heap' = Moved(ptr, p, capacity) /\ leaked' = leaked
            \/ p = NULL /\ heap' = heap /\ leaked' = leaked \cup {ptr}
        BY <1>1, <1>7, <3>2 DEF danpa_realloc, Abort
      <4>2. CASE p = NULL
        <5>1. heap' = heap /\ leaked' = leaked \cup {ptr}
          BY <1>2, <1>3, <3>2, <4>1, <4>2, AddrAssumption DEF Held
        <5>2. ~ (size > 0)
          BY <1>1, <1>7, <4>2
        <5>3. size = 0
          BY <5>2, MaxSizeAssumption
        <5> QED BY <1>2, <3>2, <4>2, <5>1, <5>3 DEF Held
      <4>3. CASE p # NULL
        <5>1. leaked \subseteq DOMAIN heap
          BY <1>2 DEF AllocInv, ChunksInUse
        <5> QED BY <1>2, <1>3, <3>2, <4>1, <4>3, <5>1, AddrAssumption DEF Moved, Held
      <4> QED BY <4>2, <4>3
    <3> QED BY <3>1, <3>2
  <2>3. ASSUME NEW b \in Arrays, b # a, arrays[b].ptr # NULL
        PROVE  /\ arrays[b].ptr \in Held' /\ arrays[b].ptr # ptr
               /\ arrays[b].ptr # p /\ heap'[arrays[b].ptr] = heap[arrays[b].ptr]
    <3>1. arrays[b].ptr \in Held /\ arrays[b].ptr # ptr
      BY <1>2, <2>3 DEF ArrayBlock
    <3> QED BY <2>2, <3>1
  <2>4. ASSUME NEW b \in Arrays
        PROVE  ArrayBlock(b)'
    <3>1. CASE b = a
      BY <2>1, <2>2, <3>1 DEF ArrayBlock
    <3>2. CASE b # a
      <4>1. ArrayBlock(b) /\ arrays'[b] = arrays[b]
        BY <1>2, <2>1, <3>2
      <4> QED BY <2>2, <2>3, <3>2, <4>1 DEF ArrayBlock
    <3> QED BY <3>1, <3>2
  <2>5. ASSUME NEW b \in Arrays, NEW c \in Arrays,
               arrays'[b].ptr # NULL, arrays'[b].ptr = arrays'[c].ptr
        PROVE  b = c
    <3>1. arrays'[a].ptr = p
      BY <2>1
    <3> QED BY <1>2, <2>1, <2>2, <2>3, <2>5, <3>1
  <2> QED BY <2>4, <2>5
<1> QED BY <1>4, <1>6, <1>7 DEF DynInv, ArraysInv

(* A step that keeps the blocks, and gives no array a new one or more room *)
(* than it has, keeps the invariant.                                       *)
LEMMA SameBlocks ==
  ASSUME DynInv, phase = "running", UNCHANGED allocVars,
         NEW a \in Arrays, NEW value \in Array, arrays' = [arrays EXCEPT ![a] = value],
         \/ value = Empty
         \/ /\ value.ptr = arrays[a].ptr
            /\ value.capacity = arrays[a].capacity
            /\ value.ptr = NULL => value.size = 0
            /\ value.ptr # NULL => value.size < value.capacity
  PROVE  DynInv'
<1>1. /\ AllocInv /\ arrays \in [Arrays -> Array]
      /\ \A b \in Arrays : ArrayBlock(b)
      /\ \A b, c \in Arrays : arrays[b].ptr # NULL /\ arrays[b].ptr = arrays[c].ptr => b = c
  BY DEF DynInv, ArraysInv
<1>2. AllocInv' /\ heap' = heap /\ phase' = phase /\ Held' = Held
  BY <1>1, UnchangedAlloc DEF allocVars, Held
<1>3. /\ arrays' \in [Arrays -> Array] /\ arrays'[a] = value
      /\ \A b \in Arrays : b # a => arrays'[b] = arrays[b]
  BY <1>1
<1>4. /\ Empty.ptr = NULL /\ Empty.size = 0 /\ Empty.capacity = 0
      /\ value.ptr = NULL \/ value.ptr = arrays[a].ptr
  <2>1. Empty.ptr = NULL /\ Empty.size = 0 /\ Empty.capacity = 0
    BY ONLY DEF Empty
  <2> QED BY <2>1
<1>5. ASSUME NEW b \in Arrays
      PROVE  ArrayBlock(b)'
  <2>1. CASE b # a
    BY <1>1, <1>2, <1>3, <2>1 DEF ArrayBlock
  <2>2. CASE b = a /\ value = Empty
    BY <1>3, <1>4, <2>2 DEF ArrayBlock
  <2>3. CASE b = a /\ value # Empty
    <3>1. ArrayBlock(a) /\ arrays'[b] = value
      BY <1>1, <1>3, <2>3
    <3>2. /\ value.ptr = arrays[a].ptr /\ value.capacity = arrays[a].capacity
          /\ value.ptr = NULL => value.size = 0
          /\ value.ptr # NULL => value.size < value.capacity
      BY <2>3
    <3> QED BY ONLY <1>2, <3>1, <3>2 DEF ArrayBlock
  <2> QED BY <2>1, <2>2, <2>3
<1>6. ASSUME NEW b \in Arrays, NEW c \in Arrays,
             arrays'[b].ptr # NULL, arrays'[b].ptr = arrays'[c].ptr
      PROVE  b = c
  <2>1. arrays'[b].ptr = arrays[b].ptr /\ arrays'[c].ptr = arrays[c].ptr
    BY <1>3, <1>4, <1>6
  <2> QED BY <1>1, <1>6, <2>1
<1> QED BY <1>2, <1>3, <1>5, <1>6 DEF DynInv, ArraysInv

(* When memory runs out the program aborts, as the allocator may.          *)
LEMMA NoMemoryStep ==
  ASSUME DynInv, phase = "running", NoMemory
  PROVE  DynInv' /\ Alloc
<1>1. AllocInv' /\ arrays' = arrays /\ phase' = "aborted"
  BY UnchangedAlloc DEF DynInv, NoMemory, Abort
<1>2. 0 \in 0 .. MaxSize
  BY MaxSizeAssumption
<1>3. \E size \in Sizes : TRUE
  BY <1>2, CapacitiesAssumption
<1> QED BY <1>1, <1>3 DEF DynInv, ArraysInv, NoMemory, Alloc

(* Every step of an array is one of the allocator, or none.                *)
LEMMA ArrayStepInv ==
  ASSUME DynInv, ArrayStep
  PROVE  DynInv' /\ [Next]_allocVars
<1>1. PICK a \in Arrays :
        \/ DYNARRAY_INIT(a)
        \/ DYNARRAY_ADD(a)
        \/ \E size \in 0 .. MaxSize : DYNARRAY_RESIZE(a, size)
        \/ DYNARRAY_POP(a)
  BY DEF ArrayStep
<1>2. /\ phase = "running" /\ arrays[a] \in Array /\ ArrayBlock(a)
      /\ arrays \in [Arrays -> Array]
  BY DEF ArrayStep, DynInv, ArraysInv
<1>3. /\ arrays[a].size \in 0 .. MaxSize /\ arrays[a].capacity \in Sizes \cup {0}
      /\ arrays[a].ptr \in Addr \cup {NULL}
      /\ arrays[a].size \in Nat /\ arrays[a].capacity \in Nat
  BY <1>2, ArrayNumbers
<1>4. CASE DYNARRAY_INIT(a)
  <2>1. Empty \in Array
    BY MaxSizeAssumption DEF Empty, Array
  <2> QED BY <1>2, <1>4, <2>1, SameBlocks DEF DYNARRAY_INIT
<1>5. CASE DYNARRAY_POP(a)
  <2> DEFINE value == [arrays[a] EXCEPT !.size = @ - 1]
  <2>1. /\ arrays' = [arrays EXCEPT ![a] = value] /\ UNCHANGED allocVars
        /\ arrays[a].size > 0
    BY <1>5 DEF DYNARRAY_POP
  <2>2. arrays[a].size - 1 \in 0 .. MaxSize
    BY <1>3, <2>1, MaxSizeAssumption
  <2>3. /\ value.size = arrays[a].size - 1 /\ value.ptr = arrays[a].ptr
        /\ value.capacity = arrays[a].capacity
    BY <1>2 DEF Array
  <2>4. value \in Array
    BY <1>2, <2>2 DEF Array
  <2>5. /\ value.ptr = NULL => value.size = 0
        /\ value.ptr # NULL => value.size < value.capacity
    BY <1>2, <1>3, <2>1, <2>3 DEF ArrayBlock
  <2> HIDE DEF value
  <2> QED BY <1>2, <2>1, <2>3, <2>4, <2>5, SameBlocks
<1>6. CASE DYNARRAY_ADD(a)
  <2> DEFINE size == arrays[a].size + 1
             capacity == arrays[a].capacity
  <2>1. /\ size <= MaxSize
        /\ IF size >= capacity
             THEN \/ Reallocated(a, size, Grown(capacity, capacity))
                  \/ NoMemory
           ELSE IF arrays[a].ptr = NULL
             THEN WriteNull /\ UNCHANGED arrays
             ELSE arrays' = [arrays EXCEPT ![a].size = size] /\ UNCHANGED allocVars
    BY <1>6 DEF DYNARRAY_ADD
  <2>2. size \in 0 .. MaxSize
    BY <1>3, <2>1, MaxSizeAssumption
  <2>3. CASE size >= capacity /\ NoMemory
    BY <1>2, <2>3, NoMemoryStep DEF Next
  <2>4. CASE size >= capacity /\ Reallocated(a, size, Grown(capacity, capacity))
    <3>1. /\ capacity \in Sizes \cup {0} /\ capacity \in 0 .. MaxSize
          /\ ~(capacity < capacity)
      BY <1>3, <2>1, <2>4, MaxSizeAssumption
    <3>2. /\ Grown(capacity, capacity) \in Sizes
          /\ capacity < Grown(capacity, capacity)
          /\ 1 < Grown(capacity, capacity)
      BY <3>1, GrownIsLarger
    <3>3. size = capacity \/ size = 1
      BY <1>2, <1>3, <2>4 DEF ArrayBlock
    <3>4. size < Grown(capacity, capacity)
      BY <3>2, <3>3
    <3> QED BY <1>2, <2>2, <2>4, <3>2, <3>4, ReallocatedStep DEF Next
  <2>5. CASE ~(size >= capacity) /\ arrays[a].ptr # NULL
    <3> DEFINE value == [arrays[a] EXCEPT !.size = size]
    <3>1. arrays' = [arrays EXCEPT ![a] = value] /\ UNCHANGED allocVars
      BY <2>1, <2>5
    <3>2. /\ value.size = size /\ value.ptr = arrays[a].ptr
          /\ value.capacity = capacity /\ value \in Array
      BY <1>2, <2>2 DEF Array
    <3>3. size < capacity /\ value.ptr # NULL
      BY <1>2, <1>3, <2>5, <3>2 DEF ArrayBlock
    <3> HIDE DEF value
    <3> QED BY <1>2, <3>1, <3>2, <3>3, SameBlocks
  (* The array lost its block: the program writes through the NULL.        *)
  <2>6. CASE ~(size >= capacity) /\ arrays[a].ptr = NULL
    <3>1. WriteNull /\ arrays' = arrays /\ phase' = "aborted"
      BY <2>1, <2>6 DEF WriteNull, Abort
    <3>2. AllocInv'
      BY <1>2, <3>1, UnchangedAlloc DEF WriteNull, Abort, DynInv
    <3> QED BY <1>2, <3>1, <3>2 DEF DynInv, ArraysInv, Next
  <2> QED BY <2>1, <2>3, <2>4, <2>5, <2>6
<1>7. CASE \E size \in 0 .. MaxSize : DYNARRAY_RESIZE(a, size)
  <2>1. PICK size \in 0 .. MaxSize :
          Reallocated(a, size, Grown(arrays[a].capacity, size)) \/ NoMemory
    BY <1>7 DEF DYNARRAY_RESIZE
  <2>2. CASE NoMemory
    BY <1>2, <2>2, NoMemoryStep DEF Next
  <2>3. CASE Reallocated(a, size, Grown(arrays[a].capacity, size))
    BY <1>2, <1>3, <2>3, GrownIsLarger, ReallocatedStep DEF Next
  <2> QED BY <2>1, <2>2, <2>3
<1> QED BY <1>1, <1>4, <1>5, <1>6, <1>7

(* Every step preserves the invariant and is one of the allocator.         *)
LEMMA DynStep ==
  ASSUME DynInv, [DynNext]_dynVars
  PROVE  DynInv' /\ [Next]_allocVars
<1>1. CASE ArrayStep
  BY <1>1, ArrayStepInv
<1>2. CASE Cleanup \/ UNCHANGED dynVars
  <2>1. arrays' = arrays /\ [Next]_allocVars
    BY <1>2 DEF Cleanup, dynVars, allocVars, Next
  <2>2. AllocInv'
    BY <2>1, NextAlloc DEF DynInv
  <2>3. phase' = "running" => heap' = heap /\ phase = "running" /\ Held' = Held
    BY <1>2 DEF Cleanup, cleanup_memory, FreeChunk, CleanupEnds, Stopped, allocVars, dynVars, Held
  <2>4. ASSUME phase' = "running"
        PROVE  \A a \in Arrays : ArrayBlock(a)'
    BY <2>1, <2>3, <2>4 DEF DynInv, ArraysInv, ArrayBlock
  <2>5. ArraysInv'
    BY <2>1, <2>3, <2>4 DEF DynInv, ArraysInv
  <2> QED BY <2>1, <2>2, <2>5 DEF DynInv
<1> QED BY <1>1, <1>2 DEF DynNext

(* The program starts without a block, and without an element.             *)
LEMMA DynInitInv ==
  ASSUME DynInit
  PROVE  DynInv /\ Init
<1>1. AllocInv /\ Init /\ arrays = [a \in Arrays |-> Empty]
  BY InitAlloc DEF DynInit
<1>2. Empty \in Array /\ Empty.ptr = NULL /\ Empty.size = 0 /\ Empty.capacity = 0
  BY MaxSizeAssumption DEF Empty, Array
<1> HIDE DEF Empty
<1>3. arrays \in [Arrays -> Array] /\ \A a \in Arrays : arrays[a] = Empty
  BY <1>1, <1>2
<1> QED BY <1>1, <1>2, <1>3 DEF DynInv, ArraysInv, ArrayBlock

(* Every array has a block of its own, of its capacity, with room for one  *)
(* element more than it has, however it was resized, popped and            *)
(* initialised again.                                                      *)
THEOREM DynInvariance ==
  DynSpec => []DynInv
BY DynInitInv, DynStep, PTL DEF DynSpec

(* The macros never leave an element outside the block of its array, nor   *)
(* two arrays with one block.                                              *)
THEOREM ElementsInside ==
  DynSpec => []ElementsInBlock
<1>1. ASSUME DynInv, phase = "running", NEW a \in Arrays
      PROVE  /\ arrays[a].size > 0 =>
                  arrays[a].ptr \in DOMAIN heap /\ arrays[a].size <= heap[arrays[a].ptr]
             /\ \A b \in Arrays :
                  arrays[a].ptr # NULL /\ arrays[a].ptr = arrays[b].ptr => a = b
  <2>1. /\ ArrayBlock(a) /\ arrays[a] \in Array
        /\ \A b \in Arrays :
             arrays[a].ptr # NULL /\ arrays[a].ptr = arrays[b].ptr => a = b
    BY <1>1 DEF DynInv, ArraysInv
  <2>2. arrays[a].size \in Nat /\ arrays[a].capacity \in Nat
    BY <2>1, ArrayNumbers
  <2> QED BY <2>1, <2>2 DEF ArrayBlock, Held
<1>2. DynInv => ElementsInBlock
  BY <1>1 DEF ElementsInBlock
<1> QED BY <1>2, DynInvariance, PTL

(* The macros use the allocator the way Alloc says a program does: they    *)
(* only reallocate a block that is registered and in use, so the theorems  *)
(* of Alloc hold of a program whose blocks are its arrays.                 *)
THEOREM ArraysImplementAlloc ==
  DynSpec => AllocSpec
<1>1. DynInv /\ [DynNext]_dynVars => [Next]_allocVars
  BY DynStep
<1>2. DynInit => Init
  BY DynInitInv
<1> QED BY <1>1, <1>2, DynInvariance, PTL DEF DynSpec, AllocSpec, Spec
=============================================================================
