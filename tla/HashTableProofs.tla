-------------------------- MODULE HashTableProofs ---------------------------
(***************************************************************************)
(* TLAPS proofs about HashTable: its invariant, and that it implements     *)
(* Map, for every set of keys and values, every number of buckets and      *)
(* every hash function.                                                    *)
(***************************************************************************)
EXTENDS HashTable, FiniteSetTheorems, TLAPS

(* A chain is a sequence of nodes.                                         *)
LEMMA ChainType ==
  ASSUME TableTypeOK, NEW k \in Keys
  PROVE  /\ Bucket[k] \in 0 .. BucketCount - 1
         /\ Chain(k) \in Seq(Node)
         /\ Places(k) \subseteq 1 .. Len(Chain(k))
<1>1. Bucket[k] \in 0 .. BucketCount - 1 /\ Chain(k) \in Seq(Node)
  BY BucketAssumption DEF TableTypeOK, Chain
<1>2. DOMAIN Chain(k) = 1 .. Len(Chain(k))
  BY <1>1
<1> QED BY <1>1, <1>2 DEF Places

(* The least of a single number.                                           *)
LEMMA OnlyChoice ==
  ASSUME NEW S, NEW i \in S, S \subseteq Int, \A j \in S : j = i
  PROVE  (CHOOSE m \in S : \A j \in S : m <= j) = i
<1>1. \A j \in S : i <= j
  OBVIOUS
<1> QED BY <1>1

(* A look-up returns the value of the only node with the key.              *)
LEMMA GetIsValue ==
  ASSUME TableTypeOK, NoDuplicates, NEW k \in Keys, NEW i \in Places(k)
  PROVE  First(k) = i /\ hash_table_get(k) = Chain(k)[i].value
<1>1. Places(k) \subseteq Int /\ \A j \in Places(k) : j = i
  BY ChainType DEF NoDuplicates
<1>2. First(k) = i
  BY <1>1, OnlyChoice DEF First
<1> QED BY <1>2 DEF hash_table_get

(* The same after a step.                                                  *)
LEMMA GetIsValueNext ==
  ASSUME TableTypeOK', NoDuplicates', NEW k \in Keys, NEW i \in Places(k)'
  PROVE  hash_table_get(k)' = Chain(k)'[i].value
<1>1. Places(k)' \subseteq Int
  <2>1. Bucket[k] \in 0 .. BucketCount - 1 /\ Chain(k)' \in Seq(Node)
    BY BucketAssumption DEF TableTypeOK, Chain
  <2>2. DOMAIN Chain(k)' = 1 .. Len(Chain(k)')
    BY <2>1
  <2> QED BY <2>2 DEF Places
<1>2. \A j \in Places(k)' : j = i
  BY DEF NoDuplicates
<1>3. First(k)' = i
  BY <1>1, <1>2, OnlyChoice DEF First
<1> QED BY <1>3 DEF hash_table_get

----------------------------------------------------------------------------
(* Insert puts one node at the end of one chain: every other key keeps its *)
(* places and its nodes.                                                   *)
LEMMA InsertPlaces ==
  ASSUME TableTypeOK, NEW k \in Keys, NEW v \in Values, InsertKey(k, v)
  PROVE  /\ TableTypeOK'
         /\ Places(k)' = {Len(Chain(k)) + 1}
         /\ Chain(k)'[Len(Chain(k)) + 1] = [key |-> k, value |-> v]
         /\ \A x \in Keys \ {k} :
              /\ Places(x)' = Places(x)
              /\ \A i \in Places(x) : Chain(x)'[i] = Chain(x)[i]
<1> DEFINE node == [key |-> k, value |-> v]
<1>1. /\ buckets' = [buckets EXCEPT ![Bucket[k]] = Append(@, node)]
      /\ bucket_count' = bucket_count
      /\ count' = count + 1
      /\ Places(k) = {}
  BY DEF InsertKey, hash_table_insert, Has
<1>2. node \in Node
  BY DEF Node
<1>3. TableTypeOK'
  <2>1. Append(buckets[Bucket[k]], node) \in Seq(Node)
    BY <1>2, ChainType DEF Chain
  <2> QED BY <1>1, <2>1, ChainType DEF TableTypeOK
<1>4. ASSUME NEW x \in Keys
      PROVE  Chain(x)' = IF Bucket[x] = Bucket[k] THEN Append(Chain(x), node) ELSE Chain(x)
  BY <1>1, ChainType DEF Chain, TableTypeOK
<1>5. ASSUME NEW x \in Keys
      PROVE  \A i \in DOMAIN Chain(x) : i \in DOMAIN Chain(x)' /\ Chain(x)'[i] = Chain(x)[i]
  <2>1. Chain(x) \in Seq(Node)
    BY ChainType
  <2>2. \A i \in DOMAIN Chain(x) :
           /\ i \in DOMAIN Append(Chain(x), node)
           /\ Append(Chain(x), node)[i] = Chain(x)[i]
    BY <1>2, <2>1
  <2> QED BY <1>4, <2>2
<1>6. ASSUME NEW x \in Keys \ {k}
      PROVE  Places(x)' = Places(x) /\ \A i \in Places(x) : Chain(x)'[i] = Chain(x)[i]
  <2>1. Chain(x) \in Seq(Node)
    BY ChainType
  <2>2. \A i \in DOMAIN Append(Chain(x), node) \ DOMAIN Chain(x) :
           Append(Chain(x), node)[i] = node
    BY <1>2, <2>1
  <2>3. \A i \in DOMAIN Chain(x)' \ DOMAIN Chain(x) : Chain(x)'[i].key = k
    BY <1>4, <2>2
  <2> QED BY <1>5, <2>3 DEF Places
<1>7. /\ Places(k)' = {Len(Chain(k)) + 1}
      /\ Chain(k)'[Len(Chain(k)) + 1] = node
  <2>1. Chain(k) \in Seq(Node) /\ Chain(k)' = Append(Chain(k), node)
    BY <1>4, ChainType
  <2>2. /\ DOMAIN Chain(k) = 1 .. Len(Chain(k))
        /\ DOMAIN Chain(k)' = 1 .. Len(Chain(k)) + 1
        /\ Chain(k)'[Len(Chain(k)) + 1] = node
    BY <1>2, <2>1
  <2>3. \A i \in DOMAIN Chain(k)' : i # Len(Chain(k)) + 1 => Chain(k)'[i].key # k
    <3>1. \A i \in DOMAIN Chain(k)' : i # Len(Chain(k)) + 1 => i \in DOMAIN Chain(k)
      BY <2>1, <2>2
    <3> QED BY <1>1, <1>5, <3>1 DEF Places
  <2>4. Len(Chain(k)) + 1 \in DOMAIN Chain(k)'
    BY <2>1, <2>2
  <2> QED BY <2>2, <2>3, <2>4 DEF Places
<1> QED BY <1>3, <1>6, <1>7

(* Remove takes the only node of a key out of its chain: every other key   *)
(* has its node as before, if perhaps one place nearer.                    *)
LEMMA RemovePlaces ==
  ASSUME TableTypeOK, NoDuplicates, count \in Nat \ {0}, NEW k \in Keys, RemoveKey(k)
  PROVE  /\ TableTypeOK'
         /\ Places(k)' = {}
         /\ \A x \in Keys \ {k} :
              /\ \A j \in Places(x)' : \E i \in Places(x) : Chain(x)'[j] = Chain(x)[i]
              /\ \A i, j \in Places(x)' : i = j
              /\ Places(x) # {} => Places(x)' # {}
<1>1. /\ buckets' = [buckets EXCEPT ![Bucket[k]] = Without(@, First(k))]
      /\ bucket_count' = bucket_count
      /\ count' = count - 1
      /\ Places(k) # {}
  BY DEF RemoveKey, hash_table_remove, Has
<1>2. PICK p \in Places(k) : TRUE
  BY <1>1
<1>3. First(k) = p /\ \A i \in Places(k) : i = p
  BY <1>2, GetIsValue DEF NoDuplicates
<1> DEFINE c == Chain(k)
           n == Len(c)
<1>4. c \in Seq(Node) /\ n \in Nat /\ p \in 1 .. n /\ DOMAIN c = 1 .. n
  <2>1. c \in Seq(Node) /\ p \in 1 .. n
    BY <1>2, ChainType
  <2> QED BY <2>1
<1>5. /\ Without(c, p) \in Seq(Node)
      /\ DOMAIN Without(c, p) = 1 .. n - 1
      /\ \A j \in 1 .. n - 1 : Without(c, p)[j] = IF j < p THEN c[j] ELSE c[j + 1]
  <2>1. \A j \in 1 .. n - 1 : (IF j < p THEN c[j] ELSE c[j + 1]) \in Node
    BY <1>4
  <2>2. Without(c, p) = [j \in 1 .. n - 1 |-> IF j < p THEN c[j] ELSE c[j + 1]]
    BY DEF Without
  <2> HIDE DEF c, n
  <2>3. Without(c, p) \in [1 .. n - 1 -> Node]
    BY <2>1, <2>2
  <2>4. n - 1 \in Nat
    BY <1>4
  <2>5. Without(c, p) \in Seq(Node)
    BY <2>3, <2>4
  <2> QED BY <2>2, <2>5
<1>6. TableTypeOK'
  BY <1>1, <1>3, <1>5, ChainType DEF TableTypeOK, Chain
<1>7. ASSUME NEW x \in Keys
      PROVE  Chain(x)' = IF Bucket[x] = Bucket[k] THEN Without(c, p) ELSE Chain(x)
  BY <1>1, <1>3, ChainType DEF Chain, TableTypeOK
<1>8. Places(k)' = {}
  <2>1. Chain(k)' = Without(c, p)
    BY <1>7
  <2>2. ASSUME NEW j \in 1 .. n - 1
        PROVE  Without(c, p)[j].key # k
    <3>1. /\ j < p => j \in DOMAIN c /\ j # p
          /\ ~(j < p) => j + 1 \in DOMAIN c /\ j + 1 # p
      BY <1>4
    <3> QED BY <1>3, <1>5, <3>1 DEF Places
  <2> QED BY <1>5, <2>1, <2>2 DEF Places
<1>9. ASSUME NEW x \in Keys \ {k}, Bucket[x] = Bucket[k]
      PROVE  /\ \A j \in Places(x)' : \E i \in Places(x) : Chain(x)'[j] = Chain(x)[i]
             /\ \A i, j \in Places(x)' : i = j
             /\ Places(x) # {} => Places(x)' # {}
  <2> DEFINE old(j) == IF j < p THEN j ELSE j + 1
  <2>1. Chain(x) = c /\ Chain(x)' = Without(c, p)
    BY <1>7, <1>9 DEF Chain
  <2>2. p \notin Places(x)
    BY <1>2, <2>1 DEF Places
  <2>3. \A j \in 1 .. n - 1 : old(j) \in 1 .. n /\ Without(c, p)[j] = c[old(j)]
    BY <1>4, <1>5
  <2>4. \A j \in Places(x)' : j \in 1 .. n - 1 /\ old(j) \in Places(x)
    BY <1>4, <1>5, <2>1, <2>3 DEF Places
  <2>5. \A j \in Places(x)' : Chain(x)'[j] = Chain(x)[old(j)]
    BY <2>1, <2>3, <2>4
  <2>6. \A i, j \in Places(x)' : i = j
    <3>1. \A i, j \in 1 .. n - 1 : old(i) = old(j) => i = j
      BY <1>4
    <3>2. \A i, j \in Places(x)' : old(i) = old(j)
      BY <2>4 DEF NoDuplicates
    <3> QED BY <2>4, <3>1, <3>2
  <2>7. ASSUME NEW i \in Places(x)
        PROVE  \E j \in 1 .. n - 1 : old(j) = i
    <3>1. i \in 1 .. n /\ i # p
      BY <1>4, <2>1, <2>2 DEF Places
    <3>2. CASE i < p
      <4>1. i \in 1 .. n - 1 /\ old(i) = i
        BY <1>4, <3>1, <3>2
      <4> QED BY <4>1
    <3>3. CASE ~(i < p)
      <4>1. i - 1 \in 1 .. n - 1 /\ old(i - 1) = i
        BY <1>4, <3>1, <3>3
      <4> QED BY <4>1
    <3> QED BY <3>2, <3>3
  <2>8. ASSUME NEW i \in Places(x)
        PROVE  Places(x)' # {}
    <3>1. PICK j \in 1 .. n - 1 : old(j) = i
      BY <2>7
    <3>2. Chain(x)'[j].key = x /\ j \in DOMAIN Chain(x)'
      BY <1>5, <2>1, <2>3, <3>1 DEF Places
    <3> QED BY <3>2 DEF Places
  <2> QED BY <2>4, <2>5, <2>6, <2>8
<1>10. ASSUME NEW x \in Keys \ {k}, Bucket[x] # Bucket[k]
      PROVE  Chain(x)' = Chain(x) /\ Places(x)' = Places(x)
  BY <1>7, <1>10 DEF Places
<1> QED BY <1>6, <1>8, <1>9, <1>10 DEF NoDuplicates

----------------------------------------------------------------------------
(* Present is a finite set, of count keys: a key enters or leaves it with  *)
(* each insertion or removal.                                              *)
LEMMA InsertPresent ==
  ASSUME TableInv, NEW k \in Keys, NEW v \in Values, InsertKey(k, v)
  PROVE  /\ Present' = Present \cup {k} /\ k \notin Present
         /\ hash_table_get(k)' = v
         /\ \A x \in Present : hash_table_get(x)' = hash_table_get(x)
         /\ TableInv'
<1>1. TableTypeOK /\ InItsBucket /\ NoDuplicates /\ CountIsSize
  BY DEF TableInv
<1>2. /\ TableTypeOK'
      /\ Places(k)' = {Len(Chain(k)) + 1}
      /\ Chain(k)'[Len(Chain(k)) + 1] = [key |-> k, value |-> v]
      /\ \A x \in Keys \ {k} :
           /\ Places(x)' = Places(x)
           /\ \A i \in Places(x) : Chain(x)'[i] = Chain(x)[i]
  BY <1>1, InsertPlaces
<1>3. Places(k) = {}
  BY DEF InsertKey, Has
<1>4. Present' = Present \cup {k} /\ k \notin Present
  BY <1>2, <1>3 DEF Present, Has
<1>5. NoDuplicates'
  BY <1>1, <1>2 DEF NoDuplicates
<1>6. hash_table_get(k)' = v
  BY <1>2, <1>5, GetIsValueNext
<1>7. ASSUME NEW x \in Present
      PROVE  hash_table_get(x)' = hash_table_get(x)
  <2>1. x \in Keys \ {k} /\ Places(x) # {}
    BY <1>4 DEF Present, Has
  <2>2. PICK i \in Places(x) : i \in Places(x)' /\ Chain(x)'[i] = Chain(x)[i]
    BY <1>2, <2>1
  <2> QED BY <1>1, <1>2, <1>5, <2>1, <2>2, GetIsValue, GetIsValueNext
<1>8. InItsBucket'
  <2>1. buckets' = [buckets EXCEPT ![Bucket[k]] = Append(@, [key |-> k, value |-> v])]
    BY DEF InsertKey, hash_table_insert
  <2>2. ASSUME NEW b \in DOMAIN buckets', NEW i \in DOMAIN buckets'[b]
        PROVE  Bucket[buckets'[b][i].key] = b
    <3>1. b \in DOMAIN buckets /\ buckets[b] \in Seq(Node)
      BY <1>1, <1>2 DEF TableTypeOK
    <3>2. CASE b # Bucket[k]
      BY <1>1, <2>1, <3>1, <3>2 DEF InItsBucket
    <3>3. CASE b = Bucket[k]
      <4>1. buckets'[b] = Append(buckets[b], [key |-> k, value |-> v])
        BY <2>1, <3>1, <3>3
      <4>2. \/ i \in DOMAIN buckets[b] /\ buckets'[b][i] = buckets[b][i]
            \/ buckets'[b][i] = [key |-> k, value |-> v]
        BY <3>1, <4>1
      <4> QED BY <1>1, <3>1, <3>3, <4>2 DEF InItsBucket
    <3> QED BY <3>2, <3>3
  <2> QED BY <2>2 DEF InItsBucket
<1>9. CountIsSize'
  BY <1>1, <1>4, FS_AddElement DEF InsertKey, hash_table_insert, CountIsSize
<1> QED BY <1>2, <1>4, <1>5, <1>6, <1>7, <1>8, <1>9 DEF TableInv

LEMMA RemovePresent ==
  ASSUME TableInv, NEW k \in Keys, RemoveKey(k)
  PROVE  /\ Present' = Present \ {k} /\ k \in Present
         /\ \A x \in Present' : hash_table_get(x)' = hash_table_get(x)
         /\ TableInv'
<1>1. TableTypeOK /\ InItsBucket /\ NoDuplicates /\ CountIsSize
  BY DEF TableInv
<1>2. k \in Present
  BY DEF RemoveKey, Present
<1>3. IsFiniteSet(Present) /\ count = Cardinality(Present) /\ count \in Nat \ {0}
  <2>1. Cardinality(Present \ {k}) = Cardinality(Present) - 1
        /\ Cardinality(Present \ {k}) \in Nat
    BY <1>1, <1>2, FS_RemoveElement, FS_CardinalityType DEF CountIsSize
  <2> QED BY <1>1, <2>1 DEF CountIsSize, TableTypeOK
<1>4. /\ TableTypeOK'
      /\ Places(k)' = {}
      /\ \A x \in Keys \ {k} :
           /\ \A j \in Places(x)' : \E i \in Places(x) : Chain(x)'[j] = Chain(x)[i]
           /\ \A i, j \in Places(x)' : i = j
           /\ Places(x) # {} => Places(x)' # {}
  BY <1>1, <1>3, RemovePlaces
<1>5. NoDuplicates'
  BY <1>4 DEF NoDuplicates
<1>6. Present' = Present \ {k}
  BY <1>4 DEF Present, Has
<1>7. ASSUME NEW x \in Present'
      PROVE  hash_table_get(x)' = hash_table_get(x)
  <2>1. x \in Keys \ {k} /\ Places(x)' # {}
    BY <1>4 DEF Present, Has
  <2>2. PICK j \in Places(x)', i \in Places(x) : Chain(x)'[j] = Chain(x)[i]
    BY <1>4, <2>1
  <2> QED BY <1>1, <1>4, <1>5, <2>1, <2>2, GetIsValue, GetIsValueNext
<1>8. InItsBucket'
  <2>1. /\ buckets' = [buckets EXCEPT ![Bucket[k]] = Without(@, First(k))]
        /\ Bucket[k] \in DOMAIN buckets
    BY <1>1, <1>2, ChainType DEF RemoveKey, hash_table_remove, TableTypeOK
  <2>2. ASSUME NEW b \in DOMAIN buckets', NEW i \in DOMAIN buckets'[b]
        PROVE  Bucket[buckets'[b][i].key] = b
    <3>1. b \in DOMAIN buckets /\ buckets[b] \in Seq(Node)
      BY <1>1, <1>4 DEF TableTypeOK
    <3>2. CASE b # Bucket[k]
      BY <1>1, <2>1, <3>1, <3>2 DEF InItsBucket
    <3>3. CASE b = Bucket[k]
      <4>1. buckets'[b] = Without(buckets[b], First(k))
        BY <2>1, <3>1, <3>3
      <4>2. i \in 1 .. Len(buckets[b]) - 1
            /\ \E j \in {i, i + 1} : buckets'[b][i] = buckets[b][j]
        BY <4>1 DEF Without
      <4>3. \E j \in DOMAIN buckets[b] : buckets'[b][i] = buckets[b][j]
        BY <3>1, <4>2
      <4> QED BY <1>1, <3>1, <4>3 DEF InItsBucket
    <3> QED BY <3>2, <3>3
  <2> QED BY <2>2 DEF InItsBucket
<1>9. CountIsSize'
  <2>1. count' = count - 1
    BY DEF RemoveKey, hash_table_remove
  <2> QED BY <1>2, <1>3, <1>6, <2>1, FS_RemoveElement DEF CountIsSize
<1> QED BY <1>2, <1>4, <1>5, <1>6, <1>7, <1>8, <1>9 DEF TableInv

----------------------------------------------------------------------------
(* An empty table.                                                         *)
LEMMA EmptyTable ==
  ASSUME buckets = [b \in 0 .. BucketCount - 1 |-> <<>>],
         bucket_count \in {0, BucketCount}, count = 0
  PROVE  TableInv /\ Present = {}
<1>1. \A k \in Keys : Chain(k) = <<>> /\ Places(k) = {}
  BY BucketAssumption DEF Chain, Places
<1>2. Present = {}
  BY <1>1 DEF Present, Has
<1>3. TableTypeOK /\ InItsBucket /\ NoDuplicates
  BY <1>1 DEF TableTypeOK, InItsBucket, NoDuplicates
<1> QED BY <1>2, <1>3, FS_EmptySet DEF TableInv, CountIsSize

LEMMA ClearedTable ==
  ASSUME Clear
  PROVE  TableInv' /\ Present' = {}
<1>1. /\ buckets' = [b \in 0 .. BucketCount - 1 |-> <<>>]
      /\ bucket_count' = 0 /\ count' = 0
  BY DEF Clear, hash_table_clear
<1>2. \A k \in Keys : Chain(k)' = <<>> /\ Places(k)' = {}
  BY <1>1, BucketAssumption DEF Chain, Places
<1>3. Present' = {}
  BY <1>2 DEF Present, Has
<1>4. TableTypeOK' /\ InItsBucket' /\ NoDuplicates'
  BY <1>1, <1>2 DEF TableTypeOK, InItsBucket, NoDuplicates
<1> QED BY <1>1, <1>3, <1>4, FS_EmptySet DEF TableInv, CountIsSize

(* The invariant: a look-up finds every key that was inserted, in one      *)
(* place, and count is their number (hash_table.c:19).                     *)
THEOREM TableInvariant == TableSpec => []TableInv
<1>1. mk_hash_table => TableInv
  BY EmptyTable DEF mk_hash_table
<1>2. TableInv /\ [TableNext]_tableVars => TableInv'
  <2> SUFFICES ASSUME TableInv, [TableNext]_tableVars
               PROVE  TableInv'
    OBVIOUS
  <2>1. ASSUME NEW k \in Keys, NEW v \in Values, InsertKey(k, v)
        PROVE  TableInv'
    BY <2>1, InsertPresent
  <2>2. ASSUME NEW k \in Keys, RemoveKey(k)
        PROVE  TableInv'
    BY <2>2, RemovePresent
  <2>3. CASE Clear
    <3>1. TableInv' /\ Present' = {}
      BY <2>3, ClearedTable
    <3> QED BY <3>1
  <2>4. CASE UNCHANGED tableVars
    BY <2>4 DEF tableVars, TableInv, TableTypeOK, InItsBucket, NoDuplicates, CountIsSize,
                Present, Has, Places, Chain
  <2> QED BY <2>1, <2>2, <2>3, <2>4 DEF TableNext
<1> QED BY <1>1, <1>2, PTL DEF TableSpec

(* The table implements the abstract map, hash_table_get being the         *)
(* refinement mapping.                                                     *)
THEOREM TableImplementsMap == TableSpec => MapSpec
<1> DEFINE map == [k \in Present |-> hash_table_get(k)]
<1>1. mk_hash_table => M!Init
  <2> SUFFICES ASSUME mk_hash_table PROVE M!Init
    OBVIOUS
  <2>1. Present = {}
    BY EmptyTable DEF mk_hash_table
  <2>2. map = [k \in {} |-> k]
    BY <2>1
  <2> QED BY <2>2 DEF M!Init
<1>2. TableInv /\ [TableNext]_tableVars => [M!Next]_map
  <2> SUFFICES ASSUME TableInv, [TableNext]_tableVars
               PROVE  M!Next \/ map' = map
    OBVIOUS
  <2>1. ASSUME NEW k \in Keys, NEW v \in Values, InsertKey(k, v)
        PROVE  M!Next
    <3>1. /\ Present' = Present \cup {k} /\ k \notin Present
          /\ hash_table_get(k)' = v
          /\ \A x \in Present : hash_table_get(x)' = hash_table_get(x)
      BY <2>1, InsertPresent
    <3>2. M!Insert
      BY <3>1 DEF M!Insert
    <3> QED BY <3>2 DEF M!Next
  <2>2. ASSUME NEW k \in Keys, RemoveKey(k)
        PROVE  M!Next
    <3>1. /\ Present' = Present \ {k} /\ k \in Present
          /\ \A x \in Present' : hash_table_get(x)' = hash_table_get(x)
      BY <2>2, RemovePresent
    <3>2. M!Remove
      BY <3>1 DEF M!Remove
    <3> QED BY <3>2 DEF M!Next
  <2>3. CASE Clear
    <3>1. Present' = {}
      BY <2>3, ClearedTable
    <3>2. CASE Present = {}
      BY <3>1, <3>2
    <3>3. CASE Present # {}
      BY <3>1, <3>3 DEF M!Next, M!Clear
    <3> QED BY <3>2, <3>3
  <2>4. CASE UNCHANGED tableVars
    <3>1. /\ Present' = Present
          /\ \A k \in Keys : hash_table_get(k)' = hash_table_get(k)
      BY <2>4 DEF tableVars, Present, Has, Places, First, Chain, hash_table_get
    <3> QED BY <3>1 DEF Present
  <2> QED BY <2>1, <2>2, <2>3, <2>4 DEF TableNext
<1> QED BY <1>1, <1>2, TableInvariant, PTL DEF TableSpec, MapSpec, M!Spec
=============================================================================
