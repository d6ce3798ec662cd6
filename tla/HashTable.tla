----------------------------- MODULE HashTable ------------------------------
(***************************************************************************)
(* The hash table (hash_table.c): an array of buckets, each a chain of     *)
(* nodes.  A node is put at the end of its chain, and a look-up stops at   *)
(* the first node with the key.                                            *)
(*                                                                         *)
(* The clients (macros, strings, builtins, label targets) insert a key     *)
(* only when the table does not have it.  Nobody calls hash_table_remove   *)
(* or hash_table_clear.                                                    *)
(***************************************************************************)
EXTENDS Integers, Sequences, FiniteSets

CONSTANTS
  Keys, Values,
  BucketCount,  (* The argument of mk_hash_table.                          *)
  Bucket        (* str_hash(key) % bucket_count, of each key.              *)

ASSUME CountAssumption  == BucketCount \in Nat \ {0}
ASSUME BucketAssumption == Bucket \in [Keys -> 0 .. BucketCount - 1]

VARIABLES
  buckets,
  bucket_count,  (* 0 once the table is cleared.                           *)
  count

tableVars == <<buckets, bucket_count, count>>

Node == [key : Keys, value : Values]

mk_hash_table ==
  /\ buckets = [b \in 0 .. BucketCount - 1 |-> <<>>]
  /\ bucket_count = BucketCount
  /\ count = 0

----------------------------------------------------------------------------
Chain(k) == buckets[Bucket[k]]

(* The places of a key in its chain.                                       *)
Places(k) == {i \in DOMAIN Chain(k) : Chain(k)[i].key = k}
First(k)  == CHOOSE i \in Places(k) : \A j \in Places(k) : i <= j

Has(k) == Places(k) # {}

(* Mutant: the last node of the chain is returned.                         *)
GetLast(k) == Chain(k)[Len(Chain(k))].value

(* The value a key that the table has is mapped to.                        *)
hash_table_get(k) == Chain(k)[First(k)].value

(* Mutant: a chain keeps one node.                                         *)
InsertReplaces(k, v) ==
  /\ buckets' = [buckets EXCEPT ![Bucket[k]] = <<[key |-> k, value |-> v]>>]
  /\ count' = count + 1
  /\ UNCHANGED bucket_count

hash_table_insert(k, v) ==
  /\ buckets' = [buckets EXCEPT ![Bucket[k]] = Append(@, [key |-> k, value |-> v])]
  /\ count' = count + 1
  /\ UNCHANGED bucket_count

Without(s, i) == [j \in 1 .. Len(s) - 1 |-> IF j < i THEN s[j] ELSE s[j + 1]]

hash_table_remove(k) ==
  /\ buckets' = IF Has(k) THEN [buckets EXCEPT ![Bucket[k]] = Without(@, First(k))]
                          ELSE buckets
  /\ count' = count - 1
  /\ UNCHANGED bucket_count

hash_table_clear ==
  /\ buckets' = [b \in 0 .. BucketCount - 1 |-> <<>>]
  /\ bucket_count' = 0
  /\ count' = 0

----------------------------------------------------------------------------
(* How clients use a table: a key that is inserted is new, one that is     *)
(* removed is there, and after hash_table_clear there is no bucket left    *)
(* to look into.                                                           *)

InsertKey(k, v) == bucket_count > 0 /\ ~Has(k) /\ hash_table_insert(k, v)
RemoveKey(k)    == bucket_count > 0 /\ Has(k) /\ hash_table_remove(k)
Clear        == bucket_count > 0 /\ hash_table_clear

TableNext ==
  \/ \E k \in Keys, v \in Values : InsertKey(k, v)
  \/ \E k \in Keys : RemoveKey(k)
  \/ Clear

TableSpec == mk_hash_table /\ [][TableNext]_tableVars

----------------------------------------------------------------------------
(* Properties.                                                             *)

Present == {k \in Keys : Has(k)}

TableTypeOK ==
  /\ buckets \in [0 .. BucketCount - 1 -> Seq(Node)]
  /\ bucket_count \in {0, BucketCount}
  /\ count \in Nat

(* A node is in the chain its key hashes to: a look-up in one chain is     *)
(* enough.                                                                 *)
InItsBucket ==
  \A b \in DOMAIN buckets : \A i \in DOMAIN buckets[b] : Bucket[buckets[b][i].key] = b

(* No key is twice in a chain: which node a look-up stops at does not      *)
(* matter.                                                                 *)
NoDuplicates == \A k \in Keys : \A i, j \in Places(k) : i = j

(* count is the number of keys, the next index of the string table         *)
(* (code_generator.c:226).                                                 *)
CountIsSize == IsFiniteSet(Present) /\ count = Cardinality(Present)

TableInv == TableTypeOK /\ InItsBucket /\ NoDuplicates /\ CountIsSize

(* Seen through hash_table_get the table is a map.                         *)
M == INSTANCE Map WITH map <- [k \in Present |-> hash_table_get(k)]
MapSpec == M!Spec
=============================================================================
