---------------------------- MODULE ScriptLemmas ----------------------------
(***************************************************************************)
(* Facts about the variable todo of the walks (CodeGen, Scopes), a call    *)
(* stack whose head is replaced by a script.                               *)
(***************************************************************************)
EXTENDS Integers, Sequences, FiniteSets, FiniteSetTheorems,
        WellFoundedInduction, TLAPS

(* Replacing the head of a sequence by a sequence: where its elements go.  *)
LEMMA UnfoldedSeq ==
  ASSUME NEW S, NEW s \in Seq(S), NEW t \in Seq(S), t # <<>>
  PROVE  /\ s \o Tail(t) \in Seq(S)
         /\ \A i \in DOMAIN s :
              i \in DOMAIN (s \o Tail(t)) /\ (s \o Tail(t))[i] = s[i]
         /\ \A i \in DOMAIN t : i # 1 =>
              /\ Len(s) + i - 1 \in DOMAIN (s \o Tail(t))
              /\ (s \o Tail(t))[Len(s) + i - 1] = t[i]
         /\ \A k \in DOMAIN (s \o Tail(t)) :
              k \in DOMAIN s \/ \E i \in DOMAIN t : i # 1 /\ k = Len(s) + i - 1
<1> DEFINE u == s \o Tail(t)
<1>1. Tail(t) \in Seq(S) /\ Len(Tail(t)) = Len(t) - 1
  OBVIOUS
<1>2. u \in Seq(S) /\ Len(u) = Len(s) + Len(t) - 1
  BY <1>1
<1>3. \A i \in DOMAIN s : i \in DOMAIN u /\ u[i] = s[i]
  BY <1>1, <1>2
<1>4. ASSUME NEW i \in DOMAIN t, i # 1
      PROVE  Len(s) + i - 1 \in DOMAIN u /\ u[Len(s) + i - 1] = t[i]
  <2>1. Tail(t)[i - 1] = t[i]
    BY <1>4
  <2>2. u[Len(s) + (i - 1)] = Tail(t)[i - 1]
    BY <1>1, <1>4
  <2> QED BY <1>2, <1>4, <2>1, <2>2
<1>5. ASSUME NEW k \in DOMAIN u, k \notin DOMAIN s
      PROVE  \E i \in DOMAIN t : i # 1 /\ k = Len(s) + i - 1
  <2>1. /\ k - Len(s) + 1 \in DOMAIN t
        /\ k - Len(s) + 1 # 1
        /\ k = Len(s) + (k - Len(s) + 1) - 1
    BY <1>2, <1>5
  <2> QED BY <2>1
<1> QED BY <1>2, <1>3, <1>4, <1>5

(* Dropping the head of a sequence: where its elements go.                 *)
LEMMA TailSeq ==
  ASSUME NEW S, NEW t \in Seq(S), t # <<>>
  PROVE  /\ Tail(t) \in Seq(S) /\ Head(t) = t[1] /\ 1 \in DOMAIN t
         /\ DOMAIN t \subseteq Nat
         /\ \A i \in DOMAIN t : i # 1 =>
              i - 1 \in DOMAIN Tail(t) /\ Tail(t)[i - 1] = t[i]
         /\ \A k \in DOMAIN Tail(t) :
              k + 1 \in DOMAIN t /\ k + 1 # 1 /\ Tail(t)[k] = t[k + 1]
OBVIOUS

(* An item that is dropped unfolds to an empty script.                     *)
LEMMA EmptyScript ==
  ASSUME NEW S, NEW t \in Seq(S), t # <<>>
  PROVE  \E s \in Seq(S) : Len(s) = 0 /\ Tail(t) = s \o Tail(t)
<1> DEFINE s == [i \in 1 .. 0 |-> i]
<1>1. s \in Seq(S) /\ Len(s) = 0
  OBVIOUS
<1>2. Tail(t) \in Seq(S) /\ s \o Tail(t) \in Seq(S)
  BY <1>1
<1>3. Tail(t) = s \o Tail(t)
  BY <1>1, <1>2
<1> QED BY <1>1, <1>3

(* Scripts that are put together.                                          *)
LEMMA Appended ==
  ASSUME NEW S, NEW s \in Seq(S), NEW t \in Seq(S)
  PROVE  /\ s \o t \in Seq(S) /\ Len(s \o t) = Len(s) + Len(t)
         /\ \A i \in DOMAIN s : (s \o t)[i] = s[i]
         /\ \A k \in DOMAIN (s \o t) :
              k \in DOMAIN s \/ (k - Len(s) \in DOMAIN t /\ (s \o t)[k] = t[k - Len(s)])
<1>1. s \o t \in Seq(S) /\ Len(s \o t) = Len(s) + Len(t)
  OBVIOUS
<1>2. \A i \in DOMAIN s : (s \o t)[i] = s[i]
  OBVIOUS
<1>3. ASSUME NEW k \in DOMAIN (s \o t), k \notin DOMAIN s
      PROVE  k - Len(s) \in DOMAIN t /\ (s \o t)[k] = t[k - Len(s)]
  <2>1. k \in 1 .. Len(s) + Len(t) /\ ~(k \in 1 .. Len(s))
    BY <1>1, <1>3
  <2>2. k - Len(s) \in 1 .. Len(t) /\ k \in Int
    BY <2>1
  <2> QED BY <2>1, <2>2
<1>4. \A k \in DOMAIN (s \o t) :
        k \in DOMAIN s \/ (k - Len(s) \in DOMAIN t /\ (s \o t)[k] = t[k - Len(s)])
  BY ONLY <1>3
<1> QED BY ONLY <1>1, <1>2, <1>4

(* One item before three.                                                  *)
LEMMA OneBeforeThree ==
  ASSUME NEW S, NEW e \in S, NEW a \in S, NEW b \in S, NEW c \in S
  PROVE  LET s == <<e>> \o <<a, b, c>>
         IN  s \in Seq(S) /\ Len(s) = 4 /\ s[1] = e /\ s[2] = a /\ s[3] = b /\ s[4] = c
<1>1. <<e>> \in Seq(S) /\ <<a, b, c>> \in Seq(S)
  OBVIOUS
<1> QED BY <1>1

----------------------------------------------------------------------------
(***************************************************************************)
(* Counting the items of a kind, by the set S of their places.             *)
(***************************************************************************)
After(S, i) == {j \in S : i < j}

Moved(S, d) == {i + d : i \in S}

(* Moving all places keeps their number.                                   *)
LEMMA MovedPlaces ==
  ASSUME NEW S \in SUBSET Nat, IsFiniteSet(S), NEW d \in Int
  PROVE  /\ IsFiniteSet(Moved(S, d)) /\ Cardinality(Moved(S, d)) = Cardinality(S)
         /\ \A x : x \in Moved(S, d) <=> x \in Int /\ x - d \in S
<1> DEFINE f == [i \in S |-> i + d]
<1>1. f \in [S -> Moved(S, d)]
  BY DEF Moved
<1>2. \A i, j \in S : f[i] = f[j] => i = j
  OBVIOUS
<1>3. \A x \in Moved(S, d) : \E i \in S : f[i] = x
  BY DEF Moved
<1>4. f \in Bijection(S, Moved(S, d))
  BY <1>1, <1>2, <1>3 DEF Bijection, Injection, Surjection, IsInjective
<1>5. ASSUME NEW x, x \in Int, x - d \in S
      PROVE  x \in Moved(S, d)
  <2>1. x = (x - d) + d
    BY <1>5
  <2> QED BY <1>5, <2>1 DEF Moved
<1>6. ASSUME NEW x \in Moved(S, d)
      PROVE  x \in Int /\ x - d \in S
  <2>1. PICK i \in S : x = i + d
    BY DEF Moved
  <2>2. x - d = i
    BY <2>1
  <2> QED BY <2>1, <2>2
<1> QED BY <1>4, <1>5, <1>6, FS_Bijection DEF ExistsBijection

(* The first place is there or not.                                        *)
LEMMA FirstPlace ==
  ASSUME NEW S \in SUBSET (Nat \ {0}), IsFiniteSet(S)
  PROVE  /\ IsFiniteSet(After(S, 1)) /\ Cardinality(After(S, 1)) \in Nat
         /\ Cardinality(S) = Cardinality(After(S, 1)) + (IF 1 \in S THEN 1 ELSE 0)
<1>1. After(S, 1) = S \ {1}
  <2>1. \A i \in S : 1 < i <=> i # 1
    OBVIOUS
  <2> QED BY <2>1 DEF After
<1>2. /\ IsFiniteSet(S \ {1})
      /\ Cardinality(S \ {1}) = IF 1 \in S THEN Cardinality(S) - 1 ELSE Cardinality(S)
  BY FS_RemoveElement
<1>3. Cardinality(S) \in Nat /\ Cardinality(S \ {1}) \in Nat
  BY <1>2, FS_CardinalityType
<1>4. CASE 1 \in S
  BY <1>1, <1>2, <1>3, <1>4
<1>5. CASE 1 \notin S
  BY <1>1, <1>2, <1>3, <1>5
<1> QED BY <1>4, <1>5

(* The places behind a script of length n, of which Own may have the last  *)
(* one: the places behind the head move on.                                *)
To(i, n)          == i + (n - 1)
Placed(S, n, Own) == Own \cup Moved(After(S, 1), n - 1)

(* So one place is added, or none, and the order of the others is kept.    *)
LEMMA CountedPlaces ==
  ASSUME NEW S, S \subseteq Nat \ {0}, IsFiniteSet(S), NEW n \in Nat,
         NEW Own, Own \subseteq {n}
  PROVE  /\ IsFiniteSet(Placed(S, n, Own))
         /\ Own = {} => Cardinality(Placed(S, n, Own)) = Cardinality(After(S, 1))
         /\ Own # {} => Cardinality(Placed(S, n, Own)) = Cardinality(After(S, 1)) + 1
         /\ Cardinality(After(Placed(S, n, Own), n)) = Cardinality(After(S, 1))
<1> DEFINE U == Placed(S, n, Own)
<1> DEFINE M == Moved(After(S, 1), n - 1)
<1>1. \A i \in S : IsFiniteSet(After(S, i)) /\ After(S, i) \in SUBSET Nat
  BY FS_Subset DEF After
<1>2. IsFiniteSet(After(S, 1)) /\ After(S, 1) \in SUBSET Nat
  BY FS_Subset DEF After
<1>3. /\ IsFiniteSet(M) /\ Cardinality(M) = Cardinality(After(S, 1))
      /\ \A x : x \in M <=> x \in Int /\ x - (n - 1) \in After(S, 1)
  <2>1. n - 1 \in Int
    OBVIOUS
  <2> QED BY <1>2, <2>1, MovedPlaces
<1>4. \A x \in M : x \in Int /\ n < x
  BY <1>3 DEF After
<1>u. U = Own \cup M
  BY DEF Placed
<1> HIDE DEF M, U
<1>5. Cardinality(M) \in Nat
  BY <1>3, FS_CardinalityType
<1>6. /\ IsFiniteSet(U)
      /\ Own = {} => Cardinality(U) = Cardinality(After(S, 1))
      /\ Own # {} => Cardinality(U) = Cardinality(After(S, 1)) + 1
  <2>1. CASE Own = {}
    <3>1. U = M
      BY <2>1, <1>u
    <3> QED BY <1>3, <1>5, <2>1, <3>1
  <2>2. CASE Own # {}
    <3>1. U = M \cup {n}
      BY <2>2, <1>u
    <3>2. n \notin M
      BY <1>4
    <3>3. IsFiniteSet(M \cup {n}) /\ Cardinality(M \cup {n}) = Cardinality(M) + 1
      BY <1>3, <3>2, FS_AddElement
    <3> QED BY <1>3, <2>2, <3>1, <3>3
  <2> QED BY <2>1, <2>2
<1>7. After(U, n) = M
  <2>1. \A x \in U : n < x <=> x \in M
    BY <1>4, <1>u
  <2>2. M \subseteq U
    BY <1>u
  <2> QED BY <2>1, <2>2 DEF After
<1> QED BY <1>3, <1>6, <1>7 DEF U

(* The places behind one that moves on are those that were behind it.      *)
LEMMA OrderKept ==
  ASSUME NEW S, S \subseteq Nat \ {0}, IsFiniteSet(S), NEW n \in Nat,
         NEW Own, Own \subseteq {n}, NEW i \in S, i # 1
  PROVE  Cardinality(After(Placed(S, n, Own), To(i, n))) = Cardinality(After(S, i))
<1> DEFINE M == Moved(After(S, 1), n - 1)
           U == Placed(S, n, Own)
<1>1. n - 1 \in Int
  OBVIOUS
<1>2. /\ IsFiniteSet(After(S, i)) /\ After(S, i) \in SUBSET Nat
      /\ IsFiniteSet(After(S, 1)) /\ After(S, 1) \in SUBSET Nat
  BY FS_Subset DEF After
<1>3. \A x : x \in M <=> x \in Int /\ x - (n - 1) \in After(S, 1)
  BY <1>1, <1>2, MovedPlaces
<1>u. U = Own \cup M
  BY DEF Placed
<1> HIDE DEF M, U
<1>4. /\ Cardinality(Moved(After(S, i), n - 1)) = Cardinality(After(S, i))
      /\ \A x : x \in Moved(After(S, i), n - 1) <=> x \in Int /\ x - (n - 1) \in After(S, i)
  BY <1>1, <1>2, MovedPlaces
<1>5. \A x : x \in After(U, i + (n - 1)) <=> x \in Int /\ x - (n - 1) \in After(S, i)
  <2>1. \A x \in Own : x \in Int /\ ~(i + (n - 1) < x)
    OBVIOUS
  <2>2. \A x \in After(U, i + (n - 1)) : x \in M /\ i + (n - 1) < x
    BY <2>1, <1>u DEF After
  <2>3. ASSUME NEW x \in After(U, i + (n - 1))
        PROVE  x \in Int /\ x - (n - 1) \in After(S, i)
    BY <1>3, <2>2 DEF After
  <2>4. ASSUME NEW x \in Int, x - (n - 1) \in After(S, i)
        PROVE  x \in After(U, i + (n - 1))
    <3>1. x - (n - 1) \in S /\ i < x - (n - 1) /\ 1 < x - (n - 1)
      BY <2>4 DEF After
    <3>2. x \in M
      BY <1>3, <3>1 DEF After
    <3> QED BY <3>1, <3>2, <1>u DEF After
  <2> QED BY <2>3, <2>4
<1>6. After(U, i + (n - 1)) = Moved(After(S, i), n - 1)
  BY <1>4, <1>5
<1> QED BY <1>4, <1>6 DEF U, To
----------------------------------------------------------------------------
(* The theorems of the library about induction take an operator; in terms  *)
(* of sets, they follow from the order of the naturals.                    *)
LEMMA NatMin ==
  ASSUME NEW S, S \subseteq Nat, S # {}
  PROVE  \E x \in S : \A y \in S : x <= y
<1>1. IsWellFoundedOn(OpToRel(<,Nat), Nat)
  BY NatLessThanWellFounded
<1>2. PICK x \in S : \A y \in S : ~(<<y, x>> \in OpToRel(<,Nat))
  BY <1>1, WFMin
<1>3. \A y \in S : ~ (y < x)
  BY <1>2 DEF OpToRel
<1> QED BY <1>3

LEMMA NatInd ==
  ASSUME NEW S, 0 \in S, \A n \in Nat : n \in S => n + 1 \in S
  PROVE  Nat \subseteq S
<1> DEFINE T == Nat \ S
<1>1. SUFFICES ASSUME T # {}
               PROVE  FALSE
  OBVIOUS
<1>2. PICK x \in T : \A y \in T : x <= y
  BY <1>1, NatMin
<1>3. x \in Nat /\ x # 0
  BY <1>2
<1>4. PICK y \in Nat : x = y + 1
  BY <1>3
<1>5. y \notin T
  BY <1>2, <1>4
<1> QED BY <1>2, <1>4, <1>5
=============================================================================
