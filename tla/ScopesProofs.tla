---------------------------- MODULE ScopesProofs ----------------------------
(***************************************************************************)
(* TLAPS proofs about Scopes, for programs of any size, any functions and  *)
(* parameters: the depths are balanced, and an identifier gets the slot of *)
(* its innermost declaration in scope unless an earlier one is as far out. *)
(***************************************************************************)
EXTENDS Scopes, ScriptLemmas

Typed ==
  /\ locals \in Seq(Local) /\ globals \in Seq(Names)
  /\ nest_depth \in Nat /\ loop_depth \in Nat
  /\ in_function \in BOOLEAN /\ current_function \in Nat
  /\ ident \in Ident
  /\ live \subseteq Slots
  /\ todo \in Seq(Item)

(* Where the items of a kind stand: the rest of the program comes last,    *)
(* and statements belong to a function.                                    *)
Arranged ==
  \A i \in DOMAIN todo :
    /\ todo[i].act \in {"use", "declare"} => todo[i].name \in Names
    /\ todo[i].act = "funcs" => todo[i].n # 0
    /\ todo[i].act # "leave" => todo[i].nest = 0 /\ todo[i].loop = 0
    /\ todo[i].act \in {"globals", "funcs"} => i = Len(todo)
    /\ todo[i].act = "return" => i + 1 = Len(todo) /\ todo[i + 1].act = "funcs"
    /\ todo[i].act \in {"stmt", "stmts", "leave", "return"} => in_function

(* A variable in scope is as deep as one of the open scopes around it; the *)
(* slots that outlive a scope are not deeper than what is around that.     *)
InScopes ==
  /\ in_function \/ live # {} => current_function # 0
  /\ \A s \in live : ~Slot(s).temp /\ Slot(s).nest_depth <= nest_depth
  /\ \A i \in OpenScopes :
       /\ todo[i].n <= Len(locals)
       /\ \A s \in live : s < todo[i].n =>
            Slot(s).nest_depth <= Cardinality(After(OpenScopes, i))

ScopesInv == Typed /\ Arranged /\ InScopes /\ DepthsBalanced

----------------------------------------------------------------------------
(* The constructors of items build items.                                  *)
LEMMA ItemTypes ==
  /\ \A x \in Names : Use(x) \in Item /\ Declare(x) \in Item /\ TempUnlessLocal(x) \in Item
  /\ \A n \in Nat : Funcs(n) \in Item
  /\ {Stmt, Stmts, Expr, Cases, Temp, Globals, EndFunction} \subseteq Item
  /\ Typed => \A nest, loop \in {0, 1} : Leave(nest, loop) \in Item
<1>1. ASSUME NEW act \in {"stmt", "stmts", "expr", "cases", "use", "call", "declare",
                 "temp", "leave", "globals", "funcs", "return"},
             NEW x \in Names \cup {Garbage}, NEW n \in Nat
      PROVE  Do(act, x, n) \in Item
  BY DEF Do, Item
<1>2. /\ \A x \in Names : Use(x) \in Item /\ Declare(x) \in Item /\ TempUnlessLocal(x) \in Item
      /\ \A n \in Nat : Funcs(n) \in Item
  BY <1>1 DEF Use, Declare, TempUnlessLocal, Funcs
<1>3. {Stmt, Stmts, Expr, Cases, Temp, Globals, EndFunction} \subseteq Item
  BY <1>1 DEF Stmt, Stmts, Expr, Cases, Temp, Globals, EndFunction
<1>4. ASSUME Typed, NEW nest \in {0, 1}, NEW loop \in {0, 1}
      PROVE  Leave(nest, loop) \in Item
  BY <1>4 DEF Typed, Leave, Item
<1> QED BY <1>2, <1>3, <1>4

(***************************************************************************)
(* What a script must be for its items to stand where they should.         *)
(***************************************************************************)
Fits(s) ==
  /\ \A i \in DOMAIN s :
       /\ s[i].act \in {"use", "declare"} => s[i].name \in Names
       /\ s[i].act = "funcs" => s[i].n # 0
       /\ s[i].act # "leave" => s[i].nest = 0 /\ s[i].loop = 0
       /\ s[i].act = "leave" => i = Len(s)
       /\ s[i].act \in {"globals", "funcs"} => i = Len(s) /\ Len(todo) = 1
       /\ s[i].act = "return" => i + 1 = Len(s) /\ s[i + 1].act = "funcs" /\ Len(todo) = 1
       /\ s[i].act \in {"stmt", "stmts", "leave", "return"} => in_function'
  /\ in_function => in_function' \/ Head(todo).act = "return"

OwnScopes(s) == {i \in DOMAIN s : s[i].nest = 1}
OwnLoops(s)  == {i \in DOMAIN s : s[i].loop = 1}

(* The head of todo is replaced by a script that fits.                     *)
LEMMA Unfolded ==
  ASSUME Typed, Arranged, todo # <<>>, NEW s \in Seq(Item), Fits(s),
         todo' = s \o Tail(todo)
  PROVE  /\ todo' \in Seq(Item)
         /\ Arranged'
         /\ \A k \in DOMAIN todo' :
              \/ k \in DOMAIN s /\ todo'[k] = s[k]
              \/ \E i \in DOMAIN todo : i # 1 /\ k = i + (Len(s) - 1) /\ todo'[k] = todo[i]
         /\ \A i \in DOMAIN s : i \in DOMAIN todo' /\ todo'[i] = s[i]
         /\ \A i \in DOMAIN todo : i # 1 =>
              i + (Len(s) - 1) \in DOMAIN todo' /\ todo'[i + (Len(s) - 1)] = todo[i]
<1>1. /\ todo' \in Seq(Item)
      /\ \A i \in DOMAIN s : i \in DOMAIN todo' /\ todo'[i] = s[i]
      /\ \A i \in DOMAIN todo : i # 1 =>
           Len(s) + i - 1 \in DOMAIN todo' /\ todo'[Len(s) + i - 1] = todo[i]
      /\ \A k \in DOMAIN todo' :
           k \in DOMAIN s \/ \E i \in DOMAIN todo : i # 1 /\ k = Len(s) + i - 1
  <2>1. todo \in Seq(Item)
    BY DEF Typed
  <2> QED
    BY ONLY SMTT(30), <2>1, todo # <<>>, s \in Seq(Item), todo' = s \o Tail(todo), UnfoldedSeq
<1>2. /\ Len(s) \in Nat /\ DOMAIN s = 1 .. Len(s)
      /\ todo \in Seq(Item) /\ DOMAIN todo = 1 .. Len(todo) /\ Head(todo) = todo[1]
      /\ Len(todo) \in Nat /\ Len(todo) >= 1
      /\ Len(todo') = Len(s) + Len(todo) - 1 /\ DOMAIN todo' = 1 .. Len(todo')
  BY DEF Typed
<1>3. \A i \in DOMAIN todo : Len(s) + i - 1 = i + (Len(s) - 1)
  BY <1>2
<1>4. /\ \A k \in DOMAIN todo' :
           \/ k \in DOMAIN s /\ todo'[k] = s[k]
           \/ \E i \in DOMAIN todo : i # 1 /\ k = i + (Len(s) - 1) /\ todo'[k] = todo[i]
      /\ \A i \in DOMAIN todo : i # 1 =>
           i + (Len(s) - 1) \in DOMAIN todo' /\ todo'[i + (Len(s) - 1)] = todo[i]
  BY SMTT(30), <1>1, <1>3
<1>5. Arranged'
  <2> SUFFICES ASSUME NEW k \in DOMAIN todo'
               PROVE  /\ todo'[k].act \in {"use", "declare"} => todo'[k].name \in Names
                      /\ todo'[k].act = "funcs" => todo'[k].n # 0
                      /\ todo'[k].act # "leave" => todo'[k].nest = 0 /\ todo'[k].loop = 0
                      /\ todo'[k].act \in {"globals", "funcs"} => k = Len(todo')
                      /\ todo'[k].act = "return" =>
                           k + 1 = Len(todo') /\ todo'[k + 1].act = "funcs"
                      /\ todo'[k].act \in {"stmt", "stmts", "leave", "return"} => in_function'
    BY DEF Arranged
  <2>1. CASE k \in DOMAIN s
    <3>1. todo'[k] = s[k]
      BY <1>1, <2>1
    <3>2. Len(todo) = 1 => Len(todo') = Len(s)
      BY <1>2
    <3>3. s[k].act = "return" => todo'[k + 1] = s[k + 1]
      BY <1>1, <1>2, <2>1 DEF Fits
    <3> QED BY <2>1, <3>1, <3>2, <3>3 DEF Fits
  <2>2. CASE k \notin DOMAIN s
    <3>1. PICK i \in DOMAIN todo : i # 1 /\ k = i + (Len(s) - 1) /\ todo'[k] = todo[i]
      BY <1>4, <2>2
    <3>2. i = Len(todo) => k = Len(todo')
      BY <1>2, <3>1
    <3>3. todo[i].act = "return" => k + 1 = Len(todo') /\ todo'[k + 1] = todo[i + 1]
      <4> SUFFICES ASSUME todo[i].act = "return"
                   PROVE  k + 1 = Len(todo') /\ todo'[k + 1] = todo[i + 1]
        OBVIOUS
      <4>1. i + 1 = Len(todo)
        BY DEF Arranged
      <4>2. i \in Int /\ i >= 1 /\ i + 1 \in DOMAIN todo /\ i + 1 # 1
        BY <1>2, <3>1, <4>1
      <4>3. (i + 1) + (Len(s) - 1) = k + 1
        BY <1>2, <3>1, <4>2
      <4>4. todo'[(i + 1) + (Len(s) - 1)] = todo[i + 1]
        BY <1>4, <4>2
      <4>5. k + 1 = Len(todo')
        BY <1>2, <4>1, <4>2, <4>3
      <4> QED BY <4>3, <4>4, <4>5
    <3>4. todo[i].act \in {"stmt", "stmts", "leave", "return"} => in_function'
      <4>1. ASSUME todo[1].act = "return"
            PROVE  todo[i].act = "funcs"
        <5>1. 1 \in DOMAIN todo
          BY <1>2
        <5>2. 1 + 1 = Len(todo) /\ todo[1 + 1].act = "funcs"
          BY <4>1, <5>1 DEF Arranged
        <5>3. i \in 1 .. Len(todo) /\ i # 1
          BY <1>2, <3>1
        <5>4. i = 1 + 1
          BY ONLY <5>2, <5>3
        <5> QED BY <5>2, <5>4
      <4> QED BY <1>2, <4>1 DEF Arranged, Fits
    <3> QED BY <3>1, <3>2, <3>3, <3>4 DEF Arranged
  <2> QED BY <2>1, <2>2
<1> QED BY <1>1, <1>4, <1>5

(* The open scopes and loops after the step, and how many they are.        *)
LEMMA Opened ==
  ASSUME Typed, Arranged, todo # <<>>, NEW s \in Seq(Item), Fits(s),
         todo' = s \o Tail(todo)
  PROVE  /\ Cardinality(OpenScopes') =
              Cardinality(OpenScopes) - (IF Head(todo).nest = 1 THEN 1 ELSE 0)
                                      + (IF OwnScopes(s) = {} THEN 0 ELSE 1)
         /\ Cardinality(OpenLoops') =
              Cardinality(OpenLoops) - (IF Head(todo).loop = 1 THEN 1 ELSE 0)
                                     + (IF OwnLoops(s) = {} THEN 0 ELSE 1)
         /\ Cardinality(OpenScopes) \in Nat /\ Cardinality(OpenLoops) \in Nat
         /\ Head(todo).nest = 1 => Cardinality(OpenScopes) >= 1
         /\ Head(todo).loop = 1 => Cardinality(OpenLoops) >= 1
         /\ Cardinality(After(OpenScopes, 1)) =
              Cardinality(OpenScopes) - (IF Head(todo).nest = 1 THEN 1 ELSE 0)
         /\ \A k \in OwnScopes(s) :
              Cardinality(After(OpenScopes', k)) = Cardinality(After(OpenScopes, 1))
         /\ \A i \in OpenScopes : i # 1 =>
              Cardinality(After(OpenScopes', i + (Len(s) - 1))) = Cardinality(After(OpenScopes, i))
<1>1. /\ \A k \in DOMAIN todo' :
           \/ k \in DOMAIN s /\ todo'[k] = s[k]
           \/ \E i \in DOMAIN todo : i # 1 /\ k = i + (Len(s) - 1) /\ todo'[k] = todo[i]
      /\ \A i \in DOMAIN s : i \in DOMAIN todo' /\ todo'[i] = s[i]
      /\ \A i \in DOMAIN todo : i # 1 =>
           i + (Len(s) - 1) \in DOMAIN todo' /\ todo'[i + (Len(s) - 1)] = todo[i]
  BY Unfolded
<1>2. /\ DOMAIN todo = 1 .. Len(todo) /\ Len(todo) \in Nat /\ Len(s) \in Nat
      /\ 1 \in DOMAIN todo /\ Head(todo) = todo[1]
  BY DEF Typed
<1>3. /\ OpenScopes \in SUBSET (Nat \ {0}) /\ IsFiniteSet(OpenScopes)
      /\ OpenLoops \in SUBSET (Nat \ {0}) /\ IsFiniteSet(OpenLoops)
  <2>1. OpenScopes \in SUBSET (1 .. Len(todo)) /\ OpenLoops \in SUBSET (1 .. Len(todo))
    BY <1>2 DEF OpenScopes, OpenLoops
  <2>2. IsFiniteSet(1 .. Len(todo))
    BY <1>2, FS_Interval
  <2>3. IsFiniteSet(OpenScopes) /\ IsFiniteSet(OpenLoops)
    BY <2>1, <2>2, FS_Subset
  <2> QED BY <1>2, <2>1, <2>3
<1>4. OwnScopes(s) \in SUBSET {Len(s)} /\ OwnLoops(s) \in SUBSET {Len(s)}
  BY SMTT(30) DEF OwnScopes, OwnLoops, Fits
<1>5. OpenScopes' = Placed(OpenScopes, Len(s), OwnScopes(s))
  <2>1. \A k \in OpenScopes' : k \in OwnScopes(s) \/ k \in Moved(After(OpenScopes, 1), Len(s) - 1)
    <3> SUFFICES ASSUME NEW k \in DOMAIN todo', todo'[k].nest = 1, k \notin OwnScopes(s)
                 PROVE  k \in Moved(After(OpenScopes, 1), Len(s) - 1)
      BY DEF OpenScopes
    <3>1. PICK i \in DOMAIN todo : i # 1 /\ k = i + (Len(s) - 1) /\ todo'[k] = todo[i]
      BY <1>1 DEF OwnScopes
    <3>2. i \in After(OpenScopes, 1)
      BY <1>2, <3>1 DEF After, OpenScopes
    <3> QED BY <3>1, <3>2 DEF Moved
  <2>2. \A k \in OwnScopes(s) : k \in OpenScopes'
    BY <1>1 DEF OwnScopes, OpenScopes
  <2>3. ASSUME NEW i \in After(OpenScopes, 1)
        PROVE  i + (Len(s) - 1) \in OpenScopes'
    <3>1. i \in DOMAIN todo /\ i # 1 /\ todo[i].nest = 1
      BY <1>2 DEF After, OpenScopes
    <3> QED BY <1>1, <3>1 DEF OpenScopes
  <2>4. \A k \in Moved(After(OpenScopes, 1), Len(s) - 1) : k \in OpenScopes'
    BY <2>3 DEF Moved
  <2> QED BY <2>1, <2>2, <2>4 DEF Placed
<1>6. OpenLoops' = Placed(OpenLoops, Len(s), OwnLoops(s))
  <2>1. \A k \in OpenLoops' : k \in OwnLoops(s) \/ k \in Moved(After(OpenLoops, 1), Len(s) - 1)
    <3> SUFFICES ASSUME NEW k \in DOMAIN todo', todo'[k].loop = 1, k \notin OwnLoops(s)
                 PROVE  k \in Moved(After(OpenLoops, 1), Len(s) - 1)
      BY DEF OpenLoops
    <3>1. PICK i \in DOMAIN todo : i # 1 /\ k = i + (Len(s) - 1) /\ todo'[k] = todo[i]
      BY <1>1 DEF OwnLoops
    <3>2. i \in After(OpenLoops, 1)
      BY <1>2, <3>1 DEF After, OpenLoops
    <3> QED BY <3>1, <3>2 DEF Moved
  <2>2. \A k \in OwnLoops(s) : k \in OpenLoops'
    BY <1>1 DEF OwnLoops, OpenLoops
  <2>3. ASSUME NEW i \in After(OpenLoops, 1)
        PROVE  i + (Len(s) - 1) \in OpenLoops'
    <3>1. i \in DOMAIN todo /\ i # 1 /\ todo[i].loop = 1
      BY <1>2 DEF After, OpenLoops
    <3> QED BY <1>1, <3>1 DEF OpenLoops
  <2>4. \A k \in Moved(After(OpenLoops, 1), Len(s) - 1) : k \in OpenLoops'
    BY <2>3 DEF Moved
  <2> QED BY <2>1, <2>2, <2>4 DEF Placed
<1>7. /\ 1 \in OpenScopes <=> Head(todo).nest = 1
      /\ 1 \in OpenLoops <=> Head(todo).loop = 1
  BY <1>2 DEF OpenScopes, OpenLoops
<1>8. /\ Cardinality(OpenScopes) \in Nat /\ Cardinality(OpenLoops) \in Nat
      /\ Cardinality(After(OpenScopes, 1)) \in Nat /\ Cardinality(After(OpenLoops, 1)) \in Nat
      /\ Cardinality(OpenScopes) =
           Cardinality(After(OpenScopes, 1)) + (IF Head(todo).nest = 1 THEN 1 ELSE 0)
      /\ Cardinality(OpenLoops) =
           Cardinality(After(OpenLoops, 1)) + (IF Head(todo).loop = 1 THEN 1 ELSE 0)
  BY <1>3, <1>7, FirstPlace, FS_CardinalityType
<1>9. /\ Len(s) \in Nat
      /\ OpenScopes \subseteq Nat \ {0} /\ OpenLoops \subseteq Nat \ {0}
      /\ OwnScopes(s) \subseteq {Len(s)} /\ OwnLoops(s) \subseteq {Len(s)}
  BY <1>3, <1>4
<1>10. /\ Cardinality(OpenScopes') = Cardinality(After(OpenScopes, 1))
                                       + (IF OwnScopes(s) = {} THEN 0 ELSE 1)
       /\ Cardinality(After(OpenScopes', Len(s))) = Cardinality(After(OpenScopes, 1))
       /\ \A i \in OpenScopes : i # 1 =>
            Cardinality(After(OpenScopes', i + (Len(s) - 1))) = Cardinality(After(OpenScopes, i))
       /\ Cardinality(OpenLoops') = Cardinality(After(OpenLoops, 1))
                                       + (IF OwnLoops(s) = {} THEN 0 ELSE 1)
  <2>1. /\ OwnScopes(s) = {} => Cardinality(OpenScopes') = Cardinality(After(OpenScopes, 1))
        /\ OwnScopes(s) # {} => Cardinality(OpenScopes') = Cardinality(After(OpenScopes, 1)) + 1
        /\ Cardinality(After(OpenScopes', Len(s))) = Cardinality(After(OpenScopes, 1))
        /\ \A i \in OpenScopes : i # 1 =>
             Cardinality(After(OpenScopes', i + (Len(s) - 1))) = Cardinality(After(OpenScopes, i))
    <3> DEFINE U == Placed(OpenScopes, Len(s), OwnScopes(s))
    <3>1. /\ OwnScopes(s) = {} => Cardinality(U) = Cardinality(After(OpenScopes, 1))
          /\ OwnScopes(s) # {} => Cardinality(U) = Cardinality(After(OpenScopes, 1)) + 1
      BY ONLY <1>3, <1>9, CountedPlaces
    <3>2. Cardinality(After(U, Len(s))) = Cardinality(After(OpenScopes, 1))
      BY ONLY <1>3, <1>9, CountedPlaces
    <3>3. \A i \in OpenScopes : i # 1 =>
            Cardinality(After(U, To(i, Len(s)))) = Cardinality(After(OpenScopes, i))
      BY ONLY ZenonT(30), <1>3, <1>9, OrderKept
    <3>4. \A i \in OpenScopes : i # 1 =>
            Cardinality(After(U, i + (Len(s) - 1))) = Cardinality(After(OpenScopes, i))
      BY ONLY <3>3 DEF To
    <3> QED BY ONLY <1>5, <3>1, <3>2, <3>4
  <2>2. /\ OwnLoops(s) = {} => Cardinality(OpenLoops') = Cardinality(After(OpenLoops, 1))
        /\ OwnLoops(s) # {} => Cardinality(OpenLoops') = Cardinality(After(OpenLoops, 1)) + 1
    BY ONLY <1>3, <1>6, <1>9, CountedPlaces
  <2> QED BY ONLY <1>8, <2>1, <2>2
<1>11. \A k \in OwnScopes(s) :
         Cardinality(After(OpenScopes', k)) = Cardinality(After(OpenScopes, 1))
  BY <1>4, <1>10
<1>12. CASE Head(todo).nest = 1
  BY <1>8, <1>10, <1>11, <1>12
<1>13. CASE Head(todo).nest # 1
  BY <1>8, <1>10, <1>11, <1>13
<1> QED BY <1>12, <1>13

----------------------------------------------------------------------------
(***************************************************************************)
(* What a step needs to preserve the parts of the invariant that relate    *)
(* todo to the slots.                                                      *)
(***************************************************************************)

(* A step may add slots that are not deeper than the current depth; one    *)
(* that ends a scope does not begin another.                               *)
LEMMA InScopesStep ==
  ASSUME Typed, Arranged, InScopes, DepthsBalanced, todo # <<>>,
         NEW s \in Seq(Item), Fits(s), todo' = s \o Tail(todo),
         \A k \in OwnScopes(s) : Head(todo).act # "leave" /\ s[k].n = Len(locals),
         locals' \in Seq(Local), Len(locals') >= Len(locals),
         in_function' \/ live' # {} => current_function' # 0,
         \A i \in live' : ~Slot(i)'.temp /\ Slot(i)'.nest_depth <= nest_depth',
         \A i \in live' : (i \in live /\ Slot(i)' = Slot(i)) \/ i >= Len(locals),
         live' \subseteq Nat
  PROVE  InScopes'
<1> DEFINE d == Len(s) - 1
<1>1. /\ \A k \in DOMAIN todo' :
           \/ k \in DOMAIN s /\ todo'[k] = s[k]
           \/ \E i \in DOMAIN todo : i # 1 /\ k = i + d /\ todo'[k] = todo[i]
  BY Unfolded
<1>2. /\ Cardinality(OpenScopes) \in Nat
      /\ Head(todo).nest = 0 => Cardinality(After(OpenScopes, 1)) = Cardinality(OpenScopes)
      /\ \A k \in OwnScopes(s) :
           Cardinality(After(OpenScopes', k)) = Cardinality(After(OpenScopes, 1))
      /\ \A i \in OpenScopes : i # 1 =>
           Cardinality(After(OpenScopes', i + d)) = Cardinality(After(OpenScopes, i))
  <2>1. /\ Cardinality(After(OpenScopes, 1)) =
              Cardinality(OpenScopes) - (IF Head(todo).nest = 1 THEN 1 ELSE 0)
        /\ Cardinality(OpenScopes) \in Nat
    BY Opened
  <2>2. Head(todo).nest = 0 => Cardinality(After(OpenScopes, 1)) = Cardinality(OpenScopes)
    BY ONLY <2>1
  <2>3. \A k \in OwnScopes(s) :
          Cardinality(After(OpenScopes', k)) = Cardinality(After(OpenScopes, 1))
    BY Opened
  <2>4. \A i \in OpenScopes : i # 1 =>
          Cardinality(After(OpenScopes', i + d)) = Cardinality(After(OpenScopes, i))
    BY Opened
  <2> QED BY ONLY <2>1, <2>2, <2>3, <2>4
<1>3. /\ Head(todo).act # "leave" => Head(todo).nest = 0
      /\ nest_depth = Cardinality(OpenScopes)
  BY DEF Typed, Arranged, DepthsBalanced
<1>4. Len(locals) \in Nat /\ Len(locals') \in Nat
  BY DEF Typed
<1>5. ASSUME NEW k \in OpenScopes'
      PROVE  /\ todo'[k].n <= Len(locals')
             /\ \A i \in live' : i < todo'[k].n =>
                  Slot(i)'.nest_depth <= Cardinality(After(OpenScopes', k))
  <2>1. k \in DOMAIN todo' /\ todo'[k].nest = 1
    BY <1>5 DEF OpenScopes
  <2>2. CASE k \in DOMAIN s /\ todo'[k] = s[k]
    <3>1. k \in OwnScopes(s) /\ Head(todo).act # "leave" /\ todo'[k].n = Len(locals)
      BY <2>1, <2>2 DEF OwnScopes
    <3>2. Cardinality(After(OpenScopes', k)) = nest_depth
      BY ONLY <1>2, <1>3, <3>1
    <3>3. \A i \in live' : i < Len(locals) => i \in live /\ Slot(i)' = Slot(i)
      BY <1>4
    <3> QED BY <1>4, <3>1, <3>2, <3>3 DEF InScopes
  <2>3. CASE \E i \in DOMAIN todo : i # 1 /\ k = i + d /\ todo'[k] = todo[i]
    <3>1. PICK j \in DOMAIN todo : j # 1 /\ k = j + d /\ todo'[k] = todo[j]
      BY <2>3
    <3>2. j \in OpenScopes
      BY <2>1, <3>1 DEF OpenScopes
    <3>3. Cardinality(After(OpenScopes', k)) = Cardinality(After(OpenScopes, j))
      BY ONLY <1>2, <3>1, <3>2
    <3>4. /\ todo[j].n <= Len(locals) /\ todo[j].n \in Nat
          /\ \A i \in live : i < todo[j].n =>
               Slot(i).nest_depth <= Cardinality(After(OpenScopes, j))
      <4>1. todo[j].n \in Nat
        <5>1. todo[j] \in Item
          BY <3>1 DEF Typed
        <5> QED BY ONLY <5>1 DEF Item
      <4> QED BY <3>2, <4>1 DEF InScopes
    <3>5. \A i \in live' : i < todo[j].n => i \in live /\ Slot(i)' = Slot(i)
      BY <1>4, <3>4
    <3>6. todo[j].n <= Len(locals')
      BY ONLY <1>4, <3>4, Len(locals') >= Len(locals)
    <3> QED BY ONLY <3>1, <3>3, <3>4, <3>5, <3>6
  <2> QED BY <1>1, <2>1, <2>2, <2>3
<1> QED BY <1>5 DEF InScopes

(* The depths follow what the step adds to and takes from todo.            *)
LEMMA DepthsStep ==
  ASSUME Typed, Arranged, DepthsBalanced, todo # <<>>, NEW s \in Seq(Item), Fits(s),
         todo' = s \o Tail(todo),
         nest_depth' = nest_depth - (IF Head(todo).nest = 1 THEN 1 ELSE 0)
                                  + (IF OwnScopes(s) = {} THEN 0 ELSE 1),
         loop_depth' = loop_depth - (IF Head(todo).loop = 1 THEN 1 ELSE 0)
                                  + (IF OwnLoops(s) = {} THEN 0 ELSE 1)
  PROVE  DepthsBalanced' /\ nest_depth' \in Nat /\ loop_depth' \in Nat
<1>1. DepthsBalanced'
  BY Opened DEF DepthsBalanced
<1>2. /\ nest_depth \in Nat /\ loop_depth \in Nat
      /\ Head(todo).nest = 1 => nest_depth >= 1
      /\ Head(todo).loop = 1 => loop_depth >= 1
  BY Opened DEF DepthsBalanced
<1> QED BY ONLY <1>1, <1>2, nest_depth' = nest_depth - (IF Head(todo).nest = 1 THEN 1 ELSE 0)
                                  + (IF OwnScopes(s) = {} THEN 0 ELSE 1),
         loop_depth' = loop_depth - (IF Head(todo).loop = 1 THEN 1 ELSE 0)
                                  + (IF OwnLoops(s) = {} THEN 0 ELSE 1)

(* A handler that visits its children, inside a scope or a loop of its own *)
(* or not.                                                                 *)
LEMMA ScriptStep ==
  ASSUME ScopesInv, todo # <<>>, Head(todo).act # "leave",
         NEW s \in Seq(Item), Fits(s), todo' = s \o Tail(todo),
         nest_depth' = nest_depth + (IF OwnScopes(s) = {} THEN 0 ELSE 1),
         loop_depth' = loop_depth + (IF OwnLoops(s) = {} THEN 0 ELSE 1),
         \A k \in OwnScopes(s) : s[k].n = Len(locals),
         UNCHANGED <<locals, globals, live>>, SamePlace, ident' \in Ident
  PROVE  ScopesInv'
<1>1. /\ locals' = locals /\ globals' = globals /\ live' = live
      /\ in_function' = in_function /\ current_function' = current_function
  BY DEF SamePlace
<1>2. Typed /\ Arranged /\ InScopes /\ DepthsBalanced
  BY DEF ScopesInv
<1>3. Head(todo).nest = 0 /\ Head(todo).loop = 0
  BY <1>2 DEF Typed, Arranged
<1>4. nest_depth \in Nat /\ loop_depth \in Nat
  BY <1>2 DEF Typed
<1>5. DepthsBalanced' /\ nest_depth' \in Nat /\ loop_depth' \in Nat
  BY SMTT(30), <1>2, <1>3, <1>4, DepthsStep
<1>6. /\ todo' \in Seq(Item) /\ Arranged'
      /\ \A k \in DOMAIN todo' :
           \/ k \in DOMAIN s /\ todo'[k] = s[k]
           \/ \E i \in DOMAIN todo : i # 1 /\ k = i + (Len(s) - 1) /\ todo'[k] = todo[i]
  BY <1>2, Unfolded
<1>7. Typed'
  BY <1>1, <1>2, <1>5, <1>6 DEF Typed, Slots
<1>8. \A k \in OwnScopes(s) : Head(todo).act # "leave" /\ s[k].n = Len(locals)
  OBVIOUS
<1>9. nest_depth <= nest_depth'
  BY <1>4
<1>10. InScopes'
  <2>1. \A i \in live : i \in Slots /\ i \in Nat /\ Slot(i).nest_depth \in Nat
    <3> SUFFICES ASSUME NEW i \in live
                 PROVE  i \in Slots /\ i \in Nat /\ Slot(i).nest_depth \in Nat
      OBVIOUS
    <3>1. i \in 0 .. Len(locals) - 1 /\ locals \in Seq(Local) /\ Len(locals) \in Nat
      BY <1>2 DEF Typed, Slots
    <3>2. i + 1 \in 1 .. Len(locals)
      BY ONLY <3>1
    <3>3. locals[i + 1] \in Local
      BY ONLY <3>1, <3>2
    <3> QED BY <3>1, <3>3 DEF Slots, Slot, Local
  <2>2. \A i \in live : ~Slot(i).temp /\ Slot(i).nest_depth <= nest_depth'
    BY <1>2, <1>4, <1>5, <1>9, <2>1 DEF InScopes
  <2>3. \A i \in live : Slot(i)' = Slot(i)
    BY <1>1 DEF Slot
  <2>4. locals' \in Seq(Local) /\ Len(locals') >= Len(locals)
    BY <1>1, <1>2 DEF Typed
  <2>5. in_function' \/ live' # {} => current_function' # 0
    BY <1>1, <1>2 DEF InScopes
  <2>6. /\ \A i \in live' : ~Slot(i)'.temp /\ Slot(i)'.nest_depth <= nest_depth'
        /\ \A i \in live' : (i \in live /\ Slot(i)' = Slot(i)) \/ i >= Len(locals)
        /\ live' \subseteq Nat
    BY <1>1, <2>1, <2>2, <2>3
  <2> QED BY <1>2, <1>8, <2>4, <2>5, <2>6, InScopesStep
<1> QED BY <1>5, <1>6, <1>7, <1>10 DEF ScopesInv

----------------------------------------------------------------------------
(***************************************************************************)
(* The handlers that only visit children.                                  *)
(***************************************************************************)

(* What the pass wrote stays right as long as the slots do not change.     *)
LEMMA SameIdent ==
  ASSUME ScopesInv, SameSlots
  PROVE  UNCHANGED <<locals, globals, live>> /\ ident' \in Ident
BY DEF ScopesInv, Typed, SameSlots

(* error and a NULL dereference change nothing else.                       *)
LEMMA StopStep ==
  ASSUME ScopesInv, UNCHANGED <<locals, globals, nest_depth, loop_depth, in_function,
                                current_function, ident, live, todo>>
  PROVE  ScopesInv'
BY DEF ScopesInv, Typed, Slots, Arranged, InScopes, OpenScopes, OpenLoops,
       DepthsBalanced, Slot

(* A script of Plain opens no scope.                                       *)
LEMMA PlainStep ==
  ASSUME ScopesInv, todo # <<>>, Head(todo).act # "leave",
         NEW s \in Seq(Item), Fits(s), Plain(s),
         \A i \in DOMAIN s : s[i].act # "leave"
  PROVE  ScopesInv'
<1>1. OwnScopes(s) = {} /\ OwnLoops(s) = {}
  BY DEF OwnScopes, OwnLoops, Fits
<1>2. nest_depth \in Nat /\ loop_depth \in Nat
  BY DEF ScopesInv, Typed
<1>3. /\ todo' = s \o Tail(todo) /\ SameSlots /\ SamePlace
      /\ nest_depth' = nest_depth /\ loop_depth' = loop_depth
  BY DEF Plain, Unfold, SameDepths
<1>4. /\ nest_depth' = nest_depth + (IF OwnScopes(s) = {} THEN 0 ELSE 1)
      /\ loop_depth' = loop_depth + (IF OwnLoops(s) = {} THEN 0 ELSE 1)
      /\ \A k \in OwnScopes(s) : s[k].n = Len(locals)
  BY ONLY <1>1, <1>2, <1>3
<1> QED BY <1>3, <1>4, SameIdent, ScriptStep

(* The items most scripts consist of.                                      *)
Child(c) ==
  /\ c \in Item /\ c.nest = 0 /\ c.loop = 0
  /\ c.act \in {"expr", "cases", "temp", "use", "stmt", "stmts"}
  /\ c.act = "use" => c.name \in Names
  /\ c.act \in {"stmt", "stmts"} => in_function

(* What the constructors build are such items.                             *)
LEMMA Children ==
  /\ Child(Expr) /\ Child(Cases) /\ Child(Temp)
  /\ \A x \in Names : Child(Use(x)) /\ Child(TempUnlessLocal(x))
  /\ in_function => Child(Stmt) /\ Child(Stmts)
BY ItemTypes DEF Child, Expr, Cases, Temp, Use, TempUnlessLocal, Stmt, Stmts, Do

(* A script of such items fits.                                            *)
LEMMA ChildrenFit ==
  ASSUME NEW s \in Seq(Item), \A i \in DOMAIN s : Child(s[i]), SamePlace,
         Head(todo).act # "use" \/ Len(s) = 0
  PROVE  /\ Fits(s)
         /\ \A i \in DOMAIN s : s[i].act \notin {"leave", "declare"}
BY DEF Fits, Child, SamePlace

(* A handler that visits such children.                                    *)
LEMMA ChildrenStep ==
  ASSUME ScopesInv, todo # <<>>, Head(todo).act \notin {"leave", "use"},
         NEW s \in Seq(Item), \A i \in DOMAIN s : Child(s[i]), Plain(s)
  PROVE  ScopesInv'
<1>1. SamePlace
  BY DEF Plain
<1>2. /\ Fits(s)
      /\ \A i \in DOMAIN s : s[i].act \notin {"leave", "declare"}
  BY <1>1, ChildrenFit
<1> QED BY <1>2, PlainStep

(* The scripts by their length.                                            *)
LEMMA Scripts ==
  /\ <<>> \in Seq(Item) /\ \A i \in DOMAIN <<>> : Child(<<>>[i])
  /\ \A a : Child(a) => <<a>> \in Seq(Item) /\ \A i \in DOMAIN <<a>> : Child(<<a>>[i])
  /\ \A a, b : Child(a) /\ Child(b) =>
       <<a, b>> \in Seq(Item) /\ \A i \in DOMAIN <<a, b>> : Child(<<a, b>>[i])
  /\ \A a, b, c : Child(a) /\ Child(b) /\ Child(c) =>
       <<a, b, c>> \in Seq(Item) /\ \A i \in DOMAIN <<a, b, c>> : Child(<<a, b, c>>[i])
<1>1. \A a : Child(a) => a \in Item
  BY DEF Child
<1>2. <<>> \in Seq(Item) /\ \A i \in DOMAIN <<>> : Child(<<>>[i])
  OBVIOUS
<1>3. ASSUME NEW a, Child(a)
      PROVE  <<a>> \in Seq(Item) /\ \A i \in DOMAIN <<a>> : Child(<<a>>[i])
  BY <1>1, <1>3
<1>4. ASSUME NEW a, NEW b, Child(a), Child(b)
      PROVE  <<a, b>> \in Seq(Item) /\ \A i \in DOMAIN <<a, b>> : Child(<<a, b>>[i])
  BY <1>1, <1>4
<1>5. ASSUME NEW a, NEW b, NEW c, Child(a), Child(b), Child(c)
      PROVE  <<a, b, c>> \in Seq(Item) /\ \A i \in DOMAIN <<a, b, c>> : Child(<<a, b, c>>[i])
  BY <1>1, <1>5
<1> QED BY <1>2, <1>3, <1>4, <1>5

(* Two such scripts in one.                                                *)
LEMMA ChildrenJoined ==
  ASSUME NEW s \in Seq(Item), NEW t \in Seq(Item),
         \A i \in DOMAIN s : Child(s[i]), \A i \in DOMAIN t : Child(t[i])
  PROVE  s \o t \in Seq(Item) /\ \A i \in DOMAIN (s \o t) : Child((s \o t)[i])
BY Appended

(* The expressions, and the statements that change neither depths nor      *)
(* slots.                                                                  *)
LEMMA PlainActions ==
  ASSUME ScopesInv,
         \/ Constant \/ IdentExpression \/ Binop \/ Ternary \/ Assignment
         \/ FuncCall \/ AddrGet \/ Match \/ MatchCases
         \/ ExpressionStatement \/ Empty \/ Return \/ Statements \/ If \/ ProgramEnds
  PROVE  ScopesInv'
<1>1. /\ todo # <<>> /\ Head(todo).act \in {"expr", "cases", "stmt", "stmts", "funcs"}
      /\ Head(todo).act \in {"stmt", "stmts"} => in_function
  <2>1. /\ todo # <<>> /\ Head(todo).act \in {"expr", "cases", "stmt", "stmts", "funcs"}
    BY DEF Constant, IdentExpression, Binop, Ternary, Assignment, FuncCall, AddrGet, Match,
           MatchCases, ExpressionStatement, Empty, Return, Statements, If, ProgramEnds,
           Visit, At
  <2>2. 1 \in DOMAIN todo /\ Head(todo) = todo[1]
    BY <2>1 DEF ScopesInv, Typed
  <2> QED BY <2>1, <2>2 DEF ScopesInv, Arranged
<1>2. ASSUME NEW s \in Seq(Item), \A i \in DOMAIN s : Child(s[i]), Plain(s)
      PROVE  ScopesInv'
  BY <1>1, <1>2, ChildrenStep
<1>3. Plain(<<>>) => ScopesInv'
  BY ONLY <1>2, Scripts
<1>4. ASSUME NEW a, Child(a), Plain(<<a>>)
      PROVE  ScopesInv'
  BY ONLY <1>2, <1>4, Scripts
<1>5. ASSUME NEW a, NEW b, Child(a), Child(b), Plain(<<a, b>>)
      PROVE  ScopesInv'
  BY ONLY <1>2, <1>5, Scripts
<1>6. ASSUME NEW a, NEW b, NEW c, Child(a), Child(b), Child(c), Plain(<<a, b, c>>)
      PROVE  ScopesInv'
  BY ONLY <1>2, <1>6, Scripts
<1>7. CASE Constant \/ Empty \/ ProgramEnds
  BY <1>3, <1>7 DEF Constant, Empty, ProgramEnds
<1>8. CASE IdentExpression
  BY <1>4, <1>8, Children DEF IdentExpression
<1>9. CASE Binop
  BY <1>5, <1>9, Children DEF Binop
<1>10. CASE Ternary
  BY <1>6, <1>10, Children DEF Ternary
<1>11. CASE Assignment
  BY <1>5, <1>11, Children DEF Assignment
<1>12. CASE FuncCall
  <2>1. PICK x \in Names :
          Plain((IF x \in Functions \cup Builtins THEN <<>> ELSE <<Use(x)>>) \o <<Expr>>)
    BY <1>12 DEF FuncCall
  <2> DEFINE s == IF x \in Functions \cup Builtins THEN <<>> ELSE <<Use(x)>>
  <2>2. s \in Seq(Item) /\ \A i \in DOMAIN s : Child(s[i])
    BY Scripts, Children
  <2>3. <<Expr>> \in Seq(Item) /\ \A i \in DOMAIN <<Expr>> : Child(<<Expr>>[i])
    BY Scripts, Children
  <2> QED BY <1>2, <2>1, <2>2, <2>3, ChildrenJoined
<1>13. CASE AddrGet
  <2>1. PICK x \in Names : Plain(IF x \in Functions THEN <<>> ELSE <<Use(x)>>)
    BY <1>13 DEF AddrGet
  <2>2. Plain(<<>>) \/ Plain(<<Use(x)>>)
    BY ONLY <2>1
  <2> QED BY <1>3, <1>4, <2>2, Children
<1>14. CASE Match
  BY <1>6, <1>14, Children DEF Match
<1>15. CASE MatchCases
  BY <1>3, <1>4, <1>5, <1>15, Children DEF MatchCases
<1>16. CASE ExpressionStatement \/ Return
  BY <1>3, <1>4, <1>16, Children DEF ExpressionStatement, Return
<1>17. CASE Statements
  <2>1. in_function
    BY <1>1, <1>17 DEF Statements, At
  <2> QED BY <1>3, <1>5, <1>17, <2>1, Children DEF Statements
<1>18. CASE If
  <2>1. in_function
    BY <1>1, <1>18 DEF If, Visit, At
  <2> QED BY <1>5, <1>6, <1>18, <2>1, Children DEF If
<1> QED BY <1>7, <1>8, <1>9, <1>10, <1>11, <1>12, <1>13, <1>14, <1>15, <1>16, <1>17, <1>18

(***************************************************************************)
(* Declarations.                                                           *)
(***************************************************************************)
Declares(s, x) ==
  /\ s \in Seq(Item) /\ Len(s) >= 1 /\ s[1] = Declare(x)
  /\ \A i \in DOMAIN s : i # 1 => Child(s[i])

(* What the declaration of x unfolds to declares x first.                  *)
LEMMA DeclarationScripts ==
  ASSUME NEW x \in Names, NEW s \in Declaration(x)
  PROVE  Declares(s, x)
<1>1. PICK size \in {<<>>, <<Expr>>}, init \in {<<>>, <<Use(x), Expr>>} :
        s = <<Declare(x)>> \o size \o init
  BY DEF Declaration
<1>2. ASSUME NEW a, Declares(a, x), NEW t \in Seq(Item), \A i \in DOMAIN t : Child(t[i])
      PROVE  Declares(a \o t, x)
  <2>1. a \in Seq(Item) /\ Len(a) \in Nat /\ Len(a) >= 1 /\ 1 \in DOMAIN a
    BY <1>2 DEF Declares
  <2>2. /\ a \o t \in Seq(Item) /\ Len(a \o t) >= 1 /\ (a \o t)[1] = a[1]
        /\ \A k \in DOMAIN (a \o t) :
             \/ k \in DOMAIN a /\ (a \o t)[k] = a[k]
             \/ k - Len(a) \in DOMAIN t /\ (a \o t)[k] = t[k - Len(a)]
    <3>1. Len(t) \in Nat
      OBVIOUS
    <3> QED BY <2>1, <3>1, Appended
  <2> QED BY <1>2, <2>2 DEF Declares
<1>3. Declare(x) \in Item
  BY ItemTypes
<1>4. Declares(<<Declare(x)>>, x)
  BY <1>3 DEF Declares
<1>5. /\ size \in Seq(Item) /\ \A i \in DOMAIN size : Child(size[i])
      /\ init \in Seq(Item) /\ \A i \in DOMAIN init : Child(init[i])
  BY Scripts, Children
<1> QED BY <1>1, <1>2, <1>4, <1>5

(* A declaration in a function.                                            *)
LEMMA LocalDeclarationStep ==
  ASSUME ScopesInv, LocalDeclaration
  PROVE  ScopesInv'
<1>0. PICK x \in Names : \E s \in Declaration(x) : Plain(s)
  BY DEF LocalDeclaration
<1>1. PICK s \in Declaration(x) : Plain(s)
  BY <1>0
<1>2. Head(todo).act = "stmt" /\ todo # <<>>
  BY DEF LocalDeclaration, Visit, At
<1>3. in_function
  BY <1>2 DEF ScopesInv, Typed, Arranged
<1>4. Declares(s, x)
  BY DeclarationScripts
<1>6. s \in Seq(Item)
  BY <1>4 DEF Declares
<1>7. \A i \in DOMAIN s : (i = 1 /\ s[i] = Declare(x)) \/ Child(s[i])
  BY <1>4 DEF Declares
<1>8. \A i \in DOMAIN s :
        /\ s[i].act \in {"declare", "expr", "cases", "temp", "use", "stmt", "stmts"}
        /\ s[i].nest = 0 /\ s[i].loop = 0
        /\ s[i].act \in {"use", "declare"} => s[i].name \in Names
  BY <1>7 DEF Child, Declare, Do
<1>9. Fits(s)
  BY <1>1, <1>2, <1>3, <1>8 DEF Fits, Plain, SamePlace
<1> QED BY <1>1, <1>2, <1>6, <1>8, <1>9, PlainStep

(* The globals, and what follows them.                                     *)
LEMMA GlobalDeclarationsStep ==
  ASSUME ScopesInv, GlobalDeclarations
  PROVE  ScopesInv'
<1>1. Head(todo).act = "globals" /\ todo # <<>>
  BY DEF GlobalDeclarations, At
<1>2. Len(todo) = 1
  <2>1. 1 \in DOMAIN todo /\ Head(todo) = todo[1]
    BY <1>1 DEF ScopesInv, Typed
  <2>2. todo[1].act \in {"globals", "funcs"} => 1 = Len(todo)
    BY <2>1 DEF ScopesInv, Arranged
  <2> QED BY <1>1, <2>1, <2>2
<1>3. CASE Plain(<<Funcs(1)>>)
  <2>1. Funcs(1) \in Item /\ <<Funcs(1)>> \in Seq(Item)
    BY ItemTypes
  <2>2. Fits(<<Funcs(1)>>)
    BY <1>1, <1>2, <1>3 DEF Fits, Plain, SamePlace, Funcs, Do
  <2>3. \A i \in DOMAIN <<Funcs(1)>> : <<Funcs(1)>>[i].act \notin {"leave", "declare"}
    BY DEF Funcs, Do
  <2> QED BY <1>1, <1>3, <2>1, <2>2, <2>3, PlainStep
<1>4. ASSUME NEW x \in Names, NEW t \in Declaration(x),
             Plain(t \o <<Globals>>)
      PROVE  ScopesInv'
  <2> DEFINE s == t \o <<Globals>>
  <2>1. Declares(t, x)
    BY DeclarationScripts
  <2>2. /\ t \in Seq(Item) /\ <<Globals>> \in Seq(Item) /\ Len(t) \in Nat
        /\ Len(<<Globals>>) = 1 /\ <<Globals>>[1] = Globals
    BY <2>1, ItemTypes DEF Declares
  <2>3. /\ s \in Seq(Item)
        /\ \A k \in DOMAIN s : \/ k \in DOMAIN t /\ s[k] = t[k]
                               \/ k = Len(s) /\ s[k] = Globals
    BY <2>2, Appended
  <2>4. \A k \in DOMAIN s : \/ k = 1 /\ s[k] = Declare(x)
                            \/ Child(s[k])
                            \/ k = Len(s) /\ s[k] = Globals
    BY <2>1, <2>3 DEF Declares
  <2> HIDE DEF s
  <2>5. \A i \in DOMAIN s :
          /\ s[i].act \in {"declare", "expr", "cases", "temp", "use", "stmt", "stmts", "globals"}
          /\ s[i].nest = 0 /\ s[i].loop = 0
          /\ s[i].act \in {"use", "declare"} => s[i].name \in Names
          /\ s[i].act = "globals" => i = Len(s)
          /\ s[i].act \in {"stmt", "stmts"} => in_function
    BY <2>4 DEF Child, Declare, Globals, Do
  <2>6. Plain(s)
    BY <1>4 DEF s
  <2>7. Fits(s)
    BY <1>1, <1>2, <2>5, <2>6 DEF Fits, Plain, SamePlace
  <2> QED BY <1>1, <2>3, <2>5, <2>6, <2>7, PlainStep DEF s
<1> QED BY <1>3, <1>4 DEF GlobalDeclarations

(***************************************************************************)
(* Scopes and loops.                                                       *)
(***************************************************************************)
LEMMA EnterStep ==
  ASSUME ScopesInv, NEW nest \in {0, 1}, NEW loop \in {0, 1}, NEW form,
         NEW t \in Seq(Item), Enter(form, nest, loop, t),
         \A i \in DOMAIN t : Child(t[i]) \/ \E x \in Names : t[i] = Declare(x)
  PROVE  ScopesInv'
<1> DEFINE s == t \o <<Leave(nest, loop)>>
<1>1. Head(todo).act = "stmt" /\ todo # <<>>
  BY DEF Enter, Visit, At
<1>2. in_function
  BY <1>1 DEF ScopesInv, Typed, Arranged
<1>3. /\ <<Leave(nest, loop)>> \in Seq(Item) /\ Len(<<Leave(nest, loop)>>) = 1
      /\ <<Leave(nest, loop)>>[1] = Leave(nest, loop) /\ Len(t) \in Nat
  BY ItemTypes DEF ScopesInv
<1>4. /\ s \in Seq(Item) /\ Len(s) = Len(t) + 1 /\ \A k \in DOMAIN t : s[k] = t[k]
      /\ \A k \in DOMAIN s : \/ k \in DOMAIN t /\ s[k] = t[k]
                             \/ k = Len(s) /\ s[k] = Leave(nest, loop)
      /\ Len(s) \in DOMAIN s /\ s[Len(s)] = Leave(nest, loop)
  BY <1>3, Appended
<1>5. \A k \in DOMAIN s :
        \/ k \in DOMAIN t /\ Child(s[k])
        \/ \E x \in Names : s[k] = Declare(x)
        \/ k = Len(s) /\ s[k] = Leave(nest, loop)
  BY <1>4
<1>6. /\ todo' = s \o Tail(todo) /\ SameSlots /\ SamePlace
      /\ nest_depth' = nest_depth + nest /\ loop_depth' = loop_depth + loop
  BY DEF Enter, Unfold
<1> HIDE DEF s
<1>7. \A k \in DOMAIN s :
        /\ s[k].act \in {"declare", "expr", "cases", "temp", "use", "stmt", "stmts", "leave"}
        /\ s[k].act # "leave" => s[k].nest = 0 /\ s[k].loop = 0
        /\ s[k].act = "leave" => k = Len(s) /\ s[k] = Leave(nest, loop)
        /\ s[k].act \in {"use", "declare"} => s[k].name \in Names
  BY <1>5 DEF Child, Declare, Leave, Do
<1>8. Fits(s)
  BY <1>1, <1>2, <1>6, <1>7 DEF Fits, SamePlace
<1>9. /\ OwnScopes(s) = IF nest = 1 THEN {Len(s)} ELSE {}
      /\ OwnLoops(s) = IF loop = 1 THEN {Len(s)} ELSE {}
      /\ \A k \in OwnScopes(s) : s[k].n = Len(locals)
  <2>1. \A k \in DOMAIN s : s[k].nest = 1 <=> nest = 1 /\ k = Len(s)
    BY <1>4, <1>7 DEF Leave
  <2>2. \A k \in DOMAIN s : s[k].loop = 1 <=> loop = 1 /\ k = Len(s)
    BY <1>4, <1>7 DEF Leave
  <2>3. s[Len(s)].n = Len(locals) /\ Len(s) \in DOMAIN s
    BY <1>4 DEF Leave
  <2> QED BY ONLY <2>1, <2>2, <2>3 DEF OwnScopes, OwnLoops
<1>10. /\ nest_depth' = nest_depth + (IF OwnScopes(s) = {} THEN 0 ELSE 1)
       /\ loop_depth' = loop_depth + (IF OwnLoops(s) = {} THEN 0 ELSE 1)
  BY <1>6, <1>9
<1>11. s \in Seq(Item)
  BY <1>4
<1> QED BY <1>1, <1>6, <1>8, <1>9, <1>10, <1>11, SameIdent, ScriptStep

(* The statements that open scopes and loops.                              *)
LEMMA EnterActions ==
  ASSUME ScopesInv, Compound \/ While \/ DoWhile \/ For \/ ForEach
  PROVE  ScopesInv'
<1>1. in_function
  <2>1. Head(todo).act = "stmt" /\ todo # <<>>
    BY DEF Compound, While, DoWhile, For, ForEach, Enter, Visit, At
  <2> QED BY <2>1 DEF ScopesInv, Typed, Arranged
<1>2. ASSUME NEW nest \in {0, 1}, NEW loop \in {0, 1}, NEW form, NEW t \in Seq(Item),
             Enter(form, nest, loop, t), \A i \in DOMAIN t : Child(t[i])
      PROVE  ScopesInv'
  BY <1>2, EnterStep
<1>3. /\ Child(Expr) /\ Child(Stmt) /\ Child(Stmts)
      /\ Expr \in Item /\ Stmt \in Item /\ Stmts \in Item
  BY <1>1, Children, ItemTypes
<1>4. CASE Compound
  <2>1. <<Stmts>> \in Seq(Item) /\ \A i \in DOMAIN <<Stmts>> : Child(<<Stmts>>[i])
    BY <1>3
  <2> QED BY <1>2, <1>4, <2>1 DEF Compound
<1>5. CASE While
  <2>1. /\ <<Expr, Stmt>> \in Seq(Item)
        /\ \A i \in DOMAIN <<Expr, Stmt>> : Child(<<Expr, Stmt>>[i])
    BY <1>3
  <2> QED BY <1>2, <1>5, <2>1 DEF While
<1>6. CASE DoWhile
  <2>1. /\ <<Stmt, Expr>> \in Seq(Item)
        /\ \A i \in DOMAIN <<Stmt, Expr>> : Child(<<Stmt, Expr>>[i])
    BY <1>3
  <2> QED BY <1>2, <1>6, <2>1 DEF DoWhile
<1>7. CASE For
  <2>1. /\ <<Stmt, Expr, Expr, Stmt>> \in Seq(Item)
        /\ \A i \in DOMAIN <<Stmt, Expr, Expr, Stmt>> : Child(<<Stmt, Expr, Expr, Stmt>>[i])
    BY <1>3
  <2> QED BY <1>2, <1>7, <2>1 DEF For
<1>8. CASE ForEach
  <2>1. PICK x \in Names, array \in Names :
          Enter("foreach", 1, 1,
                <<Use(array), Declare(x), Temp, Use(x), Use(array), Use(x), Stmt>>)
    BY <1>8 DEF ForEach
  <2> DEFINE t == <<Use(array), Declare(x), Temp, Use(x), Use(array), Use(x), Stmt>>
  <2>3. /\ Use(x) \in Item /\ Use(array) \in Item /\ Declare(x) \in Item /\ Temp \in Item
        /\ Child(Use(x)) /\ Child(Use(array)) /\ Child(Temp)
    BY ItemTypes, Children
  <2>4. t \in Seq(Item)
    BY <1>3, <2>3
  <2>5. \A i \in DOMAIN t : Child(t[i]) \/ t[i] = Declare(x)
    BY <1>3, <2>3
  <2> HIDE DEF t
  <2>6. Enter("foreach", 1, 1, t)
    BY <2>1 DEF t
  <2> QED BY <2>4, <2>5, <2>6, EnterStep
<1> QED BY <1>4, <1>5, <1>6, <1>7, <1>8

(***************************************************************************)
(* The handlers that end or that change slots.                             *)
(***************************************************************************)
LEMMA EmptyFits ==
  ASSUME in_function => in_function' \/ Head(todo).act = "return"
  PROVE  <<>> \in Seq(Item) /\ Fits(<<>>) /\ OwnScopes(<<>>) = {} /\ OwnLoops(<<>>) = {}
BY DEF Fits, OwnScopes, OwnLoops

(* What is left of todo when its head is done.                             *)
LEMMA EmptyStep ==
  ASSUME ScopesInv, todo # <<>>, Unfold(<<>>),
         in_function => in_function' \/ Head(todo).act = "return"
  PROVE  todo' \in Seq(Item) /\ Arranged'
<1>1. <<>> \in Seq(Item) /\ Fits(<<>>) /\ todo' = <<>> \o Tail(todo)
  BY EmptyFits DEF Unfold
<1> QED BY <1>1, Unfolded DEF ScopesInv

(* A done head that was not the end of a scope leaves the depths balanced. *)
LEMMA SameDepthsStep ==
  ASSUME Typed, Arranged, DepthsBalanced, todo # <<>>, Unfold(<<>>), Fits(<<>>),
         Head(todo).nest = 0, Head(todo).loop = 0,
         nest_depth' = nest_depth, loop_depth' = loop_depth
  PROVE  DepthsBalanced'
<1>1. <<>> \in Seq(Item) /\ OwnScopes(<<>>) = {} /\ OwnLoops(<<>>) = {}
  BY DEF OwnScopes, OwnLoops
<1>2. nest_depth \in Nat /\ loop_depth \in Nat
  BY DEF Typed
<1>3. /\ nest_depth' = nest_depth - (IF Head(todo).nest = 1 THEN 1 ELSE 0)
                                  + (IF OwnScopes(<<>>) = {} THEN 0 ELSE 1)
      /\ loop_depth' = loop_depth - (IF Head(todo).loop = 1 THEN 1 ELSE 0)
                                  + (IF OwnLoops(<<>>) = {} THEN 0 ELSE 1)
  BY <1>1, <1>2
<1> QED BY <1>1, <1>3, DepthsStep DEF Unfold

(* The smallest slot exists.                                               *)
LEMMA FirstIsLeast ==
  ASSUME NEW S \in SUBSET Nat, S # {}
  PROVE  First(S) \in S /\ \A j \in S : First(S) <= j
<1>1. PICK i \in S : \A j \in S : ~(<<j, i>> \in OpToRel(<, Nat))
  BY NatLessThanWellFounded, WFMin
<1>2. ASSUME NEW a \in Nat, NEW b \in Nat, a < b
      PROVE  <<a, b>> \in OpToRel(<, Nat)
  BY <1>2 DEF OpToRel
<1>3. ASSUME NEW j \in S
      PROVE  i <= j
  <2>1. i \in Nat /\ j \in Nat /\ ~(j < i)
    BY <1>1, <1>2
  <2> QED BY <2>1
<1> QED BY <1>3 DEF First

(* An identifier that is found gets a slot or a global.                    *)
LEMMA IdentifierStep ==
  ASSUME ScopesInv, Identifier
  PROVE  ScopesInv'
<1> DEFINE x == Head(todo).name
<1>1. todo # <<>> /\ Head(todo).act = "use"
  BY DEF Identifier, At
<1>2. x \in Names
  BY <1>1 DEF ScopesInv, Typed, Arranged
<1>3. ASSUME NEW kind \in Kind, NEW id \in Nat,
             ident' = [name |-> x, kind |-> kind, id |-> id],
             Unfold(<<>>), UNCHANGED <<locals, globals, live>>, SameDepths, SamePlace
      PROVE  ScopesInv'
  <2>1. ident' \in Ident
    BY <1>2, <1>3 DEF Ident
  <2>3. <<>> \in Seq(Item) /\ Fits(<<>>) /\ OwnScopes(<<>>) = {} /\ OwnLoops(<<>>) = {}
    BY <1>3, EmptyFits DEF SamePlace
  <2>4. /\ nest_depth' = nest_depth + (IF OwnScopes(<<>>) = {} THEN 0 ELSE 1)
        /\ loop_depth' = loop_depth + (IF OwnLoops(<<>>) = {} THEN 0 ELSE 1)
    BY <1>3, <2>3 DEF SameDepths, ScopesInv, Typed
  <2> QED BY <1>1, <1>3, <2>1, <2>3, <2>4, ScriptStep DEF Unfold
<1>4. CASE Found(x) # {}
  <2>1. Found(x) \in SUBSET Nat
    BY DEF Found, Slots
  <2>2. find_local(x) \in Nat
    BY <1>4, <2>1, FirstIsLeast DEF find_local
  <2> QED BY <1>3, <1>4, <2>2 DEF Identifier, Kind
<1>5. CASE Found(x) = {} /\ GlobalIds(x) # {}
  <2>1. GlobalIds(x) \in SUBSET Nat
    BY DEF GlobalIds
  <2>2. find_global(x) \in Nat
    BY <1>5, <2>1, FirstIsLeast DEF find_global
  <2> QED BY <1>3, <1>5, <2>2 DEF Identifier, Kind
<1>6. CASE Found(x) = {} /\ GlobalIds(x) = {}
  BY <1>6, StopStep DEF Identifier, Stop, SameDepths, SameSlots, SamePlace
<1> QED BY <1>4, <1>5, <1>6

(* A new slot belongs to what is declared, or to a temporary.              *)
LEMMA AddedStep ==
  ASSUME ScopesInv, todo # <<>>, Unfold(<<>>),
         NEW x \in Names \cup {Garbage}, NEW temp \in BOOLEAN, Added(x, temp),
         Head(todo).act \in {"declare", "temp"}, current_function # 0
  PROVE  ScopesInv'
<1> DEFINE r == [name |-> x, nest_depth |-> nest_depth, temp |-> temp]
<1>1. Typed /\ Arranged /\ InScopes /\ DepthsBalanced
  BY DEF ScopesInv
<1>2. /\ locals' = Append(locals, r) /\ live' = IF temp THEN live ELSE live \cup {Len(locals)}
      /\ globals' = globals /\ ident' = ident
      /\ nest_depth' = nest_depth /\ loop_depth' = loop_depth
      /\ in_function' = in_function /\ current_function' = current_function
  BY DEF Added, SameDepths, SamePlace
<1>3. /\ todo' \in Seq(Item) /\ Arranged'
  BY <1>2, EmptyStep
<1>4. <<>> \in Seq(Item) /\ Fits(<<>>) /\ OwnScopes(<<>>) = {} /\ OwnLoops(<<>>) = {}
  BY <1>2, EmptyFits
<1>5. r \in Local /\ locals \in Seq(Local) /\ nest_depth \in Nat /\ loop_depth \in Nat
  BY <1>1 DEF Typed, Local
<1> HIDE DEF r
<1>6. /\ locals' \in Seq(Local) /\ Len(locals') = Len(locals) + 1 /\ Len(locals) \in Nat
      /\ DOMAIN locals = 1 .. Len(locals) /\ DOMAIN locals' = 1 .. Len(locals) + 1
      /\ \A i \in DOMAIN locals : locals'[i] = locals[i]
      /\ locals'[Len(locals) + 1] = r
  BY <1>2, <1>5
<1>7. /\ \A i \in Slots : i \in Nat /\ i < Len(locals) /\ i \in Slots' /\ Slot(i)' = Slot(i)
      /\ \A i : i = Len(locals) => i \in Slots' /\ Slot(i)' = r
  <2>1. Slots = 0 .. Len(locals) - 1 /\ Slots' = 0 .. Len(locals') - 1
    BY DEF Slots
  <2>2. ASSUME NEW i \in Slots
        PROVE  i \in Nat /\ i < Len(locals) /\ i \in Slots' /\ locals'[i + 1] = locals[i + 1]
    BY <1>6, <2>1, <2>2
  <2>3. Len(locals) \in Slots'
    BY <1>6, <2>1
  <2> QED BY <1>6, <2>2, <2>3 DEF Slot
<1>8. Typed'
  <2>1. live' \subseteq Slots'
    BY <1>1, <1>2, <1>7 DEF Typed
  <2> QED BY <1>1, <1>2, <1>3, <1>6, <2>1 DEF Typed
<1>9. DepthsBalanced'
  <2>1. Head(todo).nest = 0 /\ Head(todo).loop = 0
    BY <1>1 DEF Typed, Arranged
  <2> QED BY <1>1, <1>2, <1>4, <2>1, SameDepthsStep
<1>11. InScopes'
  <2>1. \A i \in live : i \in Slots
    BY <1>1 DEF Typed
  <2>2. ~temp => ~r.temp /\ r.nest_depth <= nest_depth
    BY <1>5 DEF r
  <2>3. \A i \in live' : ~Slot(i)'.temp /\ Slot(i)'.nest_depth <= nest_depth'
    BY <1>1, <1>2, <1>7, <2>1, <2>2 DEF InScopes
  <2>4. \A i \in live' : (i \in live /\ Slot(i)' = Slot(i)) \/ i >= Len(locals)
    BY <1>2, <1>6, <1>7, <2>1
  <2>5. live' \subseteq Nat
    BY <1>2, <1>6, <1>7, <2>1
  <2>6. Len(locals') >= Len(locals)
    BY <1>6
  <2> QED BY <1>1, <1>2, <1>4, <1>6, <2>3, <2>4, <2>5, <2>6, InScopesStep DEF Unfold
<1> QED BY <1>3, <1>8, <1>9, <1>11 DEF ScopesInv

(* A temporary has no name.                                                *)
LEMMA CreateTemporaryStep ==
  ASSUME ScopesInv, CreateTemporary
  PROVE  ScopesInv'
<1>1. todo # <<>> /\ Head(todo).act = "temp"
  BY DEF CreateTemporary, At
<1>2. CASE Plain(<<>>)
  BY <1>1, <1>2, Scripts, ChildrenStep
<1>3. CASE Stop("crashed")
  BY <1>3, StopStep DEF Stop, SameDepths, SameSlots, SamePlace
<1>4. CASE current_function # 0 /\ Added(Garbage, TRUE) /\ Unfold(<<>>)
  BY <1>1, <1>4, AddedStep
<1> QED BY <1>2, <1>3, <1>4 DEF CreateTemporary

(* The declared variable is a local or a global one.                       *)
LEMMA VariableDeclaredStep ==
  ASSUME ScopesInv, VariableDeclared
  PROVE  ScopesInv'
<1> DEFINE x == Head(todo).name
<1>1. todo # <<>> /\ Head(todo).act = "declare" /\ Unfold(<<>>)
  BY DEF VariableDeclared, At
<1>2. Typed /\ Arranged /\ InScopes /\ DepthsBalanced
  BY DEF ScopesInv
<1>3. 1 \in DOMAIN todo /\ todo[1] = Head(todo)
  BY <1>1, <1>2 DEF Typed
<1>4. x \in Names
  BY <1>1, <1>2, <1>3 DEF Arranged
<1>5. CASE in_function
  <2>1. Added(x, FALSE)
    BY <1>5 DEF VariableDeclared
  <2>2. current_function # 0
    BY <1>2, <1>5 DEF InScopes
  <2> QED BY <1>1, <1>4, <2>1, <2>2, AddedStep
<1>6. CASE ~in_function
  <2>1. /\ globals' = Append(globals, x) /\ locals' = locals /\ live' = live /\ ident' = ident
        /\ nest_depth' = nest_depth /\ loop_depth' = loop_depth
        /\ in_function' = in_function /\ current_function' = current_function
    BY <1>6 DEF VariableDeclared, SameDepths, SamePlace
  <2>2. /\ todo' \in Seq(Item) /\ Arranged'
    BY <1>1, <2>1, EmptyStep
  <2>3. <<>> \in Seq(Item) /\ Fits(<<>>) /\ OwnScopes(<<>>) = {} /\ OwnLoops(<<>>) = {}
    BY <2>1, EmptyFits
  <2>4. /\ globals \in Seq(Names) /\ globals' \in Seq(Names)
        /\ \A g \in DOMAIN globals' : \/ g \in DOMAIN globals /\ globals'[g] = globals[g]
                                      \/ g = Len(globals) + 1 /\ globals'[g] = x
    BY <1>2, <1>4, <2>1 DEF Typed
  <2>5. Typed'
    BY <1>2, <2>1, <2>2, <2>4 DEF Typed, Slots
  <2>6. DepthsBalanced'
    <3>1. Head(todo).nest = 0 /\ Head(todo).loop = 0
      BY <1>1, <1>2, <1>3 DEF Arranged
    <3> QED BY <1>1, <1>2, <2>1, <2>3, <3>1, SameDepthsStep
  <2>8. InScopes'
    <3>1. locals' \in Seq(Local) /\ Len(locals') >= Len(locals) /\ live' \subseteq Nat
      BY <1>2, <2>1 DEF Typed, Slots
    <3>2. \A i \in live' : ~Slot(i)'.temp /\ Slot(i)'.nest_depth <= nest_depth'
      BY <1>2, <2>1 DEF InScopes, Slot
    <3>3. \A i \in live' : (i \in live /\ Slot(i)' = Slot(i)) \/ i >= Len(locals)
      BY <2>1 DEF Slot
    <3>4. in_function' \/ live' # {} => current_function' # 0
      BY <1>2, <2>1 DEF InScopes
    <3> QED BY <1>1, <1>2, <2>3, <3>1, <3>2, <3>3, <3>4, InScopesStep DEF Unfold
  <2> QED BY <2>2, <2>5, <2>6, <2>8 DEF ScopesInv
<1> QED BY <1>5, <1>6

(* What was declared in the scope is not live any more.                    *)
LEMMA LeaveScopeStep ==
  ASSUME ScopesInv, LeaveScope
  PROVE  ScopesInv'
<1>1. todo # <<>> /\ Head(todo).act = "leave" /\ Unfold(<<>>)
  BY DEF LeaveScope, At
<1>2. Typed /\ Arranged /\ InScopes /\ DepthsBalanced
  BY DEF ScopesInv
<1>3. 1 \in DOMAIN todo /\ todo[1] = Head(todo) /\ Head(todo) \in Item
  BY <1>1, <1>2 DEF Typed
<1>4. /\ locals' = locals /\ globals' = globals /\ ident' = ident
      /\ in_function' = in_function /\ current_function' = current_function
      /\ nest_depth' = nest_depth - Head(todo).nest
      /\ loop_depth' = loop_depth - Head(todo).loop
      /\ live' = IF Head(todo).nest = 1 THEN {i \in live : i < Head(todo).n} ELSE live
  BY DEF LeaveScope, SamePlace
<1>5. /\ todo' \in Seq(Item) /\ Arranged'
  BY <1>1, <1>4, EmptyStep
<1>6. <<>> \in Seq(Item) /\ Fits(<<>>) /\ OwnScopes(<<>>) = {} /\ OwnLoops(<<>>) = {}
  BY <1>4, EmptyFits
<1>7. Head(todo).nest \in {0, 1} /\ Head(todo).loop \in {0, 1}
  BY <1>3 DEF Item
<1>8. /\ nest_depth \in Nat /\ loop_depth \in Nat
      /\ nest_depth' = nest_depth - (IF Head(todo).nest = 1 THEN 1 ELSE 0)
                                  + (IF OwnScopes(<<>>) = {} THEN 0 ELSE 1)
      /\ loop_depth' = loop_depth - (IF Head(todo).loop = 1 THEN 1 ELSE 0)
                                  + (IF OwnLoops(<<>>) = {} THEN 0 ELSE 1)
  <2>1. nest_depth \in Nat /\ loop_depth \in Nat
    BY <1>2 DEF Typed
  <2> QED BY ONLY <1>4, <1>6, <1>7, <2>1
<1>9. DepthsBalanced' /\ nest_depth' \in Nat /\ loop_depth' \in Nat
  BY <1>1, <1>2, <1>6, <1>8, DepthsStep DEF Unfold
<1>10. live' \subseteq live /\ live \subseteq Slots /\ live' \subseteq Nat
  <2>1. live' \subseteq live
    BY ONLY <1>4
  <2>2. live \subseteq Slots
    BY <1>2 DEF Typed
  <2>3. Slots \subseteq Nat
    BY DEF Slots
  <2> QED BY <2>1, <2>2, <2>3
<1>11. Typed'
  BY <1>2, <1>4, <1>5, <1>9, <1>10 DEF Typed, Slots
<1>14. InScopes'
  <2>1. \A i \in live' : ~Slot(i).temp /\ Slot(i).nest_depth <= nest_depth'
    <3>1. CASE Head(todo).nest = 1
      <4>1. 1 \in OpenScopes
        BY <1>3, <3>1 DEF OpenScopes
      <4>2. nest_depth = Cardinality(OpenScopes)
        BY <1>2 DEF DepthsBalanced
      <4>3. Cardinality(After(OpenScopes, 1)) =
              Cardinality(OpenScopes) - (IF Head(todo).nest = 1 THEN 1 ELSE 0)
        BY <1>1, <1>2, <1>6, Opened DEF Unfold
      <4>4. Cardinality(After(OpenScopes, 1)) = nest_depth'
        BY ONLY <1>4, <3>1, <4>2, <4>3
      <4>5. \A i \in live : i < Head(todo).n =>
              Slot(i).nest_depth <= Cardinality(After(OpenScopes, 1))
        BY <1>2, <1>3, <4>1 DEF InScopes
      <4>6. \A i \in live' : i \in live /\ i < Head(todo).n
        BY <1>4, <3>1
      <4>7. \A i \in live : ~Slot(i).temp
        BY <1>2 DEF InScopes
      <4> QED BY ONLY <4>4, <4>5, <4>6, <4>7
    <3>2. CASE Head(todo).nest # 1
      <4>1. live' = live /\ nest_depth' = nest_depth
        BY <1>4, <1>7, <1>8, <3>2
      <4> QED BY <1>2, <4>1 DEF InScopes
    <3> QED BY <3>1, <3>2
  <2>2. \A i \in live' : ~Slot(i)'.temp /\ Slot(i)'.nest_depth <= nest_depth'
    BY <1>4, <2>1 DEF Slot
  <2>3. \A i \in live' : (i \in live /\ Slot(i)' = Slot(i)) \/ i >= Len(locals)
    BY <1>4, <1>10 DEF Slot
  <2>4. in_function' \/ live' # {} => current_function' # 0
    BY <1>2, <1>4, <1>10 DEF InScopes
  <2>5. locals' \in Seq(Local) /\ Len(locals') >= Len(locals)
    BY <1>2, <1>4 DEF Typed
  <2> QED BY <1>1, <1>2, <1>6, <1>10, <2>2, <2>3, <2>4, <2>5, InScopesStep DEF Unfold
<1> QED BY <1>5, <1>9, <1>11, <1>14 DEF ScopesInv

(* The slots of a function outlive it, the flag does not.                  *)
LEMMA FunctionEndsStep ==
  ASSUME ScopesInv, FunctionEnds
  PROVE  ScopesInv'
<1>1. todo # <<>> /\ Head(todo).act = "return" /\ Unfold(<<>>)
  BY DEF FunctionEnds, At
<1>2. Typed /\ Arranged /\ InScopes /\ DepthsBalanced
  BY DEF ScopesInv
<1>3. /\ locals' = locals /\ globals' = globals /\ ident' = ident /\ live' = live
      /\ in_function' = FALSE /\ current_function' = current_function
      /\ nest_depth' = nest_depth /\ loop_depth' = loop_depth
  BY DEF FunctionEnds, SameDepths, SameSlots
<1>4. /\ todo' \in Seq(Item) /\ Arranged'
  BY <1>1, <1>3, EmptyStep
<1>5. <<>> \in Seq(Item) /\ Fits(<<>>) /\ OwnScopes(<<>>) = {} /\ OwnLoops(<<>>) = {}
  BY <1>1, EmptyFits
<1>6. DepthsBalanced'
  <2>1. Head(todo).nest = 0 /\ Head(todo).loop = 0
    BY <1>1, <1>2 DEF Typed, Arranged
  <2> QED BY <1>1, <1>2, <1>3, <1>5, <2>1, SameDepthsStep
<1>7. Typed'
  BY <1>2, <1>3, <1>4 DEF Typed, Slots
<1>10. InScopes'
  <2>1. locals' \in Seq(Local) /\ Len(locals') >= Len(locals) /\ live' \subseteq Nat
    BY <1>2, <1>3 DEF Typed, Slots
  <2>2. \A i \in live' : ~Slot(i)'.temp /\ Slot(i)'.nest_depth <= nest_depth'
    BY <1>2, <1>3 DEF InScopes, Slot
  <2>3. \A i \in live' : (i \in live /\ Slot(i)' = Slot(i)) \/ i >= Len(locals)
    BY <1>3 DEF Slot
  <2>4. in_function' \/ live' # {} => current_function' # 0
    BY <1>2, <1>3 DEF InScopes
  <2> QED BY <1>1, <1>2, <1>5, <2>1, <2>2, <2>3, <2>4, InScopesStep DEF Unfold
<1> QED BY <1>4, <1>6, <1>7, <1>10 DEF ScopesInv

(* A function begins with nothing left over from the one before it.        *)
LEMMA FunctionStep ==
  ASSUME ScopesInv, Function
  PROVE  ScopesInv'
<1> DEFINE n == Head(todo).n
<1>1. todo # <<>> /\ Head(todo).act = "funcs" /\ n <= Len(Params)
  BY DEF Function, At
<1>2. Typed /\ Arranged /\ InScopes /\ DepthsBalanced
  BY DEF ScopesInv
<1>3. /\ 1 \in DOMAIN todo /\ todo[1] = Head(todo) /\ Head(todo) \in Item
      /\ DOMAIN todo = 1 .. Len(todo)
  BY <1>1, <1>2 DEF Typed
<1>4. Len(todo) = 1 /\ n # 0 /\ Head(todo).nest = 0 /\ Head(todo).loop = 0
  BY <1>1, <1>2, <1>3 DEF Arranged
<1>5. n \in Nat /\ n \in DOMAIN Params /\ Params[n] \in Seq(Names)
  <2>1. n \in Nat
    BY <1>3 DEF Item
  <2>2. Params \in Seq(Seq(Names)) /\ Len(Params) \in Nat
    BY ParamsAssumption
  <2>3. n \in 1 .. Len(Params)
    BY ONLY <1>1, <1>4, <2>1, <2>2
  <2> QED BY <2>1, <2>2, <2>3
<1>6. /\ in_function' = TRUE /\ current_function' = n /\ globals' = globals /\ ident' = NoIdent
      /\ locals' = [i \in DOMAIN Params[n] |->
                     [name |-> Params[n][i], nest_depth |-> 0, temp |-> FALSE]]
      /\ live' = 0 .. Len(Params[n]) - 1
      /\ nest_depth' = nest_depth /\ loop_depth' = loop_depth
  BY DEF Function, SameDepths
<1>7. PICK sizes \in {<<>>, <<Expr>>} :
        todo' = (sizes \o <<Stmts, EndFunction, Funcs(n + 1)>>) \o Tail(todo)
  BY DEF Function, Unfold
<1> DEFINE t == <<Stmts, EndFunction, Funcs(n + 1)>>
           s == sizes \o t
<1>8. /\ n + 1 \in Nat /\ n + 1 # 0
      /\ {Stmts, EndFunction, Expr, Funcs(n + 1)} \subseteq Item
  BY <1>5, ItemTypes
<1>9. /\ s \in Seq(Item) /\ Len(s) \in Nat
      /\ \A k \in DOMAIN s : \/ s[k] = Expr
                             \/ s[k] = Stmts
                             \/ s[k] = EndFunction /\ k + 1 = Len(s) /\ s[k + 1] = Funcs(n + 1)
                             \/ s[k] = Funcs(n + 1) /\ k = Len(s)
  <2>1. CASE sizes = <<>>
    <3>1. s = t
      BY <1>8, <2>1
    <3>2. t \in Seq(Item)
      BY <1>8
    <3>3. \A k \in DOMAIN t : \/ t[k] = Stmts
                              \/ t[k] = EndFunction /\ k + 1 = Len(t) /\ t[k + 1] = Funcs(n + 1)
                              \/ t[k] = Funcs(n + 1) /\ k = Len(t)
      OBVIOUS
    <3> HIDE DEF s, t
    <3> QED BY <3>1, <3>2, <3>3
  <2>2. CASE sizes = <<Expr>>
    <3>1. s = <<Expr>> \o <<Stmts, EndFunction, Funcs(n + 1)>>
      BY <2>2
    <3> HIDE DEF s, t
    <3>2. /\ s \in Seq(Item) /\ Len(s) = 4 /\ s[1] = Expr
          /\ s[2] = Stmts /\ s[3] = EndFunction /\ s[4] = Funcs(n + 1)
      BY ONLY <1>8, <3>1, OneBeforeThree
    <3> QED BY <3>2
  <2> QED BY <2>1, <2>2
<1>10. todo' = s \o Tail(todo)
  BY <1>7
<1> HIDE DEF s, t
<1>11. /\ Expr.act = "expr" /\ Expr.nest = 0 /\ Expr.loop = 0
       /\ Stmts.act = "stmts" /\ Stmts.nest = 0 /\ Stmts.loop = 0
       /\ EndFunction.act = "return" /\ EndFunction.nest = 0 /\ EndFunction.loop = 0
       /\ Funcs(n + 1).act = "funcs" /\ Funcs(n + 1).nest = 0 /\ Funcs(n + 1).loop = 0
       /\ Funcs(n + 1).n = n + 1
  BY DEF Expr, Stmts, EndFunction, Funcs, Do
<1>12. \A k \in DOMAIN s :
         /\ s[k].act \in {"expr", "stmts", "return", "funcs"} /\ s[k].nest = 0 /\ s[k].loop = 0
         /\ s[k].act = "return" => k + 1 = Len(s) /\ s[k + 1].act = "funcs"
         /\ s[k].act = "funcs" => k = Len(s) /\ s[k].n # 0
  BY <1>8, <1>9, <1>11
<1>13. Fits(s)
  BY <1>1, <1>4, <1>6, <1>12 DEF Fits
<1>14. OwnScopes(s) = {} /\ OwnLoops(s) = {}
  BY <1>12 DEF OwnScopes, OwnLoops
<1>15. nest_depth \in Nat /\ loop_depth \in Nat
  BY <1>2 DEF Typed
<1>16. DepthsBalanced'
  <2>1. /\ nest_depth' = nest_depth - (IF Head(todo).nest = 1 THEN 1 ELSE 0)
                                    + (IF OwnScopes(s) = {} THEN 0 ELSE 1)
        /\ loop_depth' = loop_depth - (IF Head(todo).loop = 1 THEN 1 ELSE 0)
                                    + (IF OwnLoops(s) = {} THEN 0 ELSE 1)
    BY ONLY <1>4, <1>6, <1>14, <1>15
  <2> QED BY <1>1, <1>2, <1>9, <1>10, <1>13, <2>1, DepthsStep
<1>17. /\ todo' \in Seq(Item) /\ Arranged'
       /\ \A k \in DOMAIN todo' : k \in DOMAIN s /\ todo'[k] = s[k]
  <2>1. /\ todo' \in Seq(Item) /\ Arranged'
        /\ \A k \in DOMAIN todo' :
             \/ k \in DOMAIN s /\ todo'[k] = s[k]
             \/ \E i \in DOMAIN todo : i # 1 /\ k = i + (Len(s) - 1) /\ todo'[k] = todo[i]
    BY <1>1, <1>2, <1>9, <1>10, <1>13, Unfolded
  <2>2. \A i \in DOMAIN todo : i = 1
    BY ONLY <1>3, <1>4
  <2> QED BY ONLY <2>1, <2>2
<1>18. \A k \in DOMAIN todo' : todo'[k].act # "declare" /\ todo'[k].nest = 0
  BY <1>12, <1>17
<1>19. /\ locals' \in Seq(Local) /\ DOMAIN locals' = DOMAIN Params[n]
       /\ Len(locals') = Len(Params[n]) /\ Len(Params[n]) \in Nat
       /\ \A i \in DOMAIN locals' : /\ locals'[i].name = Params[n][i]
                                    /\ locals'[i].nest_depth = 0 /\ ~locals'[i].temp
  <2>1. DOMAIN Params[n] = 1 .. Len(Params[n]) /\ Len(Params[n]) \in Nat
    BY <1>5
  <2>2. \A i \in DOMAIN Params[n] :
          [name |-> Params[n][i], nest_depth |-> 0, temp |-> FALSE] \in Local
    BY <1>5 DEF Local
  <2>3. locals' \in Seq(Local)
    BY <1>6, <2>1, <2>2
  <2> QED BY SMTT(30), <1>6, <2>1, <2>3
<1>20. Typed'
  <2>1. ident' \in Ident
    BY <1>6 DEF NoIdent, Ident, Kind
  <2>2. live' \subseteq Slots'
    BY <1>6, <1>19 DEF Slots
  <2> QED BY <1>2, <1>5, <1>6, <1>15, <1>17, <1>19, <2>1, <2>2 DEF Typed
<1>22. InScopes'
  <2>1. ASSUME NEW i \in live'
        PROVE  ~Slot(i)'.temp /\ Slot(i)'.nest_depth <= nest_depth'
    <3>1. i + 1 \in DOMAIN locals'
      BY SMTT(30), <1>6, <1>19
    <3> QED BY SMTT(30), <1>6, <1>15, <1>19, <3>1 DEF Slot
  <2>2. OpenScopes' = {}
    BY <1>18 DEF OpenScopes
  <2> QED BY <1>4, <1>6, <2>1, <2>2 DEF InScopes
<1> QED BY <1>16, <1>17, <1>20, <1>22 DEF ScopesInv

----------------------------------------------------------------------------
(* The pass begins in the invariant,                                       *)
LEMMA InitInv == Init => ScopesInv
<1> SUFFICES ASSUME Init
             PROVE  ScopesInv
  OBVIOUS
<1>1. /\ locals = <<>> /\ globals = <<>> /\ nest_depth = 0 /\ loop_depth = 0
      /\ in_function = FALSE /\ current_function = 0 /\ ident = NoIdent /\ live = {}
      /\ todo = <<Globals>>
  BY DEF Init
<1>2. /\ Globals \in Item /\ Globals.act = "globals" /\ Globals.nest = 0 /\ Globals.loop = 0
  BY ItemTypes DEF Globals, Do
<1>3. /\ todo \in Seq(Item) /\ Len(todo) = 1 /\ DOMAIN todo = {1} /\ todo[1] = Globals
  BY <1>1, <1>2
<1>4. Typed
  <2>1. ident \in Ident
    BY <1>1 DEF NoIdent, Ident, Kind
  <2>2. locals \in Seq(Local) /\ globals \in Seq(Names) /\ live \subseteq Slots
    BY <1>1
  <2> QED BY <1>1, <1>3, <2>1, <2>2 DEF Typed
<1>5. Arranged
  BY <1>2, <1>3 DEF Arranged
<1>7. OpenScopes = {} /\ OpenLoops = {}
  BY <1>2, <1>3 DEF OpenScopes, OpenLoops
<1>8. InScopes
  BY <1>1, <1>7 DEF InScopes
<1>9. DepthsBalanced
  BY <1>1, <1>7, FS_EmptySet DEF DepthsBalanced
<1> QED BY <1>4, <1>5, <1>8, <1>9 DEF ScopesInv

(* and each of its steps preserves it.                                     *)
LEMMA NextInv == ScopesInv /\ [Next]_vars => ScopesInv'
<1> SUFFICES ASSUME ScopesInv, [Next]_vars
             PROVE  ScopesInv'
  OBVIOUS
<1>1. CASE Identifier
  BY <1>1, IdentifierStep
<1>2. CASE CreateTemporary
  BY <1>2, CreateTemporaryStep
<1>3. CASE VariableDeclared
  BY <1>3, VariableDeclaredStep
<1>4. CASE \/ Constant \/ IdentExpression \/ Binop \/ Ternary \/ Assignment
           \/ FuncCall \/ AddrGet \/ Match \/ MatchCases
           \/ ExpressionStatement \/ Empty \/ Return \/ Statements \/ If \/ ProgramEnds
  BY <1>4, PlainActions
<1>5. CASE LocalDeclaration
  BY <1>5, LocalDeclarationStep
<1>6. CASE Compound \/ While \/ DoWhile \/ For \/ ForEach
  BY <1>6, EnterActions
<1>7. CASE LeaveScope
  BY <1>7, LeaveScopeStep
<1>8. CASE LoopCtrl
  <2>1. todo # <<>> /\ Head(todo).act = "stmt"
    BY <1>8 DEF LoopCtrl, Visit, At
  <2>2. Plain(<<>>) => ScopesInv'
    BY <2>1, Scripts, ChildrenStep
  <2>3. Stop("error") => ScopesInv'
    BY StopStep DEF Stop, SameDepths, SameSlots, SamePlace
  <2> QED BY <1>8, <2>2, <2>3 DEF LoopCtrl
<1>9. CASE GlobalDeclarations
  BY <1>9, GlobalDeclarationsStep
<1>10. CASE Function
  BY <1>10, FunctionStep
<1>11. CASE FunctionEnds
  BY <1>11, FunctionEndsStep
<1>12. CASE UNCHANGED vars \/ Stopped
  BY <1>12, StopStep DEF vars, Stopped
<1> QED BY <1>1, <1>2, <1>3, <1>4, <1>5, <1>6, <1>7, <1>8, <1>9, <1>10, <1>11, <1>12
        DEF Next

(* Every state of the pass is one of the invariant.                        *)
THEOREM Invariance == Spec => []ScopesInv
BY InitInv, NextInv, PTL DEF Spec

(* The two depth counters of semantic_pass.c are those of the text: 0 in   *)
(* every function again, and break is accepted exactly inside a loop.      *)
THEOREM DepthsAlwaysBalanced == Spec => []DepthsBalanced
<1>1. ScopesInv => DepthsBalanced
  BY DEF ScopesInv
<1> QED BY Invariance, <1>1, PTL

(* What the search accepts, in terms of the text: the declarations of the  *)
(* name that are no deeper than the identifier.  Those in scope never are. *)
LEMMA FoundByDepth ==
  ASSUME ScopesInv, NEW x
  PROVE  /\ Found(x) \in SUBSET Nat /\ GlobalIds(x) \in SUBSET Nat
         /\ Found(x) \subseteq {i \in Declarations(x) : Outside(i)}
         /\ InScope(x) \subseteq {i \in Declarations(x) : Outside(i)}
         /\ InScope(x) # {} => Found(x) = {i \in Declarations(x) : Outside(i)}
         /\ \A i \in Declarations(x) : i \in Nat /\ Slot(i).nest_depth \in Nat
<1>1. Typed /\ InScopes /\ nest_depth = Cardinality(OpenScopes)
  BY DEF ScopesInv, DepthsBalanced
<1>2. Slots \subseteq Nat /\ live \subseteq Slots
  BY <1>1 DEF Typed, Slots
<1>3. \A i \in Slots : Outside(i) <=> Slot(i).nest_depth <= nest_depth
  BY <1>1 DEF Outside
<1>4. InScope(x) \subseteq {i \in Declarations(x) : Outside(i)}
  BY <1>1, <1>2, <1>3 DEF InScope, Declarations, InScopes
<1>5. InScope(x) # {} => current_function # 0
  BY <1>1 DEF InScope, InScopes
<1>6. ASSUME NEW i \in Slots
      PROVE  Slot(i).nest_depth \in Nat
  <2>1. locals \in Seq(Local) /\ Len(locals) \in Nat /\ i + 1 \in 1 .. Len(locals)
    BY <1>1 DEF Typed, Slots
  <2>2. locals[i + 1] \in Local
    BY <2>1
  <2> QED BY <2>2 DEF Slot, Local
<1>7. /\ Found(x) \subseteq {i \in Declarations(x) : Outside(i)}
      /\ current_function # 0 => Found(x) = {i \in Declarations(x) : Outside(i)}
  BY <1>3 DEF Found, Declarations
<1>8. \A i \in Declarations(x) : i \in Nat /\ Slot(i).nest_depth \in Nat
  BY <1>2, <1>6 DEF Declarations
<1>9. GlobalIds(x) \in SUBSET Nat
  BY DEF GlobalIds
<1> QED BY <1>4, <1>5, <1>7, <1>8, <1>9

(* A non-empty set of slots has a last one.                                *)
LEMMA NewestExists ==
  ASSUME NEW n \in Nat, NEW S \in SUBSET (0 .. n), S # {}
  PROVE  Newest(S) \in S
<1> DEFINE T == {n - i : i \in S}
<1>1. T \in SUBSET Nat /\ T # {}
  <2>1. \A i \in S : i \in 0 .. n /\ n - i \in Nat
    OBVIOUS
  <2>2. PICK i : i \in S
    OBVIOUS
  <2>3. n - i \in T
    BY <2>2
  <2> QED BY <2>1, <2>3
<1>2. First(T) \in T /\ \A j \in T : First(T) <= j
  BY <1>1, FirstIsLeast
<1>3. PICK i \in S : First(T) = n - i
  BY <1>2
<1>4. ASSUME NEW j \in S
      PROVE  j <= i
  <2>1. n - i <= n - j
    BY <1>2, <1>3
  <2>2. i \in 0 .. n /\ j \in 0 .. n
    OBVIOUS
  <2> HIDE DEF T
  <2> QED BY <2>1, <2>2
<1> QED BY <1>4 DEF Newest

(* The innermost declaration in scope is found when no earlier one is as   *)
(* far out.                                                                *)
LEMMA InnermostStep ==
  ASSUME ScopesInv, Identifier
  PROVE  LET x == Head(todo).name
             d == Newest(InScope(x))
         IN  /\ InScope(x) # {} /\ (\A i \in Declarations(x) : i < d => ~Outside(i)) =>
                  Is(x, "local", d)
             /\ InScope(x) = {} /\ GlobalIds(x) # {} /\ (\A i \in Declarations(x) : ~Outside(i)) =>
                  Is(x, "global", First(GlobalIds(x)))
<1> DEFINE x == Head(todo).name
           d == Newest(InScope(x))
<1>1. /\ Found(x) \in SUBSET Nat
      /\ Found(x) \subseteq {i \in Declarations(x) : Outside(i)}
      /\ InScope(x) # {} => Found(x) = {i \in Declarations(x) : Outside(i)}
      /\ InScope(x) \subseteq {i \in Declarations(x) : Outside(i)}
  BY FoundByDepth
<1>2. ASSUME InScope(x) # {}, \A i \in Declarations(x) : i < d => ~Outside(i)
      PROVE  Is(x, "local", d)
  <2>1. Len(locals) \in Nat /\ InScope(x) \in SUBSET (0 .. Len(locals))
    <3>1. Len(locals) \in Nat /\ live \subseteq 0 .. Len(locals) - 1
      BY DEF ScopesInv, Typed, Slots
    <3>2. 0 .. Len(locals) - 1 \subseteq 0 .. Len(locals)
      BY <3>1
    <3> QED BY <3>1, <3>2 DEF InScope
  <2>2. d \in InScope(x)
    BY <1>2, <2>1, NewestExists
  <2>3. d \in Found(x) /\ d \in Nat
    BY <1>1, <1>2, <2>2
  <2>4. \A i \in Found(x) : ~(i < d)
    BY <1>1, <1>2
  <2>5. find_local(x) \in Found(x) /\ find_local(x) <= d
    BY <1>1, <2>3, FirstIsLeast DEF find_local
  <2>6. find_local(x) = d
    <3> HIDE DEF d
    <3> QED BY <1>1, <2>3, <2>4, <2>5
  <2> QED BY <2>3, <2>6 DEF Identifier, Is
<1>3. ASSUME InScope(x) = {}, GlobalIds(x) # {}, \A i \in Declarations(x) : ~Outside(i)
      PROVE  Is(x, "global", First(GlobalIds(x)))
  <2>1. Found(x) = {}
    BY <1>1, <1>3
  <2> QED BY <1>3, <2>1 DEF Identifier, Is, find_global
<1> QED BY <1>2, <1>3

(* Names may be declared again: an identifier stands for its innermost     *)
(* declaration in scope unless an earlier declaration of the name in the   *)
(* function, hidden or outlived, is no deeper than the identifier.         *)
THEOREM IdentifiersResolve == Spec => ResolvesInnermost
<1>1. ScopesInv /\ [Next]_vars =>
        [Identifier =>
           LET x == Head(todo).name
               d == Newest(InScope(x))
           IN  /\ InScope(x) # {} /\ (\A i \in Declarations(x) : i < d => ~Outside(i)) =>
                    Is(x, "local", d)
               /\ InScope(x) = {} /\ GlobalIds(x) # {} /\ (\A i \in Declarations(x) : ~Outside(i)) =>
                    Is(x, "global", First(GlobalIds(x)))]_vars
  BY InnermostStep
<1> QED BY Invariance, <1>1, PTL DEF Spec, ResolvesInnermost

(* Where the first declaration of a name is the outermost, every use in    *)
(* scope finds the first.                                                  *)
LEMMA ShareStep ==
  ASSUME ScopesInv, Identifier
  PROVE  LET x == Head(todo).name
             D == Declarations(x)
         IN  InScope(x) # {} /\ (\A i \in D : Slot(First(D)).nest_depth <= Slot(i).nest_depth) =>
               Is(x, "local", First(D))
<1> DEFINE x == Head(todo).name
           D == Declarations(x)
           f == First(D)
<1> SUFFICES ASSUME InScope(x) # {}, \A i \in D : Slot(f).nest_depth <= Slot(i).nest_depth
             PROVE  Is(x, "local", f)
  OBVIOUS
<1>1. /\ D \in SUBSET Nat /\ Found(x) = {i \in D : Outside(i)} /\ Found(x) \in SUBSET Nat
      /\ InScope(x) \subseteq {i \in D : Outside(i)}
      /\ \A i \in D : Slot(i).nest_depth \in Nat
  BY FoundByDepth
<1>2. f \in D /\ \A j \in D : f <= j
  BY <1>1, FirstIsLeast
<1>3. PICK i \in InScope(x) : i \in D /\ Outside(i)
  BY <1>1
<1>4. Outside(f)
  <2>1. Cardinality(OpenScopes) \in Nat
    BY DEF ScopesInv, DepthsBalanced, Typed
  <2>2. Slot(f).nest_depth \in Nat /\ Slot(i).nest_depth \in Nat
    BY <1>1, <1>2, <1>3
  <2>3. Slot(f).nest_depth <= Slot(i).nest_depth
    BY <1>3
  <2> HIDE DEF f, D
  <2> QED BY <1>3, <2>1, <2>2, <2>3 DEF Outside
<1>5. f \in Found(x)
  BY <1>1, <1>2, <1>4
<1>6. find_local(x) \in Found(x) /\ find_local(x) <= f
  BY <1>1, <1>5, FirstIsLeast DEF find_local
<1>7. find_local(x) = f
  <2>1. find_local(x) \in D /\ find_local(x) \in Nat /\ f \in Nat
    BY <1>1, <1>2, <1>6
  <2>2. f <= find_local(x)
    BY <1>2, <2>1
  <2> HIDE DEF f, D
  <2> QED BY <1>6, <2>1, <2>2
<1> QED BY <1>5, <1>7 DEF Identifier, Is

(* A name whose first declaration in the function is the outermost has one *)
(* slot at every use in scope, as the loop variables of the repository's   *)
(* programs do.                                                            *)
THEOREM RedeclaredShareOneSlot == Spec => RedeclaredShare
<1>1. ScopesInv /\ [Next]_vars =>
        [Identifier =>
           LET x == Head(todo).name
               D == Declarations(x)
           IN  InScope(x) # {} /\ (\A i \in D : Slot(First(D)).nest_depth <= Slot(i).nest_depth) =>
                 Is(x, "local", First(D))]_vars
  BY ShareStep
<1> QED BY Invariance, <1>1, PTL DEF Spec, RedeclaredShare
=============================================================================
