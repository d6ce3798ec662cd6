--------------------------- MODULE CodeFlowProofs ---------------------------
(***************************************************************************)
(* TLAPS proofs about the code CodeGen generates: functions do not run     *)
(* into each other, strings get their directives, loops are entered at one *)
(* place, and the operand stack is balanced.                               *)
(*                                                                         *)
(* All four rest on what a handler replaces itself by.  The first part     *)
(* says so once for every action, the others use it.                       *)
(***************************************************************************)
EXTENDS CodeFlowInv, CodeGenProofs, SequenceTheorems

(* One list after another.                                                 *)
LEMMA RunsJoined ==
  ASSUME NEW S, NEW s \in Seq(S), NEW t \in Seq(S),
         NEW a \in Nat, NEW b \in Nat, NEW c \in Nat, Runs(s, a, b), Runs(t, b, c)
  PROVE  Runs(s \o t, a, c)
<1>1. PICK g \in [1 .. Len(s) + 1 -> Nat] :
        /\ g[1] = a /\ g[Len(s) + 1] = b
        /\ \A i \in 1 .. Len(s) : Moves(s[i], g[i], g[i + 1])
  BY DEF Runs
<1>2. PICK h \in [1 .. Len(t) + 1 -> Nat] :
        /\ h[1] = b /\ h[Len(t) + 1] = c
        /\ \A i \in 1 .. Len(t) : Moves(t[i], h[i], h[i + 1])
  BY DEF Runs
<1> DEFINE n == Len(s)
           f == [k \in 1 .. Len(s \o t) + 1 |-> IF k <= n THEN g[k] ELSE h[k - n]]
<1>3. Len(s \o t) = n + Len(t) /\ n \in Nat /\ Len(t) \in Nat
  OBVIOUS
<1>4. f \in [1 .. Len(s \o t) + 1 -> Nat]
  BY <1>3
<1>5. f[1] = a /\ f[Len(s \o t) + 1] = c
  BY <1>1, <1>2, <1>3
<1>6. ASSUME NEW i \in 1 .. Len(s \o t)
      PROVE  Moves((s \o t)[i], f[i], f[i + 1])
  <2>1. CASE i < n
    BY <1>1, <1>3, <2>1, SMTT(30)
  <2>2. CASE i = n
    BY <1>1, <1>2, <1>3, <2>2
  <2>3. CASE i > n
    <3>1. i - n \in 1 .. Len(t) /\ (i - n) + 1 = i + 1 - n
      BY <1>3, <2>3
    <3>2. (s \o t)[i] = t[i - n] /\ f[i] = h[i - n] /\ f[i + 1] = h[i - n + 1]
      BY <1>3, <2>3, <3>1
    <3> QED BY <1>2, <3>1, <3>2
  <2> QED BY <1>3, <2>1, <2>2, <2>3
<1> HIDE DEF f
<1> QED BY <1>3, <1>4, <1>5, <1>6 DEF Runs

(* A list of one item, and of none.                                        *)
LEMMA RunsOne ==
  ASSUME NEW x, NEW a \in Nat, NEW b \in Nat, Moves(x, a, b)
  PROVE  Runs(<<x>>, a, b)
<1> DEFINE g == [i \in 1 .. 2 |-> IF i = 1 THEN a ELSE b]
<1>1. g \in [1 .. Len(<<x>>) + 1 -> Nat] /\ g[1] = a /\ g[2] = b
      /\ <<x>>[1] = x /\ Len(<<x>>) = 1
  OBVIOUS
<1> HIDE DEF g
<1> QED BY <1>1 DEF Runs

LEMMA RunsNone == \A a \in Nat : Runs(<<>>, a, a)
<1> TAKE a \in Nat
<1> DEFINE g == [i \in 1 .. 1 |-> a]
<1>1. g \in [1 .. 0 + 1 -> Nat] /\ g[1] = a /\ Len(<<>>) = 0
  OBVIOUS
<1> HIDE DEF g
<1>2. g \in [1 .. Len(<<>>) + 1 -> Nat] /\ g[Len(<<>>) + 1] = a
      /\ \A i \in 1 .. Len(<<>>) : Moves(<<>>[i], g[i], g[i + 1])
  BY <1>1
<1> QED BY <1>1, <1>2 DEF Runs

(* A short list is its first item before the others.                       *)
LEMMA FirstBefore ==
  ASSUME NEW S
  PROVE  /\ \A x, y \in S : <<x, y>> = <<x>> \o <<y>> /\ <<y>> \in Seq(S)
         /\ \A x, y, z \in S : <<x, y, z>> = <<x>> \o <<y, z>> /\ <<y, z>> \in Seq(S)
         /\ \A w, x, y, z \in S :
              <<w, x, y, z>> = <<w>> \o <<x, y, z>> /\ <<x, y, z>> \in Seq(S)
<1>1. ASSUME NEW x \in S, NEW y \in S
      PROVE  <<x, y>> = <<x>> \o <<y>> /\ <<y>> \in Seq(S)
  <2>1. <<x>> \in Seq(S) /\ <<y>> \in Seq(S) /\ <<x, y>> \in Seq(S)
    OBVIOUS
  <2> DEFINE s == <<x>> \o <<y>>
  <2>2. s \in Seq(S) /\ Len(s) = 2 /\ s[1] = x /\ s[2] = y
    BY <2>1
  <2> HIDE DEF s
  <2>3. s = <<x, y>>
    BY <2>1, <2>2
  <2> QED BY <2>1, <2>3 DEF s
<1>2. ASSUME NEW x \in S, NEW y \in S, NEW z \in S
      PROVE  <<x, y, z>> = <<x>> \o <<y, z>> /\ <<y, z>> \in Seq(S)
  OBVIOUS
<1>3. ASSUME NEW w \in S, NEW x \in S, NEW y \in S, NEW z \in S
      PROVE  <<w, x, y, z>> = <<w>> \o <<x, y, z>> /\ <<x, y, z>> \in Seq(S)
  OBVIOUS
<1> QED BY <1>1, <1>2, <1>3

LEMMA TwoBeforeThree ==
  ASSUME NEW S, NEW v \in S, NEW w \in S, NEW x \in S, NEW y \in S, NEW z \in S
  PROVE  <<v, w>> \o <<x, y, z>> = <<v, w, x, y, z>>
<1> DEFINE a == <<v, w>>
           b == <<x, y, z>>
           c == <<v, w, x, y, z>>
           s == a \o b
<1>1. a \in Seq(S) /\ b \in Seq(S) /\ c \in Seq(S)
  OBVIOUS
<1>2. Len(a) = 2 /\ a[1] = v /\ a[2] = w /\ Len(b) = 3 /\ b[1] = x /\ b[2] = y /\ b[3] = z
  OBVIOUS
<1>3. Len(c) = 5 /\ c[1] = v /\ c[2] = w /\ c[3] = x /\ c[4] = y /\ c[5] = z
  OBVIOUS
<1> HIDE DEF a, b, c
<1>4. s \in Seq(S) /\ Len(s) = 5
      /\ s[1] = v /\ s[2] = w /\ s[3] = x /\ s[4] = y /\ s[5] = z
  <2>1. /\ s \in Seq(S) /\ Len(s) = Len(a) + Len(b)
        /\ \A i \in 1 .. Len(a) : s[i] = a[i]
        /\ \A i \in 1 .. Len(b) : s[Len(a) + i] = b[i]
    BY ONLY <1>1, Joined
  <2> QED BY ONLY <1>2, <2>1
<1> HIDE DEF s
<1>5. s = c
  BY <1>1, <1>3, <1>4
<1> QED BY <1>5 DEF s, a, b, c

(* The depths along a short list of items.                                 *)
LEMMA RunsLists ==
  /\ \A x, y \in Item, a, b, c \in Nat :
       Moves(x, a, b) /\ Moves(y, b, c) => Runs(<<x, y>>, a, c)
  /\ \A x, y, z \in Item, a, b, c, d \in Nat :
       Moves(x, a, b) /\ Moves(y, b, c) /\ Moves(z, c, d) => Runs(<<x, y, z>>, a, d)
  /\ \A w, x, y, z \in Item, a, b, c, d, e \in Nat :
       Moves(w, a, b) /\ Moves(x, b, c) /\ Moves(y, c, d) /\ Moves(z, d, e)
       => Runs(<<w, x, y, z>>, a, e)
<1>1. ASSUME NEW x \in Item, NEW t \in Seq(Item), NEW a \in Nat, NEW b \in Nat, NEW c \in Nat,
             Moves(x, a, b), Runs(t, b, c)
      PROVE  Runs(<<x>> \o t, a, c)
  <2>1. Runs(<<x>>, a, b) /\ <<x>> \in Seq(Item)
    BY <1>1, RunsOne
  <2> QED BY <1>1, <2>1, RunsJoined
<1>2. ASSUME NEW x \in Item, NEW y \in Item, NEW a \in Nat, NEW b \in Nat, NEW c \in Nat,
             Moves(x, a, b), Moves(y, b, c)
      PROVE  Runs(<<x, y>>, a, c)
  <2>1. <<x, y>> = <<x>> \o <<y>> /\ <<y>> \in Seq(Item)
    BY ONLY FirstBefore, x \in Item, y \in Item
  <2>2. Runs(<<y>>, b, c)
    BY <1>2, RunsOne
  <2> QED BY <1>1, <1>2, <2>1, <2>2
<1>3. ASSUME NEW x \in Item, NEW y \in Item, NEW z \in Item,
             NEW a \in Nat, NEW b \in Nat, NEW c \in Nat, NEW d \in Nat,
             Moves(x, a, b), Moves(y, b, c), Moves(z, c, d)
      PROVE  Runs(<<x, y, z>>, a, d)
  <2>1. <<x, y, z>> = <<x>> \o <<y, z>> /\ <<y, z>> \in Seq(Item)
    BY ONLY FirstBefore, x \in Item, y \in Item, z \in Item
  <2>2. Runs(<<y, z>>, b, d)
    BY <1>2, <1>3
  <2> QED BY <1>1, <1>3, <2>1, <2>2
<1>4. ASSUME NEW w \in Item, NEW x \in Item, NEW y \in Item, NEW z \in Item,
             NEW a \in Nat, NEW b \in Nat, NEW c \in Nat, NEW d \in Nat, NEW e \in Nat,
             Moves(w, a, b), Moves(x, b, c), Moves(y, c, d), Moves(z, d, e)
      PROVE  Runs(<<w, x, y, z>>, a, e)
  <2>1. <<w, x, y, z>> = <<w>> \o <<x, y, z>> /\ <<x, y, z>> \in Seq(Item)
    BY ONLY FirstBefore, w \in Item, x \in Item, y \in Item, z \in Item
  <2>2. Runs(<<x, y, z>>, b, e)
    BY <1>3, <1>4
  <2> QED BY <1>1, <1>4, <2>1, <2>2
<1> QED BY ONLY <1>2, <1>3, <1>4

(* What the instructions do to the depth, by kind.                         *)
PushOps   == {"pushl", "pushi", "pushs", "pushnull"}
PopOps    == {"movl", "movg", "pop"}
UnaryOps  == UnOps \cup {"load", "alloc", "memsize", "strlen"}
BinaryOps == BinOps \cup {"logicand", "eq", "lt", "le", "ge", "add"}
IdleOps   == {"incl", ".string"}

LEMMA PoppedPushed ==
  /\ \A x : \A op \in PushOps   : Popped(Emit(op, x)) = 0 /\ Pushed(Emit(op, x)) = 1
  /\ \A x : \A op \in PopOps    : Popped(Emit(op, x)) = 1 /\ Pushed(Emit(op, x)) = 0
  /\ \A x : \A op \in UnaryOps  : Popped(Emit(op, x)) = 1 /\ Pushed(Emit(op, x)) = 1
  /\ \A x : \A op \in BinaryOps : Popped(Emit(op, x)) = 2 /\ Pushed(Emit(op, x)) = 1
  /\ \A x : \A op \in IdleOps   : Popped(Emit(op, x)) = 0 /\ Pushed(Emit(op, x)) = 0
  /\ \A x : Popped(Emit("cmov", x)) = 3 /\ Pushed(Emit("cmov", x)) = 1
  /\ \A x : Popped(Emit("dup", x)) = 1 /\ Pushed(Emit("dup", x)) = 2
  /\ \A x : Popped(Emit("copy", x)) = 3 /\ Pushed(Emit("copy", x)) = 0
<1>1. \A op, x : Emit(op, x).op = op
  BY DEF Emit, Do
<1>2. \A x : \A op \in PushOps : Popped(Emit(op, x)) = 0 /\ Pushed(Emit(op, x)) = 1
  BY <1>1, OperatorsAssumption DEF Popped, Pushed, PushOps
<1>3. \A x : \A op \in PopOps : Popped(Emit(op, x)) = 1 /\ Pushed(Emit(op, x)) = 0
  BY <1>1, OperatorsAssumption DEF Popped, Pushed, PopOps
<1>4. \A x : \A op \in UnaryOps : Popped(Emit(op, x)) = 1 /\ Pushed(Emit(op, x)) = 1
  BY <1>1, OperatorsAssumption DEF Popped, Pushed, UnaryOps
<1>5. \A x : \A op \in BinaryOps : Popped(Emit(op, x)) = 2 /\ Pushed(Emit(op, x)) = 1
  BY <1>1, OperatorsAssumption DEF Popped, Pushed, BinaryOps
<1>6. \A x : \A op \in IdleOps : Popped(Emit(op, x)) = 0 /\ Pushed(Emit(op, x)) = 0
  BY <1>1, OperatorsAssumption DEF Popped, Pushed, IdleOps
<1>7. \A x : Popped(Emit("cmov", x)) = 3 /\ Pushed(Emit("cmov", x)) = 1
  BY <1>1, OperatorsAssumption DEF Popped, Pushed
<1>8. \A x : Popped(Emit("dup", x)) = 1 /\ Pushed(Emit("dup", x)) = 2
  BY <1>1, OperatorsAssumption DEF Popped, Pushed
<1>9. \A x : Popped(Emit("copy", x)) = 3 /\ Pushed(Emit("copy", x)) = 0
  BY <1>1, OperatorsAssumption DEF Popped, Pushed
<1> QED BY ONLY <1>2, <1>3, <1>4, <1>5, <1>6, <1>7, <1>8, <1>9

(* An instruction that neither jumps, returns nor calls.                   *)
LEMMA StraightMoves ==
  ASSUME NEW op, op \notin {"ret", "jmp", "jf", "jt", "call"}, NEW x,
         NEW a \in Nat, NEW b \in Nat, a >= Popped(Emit(op, x)),
         b = a - Popped(Emit(op, x)) + Pushed(Emit(op, x))
  PROVE  Moves(Emit(op, x), a, b)
<1>1. Emit(op, x).act = "emit" /\ Emit(op, x).op = op
  BY DEF Emit, Do
<1>2. Effect(Emit(op, x), a, b)
  BY <1>1 DEF Effect
<1> QED BY <1>1, <1>2 DEF Moves

LEMMA PushMoves ==
  \A x : \A op \in PushOps, a, b \in Nat : b = a + 1 => Moves(Emit(op, x), a, b)
BY PoppedPushed, StraightMoves DEF PushOps

LEMMA PopMoves ==
  \A x : \A op \in PopOps, a, b \in Nat : a = b + 1 => Moves(Emit(op, x), a, b)
BY PoppedPushed, StraightMoves DEF PopOps

LEMMA UnaryMoves ==
  \A x : \A op \in UnaryOps, a \in Nat : a > 0 => Moves(Emit(op, x), a, a)
<1>1. \A op \in UnaryOps : op \notin {"ret", "jmp", "jf", "jt", "call"}
  BY OperatorsAssumption DEF UnaryOps
<1> QED BY <1>1, PoppedPushed, StraightMoves

LEMMA BinaryMoves ==
  \A x : \A op \in BinaryOps, a, b \in Nat : a = b + 1 /\ b > 0 => Moves(Emit(op, x), a, b)
<1>1. \A op \in BinaryOps : op \notin {"ret", "jmp", "jf", "jt", "call"}
  BY OperatorsAssumption DEF BinaryOps
<1> QED BY <1>1, PoppedPushed, StraightMoves

LEMMA IdleMoves == \A x : \A op \in IdleOps, a \in Nat : Moves(Emit(op, x), a, a)
BY PoppedPushed, StraightMoves DEF IdleOps

LEMMA OtherMoves ==
  /\ \A x : \A a, b \in Nat : a = b + 2 /\ b > 0 => Moves(Emit("cmov", x), a, b)
  /\ \A x : \A a, b \in Nat : b = a + 1 /\ a > 0 => Moves(Emit("dup", x), a, b)
  /\ \A x : \A a, b \in Nat : a = b + 3 => Moves(Emit("copy", x), a, b)
  /\ \A x : Moves(Emit("ret", x), 0, 0) /\ Moves(Emit("ret", x), 1, 0)
  /\ \A x : Moves(Emit("jmp", x), 0, 0)
  /\ \A x : Moves(Emit("jf", x), 1, 0) /\ Moves(Emit("jt", x), 1, 0)
<1>1. \A x : \A a, b \in Nat : a = b + 2 /\ b > 0 => Moves(Emit("cmov", x), a, b)
  BY PoppedPushed, StraightMoves
<1>2. \A x : \A a, b \in Nat : b = a + 1 /\ a > 0 => Moves(Emit("dup", x), a, b)
  BY PoppedPushed, StraightMoves
<1>3. \A x : \A a, b \in Nat : a = b + 3 => Moves(Emit("copy", x), a, b)
  BY PoppedPushed, StraightMoves
<1>4. ASSUME NEW x
      PROVE  /\ Moves(Emit("ret", x), 0, 0) /\ Moves(Emit("ret", x), 1, 0)
             /\ Moves(Emit("jmp", x), 0, 0)
             /\ Moves(Emit("jf", x), 1, 0) /\ Moves(Emit("jt", x), 1, 0)
  BY DEF Moves, Effect, Emit, Do
<1> QED BY ONLY <1>1, <1>2, <1>3, <1>4

----------------------------------------------------------------------------
(***************************************************************************)
(* What a handler replaces itself by.                                      *)
(***************************************************************************)

(* The handler at the top gives way to the script; nothing is generated.   *)
Unfolds(s) ==
  /\ todo # <<>> /\ Head(todo).act \notin {"emit", "target"}
  /\ todo' = s \o Tail(todo)
  /\ UNCHANGED <<code, pending, functions>>

(* The script has no part of the program's outer frame: no function, no    *)
(* string, no handler of either.                                           *)
Mild(s) ==
  \A i \in DOMAIN s :
    /\ s[i].act \notin {"funcs", "strings"}
    /\ s[i].act \in Placing => s[i].arg \in GenLabel
    /\ s[i].act = "emit" => s[i].op \notin {"pushs", ".string"}

(* A jump of the script leads to a label placed after it, in the script or *)
(* by a handler below, or to the entry of a loop it is in.                 *)
LeadsOn(s, k) ==
  /\ s[k].arg \in GenLabel
  /\ \/ \E j \in DOMAIN s : j > k /\ s[j].act \in Placing /\ s[j].arg = s[k].arg
     \/ \E j \in DOMAIN s : j > k /\ s[j].act = "leave" /\ s[j].arg2 = s[k].arg
     \/ \E r \in DOMAIN todo :
          r # 1 /\ (Places(r, s[k].arg) \/ (IsLoop(r) /\ EntryLabel(r) = s[k].arg))

(* The script of a loop ends with the label of its exit and the end of the *)
(* loop, and places no label but that one behind that of its entry.        *)
Closes(s, p) ==
  /\ p > 1 /\ s[p - 1].act = "target" /\ s[p - 1].arg = s[p].arg
  /\ s[p].arg2 \in GenLabel /\ ~ IsOld(s[p].arg2)
  /\ \A t \in DOMAIN s : t < p /\ s[t].act \in Placing /\ s[t].arg = s[p].arg2 =>
       /\ s[t].act = "target"
       /\ \A q \in DOMAIN s : t < q /\ q < p /\ s[q].act \in Placing => s[q].arg = s[p].arg

Woven(s) ==
  \A i \in DOMAIN s :
    /\ s[i].act \in Placing =>
         ~ IsOld(s[i].arg) \/ (Head(todo).act \in Placing /\ Head(todo).arg = s[i].arg)
    /\ s[i].act = "emit" /\ s[i].op \in {"jmp", "jf", "jt"} => LeadsOn(s, i)
    /\ s[i].act = "leave" => Closes(s, i)

(* The script moves the depth as the handler promised.                     *)
Balances(s) ==
  BalancedForms =>
    \A a, b \in Nat : Moves(Head(todo), a, b) => Runs(s, a, b)

(* An ordinary step: any handler but those of functions and strings.       *)
Ordinary(s) ==
  /\ Unfolds(s)
  /\ Head(todo).act \notin {"funcs", "strings"}
  /\ UNCHANGED strings
  /\ Mild(s) /\ Woven(s) /\ Balances(s)

(* The items that neither place a label nor jump.                          *)
Calm ==
  {it \in Item :
     /\ it.act \notin {"target", "else", "cases", "leave", "funcs", "strings"}
     /\ it.act = "emit" => it.op \notin {"jmp", "jf", "jt", "pushs", ".string"}}

LEMMA CalmScript ==
  ASSUME NEW s \in Seq(Calm)
  PROVE  s \in Seq(Item) /\ Mild(s) /\ Woven(s)
<1>1. s \in Seq(Item) /\ \A i \in DOMAIN s : s[i] \in Calm
  BY DEF Calm
<1> QED BY <1>1 DEF Mild, Woven, Calm, Placing

LEMMA CalmItems ==
  /\ \A op \in Opcode, a \in Arg :
       op \notin {"jmp", "jf", "jt", "pushs", ".string"} => Emit(op, a) \in Calm
  /\ \A op \in Opcode :
       op \notin {"jmp", "jf", "jt", "pushs", ".string"} => Emit0(op) \in Calm
  /\ \A t \in Arg : Tests(t) \in Calm /\ Pattern(t) \in Calm
  /\ \A n \in Nat : Args(n) \in Calm /\ Params(n) \in Calm
  /\ Expr \in Calm /\ Stmt \in Calm /\ Stmts \in Calm
  /\ Discarded \in Calm /\ Globals \in Calm
<1>1. \A op \in Opcode, a \in Arg :
        op \notin {"jmp", "jf", "jt", "pushs", ".string"} => Emit(op, a) \in Calm
  BY ItemTypes DEF Calm, Emit, Do
<1>2. \A op \in Opcode :
        op \notin {"jmp", "jf", "jt", "pushs", ".string"} => Emit0(op) \in Calm
  BY <1>1, ArgTypes DEF Emit0
<1>3. \A t \in Arg : Tests(t) \in Calm /\ Pattern(t) \in Calm
  BY ItemTypes DEF Calm, Tests, Pattern, Do
<1>4. \A n \in Nat : Args(n) \in Calm /\ Params(n) \in Calm
  BY ItemTypes DEF Calm, Args, Params, Do
<1>5. /\ Expr \in Calm /\ Stmt \in Calm /\ Stmts \in Calm
      /\ Discarded \in Calm /\ Globals \in Calm
  BY ItemTypes DEF Calm, Expr, Stmt, Stmts, Discarded, Globals, Do
<1> QED BY <1>1, <1>2, <1>3, <1>4, <1>5

(* The items handlers put in their scripts, and how they move the depth.   *)
LEMMA ItemMoves ==
  /\ \A a, b \in Nat : b = a + 1 => Moves(Expr, a, b)
  /\ \A a, b, n \in Nat : b = a + n => Moves(Args(n), a, b)
  /\ \A n \in Nat : Moves(Params(n), n, 0)
  /\ Moves(Stmt, 0, 0) /\ Moves(Stmts, 0, 0) /\ Moves(Discarded, 0, 0)
  /\ Moves(Globals, 0, 0) /\ Moves(Strings, 0, 0)
<1>1. \A a, b \in Nat : b = a + 1 => Moves(Expr, a, b)
  BY DEF Moves, Expr, Do
<1>2. \A a, b, n \in Nat : b = a + n => Moves(Args(n), a, b)
  BY DEF Moves, Args, Do
<1>3. \A n \in Nat : Moves(Params(n), n, 0)
  BY DEF Moves, Params, Do
<1>4. /\ Moves(Stmt, 0, 0) /\ Moves(Stmts, 0, 0) /\ Moves(Discarded, 0, 0)
      /\ Moves(Globals, 0, 0) /\ Moves(Strings, 0, 0)
  BY DEF Moves, Stmt, Stmts, Discarded, Globals, Strings, Do
<1> QED BY ONLY <1>1, <1>2, <1>3, <1>4

LEMMA LabelMoves ==
  /\ \A l \in GenLabel : LabelDepth(l) = 0
  /\ \A f \in Names : LabelDepth(F(f)) = Arity[f] /\ Arity[f] \in Nat
  /\ \A k : Moves(Funcs(k), 0, 0)
  /\ \A l \in GenLabel : Moves(Else(l), 0, 0) /\ Moves(Target(l), 0, 0)
  /\ \A l, m, k : Moves(Leave(l, m, k), 0, 0)
  /\ \A f \in Names : Moves(Target(F(f)), 0, Arity[f])
<1>1. \A l \in GenLabel : LabelDepth(l) = 0
  BY DEF LabelDepth, GenLabel
<1>2. \A f \in Names : LabelDepth(F(f)) = Arity[f] /\ Arity[f] \in Nat
  BY FunctionsAssumption DEF LabelDepth, F
<1>3. \A k : Moves(Funcs(k), 0, 0)
  BY DEF Moves, Funcs, Do
<1>4. \A l \in GenLabel : Moves(Else(l), 0, 0) /\ Moves(Target(l), 0, 0)
  BY <1>1 DEF Moves, Else, Target, Do
<1>5. \A l, m, k : Moves(Leave(l, m, k), 0, 0)
  BY DEF Moves, Leave, Do
<1>6. \A f \in Names : Moves(Target(F(f)), 0, Arity[f])
  BY <1>2 DEF Moves, Target, Do
<1> QED BY ONLY <1>1, <1>2, <1>3, <1>4, <1>5, <1>6

LEMMA CallMoves ==
  ASSUME NEW f \in Names, NEW a \in Nat, NEW b \in Nat,
         a >= Arity[f], b = a - Arity[f] + (IF f \in Void THEN 0 ELSE 1)
  PROVE  Moves(Emit("call", F(f)), a, b)
<1> DEFINE it == Emit("call", F(f))
<1>1. it.act = "emit" /\ it.op = "call" /\ it.arg[2] = f
  BY DEF Emit, Do, F
<1>2. Popped(it) = Arity[f] /\ Pushed(it) = IF f \in Void THEN 0 ELSE 1
  BY <1>1, OperatorsAssumption DEF Popped, Pushed
<1> HIDE DEF it
<1>3. Effect(it, a, b)
  BY <1>1, <1>2 DEF Effect
<1>4. Moves(it, a, b)
  BY <1>1, <1>3 DEF Moves
<1> QED BY <1>4 DEF it

(* The script of an expression adds one value, that of a statement none.   *)
Replaced == \E s \in Seq(Item) : Ordinary(s)

LEMMA CalmExpression ==
  ASSUME At("expr"), NEW s \in Seq(Calm), Plain(s),
         BalancedForms => \A a, b \in Nat : b = a + 1 => Runs(s, a, b)
  PROVE  Replaced
<1>1. s \in Seq(Item) /\ Mild(s) /\ Woven(s)
  BY CalmScript
<1>2. Unfolds(s) /\ UNCHANGED strings /\ Head(todo).act = "expr"
  BY DEF Unfolds, At, Plain, Unfold, SameOutput
<1>3. Balances(s)
  BY <1>2 DEF Balances, Moves
<1> QED BY <1>1, <1>2, <1>3 DEF Replaced, Ordinary

LEMMA CalmStatement ==
  ASSUME NEW act \in {"stmt", "stmts", "discard", "globals"},
         At(act), NEW s \in Seq(Calm), Plain(s), BalancedForms => Runs(s, 0, 0)
  PROVE  Replaced
<1>1. s \in Seq(Item) /\ Mild(s) /\ Woven(s)
  BY CalmScript
<1>2. Unfolds(s) /\ UNCHANGED strings /\ Head(todo).act = act
  BY DEF Unfolds, At, Plain, Unfold, SameOutput
<1>3. Balances(s)
  BY <1>2 DEF Balances, Moves
<1> QED BY <1>1, <1>2, <1>3 DEF Replaced, Ordinary

(* The instructions of expressions, as items.                              *)
LEMMA CalmEmits ==
  /\ \A op \in BinOps \cup UnOps \cup {"cmov", "pop", "ret", "pushnull", "alloc", "dup",
                                        "copy", "logicand", "eq", "ge", "le", "lt", "add",
                                        "load", "memsize", "strlen"} : Emit0(op) \in Calm
  /\ \A x \in Int : /\ Emit("pushl", Loc(x)) \in Calm /\ Emit("movl", Loc(x)) \in Calm
                    /\ Emit("incl", Loc(x)) \in Calm /\ Emit("pushi", Imm(x)) \in Calm
                    /\ Emit("movg", Glob(x)) \in Calm
  /\ \A f \in Names : Emit("call", F(f)) \in Calm
  /\ Calm \subseteq Item
<1>1. \A op \in BinOps \cup UnOps \cup {"cmov", "pop", "ret", "pushnull", "alloc", "dup",
                                        "copy", "logicand", "eq", "ge", "le", "lt", "add",
                                        "load", "memsize", "strlen"} : Emit0(op) \in Calm
  BY CalmItems, OperatorsAssumption DEF Opcode
<1>2. \A x \in Int : /\ Emit("pushl", Loc(x)) \in Calm /\ Emit("movl", Loc(x)) \in Calm
                     /\ Emit("incl", Loc(x)) \in Calm /\ Emit("pushi", Imm(x)) \in Calm
                     /\ Emit("movg", Glob(x)) \in Calm
  BY CalmItems, ArgTypes DEF Opcode
<1>3. \A f \in Names : Emit("call", F(f)) \in Calm
  BY CalmItems, ArgTypes DEF Opcode
<1>4. Calm \subseteq Item
  BY DEF Calm
<1> QED BY <1>1, <1>2, <1>3, <1>4

(* The pieces of code two handlers share.                                  *)
LEMMA AssignRuns ==
  ASSUME NEW x \in Locals
  PROVE  AssignCode(x) \in Seq(Calm) /\ \A a \in Nat : Runs(AssignCode(x), a, a)
<1>1. /\ Emit("movl", Loc(x)) \in Calm /\ Emit("movl", Loc(x)) \in Item
      /\ Expr \in Calm /\ Expr \in Item
  BY CalmEmits, CalmItems, OperandsAssumption
<1>2. ASSUME NEW a \in Nat
      PROVE  Runs(AssignCode(x), a, a)
  <2>1. PICK b \in Nat : b = a + 1
    OBVIOUS
  <2>2. Moves(Expr, a, b) /\ Moves(Emit("movl", Loc(x)), b, a)
    BY <2>1, ItemMoves, PopMoves DEF PopOps
  <2> QED BY <1>1, <2>2, RunsLists DEF AssignCode
<1> QED BY <1>1, <1>2 DEF AssignCode

LEMMA CallRuns ==
  ASSUME NEW f \in Names
  PROVE  /\ CallCode(f) \in Seq(Calm)
         /\ \A a, b \in Nat : b = a + (IF f \in Void THEN 0 ELSE 1) => Runs(CallCode(f), a, b)
<1>1. Arity[f] \in Nat
  BY FunctionsAssumption
<1>2. /\ Args(Arity[f]) \in Calm /\ Emit("call", F(f)) \in Calm
      /\ Args(Arity[f]) \in Item /\ Emit("call", F(f)) \in Item
  BY <1>1, CalmEmits, CalmItems
<1>3. ASSUME NEW a \in Nat, NEW b \in Nat, b = a + (IF f \in Void THEN 0 ELSE 1)
      PROVE  Runs(CallCode(f), a, b)
  <2>1. PICK c \in Nat : c = a + Arity[f]
    BY <1>1
  <2>2. Moves(Args(Arity[f]), a, c)
    BY <1>1, <2>1, ItemMoves
  <2>3. Moves(Emit("call", F(f)), c, b)
    BY <1>1, <1>3, <2>1, CallMoves
  <2> QED BY <1>2, <2>2, <2>3, RunsLists DEF CallCode
<1> QED BY <1>2, <1>3 DEF CallCode

(* The expressions without labels, but for those of a match.               *)
LEMMA ExpressionScripts ==
  ASSUME IInv,
         Ident \/ IntConstant \/ Binop \/ Unary \/ Ternary \/ AssignExpr \/ Call
  PROVE  Replaced
<1>0. Expr \in Calm /\ Expr \in Item
  BY CalmItems, CalmEmits
<1>1. CASE Ident
  <2>1. PICK x \in Locals : At("expr") /\ Plain(<<Emit("pushl", Loc(x))>>)
    BY <1>1 DEF Ident
  <2>2. <<Emit("pushl", Loc(x))>> \in Seq(Calm)
    BY CalmEmits, OperandsAssumption
  <2>3. \A a, b \in Nat : b = a + 1 => Runs(<<Emit("pushl", Loc(x))>>, a, b)
    BY PushMoves, RunsOne DEF PushOps
  <2> QED BY <2>1, <2>2, <2>3, CalmExpression
<1>2. CASE IntConstant
  <2>1. PICK k \in Consts : At("expr") /\ Plain(<<Emit("pushi", Imm(k))>>)
    BY <1>2 DEF IntConstant
  <2>2. <<Emit("pushi", Imm(k))>> \in Seq(Calm)
    BY CalmEmits, OperandsAssumption
  <2>3. \A a, b \in Nat : b = a + 1 => Runs(<<Emit("pushi", Imm(k))>>, a, b)
    BY PushMoves, RunsOne DEF PushOps
  <2> QED BY <2>1, <2>2, <2>3, CalmExpression
<1>3. CASE Binop
  <2>1. PICK op \in BinOps : At("expr") /\ Plain(<<Expr, Expr, Emit0(op)>>)
    BY <1>3 DEF Binop, Visit
  <2>2. Emit0(op) \in Calm /\ Emit0(op) \in Item
    BY CalmEmits
  <2>3. ASSUME NEW a \in Nat, NEW b \in Nat, b = a + 1
        PROVE  Runs(<<Expr, Expr, Emit0(op)>>, a, b)
    <3>1. PICK c \in Nat : c = b + 1
      OBVIOUS
    <3>2. Moves(Expr, a, b) /\ Moves(Expr, b, c)
      BY <2>3, <3>1, ItemMoves
    <3>3. Moves(Emit0(op), c, b)
      BY <2>3, <3>1, BinaryMoves DEF Emit0, BinaryOps
    <3> QED BY <1>0, <2>2, <3>2, <3>3, RunsLists
  <2>4. <<Expr, Expr, Emit0(op)>> \in Seq(Calm)
    BY <1>0, <2>2
  <2> QED BY <2>1, <2>3, <2>4, CalmExpression
<1>4. CASE Unary
  <2>1. PICK op \in UnOps : At("expr") /\ Plain(<<Expr, Emit0(op)>>)
    BY <1>4 DEF Unary, Visit
  <2>2. Emit0(op) \in Calm /\ Emit0(op) \in Item
    BY CalmEmits
  <2>3. ASSUME NEW a \in Nat, NEW b \in Nat, b = a + 1
        PROVE  Runs(<<Expr, Emit0(op)>>, a, b)
    <3>1. Moves(Expr, a, b)
      BY <2>3, ItemMoves
    <3>2. Moves(Emit0(op), b, b)
      BY <2>3, UnaryMoves DEF Emit0, UnaryOps
    <3> QED BY <1>0, <2>2, <3>1, <3>2, RunsLists
  <2>4. <<Expr, Emit0(op)>> \in Seq(Calm)
    BY <1>0, <2>2
  <2> QED BY <2>1, <2>3, <2>4, CalmExpression
<1>5. CASE Ternary
  <2>1. At("expr") /\ Plain(<<Expr, Expr, Expr, Emit0("cmov")>>)
    BY <1>5 DEF Ternary, Visit
  <2>2. Emit0("cmov") \in Calm /\ Emit0("cmov") \in Item
    BY CalmEmits
  <2>3. ASSUME NEW a \in Nat, NEW b \in Nat, b = a + 1
        PROVE  Runs(<<Expr, Expr, Expr, Emit0("cmov")>>, a, b)
    <3>1. PICK c \in Nat, d \in Nat : c = b + 1 /\ d = c + 1
      OBVIOUS
    <3>2. Moves(Expr, a, b) /\ Moves(Expr, b, c) /\ Moves(Expr, c, d)
      BY <2>3, <3>1, ItemMoves
    <3>3. Moves(Emit0("cmov"), d, b)
      BY <2>3, <3>1, OtherMoves DEF Emit0
    <3> QED BY <1>0, <2>2, <3>2, <3>3, RunsLists
  <2>4. <<Expr, Expr, Expr, Emit0("cmov")>> \in Seq(Calm)
    BY <1>0, <2>2
  <2> QED BY <2>1, <2>3, <2>4, CalmExpression
<1>6. CASE AssignExpr
  <2>1. PICK x \in Locals : At("expr") /\ Plain(AssignCode(x) \o <<Emit("pushl", Loc(x))>>)
    BY <1>6 DEF AssignExpr, Visit
  <2>2. <<Emit("pushl", Loc(x))>> \in Seq(Calm)
    BY CalmEmits, OperandsAssumption
  <2>3. AssignCode(x) \in Seq(Calm) /\ \A a \in Nat : Runs(AssignCode(x), a, a)
    BY AssignRuns
  <2>4. ASSUME NEW a \in Nat, NEW b \in Nat, b = a + 1
        PROVE  Runs(AssignCode(x) \o <<Emit("pushl", Loc(x))>>, a, b)
    <3>1. Runs(<<Emit("pushl", Loc(x))>>, a, b)
      BY <2>4, PushMoves, RunsOne DEF PushOps
    <3> QED BY <2>2, <2>3, <3>1, RunsJoined
  <2>5. AssignCode(x) \o <<Emit("pushl", Loc(x))>> \in Seq(Calm)
    BY <2>2, <2>3
  <2> QED BY <2>1, <2>4, <2>5, CalmExpression
<1>7. CASE Call
  <2>1. PICK i \in DOMAIN functions :
          At("expr") /\ functions[i] \notin Void /\ Plain(CallCode(functions[i]))
    BY <1>7 DEF Call, Visit
  <2>2. functions[i] \in Names
    BY FunctionsAssumption DEF IInv, TypeOK
  <2> QED BY <2>1, <2>2, CallRuns, CalmExpression
<1> QED BY <1>1, <1>2, <1>3, <1>4, <1>5, <1>6, <1>7

(* Any other handler with a calm script: the promise has to be kept.       *)
LEMMA CalmHandler ==
  ASSUME NEW act \in {"args", "params", "tests", "pattern"},
         At(act), NEW s \in Seq(Calm), Plain(s), Balances(s)
  PROVE  Replaced
<1>1. s \in Seq(Item) /\ Mild(s) /\ Woven(s)
  BY CalmScript
<1>2. Unfolds(s) /\ UNCHANGED strings /\ Head(todo).act = act
  BY DEF Unfolds, At, Plain, Unfold, SameOutput
<1> QED BY <1>1, <1>2 DEF Replaced, Ordinary

(* Arguments and parameters, one at a time.                                *)
LEMMA ArgumentsScript ==
  ASSUME IInv, Arguments
  PROVE  Replaced
<1> DEFINE n == Head(todo).n
<1>1. At("args") /\ Head(todo).act = "args" /\ n \in Nat
  BY TopItem DEF Arguments, At
<1>2. \A a, b \in Nat : Moves(Head(todo), a, b) => b = a + n
  BY <1>1 DEF Moves
<1>3. CASE n = 0
  <2>1. Plain(<<>>)
    BY <1>3 DEF Arguments
  <2>2. << >> \in Seq(Calm)
    OBVIOUS
  <2>3. Balances(<<>>)
    BY <1>2, <1>3, RunsNone DEF Balances
  <2> QED BY <1>1, <2>1, <2>2, <2>3, CalmHandler
<1>4. CASE n # 0
  <2>1. PICK m \in Nat : m = n - 1
    BY <1>1, <1>4
  <2>2. Plain(<<Expr, Args(m)>>)
    BY <1>4, <2>1 DEF Arguments
  <2>3. Expr \in Calm /\ Args(m) \in Calm /\ Expr \in Item /\ Args(m) \in Item
    BY CalmItems, CalmEmits
  <2>4. ASSUME NEW a \in Nat, NEW b \in Nat, b = a + n
        PROVE  Runs(<<Expr, Args(m)>>, a, b)
    <3>1. PICK c \in Nat : c = a + 1
      OBVIOUS
    <3>2. Moves(Expr, a, c)
      BY <3>1, ItemMoves
    <3>3. b = c + m
      BY <1>1, <2>1, <2>4, <3>1
    <3>4. Moves(Args(m), c, b)
      BY <3>3, ItemMoves
    <3> QED BY <2>3, <3>2, <3>4, RunsLists
  <2>5. Balances(<<Expr, Args(m)>>)
    BY <1>2, <2>4 DEF Balances
  <2>6. <<Expr, Args(m)>> \in Seq(Calm)
    BY <2>3
  <2> QED BY <1>1, <2>2, <2>5, <2>6, CalmHandler
<1> QED BY <1>3, <1>4

LEMMA ParametersScript ==
  ASSUME IInv, Parameters
  PROVE  Replaced
<1> DEFINE n == Head(todo).n
<1>1. At("params") /\ Head(todo).act = "params" /\ n \in Nat
  BY TopItem DEF Parameters, At
<1>2. \A a, b \in Nat : Moves(Head(todo), a, b) => a = n /\ b = 0
  BY <1>1 DEF Moves
<1>3. CASE n = 0
  <2>1. Plain(<<>>)
    BY <1>3 DEF Parameters
  <2>2. << >> \in Seq(Calm)
    OBVIOUS
  <2>3. Balances(<<>>)
    BY <1>2, <1>3, RunsNone DEF Balances
  <2> QED BY <1>1, <2>1, <2>2, <2>3, CalmHandler
<1>4. CASE n # 0
  <2>1. PICK i \in Nat : i = n - 1
    BY <1>1, <1>4
  <2>2. n = i + 1 /\ i \in Int
    BY <1>1, <2>1
  <2>3. /\ Emit("movl", Loc(i)) \in Calm /\ Emit("pushl", Loc(i)) \in Calm /\ Params(i) \in Calm
        /\ Emit0("alloc") \in Calm /\ Emit0("dup") \in Calm /\ Emit0("copy") \in Calm
        /\ \A size \in Consts : Emit("pushi", Imm(size)) \in Calm
    BY <2>2, CalmItems, CalmEmits, OperandsAssumption
  <2>4. Moves(Emit("movl", Loc(i)), n, i) /\ Moves(Params(i), i, 0)
    BY <1>1, <2>2, ItemMoves, PopMoves DEF PopOps
  <2>5. \/ Plain(<<Emit("movl", Loc(i)), Params(i)>>)
        \/ \E size \in Consts :
             Plain(<<Emit("movl", Loc(i)), Emit("pushi", Imm(size)), Emit0("alloc"),
                     Emit0("dup"), Emit("pushl", Loc(i)), Emit("pushi", Imm(size)),
                     Emit0("copy"), Emit("movl", Loc(i)), Params(i)>>)
    BY <1>4, <2>1 DEF Parameters
  <2>6. CASE Plain(<<Emit("movl", Loc(i)), Params(i)>>)
    <3>1. Runs(<<Emit("movl", Loc(i)), Params(i)>>, n, 0)
      BY <1>1, <2>3, <2>4, CalmEmits, RunsLists
    <3>2. Balances(<<Emit("movl", Loc(i)), Params(i)>>)
      BY <1>2, <3>1 DEF Balances
    <3>3. <<Emit("movl", Loc(i)), Params(i)>> \in Seq(Calm)
      BY <2>3
    <3> QED BY <1>1, <2>6, <3>2, <3>3, CalmHandler
  <2>7. ASSUME NEW size \in Consts,
               Plain(<<Emit("movl", Loc(i)), Emit("pushi", Imm(size)), Emit0("alloc"),
                       Emit0("dup"), Emit("pushl", Loc(i)), Emit("pushi", Imm(size)),
                       Emit0("copy"), Emit("movl", Loc(i)), Params(i)>>)
        PROVE  Replaced
    <3> DEFINE move == Emit("movl", Loc(i))
               push == Emit("pushl", Loc(i))
               imm  == Emit("pushi", Imm(size))
               s    == <<move, imm, Emit0("alloc"), Emit0("dup"), push, imm,
                         Emit0("copy"), move, Params(i)>>
               s1   == <<move, imm, Emit0("alloc"), Emit0("dup")>>
               s2   == <<push, imm>>
               s3   == <<Emit0("copy"), move, Params(i)>>
    <3>1. /\ move \in Calm /\ push \in Calm /\ imm \in Calm /\ Params(i) \in Calm
          /\ Emit0("alloc") \in Calm /\ Emit0("dup") \in Calm /\ Emit0("copy") \in Calm
      BY <2>3
    <3>2. PICK c \in Nat, d \in Nat : c = n + 1 /\ d = n + 2
      BY <1>1
    <3>3. /\ Moves(move, n, i) /\ Moves(imm, i, n) /\ Moves(Emit0("alloc"), n, n)
          /\ Moves(Emit0("dup"), n, c) /\ Moves(push, c, d) /\ Moves(Params(i), i, 0)
      <4>1. Moves(imm, i, n) /\ Moves(push, c, d)
        BY <1>1, <2>2, <3>2, PushMoves DEF PushOps
      <4>2. Moves(Emit0("alloc"), n, n)
        BY <1>1, <1>4, UnaryMoves DEF UnaryOps, Emit0
      <4>3. Moves(Emit0("dup"), n, c)
        BY <1>1, <1>4, <3>2, OtherMoves DEF Emit0
      <4> QED BY <2>4, <4>1, <4>2, <4>3
    <3>4. PICK e \in Nat : e = n + 3
      BY <1>1
    <3>5. Moves(imm, d, e) /\ Moves(Emit0("copy"), e, n)
      <4>0. e = d + 1
        BY <1>1, <3>2, <3>4
      <4>1. Moves(imm, d, e)
        BY <4>0, PushMoves DEF PushOps
      <4>2. Moves(Emit0("copy"), e, n)
        BY <1>1, <3>4, OtherMoves DEF Emit0
      <4> QED BY <4>1, <4>2
    <3> HIDE DEF move, push, imm
    <3>6. s \in Seq(Calm) /\ s1 \in Seq(Calm) /\ s2 \in Seq(Calm) /\ s3 \in Seq(Calm)
      BY ONLY <3>1
    <3>7. Runs(s1, n, c) /\ Runs(s2, c, e)
      BY <1>1, <3>1, <3>3, <3>5, CalmEmits, RunsLists
    <3>8. Runs(s3, e, 0)
      BY <1>1, <3>1, <3>3, <3>5, CalmEmits, RunsLists
    <3>9. s = s1 \o (s2 \o s3)
      <4>1. s2 \o s3 = <<push, imm, Emit0("copy"), move, Params(i)>>
        BY ONLY <3>1, TwoBeforeThree
      <4>2. s = s1 \o <<push, imm, Emit0("copy"), move, Params(i)>>
        BY ONLY <3>1
      <4> QED BY <4>1, <4>2
    <3> HIDE DEF s1, s2, s3
    <3>10. Runs(s2 \o s3, c, 0) /\ s2 \o s3 \in Seq(Calm)
      BY <3>6, <3>7, <3>8, RunsJoined
    <3>11. Runs(s, n, 0)
      BY <1>1, <3>6, <3>7, <3>9, <3>10, RunsJoined
    <3>12. Plain(s)
      BY <2>7 DEF move, push, imm
    <3> HIDE DEF s
    <3>13. Balances(s)
      BY <1>2, <3>11 DEF Balances
    <3> QED BY <1>1, <3>6, <3>12, <3>13, CalmHandler
  <2> QED BY <2>5, <2>6, <2>7
<1> QED BY <1>3, <1>4

(* The tests of a match promise nothing where the code is balanced: there  *)
(* is no match.                                                            *)
LEMMA MatchTestsScript ==
  ASSUME IInv, MatchTests \/ MatchPattern
  PROVE  Replaced
<1> DEFINE t    == Head(todo).arg2
           test == Emit("pushl", t)
<1>1. /\ At("tests") \/ At("pattern")
      /\ Head(todo).act \in {"tests", "pattern"}
  BY DEF MatchTests, MatchPattern, At
<1>2. t \in Arg
  BY <1>1, TopItem DEF At
<1>3. \A s : Balances(s)
  BY <1>1 DEF Balances, Moves
<1>4. ASSUME NEW s \in Seq(Calm), Plain(s)
      PROVE  Replaced
  BY <1>1, <1>3, <1>4, CalmHandler
<1>5. /\ Pattern(t) \in Calm /\ test \in Calm /\ Emit0("logicand") \in Calm
      /\ Emit0("eq") \in Calm /\ Emit0("ge") \in Calm /\ Emit0("le") \in Calm
      /\ Emit0("dup") \in Calm
      /\ \A k \in Consts : Emit("pushi", Imm(k)) \in Calm
      /\ \A y \in Locals : Emit("pushl", Loc(y)) \in Calm
  <2>1. Pattern(t) \in Calm /\ test \in Calm
    BY <1>2, CalmItems DEF Opcode
  <2> QED BY <2>1, CalmEmits, OperandsAssumption
<1>6. CASE MatchTests
  <2>1. Plain(<<Pattern(t)>>) \/ Plain(<<Pattern(t), Pattern(t), Emit0("logicand")>>)
    BY <1>6 DEF MatchTests
  <2>2. <<Pattern(t)>> \in Seq(Calm)
        /\ <<Pattern(t), Pattern(t), Emit0("logicand")>> \in Seq(Calm)
    BY <1>5
  <2> QED BY <1>4, <2>1, <2>2
<1>7. CASE MatchPattern
  <2>1. \/ \E k \in Consts : Plain(<<test, Emit("pushi", Imm(k)), Emit0("eq")>>)
        \/ \E y \in Locals : Plain(<<test, Emit("pushl", Loc(y)), Emit0("eq")>>)
        \/ \E k, m \in Consts :
             Plain(<<test, Emit0("dup"), Emit("pushi", Imm(k)), Emit0("ge"),
                     Emit("pushi", Imm(m)), Emit0("le"), Emit0("logicand")>>)
    BY <1>7 DEF MatchPattern
  <2> HIDE DEF test
  <2>2. ASSUME NEW k \in Consts, Plain(<<test, Emit("pushi", Imm(k)), Emit0("eq")>>)
        PROVE  Replaced
    <3>1. <<test, Emit("pushi", Imm(k)), Emit0("eq")>> \in Seq(Calm)
      BY ONLY <1>5, k \in Consts
    <3> QED BY <1>4, <2>2, <3>1
  <2>3. ASSUME NEW y \in Locals, Plain(<<test, Emit("pushl", Loc(y)), Emit0("eq")>>)
        PROVE  Replaced
    <3>1. <<test, Emit("pushl", Loc(y)), Emit0("eq")>> \in Seq(Calm)
      BY ONLY <1>5, y \in Locals
    <3> QED BY <1>4, <2>3, <3>1
  <2>4. ASSUME NEW k \in Consts, NEW m \in Consts,
               Plain(<<test, Emit0("dup"), Emit("pushi", Imm(k)), Emit0("ge"),
                       Emit("pushi", Imm(m)), Emit0("le"), Emit0("logicand")>>)
        PROVE  Replaced
    <3>1. <<test, Emit0("dup"), Emit("pushi", Imm(k)), Emit0("ge"),
            Emit("pushi", Imm(m)), Emit0("le"), Emit0("logicand")>> \in Seq(Calm)
      BY ONLY <1>5, k \in Consts, m \in Consts
    <3> QED BY <1>4, <2>4, <3>1
  <2> QED BY <2>1, <2>2, <2>3, <2>4
<1> QED BY <1>6, <1>7

(* The statements without labels.                                          *)
LEMMA PlainStatementScripts ==
  ASSUME IInv,
         \/ Empty \/ Compound \/ Statements \/ VariableDeclaration
         \/ DiscardedExpression \/ Return
  PROVE  Replaced
<1>0. /\ Expr \in Calm /\ Stmt \in Calm /\ Stmts \in Calm /\ Discarded \in Calm
      /\ Emit0("ret") \in Calm /\ Emit0("pushnull") \in Calm /\ Emit0("alloc") \in Calm
      /\ \A x \in Locals : Emit("movl", Loc(x)) \in Calm
      /\ \A k \in Consts : Emit("pushi", Imm(k)) \in Calm
      /\ Calm \subseteq Item
  BY CalmItems, CalmEmits, OperandsAssumption
<1>n. << >> \in Seq(Calm) /\ Runs(<<>>, 0, 0)
  BY RunsNone
<1>1. CASE Empty
  BY <1>1, <1>n, CalmStatement DEF Empty
<1>2. CASE Compound
  <2>1. At("stmt") /\ Plain(<<Stmts>>)
    BY <1>2 DEF Compound, Visit
  <2>2. Runs(<<Stmts>>, 0, 0) /\ <<Stmts>> \in Seq(Calm)
    BY <1>0, ItemMoves, RunsOne
  <2> QED BY <2>1, <2>2, CalmStatement
<1>3. CASE Statements
  <2>1. At("stmts") /\ (Plain(<<Stmt, Stmts>>) \/ Plain(<<>>))
    BY <1>3 DEF Statements
  <2>2. <<Stmt, Stmts>> \in Seq(Calm)
    BY <1>0
  <2>3. Runs(<<Stmt, Stmts>>, 0, 0)
    BY <1>0, ItemMoves, RunsLists
  <2> QED BY <1>n, <2>1, <2>2, <2>3, CalmStatement
<1>4. CASE VariableDeclaration
  <2>1. PICK x \in Locals :
          /\ At("stmt")
          /\ \/ Plain(<<>>)
             \/ Plain(AssignCode(x))
             \/ Plain(<<Emit0("pushnull"), Emit("movl", Loc(x))>>)
             \/ \E k \in Consts :
                  Plain(<<Emit("pushi", Imm(k)), Emit0("alloc"), Emit("movl", Loc(x))>>)
    BY <1>4 DEF VariableDeclaration, Visit
  <2>2. AssignCode(x) \in Seq(Calm) /\ Runs(AssignCode(x), 0, 0)
    BY AssignRuns
  <2>3. Moves(Emit("movl", Loc(x)), 1, 0)
    BY PopMoves DEF PopOps
  <2>4. <<Emit0("pushnull"), Emit("movl", Loc(x))>> \in Seq(Calm)
    BY <1>0
  <2>5. Runs(<<Emit0("pushnull"), Emit("movl", Loc(x))>>, 0, 0)
    <3>1. Moves(Emit0("pushnull"), 0, 1)
      BY PushMoves DEF PushOps, Emit0
    <3> QED BY <1>0, <2>3, <3>1, RunsLists
  <2>6. ASSUME NEW k \in Consts
        PROVE  LET s == <<Emit("pushi", Imm(k)), Emit0("alloc"), Emit("movl", Loc(x))>>
               IN  s \in Seq(Calm) /\ Runs(s, 0, 0)
    <3>1. Moves(Emit("pushi", Imm(k)), 0, 1)
      BY PushMoves DEF PushOps
    <3>2. Moves(Emit0("alloc"), 1, 1)
      BY UnaryMoves DEF UnaryOps, Emit0
    <3> QED BY <1>0, <2>3, <3>1, <3>2, RunsLists
  <2> QED BY <1>n, <2>1, <2>2, <2>4, <2>5, <2>6, CalmStatement
<1>5. CASE DiscardedExpression
  <2>1. At("stmt") /\ Plain(<<Discarded>>)
    BY <1>5 DEF DiscardedExpression, Visit
  <2>2. Runs(<<Discarded>>, 0, 0) /\ <<Discarded>> \in Seq(Calm)
    BY <1>0, ItemMoves, RunsOne
  <2> QED BY <2>1, <2>2, CalmStatement
<1>6. CASE Return
  <2>1. At("stmt") /\ (Plain(<<Emit0("ret")>>) \/ Plain(<<Expr, Emit0("ret")>>))
    BY <1>6 DEF Return, Visit
  <2>2. Moves(Emit0("ret"), 0, 0) /\ Moves(Emit0("ret"), 1, 0) /\ Moves(Expr, 0, 1)
    BY OtherMoves, ItemMoves DEF Emit0
  <2>3. <<Emit0("ret")>> \in Seq(Calm) /\ <<Expr, Emit0("ret")>> \in Seq(Calm)
    BY <1>0
  <2>4. Runs(<<Emit0("ret")>>, 0, 0) /\ Runs(<<Expr, Emit0("ret")>>, 0, 0)
    BY <1>0, <2>2, RunsOne, RunsLists
  <2> QED BY <2>1, <2>3, <2>4, CalmStatement
<1> QED BY <1>1, <1>2, <1>3, <1>4, <1>5, <1>6

(* A discarded expression; what leftover bytes decide promises nothing.    *)
LEMMA DiscardedScripts ==
  ASSUME IInv, HandleDiscarded
  PROVE  Replaced
<1>0. /\ At("discard") /\ Expr \in Calm /\ Emit0("pop") \in Calm /\ Emit0("cmov") \in Calm
      /\ \A op \in BinOps : Emit0(op) \in Calm
      /\ \A x \in Locals : Emit("pushl", Loc(x)) \in Calm
      /\ Calm \subseteq Item
  BY CalmItems, CalmEmits, OperandsAssumption DEF HandleDiscarded
<1>1. Moves(Emit0("pop"), 1, 0)
  BY PopMoves DEF PopOps, Emit0
<1>2. \/ \E x \in Locals : Plain(AssignCode(x))
      \/ \E x \in Locals :
           Plain(AssignCode(x) \o <<Emit("pushl", Loc(x)), Emit0("pop")>>)
      \/ \E i \in DOMAIN functions :
           IF functions[i] \in Void
             THEN Plain(CallCode(functions[i]))
             ELSE Plain(CallCode(functions[i]) \o <<Emit0("pop")>>)
      \/ /\ "discard_binop" \in Forms
         /\ \E op \in BinOps, discard \in Discards :
              Plain(<<Expr, Expr, Emit0(op)>> \o discard)
      \/ /\ "discard_ternary" \in Forms
         /\ \E discard \in Discards :
              Plain(<<Expr, Expr, Expr, Emit0("cmov")>> \o discard)
  BY DEF HandleDiscarded
<1>3. ASSUME NEW x \in Locals, Plain(AssignCode(x))
      PROVE  Replaced
  BY <1>0, <1>3, AssignRuns, CalmStatement
<1>4. ASSUME NEW x \in Locals,
             Plain(AssignCode(x) \o <<Emit("pushl", Loc(x)), Emit0("pop")>>)
      PROVE  Replaced
  <2> DEFINE t == <<Emit("pushl", Loc(x)), Emit0("pop")>>
  <2>1. t \in Seq(Calm) /\ AssignCode(x) \in Seq(Calm) /\ Runs(AssignCode(x), 0, 0)
    BY <1>0, AssignRuns
  <2>2. Runs(t, 0, 0)
    <3>1. Moves(Emit("pushl", Loc(x)), 0, 1)
      BY PushMoves DEF PushOps
    <3> QED BY <1>0, <1>1, <3>1, RunsLists
  <2> HIDE DEF t
  <2>3. AssignCode(x) \o t \in Seq(Calm) /\ Runs(AssignCode(x) \o t, 0, 0)
    BY <2>1, <2>2, RunsJoined
  <2>4. Plain(AssignCode(x) \o t)
    BY <1>4 DEF t
  <2> QED BY <1>0, <2>3, <2>4, CalmStatement
<1>5. ASSUME NEW i \in DOMAIN functions,
             IF functions[i] \in Void
               THEN Plain(CallCode(functions[i]))
               ELSE Plain(CallCode(functions[i]) \o <<Emit0("pop")>>)
      PROVE  Replaced
  <2> DEFINE f == functions[i]
  <2>1. f \in Names
    BY FunctionsAssumption DEF IInv, TypeOK
  <2> HIDE DEF f
  <2>2. CASE f \in Void
    <3>1. CallCode(f) \in Seq(Calm) /\ Runs(CallCode(f), 0, 0)
      BY <2>1, <2>2, CallRuns
    <3>2. Plain(CallCode(f))
      BY <1>5, <2>2 DEF f
    <3> QED BY <1>0, <3>1, <3>2, CalmStatement
  <2>3. CASE f \notin Void
    <3>1. CallCode(f) \in Seq(Calm) /\ Runs(CallCode(f), 0, 1)
      BY <2>1, <2>3, CallRuns
    <3> DEFINE t == <<Emit0("pop")>>
    <3>2. Plain(CallCode(f) \o t)
      BY <1>5, <2>3 DEF f
    <3>3. t \in Seq(Calm) /\ Runs(t, 1, 0)
      BY <1>0, <1>1, RunsOne
    <3> HIDE DEF t
    <3>4. CallCode(f) \o t \in Seq(Calm) /\ Runs(CallCode(f) \o t, 0, 0)
      BY <3>1, <3>3, RunsJoined
    <3> QED BY <1>0, <3>2, <3>4, CalmStatement
  <2> QED BY <2>2, <2>3
<1>6. \A discard \in Discards : discard \in Seq(Calm)
  <2>1. << >> \in Seq(Calm) /\ <<Emit0("pop")>> \in Seq(Calm)
    BY <1>0
  <2> QED BY ONLY <2>1 DEF Discards
<1>7. ASSUME NEW op \in BinOps, NEW discard \in Discards, "discard_binop" \in Forms,
             Plain(<<Expr, Expr, Emit0(op)>> \o discard)
      PROVE  Replaced
  <2>1. <<Expr, Expr, Emit0(op)>> \in Seq(Calm)
    BY <1>0
  <2>2. <<Expr, Expr, Emit0(op)>> \o discard \in Seq(Calm)
    BY ONLY <1>6, <2>1, discard \in Discards, Joined
  <2> QED BY <1>0, <1>7, <2>2, CalmStatement DEF BalancedForms
<1>8. ASSUME NEW discard \in Discards, "discard_ternary" \in Forms,
             Plain(<<Expr, Expr, Expr, Emit0("cmov")>> \o discard)
      PROVE  Replaced
  <2>1. <<Expr, Expr, Expr, Emit0("cmov")>> \in Seq(Calm)
    BY <1>0
  <2>2. <<Expr, Expr, Expr, Emit0("cmov")>> \o discard \in Seq(Calm)
    BY ONLY <1>6, <2>1, discard \in Discards, Joined
  <2> QED BY <1>0, <1>8, <2>2, CalmStatement DEF BalancedForms
<1> QED BY <1>2, <1>3, <1>4, <1>5, <1>7, <1>8

(* The initialisers of the global variables.                               *)
LEMMA GlobalScripts ==
  ASSUME IInv, GlobalDeclarations
  PROVE  Replaced
<1>1. /\ At("globals")
      /\ \/ \E k \in Consts :
              Plain(<<Emit("pushi", Imm(k)), Emit("movg", Glob(0)), Globals>>)
         \/ Plain(<<>>)
  BY DEF GlobalDeclarations
<1>2. << >> \in Seq(Calm) /\ Runs(<<>>, 0, 0)
  BY RunsNone
<1>3. ASSUME NEW k \in Consts
      PROVE  LET s == <<Emit("pushi", Imm(k)), Emit("movg", Glob(0)), Globals>>
             IN  s \in Seq(Calm) /\ Runs(s, 0, 0)
  <2>1. /\ Emit("pushi", Imm(k)) \in Calm /\ Emit("movg", Glob(0)) \in Calm
        /\ Globals \in Calm /\ Calm \subseteq Item
    BY CalmItems, CalmEmits, OperandsAssumption
  <2>2. Moves(Emit("pushi", Imm(k)), 0, 1)
    BY PushMoves DEF PushOps
  <2>3. Moves(Emit("movg", Glob(0)), 1, 0)
    BY PopMoves DEF PopOps
  <2>4. Runs(<<Emit("pushi", Imm(k)), Emit("movg", Glob(0)), Globals>>, 0, 0)
    BY <2>1, <2>2, <2>3, ItemMoves, RunsLists
  <2> QED BY <2>1, <2>4
<1> QED BY <1>1, <1>2, <1>3, CalmStatement


(* A handler that places labels or jumps: its script has to be mild, woven *)
(* and balanced.                                                           *)
LEMMA WovenHandler ==
  ASSUME todo # <<>>, Head(todo).act \notin {"emit", "target", "funcs", "strings"},
         NEW s \in Seq(Item), Unfold(s), SameOutput, Mild(s), Woven(s), Balances(s)
  PROVE  Replaced
<1>1. Unfolds(s) /\ UNCHANGED strings
  BY DEF Unfolds, Unfold, SameOutput
<1> QED BY <1>1 DEF Replaced, Ordinary

(* What the labels of a script are made of.                                *)
LEMMA FlowItems ==
  /\ \A l \in GenLabel :
       /\ Target(l) \in Item /\ Target(l).act = "target" /\ Target(l).arg = l
       /\ Else(l) \in Item /\ Else(l).act = "else" /\ Else(l).arg = l
       /\ \A op \in {"jmp", "jf", "jt"} :
            /\ Emit(op, l) \in Item /\ Emit(op, l).act = "emit"
            /\ Emit(op, l).op = op /\ Emit(op, l).arg = l
  /\ \A l \in GenLabel, t \in Arg, n \in Nat :
       Cases(l, t, n) \in Item /\ Cases(l, t, n).act = "cases" /\ Cases(l, t, n).arg = l
  /\ \A l, m \in GenLabel, n \in Nat :
       /\ Leave(l, m, n) \in Item /\ Leave(l, m, n).act = "leave"
       /\ Leave(l, m, n).arg = l /\ Leave(l, m, n).arg2 = m
  /\ Expr \in Item /\ Expr.act = "expr" /\ Stmt \in Item /\ Stmt.act = "stmt"
<1>1. ASSUME NEW l \in GenLabel
      PROVE  /\ Target(l) \in Item /\ Target(l).act = "target" /\ Target(l).arg = l
             /\ Else(l) \in Item /\ Else(l).act = "else" /\ Else(l).arg = l
  BY ItemTypes, ArgTypes DEF Target, Else, Do
<1>2. ASSUME NEW l \in GenLabel, NEW op \in {"jmp", "jf", "jt"}
      PROVE  /\ Emit(op, l) \in Item /\ Emit(op, l).act = "emit"
             /\ Emit(op, l).op = op /\ Emit(op, l).arg = l
  <2>1. op \in Opcode /\ l \in Arg
    BY ArgTypes DEF Opcode
  <2> QED BY <2>1, ItemTypes DEF Emit, Do
<1>3. ASSUME NEW l \in GenLabel, NEW t \in Arg, NEW n \in Nat
      PROVE  Cases(l, t, n) \in Item /\ Cases(l, t, n).act = "cases" /\ Cases(l, t, n).arg = l
  BY ItemTypes, ArgTypes DEF Cases, Do
<1>4. ASSUME NEW l \in GenLabel, NEW m \in GenLabel, NEW n \in Nat
      PROVE  /\ Leave(l, m, n) \in Item /\ Leave(l, m, n).act = "leave"
             /\ Leave(l, m, n).arg = l /\ Leave(l, m, n).arg2 = m
  BY ItemTypes, ArgTypes DEF Leave, Do
<1>5. Expr \in Item /\ Expr.act = "expr" /\ Stmt \in Item /\ Stmt.act = "stmt"
  BY ItemTypes DEF Expr, Stmt, Do
<1> QED BY ONLY <1>1, <1>2, <1>3, <1>4, <1>5

(* if: the test jumps to the label the else part will place.               *)
LEMMA IfScript ==
  ASSUME IInv, If
  PROVE  Replaced
<1> DEFINE else == L(label_counter)
           s    == <<Expr, Emit("jf", else), Stmt, Else(else)>>
<1>1. todo # <<>> /\ Head(todo).act = "stmt" /\ Unfold(s) /\ SameOutput
  BY DEF If, Visit, At
<1>2. else \in GenLabel /\ ~ IsOld(else)
  BY FreshLabels
<1> HIDE DEF else
<1>3. /\ s \in Seq(Item) /\ Len(s) = 4 /\ DOMAIN s = 1 .. 4
      /\ s[1] = Expr /\ s[2] = Emit("jf", else) /\ s[3] = Stmt /\ s[4] = Else(else)
  <2>1. Expr \in Item /\ Emit("jf", else) \in Item /\ Stmt \in Item /\ Else(else) \in Item
    BY <1>2, FlowItems
  <2> QED BY ONLY <2>1
<1>4. Runs(s, 0, 0)
  <2>1. /\ Moves(Expr, 0, 1) /\ Moves(Emit("jf", else), 1, 0) /\ Moves(Stmt, 0, 0)
        /\ Moves(Else(else), 0, 0)
    BY <1>2, ItemMoves, LabelMoves, OtherMoves
  <2> QED BY <1>2, <2>1, FlowItems, RunsLists
<1> HIDE DEF s
<1>5. /\ s[1].act = "expr" /\ s[2].act = "emit" /\ s[2].op = "jf" /\ s[2].arg = else
      /\ s[3].act = "stmt" /\ s[4].act = "else" /\ s[4].arg = else
  BY <1>2, <1>3, FlowItems
<1>6. Mild(s)
  BY <1>2, <1>3, <1>5 DEF Mild, Placing
<1>7. LeadsOn(s, 2)
  BY <1>2, <1>3, <1>5 DEF LeadsOn, Placing
<1>8. Woven(s)
  BY <1>2, <1>3, <1>5, <1>7 DEF Woven, Placing
<1>9. Balances(s)
  BY <1>1, <1>4 DEF Balances, Moves
<1> QED BY <1>1, <1>3, <1>6, <1>8, <1>9, WovenHandler

(* No else part, or no further case: the label is placed.                  *)
LEMMA EndScript ==
  ASSUME IInv, FunctionsApart, NoElse \/ MatchEnd
  PROVE  Replaced
<1> DEFINE l == Head(todo).arg
           s == <<Target(l)>>
<1>1. todo # <<>> /\ Head(todo).act \in {"else", "cases"} /\ Unfold(s) /\ SameOutput
  BY DEF NoElse, MatchEnd, At, Plain
<1>2. l \in GenLabel
  BY <1>1, TopItem DEF FunctionsApart
<1>3. s \in Seq(Item) /\ DOMAIN s = 1 .. 1 /\ s[1] = Target(l)
  <2>1. Target(l) \in Item
    BY <1>2, FlowItems
  <2> QED BY ONLY <2>1
<1>4. Runs(s, 0, 0)
  BY <1>2, LabelMoves, RunsOne
<1>5. Target(l).act = "target" /\ Target(l).arg = l
  BY <1>2, FlowItems
<1> HIDE DEF s
<1>6. Mild(s)
  BY <1>2, <1>3, <1>5 DEF Mild, Placing
<1>7. Woven(s)
  BY <1>1, <1>3, <1>5 DEF Woven, Placing
<1>8. Balances(s)
  BY <1>1, <1>4 DEF Balances, Moves
<1> QED BY <1>1, <1>3, <1>6, <1>7, <1>8, WovenHandler

(* The else part: the first part jumps behind it.                          *)
LEMMA ElseScript ==
  ASSUME IInv, FunctionsApart, ElsePart
  PROVE  Replaced
<1> DEFINE else == Head(todo).arg
           out  == L(label_counter)
           s    == <<Emit("jmp", out), Target(else), Stmt, Target(out)>>
<1>1. todo # <<>> /\ Head(todo).act = "else" /\ Unfold(s) /\ SameOutput
  BY DEF ElsePart, Visit, At
<1>2. else \in GenLabel /\ out \in GenLabel /\ ~ IsOld(out)
  BY <1>1, TopItem, FreshLabels DEF FunctionsApart
<1>0. Head(todo).arg = else
  OBVIOUS
<1> HIDE DEF out, else
<1>3. /\ s \in Seq(Item) /\ DOMAIN s = 1 .. 4
      /\ s[1] = Emit("jmp", out) /\ s[2] = Target(else) /\ s[3] = Stmt /\ s[4] = Target(out)
  <2>1. Emit("jmp", out) \in Item /\ Target(else) \in Item /\ Stmt \in Item /\ Target(out) \in Item
    BY <1>2, FlowItems
  <2> QED BY ONLY <2>1
<1>4. Runs(s, 0, 0)
  <2>1. /\ Moves(Emit("jmp", out), 0, 0) /\ Moves(Target(else), 0, 0) /\ Moves(Stmt, 0, 0)
        /\ Moves(Target(out), 0, 0)
    BY <1>2, ItemMoves, LabelMoves, OtherMoves
  <2> QED BY <1>2, <2>1, FlowItems, RunsLists
<1> HIDE DEF s
<1>5. /\ s[1].act = "emit" /\ s[1].op = "jmp" /\ s[1].arg = out
      /\ s[2].act = "target" /\ s[2].arg = else /\ s[3].act = "stmt"
      /\ s[4].act = "target" /\ s[4].arg = out
  BY <1>2, <1>3, FlowItems
<1>6. Mild(s)
  BY <1>2, <1>3, <1>5 DEF Mild, Placing
<1>7. LeadsOn(s, 1)
  BY <1>2, <1>3, <1>5 DEF LeadsOn, Placing
<1>8. Woven(s)
  BY <1>0, <1>1, <1>2, <1>3, <1>5, <1>7 DEF Woven, Placing
<1>9. Balances(s)
  BY <1>1, <1>4 DEF Balances, Moves
<1> QED BY <1>1, <1>3, <1>6, <1>8, <1>9, WovenHandler

(* match and its cases; they promise nothing where the code is balanced.   *)
LEMMA MatchScript ==
  ASSUME IInv, Match
  PROVE  Replaced
<1> DEFINE out == L(label_counter)
<1>1. PICK t \in Locals : Unfold(<<Expr, Emit("movl", Loc(t)), Cases(out, Loc(t), 0)>>)
  BY DEF Match
<1> DEFINE s == <<Expr, Emit("movl", Loc(t)), Cases(out, Loc(t), 0)>>
<1>2. /\ todo # <<>> /\ Head(todo).act = "expr" /\ Unfold(s) /\ SameOutput
      /\ ~ BalancedForms
  BY <1>1 DEF Match, Visit, At, BalancedForms
<1>3. out \in GenLabel /\ ~ IsOld(out)
  BY FreshLabels
<1> HIDE DEF out
<1>4. /\ Emit("movl", Loc(t)) \in Calm /\ Calm \subseteq Item
      /\ Loc(t) \in Arg
  BY CalmEmits, ArgTypes, OperandsAssumption
<1>5. /\ s \in Seq(Item) /\ DOMAIN s = 1 .. 3
      /\ s[1] = Expr /\ s[2] = Emit("movl", Loc(t)) /\ s[3] = Cases(out, Loc(t), 0)
  <2>1. Expr \in Item /\ Emit("movl", Loc(t)) \in Item /\ Cases(out, Loc(t), 0) \in Item
    BY <1>3, <1>4, FlowItems
  <2> QED BY ONLY <2>1
<1> HIDE DEF s
<1>6. /\ s[1].act = "expr" /\ s[2].act = "emit" /\ s[2].op = "movl"
      /\ s[3].act = "cases" /\ s[3].arg = out
  <2>1. Emit("movl", Loc(t)).act = "emit" /\ Emit("movl", Loc(t)).op = "movl"
    BY DEF Emit, Do
  <2> QED BY <1>3, <1>4, <1>5, <2>1, FlowItems
<1>7. Mild(s)
  BY <1>3, <1>5, <1>6 DEF Mild, Placing
<1>8. Woven(s)
  BY <1>3, <1>5, <1>6 DEF Woven, Placing
<1>9. Balances(s)
  BY <1>2 DEF Balances
<1> QED BY <1>2, <1>5, <1>7, <1>8, <1>9, WovenHandler

LEMMA MatchCaseScript ==
  ASSUME IInv, FunctionsApart, MatchCase
  PROVE  Replaced
<1> DEFINE out  == Head(todo).arg
           t    == Head(todo).arg2
           n    == Head(todo).n + 1
           next == L(label_counter)
           s    == <<Tests(t), Emit("jf", next), Expr, Emit("jmp", out),
                     Target(next), Cases(out, t, n)>>
<1>1. todo # <<>> /\ Head(todo).act = "cases" /\ Unfold(s) /\ SameOutput
  BY DEF MatchCase, Visit, At
<1>2. /\ out \in GenLabel /\ next \in GenLabel /\ ~ IsOld(next) /\ t \in Arg /\ n \in Nat
      /\ Head(todo).arg = out
  BY <1>1, TopItem, FreshLabels DEF FunctionsApart
<1> HIDE DEF out, next, t, n
<1>3. Tests(t) \in Item /\ Tests(t).act = "tests"
  BY <1>2, ItemTypes DEF Tests, Do
<1>4. /\ s \in Seq(Item) /\ DOMAIN s = 1 .. 6
      /\ s[1] = Tests(t) /\ s[2] = Emit("jf", next) /\ s[3] = Expr /\ s[4] = Emit("jmp", out)
      /\ s[5] = Target(next) /\ s[6] = Cases(out, t, n)
  <2>1. /\ Tests(t) \in Item /\ Emit("jf", next) \in Item /\ Expr \in Item
        /\ Emit("jmp", out) \in Item /\ Target(next) \in Item /\ Cases(out, t, n) \in Item
    BY <1>2, <1>3, FlowItems
  <2> QED BY ONLY <2>1
<1> HIDE DEF s
<1>5. /\ s[1].act = "tests" /\ s[2].act = "emit" /\ s[2].op = "jf" /\ s[2].arg = next
      /\ s[3].act = "expr" /\ s[4].act = "emit" /\ s[4].op = "jmp" /\ s[4].arg = out
      /\ s[5].act = "target" /\ s[5].arg = next /\ s[6].act = "cases" /\ s[6].arg = out
  BY <1>2, <1>3, <1>4, FlowItems
<1>6. Mild(s)
  BY <1>2, <1>4, <1>5 DEF Mild, Placing
<1>7. LeadsOn(s, 2) /\ LeadsOn(s, 4)
  BY <1>2, <1>4, <1>5 DEF LeadsOn, Placing
<1>8. Woven(s)
  BY <1>1, <1>2, <1>4, <1>5, <1>7 DEF Woven, Placing
<1>9. Balances(s)
  BY <1>1 DEF Balances, Moves
<1> QED BY <1>1, <1>4, <1>6, <1>8, <1>9, WovenHandler

(* break and continue lead to labels of the innermost loop: its exit is    *)
(* still to be placed, its entry is that of a loop that goes on.           *)
LEMMA BreakScript ==
  ASSUME IInv, LoopShape, Break \/ Continue
  PROVE  Replaced
<1> DEFINE n == Len(loop_exit_labels)
<1>1. /\ todo # <<>> /\ Head(todo).act = "stmt" /\ InLoop /\ SameOutput
      /\ Unfold(<<Emit("jmp", loop_exit_labels[n])>>)
           \/ Unfold(<<Emit("jmp", loop_entry_labels[Len(loop_entry_labels)])>>)
  BY DEF Break, Continue, Visit, At, Plain
<1>2. /\ LoopDepths /\ todo \in Seq(Item)
      /\ loop_exit_labels \in Seq(GenLabel) /\ loop_entry_labels \in Seq(GenLabel)
      /\ todo[1].act = "stmt"
  BY <1>1, TopItem DEF IInv, TypeOK
<1>3. n \in Nat /\ n > 0 /\ Len(loop_entry_labels) = n
  BY <1>1, <1>2 DEF LoopDepths, InLoop
<1>4. PICK i \in DOMAIN todo : todo[i].act = "leave" /\ todo[i].n = n
  BY <1>2, <1>3 DEF LoopDepths
<1>5. /\ todo[i].arg = loop_exit_labels[n] /\ todo[i].arg2 = loop_entry_labels[n]
      /\ loop_exit_labels[n] \in GenLabel /\ loop_entry_labels[n] \in GenLabel
  BY <1>2, <1>3, <1>4 DEF LoopDepths
<1>6. /\ i # 1 /\ i - 1 \in DOMAIN todo /\ i - 1 # 1
      /\ Places(i - 1, loop_exit_labels[n])
  <2>1. i # 1 /\ todo[i - 1].act = "target" /\ todo[i - 1].arg = loop_exit_labels[n]
    BY <1>2, <1>4, <1>5 DEF LoopShape, IsLoop, Exit
  <2>2. i - 1 \in DOMAIN todo /\ i - 1 # 1
    BY <1>2, <2>1
  <2> QED BY <2>1, <2>2 DEF Places, Placing
<1>7. ASSUME NEW l \in GenLabel,
             \E r \in DOMAIN todo : r # 1 /\ (Places(r, l) \/ (IsLoop(r) /\ EntryLabel(r) = l)),
             Unfold(<<Emit("jmp", l)>>)
      PROVE  Replaced
  <2> DEFINE s == <<Emit("jmp", l)>>
  <2>1. s \in Seq(Item) /\ DOMAIN s = 1 .. 1 /\ s[1] = Emit("jmp", l)
    <3>1. Emit("jmp", l) \in Item
      BY FlowItems
    <3> QED BY ONLY <3>1
  <2>2. Runs(s, 0, 0)
    BY OtherMoves, RunsOne
  <2>3. Unfold(s)
    BY <1>7
  <2> HIDE DEF s
  <2>4. s[1].act = "emit" /\ s[1].op = "jmp" /\ s[1].arg = l
    BY <2>1, FlowItems
  <2>5. Mild(s)
    BY <2>1, <2>4 DEF Mild, Placing
  <2>6. LeadsOn(s, 1)
    BY <1>7, <2>4 DEF LeadsOn
  <2>7. Woven(s)
    BY <2>1, <2>4, <2>6 DEF Woven, Placing
  <2>8. Balances(s)
    BY <1>1, <2>2 DEF Balances, Moves
  <2> QED BY <1>1, <2>1, <2>3, <2>5, <2>7, <2>8, WovenHandler
<1>8. CASE Unfold(<<Emit("jmp", loop_exit_labels[n])>>)
  BY <1>5, <1>6, <1>7, <1>8
<1>9. CASE Unfold(<<Emit("jmp", loop_entry_labels[Len(loop_entry_labels)])>>)
  <2>1. IsLoop(i) /\ EntryLabel(i) = loop_entry_labels[n]
    BY <1>4, <1>5 DEF IsLoop, EntryLabel
  <2> QED BY <1>3, <1>5, <1>6, <1>7, <1>9, <2>1
<1> QED BY <1>1, <1>8, <1>9

(* The end of a loop does nothing to the code.                             *)
LEMMA LeaveScript ==
  ASSUME IInv, LeaveLoop
  PROVE  Replaced
<1>1. todo # <<>> /\ Head(todo).act = "leave" /\ todo' = Tail(todo) /\ SameOutput
  BY DEF LeaveLoop, At, Finish
<1>2. PICK s \in Seq(Item) : Len(s) = 0 /\ Tail(todo) = s \o Tail(todo)
  BY <1>1, TopItem, EmptyScript
<1>3. Unfold(s) /\ DOMAIN s = {}
  BY <1>1, <1>2 DEF Unfold
<1>4. Mild(s) /\ Woven(s)
  BY <1>3 DEF Mild, Woven
<1>5. Balances(s)
  <2>1. s = <<>>
    BY <1>2
  <2> QED BY <1>1, <2>1, RunsNone DEF Balances, Moves
<1> QED BY <1>1, <1>3, <1>4, <1>5, WovenHandler


(* The items between the labels of a loop: no label, no string, and no     *)
(* jump but to the two labels.                                             *)
FlowBody(out, loop) ==
  {it \in Item :
     /\ it.act \in {"emit", "expr", "stmt", "discard"}
     /\ it.act = "emit" => it.op \notin {"pushs", ".string"}
     /\ it.act = "emit" /\ it.op \in {"jmp", "jf", "jt"} => it.arg \in {out, loop}}

(* The script of a loop, of any kind.                                      *)
LEMMA LoopReplaced ==
  ASSUME IInv, NEW form, NEW out \in GenLabel, NEW loop \in GenLabel, out # loop,
         ~ IsOld(out), ~ IsOld(loop),
         NEW once \in Seq(FlowBody(out, loop)), NEW repeated \in Seq(FlowBody(out, loop)),
         Runs(once, 0, 0), Runs(repeated, 0, 0),
         Loop(form, out, loop, once, repeated)
  PROVE  Replaced
<1> DEFINE depth == Len(loop_entry_labels) + 1
           entry == Target(loop)
           exit  == Target(out)
           leave == Leave(out, loop, depth)
           s     == LoopScript(once, entry, repeated, exit, leave)
           m     == Len(once) + 1
           n     == Len(s)
<1>1. todo # <<>> /\ Head(todo).act = "stmt" /\ Unfold(s) /\ SameOutput
  BY DEF Loop, Visit, At, LoopScript
<1>2. depth \in Nat
  BY DEF IInv, TypeOK
<1> HIDE DEF depth
<1>3. /\ entry \in Item /\ entry.act = "target" /\ entry.arg = loop
      /\ exit \in Item /\ exit.act = "target" /\ exit.arg = out
      /\ leave \in Item /\ leave.act = "leave" /\ leave.arg = out /\ leave.arg2 = loop
  BY <1>2, FlowItems
<1>4. once \in Seq(Item) /\ repeated \in Seq(Item)
  BY DEF FlowBody
<1>5. Moves(entry, 0, 0) /\ Moves(exit, 0, 0) /\ Moves(leave, 0, 0)
  BY LabelMoves
<1> HIDE DEF entry, exit, leave
<1>6. LaidOut(s, once, entry, repeated, exit, leave)
  BY <1>3, <1>4, Concatenated
<1>7. Runs(s, 0, 0)
  <2> DEFINE u == <<entry>>
             c == once \o u
             d == c \o repeated
             e == <<exit, leave>>
  <2>1. u \in Seq(Item) /\ Runs(u, 0, 0)
    BY <1>3, <1>5, RunsOne
  <2> HIDE DEF u
  <2>2. c \in Seq(Item) /\ Runs(c, 0, 0)
    BY <1>4, <2>1, RunsJoined
  <2> HIDE DEF c
  <2>3. d \in Seq(Item) /\ Runs(d, 0, 0)
    <3>1. d \in Seq(Item)
      BY ONLY <1>4, <2>2, Joined
    <3> QED BY <1>4, <2>2, <3>1, RunsJoined
  <2>4. e \in Seq(Item)
    BY <1>3
  <2>5. Runs(e, 0, 0)
    BY <1>3, <1>5, RunsLists
  <2> HIDE DEF d, e
  <2>6. Runs(d \o e, 0, 0)
    BY <2>3, <2>4, <2>5, RunsJoined
  <2>7. s = d \o e
    BY DEF LoopScript, c, d, e, u
  <2> QED BY <2>6, <2>7
<1> HIDE DEF s
<1>8. /\ s \in Seq(Item) /\ DOMAIN s = 1 .. n /\ m \in 1 .. n /\ n \in Nat
      /\ m < n - 1 /\ s[m] = entry /\ s[n - 1] = exit /\ s[n] = leave
  BY <1>4, <1>6 DEF LaidOut
<1>9. \A i \in DOMAIN s : i \notin {m, n - 1, n} => s[i] \in FlowBody(out, loop)
  <2> SUFFICES ASSUME NEW i \in DOMAIN s, i \notin {m, n - 1, n}
               PROVE  s[i] \in FlowBody(out, loop)
    OBVIOUS
  <2>1. (\E j \in DOMAIN once : s[i] = once[j]) \/ (\E j \in DOMAIN repeated : s[i] = repeated[j])
    BY <1>6 DEF LaidOut
  <2> QED BY <2>1
<1> HIDE DEF m, n
<1>10. /\ s[m].act = "target" /\ s[m].arg = loop
       /\ s[n - 1].act = "target" /\ s[n - 1].arg = out
       /\ s[n].act = "leave" /\ s[n].arg = out /\ s[n].arg2 = loop
  BY <1>3, <1>8
<1>11. ASSUME NEW i \in DOMAIN s, i \notin {m, n - 1, n}
       PROVE  /\ s[i].act \in {"emit", "expr", "stmt", "discard"}
              /\ s[i].act = "emit" => s[i].op \notin {"pushs", ".string"}
              /\ s[i].act = "emit" /\ s[i].op \in {"jmp", "jf", "jt"} => s[i].arg \in {out, loop}
  BY <1>9, <1>11 DEF FlowBody
<1>12. Mild(s)
  <2> SUFFICES ASSUME NEW i \in DOMAIN s
               PROVE  /\ s[i].act \notin {"funcs", "strings"}
                      /\ s[i].act \in Placing => s[i].arg \in GenLabel
                      /\ s[i].act = "emit" => s[i].op \notin {"pushs", ".string"}
    BY DEF Mild
  <2> QED BY <1>10, <1>11 DEF Placing
<1>13. ASSUME NEW i \in DOMAIN s, s[i].act = "emit", s[i].op \in {"jmp", "jf", "jt"}
       PROVE  LeadsOn(s, i)
  <2>1. i \notin {m, n - 1, n} /\ s[i].arg \in {out, loop}
    <3>1. i \notin {m, n - 1, n}
      BY <1>10, <1>13
    <3> QED BY <1>11, <1>13, <3>1
  <2>2. n - 1 \in DOMAIN s /\ n \in DOMAIN s /\ n - 1 > i /\ n > i
    BY <1>8, <2>1, SMTT(30)
  <2>3. CASE s[i].arg = out
    BY <1>10, <2>2, <2>3 DEF LeadsOn, Placing
  <2>4. CASE s[i].arg = loop
    BY <1>10, <2>2, <2>4 DEF LeadsOn
  <2> QED BY <2>1, <2>3, <2>4
<1>14. ASSUME NEW i \in DOMAIN s, s[i].act \in Placing
       PROVE  i \in {m, n - 1}
  BY <1>10, <1>11, <1>14 DEF Placing
<1>15. ASSUME NEW i \in DOMAIN s, s[i].act = "leave"
       PROVE  Closes(s, i)
  <2>1. i = n
    BY <1>10, <1>11, <1>15
  <2>2. n > 1 /\ n - 1 \in DOMAIN s
    BY <1>8
  <2>3. ASSUME NEW t \in DOMAIN s, s[t].act \in Placing, s[t].arg = loop
        PROVE  /\ s[t].act = "target"
               /\ \A q \in DOMAIN s : t < q /\ q < n /\ s[q].act \in Placing => s[q].arg = out
    <3>1. t = m
      BY <1>10, <1>14, <2>3
    <3>2. \A q \in DOMAIN s : m < q /\ s[q].act \in Placing => q = n - 1
      BY <1>8, <1>14
    <3> QED BY <1>10, <3>1, <3>2
  <2> QED BY <1>10, <2>1, <2>2, <2>3 DEF Closes
<1>16. Woven(s)
  <2> SUFFICES ASSUME NEW i \in DOMAIN s
               PROVE  /\ s[i].act \in Placing => ~ IsOld(s[i].arg)
                      /\ s[i].act = "emit" /\ s[i].op \in {"jmp", "jf", "jt"} => LeadsOn(s, i)
                      /\ s[i].act = "leave" => Closes(s, i)
    BY DEF Woven
  <2> QED BY <1>10, <1>13, <1>14, <1>15
<1>17. Balances(s)
  BY <1>1, <1>7 DEF Balances, Moves
<1> QED BY <1>1, <1>8, <1>12, <1>16, <1>17, WovenHandler

(* The four kinds of loops.                                                *)
LEMMA LoopScripts ==
  ASSUME IInv, While \/ For \/ ForEach \/ DoWhile
  PROVE  Replaced
<1> DEFINE a == L(label_counter)
           b == L(label_counter + 1)
<1>1. a \in GenLabel /\ b \in GenLabel /\ a # b /\ ~ IsOld(a) /\ ~ IsOld(b)
  <2>1. label_counter \in Nat /\ label_counter + 1 \in Nat /\ label_counter # label_counter + 1
    BY FreshLabels
  <2> QED BY <2>1, FreshLabels
<1> HIDE DEF a, b
<1>2. ASSUME NEW out \in GenLabel, NEW loop \in GenLabel
      PROVE  /\ Expr \in FlowBody(out, loop) /\ Stmt \in FlowBody(out, loop)
             /\ Discarded \in FlowBody(out, loop)
             /\ \A op \in {"jmp", "jf", "jt"} :
                  Emit(op, out) \in FlowBody(out, loop) /\ Emit(op, loop) \in FlowBody(out, loop)
             /\ \A it \in Calm : it.act = "emit" => it \in FlowBody(out, loop)
  <2>1. /\ Expr \in FlowBody(out, loop) /\ Stmt \in FlowBody(out, loop)
        /\ Discarded \in FlowBody(out, loop)
    BY ItemTypes DEF FlowBody, Expr, Stmt, Discarded, Do
  <2>2. ASSUME NEW op \in {"jmp", "jf", "jt"}
        PROVE  Emit(op, out) \in FlowBody(out, loop) /\ Emit(op, loop) \in FlowBody(out, loop)
    BY FlowItems DEF FlowBody
  <2>3. \A it \in Calm : it.act = "emit" => it \in FlowBody(out, loop)
    BY DEF FlowBody, Calm
  <2> QED BY <2>1, <2>2, <2>3
<1>3. \A op, x : Emit(op, x).act = "emit" /\ Emit0(op).act = "emit"
  BY DEF Emit, Emit0, Do
<1>4. /\ Moves(Expr, 0, 1) /\ Moves(Stmt, 0, 0) /\ Moves(Discarded, 0, 0)
      /\ \A x : Moves(Emit("jf", x), 1, 0) /\ Moves(Emit("jt", x), 1, 0) /\ Moves(Emit("jmp", x), 0, 0)
  BY ItemMoves, OtherMoves
<1>i. \A out, loop : FlowBody(out, loop) \subseteq Item
  BY DEF FlowBody
<1>5. CASE While
  <2>1. Loop("while", a, b, <<>>, <<Expr, Emit("jf", a), Stmt, Emit("jmp", b)>>)
    BY <1>5 DEF While, a, b
  <2>2. Emit("jf", a) \in FlowBody(a, b) /\ Emit("jmp", b) \in FlowBody(a, b)
        /\ Expr \in FlowBody(a, b) /\ Stmt \in FlowBody(a, b)
    BY <1>1, <1>2
  <2>3. /\ << >> \in Seq(FlowBody(a, b))
        /\ <<Expr, Emit("jf", a), Stmt, Emit("jmp", b)>> \in Seq(FlowBody(a, b))
    BY ONLY <2>2
  <2>4. Runs(<<>>, 0, 0) /\ Runs(<<Expr, Emit("jf", a), Stmt, Emit("jmp", b)>>, 0, 0)
    BY <1>4, <1>i, <2>2, RunsNone, RunsLists
  <2> QED BY <1>1, <2>1, <2>3, <2>4, LoopReplaced
<1>6. CASE For
  <2> DEFINE s == <<Expr>>
             t == <<Emit("jf", a), Stmt, Discarded, Emit("jmp", b)>>
  <2>1. Loop("for", a, b, <<Stmt>>, <<Expr, Emit("jf", a), Stmt, Discarded, Emit("jmp", b)>>)
    BY <1>6 DEF For, a, b
  <2>2. Emit("jf", a) \in FlowBody(a, b) /\ Emit("jmp", b) \in FlowBody(a, b)
        /\ Expr \in FlowBody(a, b) /\ Stmt \in FlowBody(a, b) /\ Discarded \in FlowBody(a, b)
    BY <1>1, <1>2
  <2>3. /\ <<Stmt>> \in Seq(FlowBody(a, b)) /\ s \in Seq(FlowBody(a, b)) /\ t \in Seq(FlowBody(a, b))
        /\ <<Expr, Emit("jf", a), Stmt, Discarded, Emit("jmp", b)>> \in Seq(FlowBody(a, b))
        /\ <<Expr, Emit("jf", a), Stmt, Discarded, Emit("jmp", b)>> = s \o t
    BY ONLY <2>2
  <2>4. Runs(<<Stmt>>, 0, 0) /\ Runs(s, 0, 1) /\ Runs(t, 1, 0)
    BY <1>4, <1>i, <2>2, RunsOne, RunsLists
  <2> HIDE DEF s, t
  <2>5. Runs(s \o t, 0, 0)
    BY <2>3, <2>4, RunsJoined
  <2>6. Runs(<<Expr, Emit("jf", a), Stmt, Discarded, Emit("jmp", b)>>, 0, 0)
    BY <2>3, <2>5
  <2> QED BY <1>1, <2>1, <2>3, <2>4, <2>6, LoopReplaced
<1>7. CASE DoWhile
  <2>1. Loop("do", b, a, <<>>, <<Stmt, Expr, Emit("jt", a)>>)
    BY <1>7 DEF DoWhile, a, b
  <2>2. Emit("jt", a) \in FlowBody(b, a) /\ Expr \in FlowBody(b, a) /\ Stmt \in FlowBody(b, a)
    BY <1>1, <1>2
  <2>3. << >> \in Seq(FlowBody(b, a)) /\ <<Stmt, Expr, Emit("jt", a)>> \in Seq(FlowBody(b, a))
    BY ONLY <2>2
  <2>4. Runs(<<>>, 0, 0) /\ Runs(<<Stmt, Expr, Emit("jt", a)>>, 0, 0)
    BY <1>4, <1>i, <2>2, RunsNone, RunsLists
  <2> QED BY <1>1, <2>1, <2>3, <2>4, LoopReplaced
<1>8. CASE ForEach
  <2>1. PICK array \in Locals, x \in Locals, counter \in Locals,
             size \in {"memsize", "strlen"} :
        Loop("foreach", a, b,
             <<Emit("pushi", Imm(0)), Emit("movl", Loc(counter))>>,
             <<Emit("pushl", Loc(counter)), Emit("pushl", Loc(array)),
               Emit0(size), Emit0("lt"), Emit("jf", a),
               Emit("pushl", Loc(array)), Emit("pushl", Loc(counter)),
               Emit0("add"), Emit0("load"), Emit("movl", Loc(x)),
               Stmt,
               Emit("incl", Loc(counter)), Emit("jmp", b)>>)
    BY <1>8, Zenon DEF ForEach, a, b
  <2> DEFINE zero  == Emit("pushi", Imm(0))
             start == Emit("movl", Loc(counter))
             count == Emit("pushl", Loc(counter))
             base  == Emit("pushl", Loc(array))
             fetch == Emit("movl", Loc(x))
             next  == Emit("incl", Loc(counter))
             out   == Emit("jf", a)
             back  == Emit("jmp", b)
             s1 == <<count, base, Emit0(size), Emit0("lt")>>
             s2 == <<out, base, count, Emit0("add")>>
             s3 == <<Emit0("load"), fetch, Stmt, next>>
             s4 == <<back>>
             s  == <<count, base, Emit0(size), Emit0("lt"), out, base, count, Emit0("add"),
                     Emit0("load"), fetch, Stmt, next, back>>
  <2>2. /\ zero \in FlowBody(a, b) /\ start \in FlowBody(a, b) /\ count \in FlowBody(a, b)
        /\ base \in FlowBody(a, b) /\ fetch \in FlowBody(a, b) /\ next \in FlowBody(a, b)
        /\ out \in FlowBody(a, b) /\ back \in FlowBody(a, b) /\ Stmt \in FlowBody(a, b)
        /\ Emit0(size) \in FlowBody(a, b) /\ Emit0("lt") \in FlowBody(a, b)
        /\ Emit0("add") \in FlowBody(a, b) /\ Emit0("load") \in FlowBody(a, b)
    <3>1. /\ zero \in Calm /\ start \in Calm /\ count \in Calm /\ base \in Calm /\ fetch \in Calm
          /\ next \in Calm /\ Emit0(size) \in Calm /\ Emit0("lt") \in Calm
          /\ Emit0("add") \in Calm /\ Emit0("load") \in Calm
      BY CalmEmits, OperandsAssumption
    <3>2. out \in FlowBody(a, b) /\ back \in FlowBody(a, b) /\ Stmt \in FlowBody(a, b)
      BY <1>1, <1>2
    <3> QED BY <1>1, <1>2, <1>3, <3>1, <3>2
  <2>3. /\ Moves(zero, 0, 1) /\ Moves(count, 0, 1) /\ Moves(base, 0, 1)
        /\ Moves(base, 1, 2) /\ Moves(count, 1, 2)
    <3>1. /\ \A op \in PushOps : \A y : Moves(Emit(op, y), 0, 1) /\ Moves(Emit(op, y), 1, 2)
      BY PushMoves
    <3> QED BY <3>1 DEF PushOps
  <2>4. Moves(start, 1, 0) /\ Moves(fetch, 1, 0) /\ Moves(next, 0, 0)
    BY PopMoves, IdleMoves DEF PopOps, IdleOps
  <2>5. Moves(Emit0(size), 2, 2) /\ Moves(Emit0("load"), 1, 1)
    BY UnaryMoves DEF UnaryOps, Emit0
  <2>6. Moves(Emit0("lt"), 2, 1) /\ Moves(Emit0("add"), 2, 1)
    BY BinaryMoves DEF BinaryOps, Emit0
  <2>7. Moves(out, 1, 0) /\ Moves(back, 0, 0) /\ Moves(Stmt, 0, 0)
    BY <1>4
  <2>8. Loop("foreach", a, b, <<zero, start>>, s)
    BY <2>1
  <2> HIDE DEF zero, start, count, base, fetch, next, out, back
  <2>9. /\ <<zero, start>> \in Seq(FlowBody(a, b)) /\ s \in Seq(FlowBody(a, b))
        /\ s1 \in Seq(FlowBody(a, b)) /\ s2 \in Seq(FlowBody(a, b))
        /\ s3 \in Seq(FlowBody(a, b)) /\ s4 \in Seq(FlowBody(a, b))
    BY ONLY <2>2
  <2>10. s = ((s1 \o s2) \o s3) \o s4
    BY ONLY <2>2
  <2>11. Runs(<<zero, start>>, 0, 0) /\ Runs(s1, 0, 1) /\ Runs(s2, 1, 1) /\ Runs(s3, 1, 0)
         /\ Runs(s4, 0, 0)
    <3>1. Runs(<<zero, start>>, 0, 0) /\ Runs(s4, 0, 0)
      BY <1>i, <2>2, <2>3, <2>4, <2>7, RunsOne, RunsLists
    <3>2. Runs(s1, 0, 1)
      BY <1>i, <2>2, <2>3, <2>5, <2>6, RunsLists
    <3>3. Runs(s2, 1, 1)
      BY <1>i, <2>2, <2>3, <2>6, <2>7, RunsLists
    <3>4. Runs(s3, 1, 0)
      BY <1>i, <2>2, <2>4, <2>5, <2>7, RunsLists
    <3> QED BY <3>1, <3>2, <3>3, <3>4
  <2> HIDE DEF s1, s2, s3, s4
  <2>12. s1 \o s2 \in Seq(FlowBody(a, b)) /\ Runs(s1 \o s2, 0, 1)
    BY <2>9, <2>11, RunsJoined
  <2>13. (s1 \o s2) \o s3 \in Seq(FlowBody(a, b)) /\ Runs((s1 \o s2) \o s3, 0, 0)
    <3>1. (s1 \o s2) \o s3 \in Seq(FlowBody(a, b))
      BY ONLY <2>9, <2>12, Joined
    <3> QED BY <2>9, <2>11, <2>12, <3>1, RunsJoined
  <2>14. Runs(((s1 \o s2) \o s3) \o s4, 0, 0)
    BY <2>9, <2>11, <2>13, RunsJoined
  <2> HIDE DEF s
  <2>15. Runs(s, 0, 0)
    BY <2>10, <2>14
  <2> QED BY <1>1, <2>8, <2>9, <2>11, <2>15, LoopReplaced
<1> QED BY <1>5, <1>6, <1>7, <1>8


(* The scripts of the program's frame: a function, a string literal and    *)
(* the directives of the string table.                                     *)
FunctionScript(f, k) ==
  <<Target(F(f)), Params(Arity[f]), Stmts, Emit0("ret"), Funcs(k)>>

LEMMA FunctionUnfolds ==
  ASSUME IInv, Function
  PROVE  /\ todo # <<>> /\ Head(todo).act = "funcs"
         /\ UNCHANGED <<code, pending, functions, strings>>
         /\ \/ todo' = <<>> \o Tail(todo)
            \/ \E f \in Names, k \in Nat :
                 FunctionScript(f, k) \in Seq(Item) /\ todo' = FunctionScript(f, k) \o Tail(todo)
<1> DEFINE k == Head(todo).n
           f == functions[k]
<1>1. /\ todo # <<>> /\ Head(todo).act = "funcs"
      /\ IF k > Len(functions) THEN Plain(<<>>) ELSE Plain(FunctionScript(f, k + 1))
  BY DEF Function, At, FunctionScript
<1>2. UNCHANGED <<code, pending, functions, strings>>
  BY <1>1 DEF Plain, SameOutput
<1>3. CASE k > Len(functions)
  BY <1>1, <1>2, <1>3 DEF Plain, Unfold
<1>4. CASE ~ (k > Len(functions))
  <2>1. k \in Nat /\ k > 0 /\ functions \in Seq(Names)
    BY <1>1, TopItem, FunctionsAssumption DEF IInv, TypeOK, WellFormed
  <2>2. f \in Names /\ k + 1 \in Nat
    BY <1>4, <2>1
  <2>3. /\ Target(F(f)) \in Item /\ Params(Arity[f]) \in Item /\ Stmts \in Item
        /\ Emit0("ret") \in Item /\ Funcs(k + 1) \in Item
    BY <2>2, ItemTypes, ArgTypes, FunctionsAssumption DEF Opcode
  <2> HIDE DEF k, f
  <2>4. FunctionScript(f, k + 1) \in Seq(Item)
    BY ONLY <2>3 DEF FunctionScript
  <2>5. todo' = FunctionScript(f, k + 1) \o Tail(todo)
    BY <1>1, <1>4 DEF Plain, Unfold
  <2> QED BY <1>1, <1>2, <2>2, <2>4, <2>5
<1> QED BY <1>3, <1>4

LEMMA LiteralUnfolds ==
  ASSUME IInv, StringLiteral
  PROVE  /\ todo # <<>> /\ Head(todo).act = "expr"
         /\ UNCHANGED <<code, pending, functions>>
         /\ strings \in Seq(Literals) /\ strings' \in Seq(Literals)
         /\ \A i \in DOMAIN strings : i \in DOMAIN strings'
         /\ \E i \in DOMAIN strings' :
              /\ Emit("pushs", Str(i - 1)) \in Item
              /\ todo' = <<Emit("pushs", Str(i - 1))>> \o Tail(todo)
<1>1. /\ todo # <<>> /\ Head(todo).act = "expr"
      /\ UNCHANGED <<code, pending, functions>>
  BY DEF StringLiteral, Visit, At
<1>2. strings \in Seq(Literals)
  BY DEF IInv, TypeOK
<1>3. PICK x \in Literals :
        \/ \E i \in DOMAIN strings :
             Unfold(<<Emit("pushs", Str(i - 1))>>) /\ UNCHANGED strings
        \/ /\ Unfold(<<Emit("pushs", Str(Len(strings)))>>)
           /\ strings' = Append(strings, x)
  BY DEF StringLiteral
<1>4. \A k \in Int : Emit("pushs", Str(k)) \in Item
  BY ItemTypes, ArgTypes DEF Opcode
<1> DEFINE Named == \E i \in DOMAIN strings' :
             /\ Emit("pushs", Str(i - 1)) \in Item
             /\ todo' = <<Emit("pushs", Str(i - 1))>> \o Tail(todo)
<1>5. ASSUME NEW i \in DOMAIN strings,
             Unfold(<<Emit("pushs", Str(i - 1))>>), UNCHANGED strings
      PROVE  /\ strings' \in Seq(Literals)
             /\ \A k \in DOMAIN strings : k \in DOMAIN strings'
             /\ Named
  BY <1>2, <1>4, <1>5, SMTT(30) DEF Unfold
<1>6. ASSUME Unfold(<<Emit("pushs", Str(Len(strings)))>>), strings' = Append(strings, x)
      PROVE  /\ strings' \in Seq(Literals)
             /\ \A k \in DOMAIN strings : k \in DOMAIN strings'
             /\ Named
  <2>1. PICK n : n = Len(strings) + 1
    OBVIOUS
  <2>2. n - 1 = Len(strings) /\ Len(strings) \in Int
    BY <1>2, <2>1
  <2>3. /\ strings' \in Seq(Literals) /\ n \in DOMAIN strings'
        /\ \A k \in DOMAIN strings : k \in DOMAIN strings'
    BY <1>2, <1>6, <2>1
  <2>4. /\ Emit("pushs", Str(n - 1)) \in Item
        /\ todo' = <<Emit("pushs", Str(n - 1))>> \o Tail(todo)
    BY <1>4, <1>6, <2>2 DEF Unfold
  <2> QED BY <2>3, <2>4
<1> HIDE DEF Named
<1>7. /\ strings' \in Seq(Literals)
      /\ \A k \in DOMAIN strings : k \in DOMAIN strings'
      /\ Named
  BY <1>3, <1>5, <1>6
<1> QED BY <1>1, <1>2, <1>7 DEF Named

LEMMA DirectivesUnfold ==
  ASSUME IInv, StringDirectives
  PROVE  /\ todo # <<>> /\ Head(todo).act = "strings"
         /\ UNCHANGED <<code, pending, functions, strings>>
         /\ \/ todo' = <<>> \o Tail(todo) /\ StringArgs \subseteq Directed
            \/ \E i \in DOMAIN strings :
                 /\ Str(i - 1) \notin Directed
                 /\ Emit(".string", Str(i - 1)) \in Item /\ Strings \in Item
                 /\ todo' = <<Emit(".string", Str(i - 1)), Strings>> \o Tail(todo)
<1> DEFINE left == {i \in DOMAIN strings : \A d \in Directives : code[d].arg # Str(i - 1)}
<1>1. /\ todo # <<>> /\ Head(todo).act = "strings"
      /\ IF left = {} THEN Plain(<<>>)
                      ELSE \E i \in left : Plain(<<Emit(".string", Str(i - 1)), Strings>>)
  BY DEF StringDirectives, At
<1>2. UNCHANGED <<code, pending, functions, strings>>
  BY <1>1 DEF Plain, SameOutput
<1>3. CASE left = {}
  <2>1. todo' = <<>> \o Tail(todo)
    BY <1>1, <1>3 DEF Plain, Unfold
  <2>2. StringArgs \subseteq Directed
    BY <1>3 DEF StringArgs, Directed
  <2> QED BY <1>1, <1>2, <2>1, <2>2
<1>4. CASE left # {}
  <2>1. PICK i \in left : Plain(<<Emit(".string", Str(i - 1)), Strings>>)
    BY <1>1, <1>4
  <2>2. i \in DOMAIN strings /\ Str(i - 1) \notin Directed
    BY DEF Directed
  <2>3. i - 1 \in Int
    BY <2>2 DEF IInv, TypeOK
  <2>4. Emit(".string", Str(i - 1)) \in Item /\ Strings \in Item
    BY <2>3, ItemTypes, ArgTypes DEF Opcode
  <2>5. todo' = <<Emit(".string", Str(i - 1)), Strings>> \o Tail(todo)
    BY <2>1 DEF Plain, Unfold
  <2> QED BY <1>1, <1>2, <2>2, <2>4, <2>5
<1> QED BY <1>3, <1>4

(* A step generates, records a label, is one of the three of the frame, or *)
(* is an ordinary one.                                                     *)
LEMMA Steps ==
  ASSUME IInv, FunctionsApart, LoopShape, [Next]_vars
  PROVE  \/ Generate \/ JumpTarget \/ Function \/ StringLiteral \/ StringDirectives
         \/ Replaced \/ UNCHANGED vars
<1>1. ASSUME Expression, ~ StringLiteral
      PROVE  Replaced
  BY <1>1, ExpressionScripts, ArgumentsScript, MatchScript, MatchCaseScript, EndScript,
     MatchTestsScript DEF Expression
<1>2. ASSUME Statement
      PROVE  Replaced
  BY <1>2, PlainStatementScripts, DiscardedScripts, IfScript, EndScript, ElseScript,
     LoopScripts, LeaveScript, BreakScript DEF Statement
<1>3. ASSUME Program, ~ Function, ~ StringDirectives
      PROVE  Replaced
  BY <1>3, GlobalScripts, ParametersScript DEF Program
<1> QED BY <1>1, <1>2, <1>3 DEF Next, Terminating

----------------------------------------------------------------------------
(***************************************************************************)
(* Functions do not run into each other.                                   *)
(***************************************************************************)

(* A script without a function and without a function's label.             *)
Tame(s) ==
  \A i \in DOMAIN s : /\ s[i].act # "funcs"
                      /\ s[i].act \in Placing => s[i].arg \in GenLabel

LEMMA NotAFunction ==
  /\ \A f : F(f) \notin GenLabel
  /\ \A f, g : F(f) = F(g) => f = g
  /\ \A f : F(f) # GlobalInit
BY DEF F, GenLabel, GlobalInit

(* A tame script opens no function.                                        *)
LEMMA TameOpens ==
  ASSUME NEW s, Tame(s), NEW i \in DOMAIN s
  PROVE  ~ Opens(s[i])
BY NotAFunction DEF Tame, Opens, Placing

(* Where the items are behind a script.                                    *)
LEMMA Behind ==
  ASSUME todo \in Seq(Item), todo # <<>>, NEW s \in Seq(Item), todo' = s \o Tail(todo)
  PROVE  /\ \A i \in DOMAIN s : i \in DOMAIN todo' /\ todo'[i] = s[i]
         /\ \A i \in DOMAIN todo : i # 1 =>
              Len(s) + i - 1 \in DOMAIN todo' /\ todo'[Len(s) + i - 1] = todo[i]
         /\ \A k \in DOMAIN todo' :
              k \in DOMAIN s \/ \E i \in DOMAIN todo : i # 1 /\ k = Len(s) + i - 1
<1> DEFINE u == s \o Tail(todo)
<1>1. /\ \A i \in DOMAIN s : i \in DOMAIN u /\ u[i] = s[i]
      /\ \A i \in DOMAIN todo : i # 1 =>
           Len(s) + i - 1 \in DOMAIN u /\ u[Len(s) + i - 1] = todo[i]
      /\ \A k \in DOMAIN u :
           k \in DOMAIN s \/ \E i \in DOMAIN todo : i # 1 /\ k = Len(s) + i - 1
  BY SMTT(30), UnfoldedSeq
<1>2. todo' = u
  OBVIOUS
<1> HIDE DEF u
<1> QED BY ONLY <1>1, <1>2

LEMMA ApartUnfolds ==
  ASSUME IInv, FunctionsApart, NEW s \in Seq(Item), Unfolds(s), Tame(s)
  PROVE  FunctionsApart'
<1> DEFINE at(i) == Len(s) + i - 1
<1>1. todo \in Seq(Item) /\ todo # <<>> /\ 1 \in DOMAIN todo /\ Head(todo) = todo[1]
  BY TopItem DEF Unfolds
<1>2. /\ \A i \in DOMAIN s : i \in DOMAIN todo' /\ todo'[i] = s[i]
      /\ \A i \in DOMAIN todo : i # 1 => at(i) \in DOMAIN todo' /\ todo'[at(i)] = todo[i]
      /\ \A k \in DOMAIN todo' : k \in DOMAIN s \/ \E i \in DOMAIN todo : i # 1 /\ k = at(i)
  <2>1. todo' = s \o Tail(todo)
    BY DEF Unfolds
  <2> QED BY ONLY <1>1, <2>1, s \in Seq(Item), Behind DEF at
<1>3. Len(s) \in Nat /\ DOMAIN todo \subseteq Nat \ {0}
  BY <1>1
<1>4. ASSUME NEW k \in DOMAIN todo', Opens(todo'[k])
      PROVE  k # 1 /\ Ends(todo'[k - 1])
  <2>1. k \notin DOMAIN s
    BY <1>2, <1>4, TameOpens
  <2>2. PICK i \in DOMAIN todo : i # 1 /\ k = at(i)
    BY <1>2, <2>1
  <2>3. Opens(todo[i])
    BY <1>2, <1>4, <2>2
  <2>4. Ends(todo[i - 1])
    BY <2>2, <2>3 DEF FunctionsApart
  <2>5. i - 1 # 1
    BY <1>1, <2>4 DEF Unfolds, Ends
  <2>6. i - 1 \in DOMAIN todo /\ at(i - 1) = k - 1 /\ k # 1
    BY <1>1, <1>3, <2>2, <2>5
  <2> QED BY <1>2, <2>4, <2>5, <2>6
<1>5. \A f \in Names : F(f) \in pending' => JustEnded'
  BY DEF FunctionsApart, JustEnded, Unfolds
<1>6. ASSUME NEW k \in DOMAIN todo', todo'[k].act \in {"else", "cases"}
      PROVE  todo'[k].arg \in GenLabel
  <2>1. CASE k \in DOMAIN s
    BY <1>2, <1>6, <2>1 DEF Tame, Placing
  <2>2. CASE k \notin DOMAIN s
    <3>1. PICK i \in DOMAIN todo : i # 1 /\ k = at(i)
      BY <1>2, <2>2
    <3>2. todo'[k] = todo[i]
      BY <1>2, <3>1
    <3> QED BY <1>6, <3>2 DEF FunctionsApart
  <2> QED BY <2>1, <2>2
<1> QED BY <1>4, <1>5, <1>6 DEF FunctionsApart


(* Every handler but that of the functions is replaced by a script that is *)
(* tame, woven and balanced.                                               *)
Regular(s) == Unfolds(s) /\ Tame(s) /\ Woven(s) /\ Balances(s)

LEMMA RegularSteps ==
  ASSUME IInv, StringLiteral \/ StringDirectives \/ Replaced
  PROVE  \E s \in Seq(Item) : Regular(s)
<1>1. CASE StringLiteral
  <2>1. /\ todo # <<>> /\ Head(todo).act = "expr"
        /\ UNCHANGED <<code, pending, functions>>
    BY <1>1, LiteralUnfolds
  <2>2. PICK i \in DOMAIN strings' :
          /\ Emit("pushs", Str(i - 1)) \in Item
          /\ todo' = <<Emit("pushs", Str(i - 1))>> \o Tail(todo)
    BY <1>1, LiteralUnfolds
  <2> DEFINE push == Emit("pushs", Str(i - 1))
             s    == <<push>>
  <2>3. push.act = "emit" /\ push.op = "pushs"
    BY DEF Emit, Do
  <2>4. \A a, b \in Nat : b = a + 1 => Runs(s, a, b)
    BY PushMoves, RunsOne DEF PushOps
  <2>5. push \in Item /\ todo' = <<push>> \o Tail(todo)
    BY <2>2
  <2> HIDE DEF push
  <2>6. s \in Seq(Item) /\ DOMAIN s = 1 .. 1 /\ s[1] = push /\ todo' = s \o Tail(todo)
    BY ONLY <2>5
  <2> HIDE DEF s
  <2>7. Tame(s) /\ Woven(s)
    BY <2>3, <2>6 DEF Tame, Woven, Placing
  <2>8. Balances(s)
    BY <2>1, <2>4 DEF Balances, Moves
  <2> QED BY <2>1, <2>6, <2>7, <2>8 DEF Regular, Unfolds
<1>2. CASE StringDirectives
  <2>1. /\ todo # <<>> /\ Head(todo).act = "strings"
        /\ UNCHANGED <<code, pending, functions>>
    BY <1>2, DirectivesUnfold
  <2>2. \A s : Runs(s, 0, 0) => Balances(s)
    BY <2>1 DEF Balances, Moves
  <2>3. CASE todo' = <<>> \o Tail(todo)
    <3> DEFINE s == <<>>
    <3>1. s \in Seq(Item) /\ DOMAIN s = {} /\ Runs(s, 0, 0) /\ todo' = s \o Tail(todo)
      BY <2>3, RunsNone
    <3> HIDE DEF s
    <3>2. Tame(s) /\ Woven(s) /\ Balances(s)
      BY <2>2, <3>1 DEF Tame, Woven
    <3> QED BY <2>1, <3>1, <3>2 DEF Regular, Unfolds
  <2>4. ASSUME NEW i \in DOMAIN strings,
               Emit(".string", Str(i - 1)) \in Item, Strings \in Item,
               todo' = <<Emit(".string", Str(i - 1)), Strings>> \o Tail(todo)
        PROVE  \E s \in Seq(Item) : Regular(s)
    <3> DEFINE dir == Emit(".string", Str(i - 1))
               s   == <<dir, Strings>>
    <3>1. dir.act = "emit" /\ dir.op = ".string" /\ Strings.act = "strings"
      BY DEF Emit, Strings, Do
    <3>2. Runs(s, 0, 0)
      BY <2>4, IdleMoves, ItemMoves, RunsLists DEF IdleOps
    <3>3. dir \in Item /\ Strings \in Item /\ todo' = s \o Tail(todo)
      BY <2>4
    <3> HIDE DEF dir
    <3>4. s \in Seq(Item) /\ DOMAIN s = 1 .. 2 /\ s[1] = dir /\ s[2] = Strings
      BY ONLY <3>3
    <3> HIDE DEF s
    <3>5. Tame(s) /\ Woven(s)
      BY <3>1, <3>4 DEF Tame, Woven, Placing
    <3> QED BY <2>1, <2>2, <3>2, <3>3, <3>4, <3>5 DEF Regular, Unfolds
  <2> QED BY <1>2, <2>3, <2>4, DirectivesUnfold
<1>3. CASE Replaced
  <2>1. PICK s \in Seq(Item) : Ordinary(s)
    BY <1>3 DEF Replaced
  <2> QED BY <2>1 DEF Ordinary, Mild, Tame, Regular
<1> QED BY <1>1, <1>2, <1>3

(* An instruction behind a pending function label comes behind a return or *)
(* a jump.                                                                 *)
LEMMA ApartGenerate ==
  ASSUME IInv, FunctionsApart, NoFallThrough, Generate
  PROVE  FunctionsApart' /\ NoFallThrough'
<1> DEFINE n   == Len(code)
           new == [labels |-> pending, op |-> todo[1].op, arg |-> todo[1].arg]
<1>1. /\ todo \in Seq(Item) /\ todo # <<>> /\ Head(todo) = todo[1] /\ Head(todo).act = "emit"
      /\ code' = Append(code, new) /\ pending' = {} /\ todo' = Tail(todo)
  BY TopItem DEF Generate, At, Finish
<1>2. code \in Seq(Instr)
  BY DEF IInv, TypeOK
<1>3. \A k \in DOMAIN todo' : k + 1 \in DOMAIN todo /\ k + 1 # 1 /\ todo'[k] = todo[k + 1] /\ k \in Nat
  BY <1>1
<1>4. /\ Len(code') = n + 1 /\ n \in Nat /\ code'[n + 1] = new /\ DOMAIN code' = 1 .. n + 1
      /\ \A i \in DOMAIN code : code'[i] = code[i] /\ i \in Nat
  BY <1>1, <1>2
<1>n. new.labels = pending /\ new.op = todo[1].op
  OBVIOUS
<1> HIDE DEF new
<1>5. ASSUME NEW k \in DOMAIN todo', Opens(todo'[k])
      PROVE  IF k = 1 THEN JustEnded' /\ pending' = {} ELSE Ends(todo'[k - 1])
  <2>1. Ends(todo[k + 1 - 1])
    BY <1>3, <1>5 DEF FunctionsApart
  <2>2. k + 1 - 1 = k
    BY <1>3
  <2>3. CASE k = 1
    <3>1. new.op \in {"ret", "jmp"}
      BY <1>n, <2>1, <2>2, <2>3 DEF Ends
    <3> QED BY <1>1, <1>4, <2>3, <3>1 DEF JustEnded
  <2>4. CASE k # 1
    <3>1. k - 1 \in DOMAIN todo' /\ todo'[k - 1] = todo[k]
      BY <1>1, <1>3, <2>4
    <3> QED BY <2>1, <2>2, <2>4, <3>1
  <2> QED BY <2>3, <2>4
<1>6. \A k \in DOMAIN todo' : todo'[k].act \in {"else", "cases"} => todo'[k].arg \in GenLabel
  BY <1>3 DEF FunctionsApart
<1>7. FunctionsApart'
  BY <1>1, <1>5, <1>6 DEF FunctionsApart
<1>8. ASSUME NEW i \in DOMAIN code', \E f \in Names : F(f) \in code'[i].labels
      PROVE  i > 1 /\ code'[i - 1].op \in {"ret", "jmp"}
  <2>1. CASE i \in DOMAIN code
    <3>1. i > 1 /\ code[i - 1].op \in {"ret", "jmp"}
      BY <1>4, <1>8, <2>1 DEF NoFallThrough
    <3>2. i - 1 \in DOMAIN code
      BY <1>2, <2>1, <3>1
    <3> QED BY <1>4, <3>1, <3>2
  <2>2. CASE i \notin DOMAIN code
    <3>1. i = n + 1
      BY <1>2, <1>4, <2>2
    <3>2. JustEnded
      BY <1>n, <1>4, <1>8, <3>1 DEF FunctionsApart
    <3>3. n > 0 /\ code[n].op \in {"ret", "jmp"} /\ n \in DOMAIN code
      BY <1>2, <3>2 DEF JustEnded
    <3> QED BY <1>4, <3>1, <3>3
  <2> QED BY <2>1, <2>2
<1> QED BY <1>7, <1>8 DEF NoFallThrough

LEMMA ApartJumpTarget ==
  ASSUME IInv, FunctionsApart, JumpTarget
  PROVE  FunctionsApart'
<1>1. /\ todo \in Seq(Item) /\ todo # <<>> /\ Head(todo) = todo[1] /\ todo[1].act = "target"
      /\ code' = code /\ pending' = pending \cup {todo[1].arg} /\ todo' = Tail(todo)
      /\ 1 \in DOMAIN todo
  BY TopItem DEF JumpTarget, At, Finish
<1>2. \A k \in DOMAIN todo' : k + 1 \in DOMAIN todo /\ k + 1 # 1 /\ todo'[k] = todo[k + 1] /\ k \in Nat
  BY <1>1
<1>3. ASSUME NEW k \in DOMAIN todo', Opens(todo'[k])
      PROVE  k # 1 /\ Ends(todo'[k - 1])
  <2>1. Ends(todo[k + 1 - 1])
    BY <1>2, <1>3 DEF FunctionsApart
  <2>2. k + 1 - 1 = k
    BY <1>2
  <2>3. k # 1
    BY <1>1, <2>1, <2>2 DEF Ends
  <2>4. k - 1 \in DOMAIN todo' /\ todo'[k - 1] = todo[k]
    BY <1>1, <1>2, <2>3
  <2> QED BY <2>1, <2>2, <2>3, <2>4
<1>4. ASSUME NEW f \in Names, F(f) \in pending'
      PROVE  JustEnded'
  <2>1. CASE F(f) \in pending
    BY <1>1, <2>1 DEF FunctionsApart, JustEnded
  <2>2. CASE F(f) = todo[1].arg
    <3>1. Opens(todo[1])
      BY <1>1, <2>2 DEF Opens
    <3> QED BY <1>1, <3>1 DEF FunctionsApart, JustEnded
  <2> QED BY <1>1, <1>4, <2>1, <2>2
<1>5. \A k \in DOMAIN todo' : todo'[k].act \in {"else", "cases"} => todo'[k].arg \in GenLabel
  BY <1>2 DEF FunctionsApart
<1> QED BY <1>3, <1>4, <1>5 DEF FunctionsApart

(* A function is placed behind an instruction that ends the one before,    *)
(* and ends itself with a return.                                          *)
LEMMA FunctionItems ==
  ASSUME NEW f, NEW k
  PROVE  LET s == FunctionScript(f, k)
         IN  /\ Len(s) = 5 /\ DOMAIN s = 1 .. 5
             /\ s[1].act = "target" /\ s[1].arg = F(f) /\ s[2].act = "params"
             /\ s[3].act = "stmts" /\ s[4].act = "emit" /\ s[4].op = "ret"
             /\ s[5].act = "funcs"
BY DEF FunctionScript, Target, Params, Stmts, Emit0, Emit, Funcs, Do

LEMMA ApartFunction ==
  ASSUME IInv, FunctionsApart, Function
  PROVE  FunctionsApart'
<1>1. /\ todo # <<>> /\ Head(todo).act = "funcs"
      /\ UNCHANGED <<code, pending, functions>>
      /\ \/ todo' = <<>> \o Tail(todo)
         \/ \E f \in Names, k \in Nat :
              FunctionScript(f, k) \in Seq(Item) /\ todo' = FunctionScript(f, k) \o Tail(todo)
  BY FunctionUnfolds
<1>2. todo \in Seq(Item) /\ 1 \in DOMAIN todo /\ Head(todo) = todo[1]
  BY <1>1, TopItem
<1>3. CASE todo' = <<>> \o Tail(todo)
  <2> DEFINE s == <<>>
  <2>1. s \in Seq(Item) /\ DOMAIN s = {} /\ todo' = s \o Tail(todo)
    BY <1>3
  <2> HIDE DEF s
  <2>2. Unfolds(s) /\ Tame(s)
    BY <1>1, <2>1 DEF Unfolds, Tame
  <2> QED BY <2>1, <2>2, ApartUnfolds
<1>4. ASSUME NEW f \in Names, NEW n \in Nat, FunctionScript(f, n) \in Seq(Item),
             todo' = FunctionScript(f, n) \o Tail(todo)
      PROVE  FunctionsApart'
  <2> DEFINE s == FunctionScript(f, n)
             at(i) == Len(s) + i - 1
  <2>1. /\ s \in Seq(Item) /\ Len(s) = 5 /\ DOMAIN s = 1 .. 5
        /\ s[1].act = "target" /\ s[1].arg = F(f) /\ s[2].act = "params"
        /\ s[3].act = "stmts" /\ s[4].act = "emit" /\ s[4].op = "ret"
        /\ s[5].act = "funcs" /\ todo' = s \o Tail(todo)
    BY <1>4, FunctionItems
  <2> HIDE DEF s
  <2>2. /\ \A i \in DOMAIN s : i \in DOMAIN todo' /\ todo'[i] = s[i]
        /\ \A i \in DOMAIN todo : i # 1 => at(i) \in DOMAIN todo' /\ todo'[at(i)] = todo[i]
        /\ \A k \in DOMAIN todo' : k \in DOMAIN s \/ \E i \in DOMAIN todo : i # 1 /\ k = at(i)
    <3>1. todo \in Seq(Item) /\ todo # <<>> /\ s \in Seq(Item) /\ todo' = s \o Tail(todo)
      BY <1>1, <1>2, <2>1
    <3> QED BY <3>1, Behind
  <2>3. /\ todo'[1].act = "target" /\ todo'[2].act = "params" /\ todo'[3].act = "stmts"
        /\ todo'[4].act = "emit" /\ todo'[4].op = "ret" /\ todo'[5].act = "funcs"
        /\ \A k \in DOMAIN s : k \in {1, 2, 3, 4, 5}
    BY <2>1, <2>2, SMTT(30)
  <2>4. Len(s) = 5
    BY <2>1
  <2>5. JustEnded' /\ pending' = {}
    <3>1. Opens(todo[1])
      BY <1>1, <1>2 DEF Opens
    <3> QED BY <1>1, <1>2, <3>1 DEF FunctionsApart, JustEnded
  <2>6. ASSUME NEW k \in DOMAIN todo', Opens(todo'[k])
        PROVE  IF k = 1 THEN JustEnded' /\ pending' = {} ELSE Ends(todo'[k - 1])
    <3>1. CASE k \in DOMAIN s
      <4>1. k \in {1, 5}
        BY <2>3, <2>6, <3>1 DEF Opens
      <4>2. Ends(todo'[4])
        BY <2>3 DEF Ends
      <4> QED BY <2>5, <4>1, <4>2
    <3>2. CASE k \notin DOMAIN s
      <4>1. PICK i \in DOMAIN todo : i # 1 /\ k = at(i) /\ todo'[k] = todo[i]
        BY <2>2, <3>2
      <4>2. Ends(todo[i - 1])
        BY <2>6, <4>1 DEF FunctionsApart
      <4>3. i - 1 # 1
        BY <1>1, <1>2, <4>2 DEF Ends
      <4>4. i - 1 \in DOMAIN todo /\ at(i - 1) = k - 1 /\ k # 1
        BY <1>2, <2>4, <4>1, <4>3
      <4> QED BY <2>2, <4>2, <4>3, <4>4
    <3> QED BY <3>1, <3>2
  <2>7. ASSUME NEW k \in DOMAIN todo', todo'[k].act \in {"else", "cases"}
        PROVE  todo'[k].arg \in GenLabel
    <3>1. k \notin DOMAIN s
      BY <2>3, <2>7
    <3>2. PICK i \in DOMAIN todo : i # 1 /\ k = at(i) /\ todo'[k] = todo[i]
      BY <2>2, <3>1
    <3> QED BY <2>7, <3>2 DEF FunctionsApart
  <2> QED BY <2>5, <2>6, <2>7 DEF FunctionsApart
<1> QED BY <1>1, <1>3, <1>4

LEMMA ApartNext ==
  ASSUME IInv, LoopShape, FunctionsApart, NoFallThrough, [Next]_vars
  PROVE  FunctionsApart' /\ NoFallThrough'
<1>1. CASE Generate
  BY <1>1, ApartGenerate
<1>2. CASE ~ Generate
  <2>1. code' = code
    <3>1. ASSUME NEW s \in Seq(Item), Regular(s)
          PROVE  code' = code
      BY <3>1 DEF Regular, Unfolds
    <3>2. Function => code' = code
      BY FunctionUnfolds
    <3>3. JumpTarget \/ UNCHANGED vars => code' = code
      BY DEF JumpTarget, vars
    <3> QED BY <1>2, <3>1, <3>2, <3>3, Steps, RegularSteps
  <2>2. NoFallThrough'
    BY <2>1 DEF NoFallThrough
  <2>3. ASSUME NEW s \in Seq(Item), Regular(s)
        PROVE  FunctionsApart'
    BY <2>3, ApartUnfolds DEF Regular
  <2>4. UNCHANGED vars => FunctionsApart'
    BY DEF vars, FunctionsApart, JustEnded
  <2> QED BY <1>2, <2>2, <2>3, <2>4, Steps, RegularSteps, ApartJumpTarget, ApartFunction
<1> QED BY <1>1, <1>2


----------------------------------------------------------------------------
(***************************************************************************)
(* Every string gets one directive.                                        *)
(***************************************************************************)

(* What is left when the head is dropped.                                  *)
LEMMA HeadDropped ==
  ASSUME todo \in Seq(Item), todo # <<>>, todo' = Tail(todo)
  PROVE  /\ \A k \in DOMAIN todo' :
              k \in Nat /\ k + 1 \in DOMAIN todo /\ k + 1 # 1 /\ todo'[k] = todo[k + 1]
         /\ \A i \in DOMAIN todo : i # 1 =>
              i \in Nat /\ i - 1 \in DOMAIN todo' /\ todo'[i - 1] = todo[i]
         /\ Len(todo') = Len(todo) - 1 /\ Len(todo) \in Nat /\ todo' \in Seq(Item)
BY ONLY todo \in Seq(Item), todo # <<>>, todo' = Tail(todo)

(* The handler of the string table is below all others.                    *)
LEMMA NotTheLast ==
  ASSUME IInv, StringsKept, todo # <<>>, Head(todo).act # "strings"
  PROVE  Len(todo) \in Nat /\ Len(todo) > 1
<1> DEFINE n == Len(todo)
<1>1. todo \in Seq(Item) /\ 1 \in DOMAIN todo /\ Head(todo) = todo[1]
  BY TopItem
<1>2. 1 # n
  BY <1>1 DEF StringsKept
<1>3. n \in Nat /\ n >= 1
  BY ONLY <1>1
<1> HIDE DEF n
<1>4. n \in Nat /\ n > 1
  BY ONLY <1>2, <1>3
<1> QED BY <1>4 DEF n

LEMMA StringsGenerate ==
  ASSUME IInv, StringsKept, Generate
  PROVE  StringsKept'
<1> DEFINE n   == Len(code)
           new == [labels |-> pending, op |-> todo[1].op, arg |-> todo[1].arg]
<1>1. /\ todo \in Seq(Item) /\ todo # <<>> /\ Head(todo) = todo[1] /\ todo[1].act = "emit"
      /\ code' = Append(code, new) /\ strings' = strings /\ todo' = Tail(todo)
      /\ 1 \in DOMAIN todo
  BY TopItem DEF Generate, At, Finish
<1>2. code \in Seq(Instr)
  BY DEF IInv, TypeOK
<1>3. /\ \A k \in DOMAIN todo' :
           k \in Nat /\ k + 1 \in DOMAIN todo /\ k + 1 # 1 /\ todo'[k] = todo[k + 1]
      /\ Len(todo') = Len(todo) - 1 /\ Len(todo) \in Nat /\ todo' \in Seq(Item)
  BY <1>1, HeadDropped
<1>4. /\ n \in Nat /\ n + 1 \in DOMAIN code' /\ code'[n + 1] = new /\ n + 1 \notin DOMAIN code
      /\ \A i \in DOMAIN code : i \in DOMAIN code' /\ code'[i] = code[i]
      /\ \A i \in DOMAIN code' : i \in DOMAIN code \/ i = n + 1
  BY <1>1, <1>2
<1>5. new.op = todo[1].op /\ new.arg = todo[1].arg
  OBVIOUS
<1> HIDE DEF new
<1>6. StringArgs' = StringArgs
  BY <1>1 DEF StringArgs
<1>7. \A i \in DOMAIN code' : code'[i].op = "pushs" => code'[i].arg \in StringArgs
  BY <1>1, <1>4, <1>5 DEF StringsKept
<1>8. \A d \in Directives' : d \in Directives \/ (d = n + 1 /\ todo[1].op = ".string")
  BY <1>4, <1>5 DEF Directives
<1>9. ASSUME NEW d \in Directives', NEW e \in Directives', code'[d].arg = code'[e].arg
      PROVE  d = e
  <2>1. todo[1].op = ".string" => \A c \in Directives : code[c].arg # todo[1].arg
    BY <1>1 DEF StringsKept, Directed
  <2>2. \A c \in Directives : code'[c] = code[c]
    BY <1>4 DEF Directives
  <2>3. \A b, c \in Directives : code[b].arg = code[c].arg => b = c
    BY DEF StringsKept
  <2> QED BY <1>4, <1>5, <1>8, <1>9, <2>1, <2>2, <2>3
<1>10. ASSUME NEW k \in DOMAIN todo'
       PROVE  /\ todo'[k].act = "emit" /\ todo'[k].op = "pushs" => todo'[k].arg \in StringArgs
              /\ ~ (todo'[k].act = "emit" /\ todo'[k].op = ".string")
              /\ todo'[k].act = "strings" <=> k = Len(todo')
  <2>1. todo'[k].act = "strings" <=> k + 1 = Len(todo)
    BY <1>3 DEF StringsKept
  <2> QED BY <1>3, <2>1 DEF StringsKept
<1>11. todo' # <<>>
  <2>1. Len(todo) > 1
    BY <1>1, NotTheLast
  <2> QED BY <1>3, <2>1
<1> QED BY <1>6, <1>7, <1>9, <1>10, <1>11 DEF StringsKept

LEMMA StringsJumpTarget ==
  ASSUME IInv, StringsKept, JumpTarget
  PROVE  StringsKept'
<1>1. /\ todo \in Seq(Item) /\ todo # <<>> /\ Head(todo) = todo[1] /\ todo[1].act = "target"
      /\ code' = code /\ strings' = strings /\ todo' = Tail(todo)
      /\ 1 \in DOMAIN todo
  BY TopItem DEF JumpTarget, At, Finish
<1>2. /\ \A k \in DOMAIN todo' :
           k \in Nat /\ k + 1 \in DOMAIN todo /\ k + 1 # 1 /\ todo'[k] = todo[k + 1]
      /\ Len(todo') = Len(todo) - 1 /\ Len(todo) \in Nat /\ todo' \in Seq(Item)
  BY <1>1, HeadDropped
<1>3. StringArgs' = StringArgs /\ Directives' = Directives /\ Directed' = Directed
  BY <1>1 DEF StringArgs, Directives, Directed
<1>4. ASSUME NEW k \in DOMAIN todo'
      PROVE  /\ todo'[k].act = "emit" /\ todo'[k].op = "pushs" => todo'[k].arg \in StringArgs
             /\ ~ (todo'[k].act = "emit" /\ todo'[k].op = ".string")
             /\ todo'[k].act = "strings" <=> k = Len(todo')
  <2>1. todo'[k].act = "strings" <=> k + 1 = Len(todo)
    BY <1>2 DEF StringsKept
  <2> QED BY <1>2, <2>1 DEF StringsKept
<1>5. todo' # <<>>
  <2>1. Len(todo) > 1
    BY <1>1, NotTheLast
  <2> QED BY <1>2, <2>1
<1> QED BY <1>1, <1>3, <1>4, <1>5 DEF StringsKept

(* A script that is not of the string table: what it pushes is in the      *)
(* table, perhaps just now.                                                *)
LEMMA StringsUnfolded ==
  ASSUME IInv, StringsKept, NEW s \in Seq(Item), Unfolds(s), Head(todo).act # "strings",
         StringArgs \subseteq StringArgs',
         \A i \in DOMAIN s :
           /\ s[i].act # "strings"
           /\ s[i].act = "emit" => s[i].op # ".string"
           /\ s[i].act = "emit" /\ s[i].op = "pushs" => s[i].arg \in StringArgs'
  PROVE  StringsKept'
<1> DEFINE at(i) == Len(s) + i - 1
<1>1. todo \in Seq(Item) /\ todo # <<>> /\ todo' = s \o Tail(todo)
      /\ Head(todo) = todo[1] /\ todo[1].act # "emit" /\ code' = code
  BY TopItem DEF Unfolds
<1>2. /\ \A i \in DOMAIN s : i \in DOMAIN todo' /\ todo'[i] = s[i]
      /\ \A i \in DOMAIN todo : i # 1 => at(i) \in DOMAIN todo' /\ todo'[at(i)] = todo[i]
      /\ \A k \in DOMAIN todo' : k \in DOMAIN s \/ \E i \in DOMAIN todo : i # 1 /\ k = at(i)
  BY <1>1, Behind
<1>3. /\ Len(s) \in Nat /\ Len(todo) \in Nat /\ Len(todo) > 1
      /\ Len(todo') = Len(s) + Len(todo) - 1
      /\ DOMAIN s = 1 .. Len(s)
  <2>1. Len(todo) \in Nat /\ Len(todo) > 1
    BY <1>1, NotTheLast
  <2>2. Tail(todo) \in Seq(Item) /\ Len(Tail(todo)) = Len(todo) - 1
    BY <1>1
  <2>3. Len(s \o Tail(todo)) = Len(s) + Len(Tail(todo))
    BY ONLY <2>2, s \in Seq(Item), Joined
  <2> QED BY <1>1, <2>1, <2>2, <2>3
<1>4. Directives' = Directives /\ Directed' = Directed
  BY <1>1 DEF Directives, Directed
<1>5. ASSUME NEW k \in DOMAIN todo'
      PROVE  /\ todo'[k].act = "emit" /\ todo'[k].op = "pushs" => todo'[k].arg \in StringArgs'
             /\ ~ (todo'[k].act = "emit" /\ todo'[k].op = ".string")
             /\ todo'[k].act = "strings" <=> k = Len(todo')
  <2>1. CASE k \in DOMAIN s
    <3>1. k # Len(todo')
      BY <1>3, <2>1
    <3> QED BY <1>2, <2>1, <3>1
  <2>2. CASE k \notin DOMAIN s
    <3>1. PICK i \in DOMAIN todo : i # 1 /\ k = at(i) /\ todo'[k] = todo[i]
      BY <1>2, <2>2
    <3>2. k = Len(todo') <=> i = Len(todo)
      <4>1. i \in Nat
        BY ONLY <1>1, i \in DOMAIN todo
      <4> QED BY ONLY <1>3, <3>1, <4>1 DEF at
    <3>3. todo[i].act = "strings" <=> i = Len(todo)
      BY DEF StringsKept
    <3> QED BY <3>1, <3>2, <3>3 DEF StringsKept
  <2> QED BY <2>1, <2>2
<1>6. todo' # <<>>
  BY <1>3
<1>7. \A i \in DOMAIN code' : code'[i].op = "pushs" => code'[i].arg \in StringArgs'
  BY <1>1 DEF StringsKept
<1> QED BY <1>1, <1>4, <1>5, <1>6, <1>7 DEF StringsKept

LEMMA StringsLiteral ==
  ASSUME IInv, StringsKept, StringLiteral
  PROVE  StringsKept'
<1>1. /\ todo # <<>> /\ Head(todo).act = "expr"
      /\ UNCHANGED <<code, pending, functions>>
      /\ \A i \in DOMAIN strings : i \in DOMAIN strings'
  BY LiteralUnfolds
<1>2. PICK i \in DOMAIN strings' :
        /\ Emit("pushs", Str(i - 1)) \in Item
        /\ todo' = <<Emit("pushs", Str(i - 1))>> \o Tail(todo)
  BY LiteralUnfolds
<1> DEFINE push == Emit("pushs", Str(i - 1))
           s    == <<push>>
<1>3. push.act = "emit" /\ push.op = "pushs" /\ push.arg = Str(i - 1)
  BY DEF Emit, Do
<1>4. push \in Item /\ todo' = <<push>> \o Tail(todo)
  BY <1>2
<1> HIDE DEF push
<1>5. s \in Seq(Item) /\ DOMAIN s = 1 .. 1 /\ s[1] = push /\ todo' = s \o Tail(todo)
  BY ONLY <1>4
<1> HIDE DEF s
<1>6. StringArgs \subseteq StringArgs' /\ push.arg \in StringArgs'
  BY <1>1, <1>3 DEF StringArgs
<1>7. Unfolds(s)
  BY <1>1, <1>5 DEF Unfolds
<1> QED BY <1>1, <1>3, <1>5, <1>6, <1>7, StringsUnfolded

LEMMA StringsFunction ==
  ASSUME IInv, StringsKept, Function
  PROVE  StringsKept'
<1>1. /\ todo # <<>> /\ Head(todo).act = "funcs"
      /\ UNCHANGED <<code, pending, functions, strings>>
      /\ \/ todo' = <<>> \o Tail(todo)
         \/ \E f \in Names, k \in Nat :
              FunctionScript(f, k) \in Seq(Item) /\ todo' = FunctionScript(f, k) \o Tail(todo)
  BY FunctionUnfolds
<1>2. StringArgs' = StringArgs
  BY <1>1 DEF StringArgs
<1>3. CASE todo' = <<>> \o Tail(todo)
  <2> DEFINE s == <<>>
  <2>1. s \in Seq(Item) /\ DOMAIN s = {} /\ todo' = s \o Tail(todo)
    BY <1>3
  <2> HIDE DEF s
  <2>2. Unfolds(s)
    BY <1>1, <2>1 DEF Unfolds
  <2> QED BY <1>1, <1>2, <2>1, <2>2, StringsUnfolded
<1>4. ASSUME NEW f \in Names, NEW n \in Nat, FunctionScript(f, n) \in Seq(Item),
             todo' = FunctionScript(f, n) \o Tail(todo)
      PROVE  StringsKept'
  <2> DEFINE s == FunctionScript(f, n)
  <2>1. Unfolds(s)
    BY <1>1, <1>4 DEF Unfolds
  <2>2. \A i \in DOMAIN s : i \in {1, 2, 3, 4, 5}
    BY FunctionItems
  <2>3. /\ s[1].act = "target" /\ s[2].act = "params" /\ s[3].act = "stmts"
        /\ s[4].act = "emit" /\ s[4].op = "ret" /\ s[5].act = "funcs"
    BY FunctionItems
  <2>4. \A i \in DOMAIN s : /\ s[i].act # "strings"
                            /\ s[i].act = "emit" => s[i].op = "ret"
    BY <2>2, <2>3
  <2> HIDE DEF s
  <2>5. s \in Seq(Item)
    BY <1>4 DEF s
  <2> QED BY <1>1, <1>2, <2>1, <2>4, <2>5, StringsUnfolded
<1> QED BY <1>1, <1>3, <1>4

(* The handler of the table writes a directive that was not written yet,   *)
(* or ends when there is none.                                             *)
LEMMA StringsDirectives ==
  ASSUME IInv, StringsKept, StringDirectives
  PROVE  StringsKept'
<1>1. /\ todo # <<>> /\ Head(todo).act = "strings"
      /\ UNCHANGED <<code, pending, functions, strings>>
      /\ \/ todo' = <<>> \o Tail(todo) /\ StringArgs \subseteq Directed
         \/ \E i \in DOMAIN strings :
              /\ Str(i - 1) \notin Directed
              /\ Emit(".string", Str(i - 1)) \in Item /\ Strings \in Item
              /\ todo' = <<Emit(".string", Str(i - 1)), Strings>> \o Tail(todo)
  BY DirectivesUnfold
<1>2. Tail(todo) = <<>>
  <2>1. todo \in Seq(Item) /\ 1 \in DOMAIN todo /\ todo[1].act = "strings"
    BY <1>1, TopItem
  <2>2. Len(todo) = 1
    BY <2>1 DEF StringsKept
  <2>3. todo # <<>>
    BY <1>1
  <2>4. Tail(todo) \in Seq(Item) /\ Len(Tail(todo)) = 0
    BY ONLY <2>1, <2>2, <2>3, HeadTailProperties
  <2> QED BY ONLY <2>4, EmptySeq
<1>3. StringArgs' = StringArgs /\ Directives' = Directives /\ Directed' = Directed
  BY <1>1 DEF StringArgs, Directives, Directed
<1>4. /\ \A i \in DOMAIN code' : code'[i].op = "pushs" => code'[i].arg \in StringArgs
      /\ \A d, e \in Directives : code'[d].arg = code'[e].arg => d = e
  BY <1>1 DEF StringsKept
<1>5. CASE todo' = <<>> \o Tail(todo) /\ StringArgs \subseteq Directed
  <2>1. todo' = <<>> /\ DOMAIN todo' = {}
    BY <1>2, <1>5
  <2> QED BY <1>3, <1>4, <1>5, <2>1 DEF StringsKept
<1>6. ASSUME NEW i \in DOMAIN strings, Str(i - 1) \notin Directed,
             Emit(".string", Str(i - 1)) \in Item, Strings \in Item,
             todo' = <<Emit(".string", Str(i - 1)), Strings>> \o Tail(todo)
      PROVE  StringsKept'
  <2> DEFINE dir == Emit(".string", Str(i - 1))
  <2>1. /\ dir.act = "emit" /\ dir.op = ".string" /\ dir.arg = Str(i - 1)
        /\ Strings.act = "strings" /\ dir \in Item /\ Strings \in Item
        /\ todo' = <<dir, Strings>> \o Tail(todo)
    BY <1>6 DEF Emit, Strings, Do
  <2>2. dir.arg \notin Directed
    BY <1>6, <2>1
  <2> HIDE DEF dir
  <2>3. todo' = <<dir, Strings>>
    <3> DEFINE s == <<dir, Strings>>
    <3>1. s \in Seq(Item) /\ s = <<dir, Strings>>
      BY ONLY <2>1
    <3> HIDE DEF s
    <3>2. todo' = s
      BY <1>2, <2>1, <3>1, ConcatEmptySeq
    <3> QED BY <3>2 DEF s
  <2>4. DOMAIN todo' = {1, 2} /\ Len(todo') = 2 /\ todo'[1] = dir /\ todo'[2] = Strings
        /\ todo' # <<>>
    BY <2>3
  <2> QED BY <1>3, <1>4, <2>1, <2>2, <2>4 DEF StringsKept
<1> QED BY <1>1, <1>5, <1>6

LEMMA StringsNext ==
  ASSUME IInv, FunctionsApart, LoopShape, StringsKept, [Next]_vars
  PROVE  StringsKept'
<1>1. ASSUME Replaced
      PROVE  StringsKept'
  <2>1. PICK s \in Seq(Item) : Ordinary(s)
    BY <1>1 DEF Replaced
  <2>2. Unfolds(s) /\ Head(todo).act # "strings" /\ strings' = strings /\ Mild(s)
    BY <2>1 DEF Ordinary
  <2>3. StringArgs' = StringArgs
    BY <2>2 DEF StringArgs
  <2>4. \A i \in DOMAIN s :
          /\ s[i].act # "strings"
          /\ s[i].act = "emit" => s[i].op # ".string" /\ s[i].op # "pushs"
    BY <2>2 DEF Mild
  <2> QED BY <2>2, <2>3, <2>4, StringsUnfolded
<1>2. UNCHANGED vars => StringsKept'
  BY DEF vars, StringsKept, StringArgs, Directives, Directed
<1> QED BY <1>1, <1>2, Steps, StringsGenerate, StringsJumpTarget, StringsLiteral,
           StringsFunction, StringsDirectives


----------------------------------------------------------------------------
(***************************************************************************)
(* A loop is entered at the label of its entry only.                       *)
(***************************************************************************)

(* What refers to a generated label, or carries it, came after it was made.*)
LEMMA OldLabels ==
  ASSUME IInv
  PROVE  /\ \A l \in GenLabel : Reachable(l) => IsOld(l)
         /\ \A i \in DOMAIN code : code[i].arg \in GenLabel => IsOld(code[i].arg)
         /\ \A i \in DOMAIN code : \A l \in code[i].labels \cap GenLabel : IsOld(l)
         /\ \A l \in pending \cap GenLabel : IsOld(l)
         /\ \A p \in DOMAIN todo : IsLoop(p) =>
              Exit(p) \in GenLabel /\ EntryLabel(p) \in GenLabel /\ IsOld(EntryLabel(p))
<1>1. LabelsFresh /\ ReferencesReachable /\ LoopDepths
      /\ loop_entry_labels \in Seq(GenLabel) /\ loop_exit_labels \in Seq(GenLabel)
  BY DEF IInv, TypeOK
<1>2. ASSUME NEW l \in GenLabel, Reachable(l)
      PROVE  IsOld(l)
  <2>1. l # MainLabel /\ \A f : l # F(f)
    BY NotAFunction DEF MainLabel
  <2>2. CASE Owed(l)
    <3>1. PICK i \in DOMAIN todo : todo[i].act \in Placing /\ l = todo[i].arg
      BY <2>1, <2>2 DEF Owed, Owes
    <3> QED BY <1>1, <3>1 DEF LabelsFresh
  <2>3. CASE Defined(l)
    BY <1>1, <2>3 DEF Defined, LabelsFresh
  <2> QED BY <1>2, <2>1, <2>2, <2>3 DEF Reachable
<1>3. GenLabel \subseteq Label
  BY ArgTypes
<1>4. \A i \in DOMAIN code : code[i].arg \in GenLabel => IsOld(code[i].arg)
  BY <1>1, <1>2, <1>3 DEF ReferencesReachable
<1>5. ASSUME NEW p \in DOMAIN todo, IsLoop(p)
      PROVE  Exit(p) \in GenLabel /\ EntryLabel(p) \in GenLabel /\ IsOld(EntryLabel(p))
  <2>1. /\ todo[p].n \in 1 .. Len(loop_exit_labels)
        /\ Len(loop_exit_labels) = Len(loop_entry_labels)
        /\ Exit(p) = loop_exit_labels[todo[p].n] /\ EntryLabel(p) = loop_entry_labels[todo[p].n]
    BY <1>1, <1>5 DEF LoopDepths, IsLoop, Exit, EntryLabel
  <2>2. todo[p].n \in DOMAIN loop_exit_labels /\ todo[p].n \in DOMAIN loop_entry_labels
    BY <1>1, <2>1
  <2>3. Exit(p) \in GenLabel /\ EntryLabel(p) \in GenLabel
    BY <1>1, <2>1, <2>2
  <2>4. Reachable(EntryLabel(p))
    BY <1>1, <2>1, <2>2 DEF ReferencesReachable
  <2> QED BY <1>2, <2>3, <2>4
<1> QED BY <1>1, <1>2, <1>4, <1>5 DEF LabelsFresh

(* Dropping an item leaves the loops in shape, and jumps lead on.          *)
LEMMA ShapeDropped ==
  ASSUME LoopShape, todo \in Seq(Item), todo # <<>>, todo' = Tail(todo)
  PROVE  LoopShape'
<1>1. /\ \A k \in DOMAIN todo' :
           k \in Nat /\ k + 1 \in DOMAIN todo /\ k + 1 # 1 /\ todo'[k] = todo[k + 1]
      /\ \A i \in DOMAIN todo : i # 1 =>
           i \in Nat /\ i - 1 \in DOMAIN todo' /\ todo'[i - 1] = todo[i]
  BY HeadDropped
<1>2. SUFFICES ASSUME NEW p \in DOMAIN todo', todo'[p].act = "leave"
      PROVE  /\ p # 1 => todo'[p - 1].act = "target" /\ todo'[p - 1].arg = todo'[p].arg
             /\ \A q \in DOMAIN todo' : q < p => ~ Opens(todo'[q])
             /\ \A t \in DOMAIN todo' :
                  t < p /\ todo'[t].act \in Placing /\ todo'[t].arg = todo'[p].arg2 =>
                    /\ todo'[t].act = "target"
                    /\ \A q \in DOMAIN todo' : t < q /\ q < p /\ todo'[q].act \in Placing
                         => todo'[q].arg = todo'[p].arg
  BY DEF LoopShape, IsLoop, Exit, EntryLabel, Places
<1>3. PICK P : P = p + 1
  OBVIOUS
<1>4. P \in DOMAIN todo /\ P # 1 /\ todo[P].act = "leave" /\ todo'[p] = todo[P] /\ p \in Nat
  BY <1>1, <1>2, <1>3
<1>5. /\ todo[P - 1].act = "target" /\ todo[P - 1].arg = todo[P].arg
      /\ \A q \in DOMAIN todo : q < P => ~ Opens(todo[q])
      /\ \A t \in DOMAIN todo :
           t < P /\ todo[t].act \in Placing /\ todo[t].arg = todo[P].arg2 =>
             /\ todo[t].act = "target"
             /\ \A q \in DOMAIN todo : t < q /\ q < P /\ todo[q].act \in Placing
                  => todo[q].arg = todo[P].arg
  BY <1>4 DEF LoopShape, IsLoop, Exit, EntryLabel, Places
<1>6. ASSUME p # 1
      PROVE  todo'[p - 1].act = "target" /\ todo'[p - 1].arg = todo'[p].arg
  <2>1. p \in DOMAIN todo /\ p # 1 /\ P - 1 = p
    BY <1>3, <1>4, <1>6
  <2>2. todo'[p - 1] = todo[p]
    BY <1>1, <2>1
  <2> QED BY <1>4, <1>5, <2>1, <2>2
<1>7. ASSUME NEW q \in DOMAIN todo', q < p
      PROVE  ~ Opens(todo'[q])
  <2>1. q + 1 \in DOMAIN todo /\ q + 1 < P /\ todo'[q] = todo[q + 1]
    BY <1>1, <1>3, <1>4, <1>7
  <2> QED BY <1>5, <2>1
<1>8. ASSUME NEW t \in DOMAIN todo', t < p, todo'[t].act \in Placing,
             todo'[t].arg = todo'[p].arg2
      PROVE  /\ todo'[t].act = "target"
             /\ \A q \in DOMAIN todo' : t < q /\ q < p /\ todo'[q].act \in Placing
                  => todo'[q].arg = todo'[p].arg
  <2>1. t + 1 \in DOMAIN todo /\ t + 1 < P /\ todo'[t] = todo[t + 1] /\ t \in Nat
    BY <1>1, <1>3, <1>4, <1>8
  <2>2. /\ todo[t + 1].act = "target"
        /\ \A q \in DOMAIN todo : t + 1 < q /\ q < P /\ todo[q].act \in Placing
             => todo[q].arg = todo[P].arg
    BY <1>4, <1>5, <1>8, <2>1
  <2>3. ASSUME NEW q \in DOMAIN todo', t < q, q < p, todo'[q].act \in Placing
        PROVE  todo'[q].arg = todo'[p].arg
    <3>1. q + 1 \in DOMAIN todo /\ t + 1 < q + 1 /\ q + 1 < P /\ todo'[q] = todo[q + 1]
      BY <1>1, <1>3, <1>4, <2>1, <2>3
    <3> QED BY <1>4, <2>2, <2>3, <3>1
  <2> QED BY <2>1, <2>2, <2>3
<1> QED BY <1>6, <1>7, <1>8

LEMMA JumpsDropped ==
  ASSUME JumpsLead, todo \in Seq(Item), todo # <<>>, todo' = Tail(todo),
         NEW q \in DOMAIN todo', todo'[q].act = "emit", IsJump(todo'[q]), todo'[q].arg # MainLabel
  PROVE  /\ todo'[q].arg \in GenLabel
         /\ \E r \in DOMAIN todo' : r > q /\
              \/ todo'[r].act \in Placing /\ todo'[r].arg = todo'[q].arg
              \/ todo'[r].act = "leave" /\ todo'[r].arg2 = todo'[q].arg
<1>1. /\ \A k \in DOMAIN todo' :
           k \in Nat /\ k + 1 \in DOMAIN todo /\ k + 1 # 1 /\ todo'[k] = todo[k + 1]
      /\ \A i \in DOMAIN todo : i # 1 =>
           i \in Nat /\ i - 1 \in DOMAIN todo' /\ todo'[i - 1] = todo[i]
  BY HeadDropped
<1>2. q + 1 \in DOMAIN todo /\ todo'[q] = todo[q + 1] /\ q \in Nat
  BY <1>1
<1>3. todo'[q].arg \in GenLabel
  BY <1>2 DEF JumpsLead
<1>4. PICK r \in DOMAIN todo : r > q + 1 /\
        \/ todo[r].act \in Placing /\ todo[r].arg = todo'[q].arg
        \/ todo[r].act = "leave" /\ todo[r].arg2 = todo'[q].arg
  BY <1>2 DEF JumpsLead, Places, IsLoop, EntryLabel
<1>5. r \in Nat /\ r # 1 /\ r - 1 > q
  <2>1. r \in Nat
    BY ONLY r \in DOMAIN todo, todo \in Seq(Item)
  <2> QED BY ONLY <1>2, <1>4, <2>1
<1>6. r - 1 \in DOMAIN todo' /\ todo'[r - 1] = todo[r]
  BY <1>1, <1>5
<1> QED BY <1>3, <1>4, <1>5, <1>6

(* A regular script: its loop closes, and the others keep their shape,     *)
(* since a new label is not that of an entry.                              *)
LEMMA ShapeUnfolded ==
  ASSUME IInv, LoopShape, NEW s \in Seq(Item), Unfolds(s), Tame(s), Woven(s)
  PROVE  LoopShape'
<1> DEFINE at(i) == Len(s) + i - 1
<1>1. todo \in Seq(Item) /\ todo # <<>> /\ todo' = s \o Tail(todo) /\ 1 \in DOMAIN todo
      /\ Head(todo) = todo[1] /\ todo[1].act \notin {"emit", "target"}
  BY TopItem DEF Unfolds
<1>2. /\ \A i \in DOMAIN s : i \in DOMAIN todo' /\ todo'[i] = s[i]
      /\ \A i \in DOMAIN todo : i # 1 => at(i) \in DOMAIN todo' /\ todo'[at(i)] = todo[i]
      /\ \A k \in DOMAIN todo' : k \in DOMAIN s \/ \E i \in DOMAIN todo : i # 1 /\ k = at(i)
  BY <1>1, Behind
<1>3. /\ Len(s) \in Nat /\ DOMAIN s = 1 .. Len(s)
      /\ \A i \in DOMAIN todo : i \in Nat /\ i >= 1
  BY <1>1
<1>4. SUFFICES ASSUME NEW p \in DOMAIN todo', todo'[p].act = "leave"
      PROVE  /\ p # 1 => todo'[p - 1].act = "target" /\ todo'[p - 1].arg = todo'[p].arg
             /\ \A q \in DOMAIN todo' : q < p => ~ Opens(todo'[q])
             /\ \A t \in DOMAIN todo' :
                  t < p /\ todo'[t].act \in Placing /\ todo'[t].arg = todo'[p].arg2 =>
                    /\ todo'[t].act = "target"
                    /\ \A q \in DOMAIN todo' : t < q /\ q < p /\ todo'[q].act \in Placing
                         => todo'[q].arg = todo'[p].arg
  BY DEF LoopShape, IsLoop, Exit, EntryLabel, Places
<1>5. CASE p \in DOMAIN s
  <2>1. Closes(s, p) /\ todo'[p] = s[p]
    BY <1>2, <1>4, <1>5 DEF Woven
  <2>2. \A q \in DOMAIN todo' : q < p => q \in DOMAIN s
    <3>1. ASSUME NEW q \in DOMAIN todo', q < p, q \notin DOMAIN s
          PROVE  FALSE
      <4>1. PICK i \in DOMAIN todo : i # 1 /\ q = at(i)
        BY <1>2, <3>1
      <4> QED BY ONLY <1>3, <1>5, <3>1, <4>1 DEF at
    <3> QED BY <3>1
  <2>3. p > 1 /\ p - 1 \in DOMAIN s
    BY <1>3, <1>5, <2>1 DEF Closes
  <2>4. todo'[p - 1].act = "target" /\ todo'[p - 1].arg = todo'[p].arg
    BY <1>2, <2>1, <2>3 DEF Closes
  <2>5. \A q \in DOMAIN todo' : q < p => ~ Opens(todo'[q])
    BY <1>2, <2>2, TameOpens
  <2>6. \A t \in DOMAIN todo' :
          t < p /\ todo'[t].act \in Placing /\ todo'[t].arg = todo'[p].arg2 =>
            /\ todo'[t].act = "target"
            /\ \A q \in DOMAIN todo' : t < q /\ q < p /\ todo'[q].act \in Placing
                 => todo'[q].arg = todo'[p].arg
    BY <1>2, <2>1, <2>2 DEF Closes
  <2> QED BY <2>4, <2>5, <2>6
<1>6. CASE p \notin DOMAIN s
  <2>1. PICK P \in DOMAIN todo : P # 1 /\ p = at(P) /\ todo'[p] = todo[P]
    BY <1>2, <1>6
  <2>2. /\ todo[P - 1].act = "target" /\ todo[P - 1].arg = todo[P].arg
        /\ \A q \in DOMAIN todo : q < P => ~ Opens(todo[q])
        /\ \A t \in DOMAIN todo :
             t < P /\ todo[t].act \in Placing /\ todo[t].arg = todo[P].arg2 =>
               /\ todo[t].act = "target"
               /\ \A q \in DOMAIN todo : t < q /\ q < P /\ todo[q].act \in Placing
                    => todo[q].arg = todo[P].arg
    BY <1>4, <2>1 DEF LoopShape, IsLoop, Exit, EntryLabel, Places
  <2>3. ASSUME NEW q \in DOMAIN todo', q \notin DOMAIN s, q < p
        PROVE  \E Q \in DOMAIN todo : Q # 1 /\ q = at(Q) /\ Q < P /\ todo'[q] = todo[Q]
    <3>1. PICK Q \in DOMAIN todo : Q # 1 /\ q = at(Q) /\ todo'[q] = todo[Q]
      BY <1>2, <2>3
    <3>2. Q < P
      <4>1. Q \in Nat /\ P \in Nat
        BY <1>3
      <4> QED BY ONLY <1>3, <2>1, <2>3, <3>1, <4>1 DEF at
    <3> QED BY <3>1, <3>2
  <2>4. todo'[p - 1].act = "target" /\ todo'[p - 1].arg = todo'[p].arg
    <3>1. P - 1 # 1 /\ P - 1 \in DOMAIN todo
      <4>1. P - 1 # 1
        BY <1>1, <2>2
      <4>2. P - 1 \in DOMAIN todo
        BY <1>1, <2>1
      <4> QED BY <4>1, <4>2
    <3>2. at(P - 1) = p - 1
      BY <1>3, <2>1
    <3> QED BY <1>2, <2>1, <2>2, <3>1, <3>2
  <2>5. ASSUME NEW q \in DOMAIN todo', q < p
        PROVE  ~ Opens(todo'[q])
    <3>1. CASE q \in DOMAIN s
      BY <1>2, <3>1, TameOpens
    <3>2. CASE q \notin DOMAIN s
      BY <2>2, <2>3, <2>5, <3>2
    <3> QED BY <3>1, <3>2
  <2>6. ASSUME NEW t \in DOMAIN todo', t < p, todo'[t].act \in Placing,
               todo'[t].arg = todo'[p].arg2
        PROVE  /\ todo'[t].act = "target"
               /\ \A q \in DOMAIN todo' : t < q /\ q < p /\ todo'[q].act \in Placing
                    => todo'[q].arg = todo'[p].arg
    <3>1. t \notin DOMAIN s
      <4>1. SUFFICES ASSUME t \in DOMAIN s
                     PROVE  FALSE
        OBVIOUS
      <4>2. s[t].act \in Placing /\ s[t].arg = todo[P].arg2
        BY <1>2, <2>1, <2>6, <4>1
      <4>3. IsOld(todo[P].arg2)
        BY <1>4, <2>1, OldLabels DEF IsLoop, EntryLabel
      <4>4. todo[1].act \in Placing /\ todo[1].arg = todo[P].arg2
        BY <1>1, <4>1, <4>2, <4>3 DEF Woven
      <4>5. 1 < P
        BY <1>3, <2>1
      <4> QED BY <1>1, <2>2, <4>4, <4>5
    <3>2. PICK T \in DOMAIN todo : T # 1 /\ t = at(T) /\ T < P /\ todo'[t] = todo[T]
      BY <2>3, <2>6, <3>1
    <3>3. /\ todo[T].act = "target"
          /\ \A q \in DOMAIN todo : T < q /\ q < P /\ todo[q].act \in Placing
               => todo[q].arg = todo[P].arg
      BY <2>1, <2>2, <2>6, <3>2
    <3>4. ASSUME NEW q \in DOMAIN todo', t < q, q < p, todo'[q].act \in Placing
          PROVE  todo'[q].arg = todo'[p].arg
      <4>1. q \notin DOMAIN s
        <5>1. T \in Nat /\ T > 1
          BY <1>3, <3>2
        <5> QED BY ONLY <1>3, <3>2, <3>4, <5>1 DEF at
      <4>2. PICK Q \in DOMAIN todo : Q # 1 /\ q = at(Q) /\ Q < P /\ todo'[q] = todo[Q]
        BY <2>3, <3>4, <4>1
      <4>3. T < Q
        <5>1. T \in Nat /\ Q \in Nat
          BY <1>3
        <5> QED BY ONLY <1>3, <3>2, <3>4, <4>2, <5>1 DEF at
      <4> QED BY <2>1, <3>3, <3>4, <4>2, <4>3
    <3> QED BY <3>2, <3>3, <3>4
  <2> QED BY <2>4, <2>5, <2>6
<1> QED BY <1>5, <1>6


(* The jumps behind a script lead where they led, those of the script on.  *)
LEMMA JumpsUnfolded ==
  ASSUME JumpsLead, NEW s \in Seq(Item), todo \in Seq(Item), Unfolds(s),
         \A i \in DOMAIN s : s[i].act = "emit" /\ s[i].op \in {"jmp", "jf", "jt"} => LeadsOn(s, i)
  PROVE  JumpsLead'
<1> DEFINE at(i) == Len(s) + i - 1
           Led(l, q) == \E r \in DOMAIN todo' : r > q /\
                          \/ todo'[r].act \in Placing /\ todo'[r].arg = l
                          \/ todo'[r].act = "leave" /\ todo'[r].arg2 = l
<1>1. todo # <<>> /\ todo' = s \o Tail(todo) /\ code' = code
      /\ 1 \in DOMAIN todo /\ todo[1].act # "emit"
  BY DEF Unfolds
<1>2. /\ \A i \in DOMAIN s : i \in DOMAIN todo' /\ todo'[i] = s[i]
      /\ \A i \in DOMAIN todo : i # 1 => at(i) \in DOMAIN todo' /\ todo'[at(i)] = todo[i]
      /\ \A k \in DOMAIN todo' : k \in DOMAIN s \/ \E i \in DOMAIN todo : i # 1 /\ k = at(i)
  BY <1>1, Behind
<1>3. Len(s) \in Nat /\ DOMAIN s = 1 .. Len(s) /\ \A i \in DOMAIN todo : i \in Nat /\ i >= 1
  BY <1>1
<1>4. ASSUME NEW q \in DOMAIN todo', todo'[q].act = "emit", IsJump(todo'[q]),
             todo'[q].arg # MainLabel
      PROVE  todo'[q].arg \in GenLabel /\ Led(todo'[q].arg, q)
  <2>1. CASE q \in DOMAIN s
    <3>1. LeadsOn(s, q) /\ todo'[q] = s[q]
      BY <1>2, <1>4, <2>1 DEF IsJump
    <3>2. CASE \E j \in DOMAIN s : j > q /\ ((s[j].act \in Placing /\ s[j].arg = s[q].arg)
                                           \/ (s[j].act = "leave" /\ s[j].arg2 = s[q].arg))
      BY <1>2, <3>1, <3>2 DEF LeadsOn
    <3>3. CASE \E r \in DOMAIN todo :
                 r # 1 /\ (Places(r, s[q].arg) \/ (IsLoop(r) /\ EntryLabel(r) = s[q].arg))
      <4>1. PICK r \in DOMAIN todo :
              r # 1 /\ (Places(r, s[q].arg) \/ (IsLoop(r) /\ EntryLabel(r) = s[q].arg))
        BY <3>3
      <4>2. at(r) \in DOMAIN todo' /\ todo'[at(r)] = todo[r]
        BY <1>2, <4>1
      <4>3. at(r) > q
        BY <1>3, <2>1, <4>1
      <4> HIDE DEF at
      <4> QED BY <3>1, <4>1, <4>2, <4>3 DEF LeadsOn, Places, IsLoop, EntryLabel
    <3> QED BY <3>1, <3>2, <3>3 DEF LeadsOn
  <2>2. CASE q \notin DOMAIN s
    <3>1. PICK p \in DOMAIN todo : p # 1 /\ q = at(p) /\ todo'[q] = todo[p]
      BY <1>2, <2>2
    <3>2. /\ todo[p].arg \in GenLabel
          /\ \E r \in DOMAIN todo : r > p /\
               (Places(r, todo[p].arg) \/ (IsLoop(r) /\ EntryLabel(r) = todo[p].arg))
      BY <1>4, <3>1 DEF JumpsLead
    <3>3. PICK r \in DOMAIN todo : r > p /\
               (Places(r, todo[p].arg) \/ (IsLoop(r) /\ EntryLabel(r) = todo[p].arg))
      BY <3>2
    <3>4. r # 1 /\ at(r) > q
      BY <1>3, <3>1, <3>3
    <3>5. at(r) \in DOMAIN todo' /\ todo'[at(r)] = todo[r]
      BY <1>2, <3>4
    <3> HIDE DEF at
    <3> QED BY <3>1, <3>2, <3>3, <3>4, <3>5 DEF Places, IsLoop, EntryLabel
  <2> QED BY <2>1, <2>2
<1>5. \A i \in DOMAIN code' : IsJump(code'[i]) => code'[i].arg \in GenLabel \cup {MainLabel}
  BY <1>1 DEF JumpsLead
<1> QED BY <1>4, <1>5 DEF JumpsLead, Places, IsLoop, EntryLabel

(* Where nothing is generated, nothing is entered.                         *)
LEMMA EntryKept ==
  ASSUME SingleEntry, UNCHANGED code
  PROVE  SingleEntry'
BY DEF SingleEntry, ClosedBetween, Entry, JumpsTo

(* The loops of a regular script begin with a label nothing refers to, and *)
(* its other labels are new as well, or that of the handler it replaces.   *)
LEMMA ClosedUnfolded ==
  ASSUME IInv, LoopClosed, NEW s \in Seq(Item), Unfolds(s), Tame(s), Woven(s)
  PROVE  LoopClosed'
<1> DEFINE at(i) == Len(s) + i - 1
<1>1. todo \in Seq(Item) /\ todo # <<>> /\ todo' = s \o Tail(todo) /\ 1 \in DOMAIN todo
      /\ Head(todo) = todo[1] /\ code' = code /\ pending' = pending
  BY TopItem DEF Unfolds
<1>2. /\ \A i \in DOMAIN s : i \in DOMAIN todo' /\ todo'[i] = s[i]
      /\ \A k \in DOMAIN todo' : k \in DOMAIN s \/ \E i \in DOMAIN todo : i # 1 /\ k = at(i)
      /\ \A i \in DOMAIN todo : i # 1 => at(i) \in DOMAIN todo' /\ todo'[at(i)] = todo[i]
  BY <1>1, Behind
<1>3. Len(s) \in Nat /\ DOMAIN s = 1 .. Len(s) /\ \A i \in DOMAIN todo : i \in Nat /\ i >= 1
  BY <1>1
<1>4. /\ \A i \in DOMAIN code : code[i].arg \in GenLabel => IsOld(code[i].arg)
      /\ \A i \in DOMAIN code : \A l \in code[i].labels \cap GenLabel : IsOld(l)
      /\ \A l \in pending \cap GenLabel : IsOld(l)
  BY OldLabels
<1>5. ASSUME NEW p \in DOMAIN todo', todo'[p].act = "leave"
      PROVE  \A q \in DOMAIN todo', i \in DOMAIN code :
               q < p /\ todo'[q].act \in Placing /\ todo'[q].arg # todo'[p].arg
                 /\ Follows(todo'[p].arg2, i) => ~ Refers(i, todo'[q].arg)
  <2>1. CASE p \in DOMAIN s
    <3>1. s[p].arg2 \in GenLabel /\ ~ IsOld(s[p].arg2) /\ todo'[p] = s[p]
      BY <1>2, <1>5, <2>1 DEF Woven, Closes
    <3> QED BY <1>4, <3>1 DEF Follows
  <2>2. CASE p \notin DOMAIN s
    <3>1. PICK P \in DOMAIN todo : P # 1 /\ p = at(P) /\ todo'[p] = todo[P]
      BY <1>2, <2>2
    <3>2. \A q \in DOMAIN todo, i \in DOMAIN code :
            q < P /\ todo[q].act \in Placing /\ todo[q].arg # todo'[p].arg
              /\ Follows(todo'[p].arg2, i) => ~ Refers(i, todo[q].arg)
      BY <1>5, <3>1 DEF LoopClosed, IsLoop, Exit, EntryLabel
    <3>3. ASSUME NEW q \in DOMAIN todo', NEW i \in DOMAIN code, q < p,
                 todo'[q].act \in Placing, todo'[q].arg # todo'[p].arg,
                 Follows(todo'[p].arg2, i)
          PROVE  ~ Refers(i, todo'[q].arg)
      <4>1. CASE q \in DOMAIN s
        <5>1. todo'[q] = s[q] /\ s[q].arg \in GenLabel
          BY <1>2, <3>3, <4>1 DEF Tame
        <5>2. CASE ~ IsOld(s[q].arg)
          BY <1>4, <5>1, <5>2 DEF Refers
        <5>3. CASE todo[1].act \in Placing /\ todo[1].arg = s[q].arg
          <6>1. 1 < P
            BY <1>3, <3>1
          <6> QED BY <1>1, <3>2, <3>3, <5>1, <5>3, <6>1
        <5> QED BY <1>1, <3>3, <4>1, <5>1, <5>2, <5>3 DEF Woven
      <4>2. CASE q \notin DOMAIN s
        <5>1. PICK Q \in DOMAIN todo : Q # 1 /\ q = at(Q) /\ todo'[q] = todo[Q]
          BY <1>2, <4>2
        <5>2. Q < P
          BY <1>3, <3>1, <3>3, <5>1
        <5> QED BY <3>2, <3>3, <5>1, <5>2
      <4> QED BY <4>1, <4>2
    <3> QED BY <3>3
  <2> QED BY <2>1, <2>2
<1>6. ASSUME NEW p \in DOMAIN todo', todo'[p].act = "leave",
             NEW j \in DOMAIN code, todo'[p].arg2 \in code[j].labels
      PROVE  /\ ClosedBetween(j, Len(code))
             /\ \A f \in Names : F(f) \notin pending
             /\ \A i \in 1 .. j - 1 : \A l \in pending : Refers(i, l) => l = todo'[p].arg
  <2>1. p \notin DOMAIN s
    <3>1. SUFFICES ASSUME p \in DOMAIN s
                   PROVE  FALSE
      OBVIOUS
    <3>2. s[p].arg2 \in GenLabel /\ ~ IsOld(s[p].arg2) /\ todo'[p] = s[p]
      BY <1>2, <1>6, <3>1 DEF Woven, Closes
    <3> QED BY <1>4, <1>6, <3>2
  <2>2. PICK P \in DOMAIN todo : P # 1 /\ p = at(P) /\ todo'[p] = todo[P]
    BY <1>2, <2>1
  <2> QED BY <1>6, <2>2 DEF LoopClosed, IsLoop, Exit, EntryLabel
<1>7. code' = code /\ pending' = pending
  BY <1>1
<1>8. /\ \A j, i : ClosedBetween(j, i)' <=> ClosedBetween(j, i)
      /\ \A i, l : Refers(i, l)' <=> Refers(i, l)
      /\ \A i, l : Follows(l, i)' <=> Follows(l, i)
  BY <1>7 DEF ClosedBetween, Entry, JumpsTo, Refers, Follows
<1> HIDE DEF at
<1> QED BY <1>5, <1>6, <1>7, <1>8 DEF LoopClosed, IsLoop, Exit, EntryLabel

(* The label of an entry closes the loop: the others in it were placed, or *)
(* are made inside.                                                        *)
LEMMA ClosedJumpTarget ==
  ASSUME IInv, LoopShape, LoopClosed, JumpTarget
  PROVE  LoopClosed'
<1> DEFINE x == todo[1].arg
           Passed(l, i) == l \in pending' \/ \E k \in DOMAIN code : i < k /\ l \in code[k].labels
<1>1. /\ todo \in Seq(Item) /\ todo # <<>> /\ Head(todo) = todo[1] /\ todo[1].act = "target"
      /\ code' = code /\ pending' = pending \cup {x} /\ todo' = Tail(todo)
      /\ 1 \in DOMAIN todo
  BY TopItem DEF JumpTarget, At, Finish
<1>2. \A k \in DOMAIN todo' : k \in Nat /\ k + 1 \in DOMAIN todo /\ k + 1 # 1 /\ todo'[k] = todo[k + 1]
  BY <1>1, HeadDropped
<1>3. ASSUME NEW p \in DOMAIN todo', todo'[p].act = "leave"
      PROVE  /\ \A q \in DOMAIN todo', i \in DOMAIN code :
                  q < p /\ todo'[q].act \in Placing /\ todo'[q].arg # todo'[p].arg
                    /\ Passed(todo'[p].arg2, i) => ~ Refers(i, todo'[q].arg)
             /\ \A j \in DOMAIN code : todo'[p].arg2 \in code[j].labels =>
                  /\ ClosedBetween(j, Len(code))
                  /\ \A f \in Names : F(f) \notin pending'
                  /\ \A i \in 1 .. j - 1 : \A l \in pending' : Refers(i, l) => l = todo'[p].arg
  <2>1. PICK P : P = p + 1
    OBVIOUS
  <2>2. /\ P \in DOMAIN todo /\ P # 1 /\ P \in Nat /\ 1 < P /\ todo'[p] = todo[P] /\ IsLoop(P)
        /\ Exit(P) = todo'[p].arg /\ EntryLabel(P) = todo'[p].arg2 /\ p \in Nat
    <3>1. P \in DOMAIN todo /\ P # 1 /\ P \in Nat /\ todo'[p] = todo[P] /\ p \in Nat
      BY <1>2, <2>1
    <3>2. 1 < P
      BY <1>1, <3>1
    <3> QED BY <1>3, <3>1, <3>2 DEF IsLoop, Exit, EntryLabel
  <2>3. /\ \A q \in DOMAIN todo, i \in DOMAIN code :
             q < P /\ todo[q].act \in Placing /\ todo[q].arg # Exit(P)
               /\ Follows(EntryLabel(P), i) => ~ Refers(i, todo[q].arg)
        /\ \A j \in DOMAIN code : EntryLabel(P) \in code[j].labels =>
             /\ ClosedBetween(j, Len(code))
             /\ \A f \in Names : F(f) \notin pending
             /\ \A i \in 1 .. j - 1 : \A l \in pending : Refers(i, l) => l = Exit(P)
    BY <2>2 DEF LoopClosed
  <2>4. ~ Opens(todo[1])
    BY <1>1, <2>2 DEF LoopShape
  <2>5. ASSUME NEW q \in DOMAIN todo', NEW i \in DOMAIN code, q < p,
               todo'[q].act \in Placing, todo'[q].arg # Exit(P), Passed(EntryLabel(P), i)
        PROVE  ~ Refers(i, todo'[q].arg)
    <3>1. PICK Q : Q = q + 1
      OBVIOUS
    <3>2. Q \in DOMAIN todo /\ Q < P /\ 1 < Q /\ todo'[q] = todo[Q]
      <4>1. Q \in DOMAIN todo /\ Q # 1 /\ todo'[q] = todo[Q] /\ q \in Nat
        BY <1>2, <3>1
      <4> QED BY <1>1, <2>1, <2>2, <2>5, <3>1, <4>1
    <3>3. CASE EntryLabel(P) = x
      <4>1. Places(1, EntryLabel(P))
        BY <1>1, <3>3 DEF Places, Placing
      <4>2. todo[Q].arg = Exit(P)
        BY <1>1, <2>2, <2>5, <3>2, <4>1 DEF LoopShape
      <4> QED BY <2>5, <3>2, <4>2
    <3>4. CASE EntryLabel(P) # x
      <4>1. Follows(EntryLabel(P), i)
        BY <1>1, <2>5, <3>4 DEF Follows
      <4> QED BY <2>3, <2>5, <3>2, <4>1
    <3> QED BY <3>3, <3>4
  <2>6. ASSUME NEW j \in DOMAIN code, EntryLabel(P) \in code[j].labels
        PROVE  /\ \A f \in Names : F(f) \notin pending'
               /\ \A i \in 1 .. j - 1 : \A l \in pending' : Refers(i, l) => l = Exit(P)
    <3>1. \A f \in Names : F(f) # x
      BY <1>1, <2>4 DEF Opens
    <3>2. ASSUME NEW i \in 1 .. j - 1, Refers(i, x)
          PROVE  x = Exit(P)
      <4>1. i \in DOMAIN code /\ i < j
        BY DEF IInv, TypeOK
      <4>2. Follows(EntryLabel(P), i)
        BY <2>6, <4>1 DEF Follows
      <4> QED BY <1>1, <2>2, <2>3, <3>2, <4>1, <4>2 DEF Placing
    <3> QED BY <1>1, <2>3, <2>6, <3>1, <3>2
  <2> QED BY <2>2, <2>3, <2>5, <2>6
<1>4. /\ \A j, i : ClosedBetween(j, i)' <=> ClosedBetween(j, i)
      /\ \A i, l : Refers(i, l)' <=> Refers(i, l)
      /\ \A i, l : Follows(l, i)' <=> Passed(l, i)
  BY <1>1 DEF ClosedBetween, Entry, JumpsTo, Refers, Follows
<1> HIDE DEF Passed
<1> QED BY <1>1, <1>3, <1>4 DEF LoopClosed, IsLoop, Exit, EntryLabel

(* The list of functions, and the label of one, come when no loop is open. *)
LEMMA FunctionNoLoop ==
  ASSUME IInv, LoopShape, Function
  PROVE  \A p \in DOMAIN todo' : todo'[p].act # "leave"
<1>1. /\ todo # <<>> /\ Head(todo).act = "funcs"
      /\ \/ todo' = <<>> \o Tail(todo)
         \/ \E f \in Names, k \in Nat :
              FunctionScript(f, k) \in Seq(Item) /\ todo' = FunctionScript(f, k) \o Tail(todo)
  BY FunctionUnfolds
<1>2. todo \in Seq(Item) /\ 1 \in DOMAIN todo /\ Opens(todo[1])
  BY <1>1, TopItem DEF Opens
<1>3. \A i \in DOMAIN todo : i # 1 => todo[i].act # "leave"
  <2> SUFFICES ASSUME NEW i \in DOMAIN todo, i # 1, IsLoop(i)
               PROVE  FALSE
    BY DEF IsLoop
  <2>1. 1 < i
    BY <1>2
  <2> QED BY <1>2, <2>1 DEF LoopShape
<1>4. CASE todo' = <<>> \o Tail(todo)
  <2> DEFINE s == <<>>
  <2>1. s \in Seq(Item) /\ DOMAIN s = {} /\ todo' = s \o Tail(todo)
    BY <1>4
  <2> HIDE DEF s
  <2> QED BY <1>1, <1>2, <1>3, <2>1, Behind
<1>5. ASSUME NEW f \in Names, NEW k \in Nat, FunctionScript(f, k) \in Seq(Item),
             todo' = FunctionScript(f, k) \o Tail(todo)
      PROVE  \A p \in DOMAIN todo' : todo'[p].act # "leave"
  <2> DEFINE s == FunctionScript(f, k)
  <2>1. \A i \in DOMAIN s : s[i].act # "leave"
    <3>1. \A i \in DOMAIN s : i \in {1, 2, 3, 4, 5}
      BY FunctionItems
    <3>2. /\ s[1].act = "target" /\ s[2].act = "params" /\ s[3].act = "stmts"
          /\ s[4].act = "emit" /\ s[5].act = "funcs"
      BY FunctionItems
    <3> QED BY <3>1, <3>2
  <2> HIDE DEF s
  <2>2. s \in Seq(Item) /\ todo' = s \o Tail(todo)
    BY <1>5 DEF s
  <2> QED BY <1>1, <1>2, <1>3, <2>1, <2>2, Behind, SMTT(30)
<1> QED BY <1>1, <1>4, <1>5

LEMMA LoopsFunction ==
  ASSUME IInv, LoopsInv, Function
  PROVE  LoopsInv'
<1>1. \A p \in DOMAIN todo' : todo'[p].act # "leave"
  BY FunctionNoLoop DEF LoopsInv
<1>2. LoopShape' /\ LoopClosed'
  BY <1>1 DEF LoopShape, LoopClosed, IsLoop
<1>3. SingleEntry'
  BY FunctionUnfolds, EntryKept DEF LoopsInv
<1>4. JumpsLead'
  <2>1. ASSUME NEW s \in Seq(Item), todo' = s \o Tail(todo),
               \A i \in DOMAIN s : s[i].act = "emit" => s[i].op = "ret"
        PROVE  JumpsLead'
    <3>1. Unfolds(s)
      BY <2>1, FunctionUnfolds DEF Unfolds
    <3> QED BY <2>1, <3>1, JumpsUnfolded DEF LoopsInv, IInv, TypeOK
  <2>2. CASE todo' = <<>> \o Tail(todo)
    <3> DEFINE s == <<>>
    <3>1. s \in Seq(Item) /\ DOMAIN s = {} /\ todo' = s \o Tail(todo)
      BY <2>2
    <3> HIDE DEF s
    <3> QED BY <2>1, <3>1
  <2>3. ASSUME NEW f \in Names, NEW k \in Nat, FunctionScript(f, k) \in Seq(Item),
               todo' = FunctionScript(f, k) \o Tail(todo)
        PROVE  JumpsLead'
    <3> DEFINE s == FunctionScript(f, k)
    <3>1. \A i \in DOMAIN s : s[i].act = "emit" => s[i].op = "ret"
      <4>1. \A i \in DOMAIN s : i \in {1, 2, 3, 4, 5}
        BY FunctionItems
      <4>2. /\ s[1].act = "target" /\ s[2].act = "params" /\ s[3].act = "stmts"
            /\ s[4].op = "ret" /\ s[5].act = "funcs"
        BY FunctionItems
      <4> QED BY <4>1, <4>2
    <3> HIDE DEF s
    <3>2. s \in Seq(Item) /\ todo' = s \o Tail(todo)
      BY <2>3 DEF s
    <3> QED BY <2>1, <3>1, <3>2
  <2> QED BY <2>2, <2>3, FunctionUnfolds
<1> QED BY <1>2, <1>3, <1>4 DEF LoopsInv

(* An instruction is generated: into a loop only from its entry, since a   *)
(* label that waits was not referred to from before, but that of the exit, *)
(* which is still to be placed; and a jump back leads to a loop it is in.  *)
LEMMA LoopsGenerate ==
  ASSUME IInv, LoopsInv, Generate
  PROVE  LoopsInv'
<1>n. PICK n : n = Len(code)
  OBVIOUS
<1>m. PICK m : m = n + 1
  OBVIOUS
<1> DEFINE new == [labels |-> pending, op |-> todo[1].op, arg |-> todo[1].arg]
<1>1. /\ todo \in Seq(Item) /\ todo # <<>> /\ Head(todo) = todo[1] /\ todo[1].act = "emit"
      /\ code' = Append(code, new) /\ pending' = {} /\ todo' = Tail(todo)
      /\ 1 \in DOMAIN todo
  BY TopItem DEF Generate, At, Finish
<1>2. code \in Seq(Instr) /\ n \in Nat /\ m \in Nat /\ m > n /\ DOMAIN code = 1 .. n
  BY <1>n, <1>m DEF IInv, TypeOK
<1>3. /\ Len(code') = m /\ code'[m] = new /\ DOMAIN code' = 1 .. m
      /\ \A i \in DOMAIN code : code'[i] = code[i] /\ i \in DOMAIN code'
      /\ \A i \in DOMAIN code' : i \in DOMAIN code \/ i = m
  BY <1>1, <1>2, <1>n, <1>m
<1>4. new.labels = pending /\ new.op = todo[1].op /\ new.arg = todo[1].arg
  OBVIOUS
<1> HIDE DEF new
<1>5. \A k \in DOMAIN todo' : k \in Nat /\ k + 1 \in DOMAIN todo /\ k + 1 # 1 /\ todo'[k] = todo[k + 1]
  BY <1>1, HeadDropped
<1>6. LoopShape /\ LoopClosed /\ JumpsLead /\ SingleEntry
  BY DEF LoopsInv
<1>7. ASSUME NEW j \in DOMAIN code, NEW i \in DOMAIN code, ClosedBetween(j, i)
      PROVE  ClosedBetween(j, i)'
  <2>1. ASSUME NEW k \in j + 1 .. i
        PROVE  k \in DOMAIN code /\ Entry(k)' = Entry(k)
               /\ \A h \in 1 .. j - 1 : JumpsTo(h, k)' <=> JumpsTo(h, k)
    <3>1. k \in DOMAIN code /\ \A h \in 1 .. j - 1 : h \in DOMAIN code
      BY <1>2
    <3> QED BY <1>3, <3>1 DEF Entry, JumpsTo
  <2> QED BY <1>7, <2>1 DEF ClosedBetween
<1>8. ASSUME NEW p \in DOMAIN todo, p # 1, IsLoop(p),
             NEW j \in DOMAIN code', EntryLabel(p) \in code'[j].labels
      PROVE  ClosedBetween(j, m)'
  <2>1. CASE j = m
    BY <1>2, <2>1 DEF ClosedBetween
  <2>2. CASE j \in DOMAIN code
    <3>1. /\ ClosedBetween(j, n)
          /\ \A f \in Names : F(f) \notin pending
          /\ \A i \in 1 .. j - 1 : \A l \in pending : Refers(i, l) => l = Exit(p)
      BY <1>3, <1>6, <1>8, <1>n, <2>2 DEF LoopClosed
    <3>2. Exit(p) \notin pending
      <4>1. p - 1 \in DOMAIN todo /\ todo[p - 1].act \in Placing /\ todo[p - 1].arg = Exit(p)
        BY <1>1, <1>6, <1>8 DEF LoopShape, Placing
      <4>2. Exit(p) \in GenLabel
        BY <1>8, OldLabels
      <4> QED BY <4>1, <4>2 DEF IInv, OwedNotDefined, Defined
    <3>3. Entry(m)' = {}
      BY <1>3, <1>4, <3>1 DEF Entry
    <3>4. ASSUME NEW h \in 1 .. j - 1
          PROVE  ~ JumpsTo(h, m)'
      <4>1. h \in DOMAIN code
        BY <1>2, <2>2
      <4>2. JumpsTo(h, m)' => Refers(h, code[h].arg) /\ code[h].arg \in pending
        BY <1>3, <1>4, <4>1 DEF JumpsTo, Refers
      <4> QED BY <3>1, <3>2, <4>2
    <3>5. ASSUME NEW k \in j + 1 .. m
          PROVE  Entry(k)' = {} /\ \A h \in 1 .. j - 1 : ~ JumpsTo(h, k)'
      <4>1. CASE k = m
        BY <3>3, <3>4, <4>1
      <4>2. CASE k # m
        <5>1. k \in j + 1 .. n /\ n \in DOMAIN code
          BY <1>2, <1>m, <2>2, <4>2
        <5>2. ClosedBetween(j, n)'
          BY <1>7, <2>2, <3>1, <5>1
        <5> QED BY <5>1, <5>2 DEF ClosedBetween
      <4> QED BY <4>1, <4>2
    <3> QED BY <3>5 DEF ClosedBetween
  <2> QED BY <1>3, <2>1, <2>2
<1>9. LoopShape'
  BY <1>1, <1>6, ShapeDropped
<1>10. JumpsLead'
  <2>1. ASSUME NEW i \in DOMAIN code', IsJump(code'[i])
        PROVE  code'[i].arg \in GenLabel \cup {MainLabel}
    <3>1. IsJump(new) => new.arg \in GenLabel \cup {MainLabel}
      BY <1>1, <1>4, <1>6 DEF JumpsLead, IsJump
    <3> QED BY <1>3, <1>6, <2>1, <3>1 DEF JumpsLead
  <2> QED BY <1>1, <1>6, <2>1, JumpsDropped DEF JumpsLead, Places, IsLoop, EntryLabel
<1>11. LoopClosed'
  <2>1. ASSUME NEW p \in DOMAIN todo', todo'[p].act = "leave"
        PROVE  /\ \A q \in DOMAIN todo', i \in DOMAIN code' :
                    q < p /\ todo'[q].act \in Placing /\ todo'[q].arg # todo'[p].arg
                      /\ (\E k \in DOMAIN code' : i < k /\ todo'[p].arg2 \in code'[k].labels)
                    => ~ (code'[i].op \in {"jmp", "jf", "jt"} /\ code'[i].arg = todo'[q].arg)
               /\ \A j \in DOMAIN code' : todo'[p].arg2 \in code'[j].labels =>
                    ClosedBetween(j, m)'
    <3>1. PICK P : P = p + 1
      OBVIOUS
    <3>2. /\ P \in DOMAIN todo /\ P # 1 /\ todo'[p] = todo[P] /\ IsLoop(P)
          /\ Exit(P) = todo'[p].arg /\ EntryLabel(P) = todo'[p].arg2 /\ p \in Nat
      BY <1>5, <2>1, <3>1 DEF IsLoop, Exit, EntryLabel
    <3>3. ASSUME NEW q \in DOMAIN todo', NEW i \in DOMAIN code', q < p,
                 todo'[q].act \in Placing, todo'[q].arg # Exit(P),
                 NEW k \in DOMAIN code', i < k, EntryLabel(P) \in code'[k].labels
          PROVE  ~ (code'[i].op \in {"jmp", "jf", "jt"} /\ code'[i].arg = todo'[q].arg)
      <4>1. PICK Q : Q = q + 1
        OBVIOUS
      <4>2. Q \in DOMAIN todo /\ Q < P /\ todo'[q] = todo[Q]
        <5>1. Q \in DOMAIN todo /\ todo'[q] = todo[Q] /\ q \in Nat
          BY <1>5, <4>1
        <5> QED BY <3>1, <3>2, <3>3, <4>1, <5>1
      <4>3. i \in DOMAIN code /\ Follows(EntryLabel(P), i)
        <5>1. i \in DOMAIN code
          BY <1>2, <1>3, <3>3
        <5> QED BY <1>3, <1>4, <3>3, <5>1 DEF Follows
      <4>4. ~ Refers(i, todo[Q].arg)
        BY <1>6, <3>2, <3>3, <4>2, <4>3 DEF LoopClosed
      <4> QED BY <1>3, <4>2, <4>3, <4>4 DEF Refers
    <3> QED BY <1>8, <3>2, <3>3
  <2>2. \A j : ClosedBetween(j, Len(code))' <=> ClosedBetween(j, m)'
    BY <1>3 DEF ClosedBetween
  <2>3. ASSUME NEW p \in DOMAIN todo', IsLoop(p)',
               NEW q \in DOMAIN todo', NEW i \in DOMAIN code', q < p,
               todo'[q].act \in Placing, todo'[q].arg # Exit(p)', Follows(EntryLabel(p), i)'
        PROVE  ~ Refers(i, todo[q].arg)'
    BY <1>1, <2>1, <2>3 DEF IsLoop, Exit, EntryLabel, Follows, Refers
  <2>4. ASSUME NEW p \in DOMAIN todo', IsLoop(p)',
               NEW j \in DOMAIN code', EntryLabel(p)' \in code'[j].labels
        PROVE  ClosedBetween(j, Len(code))'
    BY <2>1, <2>2, <2>4 DEF IsLoop, EntryLabel
  <2> QED BY <1>1, <2>3, <2>4 DEF LoopClosed
<1>12. SingleEntry'
  <2>1. ASSUME NEW i \in DOMAIN code', NEW j \in DOMAIN code', j <= i,
               JumpsTo(i, j)', code'[i].arg \in GenLabel
        PROVE  ClosedBetween(j, i)'
    <3>1. CASE i \in DOMAIN code
      <4>1. j \in DOMAIN code
        BY <1>2, <1>3, <2>1, <3>1
      <4>2. JumpsTo(i, j)
        BY <1>3, <2>1, <3>1, <4>1 DEF JumpsTo
      <4> QED BY <1>3, <1>6, <1>7, <2>1, <3>1, <4>1, <4>2 DEF SingleEntry
    <3>2. CASE i = m
      <4> DEFINE x == todo[1].arg
      <4>1. IsJump(todo[1]) /\ x \in GenLabel /\ x \in code'[j].labels /\ x # MainLabel
        <5>1. code'[i] = new
          BY <1>3, <3>2
        <5> QED BY <1>4, <2>1, <5>1, NotAFunction DEF JumpsTo, IsJump, MainLabel
      <4>2. CASE j = m
        BY <1>2, <3>2, <4>2 DEF ClosedBetween
      <4>3. CASE j \in DOMAIN code
        <5>1. PICK r \in DOMAIN todo : r > 1 /\ (Places(r, x) \/ (IsLoop(r) /\ EntryLabel(r) = x))
          BY <1>1, <1>6, <4>1 DEF JumpsLead
        <5>2. ~ Places(r, x)
          BY <1>3, <4>1, <4>3 DEF IInv, OwedNotDefined, Defined, Places
        <5> QED BY <1>8, <3>2, <4>1, <5>1, <5>2
      <4> QED BY <1>3, <4>2, <4>3
    <3> QED BY <1>3, <3>1, <3>2
  <2> QED BY <2>1 DEF SingleEntry
<1> QED BY <1>9, <1>10, <1>11, <1>12 DEF LoopsInv

LEMMA LoopsJumpTarget ==
  ASSUME IInv, LoopsInv, JumpTarget
  PROVE  LoopsInv'
<1>1. todo \in Seq(Item) /\ todo # <<>> /\ todo' = Tail(todo) /\ code' = code
  BY TopItem DEF JumpTarget, At, Finish
<1>2. LoopShape'
  BY <1>1, ShapeDropped DEF LoopsInv
<1>3. LoopClosed'
  BY ClosedJumpTarget DEF LoopsInv
<1>4. SingleEntry'
  BY <1>1, EntryKept DEF LoopsInv
<1>5. JumpsLead'
  <2>1. JumpsLead
    BY DEF LoopsInv
  <2>2. \A i \in DOMAIN code' : IsJump(code'[i]) => code'[i].arg \in GenLabel \cup {MainLabel}
    BY <1>1, <2>1 DEF JumpsLead
  <2> QED BY <1>1, <2>1, <2>2, JumpsDropped DEF JumpsLead, Places, IsLoop, EntryLabel
<1> QED BY <1>2, <1>3, <1>4, <1>5 DEF LoopsInv

LEMMA LoopsUnfolded ==
  ASSUME IInv, LoopsInv, NEW s \in Seq(Item), Regular(s)
  PROVE  LoopsInv'
<1>1. Unfolds(s) /\ Tame(s) /\ Woven(s) /\ todo \in Seq(Item)
  BY DEF Regular, IInv, TypeOK
<1>2. LoopShape'
  BY <1>1, ShapeUnfolded DEF LoopsInv
<1>3. LoopClosed'
  BY <1>1, ClosedUnfolded DEF LoopsInv
<1>4. SingleEntry'
  BY <1>1, EntryKept DEF LoopsInv, Unfolds
<1>5. JumpsLead'
  BY <1>1, JumpsUnfolded DEF LoopsInv, Woven
<1> QED BY <1>2, <1>3, <1>4, <1>5 DEF LoopsInv

LEMMA LoopsNext ==
  ASSUME IInv, FunctionsApart, LoopsInv, [Next]_vars
  PROVE  LoopsInv'
<1>1. UNCHANGED vars => LoopsInv'
  BY DEF vars, LoopsInv, LoopShape, LoopClosed, JumpsLead, SingleEntry, IsLoop, Exit,
         EntryLabel, Places, Refers, Follows, ClosedBetween, Entry, JumpsTo
<1>2. LoopShape
  BY DEF LoopsInv
<1> QED BY <1>1, <1>2, Steps, RegularSteps, LoopsGenerate, LoopsJumpTarget, LoopsFunction,
           LoopsUnfolded

----------------------------------------------------------------------------
(***************************************************************************)
(* The theorems about the flow of control and the strings.                 *)
(***************************************************************************)

LEMMA FlowInit ==
  ASSUME Init
  PROVE  FlowInv
<1> DEFINE t == <<Target(GlobalInit), Globals, Emit("jmp", MainLabel), Funcs(1), Strings>>
<1>1. todo = t /\ code = <<>> /\ pending = {} /\ strings = <<>>
  BY DEF Init
<1>2. /\ Len(t) = 5 /\ t[1] = Target(GlobalInit) /\ t[2] = Globals
      /\ t[3] = Emit("jmp", MainLabel) /\ t[4] = Funcs(1) /\ t[5] = Strings
      /\ DOMAIN t = {1, 2, 3, 4, 5} /\ t # <<>>
  OBVIOUS
<1>3. /\ t[1].act = "target" /\ t[1].arg = GlobalInit /\ t[2].act = "globals"
      /\ t[3].act = "emit" /\ t[3].op = "jmp" /\ t[3].arg = MainLabel
      /\ t[4].act = "funcs" /\ t[5].act = "strings"
  BY <1>2 DEF Target, Globals, Emit, Funcs, Strings, Do
<1> HIDE DEF t
<1>4. DOMAIN todo = {1, 2, 3, 4, 5} /\ todo = t /\ Len(todo) = 5 /\ DOMAIN code = {}
      /\ todo # <<>>
  BY <1>1, <1>2
<1>5. FunctionsApart
  <2>1. \A i \in DOMAIN todo : Opens(todo[i]) => i = 4
    BY <1>3, <1>4, NotAFunction DEF Opens
  <2>2. Ends(todo[3])
    BY <1>3, <1>4 DEF Ends
  <2> QED BY <1>1, <1>3, <1>4, <2>1, <2>2 DEF FunctionsApart
<1>6. StringsKept
  BY <1>3, <1>4 DEF StringsKept, Directives
<1>7. NoFallThrough
  BY <1>4 DEF NoFallThrough
<1>8. LoopsInv
  BY <1>3, <1>4 DEF LoopsInv, LoopShape, LoopClosed, JumpsLead, SingleEntry, IsLoop
<1> QED BY <1>5, <1>6, <1>7, <1>8 DEF FlowInv

(* The inductive invariants of this module hold in every reachable state.  *)
THEOREM FlowInvariance == Spec => []FlowInv
<1>1. Init => FlowInv
  BY FlowInit
<1>2. IInv /\ FlowInv /\ [Next]_vars => FlowInv'
  BY ApartNext, StringsNext, LoopsNext DEF FlowInv, LoopsInv
<1> QED BY <1>1, <1>2, Invariance, PTL DEF Spec

(* With the invariant of the labels, the whole that the model checker      *)
(* evaluates on small programs.                                            *)
THEOREM GeneratorInvariance == Spec => []GeneratorInv
<1>1. IInv /\ FlowInv => GeneratorInv
  BY DEF GeneratorInv
<1> QED BY <1>1, Invariance, FlowInvariance, PTL

(* Control never runs from one function, or from the initialisers, into    *)
(* the next: AST_FUNCTION ends with a ret, and AST_PROGRAM jumps to main   *)
(* before the first function.                                              *)
THEOREM FunctionsSeparate == Spec => []NoFallThrough
<1>1. FlowInv => NoFallThrough
  BY DEF FlowInv
<1> QED BY <1>1, FlowInvariance, PTL

(* Every string the code pushes, and every string of the table, has        *)
(* exactly one directive in the complete program: the hash_table_iterate   *)
(* of AST_PROGRAM comes after all the code.                                *)
THEOREM StringTableWritten == Spec => []StringsComplete
<1>1. ASSUME IInv, FlowInv, Done
      PROVE  /\ \A i \in DOMAIN code : code[i].op = "pushs" =>
                  \E d \in Directives : code[d].arg = code[i].arg
             /\ \A i \in DOMAIN strings : \E d \in Directives :
                  /\ code[d].arg = Str(i - 1)
                  /\ \A e \in Directives : code[e].arg = Str(i - 1) => e = d
  <2>1. /\ \A i \in DOMAIN code : code[i].op = "pushs" => code[i].arg \in StringArgs
        /\ \A d, e \in Directives : code[d].arg = code[e].arg => d = e
        /\ StringArgs \subseteq Directed
    BY <1>1 DEF FlowInv, StringsKept, Done
  <2>2. \A a \in StringArgs : \E d \in Directives : code[d].arg = a
    BY <2>1 DEF Directed
  <2>3. \A i \in DOMAIN strings : Str(i - 1) \in StringArgs
    BY DEF StringArgs
  <2> QED BY <2>1, <2>2, <2>3
<1>2. IInv /\ FlowInv => StringsComplete
  BY <1>1 DEF StringsComplete
<1> QED BY <1>2, Invariance, FlowInvariance, PTL

(* A jump backward leads to the entry of a loop that control enters only   *)
(* there, whatever while, for, foreach and do are nested in: no function   *)
(* begins in the loop, and no jump from before it leads behind its entry.  *)
THEOREM LoopsEnteredOnce == Spec => []SingleEntry
<1>1. FlowInv => SingleEntry
  BY DEF FlowInv, LoopsInv
<1> QED BY <1>1, FlowInvariance, PTL

----------------------------------------------------------------------------
(***************************************************************************)
(* The depth of the operand stack.                                         *)
(***************************************************************************)

(* The code of todo is that of its first item before the rest.             *)
LEMMA RunsSplit ==
  ASSUME NEW S, NEW s \in Seq(S), s # <<>>, NEW a \in Nat, NEW b \in Nat, Runs(s, a, b)
  PROVE  \E c \in Nat : Moves(Head(s), a, c) /\ Runs(Tail(s), c, b)
<1>1. PICK n : n = Len(s)
  OBVIOUS
<1>2. n \in Nat /\ n >= 1 /\ Head(s) = s[1] /\ Tail(s) \in Seq(S) /\ Len(Tail(s)) = n - 1
      /\ \A i \in 1 .. n - 1 : Tail(s)[i] = s[i + 1]
  BY ONLY <1>1, s \in Seq(S), s # <<>>
<1>3. PICK g \in [1 .. n + 1 -> Nat] :
        /\ g[1] = a /\ g[n + 1] = b
        /\ \A i \in 1 .. n : Moves(s[i], g[i], g[i + 1])
  BY <1>1 DEF Runs
<1> DEFINE h == [i \in 1 .. n |-> g[i + 1]]
<1>4. h \in [1 .. n -> Nat] /\ h[1] = g[2] /\ h[n] = b /\ g[2] \in Nat
      /\ \A i \in 1 .. n - 1 : h[i] = g[i + 1] /\ h[i + 1] = g[i + 1 + 1]
  BY <1>2, <1>3
<1>5. Moves(Head(s), a, g[2])
  BY <1>2, <1>3
<1>6. \A i \in 1 .. n - 1 : Moves(Tail(s)[i], h[i], h[i + 1])
  BY <1>2, <1>3, <1>4
<1> HIDE DEF h
<1>7. Len(Tail(s)) + 1 = n
  BY <1>2
<1>8. Runs(Tail(s), g[2], b)
  BY <1>2, <1>4, <1>6, <1>7 DEF Runs
<1> QED BY <1>4, <1>5, <1>8

(* Only the opcode and the operand of an instruction matter.               *)
LEMMA EffectSame ==
  ASSUME NEW x, NEW y, x.op = y.op, x.arg = y.arg, NEW a, NEW b
  PROVE  Effect(x, a, b) <=> Effect(y, a, b)
<1>1. Popped(x) = Popped(y) /\ Pushed(x) = Pushed(y)
  BY DEF Popped, Pushed
<1> QED BY <1>1 DEF Effect

(* The code in front of what a handler has still to do.                    *)
Reached(v) ==
  LET n == Len(code)
  IN  /\ v \in [1 .. n + 1 -> Nat]
      /\ v[1] = 0
      /\ \A i \in 1 .. n :
           /\ \E b \in Nat : Effect(code[i], v[i], b) /\ (FallsThrough(code[i]) => v[i + 1] = b)
           /\ \A l \in code[i].labels : v[i] = LabelDepth(l)
      /\ \A l \in pending : v[n + 1] = LabelDepth(l)

LEMMA DepthsParts ==
  ASSUME IInv
  PROVE  /\ Len(code) \in Nat
         /\ \A v : Depths(v) <=> Reached(v) /\ \E b \in Nat : Runs(todo, v[Len(code) + 1], b)
         /\ \A v : Reached(v) => v[Len(code) + 1] \in Nat
<1>1. Len(code) \in Nat
  BY DEF IInv, TypeOK
<1> QED BY <1>1 DEF Depths, Reached

(* A handler gives way to a script that moves the depth as it promised.    *)
LEMMA StackUnfolded ==
  ASSUME IInv, StackKept, NEW s \in Seq(Item), Unfolds(s),
         \A a, b \in Nat : Moves(Head(todo), a, b) => Runs(s, a, b)
  PROVE  StackKept'
<1>1. PICK v : Depths(v)
  BY DEF StackKept
<1> DEFINE a == v[Len(code) + 1]
<1>2. Reached(v) /\ a \in Nat
  BY <1>1, DepthsParts
<1>3. PICK b \in Nat : Runs(todo, a, b)
  BY <1>1, DepthsParts
<1>4. todo \in Seq(Item) /\ todo # <<>> /\ Tail(todo) \in Seq(Item)
      /\ todo' = s \o Tail(todo) /\ code' = code /\ pending' = pending
  BY DEF Unfolds, IInv, TypeOK
<1> HIDE DEF a
<1>5. PICK c \in Nat : Moves(Head(todo), a, c) /\ Runs(Tail(todo), c, b)
  BY <1>2, <1>3, <1>4, RunsSplit
<1>6. Runs(s, a, c)
  BY <1>2, <1>5
<1>7. Runs(s \o Tail(todo), a, b)
  BY <1>2, <1>4, <1>5, <1>6, RunsJoined
<1>8. Depths(v)'
  BY <1>2, <1>3, <1>4, <1>7 DEF Depths, Reached, a
<1> QED BY <1>8 DEF StackKept

(* A function takes its arguments from the stack and leaves it empty.      *)
LEMMA StackFunction ==
  ASSUME IInv, StackKept, Function
  PROVE  StackKept'
<1>1. /\ todo # <<>> /\ Head(todo).act = "funcs"
      /\ UNCHANGED <<code, pending, functions>>
      /\ \/ todo' = <<>> \o Tail(todo)
         \/ \E f \in Names, k \in Nat :
              FunctionScript(f, k) \in Seq(Item) /\ todo' = FunctionScript(f, k) \o Tail(todo)
  BY FunctionUnfolds
<1>2. \A a, b \in Nat : Moves(Head(todo), a, b) => a = 0 /\ b = 0
  BY <1>1 DEF Moves
<1>3. ASSUME NEW s \in Seq(Item), todo' = s \o Tail(todo), Runs(s, 0, 0)
      PROVE  StackKept'
  <2>1. Unfolds(s)
    BY <1>1, <1>3 DEF Unfolds
  <2> QED BY <1>2, <1>3, <2>1, StackUnfolded
<1>4. CASE todo' = <<>> \o Tail(todo)
  <2> DEFINE s == <<>>
  <2>1. s \in Seq(Item) /\ todo' = s \o Tail(todo) /\ Runs(s, 0, 0)
    BY <1>4, RunsNone
  <2> HIDE DEF s
  <2> QED BY <1>3, <2>1
<1>5. ASSUME NEW f \in Names, NEW k \in Nat, FunctionScript(f, k) \in Seq(Item),
             todo' = FunctionScript(f, k) \o Tail(todo)
      PROVE  StackKept'
  <2> DEFINE label == Target(F(f))
             takes == Params(Arity[f])
             ret   == Emit0("ret")
             rest  == Funcs(k)
  <2>1. /\ Moves(label, 0, Arity[f]) /\ Moves(takes, Arity[f], 0) /\ Moves(Stmts, 0, 0)
        /\ Moves(ret, 0, 0) /\ Moves(rest, 0, 0) /\ Arity[f] \in Nat
    BY LabelMoves, ItemMoves, OtherMoves DEF Emit0
  <2>2. label \in Item /\ takes \in Item /\ Stmts \in Item /\ ret \in Item /\ rest \in Item
    BY <1>5, ItemTypes, ArgTypes, FunctionsAssumption DEF Opcode
  <2>3. FunctionScript(f, k) = <<label, takes, Stmts, ret, rest>>
    BY DEF FunctionScript
  <2> HIDE DEF label, takes, ret, rest
  <2> DEFINE s == <<label, takes>>
             t == <<Stmts, ret, rest>>
  <2>4. s \in Seq(Item) /\ t \in Seq(Item)
    BY ONLY <2>2
  <2>5. s \o t = FunctionScript(f, k)
    BY <2>2, <2>3, TwoBeforeThree
  <2>6. Runs(s, 0, 0) /\ Runs(t, 0, 0)
    BY <2>1, <2>2, RunsLists
  <2> HIDE DEF s, t
  <2>7. Runs(s \o t, 0, 0)
    BY <2>4, <2>6, RunsJoined
  <2> QED BY <1>3, <1>5, <2>5, <2>7
<1> QED BY <1>1, <1>4, <1>5

(* A label is placed at its depth: a generated one where the stack is      *)
(* empty, that of a function where nothing falls into it.                  *)
LEMMA StackJumpTarget ==
  ASSUME IInv, FunctionsApart, StackKept, JumpTarget
  PROVE  StackKept'
<1> DEFINE x == todo[1].arg
<1>1. /\ todo \in Seq(Item) /\ todo # <<>> /\ Head(todo) = todo[1] /\ todo[1].act = "target"
      /\ code' = code /\ pending' = pending \cup {x} /\ todo' = Tail(todo)
      /\ 1 \in DOMAIN todo
  BY TopItem DEF JumpTarget, At, Finish
<1>2. PICK v : Depths(v)
  BY DEF StackKept
<1>3. PICK n : n = Len(code)
  OBVIOUS
<1>4. n \in Nat /\ Reached(v) /\ v[n + 1] \in Nat /\ \E b \in Nat : Runs(todo, v[n + 1], b)
  BY <1>2, <1>3, DepthsParts
<1>5. PICK b \in Nat : Runs(todo, v[n + 1], b)
  BY <1>4
<1>6. PICK c \in Nat : Moves(todo[1], v[n + 1], c) /\ Runs(todo', c, b)
  BY <1>1, <1>4, <1>5, RunsSplit
<1>7. v[n + 1] = 0 /\ c = LabelDepth(x)
  BY <1>1, <1>6 DEF Moves
<1>8. CASE c = 0
  <2>1. /\ \A l \in pending' : v[n + 1] = LabelDepth(l)
        /\ \E d \in Nat : Runs(todo', v[n + 1], d)
    BY <1>1, <1>3, <1>4, <1>6, <1>7, <1>8 DEF Reached
  <2>2. Depths(v)'
    BY <1>1, <1>3, <1>4, <2>1 DEF Depths, Reached
  <2> QED BY <2>2 DEF StackKept
<1>9. CASE c # 0
  <2>1. x \in Label
    BY <1>1 DEF IInv, WellFormed, Placing
  <2>2. \E f \in Names : x = F(f)
    BY <1>7, <1>9, <2>1 DEF LabelDepth, Label, GenLabel, GlobalInit, F
  <2>3. Opens(todo[1])
    BY <1>1, <2>2 DEF Opens
  <2>4. pending = {} /\ n > 0 /\ code[n].op \in {"ret", "jmp"}
    BY <1>1, <1>3, <2>3 DEF FunctionsApart, JustEnded
  <2> DEFINE w == [i \in 1 .. n + 1 |-> IF i = n + 1 THEN c ELSE v[i]]
  <2>5. /\ w \in [1 .. n + 1 -> Nat] /\ w[1] = v[1] /\ w[n + 1] = c
        /\ \A i \in 1 .. n : w[i] = v[i]
        /\ \A i \in 1 .. n : i # n => w[i + 1] = v[i + 1]
    BY <1>3, <1>4, <2>4 DEF Reached
  <2> HIDE DEF w
  <2>6. ASSUME NEW i \in 1 .. n
        PROVE  /\ \E d \in Nat : Effect(code[i], w[i], d) /\ (FallsThrough(code[i]) => w[i + 1] = d)
               /\ \A l \in code[i].labels : w[i] = LabelDepth(l)
    <3>1. /\ \E d \in Nat : Effect(code[i], v[i], d) /\ (FallsThrough(code[i]) => v[i + 1] = d)
          /\ \A l \in code[i].labels : v[i] = LabelDepth(l)
      BY <1>3, <1>4 DEF Reached
    <3>2. CASE i = n
      BY <2>4, <2>5, <3>1, <3>2 DEF FallsThrough
    <3>3. CASE i # n
      BY <2>5, <3>1, <3>3
    <3> QED BY <3>2, <3>3
  <2>7. w[1] = 0 /\ \A l \in pending' : w[n + 1] = LabelDepth(l)
    BY <1>1, <1>4, <1>7, <2>4, <2>5 DEF Reached
  <2>8. Depths(w)'
    BY <1>1, <1>3, <1>6, <2>5, <2>6, <2>7 DEF Depths
  <2> QED BY <2>8 DEF StackKept
<1> QED BY <1>8, <1>9

(* An instruction is generated at the depth the handlers reckon with.      *)
LEMMA StackGenerate ==
  ASSUME IInv, StackKept, Generate
  PROVE  StackKept'
<1> DEFINE new == [labels |-> pending, op |-> todo[1].op, arg |-> todo[1].arg]
<1>1. /\ todo \in Seq(Item) /\ todo # <<>> /\ Head(todo) = todo[1] /\ todo[1].act = "emit"
      /\ code' = Append(code, new) /\ pending' = {} /\ todo' = Tail(todo)
      /\ 1 \in DOMAIN todo
  BY TopItem DEF Generate, At, Finish
<1>2. PICK v : Depths(v)
  BY DEF StackKept
<1>3. PICK n : n = Len(code)
  OBVIOUS
<1>m. PICK m : m = n + 1
  OBVIOUS
<1>4. /\ n \in Nat /\ m \in Nat /\ m > n /\ m >= 1
      /\ Reached(v) /\ v[m] \in Nat /\ \E b \in Nat : Runs(todo, v[m], b)
  BY <1>2, <1>3, <1>m, DepthsParts
<1>5. PICK b \in Nat : Runs(todo, v[m], b)
  BY <1>4
<1>6. PICK c \in Nat : Moves(todo[1], v[m], c) /\ Runs(todo', c, b)
  BY <1>1, <1>4, <1>5, RunsSplit
<1>7. code \in Seq(Instr)
  BY DEF IInv, TypeOK
<1>8. /\ Len(code') = m /\ code'[m] = new
      /\ \A i \in 1 .. n : code'[i] = code[i]
  BY <1>1, <1>3, <1>7, <1>m
<1>9. new.labels = pending /\ new.op = todo[1].op /\ new.arg = todo[1].arg
  OBVIOUS
<1> HIDE DEF new
<1>10. Effect(new, v[m], c)
  BY <1>1, <1>6, <1>9, EffectSame DEF Moves
<1> DEFINE w == [i \in 1 .. m + 1 |-> IF i = m + 1 THEN c ELSE v[i]]
<1>11. /\ w \in [1 .. m + 1 -> Nat] /\ w[1] = v[1] /\ w[m] = v[m] /\ w[m + 1] = c
       /\ \A i \in 1 .. n : w[i] = v[i] /\ w[i + 1] = v[i + 1]
  BY <1>3, <1>4, <1>m DEF Reached
<1> HIDE DEF w
<1>12. ASSUME NEW i \in 1 .. m
       PROVE  /\ \E d \in Nat : Effect(code'[i], w[i], d) /\ (FallsThrough(code'[i]) => w[i + 1] = d)
              /\ \A l \in code'[i].labels : w[i] = LabelDepth(l)
  <2>1. CASE i = m
    BY <1>3, <1>4, <1>6, <1>8, <1>9, <1>10, <1>11, <1>m, <2>1 DEF Reached
  <2>2. CASE i # m
    <3>1. i \in 1 .. n
      BY <1>4, <1>m, <2>2
    <3>2. /\ \E d \in Nat : Effect(code[i], v[i], d) /\ (FallsThrough(code[i]) => v[i + 1] = d)
          /\ \A l \in code[i].labels : v[i] = LabelDepth(l)
      BY <1>3, <1>4, <3>1 DEF Reached
    <3> QED BY <1>8, <1>11, <3>1, <3>2
  <2> QED BY <2>1, <2>2
<1>13. w[1] = 0
  BY <1>4, <1>11 DEF Reached
<1>14. Depths(w)'
  BY <1>1, <1>6, <1>8, <1>11, <1>12, <1>13 DEF Depths
<1> QED BY <1>14 DEF StackKept

LEMMA StackInit ==
  ASSUME Init
  PROVE  StackKept
<1> DEFINE entry == Target(GlobalInit)
           jump  == Emit("jmp", MainLabel)
           v     == [i \in 1 .. 1 |-> 0]
<1>1. /\ Moves(entry, 0, 0) /\ Moves(Globals, 0, 0) /\ Moves(jump, 0, 0)
      /\ Moves(Funcs(1), 0, 0) /\ Moves(Strings, 0, 0)
  <2>1. Moves(entry, 0, 0)
    BY DEF Moves, Target, Do, LabelDepth, GlobalInit
  <2> QED BY <2>1, ItemMoves, LabelMoves, OtherMoves
<1>2. /\ entry \in Item /\ Globals \in Item /\ jump \in Item /\ Funcs(1) \in Item
      /\ Strings \in Item
  BY ItemTypes, ArgTypes DEF Opcode, GlobalInit
<1>3. todo = <<entry, Globals, jump, Funcs(1), Strings>> /\ Len(code) = 0 /\ pending = {}
  BY DEF Init
<1> HIDE DEF entry, jump
<1> DEFINE s == <<entry, Globals>>
           t == <<jump, Funcs(1), Strings>>
<1>4. s \in Seq(Item) /\ t \in Seq(Item)
  BY ONLY <1>2
<1>5. s \o t = todo
  BY <1>2, <1>3, TwoBeforeThree
<1>6. Runs(s, 0, 0) /\ Runs(t, 0, 0)
  BY <1>1, <1>2, RunsLists
<1> HIDE DEF s, t
<1>7. Runs(todo, 0, 0)
  BY <1>4, <1>5, <1>6, RunsJoined
<1>8. v \in [1 .. 0 + 1 -> Nat] /\ v[1] = 0 /\ v[0 + 1] = 0
  OBVIOUS
<1> HIDE DEF v
<1>9. Depths(v)
  BY <1>3, <1>7, <1>8 DEF Depths
<1> QED BY <1>9 DEF StackKept

LEMMA StackNext ==
  ASSUME BalancedForms, IInv, FunctionsApart, LoopShape, StackKept, [Next]_vars
  PROVE  StackKept'
<1>1. ASSUME NEW s \in Seq(Item), Regular(s)
      PROVE  StackKept'
  BY <1>1, StackUnfolded DEF Regular, Balances
<1>2. UNCHANGED vars => StackKept'
  BY DEF vars, StackKept, Depths
<1> QED BY <1>1, <1>2, Steps, RegularSteps, StackGenerate, StackJumpTarget, StackFunction

(* The recursive function of Depth exists, so Depth is the sequence of the *)
(* depths it says it is.                                                   *)
LEMMA FirstDepths ==
  ASSUME NEW N \in Nat
  PROVE  \E f : f = [n \in 0 .. N |->
                       IF n = 0 THEN <<>> ELSE Append(f[n - 1], NextDepth(f[n - 1]))]
<1> DEFINE T == {k \in Nat : \E f : f = [n \in 0 .. k |->
                   IF n = 0 THEN <<>> ELSE Append(f[n - 1], NextDepth(f[n - 1]))]}
<1>1. 0 \in T
  <2> DEFINE f == [n \in 0 .. 0 |-> <<>>]
  <2>1. f = [n \in 0 .. 0 |-> IF n = 0 THEN <<>> ELSE Append(f[n - 1], NextDepth(f[n - 1]))]
    OBVIOUS
  <2> QED BY <2>1
<1>2. ASSUME NEW k \in Nat, k \in T
      PROVE  k + 1 \in T
  <2>1. PICK f : f = [n \in 0 .. k |->
                   IF n = 0 THEN <<>> ELSE Append(f[n - 1], NextDepth(f[n - 1]))]
    BY <1>2
  <2>2. PICK m : m = k + 1
    OBVIOUS
  <2> DEFINE g == [n \in 0 .. m |-> IF n = m THEN Append(f[k], NextDepth(f[k])) ELSE f[n]]
             e(n) == IF n = 0 THEN <<>> ELSE Append(g[n - 1], NextDepth(g[n - 1]))
  <2>3. ASSUME NEW n \in 0 .. m
        PROVE  g[n] = e(n)
    <3>1. CASE n = m
      <4>1. n # 0 /\ n - 1 = k /\ g[k] = f[k]
        BY <2>2, <3>1
      <4> QED BY <3>1, <4>1
    <3>2. CASE n # m /\ n = 0
      <4>1. n \in 0 .. k
        BY <2>2, <3>2
      <4>2. f[n] = <<>>
        BY <2>1, <3>2, <4>1
      <4> QED BY <3>2, <4>2
    <3>3. CASE n # m /\ n # 0
      <4>1. n \in 0 .. k /\ n - 1 \in 0 .. m /\ n - 1 # m
        BY <2>2, <3>3
      <4>2. f[n] = Append(f[n - 1], NextDepth(f[n - 1])) /\ g[n - 1] = f[n - 1]
        BY <2>1, <3>3, <4>1
      <4> QED BY <3>3, <4>2
    <3> QED BY <3>1, <3>2, <3>3
  <2>4. g = [n \in 0 .. m |-> e(n)]
    <3>1. g = [n \in 0 .. m |-> g[n]]
      OBVIOUS
    <3> HIDE DEF g, e
    <3> QED BY <2>3, <3>1
  <2> HIDE DEF g
  <2>5. \E f1 : f1 = [n \in 0 .. m |->
                   IF n = 0 THEN <<>> ELSE Append(f1[n - 1], NextDepth(f1[n - 1]))]
    BY <2>4, Zenon
  <2>6. m \in Nat
    BY <2>2
  <2>7. m \in T
    BY <2>5, <2>6, Zenon
  <2> HIDE DEF T
  <2> QED BY <2>2, <2>7
<1>3. N \in T
  <2> HIDE DEF T
  <2> QED BY <1>1, <1>2, NatInd
<1> QED BY <1>3

LEMMA DepthUnfolds ==
  ASSUME Len(code) \in Nat
  PROVE  \E f : /\ f = [n \in 0 .. Len(code) |->
                          IF n = 0 THEN <<>> ELSE Append(f[n - 1], NextDepth(f[n - 1]))]
                /\ Depth = f[Len(code)]
BY FirstDepths DEF Depth

(* An instruction that is executed at depth a has what it pops, and leaves *)
(* what it pushes.                                                         *)
LEMMA EffectAfter ==
  ASSUME NEW ins, NEW a \in Nat, NEW b \in Nat, Effect(ins, a, b)
  PROVE  /\ Popped(ins) \in Nat /\ Pushed(ins) \in Nat /\ a - Popped(ins) >= 0
         /\ ins.op # "ret" => b = a - Popped(ins) + Pushed(ins)
         /\ ins.op = "ret" => a \in {0, 1}
<1>1. CASE ins.op = "call"
  <2>1. ins.arg[2] \in Names /\ a >= Popped(ins) /\ b = a - Popped(ins) + Pushed(ins)
    BY <1>1 DEF Effect
  <2>2. Popped(ins) = Arity[ins.arg[2]] /\ Pushed(ins) \in {0, 1}
    BY <1>1, OperatorsAssumption DEF Popped, Pushed
  <2>3. Popped(ins) \in Nat
    BY <2>1, <2>2, FunctionsAssumption
  <2> QED BY <1>1, <2>1, <2>2, <2>3
<1>2. CASE ins.op \in {"ret", "jmp"}
  <2>1. Popped(ins) = 0 /\ Pushed(ins) = 0
    BY <1>2, OperatorsAssumption DEF Popped, Pushed
  <2>2. CASE ins.op = "ret"
    BY <2>1, <2>2 DEF Effect
  <2>3. CASE ins.op = "jmp"
    BY <2>1, <2>3 DEF Effect
  <2> QED BY <1>2, <2>2, <2>3
<1>3. CASE ins.op \in {"jf", "jt"}
  <2>1. Popped(ins) = 1 /\ Pushed(ins) = 0
    BY <1>3, OperatorsAssumption DEF Popped, Pushed
  <2> QED BY <1>3, <2>1 DEF Effect
<1>4. CASE ins.op \notin {"ret", "jmp", "jf", "jt", "call"}
  <2>1. Popped(ins) \in {0, 1, 2, 3}
    BY <1>4 DEF Popped
  <2>2. Pushed(ins) \in {0, 1, 2}
    BY <1>4 DEF Pushed
  <2>3. a >= Popped(ins) /\ b = a - Popped(ins) + Pushed(ins)
    BY <1>4 DEF Effect
  <2> QED BY <1>4, <2>1, <2>2, <2>3
<1> QED BY <1>1, <1>2, <1>3, <1>4

(* Along an edge of the code that does not enter a function, the depth is  *)
(* what the instruction leaves.                                            *)
Edge(i, j) ==
  \/ JumpsTo(i, j) /\ Entry(j) = {}
  \/ FallsThrough(code[i]) /\ j = i + 1

LEMMA EdgeDepth ==
  ASSUME IInv, JumpsLead, NEW v, Reached(v), NEW i \in DOMAIN code, NEW j \in DOMAIN code,
         Edge(i, j)
  PROVE  v[j] = v[i] - Popped(code[i]) + Pushed(code[i])
<1>1. PICK n : n = Len(code)
  OBVIOUS
<1>2. n \in Nat /\ DOMAIN code = 1 .. n
  BY <1>1 DEF IInv, TypeOK
<1>3. /\ v \in [1 .. n + 1 -> Nat]
      /\ \E b \in Nat : Effect(code[i], v[i], b) /\ (FallsThrough(code[i]) => v[i + 1] = b)
      /\ \A l \in code[j].labels : v[j] = LabelDepth(l)
  BY <1>1, <1>2 DEF Reached
<1>4. PICK b \in Nat : Effect(code[i], v[i], b) /\ (FallsThrough(code[i]) => v[i + 1] = b)
  BY <1>3
<1>5. v[i] \in Nat /\ v[j] \in Nat
  BY <1>2, <1>3
<1>6. code[i].op # "ret" => b = v[i] - Popped(code[i]) + Pushed(code[i])
  BY <1>4, <1>5, EffectAfter
<1>7. CASE FallsThrough(code[i]) /\ j = i + 1
  BY <1>4, <1>6, <1>7 DEF FallsThrough
<1>8. CASE JumpsTo(i, j) /\ Entry(j) = {}
  <2>1. code[i].op \in {"jmp", "jf", "jt"} /\ code[i].arg \in code[j].labels
    BY <1>8 DEF JumpsTo
  <2>2. code[i].arg \in GenLabel
    <3>1. code[i].arg \in GenLabel \cup {MainLabel}
      BY <2>1 DEF JumpsLead, IsJump
    <3>2. code[i].arg # MainLabel
      BY <1>8, <2>1, NamesAssumption DEF Entry, MainLabel
    <3> QED BY <3>1, <3>2
  <2>3. v[j] = 0
    BY <1>3, <2>1, <2>2, LabelMoves
  <2>4. b = 0
    BY <1>4, <2>1 DEF Effect
  <2> QED BY <1>6, <2>1, <2>3, <2>4
<1> QED BY <1>7, <1>8 DEF Edge

(* Depth gives an instruction a depth when a path through the code before  *)
(* it leads there, and then it is the one the handlers reckoned with.      *)
Comes(d, i) ==
  \/ Entry(i) # {}
  \/ i = 1
  \/ \E j \in 1 .. i - 1 :
       d[j] # Dead /\ (JumpsTo(j, i) \/ (j = i - 1 /\ FallsThrough(code[j])))

Recovers(d, v) ==
  /\ d \in Seq(Int)
  /\ \A i \in 1 .. Len(d) : d[i] = IF Comes(d, i) THEN v[i] ELSE Dead

LEMMA NextRecovers ==
  ASSUME IInv, JumpsLead, NEW v, Reached(v), NEW d, Recovers(d, v), Len(d) < Len(code)
  PROVE  NextDepth(d) = IF Comes(d, Len(d) + 1) THEN v[Len(d) + 1] ELSE Dead
<1>1. PICK i : i = Len(d) + 1
  OBVIOUS
<1>2. PICK n : n = Len(code)
  OBVIOUS
<1>3. /\ n \in Nat /\ DOMAIN code = 1 .. n /\ Len(d) \in Nat /\ d \in Seq(Int)
      /\ v \in [1 .. n + 1 -> Nat] /\ v[1] = 0
  BY <1>2 DEF IInv, TypeOK, Recovers, Reached
<1>4. i \in DOMAIN code /\ i \in Nat /\ i >= 1 /\ Len(d) = i - 1
  BY <1>1, <1>2, <1>3
<1> DEFINE froms == {j \in 1 .. i - 1 :
                       /\ d[j] # Dead
                       /\ JumpsTo(j, i) \/ (j = i - 1 /\ FallsThrough(code[j]))}
<1>5. NextDepth(d) =
        CASE Entry(i) # {} -> Arity[CHOOSE g \in Entry(i) : TRUE]
          [] Entry(i) = {} /\ i = 1 -> 0
          [] Entry(i) = {} /\ i > 1 /\ froms = {} -> Dead
          [] OTHER -> d[CHOOSE k \in froms : TRUE] - Popped(code[CHOOSE k \in froms : TRUE])
                        + Pushed(code[CHOOSE k \in froms : TRUE])
  BY <1>1 DEF NextDepth
<1>6. Comes(d, i) <=> Entry(i) # {} \/ i = 1 \/ froms # {}
  BY DEF Comes
<1>7. \A j \in froms : j \in DOMAIN code /\ d[j] = v[j]
  <2> SUFFICES ASSUME NEW j \in froms
               PROVE  j \in DOMAIN code /\ d[j] = v[j]
    OBVIOUS
  <2>1. j \in 1 .. i - 1 /\ d[j] # Dead
    OBVIOUS
  <2>2. j \in DOMAIN code /\ j \in 1 .. Len(d)
    BY <1>3, <1>4, <2>1
  <2> QED BY <2>1, <2>2 DEF Recovers
<1>8. \A j \in froms : Entry(i) = {} => Edge(j, i)
  <2> SUFFICES ASSUME NEW j \in froms, Entry(i) = {}
               PROVE  Edge(j, i)
    OBVIOUS
  <2>1. JumpsTo(j, i) \/ (j = i - 1 /\ FallsThrough(code[j]))
    OBVIOUS
  <2>2. j = i - 1 => i = j + 1
    BY <1>4
  <2> QED BY <2>1, <2>2 DEF Edge
<1> HIDE DEF froms
<1>9. CASE Entry(i) # {}
  <2>1. PICK f : f = CHOOSE g \in Entry(i) : TRUE
    OBVIOUS
  <2>2. f \in Entry(i)
    BY <1>9, <2>1
  <2>3. f \in Names /\ F(f) \in code[i].labels
    BY <2>2 DEF Entry
  <2>4. v[i] = Arity[f]
    BY <1>2, <1>3, <1>4, <2>3, LabelMoves DEF Reached
  <2>5. NextDepth(d) = Arity[f]
    BY <1>5, <1>9, <2>1
  <2> QED BY <1>1, <1>6, <1>9, <2>4, <2>5
<1>10. CASE Entry(i) = {} /\ i = 1
  BY <1>1, <1>3, <1>5, <1>6, <1>10
<1>11. CASE Entry(i) = {} /\ i # 1 /\ froms = {}
  <2>1. i > 1
    BY <1>4, <1>11
  <2> QED BY <1>1, <1>5, <1>6, <1>11, <2>1
<1>12. CASE Entry(i) = {} /\ i # 1 /\ froms # {}
  <2>1. PICK j : j = CHOOSE k \in froms : TRUE
    OBVIOUS
  <2>2. j \in froms
    BY <1>12, <2>1
  <2>3. NextDepth(d) = d[j] - Popped(code[j]) + Pushed(code[j])
    BY <1>5, <1>12, <2>1
  <2>4. j \in DOMAIN code /\ d[j] = v[j] /\ Edge(j, i)
    BY <1>7, <1>8, <1>12, <2>2
  <2>5. v[i] = v[j] - Popped(code[j]) + Pushed(code[j])
    BY <1>4, <2>4, EdgeDepth
  <2> QED BY <1>1, <1>6, <1>12, <2>3, <2>4, <2>5
<1> QED BY <1>9, <1>10, <1>11, <1>12

LEMMA DepthRecovers ==
  ASSUME IInv, JumpsLead, NEW v, Reached(v)
  PROVE  Recovers(Depth, v) /\ Len(Depth) = Len(code)
<1>1. PICK N : N = Len(code)
  OBVIOUS
<1>2. N \in Nat /\ v \in [1 .. N + 1 -> Nat]
  BY <1>1 DEF IInv, TypeOK, Reached
<1>3. PICK f : /\ f = [n \in 0 .. N |->
                         IF n = 0 THEN <<>> ELSE Append(f[n - 1], NextDepth(f[n - 1]))]
               /\ Depth = f[N]
  BY <1>1, <1>2, DepthUnfolds
<1> DEFINE S == {n \in Nat : n <= N => Recovers(f[n], v) /\ Len(f[n]) = n}
<1>4. 0 \in S
  <2>1. f[0] = <<>>
    BY <1>2, <1>3
  <2>2. Recovers(<<>>, v) /\ Len(<<>>) = 0
    BY DEF Recovers
  <2> QED BY <2>1, <2>2
<1>5. ASSUME NEW n \in Nat, n \in S
      PROVE  n + 1 \in S
  <2>1. PICK m : m = n + 1
    OBVIOUS
  <2>2. ASSUME m <= N
        PROVE  Recovers(f[m], v) /\ Len(f[m]) = m
    <3> DEFINE d == f[n]
               x == NextDepth(d)
    <3>1. Recovers(d, v) /\ Len(d) = n /\ n < N
      BY <1>2, <1>5, <2>1, <2>2
    <3>2. f[m] = Append(d, x)
      <4>1. m \in 0 .. N /\ m # 0 /\ m - 1 = n
        BY <1>2, <2>1, <2>2
      <4> QED BY <1>3, <4>1
    <3> HIDE DEF d
    <3>3. x = IF Comes(d, m) THEN v[m] ELSE Dead
      BY <1>1, <2>1, <3>1, NextRecovers
    <3>4. d \in Seq(Int) /\ x \in Int /\ m \in 1 .. N + 1 /\ m \in Nat
      <4>1. m \in 1 .. N + 1 /\ m \in Nat
        BY <1>2, <2>1, <2>2
      <4>2. v[m] \in Int /\ Dead \in Int
        BY <1>2, <4>1 DEF Dead
      <4> QED BY <3>1, <3>3, <4>1, <4>2 DEF Recovers
    <3> HIDE DEF x
    <3> DEFINE e == Append(d, x)
    <3>5. /\ e \in Seq(Int) /\ Len(e) = m /\ e[m] = x
          /\ \A i \in 1 .. n : e[i] = d[i]
      BY <2>1, <3>1, <3>4
    <3> HIDE DEF e
    <3>6. ASSUME NEW i \in 1 .. m
          PROVE  Comes(e, i) <=> Comes(d, i)
      <4>1. \A j \in 1 .. i - 1 : e[j] = d[j]
        BY <2>1, <3>5
      <4> QED BY <4>1 DEF Comes
    <3>7. ASSUME NEW i \in 1 .. m
          PROVE  e[i] = IF Comes(e, i) THEN v[i] ELSE Dead
      <4>1. CASE i = m
        BY <3>3, <3>5, <3>6, <4>1
      <4>2. CASE i # m
        <5>1. i \in 1 .. n
          BY <2>1, <4>2
        <5> QED BY <3>1, <3>5, <3>6, <5>1 DEF Recovers
      <4> QED BY <4>1, <4>2
    <3>8. Recovers(e, v)
      BY <3>5, <3>7 DEF Recovers
    <3> QED BY <3>2, <3>5, <3>8 DEF e
  <2> QED BY <2>1, <2>2
<1>6. N \in S
  <2> HIDE DEF S
  <2> QED BY <1>2, <1>4, <1>5, NatInd
<1> QED BY <1>1, <1>2, <1>3, <1>6

(* The entry of a loop is reached when anything of the loop is: the first  *)
(* of its instructions that is reached can only be the entry.              *)
LEMMA EntryComes ==
  ASSUME IInv, NEW v, NEW d, Recovers(d, v), v \in [1 .. Len(code) + 1 -> Nat],
         Len(d) = Len(code),
         NEW i \in DOMAIN code, NEW j \in DOMAIN code, j <= i,
         ClosedBetween(j, i), d[i] # Dead
  PROVE  d[j] # Dead
<1>1. PICK n : n = Len(code)
  OBVIOUS
<1>2. n \in Nat /\ DOMAIN code = 1 .. n /\ i \in Nat /\ j \in Nat /\ j >= 1
  BY <1>1 DEF IInv, TypeOK
<1> DEFINE S == {k \in j .. i : d[k] # Dead}
<1>3. S \subseteq Nat /\ S # {}
  <2>1. i \in S
    BY <1>2
  <2> QED BY <1>2, <2>1
<1>4. PICK k \in S : \A h \in S : k <= h
  <2> HIDE DEF S
  <2> QED BY <1>3, NatMin
<1>5. k \in j .. i /\ d[k] # Dead
  OBVIOUS
<1>6. ASSUME NEW h \in j .. i, h < k
      PROVE  d[h] = Dead
  <2>1. ~ (k <= h)
    BY <1>2, <1>6
  <2> QED BY <1>4, <2>1
<1> HIDE DEF S
<1>7. k = j
  <2>1. SUFFICES ASSUME k # j
                 PROVE  FALSE
    OBVIOUS
  <2>2. k \in j + 1 .. i /\ k \in 1 .. Len(d) /\ k # 1 /\ k \in Nat
    BY <1>1, <1>2, <1>5, <2>1
  <2>3. Entry(k) = {} /\ \A h \in 1 .. j - 1 : ~ JumpsTo(h, k)
    BY <2>2 DEF ClosedBetween
  <2>4. Comes(d, k)
    BY <1>5, <2>2 DEF Recovers
  <2>5. PICK h \in 1 .. k - 1 :
          d[h] # Dead /\ (JumpsTo(h, k) \/ (h = k - 1 /\ FallsThrough(code[h])))
    BY <2>2, <2>3, <2>4 DEF Comes
  <2>6. h \in Nat /\ h < k /\ h >= 1
    BY <2>2
  <2>7. h \notin j .. i
    BY <1>6, <2>5, <2>6
  <2>8. h < j
    BY <1>2, <2>2, <2>6, <2>7
  <2>9. h \in 1 .. j - 1 /\ h # k - 1
    BY <1>2, <2>2, <2>6, <2>8
  <2> QED BY <2>3, <2>5, <2>9
<1> QED BY <1>5, <1>7

(* The depths recovered from the code are the ones the handlers reckoned   *)
(* with, and these are balanced.                                           *)
LEMMA Balanced ==
  ASSUME IInv, JumpsLead, SingleEntry, StackKept
  PROVE  StackBalanced
<1>1. PICK v : Reached(v)
  BY DepthsParts DEF StackKept
<1>2. PICK d : d = Depth
  OBVIOUS
<1>3. Recovers(d, v) /\ Len(d) = Len(code)
  BY <1>1, <1>2, DepthRecovers
<1>4. PICK n : n = Len(code)
  OBVIOUS
<1>5. n \in Nat /\ DOMAIN code = 1 .. n /\ v \in [1 .. n + 1 -> Nat]
  BY <1>1, <1>4 DEF IInv, TypeOK, Reached
<1>6. ASSUME NEW i \in DOMAIN code, d[i] # Dead
      PROVE  /\ d[i] - Popped(code[i]) >= 0
             /\ code[i].op = "ret" => d[i] \in {0, 1}
             /\ \A j \in DOMAIN code : Edge(i, j) =>
                  d[j] = d[i] - Popped(code[i]) + Pushed(code[i])
  <2>1. d[i] = v[i] /\ v[i] \in Nat
    BY <1>3, <1>4, <1>5, <1>6 DEF Recovers
  <2>2. PICK b \in Nat : Effect(code[i], v[i], b)
    BY <1>1, <1>4, <1>5 DEF Reached
  <2>3. d[i] - Popped(code[i]) >= 0 /\ (code[i].op = "ret" => d[i] \in {0, 1})
    BY <2>1, <2>2, EffectAfter
  <2>4. ASSUME NEW j \in DOMAIN code, Edge(i, j)
        PROVE  d[j] = d[i] - Popped(code[i]) + Pushed(code[i])
    <3>1. v[j] = v[i] - Popped(code[i]) + Pushed(code[i])
      BY <1>1, <2>4, EdgeDepth
    <3>2. d[j] = IF Comes(d, j) THEN v[j] ELSE Dead
      BY <1>3, <1>4, <1>5 DEF Recovers
    <3>3. d[j] # Dead
      <4>1. CASE i < j
        <5>1. i \in 1 .. j - 1 /\ (j = i + 1 => i = j - 1)
          BY <1>5, <4>1
        <5>2. Comes(d, j)
          BY <1>6, <2>4, <5>1 DEF Comes, Edge
        <5>3. v[j] # Dead
          BY <1>5 DEF Dead
        <5> QED BY <3>2, <5>2, <5>3
      <4>2. CASE j <= i
        <5>1. j # i + 1
          BY <1>5, <4>2
        <5>2. JumpsTo(i, j) /\ Entry(j) = {}
          BY <2>4, <5>1 DEF Edge
        <5>3. code[i].arg \in GenLabel
          <6>1. code[i].arg \in GenLabel \cup {MainLabel}
            BY <5>2 DEF JumpsLead, IsJump, JumpsTo
          <6>2. code[i].arg # MainLabel
            BY <5>2, NamesAssumption DEF Entry, MainLabel, JumpsTo
          <6> QED BY <6>1, <6>2
        <5>4. ClosedBetween(j, i)
          BY <4>2, <5>2, <5>3 DEF SingleEntry
        <5> QED BY <1>3, <1>4, <1>5, <1>6, <4>2, <5>4, EntryComes
      <4> QED BY <1>5, <4>1, <4>2
    <3> QED BY <2>1, <3>1, <3>2, <3>3
  <2> QED BY <2>3, <2>4
<1> QED BY <1>2, <1>6 DEF StackBalanced, Edge

(* The generated code keeps the stack balanced, as long as the program     *)
(* uses no form that does not: code_generator.c emits the instructions of  *)
(* an expression so that it leaves one value, those of a statement so that *)
(* it leaves none, on every path.                                          *)
THEOREM StackIsBalanced ==
  ASSUME BalancedForms
  PROVE  Spec => []StackBalanced
<1>1. Init => StackKept
  BY StackInit
<1>2. IInv /\ FlowInv /\ StackKept /\ [Next]_vars => StackKept'
  BY StackNext DEF FlowInv, LoopsInv
<1>3. IInv /\ FlowInv /\ StackKept => StackBalanced
  BY Balanced DEF FlowInv, LoopsInv
<1> QED BY <1>1, <1>2, <1>3, Invariance, FlowInvariance, PTL DEF Spec
=============================================================================
