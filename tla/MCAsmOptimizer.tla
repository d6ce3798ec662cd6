--------------------------- MODULE MCAsmOptimizer ---------------------------
(***************************************************************************)
(* Programs for the optimizer, in the shapes the handlers of               *)
(* code_generator.c give them.                                             *)
(***************************************************************************)
EXTENDS StackMachine

L(n) == <<"L", n>>
F(f) == <<"F", f>>
Loc(x) == <<"local", x>>
Op(op) == <<Ins(op, None)>>
To(op, l) == <<Ins(op, l)>>

(* The label waits for the first instruction of the rest.                  *)
Labelled(l, rest) == [rest EXCEPT ![1].labels = @ \cup {l}]

Leaves == {<<Ins("pushl", Loc(x))>> : x \in Slots} \cup {<<Ins("pushi", Imm(k))>> : k \in {0, 1, 5}}

Unary(E)     == {e \o Op("lnot") : e \in E}
Binop(ops, E1, E2) == {d \o e \o Op(op) : d \in E1, e \in E2, op \in ops}
Ternary(E1, E2, E3) == {b \o d \o e \o Op("cmov") : b \in E1, d \in E2, e \in E3}
Assigned(x, e) == e \o <<Ins("movl", Loc(x))>>
AssignExpr(E) == {Assigned(x, e) \o <<Ins("pushl", Loc(x))>> : x \in Slots, e \in E}

Assignment(E) == {Assigned(x, e) : x \in Slots, e \in E}
Discarded(E)  == {e \o Op("pop") : e \in E}
ReturnCode(e) == e \o Op("ret")

If(e, s, rest)      == e \o To("jf", L(0)) \o s \o Labelled(L(0), rest)
IfElse(e, s, t, rest) ==
  e \o To("jf", L(0)) \o s \o To("jmp", L(1)) \o Labelled(L(0), t \o Labelled(L(1), rest))
While(e, s, rest)   ==
  Labelled(L(3), e \o To("jf", L(2)) \o s \o To("jmp", L(3))) \o Labelled(L(2), rest)

(* A program with a string literal ends with a directive, one without with *)
(* the ret of its last function.                                           *)
Directive == <<Ins(".string", None)>>
InMain(body) == To("jmp", F("main")) \o Labelled(F("main"), body \o Op("ret"))
WithString(body) == InMain(body) \o Directive

----------------------------------------------------------------------------
X == <<Ins("pushl", Loc(0))>>
Some == {X, <<Ins("pushl", Loc(1))>>, <<Ins("pushi", Imm(0))>>, <<Ins("pushi", Imm(1))>>}
Ops  == {"add", "sub", "eq", "neq"}
Reals == {X, <<Ins("pushf", <<"real", 1>>)>>}

(* Every operator of integers, 5 % 0 and 5 ~ 1 among them, and the         *)
(* comparisons of reals.                                                   *)
Exprs1 == Unary(Leaves) \cup Binop(IntBinops, Leaves, Leaves)
          \cup Binop(DOMAIN RealBool, Reals, Reals)
          \cup AssignExpr(Some) \cup Ternary(Some, Leaves, Leaves)
Exprs2 == Unary(Binop(Ops, Some, Some)) \cup Binop(Ops, Binop(Ops, Some, Some), Some)
          \cup Binop(Ops, Some, Binop(Ops, Some, Some))
          \cup Binop({"add"}, AssignExpr(Some), AssignExpr(Some))
          \cup Binop({"add"}, AssignExpr(Some), Some)

(* return of an expression; two assignments, or an expression statement,   *)
(* and a return.                                                           *)
Expressions == {WithString(ReturnCode(e)) : e \in Exprs1 \cup Exprs2}
Stmts == Assignment(Some) \cup Assignment(Binop({"add", "sub"}, {X}, Some))
         \cup Discarded(AssignExpr({X})) \cup Discarded(Some)
Sequences2 == {WithString(s \o t \o ReturnCode(X)) : s, t \in Stmts}

Conditions == Some \cup Binop({"fneq"}, {X}, Reals) \cup Unary({X}) \cup Binop({"eq", "neq"}, {X}, Some)
Jumping ==
  {WithString(If(e, s, ReturnCode(X))) : e \in Conditions, s \in Stmts}
  \cup {WithString(While(e, s, ReturnCode(X))) : e \in Conditions, s \in Stmts}

Body(f, body) == Labelled(F(f), body \o Op("ret"))
Calls == {To("jmp", F("main")) \o Body("f", Assigned(0, <<>>) \o Assigned(1, X) \o r)
           \o Body("main", e \o To("call", F("f")) \o s) \o Directive :
           e \in Some, s \in {Op("ret"), Op("inc") \o Op("ret"), Op("pop")}, r \in {ReturnCode(X), <<>>} }

(* A global with an initialiser, which main returns.                       *)
Glob(x) == <<"global", x>>
Numbers == {<<Ins("pushi", Imm(k))>> : k \in {0, 1, 5}}
Initialisers ==
  Numbers \cup Unary(Unary(Numbers)) \cup Binop({"add", "eq"}, Numbers, Numbers)
  \cup Binop({"sub"}, Numbers, Binop({"add", "neq"}, Numbers, Numbers))
Initialised ==
  {i \o <<Ins("movg", Glob(0))>> \o WithString(<<Ins("pushg", Glob(0))>> \o Op("ret")) :
     i \in Initialisers}

----------------------------------------------------------------------------
(* Programs with one construct the passes do not expect.                   *)
(* while (e) if (x) continue; else s                                       *)
ContinueElse ==
  {WithString(Labelled(L(3), e \o To("jf", L(2))
                             \o IfElse(X, To("jmp", L(3)), s, To("jmp", L(3))))
              \o Labelled(L(2), ReturnCode(X))) :
     e \in Some, s \in Stmts}

(* Programs without a string whose last function ends with a return, with  *)
(* a call or without either.                                               *)
NoString == {InMain(s) : s \in {ReturnCode(e) : e \in Leaves} \cup Assignment(Some)
                                \cup {To("call", F("main")), X \o Op("lnot") \o X \o X \o Op("inc")}}

(* A condition that ! negates, and the two values it chooses from.         *)
Negated == {WithString(ReturnCode(b \o Op("lnot") \o d \o e \o Op("cmov"))) :
              b \in {X \o Op("inc"), X}, d, e \in Leaves}

MCPrograms == Initialised \cup Expressions \cup Sequences2 \cup Jumping \cup Calls \cup NoString \cup Negated
=============================================================================
