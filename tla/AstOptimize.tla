---------------------------- MODULE AstOptimize ----------------------------
(***************************************************************************)
(* The optimizer of trees (ast_optimize.c), which runs between the         *)
(* semantic pass and the code generator: constants are folded, divisions,  *)
(* remainders and products by powers of two become shifts and masks, and   *)
(* parentheses around a primary expression go.                             *)
(*                                                                         *)
(* A node is <<kind, token, children, type, written>>: its type is what    *)
(* the semantic pass gave to the expression; written says that the         *)
(* value_type of the primary expression itself has been written too, which *)
(* is what a unary operator and a cast read of their operand.  Statements  *)
(* only lead to the expressions in them: a program is a sequence of those. *)
(***************************************************************************)
EXTENDS Integers, Sequences, FiniteSets, Bitwise

CONSTANTS
  Width,       (* The bits of an int; 32 in the code.                      *)
  Rounds,      (* The rounds main.c runs; 15 in the code.                  *)
  Overloads,   (* Triples of an operator and the types of its operands.    *)
  Sources      (* The programs, as the semantic pass leaves them.          *)

VARIABLES source, program, round, crashed

vars == <<source, program, round, crashed>>

Kind(n)    == n[1]
Token(n)   == n[2]
Kids(n)    == n[3]
Type(n)    == n[4]
Written(n) == n[5]
Left(n)    == Kids(n)[1]
Right(n)   == Kids(n)[2]

----------------------------------------------------------------------------
(* Numbers.  Overflow wraps, and the count of a shift is taken modulo the  *)
(* width, as on the machine the compiler runs on.  A real is a fraction.   *)

Unsigned(x) == x % 2^Width
Signed(x)   == LET u == Unsigned(x) IN IF u >= 2^(Width - 1) THEN u - 2^Width ELSE u
Truth(b)    == IF b THEN 1 ELSE 0
Magnitude(x) == IF x < 0 THEN -x ELSE x
Quotient(x, y) ==
  IF (x < 0) = (y < 0) THEN Magnitude(x) \div Magnitude(y) ELSE -(Magnitude(x) \div Magnitude(y))

Sign(x) == IF x < 0 THEN -1 ELSE 1

(* An infinite real becomes the least int.                                 *)
Truncated(q) == IF q[2] = 0 THEN -(2^(Width - 1)) ELSE Quotient(q[1], q[2])

Comparisons == {"==", "!=", "<", "<=", ">", ">="}
Compared(op, difference) ==
  Truth(CASE op = "==" -> difference = 0 [] op = "!=" -> difference # 0
          [] op = "<"  -> difference < 0 [] op = "<=" -> difference <= 0
          [] op = ">"  -> difference > 0 [] op = ">=" -> difference >= 0)

(* The compiler itself divides, and asserts that the operator is none of   *)
(* cat and in.                                                             *)
Traps(op, x, y) ==
  \/ op \in {"~", "in"}
  \/ op \in {"/", "%"} /\ (y = 0 \/ (x = -(2^(Width - 1)) /\ y = -1))

eval_int_binop(op, x, y) ==
  CASE op = "+"  -> Signed(x + y)
    [] op = "-"  -> Signed(x - y)
    [] op = "*"  -> Signed(x * y)
    [] op = "/"  -> Quotient(x, y)
    [] op = "%"  -> x - y * Quotient(x, y)
    [] op \in Comparisons -> Compared(op, x - y)
    [] op = "&&" -> Truth(x # 0 /\ y # 0)
    [] op = "||" -> Truth(x # 0 \/ y # 0)
    [] op = "&"  -> Signed(Unsigned(x) & Unsigned(y))
    [] op = "|"  -> Signed(Unsigned(x) | Unsigned(y))
    [] op = "^"  -> Signed(Unsigned(x) ^^ Unsigned(y))
    [] op = "<<" -> Signed(x * 2^(y % Width))
    [] op = ">>" -> x \div 2^(y % Width)

eval_int_unop(op, x) ==
  CASE op = "!" -> Truth(x = 0)
    [] op = "~" -> -x - 1
    [] op = "+" -> x
    [] op = "-" -> Signed(-x)

eval_float_binop(op, p, q) ==
  CASE op = "+" -> <<p[1] * q[2] + q[1] * p[2], p[2] * q[2]>>
    [] op = "-" -> <<p[1] * q[2] - q[1] * p[2], p[2] * q[2]>>
    [] op = "*" -> <<p[1] * q[1], p[2] * q[2]>>
    [] op = "/" -> <<p[1] * q[2] * Sign(q[1]), p[2] * q[1] * Sign(q[1])>>
    [] op \in Comparisons -> <<Compared(op, p[1] * q[2] - q[1] * p[2]), 1>>
FloatFolded == {"+", "-", "*", "/"} \cup Comparisons

----------------------------------------------------------------------------
(* The peepholes.                                                          *)

IsInt(n)  == Kind(n) = "int"
IsReal(n) == Kind(n) = "real"
Valued(n, v)      == [n EXCEPT ![2] = v]
Binop(n, op, l, r) == [n EXCEPT ![2] = op, ![3] = <<l, r>>]
Constant(n, kind, v, written) == <<kind, v, <<>>, Type(n), written>>

(* Constants are taken as unsigned: the least int counts.                  *)
PowerOfTwo(n) == IsInt(n) /\ \E k \in 0 .. Width - 1 : Unsigned(Token(n)) = 2^k
int_log2(n)   == CHOOSE k \in 0 .. Width - 1 : Unsigned(Token(n)) = 2^k

(* The type of the left operand is not looked at.                          *)
peephole_modulo(n) ==
  IF PowerOfTwo(Right(n))
  THEN Binop(n, "&", Left(n), Valued(Right(n), Signed(Unsigned(Token(Right(n))) - 1)))
  ELSE n

peephole_div_shift(n) ==
  IF Type(Left(n)) = "int" /\ PowerOfTwo(Right(n))
  THEN Binop(n, ">>", Left(n), Valued(Right(n), int_log2(Right(n))))
  ELSE n

(* Mutant: the operands are not swapped.                                   *)
MulKeepsOrder(n) ==
  CASE Type(Left(n)) # "int" \/ Type(Right(n)) # "int" -> n
    [] IsInt(Right(n)) -> IF PowerOfTwo(Right(n))
         THEN Binop(n, "<<", Left(n), Valued(Right(n), int_log2(Right(n)))) ELSE n
    [] OTHER -> IF PowerOfTwo(Left(n))
         THEN Binop(n, "<<", Valued(Left(n), int_log2(Left(n))), Right(n)) ELSE n

peephole_mul_shift(n) ==
  CASE Type(Left(n)) # "int" \/ Type(Right(n)) # "int" -> n
    [] IsInt(Right(n)) /\ Type(Left(n)) = "int" /\ Type(Right(n)) = "int" ->
         IF PowerOfTwo(Right(n))
         THEN Binop(n, "<<", Left(n), Valued(Right(n), int_log2(Right(n)))) ELSE n
    [] OTHER ->
         IF PowerOfTwo(Left(n))
         THEN Binop(n, "<<", Right(n), Valued(Left(n), int_log2(Left(n)))) ELSE n

AST_BINOP(n) ==
  CASE Token(n) = "%" -> peephole_modulo(n)
    [] Token(n) = "/" -> peephole_div_shift(n)
    [] Token(n) = "*" -> peephole_mul_shift(n)
    [] OTHER -> n

(* The new constant stands where the pointer to the operation was: the     *)
(* value_type of the primary expression there has not been written.        *)
peephole_integer_constant_eval_binop(n) ==
  IF ~(IsInt(Left(n)) /\ IsInt(Right(n))) THEN n
  ELSE LET op == Token(n)  x == Token(Left(n))  y == Token(Right(n))
       IN  IF Traps(op, x, y) THEN [n EXCEPT ![1] = "trap"]
           ELSE Constant(n, "int", eval_int_binop(op, x, y), FALSE)

peephole_float_constant_eval_binop(n) ==
  IF IsReal(Left(n)) /\ IsReal(Right(n)) /\ Token(n) \in FloatFolded
  THEN Constant(n, "real", eval_float_binop(Token(n), Token(Left(n)), Token(Right(n))), FALSE)
  ELSE n

Evaluated(n) ==
  IF IsInt(Left(n)) THEN peephole_integer_constant_eval_binop(n)
                    ELSE peephole_float_constant_eval_binop(n)

(* Mutant: the constant does not keep the type of the cast.                *)
CastUnwritten(n) ==
  CASE IsInt(Left(n)) /\ Token(n) = "real" -> Constant(n, "real", <<Token(Left(n)), 1>>, FALSE)
    [] IsReal(Left(n)) /\ Token(n) = "int" ->
         Constant(n, "int", Truncated(Token(Left(n))), FALSE)
    [] OTHER -> n

peephole_constant_cast(n) ==
  CASE IsInt(Left(n)) /\ Token(n) = "real" -> Constant(n, "real", <<Token(Left(n)), 1>>, Written(n))
    [] IsReal(Left(n)) /\ Token(n) = "int" ->
         Constant(n, "int", Truncated(Token(Left(n))), Written(n))
    [] OTHER -> n

(* The test of an optional is no operator.                                 *)
peephole_integer_constant_eval_unary(n) ==
  IF Token(n) # "?" /\ IsInt(Left(n))
  THEN Constant(n, "int", eval_int_unop(Token(n), Token(Left(n))), Written(n))
  ELSE n

(* The parentheses around a primary expression go; what is inside has      *)
(* already lost its own.                                                   *)
IsPrimary(n) == Kind(n) \notin {"binop", "ternary", "assign", "trap"}

(* Mutant: only the parentheses around a variable go.                      *)
ShortensNames(n) ==
  IF Kind(Left(n)) = "var" THEN [Left(n) EXCEPT ![4] = Type(n)] ELSE n

Shortened(n) ==
  IF IsPrimary(Left(n)) THEN [Left(n) EXCEPT ![4] = Type(n)] ELSE n

----------------------------------------------------------------------------
(* The walk.  Of a subscript only the array is visited, of a match nothing.*)

Visited(n) ==
  CASE Kind(n) = "subscript" -> {1}
    [] Kind(n) = "match"     -> {}
    [] OTHER                 -> DOMAIN Kids(n)

Handled(n) ==
  CASE Kind(n) = "binop"    -> Evaluated(AST_BINOP(n))
    [] Kind(n) = "enclosed" -> Shortened(n)
    [] Kind(n) = "cast"     -> peephole_constant_cast(n)
    [] Kind(n) = "unary"    -> peephole_integer_constant_eval_unary(n)
    [] OTHER                -> n

(* Mutant: a node is handled before what is in it.                         *)
RECURSIVE OptimizedFirst(_)
OptimizedFirst(n) ==
  LET m == IF Kids(n) = <<>> THEN n ELSE Handled(n)
  IN  [m EXCEPT ![3] = [i \in DOMAIN @ |->
         IF i \in Visited(m) THEN OptimizedFirst(@[i]) ELSE @[i]]]

RECURSIVE Optimized(_)
Optimized(n) ==
  IF Kids(n) = <<>> THEN n
  ELSE Handled([n EXCEPT ![3] = [i \in DOMAIN @ |->
         IF i \in Visited(n) THEN Optimized(@[i]) ELSE @[i]]])

RECURSIVE Nodes(_)
Nodes(n) == {n} \cup UNION {Nodes(Kids(n)[i]) : i \in DOMAIN Kids(n)}

Init == source \in Sources /\ program = source /\ round = 0 /\ crashed = FALSE

ast_optimize_program ==
  /\ round < Rounds /\ ~crashed
  /\ \E new \in {[i \in DOMAIN program |-> Optimized(program[i])]} :
       IF \E i \in DOMAIN new : \E n \in Nodes(new[i]) : Kind(n) = "trap"
       THEN crashed' = TRUE /\ UNCHANGED <<source, program, round>>
       ELSE program' = new /\ round' = round + 1 /\ UNCHANGED <<source, crashed>>

Finished == (round = Rounds \/ crashed) /\ UNCHANGED vars
Next == ast_optimize_program \/ Finished
Spec == Init /\ [][Next]_vars

----------------------------------------------------------------------------
(* What an expression means: the instructions the code generator chooses   *)
(* by the types of the nodes.  The program has the int x, the real r, half *)
(* of it, an array of ints a, a structure s and an optional o.             *)

Undefined == <<"undefined">>
Bits      == <<"bits">>     (* a value that is taken for one of another type *)
Number(v) == <<"int", v>>
Real(q)   == <<"real", q>>

Operation(n, l, r) ==
  LET op == Token(n)  type == Type(Left(n))
  IN  CASE <<op, type, Type(Right(n))>> \in Overloads -> <<"overload", op, l, r>>
        [] l[1] = "undefined" \/ r[1] = "undefined"   -> Undefined
        [] OTHER ->
             IF type \notin {"int", "real"} \/ l[1] # type \/ r[1] # type THEN Bits
             ELSE IF type = "int"
                  THEN IF \/ Traps(op, l[2], r[2])
                          \/ op \in {"<<", ">>"} /\ r[2] \notin 0 .. Width - 1
                       THEN Undefined ELSE Number(eval_int_binop(op, l[2], r[2]))
                  ELSE IF op \notin FloatFolded THEN Bits
                       ELSE IF op = "/" /\ r[2][1] = 0 THEN Undefined
                       ELSE LET q == eval_float_binop(op, l[2], r[2])
                            IN  IF op \in Comparisons THEN Number(q[1]) ELSE Real(q)

Converted(to, v) ==
  CASE v[1] = "int"  /\ to = "real" -> Real(<<v[2], 1>>)
    [] v[1] = "real" /\ to = "int"  -> Number(Truncated(v[2]))
    [] v[1] = "undefined" \/ to = v[1] -> v
    [] OTHER -> <<"cast", to, v>>

UnaryOperation(op, v) ==
  CASE v[1] = "int"  /\ op # "?"  -> Number(eval_int_unop(op, v[2]))
    [] v[1] = "real" /\ op = "-"  -> Real(<<-v[2][1], v[2][2]>>)
    [] v[1] = "undefined" -> v
    [] OTHER -> <<"unary", op, v>>

RECURSIVE Meaning(_, _)
Meaning(n, x) ==
  LET M(i) == Meaning(Kids(n)[i], x)
  IN  CASE Kind(n) = "int"       -> Number(Token(n))
        [] Kind(n) = "real"      -> Real(Token(n))
        [] Kind(n) = "var"       -> CASE Token(n) = "x" -> Number(x)
                                      [] Token(n) = "r" -> Real(<<x, 2>>)
                                      [] OTHER          -> <<Token(n)>>
        [] Kind(n) = "enclosed"  -> M(1)
        [] Kind(n) = "unary"     -> UnaryOperation(Token(n), M(1))
        [] Kind(n) = "cast"      -> Converted(Token(n), M(1))
        [] Kind(n) = "binop"     -> Operation(n, M(1), M(2))
        [] Kind(n) = "subscript" -> IF M(2)[1] = "int" THEN Number(Signed(3 * M(2)[2] + 1)) ELSE Undefined
        [] Kind(n) = "ternary"   -> IF M(1) = Undefined THEN Undefined
                                    ELSE IF M(1) = Number(0) THEN M(3) ELSE M(2)
        [] Kind(n) = "match"     -> IF M(1) = Undefined THEN Undefined
                                    ELSE IF M(1) = Number(1) THEN M(2) ELSE M(3)
        [] OTHER -> <<Kind(n), Token(n), [i \in DOMAIN Kids(n) |-> M(i)]>>

----------------------------------------------------------------------------
(* Properties.                                                             *)

IsConstant(n) == \A m \in Nodes(n) : Kind(m) \in {"int", "real", "enclosed", "unary", "cast", "binop"}
ConstantPower(n) ==
  IsConstant(n) /\ LET v == Meaning(n, 0) IN v[1] = "int" /\ \E k \in 0 .. Width - 1 : Unsigned(v[2]) = 2^k

(* What the pass is known to change: the remainder and the quotient of a   *)
(* negative number, the overloaded remainder of a structure, and the       *)
(* comparison of two real constants, whose value becomes a real.           *)
Changed(n, x) ==
  \E m \in Nodes(n) : Kind(m) = "binop" /\
    \/ /\ Token(m) \in {"/", "%"} /\ ConstantPower(Right(m))
       /\ \/ Type(Left(m)) \notin {"int", "real"} /\ Token(m) = "%"
          \/ LET v == Meaning(Left(m), x) IN v[1] = "int" /\ v[2] < 0
    \/ Token(m) \in Comparisons /\ Type(Left(m)) = "real" /\ IsConstant(m)

(* Outside these cases every expression keeps its value, whatever the      *)
(* value of x (ast_optimize.c:46-232).                                     *)
ValueKept ==
  \A i \in DOMAIN program, x \in -(2^(Width - 1)) .. 2^(Width - 1) - 1 :
    LET before == Meaning(source[i], x)
    IN  Meaning(program[i], x) = before \/ before = Undefined \/ Changed(source[i], x)

(* The first round reaches what the other fourteen do not change, so that  *)
(* an operand two nodes share may be visited twice (main.c:77).            *)
OneRoundIsEnough == [][round > 0 => program' = program]_vars

(* The constant the pass makes of an expression, if it makes one: the      *)
(* quotient and the remainder by a power of two have become a shift and a  *)
(* mask before they are computed, and the comparison of two reals is a     *)
(* real, which no operator joins to an int.                                *)
NoConstant == <<"none">>
Rounded(op, x, y) ==
  LET power == Unsigned(y)
  IN  IF op \in {"/", "%"} /\ \E k \in 0 .. Width - 1 : power = 2^k
      THEN IF op = "/" THEN x \div power ELSE x % power
      ELSE eval_int_binop(op, x, y)

RECURSIVE Folded(_)
Folded(n) ==
  LET l == Folded(Left(n))  r == Folded(Right(n))
  IN  CASE Kind(n) = "int"      -> Number(Token(n))
        [] Kind(n) = "real"     -> Real(Token(n))
        [] Kind(n) = "enclosed" -> l
        [] Kind(n) = "unary" /\ Token(n) # "?" /\ l[1] = "int" -> UnaryOperation(Token(n), l)
        [] Kind(n) = "cast"  /\ {Token(n), l[1]} = {"int", "real"} -> Converted(Token(n), l)
        [] Kind(n) = "binop" /\ l[1] = "int" /\ r[1] = "int" ->
             IF Traps(Token(n), l[2], r[2]) THEN NoConstant ELSE Number(Rounded(Token(n), l[2], r[2]))
        [] Kind(n) = "binop" /\ l[1] = "real" /\ r[1] = "real" /\ Token(n) \in FloatFolded ->
             Real(eval_float_binop(Token(n), l[2], r[2]))
        [] OTHER -> NoConstant

(* The pass stops the compiler exactly when a division or a remainder it   *)
(* visits has no result for the constants the pass makes of its operands,  *)
(* or two constants are joined by ~.  A divisor is what the pass makes of  *)
(* it, not what it means: 1 / (-1 / 2 + 1) stops the compiler and          *)
(* 1 / (-1 / 2) does not (ast_optimize.c:58, 72, 159, operators.c:41, 53). *)
RECURSIVE VisitedNodes(_)
VisitedNodes(n) == {n} \cup UNION {VisitedNodes(Kids(n)[i]) : i \in Visited(n)}
Stops(m) ==
  /\ Kind(m) = "binop"
  /\ Folded(Left(m))[1] = "int" /\ Folded(Right(m))[1] = "int"
  /\ Traps(Token(m), Folded(Left(m))[2], Folded(Right(m))[2])
CrashesKnown ==
  round > 0 \/ crashed =>
    (crashed <=> \E i \in DOMAIN source : \E m \in VisitedNodes(source[i]) : Stops(m))

(* The type that the code generator reads of an operand has been written,  *)
(* unless the operand was an operation of constants in parentheses and its *)
(* value still has an operator or a cast on it (ast_optimize.c:163,        *)
(* code_generator.c:1003, 1046).                                           *)
RECURSIVE Inside(_)
Inside(n) == IF Kind(n) = "enclosed" THEN Inside(Left(n)) ELSE n
ReadsOperand(n) == Kind(n) \in {"unary", "cast"}
TypesWritten ==
  \A i \in DOMAIN program :
    (\E m \in Nodes(program[i]) : ReadsOperand(m) /\ ~Written(Left(m))
                                  /\ Kind(Left(m)) \in {"int", "real"}) =>
      \E m \in Nodes(source[i]) :
        /\ ReadsOperand(m)
        /\ LET operand == Inside(Left(m))
           IN  /\ Kind(operand) = "binop" /\ IsConstant(operand)
               /\ (Kind(m) = "cast" /\ Token(m) # "real") \/ \E k \in Nodes(operand) : IsReal(k)
=============================================================================
