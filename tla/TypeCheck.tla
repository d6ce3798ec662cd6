----------------------------- MODULE TypeCheck ------------------------------
(***************************************************************************)
(* The types of expressions: what the semantic pass (semantic_pass.c)      *)
(* accepts, the conversions it inserts, and the instruction the code       *)
(* generator (code_generator.c) then picks from its tables.                *)
(*                                                                         *)
(* The children of an expression are done before the expression itself, so *)
(* the walk is that of a stack of finished expressions.  A node has the    *)
(* value_type the pass gives it and, in bits, what its code leaves on the  *)
(* operand stack of the virtual machine:                                   *)
(*   "int", "real", "ref" (an address or a function), "null",              *)
(*   "none"   nothing: the call of a void function,                        *)
(*   "wrong"  an instruction met an operand of another representation.     *)
(* The walk stops where the generator has no instruction: its tables hold  *)
(* "invl", which generate asserts never to meet, or hold something that is *)
(* no instruction, or are read out of their bounds.                        *)
(***************************************************************************)
EXTENDS Types, SequencesExt

CONSTANTS
  VarTypes,     (* The types of the variables of the program.              *)
  Signatures,   (* Of its functions: records ret, params.                  *)
  Overloads,    (* Of its operators: records op, params, ret.              *)
  BinOps, UnOps, CastTargets,   (* What the program uses.                  *)
  Avoided,                      (* What it does not do: see Avoids.        *)
  MaxStack, MaxTypeDepth        (* Bounds.                                 *)

ASSUME StackAssumption == MaxStack \in Nat /\ MaxTypeDepth \in Nat

VARIABLES
  stack,   (* The finished expressions, the last one at the end.           *)
  phase,   (* "running"; "error" after an error message; "failed" after an *)
           (* assertion of types.c or code_generator.c; "astray" after an  *)
           (* opcode that is none.                                         *)
  at       (* What it failed or went astray at: an operator, "cast" for a  *)
           (* cast of the program, "conversion" for one of the pass.       *)

vars == <<stack, phase, at>>

Bits == {"int", "real", "ref", "null", "none", "wrong"}
Node(type, bits)  == [type |-> type, bits |-> bits, lvalue |-> FALSE]
Place(type, bits) == [type |-> type, bits |-> bits, lvalue |-> TRUE]
Rejected == Node(<<"error">>, "none")
Astray   == Node(<<"astray">>, "none")

is_bool(op)  == op \in {"eq", "neq", "lt", "and_l", "in", "lnot"}
is_logic(op) == op \in {"and_l", "lnot"}

(* What a value of a type may look like.                                   *)
RECURSIVE BitsOf(_)
BitsOf(t) ==
  CASE t = INT  -> {"int"}
    [] t = REAL -> {"real"}
    [] t = VOID -> {"none"}
    [] t = SPEC_NULL -> {"null"}
    [] t = SPEC_ANY  -> {"int", "real", "ref", "null"}
    [] kind(t) = "optional" -> BitsOf(Of(t)) \cup {"null"}
    [] kind(t) = "pointer"  -> {"ref", "null"}
    [] OTHER    -> {"ref"}
Values(t) == {Node(t, b) : b \in BitsOf(t)}

(* A value that is stored, passed or tested where bits are expected.       *)
Fits(e, bits)   == e.bits \in bits
Used(e, bits)   == IF Fits(e, bits) THEN e.bits ELSE "wrong"

(* Programs the pass accepts and whose values then do not fit their types: *)
(* a subscript that is not an int, a null that gives its type to the other *)
(* branch of a ternary or the other elements of an array, in, whose type   *)
(* is that of its left operand although its value is an int, and a cast of *)
(* a pointer, an optional or a function to its own type, which is the      *)
(* comparison with null.                                                   *)
Avoids(what, holds) == what \in Avoided => ~holds

----------------------------------------------------------------------------
(* Casts.                                                                  *)

(* AST_CAST_EXPRESSION of the code generator: a reference is compared with *)
(* null, of the basic types int and real have an instruction.              *)
IsReference(t) == kind(t) \in {"pointer", "optional", "function"}

CastFails(from, to) ==
  /\ ~IsReference(from)
  /\ \/ kind(from) # "basic" \/ kind(to) # "basic"
     \/ from \in {INT, REAL, STR} /\ to = from
     \/ from = STR /\ to \in {INT, REAL}
Cast(e, to) ==
  IF IsReference(e.type) THEN Node(to, "int")
  ELSE IF e.type \in {INT, REAL} /\ to \in {INT, REAL, STR}
  THEN Node(to, IF Fits(e, BitsOf(e.type)) THEN CHOOSE b \in BitsOf(to) : TRUE ELSE e.bits)
  ELSE Astray

(* Mutant: the conversion is recorded but not generated.                   *)
ConvertsTypeOnly(e, target) ==
  LET t == IF kind(target) = "optional" THEN Of(target) ELSE target
  IN  IF \/ cmp_types(e.type, target) \/ cmp_types(e.type, t)
         \/ kind(target) = "optional" /\ e.type = SPEC_NULL
      THEN {e}
      ELSE {IF ok THEN Node(t, e.bits) ELSE Rejected : ok \in can_implicit_cast(e.type, t)}

(* The outcomes of generate_type_conversion(e, target).                    *)
generate_type_conversion(e, target) ==
  LET t == IF kind(target) = "optional" THEN Of(target) ELSE target
  IN  IF \/ cmp_types(e.type, target) \/ cmp_types(e.type, t)
         \/ kind(target) = "optional" /\ e.type = SPEC_NULL
      THEN {e}
      ELSE {IF ok THEN Cast(e, t) ELSE Rejected : ok \in can_implicit_cast(e.type, t)}

(* kind == INT in the code compares the kind with 0, which is BASIC: every *)
(* basic type is let through as it is.                                     *)
cast_to_boolean(e) ==
  IF kind(e.type) = "basic" THEN e
  ELSE IF kind(e.type) \in {"pointer", "optional", "function"} THEN Cast(e, INT)
  ELSE Rejected

----------------------------------------------------------------------------
(* Binary operators.                                                       *)

find_binop_overload(op, l, r) ==
  {o \in Overloads : /\ o.op = op /\ Len(o.params) = 2
                     /\ cmp_types(o.params[1], l) /\ cmp_types(o.params[2], r)}

(* Mutant: the right operand stays as it is.                               *)
ConvertedLeft(l, r, left_target, right_target) ==
  generate_type_conversion(l, left_target) \X {r}

(* What semanal_binop makes of the two operands: pairs of operands.        *)
Converted(l, r, left_target, right_target) ==
  generate_type_conversion(l, left_target) \X generate_type_conversion(r, right_target)

semanal_binop(op, l, r) ==
  IF find_binop_overload(op, l.type, r.type) # {} THEN {<<l, r>>}
  ELSE IF op = "in" /\ kind(r.type) = "array" /\ cmp_types(Of(r.type), l.type)
  THEN {<<l, r>>}
  ELSE LET cat_array == op = "cat" /\ kind(l.type) = "array"
           cat_str   == op = "cat" /\ l.type = STR
           logic     == is_logic(op)
           bl        == IF logic /\ ~cat_array /\ ~cat_str THEN cast_to_boolean(l) ELSE l
           br        == IF logic /\ ~cat_array /\ ~cat_str THEN cast_to_boolean(r) ELSE r
           castable  == IF cat_array \/ cat_str \/ logic \/ cmp_types(l.type, REAL)
                        THEN {TRUE} ELSE can_implicit_cast(l.type, r.type)
           pointers  == "pointer" \in {kind(bl.type), kind(br.type)}
           target    == IF logic THEN INT ELSE IF cmp_types(l.type, REAL) /\ ~cat_array THEN REAL ELSE bl.type
       IN  UNION {IF \/ ~ok \/ bl = Rejected \/ br = Rejected
                     \/ pointers /\ op \notin {"eq", "neq"}
                     \/ is_struct(bl.type) \/ is_struct(br.type)
                  THEN {<<Rejected, Rejected>>}
                  ELSE IF cat_array THEN Converted(bl, br, bl.type, Of(bl.type))
                  ELSE IF cat_str THEN Converted(bl, br, STR, INT)
                  ELSE Converted(bl, br, target, target) : ok \in castable}

(* get_binop_type; "assert" stands for a failed assertion.                 *)
get_binop_type(op, l, r) ==
  IF kind(l) = "array" /\ cmp_types(Of(l), r) THEN l
  ELSE IF l = STR /\ r = INT THEN l
  ELSE IF op = "in"
  THEN IF kind(r) = "array" /\ cmp_types(l, Of(r)) THEN l ELSE <<"assert">>
  ELSE IF find_binop_overload(op, l, r) # {}
  THEN (CHOOSE o \in find_binop_overload(op, l, r) : TRUE).ret
  ELSE IF ~cmp_types(l, r) THEN <<"assert">>
  ELSE IF is_bool(op) THEN INT ELSE l

(* Where binop_opcodes has "invl".                                         *)
NotInRow(type, op) ==
  CASE type = REAL -> op \in {"cat", "and_l", "bitand"}
    [] type = STR  -> op \in {"sub", "and_l", "bitand"}
    [] OTHER       -> FALSE

(* AST_BINOP of the code generator: the operands for which it picks an     *)
(* instruction before it looks for an overload or into the table.          *)
AppendsElement(l, r) == kind(l.type) = "array" /\ kind(r.type) = "basic"
AppendsChar(l, r)    == l.type = STR /\ r.type = INT
ComparesPointers(l, r) == "pointer" \in {kind(l.type), kind(r.type)}
FromTable(op, l, r) ==
  /\ ~AppendsElement(l, r) /\ ~AppendsChar(l, r) /\ op # "in"
  /\ find_binop_overload(op, l.type, r.type) = {} /\ ~ComparesPointers(l, r)

(* stradd asserts that the operator is ~, generate that the opcode is not  *)
(* "invl".  For ints the table has "inlv" under ~, and generate does not   *)
(* know that; it has nothing for void and for the special types, and of    *)
(* another kind of type it uses the bytes of the union as the row.         *)
BinopFails(op, l, r) ==
  \/ AppendsChar(l, r) /\ op # "cat"
  \/ FromTable(op, l, r) /\ NotInRow(l.type, op)
BinopAstray(op, l, r) ==
  /\ FromTable(op, l, r)
  /\ l.type \notin {INT, REAL, STR} \/ (l.type = INT /\ op = "cat")

(* The values the instruction leaves.                                      *)
BinopBits(op, l, r, type) ==
  LET of(bits, right, result) ==
        IF Fits(l, bits) /\ Fits(r, right) THEN result ELSE {"wrong"}
  IN  IF AppendsElement(l, r) THEN of({"ref"}, BitsOf(Of(l.type)), {"ref"})
      ELSE IF AppendsChar(l, r) THEN of({"ref"}, {"int"}, {"ref"})
      ELSE IF op = "in" THEN {"int"}
      ELSE IF find_binop_overload(op, l.type, r.type) # {} THEN BitsOf(type)
      ELSE IF ComparesPointers(l, r) THEN of({"ref", "null"}, {"ref", "null"}, {"int"})
      ELSE of(BitsOf(l.type), BitsOf(l.type), IF is_bool(op) THEN {"int"} ELSE BitsOf(l.type))

----------------------------------------------------------------------------
(* Unary operators; + and - are one, and ~ is called "not" here.           *)

find_unop_overload(op, t) ==
  {o \in Overloads : o.op = op /\ Len(o.params) = 1 /\ cmp_types(o.params[1], t)}

(* AST_UNARY_EXPRESSION of the semantic pass, and get_prim_expr_type.      *)
UnaryRejected(op, e) ==
  /\ find_unop_overload(op, e.type) = {}
  /\ IF op = "lnot" THEN cast_to_boolean(e) = Rejected
     ELSE ~cmp_types(e.type, INT) /\ ~cmp_types(e.type, REAL)
UnaryType(op, t) ==
  IF find_unop_overload(op, t) # {} THEN (CHOOSE o \in find_unop_overload(op, t) : TRUE).ret
  ELSE IF op = "lnot" THEN INT ELSE t

(* AST_UNARY_EXPRESSION of the code generator.  The operand of ! has been  *)
(* converted, but the type looked at is the one it had before; ~ is not in *)
(* the table of the unary operators, and ! of a real or a str is "invl".   *)
CallsUnary(op, t) ==
  kind(t) \notin {"pointer", "optional"} /\ find_unop_overload(op, t) # {}
UnaryFails(op, t) ==
  /\ ~CallsUnary(op, t)
  /\ \/ kind(t) \notin {"pointer", "basic"}
     \/ op = "not"
     \/ op = "lnot" /\ t \in {REAL, STR}
UnaryAstray(op, t) ==
  /\ ~CallsUnary(op, t)
  /\ op = "lnot" /\ kind(t) # "pointer" /\ t # INT

----------------------------------------------------------------------------
(* The handlers.  Each takes the last n expressions off the stack.         *)

Top(i) == stack[Len(stack) - i]      (* 0 is the last one *)
Fresh  == phase = "running" /\ Len(stack) < MaxStack
Has(n) == phase = "running" /\ Len(stack) >= n

Replace(n, e) ==
  /\ Depth(e.type) <= MaxTypeDepth
  /\ stack' = Append(SubSeq(stack, 1, Len(stack) - n), e)
  /\ UNCHANGED <<phase, at>>

Drop(n)   == stack' = SubSeq(stack, 1, Len(stack) - n) /\ UNCHANGED <<phase, at>>
Fail(op)  == phase' = "failed" /\ at' = op /\ UNCHANGED stack
Stray(op) == phase' = "astray" /\ at' = op /\ UNCHANGED stack
Reject    == phase' = "error" /\ UNCHANGED <<stack, at>>

(* The outcome of a conversion, where it is not a value.                   *)
Unconverted(e) ==
  \/ e = Rejected /\ Reject
  \/ e = Astray /\ Stray("conversion")
IsValue(e) == e \notin {Rejected, Astray}

Constant ==
  /\ Fresh
  /\ \E t \in {INT, REAL, STR, SPEC_NULL} : \E e \in Values(t) : Replace(0, e)

Ident ==
  /\ Fresh
  /\ \E t \in VarTypes : \E b \in BitsOf(t) : Replace(0, Place(t, b))

Binop ==
  /\ Has(2)
  /\ \E op \in BinOps : \E p \in semanal_binop(op, Top(1), Top(0)) :
       /\ Avoids("in_other", op = "in" /\ Top(1).type # INT)
       /\ IF Rejected \in Range(p) THEN Reject
          ELSE IF Astray \in Range(p) THEN Stray("conversion")
          ELSE LET type == get_binop_type(op, p[1].type, p[2].type)
               IN  IF type = <<"assert">> \/ BinopFails(op, p[1], p[2]) THEN Fail(op)
                   ELSE IF BinopAstray(op, p[1], p[2]) THEN Stray(op)
                   ELSE \E b \in BinopBits(op, p[1], p[2], type) : Replace(2, Node(type, b))

OptionalTest ==
  /\ Has(1)
  /\ "question" \in UnOps
  /\ IF kind(Top(0).type) = "optional" THEN Replace(1, Node(INT, "int")) ELSE Reject

Unary ==
  /\ Has(1)
  /\ \E op \in UnOps \ {"question"} :
       LET e == Top(0)
           type == UnaryType(op, e.type)
       IN  IF UnaryRejected(op, e) THEN Reject
           ELSE IF UnaryFails(op, e.type) THEN Fail(op)
           ELSE IF UnaryAstray(op, e.type) THEN Stray(op)
           ELSE IF CallsUnary(op, e.type) THEN \E r \in Values(type) : Replace(1, r)
           ELSE Replace(1, Node(type, IF op = "lnot" THEN "int" ELSE e.bits))

CastExpression ==
  /\ Has(1)
  /\ \E to \in CastTargets : \E ok \in can_explicit_cast(Top(0).type, to) :
       /\ Avoids("null_test", ok /\ IsReference(Top(0).type))
       /\ IF ~ok THEN Reject
          ELSE IF CastFails(Top(0).type, to) THEN Fail("cast")
          ELSE IF Cast(Top(0), to) = Astray THEN Stray("cast")
          ELSE Replace(1, Cast(Top(0), to))

Ternary ==
  /\ Has(3)
  /\ Avoids("null_first", Top(1).type = SPEC_NULL)
  /\ LET on_true == Top(1)
     IN  IF cast_to_boolean(Top(2)) = Rejected THEN Reject
         ELSE \E e \in generate_type_conversion(Top(0), on_true.type) :
                IF ~IsValue(e) THEN Unconverted(e)
                ELSE \E b \in {on_true.bits, e.bits} : Replace(3, Node(on_true.type, b))

(* An assignment pushes the variable again: the type of the expression is  *)
(* that of the assigned value.                                             *)
Assignment ==
  /\ Has(2)
  /\ IF ~Top(1).lvalue THEN Reject
     ELSE \E e \in generate_type_conversion(Top(0), Top(1).type) :
            IF ~IsValue(e) THEN Unconverted(e)
            ELSE Replace(2, Node(e.type, Used(e, BitsOf(Top(1).type))))

(* Each argument is converted to the type of its parameter, here in the    *)
(* order of the list.                                                      *)
FuncCall ==
  \E f \in Signatures :
    LET n == Len(f.params)
        passed(i) == generate_type_conversion(Top(n - i), f.params[i])
        fit == \A i \in 1 .. n : \A e \in passed(i) : IsValue(e) => Fits(e, BitsOf(f.params[i]))
    IN  /\ Has(n) /\ Len(stack) - n < MaxStack
        /\ \/ \E i \in 1 .. n : \E e \in passed(i) : ~IsValue(e) /\ Unconverted(e)
           \/ /\ \A i \in 1 .. n : \E e \in passed(i) : IsValue(e)
              /\ \E b \in BitsOf(f.ret) : Replace(n, Node(f.ret, IF fit THEN b ELSE "wrong"))

Return ==
  /\ Has(1)
  /\ \E f \in Signatures : \E e \in generate_type_conversion(Top(0), f.ret) :
       IF ~IsValue(e) THEN Unconverted(e)
       ELSE IF Fits(e, BitsOf(f.ret)) THEN Drop(1)
       ELSE Replace(1, Node(e.type, "wrong"))

----------------------------------------------------------------------------
(* Arrays, pointers, structures.                                           *)

ArrayLit ==
  /\ Has(2)
  /\ Avoids("null_first", Top(1).type = SPEC_NULL)
  /\ IF ~cmp_types(Top(1).type, Top(0).type) THEN Reject
     ELSE Replace(2, Node(Array(Top(1).type),
                          IF Fits(Top(0), BitsOf(Top(1).type)) THEN "ref" ELSE "wrong"))

IsIndexable(t) == kind(t) = "array" \/ cmp_types(STR, t)

(* The type of the subscript is not looked at.                             *)
ArraySubscript ==
  /\ Has(2)
  /\ Avoids("other_subscript", Top(0).type # INT)
  /\ LET a == Top(1).type
         t == IF kind(a) = "array" THEN Of(a) ELSE INT
     IN  IF ~IsIndexable(a) THEN Reject
         ELSE \E b \in BitsOf(t) :
                Replace(2, Place(t, IF Fits(Top(0), {"int"}) THEN b ELSE "wrong"))

ArraySlice ==
  /\ Has(3)
  /\ IF IsIndexable(Top(2).type) /\ cmp_types(Top(1).type, INT) /\ cmp_types(Top(0).type, INT)
       THEN Replace(3, Node(Top(2).type, "ref")) ELSE Reject

ArrayRange ==
  /\ Has(2)
  /\ IF cmp_types(INT, Top(1).type) /\ cmp_types(INT, Top(0).type)
       THEN Replace(2, Node(Array(INT), "ref")) ELSE Reject

Deref ==
  /\ Has(1)
  /\ IF kind(Top(0).type) \notin {"pointer", "optional"} THEN Reject
     ELSE \E b \in BitsOf(Of(Top(0).type)) : Replace(1, Place(Of(Top(0).type), b))

AddrGet ==
  /\ Has(1)
  /\ IF Top(0).lvalue THEN Replace(1, Node(Pointer(Top(0).type), "ref")) ELSE Reject

New ==
  /\ Fresh
  /\ \E t \in VarTypes : Replace(0, Node(Pointer(t), "ref"))

SizeOf ==
  /\ Fresh
  /\ Replace(0, Node(INT, "int"))

Rand ==
  /\ Has(1)
  /\ LET t == Top(0).type
     IN  IF kind(t) = "array" THEN \E e \in Values(Of(t)) : Replace(1, e)
         ELSE IF t \in {INT, REAL} THEN Replace(1, Node(t, Top(0).bits))
         ELSE Reject

(* if, while, do, for: the value is tested and popped.                     *)
Condition ==
  /\ Has(1)
  /\ IF cast_to_boolean(Top(0)) = Rejected THEN Reject
     ELSE IF Top(0).bits # "none" THEN Drop(1)
     ELSE Replace(1, Node(Top(0).type, "wrong"))

Stopped == phase # "running" /\ UNCHANGED vars

----------------------------------------------------------------------------
Init == stack = <<>> /\ phase = "running" /\ at = "-"

Next ==
  \/ Constant \/ Ident \/ Binop \/ OptionalTest \/ Unary \/ CastExpression \/ Ternary \/ Assignment
  \/ FuncCall \/ Return \/ ArrayLit \/ ArraySubscript \/ ArraySlice \/ ArrayRange \/ Deref
  \/ AddrGet \/ New \/ SizeOf \/ Rand \/ Condition \/ Stopped

Spec == Init /\ [][Next]_vars

----------------------------------------------------------------------------
(* Properties.                                                             *)
(* Whatever the pass accepts, a value looks like its type says where it is *)
(* used: an int that meets a real has gone through a conversion, and no    *)
(* instruction is picked from a row of the tables that does not fit its    *)
(* operands.                                                               *)
BitsFitTypes ==
  \A i \in DOMAIN stack : stack[i].bits \in BitsOf(stack[i].type)

(* Two types that mention no special type compare equal exactly when they  *)
(* are the same type, and every comparison is symmetric: no overload and   *)
(* no conversion depends on the order of the operands.                     *)
CmpIsEquality ==
  \A i, j \in DOMAIN stack :
    LET l == stack[i].type
        r == stack[j].type
    IN  /\ cmp_types(l, r) = cmp_types(r, l)
        /\ IsPlain(l) /\ IsPlain(r) => (cmp_types(l, r) <=> l = r)

(* Where the generator stops at an assertion for a program the semantic    *)
(* pass has accepted: at in when its right operand is no array of its left *)
(* one's type (1 in 2); at the rows of the tables with "invl", as ~ and    *)
(* the bit operators of reals, - and the bit operators of strings, ! of a  *)
(* real or a string; at ! of an optional or a function; at ~ of a number;  *)
(* at the cast of an int, a real or a string to its own type, and of what  *)
(* is neither basic nor a reference, or of null, to an equal type.         *)
AssertionKnown(op) ==
  LET l == Top(1).type
      t == Top(0).type
  IN  CASE op = "cast" -> t \in {INT, REAL, STR, SPEC_NULL} \/ kind(t) = "array"
        [] op = "lnot" -> t \in {REAL, STR} \/ kind(t) \in {"optional", "function"}
        [] op = "not"  -> t \in {INT, REAL}
        [] op = "in"   -> ~(kind(t) = "array" /\ cmp_types(Of(t), l))
        [] op = "cat"  -> l = REAL
        [] op = "sub"  -> l = STR
        [] op = "bitand" -> l \in {REAL, STR}
        [] OTHER       -> FALSE

(* Where it goes astray: at ~ of two ints, at a binary operator whose left *)
(* operand is null or no basic type (two arrays compared), at ! of null or *)
(* of a structure, at a cast of either, and wherever a special type would  *)
(* have to be converted: the matrix of casts has no entry for one.         *)
AstrayKnown(op) ==
  LET l == Top(1).type
      t == Top(0).type
  IN  CASE op = "lnot" -> t = SPEC_NULL \/ is_struct(t)
        [] op \in BinOps -> \/ l = SPEC_NULL \/ (l = INT /\ op = "cat")
                           \/ kind(l) \in {"array", "optional", "function"}
        [] op = "cast" -> t = SPEC_NULL \/ is_struct(t)
        [] OTHER       -> op = "conversion"

(* What the semantic pass accepts has an instruction but in these cases.   *)
InstructionsFound ==
  /\ phase = "failed" => AssertionKnown(at)
  /\ phase = "astray" => AstrayKnown(at)
=============================================================================
