--------------------------- MODULE MCAstOptimize ---------------------------
(***************************************************************************)
(* Expressions for TLC, with the types and the conversions the semantic    *)
(* pass gives them.                                                        *)
(***************************************************************************)
EXTENDS AstOptimize, TLC

MCOverloads == {<<"%", "S", "int">>, <<"+", "S", "int">>, <<"&", "S", "int">>}

I(v)        == <<"int", v, <<>>, "int", TRUE>>
R(n)        == <<"real", <<n, 2>>, <<>>, "real", TRUE>>
Var(name, type) == <<"var", name, <<>>, type, TRUE>>
Enclosed(e) == <<"enclosed", "", <<e>>, Type(e), TRUE>>
Operand(e)  == IF IsPrimary(e) THEN e ELSE Enclosed(e)
Cast(to, e) == <<"cast", to, <<Operand(e)>>, to, TRUE>>
Un(op, e)   == <<"unary", op, <<IF op = "!" THEN Enclosed(Operand(e)) ELSE Operand(e)>>,
                 IF op = "?" THEN "int" ELSE Type(e), TRUE>>

(* generate_type_conversion: the right operand takes the type of the left. *)
As(type, e) == IF Type(e) \in {type, "S"} \/ type = "S" THEN e
               ELSE <<"cast", type, <<Enclosed(e)>>, type, TRUE>>
Bin(op, l, r) ==
  <<"binop", op, <<l, As(Type(l), r)>>, IF op \in Comparisons THEN "int" ELSE Type(l), FALSE>>
Ternary(c, l, r) == <<"ternary", "", <<c, l, r>>, Type(l), FALSE>>
Match(c, l, r)   == <<"match", "", <<c, l, r>>, Type(l), TRUE>>
At(i)            == <<"subscript", "", <<Var("a", "array"), i>>, "int", TRUE>>

X      == Var("x", "int")
Leaves == {X, I(0), I(1), I(2), I(3), I(4)}
Ops    == {"+", "-", "*", "/", "%", "&", "|", "^", "<<", ">>", "&&", "||", "==", "<"}
Sums   == {Bin(op, l, r) : op \in Ops, l \in Leaves, r \in Leaves}
Small  == {Bin(op, l, r) : op \in {"+", "-", "*", "/", "%"}, l \in {X, I(2), I(3)},
                           r \in {X, I(2), I(4)}}
Negative == {Bin("-", Un("-", I(7)), I(1)), Un("-", I(1)), Un("-", I(2))}

Doubled == {Bin(op, Enclosed(s), l) : op \in {"*", "/", "%", "+"}, s \in Small, l \in {X, I(2), I(3)}}
         \cup {Bin(op, l, Enclosed(s)) : op \in {"*", "/", "%", "-"}, s \in Small, l \in {X, I(4), I(3)}}
Minus == {Bin(op, Operand(l), Operand(r)) : op \in {"*", "/", "%"}, l \in Negative \cup {X}, r \in Negative}

Reals == {R(3), R(4), Var("r", "real")}
Same(l, r) == Enclosed(Bin("==", l, r))
Floats == {Bin(op, Same(l, r), I(2)) : op \in {"+", "*", "%"}, l, r \in Reals} \cup
          {Bin(op, l, r) : op \in {"+", "*", "/", "%", "<", "=="}, l \in Reals, r \in Reals \cup {I(2), X}}
          \cup {Bin(op, l, r) : op \in {"+", "*", "/", "%", "=="}, l \in {I(2), X}, r \in Reals}

Ones  == Leaves \cup Sums \cup Floats \cup Small
Unaries == {Un(op, e) : op \in {"!", "~", "-", "+"}, e \in Leaves \cup Small \cup {At(I(1))}}
           \cup {Un("-", e) : e \in Reals \cup {f \in Floats : Type(f) = "real"}}
           \cup {Un("!", f) : f \in {f \in Floats : Type(f) = "int"}}
           \cup {Un("-", Cast("real", e)) : e \in Leaves \cup Small}
           \cup {Un("?", Var("o", "optional"))}
Casts == {Cast(to, e) : to \in {"real", "int", "string"}, e \in Leaves \cup Small \cup Floats \cup Reals}
Parentheses == {Enclosed(Enclosed(e)) : e \in Leaves \cup Unaries}
               \cup {Bin("*", Enclosed(Enclosed(l)), r) : l, r \in {X, I(2), I(3)}}
Structures == {Bin(op, Var("s", "S"), r) :
                 op \in {"%", "+", "&"}, r \in {I(3), I(4), X, Enclosed(Bin("*", I(2), I(2)))}}
Forms == {Ternary(c, l, r) : c \in {X, Bin("<", I(1), I(2))}, l, r \in Small}
         \cup {Match(X, l, r) : l, r \in {Bin("/", I(1), I(0)), Bin("+", I(1), I(1)), Bin("%", X, I(4))}}
         \cup {At(i) : i \in Small \cup {Bin("/", I(1), I(0))}}
         \cup {Bin("+", At(i), I(2)) : i \in Small}
         \cup {Bin("~", l, r) : l, r \in {X, I(1)}}

(* Divisors the pass computes: quotients of constants, sums of those, and  *)
(* comparisons of reals.                                                   *)
Quotients == {Bin(op, l, r) : op \in {"/", "%"}, l \in {I(3), Un("-", I(1)), Un("-", I(3))},
                              r \in {I(0), I(2), I(3)}}
Divisors  == Quotients \cup {Bin(op, q, r) : op \in {"+", "-"}, q \in Quotients, r \in {I(1), I(2)}}
             \cup {Same(l, r) : l, r \in Reals} \cup {Cast("int", Same(l, r)) : l, r \in Reals}
Nested    == {Bin(op, l, Operand(d)) : op \in {"/", "%"}, l \in {X, I(1)}, d \in Divisors}

MCSources == {<<e>> : e \in Ones \cup Doubled \cup Minus \cup Unaries \cup Casts \cup Parentheses
                           \cup Structures \cup Forms \cup Nested}
             \cup {<<Bin("+", X, I(1)), e>> : e \in Small}
=============================================================================
