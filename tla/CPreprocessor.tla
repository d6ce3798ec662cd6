--------------------------- MODULE CPreprocessor ----------------------------
(***************************************************************************)
(* What macros and conditions mean in C, the language the preprocessor     *)
(* follows: a reference, not a model of its code.  A macro call is         *)
(* replaced by the body and the result is read again, the leftmost call    *)
(* first; an expression has precedences, its operators associate to the    *)
(* left, and ! binds strongest.                                            *)
(*                                                                         *)
(* macros is a function from names to [args, variadic, tokens]; a token    *)
(* is a pair of its type and its data.                                     *)
(***************************************************************************)
EXTENDS PPExpr

Calls(t, macros) == IsName(t) /\ Data(t) \in DOMAIN macros
ObjectLike(m)    == m.args = <<>> /\ ~m.variadic

Error == <<"error", "">>

(* The arguments of a call, from what follows the opening parenthesis, and *)
(* the rest; "open" tells that the parenthesis is not closed.              *)
RECURSIVE ReadCall(_, _, _, _)
ReadCall(s, depth, arg, args) ==
  IF s = <<>> THEN [args |-> args, rest |-> <<>>, open |-> TRUE]
  ELSE LET t == Head(s)
       IN  CASE Type(t) = "rp" /\ depth = 0 ->
                  [args |-> IF arg = <<>> /\ args = <<>> THEN <<>> ELSE Append(args, arg),
                   rest |-> Tail(s), open |-> FALSE]
             [] Type(t) = "comma" /\ depth = 0 ->
                  ReadCall(Tail(s), depth, <<>>, Append(args, arg))
             [] OTHER ->
                  ReadCall(Tail(s),
                           depth + (IF Type(t) = "lp" THEN 1
                                    ELSE IF Type(t) = "rp" THEN -1 ELSE 0),
                           Append(arg, t), args)

(* The body of a macro with its parameters replaced.  A comma before       *)
(* __VA_ARGS__ goes with the arguments when there are none.                *)
RECURSIVE Commas(_)
Commas(args) ==
  IF args = <<>> THEN <<>>
  ELSE IF Len(args) = 1 THEN args[1]
  ELSE args[1] \o <<<<"comma", "">>>> \o Commas(Tail(args))

RECURSIVE Body(_, _, _)
Body(m, s, args) ==
  IF s = <<>> THEN <<>>
  ELSE LET t        == Head(s)
           Param(u) == IF IsName(u) THEN {k \in DOMAIN m.args : m.args[k] = Data(u)} ELSE {}
           Arg(u)   == args[CHOOSE k \in Param(u) : TRUE]
           extra    == SubSeq(args, Len(m.args) + 1, Len(args))
           VaArgs(u) == m.variadic /\ u = <<"id", "__VA_ARGS__">>
           second   == IF Len(s) > 1 THEN s[2] ELSE <<"none", "">>
       IN  CASE Type(t) = "hash" /\ Param(second) # {} ->
                  <<<<"str", Arg(second)>>>> \o Body(m, Tail(Tail(s)), args)
             [] Param(t) # {} -> Arg(t) \o Body(m, Tail(s), args)
             [] Type(t) = "comma" /\ VaArgs(second) /\ extra = <<>> ->
                  Body(m, Tail(Tail(s)), args)
             [] VaArgs(t) -> Commas(extra) \o Body(m, Tail(s), args)
             [] m.variadic /\ t = <<"id", "__VA_COUNT__">> ->
                  <<<<"int", Len(args)>>>> \o Body(m, Tail(s), args)
             [] OTHER -> <<t>> \o Body(m, Tail(s), args)

(* The text s expanded, up to an error.                                    *)
RECURSIVE Expanded(_, _)
Expanded(s, macros) ==
  IF s = <<>> THEN <<>>
  ELSE LET t      == Head(s)
           m      == macros[Data(t)]
           called == Len(s) > 1 /\ Type(s[2]) = "lp"
           call   == ReadCall(Tail(Tail(s)), 0, <<>>, <<>>)
           n      == Len(call.args)
       IN  IF ~Calls(t, macros) \/ (~ObjectLike(m) /\ ~called)
           THEN <<t>> \o Expanded(Tail(s), macros)
           ELSE IF ObjectLike(m)
           THEN Expanded(m.tokens \o Tail(s), macros)
           ELSE IF call.open \/ n < Len(m.args) \/ (n > Len(m.args) /\ ~m.variadic)
           THEN <<Error>>
           ELSE Expanded(Body(m, m.tokens, call.args) \o call.rest, macros)

(* How many times a text has to be read again at most: macros within the   *)
(* bodies and the arguments of macros, counted to the depth n.             *)
RECURSIVE Weight(_, _, _)
Weight(s, macros, n) ==
  IF s = <<>> \/ n = 0 THEN 0
  ELSE LET m       == macros[Data(Head(s))]
           called  == Len(s) > 1 /\ Type(s[2]) = "lp"
           args    == FlattenSeq(ReadCall(Tail(Tail(s)), 0, <<>>, <<>>).args)
           first   == IF ~Calls(Head(s), macros) THEN 0
                      ELSE 1 + Weight(m.tokens, macros, n - 1)
                             + (IF called THEN Weight(args, macros, n) ELSE 0)
           behind  == Weight(Tail(s), macros, n)
       IN  IF first > behind THEN first ELSE behind

----------------------------------------------------------------------------
(* The operators of the expression that are in no parenthesis, and not the *)
(* operand of another.                                                     *)
Outside(s) ==
  {i \in DOMAIN s :
     /\ Type(s[i]) = "op" /\ Data(s[i]) \in Binary
     /\ i > 1 /\ i < Len(s)
     /\ Cardinality({j \in 1 .. i : Type(s[j]) = "lp"})
          = Cardinality({j \in 1 .. i : Type(s[j]) = "rp"})}

(* The weakest operators of an expression, and the last of them.           *)
Weakest(s) ==
  {i \in Outside(s) : \A j \in Outside(s) : precedence(Data(s[i])) <= precedence(Data(s[j]))}

(* The number a condition without macros and without defined stands for,   *)
(* or an error, or a crash.                                                *)
RECURSIVE Meaning(_)
Meaning(s) ==
  LET n  == Len(s)
      i  == CHOOSE i \in Weakest(s) : \A j \in Weakest(s) : j <= i
      op == Data(s[i])
      x  == Meaning(SubSeq(s, 1, i - 1))
      y  == Meaning(SubSeq(s, i + 1, n))
      z  == Meaning(Tail(s))
  IN  CASE n = 0 -> Error
        [] n = 1 -> IF Type(s[1]) = "int" THEN s[1] ELSE Error
        [] n > 1 /\ Outside(s) # {} ->
             IF Type(x) # "int"      THEN x
             ELSE IF Type(y) # "int" THEN y
             ELSE IF op \in {"in", "~"} THEN Error
             ELSE IF op \in {"/", "%"} /\ Data(y) = 0 THEN <<"crashed", "">>
             ELSE <<"int", eval_int_binop(op, Data(x), Data(y))>>
        [] n > 1 /\ Outside(s) = {} /\ s[1] = <<"op", "!">> ->
             IF Type(z) # "int" THEN z ELSE <<"int", Truth(Data(z) = 0)>>
        [] n > 1 /\ Outside(s) = {} /\ Type(s[1]) = "lp" /\ Type(s[n]) = "rp" ->
             Meaning(SubSeq(s, 2, n - 1))
        [] OTHER -> Error

(* A condition: defined ( X ) is a number, and is not expanded.            *)
RECURSIVE Known(_, _)
Known(s, macros) ==
  IF s = <<>> THEN <<>>
  ELSE IF DefinedCall(s, 1)
  THEN <<<<"int", Truth(Data(s[3]) \in DOMAIN macros)>>>> \o Known(SubSeq(s, 5, Len(s)), macros)
  ELSE <<Head(s)>> \o Known(Tail(s), macros)

Condition(s, macros) == Expanded(Known(s, macros), macros)

(* Two operators of an expression that bind equally strong.                *)
EqualOperators(s) ==
  \E i, j \in DOMAIN s :
    /\ i < j
    /\ Type(s[i]) = "op" /\ Type(s[j]) = "op"
    /\ Data(s[i]) \in Binary /\ Data(s[j]) \in Binary
    /\ precedence(Data(s[i])) = precedence(Data(s[j]))
=============================================================================
