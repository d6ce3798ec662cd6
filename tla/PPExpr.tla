------------------------------- MODULE PPExpr -------------------------------
(***************************************************************************)
(* The value of the expression of an #if (pp_expr_parser.c): the tokens    *)
(* are put into reverse Polish notation with two stacks and then           *)
(* evaluated.                                                              *)
(*                                                                         *)
(* A token is a tuple of its type, its data and the place in the file      *)
(* where it was read.  Numbers are small: no result leaves the range of    *)
(* an int.                                                                 *)
(***************************************************************************)
EXTENDS Integers, Sequences, FiniteSets, SequencesExt

Type(t) == t[1]
Data(t) == t[2]
At(t)   == t[3]

IsName(t) == Type(t) = "id"
(* A name is taken for defined by its first seven letters (strncmp).       *)
DefinedNames == {"defined", "definedness"}
IsDefined(t) == IsName(t) /\ Data(t) \in DefinedNames

(* defined ( X ) at place i of a list.                                     *)
DefinedCall(list, i) ==
  /\ i + 3 <= Len(list)
  /\ IsDefined(list[i])
  /\ Type(list[i + 1]) = "lp" /\ IsName(list[i + 2]) /\ Type(list[i + 3]) = "rp"

----------------------------------------------------------------------------
(* The table of the operators; ~ is also the name of the binary cat.       *)
Unary  == {"++", "--", "!"}
Levels == <<{"||"}, {"&&"}, {"|"}, {"^"}, {"&"}, {"==", "!="}, {">", ">=", "<", "<="},
            {"in"}, {"<<", ">>"}, {"+", "-", "~"}, {"*", "/", "%"}>>
Binary == UNION {Levels[n] : n \in DOMAIN Levels}
precedence(op) == CHOOSE n \in DOMAIN Levels : op \in Levels[n]

Truth(b)     == IF b THEN 1 ELSE 0
Abs(x)       == IF x < 0 THEN -x ELSE x
Quotient(x, y) ==
  IF (x < 0) = (y < 0) THEN Abs(x) \div Abs(y) ELSE -(Abs(x) \div Abs(y))

(* The operators whose result an expression of this model may ask for: the *)
(* bitwise ones and the shifts are left out.                               *)
eval_int_binop(op, x, y) ==
  CASE op = "+"  -> x + y
    [] op = "-"  -> x - y
    [] op = "*"  -> x * y
    [] op = "/"  -> Quotient(x, y)
    [] op = "%"  -> x - y * Quotient(x, y)
    [] op = "==" -> Truth(x = y)
    [] op = "!=" -> Truth(x # y)
    [] op = ">"  -> Truth(x > y)
    [] op = ">=" -> Truth(x >= y)
    [] op = "<"  -> Truth(x < y)
    [] op = "<=" -> Truth(x <= y)
    [] op = "&&" -> Truth(x # 0 /\ y # 0)
    [] op = "||" -> Truth(x # 0 \/ y # 0)

----------------------------------------------------------------------------
(* A result: "ok" with a number, an "error" message, a failed assertion    *)
(* ("aborted"), a signal ("crashed") or a read of what is not there        *)
(* ("undefined").                                                          *)
Result(status, value) == [status |-> status, value |-> value]

(* evaluate_rpl_input: the stack of numbers after one more item.           *)
Applied(st, item) ==
  LET n   == Len(st.stack)
      x   == st.stack[n - 1]
      y   == st.stack[n]
      Fails(how) == [st EXCEPT !.status = how]
      Gives(k, v) == [st EXCEPT !.stack = Append(SubSeq(@, 1, n - k), v)]
  IN  CASE st.status # "ok"        -> st
        [] Type(item) = "int"      -> Gives(0, Data(item))
        [] Data(item) = "~"        -> Fails("error")
        [] Data(item) \in Unary    -> IF n = 0 THEN Fails("error")
                                      ELSE IF Data(item) = "!" THEN Gives(1, Truth(y = 0))
                                      ELSE Fails("aborted")
        [] n <= 1                  -> Fails("error")
        [] Data(item) \in {"(", "in"} -> Fails("aborted")
        [] Data(item) \in {"/", "%"} /\ y = 0 -> Fails("crashed")
        [] OTHER                   -> Gives(2, eval_int_binop(Data(item), x, y))

evaluate_rpl_input(rpl) ==
  LET end == FoldLeft(Applied, [stack |-> <<>>, status |-> "ok"], rpl)
  IN  IF end.status # "ok"     THEN Result(end.status, 0)
      ELSE IF Len(end.stack) # 1 THEN Result("error", 0)
      ELSE Result("ok", end.stack[1])

----------------------------------------------------------------------------
(* pp_evaluate_expr.                                                       *)

(* The operators above the topmost one in the set are popped.              *)
Popped(st, staying) ==
  LET kept == {n \in DOMAIN st.ops : st.ops[n] \in staying}
      n    == IF kept = {} THEN 0 ELSE CHOOSE n \in kept : \A m \in kept : m <= n
      k    == Len(st.ops)
  IN  [st EXCEPT !.rpl = @ \o [i \in 1 .. k - n |-> <<"op", st.ops[k + 1 - i]>>],
                 !.ops = SubSeq(@, 1, n)]

(* Mutant: the unary operators stay, too.                                  *)
UnaryStays(op) == {"("} \cup Unary \cup {b \in Binary : precedence(b) <= precedence(op)}

(* What a binary operator does not pop: one that binds as strong stays.    *)
StaysBefore(op) == {"("} \cup {b \in Binary : precedence(b) <= precedence(op)}

(* Token i of the list, when the set of macros is defined.                 *)
Shunted(st, list, i, macros) ==
  LET t      == list[i]
      inner  == Popped(st, {"("})
      Fails  == [st EXCEPT !.error = TRUE]
      Adds(n)    == [st EXCEPT !.rpl = Append(@, <<"int", n>>)]
      Pushes(op) == [st EXCEPT !.ops = Append(@, op)]
  IN  CASE st.error \/ i < st.next -> st
        [] Type(t) = "int"          -> Adds(Data(t))
        [] DefinedCall(list, i)     -> [Adds(Truth(Data(list[i + 2]) \in macros))
                                          EXCEPT !.next = i + 5]
        [] Type(t) = "op" /\ Data(t) \in Unary  -> Pushes(Data(t))
        [] Type(t) = "op" /\ Data(t) \in Binary ->
             [Popped(st, StaysBefore(Data(t))) EXCEPT !.ops = Append(@, Data(t))]
        [] Type(t) = "lp"           -> Pushes("(")
        [] Type(t) = "rp" /\ inner.ops # <<>> -> [inner EXCEPT !.ops = Front(@)]
        [] OTHER                    -> Fails

(* pp_evaluate_expr.  Without a token it reads the first one all the same. *)
pp_evaluate_expr(list, macros) ==
  LET Step(st, i) == Shunted(st, list, i, macros)
      end == FoldLeftDomain(Step, [rpl |-> <<>>, ops |-> <<>>, next |-> 1, error |-> FALSE], list)
  IN  IF list = <<>>    THEN Result("undefined", 0)
      ELSE IF end.error THEN Result("error", 0)
      ELSE evaluate_rpl_input(Popped(end, {}).rpl)
=============================================================================
