----------------------------- MODULE MCExprCode -----------------------------
(***************************************************************************)
(* Programs for TLC that use ints, arrays, structs, pointers and           *)
(* optionals in each other, besides those of MCAstOptimize.                *)
(***************************************************************************)
EXTENDS ExprCode, MCAstOptimize

MCLocals == << <<"x", "int">>, <<"i", "int">>, <<"a", "int[3]">>, <<"s", "P">>, <<"t", "P">>,
               <<"q", "Q">>, <<"k", "P[2]">>, <<"m", "int[2][3]">>, <<"p", "P*">>, <<"r", "int*">>,
               <<"o", "int?">>, <<"z", "P?">>, <<"w", "string">> >>
MCStructs == [P |-> << <<"v", "int">>, <<"u", "int">> >>,
              Q |-> << <<"c", "int">>, <<"n", "P">>, <<"b", "int[3]">> >>]
MCElement == ("int[3]" :> "int") @@ ("P[2]" :> "P") @@ ("int[2][3]" :> "int[3]")
MCLength  == ("int[3]" :> 3) @@ ("P[2]" :> 2) @@ ("int[2][3]" :> 2)
MCTarget  == ("P*" :> "P") @@ ("int*" :> "int") @@ ("int?" :> "int") @@ ("P?" :> "P")
MCOptionals == {"int?", "P?"}
MCArity   == [id |-> 2, get |-> 2, succ |-> 1]

Node(kind, token, kids, type) == <<kind, token, kids, type, TRUE>>
L(name) == LET local == CHOOSE l \in ToSet(MCLocals) : l[1] = name IN Var(name, local[2])

Sub(e, j) == Node("subscript", "", <<e, j>>, IF IsArray(Type(e)) THEN Element[Type(e)] ELSE "int")
Field(e, f) == Node("access", f, <<e>>, Structs[Type(e)][FieldIndex(Type(e), f)][2])
Arrow(e, f) == Node("arrow", f, <<e>>, Structs[Target[Type(e)]][FieldIndex(Target[Type(e)], f)][2])
Deref(e)    == Node("deref", "", <<e>>, Target[Type(e)])
Addr(e)     == Node("addr", "", <<e>>, Type(e) \o "*")
Plus(l, r)  == <<"binop", "+", <<l, r>>, "int", FALSE>>
Choice(c, l, r) == <<"ternary", "", <<c, l, r>>, Type(l), FALSE>>
P(v, u)     == Node("init", "P", <<v, u>>, "P")
Q(c, n, b)  == Node("init", "Q", <<c, n, b>>, "Q")
List(es, type) == Node("array", "", es, type)
Call(f, es) == Node("call", f, es, IF f = "id" THEN "P" ELSE "int")
Let(l, e)   == <<"assign", "discard_result", <<l, e>>, Type(l), FALSE>>
Also(l, e)  == Enclosed(<<"assign", "", <<l, e>>, Type(l), FALSE>>)

MCSetup ==
  << Let(L("x"), I(2)), Let(L("i"), I(1)), Let(L("a"), List(<<I(2), I(0), I(1)>>, "int[3]")),
     Let(L("s"), P(I(10), I(11))), Let(L("t"), P(I(12), I(13))),
     Let(Sub(L("k"), I(0)), P(I(14), I(15))), Let(Sub(L("k"), I(1)), P(I(16), I(17))),
     Let(L("q"), Q(I(18), P(I(19), I(20)), L("a"))),
     Let(Sub(Sub(L("m"), I(1)), I(1)), I(21)),
     Let(L("p"), Addr(L("t"))), Let(L("r"), Addr(Sub(L("a"), I(1)))), Let(L("o"), I(1)),
     Let(L("z"), L("s")), Let(L("w"), List(<<I(22), I(23)>>, "int[3]")) >>

Indices == {I(1), L("i"), Sub(L("a"), I(1)), Sub(L("a"), L("i")), Deref(L("r")), Plus(I(1), I(1))}
Elements == {Sub(L("a"), j) : j \in Indices} \cup {Sub(L("w"), I(1)), Sub(Field(L("q"), "b"), L("i"))}
Points  == {L("s"), L("t"), Field(L("q"), "n"), Deref(L("p")), Deref(L("z"))}
           \cup {Sub(L("k"), j) : j \in {I(1), L("i"), Sub(L("a"), I(1))}}
Pointers == {L("p"), L("z"), Addr(L("s")), Addr(Field(L("q"), "n")), Addr(Sub(L("k"), Sub(L("a"), I(1)))),
             Node("new", "P", <<>>, "P*"), Choice(L("x"), L("p"), Addr(Sub(L("k"), I(1))))}
InParens(e) == IF Kind(e) \in {"var", "subscript", "access", "arrow"} THEN e ELSE Enclosed(e)
Fields  == {Field(InParens(e), "u") : e \in Points} \cup {Arrow(InParens(e), "u") : e \in Pointers}
IntPlaces == Elements \cup Fields
             \cup {Deref(L("r")), Deref(L("o")), Sub(Sub(L("m"), I(1)), L("i")), Field(L("q"), "c")}

Values1 == {I(5), L("x"), Plus(L("x"), Sub(L("a"), L("i"))), Call("succ", <<Sub(L("a"), I(1))>>),
            Call("get", <<L("s"), Sub(L("a"), I(1))>>), Choice(L("x"), Sub(L("a"), I(1)), I(7)),
            Also(L("x"), I(3)), Also(Sub(L("a"), L("i")), I(4)), Also(Sub(L("a"), Also(L("i"), I(2))), I(4))}
           \cup IntPlaces
Structured == Points
  \cup {Call("id", <<e, n>>) :
           e \in Points,
           n \in {I(1), Sub(L("a"), I(1)), Also(Sub(L("a"), Sub(L("a"), I(1))), I(4))}}
  \cup {Choice(c, l, r) : c \in {L("x"), Sub(L("a"), I(1))}, l \in Points, r \in Points}
  \cup {P(n, L("x")) : n \in Values1} \cup {Also(L("t"), e) : e \in Points}

Statements ==
  {Let(l, e) : l \in IntPlaces \cup {L("x")}, e \in Values1}
  \cup {Let(l, e) : l \in Points, e \in Structured}
  \cup {Let(L("x"), Field(InParens(e), "u")) : e \in Structured}
  \cup {Call("get", <<e, n>>) : e \in Structured, n \in {I(1), Sub(L("a"), L("i"))}}
  \cup {Let(L("p"), e) : e \in Pointers \ {L("z")}} \cup {Let(L("r"), Addr(e)) : e \in IntPlaces}
  \cup {Let(L("q"), Q(n, e, L("a"))) : n \in {I(1), Sub(L("a"), I(1))}, e \in Points}
  \cup {Let(L("a"), List(<<n, L("x"), I(1)>>, "int[3]")) : n \in Values1}
  \cup {Let(L("k"), List(<<L("s"), L("t")>>, "P[2]"))}
  \cup {Let(L("x"), Node("rand", "", <<l, r>>, "int")) :
           l, r \in {I(1), Also(L("i"), I(0)), Sub(L("a"), I(1))}}
  \cup {Let(L("x"), Also(l, e)) :
           l \in IntPlaces,
           e \in {I(5), Sub(L("a"), L("i")), Also(L("i"), I(2)), Also(Sub(L("a"), I(1)), I(2))}}
  \cup {Let(L("s"), Also(L("t"), e)) : e \in Points}

AllSources == MCSources \cup {<<e, Let(L("x"), Sub(L("a"), L("i")))>> : e \in Statements}
=============================================================================
