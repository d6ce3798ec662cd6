------------------------------ MODULE MCMacros ------------------------------
(* Instances of MacroExpansion for TLC: a few macros and small sources.    *)
EXTENDS MacroExpansion

Id(name) == <<"id", name>>
Num(n)   == <<"int", n>>
Op(op)   == <<"op", op>>
LP    == <<"lp", "">>
RP    == <<"rp", "">>
Comma == <<"comma", "">>
Hash  == <<"hash", "">>

Def(name, args, variadic, body) ==
  [name |-> name, args |-> args, variadic |-> variadic, tokens |-> body]

DefA == Def("A", <<>>, FALSE, <<Num(1)>>)
DefB == Def("B", <<>>, FALSE, <<Id("A"), Op("+"), Id("A")>>)
DefE == Def("E", <<>>, FALSE, <<>>)
DefF == Def("F", <<"x">>, FALSE, <<Id("x"), Op("*"), Id("x")>>)
DefG == Def("G", <<"x", "y">>, FALSE, <<Id("F"), LP, Id("y"), RP, Op("-"), Id("x")>>)
DefI == Def("I", <<"x">>, FALSE, <<Id("x")>>)
DefS == Def("S", <<"x">>, FALSE, <<Hash, Id("x")>>)
DefT == Def("T", <<"x">>, FALSE, <<Id("S"), LP, Num(1), Id("x"), RP>>)
DefU == Def("U", <<"x">>, FALSE, <<Id("S"), LP, Id("x"), Num(1), RP>>)
DefV == Def("V", <<"x">>, TRUE, <<Id("x"), Comma, Id("__VA_ARGS__")>>)
DefW == Def("W", <<>>, TRUE, <<Id("__VA_ARGS__"), Id("__VA_COUNT__")>>)

Upto(S, n)    == UNION {[1 .. k -> S] : k \in 0 .. n}
Call(name, s) == <<Id(name), LP>> \o s \o <<RP>>

Arithmetic == <<DefA, DefB, DefF, DefI, DefG>>
Strings    == <<DefS, DefT, DefU, DefA>>
Variadic   == <<DefV, DefE>>
Lone       == <<DefE, DefW>>
Twice      == <<DefA, DefB, DefA>>
Files      == {Arithmetic, Strings, Variadic, Lone, Twice, <<DefE>>}

Input(defs, mode, sources) == [defs |-> defs, mode |-> mode, sources |-> sources]

Texts ==
  {Input(Arithmetic, "text", Upto({Id("A"), Id("F"), Id("I"), LP, RP}, 4)),
   Input(Arithmetic, "text",
     {Call("F", <<LP, Id("A"), RP>>), Call("I", <<Id("A"), Id("A")>>), <<Id("A")>> \o Call("I", <<>>),
      Call("F", Call("I", <<Id("A")>>)), Call("F", <<Id("B")>>),
      Call("G", <<Id("A"), Comma, Num(2)>>),
      Call("G", <<LP, Id("A"), Comma, Num(3), RP, Comma, Num(2)>>)}),
   Input(Strings, "text", Upto({Id("S"), Id("T"), Id("U"), LP, RP}, 4)),
   Input(Strings, "text", {Call("S", <<Id("A"), Num(2)>>), Call("S", <<Id("A")>>),
                           Call("T", <<Id("A")>>), Call("U", <<Id("A")>>)}),
   Input(Variadic, "text", Upto({Id("V"), Id("E"), LP, RP, Comma}, 4)),
   Input(Variadic, "text", {<<Id("__LINE__"), Id("E")>>, Call("V", <<Id("__FILE__")>>)}),
   Input(Lone, "text", Upto({Id("W"), Comma, LP, RP}, 4)),
   Input(Variadic, "text", {Call("V", <<Num(1), Comma, Id("E")>>),
                             Call("V", <<Num(1), Comma, Num(2), Comma, Num(3)>>)}),
   Input(Twice, "text", {<<Id("B")>>})}

Operands == {<<Num(2)>>, <<Num(0)>>, <<Id("B")>>, <<Op("!"), Id("A")>>,
             Call("defined", <<Id("A")>>), Call("defined", <<Id("Z")>>)}
Ops == {Op("-"), Op("*"), Op("||"), Op("/")}

Conditions ==
  {Input(Arithmetic, "if", {x \o <<op>> \o y : x \in Operands, y \in Operands, op \in Ops}),
   Input(Arithmetic, "if", {x \o <<p>> \o y \o <<q>> \o z :
                              x, y, z \in Operands \ {<<Num(0)>>}, p, q \in Ops \ {Op("/")}}),
   Input(Arithmetic, "if", {<<LP>> \o x \o <<p>> \o y \o <<RP, q>> \o z :
                              x, y, z \in Operands \ {<<Num(0)>>}, p, q \in Ops \ {Op("||")}}),
   Input(Arithmetic, "if", Upto({Num(1), Op("+"), Op("!"), Op("--"), LP, RP, Id("A")}, 3)),
   Input(Arithmetic, "if", {Call("F", <<Id("A")>>) \o <<Op("-"), Id("A")>>,
                            Call("I", <<Id("A")>>),
                            <<LP, Num(1), Num(2), Op("++")>>, <<LP, Num(1), Num(2)>>,
                            <<Op("!"), LP, Num(1), Op("-"), Id("A"), RP>>}),
   Input(<<DefE>>, "if", {<<Id("E")>>, <<Op("!"), Num(1), Op("+"), Num(2)>>})}

MCInputs   == Texts \cup Conditions
(* Every name of a file.                                                   *)
MCKeys     == UNION {{defs[n].name : n \in DOMAIN defs} : defs \in Files}
              \cup {"defined", "Z", "x", "__FILE__", "__LINE__"}
MCValues   == UNION {{MacroDef([defs |-> defs], n) : n \in DOMAIN defs} : defs \in Files}
MCBucket   == [k \in MCKeys |-> IF k \in {"A", "F", "S", "V", "E", "T"} THEN 0 ELSE 1]
=============================================================================
