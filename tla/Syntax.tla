------------------------------- MODULE Syntax -------------------------------
(***************************************************************************)
(* Tokens and trees of the language, for the parser (parser.c, lexer.h,    *)
(* ast_nodes.h).  A token is a string: its text, which is also its kind    *)
(* but for identifiers and literals.  A node of the tree is a triple       *)
(*   <<kind, token, children>>                                             *)
(* where token tells apart the forms of one kind.  What the program only   *)
(* uses in messages (locations and lengths) is left out.                   *)
(***************************************************************************)
EXTENDS Integers, SequencesExt

CONSTANTS
  Identifiers,                           (* The names programs may use.    *)
  Numbers, Floats, Strings             (* The literals they may use.     *)

Literals == Numbers \cup Floats \cup Strings
EOF      == "EOF"

(* The binary operators, with their precedences (operators.c:10-32).       *)
Precedence ==
  [op \in {"*", "/", "%", "+", "-", "~", "<<", ">>", "in", "<", "<=", ">", ">=",
           "==", "!=", "&", "^", "|", "&&", "||"} |->
     CASE op \in {"*", "/", "%"}         -> 40
       [] op \in {"+", "-", "~"}         -> 30
       [] op \in {"<<", ">>"}            -> 25
       [] op = "in"                      -> 22
       [] op \in {"<", "<=", ">", ">="}  -> 20
       [] op \in {"==", "!="}            -> 10
       [] op = "&"  -> 6
       [] op = "^"  -> 5
       [] op = "|"  -> 4
       [] op = "&&" -> 3
       [] op = "||" -> 2]
is_binop(op) == op \in DOMAIN Precedence
UnaryOps     == {"++", "--", "!"}
Operators    == DOMAIN Precedence \cup UnaryOps

(* The assignment tokens, with the operator a compound one stands for.     *)
Compound  == [t \in {"+=", "-=", "*=", "/=", "%=", "~="} |->
                CASE t = "+=" -> "+" [] t = "-=" -> "-" [] t = "*=" -> "*"
                  [] t = "/=" -> "/" [] t = "%=" -> "%" [] t = "~=" -> "~"]
AssignOps == DOMAIN Compound \cup {"="}

Leaf(t)    == <<"leaf", t, <<>>>>
Kind(n)    == n[1]
Token(n)   == n[2]
Kids(n)    == n[3]

(***************************************************************************)
(* The text of a tree.  A comma carries no meaning of its own and is left  *)
(* out: the trailing one of a match is optional.                           *)
(***************************************************************************)
RECURSIVE Text(_)
Text(n) ==
  LET k     == Kids(n)
      T(i)  == Text(k[i])
      From(i)     == FlattenSeq([j \in 1 .. Len(k) - i + 1 |-> Text(k[j + i - 1])])
      If(present) == IF present THEN <<Token(n)>> ELSE <<>>
      Assigned    == IF Token(n) \in DOMAIN Compound THEN Text(Kids(k[2])[2]) ELSE T(2)
  IN  CASE Kind(n) = "leaf"       -> <<Token(n)>>
        [] Kind(n) \in {"pointer", "optional"} -> T(1) \o <<Token(n)>>
        [] Kind(n) = "array"      -> T(1) \o <<"[">> \o From(2) \o <<"]">>
        [] Kind(n) = "function_type" -> T(1) \o <<"(">> \o From(2) \o <<")">>
        [] Kind(n) = "cast"       -> <<"(">> \o T(1) \o <<")">> \o T(2)
        [] Kind(n) = "enclosed"   -> IF Kind(k[1]) = "assign" /\ Token(k[1]) \in UnaryOps
                                     THEN <<Token(k[1])>> \o Text(Kids(k[1])[1])
                                     ELSE <<"(">> \o T(1) \o <<")">>
        [] Kind(n) = "array_lit"  -> <<"{">> \o From(1) \o <<"}">>
        [] Kind(n) = "range_gen"  -> <<"[">> \o T(1) \o <<"..">> \o T(2) \o <<"]">>
        [] Kind(n) = "prefix"     -> <<Token(n)>> \o T(1)
        [] Kind(n) = "rand"       -> <<"%">> \o T(1) \o If(Len(k) = 2) \o From(2)
        [] Kind(n) = "asm"        ->
             <<"asm", "(">> \o FlattenSeq([i \in 1 .. Len(k) |->
                 (IF i = Len(k) /\ Token(n) = ":" THEN <<":">> ELSE <<>>) \o T(i)]) \o <<")">>
        [] Kind(n) = "sizeof"     -> <<"sizeof", "(">> \o T(1) \o <<")">>
        [] Kind(n) = "new"        -> <<"new">> \o T(1)
        [] Kind(n) = "match"      -> <<"match", "(">> \o T(1) \o <<")", "{">> \o From(2) \o <<"}">>
        [] Kind(n) = "case"       ->
             FlattenSeq([i \in 1 .. Len(k) |->
                 (IF i = 1 THEN <<>> ELSE IF i = Len(k) THEN <<"=>">> ELSE <<"|">>) \o T(i)])
        [] Kind(n) = "range"      -> T(1) \o <<"..">> \o T(2)
        [] Kind(n) = "struct_init" -> <<Token(n), "(">> \o From(1) \o <<")">>
        [] Kind(n) = "subscript"  -> T(1) \o <<"[">> \o T(2) \o <<"]">>
        [] Kind(n) = "slice"      -> T(1) \o <<"[">> \o T(2) \o <<"..">> \o T(3) \o <<"]">>
        [] Kind(n) = "access"     -> T(1) \o <<Token(n)>> \o T(2)
        [] Kind(n) = "call"       -> IF Token(n) = ""
                                     THEN T(1) \o <<"(">> \o From(2) \o <<")">>
                                     ELSE T(2) \o <<Token(n)>> \o T(1) \o <<"(">> \o From(3) \o <<")">>
        [] Kind(n) = "assign"     -> T(1) \o <<Token(n)>> \o Assigned
        [] Kind(n) = "binop"      -> T(1) \o <<Token(n)>> \o T(2)
        [] Kind(n) = "ternary"    -> T(1) \o <<"?">> \o T(2) \o <<":">> \o T(3)
        [] Kind(n) = "empty"      -> <<";">>
        [] Kind(n) = "loop_ctrl"  -> <<Token(n), ";">>
        [] Kind(n) = "return"     -> <<"return">> \o From(1) \o <<";">>
        [] Kind(n) = "expression" -> T(1) \o <<";">>
        [] Kind(n) = "block"      -> <<"{">> \o From(1) \o <<"}">>
        [] Kind(n) = "if"         -> <<"if", "(">> \o T(1) \o <<")">> \o T(2) \o If(Len(k) = 3) \o From(3)
        [] Kind(n) = "while"      -> <<"while", "(">> \o T(1) \o <<")">> \o T(2)
        [] Kind(n) = "do"         -> <<"do">> \o T(1) \o <<"while", "(">> \o T(2) \o <<")", ";">>
        [] Kind(n) = "for"        -> <<"for", "(">> \o T(1) \o T(2) \o <<";">> \o T(3) \o <<")">> \o T(4)
        [] Kind(n) = "foreach"    ->
             <<"foreach">> \o If(Token(n) = "ref") \o <<"(">>
               \o FlattenSeq([i \in 1 .. Len(k) |->
                    T(i) \o (CASE i = Len(k) - 2 -> <<"in">> [] i = Len(k) - 1 -> <<")">>
                               [] OTHER -> <<>>)])
        [] Kind(n) = "variable"   -> T(1) \o T(2) \o If(Len(k) = 3) \o From(3) \o <<";">>
        [] Kind(n) = "typedef"    -> <<"typedef">> \o T(1) \o T(2) \o <<";">>
        [] Kind(n) = "struct"     -> <<"struct">> \o T(1) \o <<"{">> \o From(2) \o <<"}", ";">>
        [] Kind(n) = "parameters" -> <<"(">> \o From(1) \o <<")">>
        [] Kind(n) = "function"   -> From(1)

(***************************************************************************)
(* Operands group by precedence, to the left when it is the same.  An      *)
(* assignment may stand on the right of an operator, because its left side *)
(* cannot be a sum; a compound one stands for its operator applied to      *)
(* whatever is on its right.                                               *)
(***************************************************************************)
Grouped(n) ==
  \/ Kind(n) # "binop"
  \/ LET left == Kids(n)[1]  right == Kids(n)[2]
     IN  /\ Kind(left) \notin {"assign", "ternary"} /\ Kind(right) # "ternary"
         /\ Kind(left) = "binop" => Precedence[Token(left)] >= Precedence[Token(n)]
         /\ Kind(right) = "binop" => Precedence[Token(right)] > Precedence[Token(n)]
Written(n) ==   (* the children of a node that stand in the source          *)
  IF Kind(n) = "assign" /\ Token(n) # "="
  THEN <<Kids(n)[1], Kids(Kids(n)[2])[2]>> ELSE Kids(n)
RECURSIVE WellGrouped(_)
WellGrouped(n) == Grouped(n) /\ \A i \in DOMAIN Written(n) : WellGrouped(Written(n)[i])
=============================================================================
