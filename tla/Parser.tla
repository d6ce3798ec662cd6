------------------------------- MODULE Parser -------------------------------
(***************************************************************************)
(* The parser (parser.c): recursive descent over the list of tokens, with  *)
(* precedence climbing for binary operators, and setjmp/longjmp to try     *)
(* whether a type or a function follows.                                   *)
(*                                                                         *)
(* The C call stack is the variable todo: what the active functions have   *)
(* still to do, innermost first.  An item is a tuple that begins with its  *)
(* name.  The function that is called finds its item at the head, looks at *)
(* the next token, and replaces the item with the script of what it does   *)
(* from there.  The trees it makes wait in vals for the item that joins    *)
(* them.  A rewind saves its script, as longjmp comes back to it.          *)
(*                                                                         *)
(* The source is chosen while it is read: a topic has its first tokens and *)
(* the alphabet of the others.                                             *)
(***************************************************************************)
EXTENDS Syntax

CONSTANTS
  BasicTypes,  (* The names of types_init, with their class (see Class).   *)
  Builtins,    (* The names of the builtin functions.                      *)
  Topics       (* Records prefix, alphabet, limit: the bound on the length *)
               (* of a source.                                             *)

VARIABLES
  topic,
  tokens,        (* The tokens read so far; the last one may be EOF.       *)
  pos,           (* The pointer tokens of the code, as an index.           *)
  rewind_stack,  (* Entries: what rewind_data_t and the jump restore.      *)
  types,         (* Known names of types -> "void", "struct" or "other".   *)
  functions,     (* The names in function_list.                            *)
  program,       (* The finished declarations.                             *)
  vals, todo,
  phase          (* "parsing", "done", "error", "crashed".                 *)

vars == <<topic, tokens, pos, rewind_stack, types, functions, program, vals, todo, phase>>

----------------------------------------------------------------------------
(* Looking at tokens.                                                      *)

next_token == tokens[pos]
forward_1  == IF next_token = EOF THEN EOF ELSE tokens[pos + 1]

(* The items that need no token, and those that look at the one behind.    *)
Blind     == {"build", "assignment", "incdec", "method", "rewind_end", "not_void",
              "add_typedef", "declare_struct", "add_declaration", "add_function"}
Farsighted == {"member", "cases", "struct_init", "foreach_type"}

Item == Head(todo)
Rest == Tail(todo)

Known(n) == pos + n <= Len(tokens) \/ (tokens # <<>> /\ Last(tokens) = EOF)
Wanted   == IF Item[1] \in Blind THEN -1 ELSE IF Item[1] \in Farsighted THEN 1 ELSE 0

ReadToken ==
  /\ phase = "parsing" /\ ~Known(Wanted)
  /\ \E t \in IF Len(tokens) < topic.limit THEN topic.alphabet ELSE {EOF} :
        tokens' = Append(tokens, t)
  /\ UNCHANGED <<topic, pos, rewind_stack, types, functions, program, vals, todo, phase>>

At(name) == phase = "parsing" /\ Known(Wanted) /\ Item[1] = name

token_is_type(t) == t \in Identifiers /\ t \in DOMAIN types
has_function(f)  == f \in Builtins \cup functions

----------------------------------------------------------------------------
(* Items and scripts.                                                      *)

Call(name)             == <<name>>
Expect(S)              == <<"expect", S>>        (* a token that is dropped *)
Keep(S)                == <<"keep", S>>          (* one that becomes a leaf *)
Build(kind, token, n)  == <<"build", kind, token, n>>

Type       == Call("type")
Statement  == Call("statement")
Variable   == <<Type, Call("not_void"), Keep(Identifiers), Call("initialiser")>>
Prim       == <<Call("prim"), Call("suffix")>>
NonTernary(p) == Prim \o <<<<"operator", p>>>>
Expr       == NonTernary(0) \o <<Call("ternary")>>
Enclosed(script) == <<Expect({"("})>> \o script \o <<Expect({")"})>>

(* n tokens are consumed and the item gives way to a script.               *)
Go(n, script) ==
  /\ pos' = pos + n
  /\ todo' = script \o Rest
  /\ UNCHANGED <<topic, tokens, rewind_stack, types, functions, program, vals, phase>>

(* The last n trees give way to one.                                       *)
Top(n) == SubSeq(vals, Len(vals) - n + 1, Len(vals))
Join(n, tree) == vals' = Append(SubSeq(vals, 1, Len(vals) - n), tree)

Reduce(n, tree) ==
  /\ Join(n, tree)
  /\ todo' = Rest
  /\ UNCHANGED <<topic, tokens, pos, rewind_stack, types, functions, program, phase>>

(* error(), an assertion that fails or a null pointer: the program ends.   *)
Stop(why) ==
  /\ phase' = why
  /\ UNCHANGED <<topic, tokens, pos, rewind_stack, types, functions, program, vals, todo>>
Error == Stop("error")

(* longjmp to the innermost setjmp, and REWIND_END behind its label.       *)
Rewind ==
  LET saved == Last(rewind_stack)
  IN  /\ pos' = saved.pos
      /\ vals' = saved.vals
      /\ todo' = saved.otherwise
      /\ rewind_stack' = Front(rewind_stack)
      /\ UNCHANGED <<topic, tokens, types, functions, program, phase>>

(* What expect and expect_op do with another token.                        *)
Fail == IF rewind_stack = <<>> THEN Error ELSE Rewind

Take(S, leaf) ==
  IF next_token \notin S THEN Fail
  ELSE /\ pos' = pos + 1
       /\ todo' = Rest
       /\ vals' = IF leaf THEN Append(vals, Leaf(next_token)) ELSE vals
       /\ UNCHANGED <<topic, tokens, rewind_stack, types, functions, program, phase>>

ExpectToken == At("expect") /\ Take(Item[2], FALSE)
KeepToken   == At("keep") /\ Take(Item[2], TRUE)
BuildNode   == At("build") /\ Reduce(Item[4], <<Item[2], Item[3], Top(Item[4])>>)

(* Mutant: longjmp comes back to the place where the try begins.           *)
TryAgain(script, then, otherwise) ==
  /\ rewind_stack' = Append(rewind_stack,
       [pos |-> pos, vals |-> vals, otherwise |-> todo,
        types |-> types, functions |-> functions])
  /\ todo' = script \o <<<<"rewind_end", then>>>> \o Rest
  /\ UNCHANGED <<topic, tokens, pos, types, functions, program, vals, phase>>

(* REWIND_BEGIN: the script is tried; then, or when it fails, the position *)
(* goes back and the parser goes on with one of two others.                *)
Try(script, then, otherwise) ==
  /\ rewind_stack' = Append(rewind_stack,
       [pos |-> pos, vals |-> vals, otherwise |-> otherwise \o Rest,
        types |-> types, functions |-> functions])
  /\ todo' = script \o <<<<"rewind_end", then>>>> \o Rest
  /\ UNCHANGED <<topic, tokens, pos, types, functions, program, vals, phase>>

(* Mutant: a type that was found is consumed.                              *)
RewindEndKeepsPosition ==
  /\ At("rewind_end")
  /\ rewind_stack' = Front(rewind_stack)
  /\ vals' = Last(rewind_stack).vals
  /\ todo' = Item[2] \o Rest
  /\ UNCHANGED <<topic, tokens, pos, types, functions, program, phase>>

RewindEnd ==
  /\ At("rewind_end")
  /\ pos' = Last(rewind_stack).pos
  /\ rewind_stack' = Front(rewind_stack)
  /\ vals' = Last(rewind_stack).vals
  /\ todo' = Item[2] \o Rest
  /\ UNCHANGED <<topic, tokens, types, functions, program, phase>>

----------------------------------------------------------------------------
(* Types.                                                                  *)

ParseType ==
  /\ At("type")
  /\ CASE next_token \notin Identifiers     -> Fail
       [] next_token \in Identifiers /\ ~token_is_type(next_token) -> Error
       [] OTHER -> /\ pos' = pos + 1
                   /\ vals' = Append(vals, Leaf(next_token))
                   /\ todo' = <<Call("declarators")>> \o Rest
                   /\ UNCHANGED <<topic, tokens, rewind_stack, types, functions, program, phase>>

Declarators ==
  /\ At("declarators")
  /\ CASE next_token = "*" -> Go(1, <<Build("pointer", "*", 1), Item>>)
       [] next_token = "?" -> Go(1, <<Build("optional", "?", 1), Item>>)
       [] next_token = "[" -> Go(1, <<Call("array_size")>>)
       [] next_token = "(" -> Go(1, <<Type, <<"parameter_types", 2>>>>)
       [] OTHER -> Go(0, <<>>)

ArraySize ==
  /\ At("array_size")
  /\ IF next_token = "]"
     THEN Go(1, <<Build("array", "", 1), Call("declarators")>>)
     ELSE Go(0, Expr \o <<Expect({"]"}), Build("array", "", 2), Call("declarators")>>)

ParameterTypes ==
  /\ At("parameter_types")
  /\ IF next_token = ")"
     THEN Go(1, <<Build("function_type", "", Item[2])>>)
     ELSE Go(0, <<Expect({","}), Type, <<"parameter_types", Item[2] + 1>>>>)

(* What is_struct and the comparison with void tell about a type.          *)
Class(tree) == IF Kind(tree) = "leaf" THEN types[Token(tree)] ELSE "other"

NotVoid ==
  /\ At("not_void")
  /\ IF Class(Last(vals)) = "void" THEN Error ELSE Go(0, <<>>)

----------------------------------------------------------------------------
(* Primary expressions.                                                    *)

PrefixOps == {"*", "&", "+", "-", "!", "~", "?"}
Parenthesised(kind, script) == Go(1, Enclosed(script) \o <<Build(kind, "", 1)>>)

ParsePrim ==
  /\ At("prim")
  /\ LET t == next_token
     IN  CASE t = "(" -> Go(1, <<Call("enclosed")>>)
           [] t = "{" -> Go(1, <<<<"list", "}", Build("array_lit", "", 0)>>>>)
           [] t = "[" -> Go(1, Prim \o <<Expect({".."})>> \o Prim
                               \o <<Expect({"]"}), Build("range_gen", "", 2)>>)
           [] t \in {"++", "--"} -> Go(1, Prim \o <<<<"incdec", t>>>>)
           [] t \in PrefixOps    -> Go(1, Prim \o <<Build("prefix", t, 1)>>)
           [] t = "%"      -> Go(1, Prim \o <<Call("rand")>>)
           [] t = "asm"    -> Go(1, <<Expect({"("}), Keep(Strings), <<"asm", 1>>>>)
           [] t = "sizeof" -> Go(1, <<Expect({"("}), Call("sizeof")>>)
           [] t = "new"    -> Go(1, <<Type, Build("new", "", 1)>>)
           [] t = "match"  -> Go(1, Enclosed(Expr) \o <<Expect({"{"}), Call("case"), <<"cases", 2>>>>)
           [] token_is_type(t) /\ types[t] = "struct" ->
                Go(1, <<Expect({"("})>> \o Expr \o <<<<"struct_init", t, 1>>>>)
           [] t = "null" \/ (t \in Identifiers /\ ~(token_is_type(t) /\ types[t] = "struct"))
                \/ t \in Literals -> Take({t}, TRUE)
           [] OTHER -> Error

Parenthesis ==
  /\ At("enclosed")
  /\ IF token_is_type(next_token)
     THEN Go(0, <<Type, Expect({")"})>> \o Prim \o <<Build("cast", "", 2)>>)
     ELSE Go(0, Expr \o <<Expect({")"}), Build("enclosed", "", 1)>>)

(* A list of expressions, empty or not, up to the token Item[2]; Item[3]   *)
(* is what joins the trees that precede it.                                *)
Longer(build) == [build EXCEPT ![4] = @ + 1]
ParseList ==
  /\ At("list")
  /\ IF next_token = Item[2]
     THEN Go(1, <<Item[3]>>)
     ELSE Go(0, Expr \o <<<<"more", Item[2], Longer(Item[3])>>>>)
MoreElements ==
  /\ At("more")
  /\ IF next_token = ","
     THEN Go(1, Expr \o <<<<"more", Item[2], Longer(Item[3])>>>>)
     ELSE Go(0, <<Expect({Item[2]}), Item[3]>>)

(* ++ x is ( x = x + 1 ).                                                  *)
IncDec ==
  /\ At("incdec")
  /\ LET x   == Last(vals)
         op  == IF Item[2] = "++" THEN "+" ELSE "-"
         sum == <<"binop", op, <<x, Leaf("1")>>>>
     IN  Reduce(1, <<"enclosed", "", <<<<"assign", Item[2], <<x, sum>>>>>>>>)

Rand ==
  /\ At("rand")
  /\ IF next_token = ".." THEN Go(1, Prim \o <<Build("rand", "..", 2)>>)
                          ELSE Go(0, <<Build("rand", "", 1)>>)

Asm ==
  /\ At("asm")
  /\ CASE next_token = "," -> Go(1, Expr \o <<<<"asm", Item[2] + 1>>>>)
       [] next_token = ":" -> Go(1, <<Type, Expect({")"}), Build("asm", ":", Item[2] + 1)>>)
       [] OTHER            -> Go(0, <<Expect({")"}), Build("asm", "", Item[2])>>)

Sizeof ==
  /\ At("sizeof")
  /\ Try(<<Type>>, <<Type, Expect({")"}), Build("sizeof", "type", 1)>>,
         Expr \o <<Expect({")"}), Build("sizeof", "expr", 1)>>)

(* A separator that may be missing in front of the last closing token.     *)
Separator(close, again) ==
  CASE next_token = ","   -> Go(1, again)
    [] next_token # "," /\ forward_1 = close -> Go(0, again)
    [] OTHER -> Fail

StructInit ==
  /\ At("struct_init")
  /\ IF next_token = ")"
     THEN Go(1, <<Build("struct_init", Item[2], Item[3])>>)
     ELSE Separator(")", Expr \o <<<<"struct_init", Item[2], Item[3] + 1>>>>)

Cases     == At("cases") /\ Separator("}", <<<<"cases_end", Item[2]>>>>)
CasesEnd  ==
  /\ At("cases_end")
  /\ IF next_token = "}"
     THEN Go(1, <<Build("match", "", Item[2])>>)
     ELSE Go(0, <<Call("case"), <<"cases", Item[2] + 1>>>>)

(* The place of a case is that of its first pattern, and an identifier     *)
(* other than _ is taken for the case that has none.                       *)
ParseCase ==
  /\ At("case")
  /\ IF next_token \in Identifiers \ {"_"}
     THEN Stop("crashed")
     ELSE Go(0, <<Call("pattern"), <<"patterns", 2>>>>)

ParsePattern ==
  /\ At("pattern")
  /\ CASE next_token \in Numbers -> Go(0, <<Keep(Numbers), Call("range")>>)
       [] next_token \in Strings \cup Identifiers -> Take({next_token}, TRUE)
       [] OTHER -> Error

PatternRange ==
  /\ At("range")
  /\ IF next_token = ".." THEN Go(1, <<Keep(Numbers), Build("range", "", 2)>>)
                          ELSE Go(0, <<>>)

Patterns ==
  /\ At("patterns")
  /\ IF next_token = "|"
     THEN Go(1, <<Call("pattern"), <<"patterns", Item[2] + 1>>>>)
     ELSE Go(0, <<Expect({"=>"})>> \o Expr \o <<Build("case", "", Item[2])>>)

(* What may follow a primary expression, repeatedly.                       *)
ParseSuffix ==
  /\ At("suffix")
  /\ CASE next_token = "["           -> Go(1, Expr \o <<Call("subscript"), Item>>)
       [] next_token \in {".", "->"} -> Go(1, <<<<"member", next_token>>, Item>>)
       [] next_token = "("           -> Go(1, <<<<"list", ")", Build("call", "", 1)>>, Item>>)
       [] OTHER                      -> Go(0, <<>>)

Subscript ==
  /\ At("subscript")
  /\ IF next_token = ".."
     THEN Go(1, Expr \o <<Expect({"]"}), Build("slice", "", 3)>>)
     ELSE Go(0, <<Expect({"]"}), Build("subscript", "", 2)>>)

(* x . f ( y ) is f ( x , y ) when f is a function by now.                 *)
Member ==
  /\ At("member")
  /\ IF next_token \in Identifiers /\ forward_1 = "(" /\ has_function(next_token)
     THEN Go(0, <<Keep(Identifiers), Expect({"("}), <<"list", ")", <<"method", Item[2], "", 2>>>>>>)
     ELSE Go(0, <<Keep(Identifiers), Build("access", Item[2], 2)>>)

(* Mutant: this becomes the last argument.                                 *)
MethodThisLast ==
  /\ At("method")
  /\ LET t == Top(Item[4])
     IN  Reduce(Item[4], <<"call", Item[2], <<t[2]>> \o SubSeq(t, 3, Len(t)) \o <<t[1]>>>>)

Method ==
  /\ At("method")
  /\ LET t == Top(Item[4])
     IN  Reduce(Item[4], <<"call", Item[2], <<t[2], t[1]>> \o SubSeq(t, 3, Len(t))>>)

----------------------------------------------------------------------------
(* Expressions: parse_non_ternary_expr and parse_expr.                     *)

(* Behind the first operand of an expression whose operators must bind at  *)
(* least as strongly as Item[2].                                           *)
Operator ==
  /\ At("operator")
  /\ IF next_token \in AssignOps
     THEN Go(1, Expr \o <<<<"assignment", next_token>>>>)
     ELSE Go(0, <<<<"climb", Item[2]>>>>)

(* Mutant: operators of the same precedence associate to the right.        *)
ClimbSame ==
  /\ At("climb")
  /\ IF is_binop(next_token) /\ Precedence[next_token] >= Item[2]
     THEN Go(1, NonTernary(Precedence[next_token]) \o <<Build("binop", next_token, 2), Item>>)
     ELSE Go(0, <<>>)

Climb ==
  /\ At("climb")
  /\ IF is_binop(next_token) /\ Precedence[next_token] >= Item[2]
     THEN Go(1, NonTernary(Precedence[next_token] + 1) \o <<Build("binop", next_token, 2), Item>>)
     ELSE Go(0, <<>>)

(* parse_assignment_rhs behind its parse_expr: x += y is x = x + y.        *)
Assignment ==
  /\ At("assignment")
  /\ LET t   == Top(2)
         eq  == Item[2]
         sum == IF eq = "=" THEN t[2] ELSE <<"binop", Compound[eq], t>>
     IN  Reduce(2, <<"assign", eq, <<t[1], sum>>>>)

Ternary ==
  /\ At("ternary")
  /\ IF next_token = "?"
     THEN Go(1, Expr \o <<Expect({":"})>> \o Expr \o <<Build("ternary", "", 3)>>)
     ELSE Go(0, <<>>)

----------------------------------------------------------------------------
(* Statements and declarations.                                            *)

ParseStatement ==
  /\ At("statement")
  /\ LET t == next_token
     IN  CASE t = ";"      -> Go(1, <<Build("empty", "", 0)>>)
           [] token_is_type(t) \/ t = "typedef" -> Go(0, <<Call("declaration")>>)
           [] t = "return" -> Go(1, <<Call("return")>>)
           [] t = "if"     -> Go(1, Enclosed(Expr) \o <<Statement, Call("else")>>)
           [] t = "while"  -> Go(1, Enclosed(Expr) \o <<Statement, Build("while", "", 2)>>)
           [] t = "do"     -> Go(1, <<Statement, Expect({"while"})>> \o Enclosed(Expr)
                                    \o <<Expect({";"}), Build("do", "", 2)>>)
           [] t \in {"break", "continue"} -> Go(1, <<Expect({";"}), Build("loop_ctrl", t, 0)>>)
           [] t = "for"    ->
                Go(1, Enclosed(<<Statement>> \o Expr \o <<Expect({";"})>> \o Expr)
                        \o <<Statement, Build("for", "", 4)>>)
           [] t = "foreach" -> Go(1, <<Call("foreach")>>)
           [] t = "{"      -> Go(1, <<<<"block", 0>>>>)
           [] OTHER        -> Go(0, Expr \o <<Expect({";"}), Build("expression", "", 1)>>)

Return ==
  /\ At("return")
  /\ IF next_token = ";" THEN Go(1, <<Build("return", "", 0)>>)
                         ELSE Go(0, Expr \o <<Expect({";"}), Build("return", "", 1)>>)

Else ==
  /\ At("else")
  /\ IF next_token = "else" THEN Go(1, <<Statement, Build("if", "else", 3)>>)
                            ELSE Go(0, <<Build("if", "", 2)>>)

Foreach ==
  /\ At("foreach")
  /\ IF next_token = "ref"
     THEN Go(1, <<Expect({"("}), <<"foreach_type", "ref">>>>)
     ELSE Go(0, <<Expect({"("}), <<"foreach_type", "">>>>)

ForeachType ==
  /\ At("foreach_type")
  /\ LET typed == ~(next_token \in Identifiers /\ forward_1 = "in")
     IN  Go(0, (IF typed THEN <<Type>> ELSE <<>>)
               \o <<Keep(Identifiers), Expect({"in"})>> \o Expr
               \o <<Expect({")"}), Statement,
                    Build("foreach", Item[2], IF typed THEN 4 ELSE 3)>>)

Block ==
  /\ At("block")
  /\ IF next_token = "}" THEN Go(1, <<Build("block", "", Item[2])>>)
                         ELSE Go(0, <<Statement, <<"block", Item[2] + 1>>>>)

Declaration ==
  /\ At("declaration")
  /\ CASE token_is_type(next_token) -> Go(0, Variable)
       [] next_token = "typedef"    ->
            Go(1, <<Type, Keep(Identifiers), Call("add_typedef"), Expect({";"}),
                    Build("typedef", "", 2)>>)
       [] OTHER -> Go(0, <<Expect({"struct"}), Keep(Identifiers), Expect({"{"}),
                           Call("declare_struct"), <<"fields", 1>>>>)

Initialiser ==
  /\ At("initialiser")
  /\ IF next_token = "="
     THEN Go(1, Expr \o <<Expect({";"}), Build("variable", "=", 3)>>)
     ELSE Go(0, <<Expect({";"}), Build("variable", "", 2)>>)

(* A new name for a type; an old one is an error.                          *)
AddType(name, class) ==
  IF name \in DOMAIN types THEN Error
  ELSE /\ types' = [n \in DOMAIN types \cup {name} |-> IF n = name THEN class ELSE types[n]]
       /\ todo' = Rest
       /\ UNCHANGED <<topic, tokens, pos, rewind_stack, functions, program, vals, phase>>

AddTypedef    == At("add_typedef") /\ AddType(Token(Top(2)[2]), Class(Top(2)[1]))
DeclareStruct == At("declare_struct") /\ AddType(Token(Top(1)[1]), "struct")

(* forward_declare_structure leaves the kind of the type it returns        *)
(* unwritten, and define_structure asserts that it is BASIC.               *)
Fields ==
  /\ At("fields")
  /\ IF next_token = "}"
     THEN Go(1, <<<<"defined", Item[2]>>>>) \/ Stop("crashed")
     ELSE Go(0, Variable \o <<<<"fields", Item[2] + 1>>>>)

Defined ==
  /\ At("defined")
  /\ IF next_token = ";" THEN Go(1, <<Build("struct", "", Item[2])>>) ELSE Error

----------------------------------------------------------------------------
(* Functions and the program.                                              *)

FunctionName ==
  /\ At("function_name")
  /\ IF Token(Last(vals)) = "operator"
     THEN Go(0, <<Keep(Operators), Expect({"("}), <<"parameters", 0>>, <<"add_function", 5>>>>)
     ELSE Go(0, <<Expect({"("}), <<"parameters", 0>>, <<"add_function", 4>>>>)

(* The list is empty unless an identifier follows.                         *)
Parameter == <<Type, Call("not_void"), Keep(Identifiers)>>
Body(n)   == <<Expect({")"}), Build("parameters", "", n), Expect({"{"}), <<"block", 0>>>>
Parameters ==
  /\ At("parameters")
  /\ CASE Item[2] = 0 /\ next_token \in Identifiers -> Go(0, Parameter \o <<<<"parameters", 2>>>>)
       [] Item[2] > 0 /\ next_token = "," -> Go(1, Parameter \o <<<<"parameters", Item[2] + 2>>>>)
       [] OTHER -> Go(0, Body(Item[2]))

(* register_overload (operators.c:149-210), as far as it rejects.          *)
Arity(op, n) ==
  CASE op = "~" -> IF n \in {1, 2} THEN n ELSE -1
    [] op # "~" /\ is_binop(op) -> 2
    [] OTHER -> 1
Overload(op, ret, params) ==
  LET Structs == \E t \in {ret} \cup {params[i] : i \in 1 .. Len(params)} : Class(t) = "struct"
  IN  CASE Arity(op, Len(params)) = -1            -> "crashed"
        [] Arity(op, Len(params)) \notin {-1, Len(params)} -> "error"
        [] OTHER -> IF Structs THEN "parsing" ELSE "error"

AddFunction ==
  /\ At("add_function")
  /\ LET t       == Top(Item[2])
         overload == Item[2] = 5
         declared == Kids(t[Item[2] - 1])
         params  == [i \in 1 .. Len(declared) \div 2 |-> declared[2 * i - 1]]
         outcome == IF overload THEN Overload(Token(t[3]), t[1], params) ELSE "parsing"
     IN  IF outcome # "parsing" THEN Stop(outcome)
         ELSE /\ functions' = IF overload THEN functions ELSE functions \cup {Token(t[2])}
              /\ Join(Item[2], <<"function", "", t>>)
              /\ todo' = Rest
              /\ UNCHANGED <<topic, tokens, pos, rewind_stack, types, program, phase>>

AddDeclaration ==
  /\ At("add_declaration")
  /\ program' = Append(program, Last(vals))
  /\ vals' = Front(vals)
  /\ todo' = Rest
  /\ UNCHANGED <<topic, tokens, pos, rewind_stack, types, functions, phase>>

(* parse_program, with maybe_func_decl.                                    *)
ParseProgram ==
  /\ At("program")
  /\ IF next_token = EOF THEN Stop("done")
     ELSE Try(<<Type, Expect(Identifiers), Call("accept_operator"), Expect({"("})>>,
              <<Type, Keep(Identifiers), Call("function_name"), Call("add_declaration"), Item>>,
              <<Call("declaration"), Call("add_declaration"), Item>>)

AcceptOperator ==
  /\ At("accept_operator")
  /\ Go(IF next_token \in Operators THEN 1 ELSE 0, <<>>)

----------------------------------------------------------------------------
Init ==
  /\ topic \in Topics
  /\ tokens = topic.prefix
  /\ pos = 1
  /\ rewind_stack = <<>>
  /\ types = BasicTypes
  /\ functions = {} /\ program = <<>> /\ vals = <<>>
  /\ todo = <<Call("program")>>
  /\ phase = "parsing"

Parse ==
  \/ ExpectToken \/ KeepToken \/ BuildNode \/ RewindEnd
  \/ ParseType \/ Declarators \/ ArraySize \/ ParameterTypes \/ NotVoid
  \/ ParsePrim \/ Parenthesis \/ ParseList \/ MoreElements \/ IncDec \/ Rand \/ Asm \/ Sizeof
  \/ StructInit \/ Cases \/ CasesEnd \/ ParseCase \/ ParsePattern \/ PatternRange \/ Patterns
  \/ ParseSuffix \/ Subscript \/ Member \/ Method
  \/ Operator \/ Climb \/ Assignment \/ Ternary
  \/ ParseStatement \/ Return \/ Else \/ Foreach \/ ForeachType \/ Block
  \/ Declaration \/ Initialiser \/ AddTypedef \/ DeclareStruct \/ Fields \/ Defined
  \/ FunctionName \/ Parameters \/ AddFunction \/ AddDeclaration
  \/ ParseProgram \/ AcceptOperator

Stopped == phase # "parsing" /\ UNCHANGED vars
Next    == ReadToken \/ Parse \/ Stopped
Spec    == Init /\ [][Next]_vars /\ WF_vars(ReadToken \/ Parse)

----------------------------------------------------------------------------
(* The trees of the finished declarations are the source: no token is lost,*)
(* read twice or moved by a rewind, a suffix, a method call or a compound  *)
(* assignment.                                                             *)
NoCommas(s) == SelectSeq(s, LAMBDA t : t # ",")
TreeIsSource ==
  phase # "crashed" /\ todo = <<Call("program")>> =>
    NoCommas(FlattenSeq([i \in DOMAIN program |-> Text(program[i])]))
      = NoCommas(SubSeq(tokens, 1, pos - 1))

(* Every finished tree groups its operators by the table of precedences    *)
(* (parser.c:1304-1360).                                                   *)
PrecedenceKept ==
  \A i \in DOMAIN program \cup DOMAIN vals :
    /\ i \in DOMAIN program => WellGrouped(program[i])
    /\ i \in DOMAIN vals => WellGrouped(vals[i])

(* After a try, whether it succeeded or ended in a longjmp, the parser is  *)
(* where it began, and nothing else that a function may have changed in    *)
(* between needs to be undone (parser.c:40-58).                            *)
RewindsRestore ==
  [][Len(rewind_stack') < Len(rewind_stack) =>
       LET saved == Last(rewind_stack)
       IN  /\ <<pos', vals'>> = <<saved.pos, saved.vals>>
           /\ <<types', functions'>> = <<saved.types, saved.functions>>
           /\ phase' = "parsing"]_vars

(* The parser ends on every source, whole or cut off: no loop over         *)
(* statements, fields, cases or arguments waits for a token behind EOF.    *)
Terminates == <>(phase # "parsing")
=============================================================================
