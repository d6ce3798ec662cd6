------------------------------ MODULE CodeGen ------------------------------
(***************************************************************************)
(* The code generator of DanPaCompiler (code_generator.c).                 *)
(*                                                                         *)
(* The generator walks the AST once, one C function per kind of node, and  *)
(* appends instructions to a list.  Its state lives in globals: the list,  *)
(* the labels waiting for the next instruction, the label counter, the two *)
(* stacks of loop labels and the string table.  The rest of its state is   *)
(* the C call stack: what each active handler has still to do.  The        *)
(* variable todo is that call stack, flattened: the items the active       *)
(* handlers have still to perform, innermost handler first.                *)
(*                                                                         *)
(* The program being compiled is not a parameter.  Where a handler visits  *)
(* a child node, the model chooses what the child is, among the Forms that *)
(* the semantic pass accepts in that place; MaxNodes bounds their number.  *)
(*                                                                         *)
(* A label is a pair <<"L", n>> for the text ".L<n>", or <<"F", f>> for a  *)
(* function's name.                                                        *)
(***************************************************************************)
EXTENDS Integers, Sequences

CONSTANTS
  Names,          (* The identifiers that may name a function.             *)
  FunctionLists,  (* The function lists the parsed programs may have.      *)
  Arity,          (* The number of parameters of a function.               *)
  Void,           (* The functions whose return type is void.              *)
  Locals,         (* Slots of local variables.                             *)
  Consts,         (* Integer literals.                                     *)
  Literals,       (* String literals.                                      *)
  BinOps,         (* Opcodes of the binary operators the program uses.     *)
  UnOps,          (* Opcodes of its unary operators and casts.             *)
  Forms,          (* The kinds of AST nodes the program is made of.        *)
  MaxNodes        (* Bound on the number of nodes that are not leaves.     *)

ASSUME NamesAssumption    == "main" \in Names
ASSUME FunctionsAssumption ==
  /\ FunctionLists \subseteq Seq(Names)
  /\ Arity \in [Names -> Nat]
  /\ Void \subseteq Names
ASSUME OperandsAssumption ==
  /\ Locals \subseteq Int
  /\ Consts \subseteq Int
ASSUME BoundAssumption    == MaxNodes \in Nat
(* An operator is none of the instructions that move, jump, call or        *)
(* return, and no operator is both binary and unary.                       *)
ASSUME OperatorsAssumption ==
  /\ (BinOps \cup UnOps) \cap
       {"none", "pushl", "pushi", "pushs", "pushnull", "movl", "movg", "incl",
        "call", "ret", "jmp", "jf", "jt", "cmov", "pop", "dup", "load", "copy",
        "alloc", "memsize", "strlen", ".string"} = {}
  /\ UnOps \cap (BinOps \cup {"logicand", "eq", "lt", "le", "ge", "add"}) = {}

VARIABLES
  code,               (* The instruction list, as a sequence.              *)
  pending,            (* next_instruction_labels.                          *)
  label_counter,
  loop_entry_labels,
  loop_exit_labels,
  strings,            (* The string table: Literals in order of insertion. *)
  functions,          (* The function list of the program.                 *)
  nodes,              (* How many nodes the program has so far.            *)
  todo                (* What the active handlers have still to do.        *)

vars == <<code, pending, label_counter, loop_entry_labels, loop_exit_labels,
          strings, functions, nodes, todo>>

----------------------------------------------------------------------------
(* Labels, operands, instructions.                                         *)

L(n) == <<"L", n>>
F(f) == <<"F", f>>
GlobalInit == <<"I", 0>>      (* the label "_global_init"                  *)
MainLabel  == F("main")

GenLabel == {"L"} \X Nat
Label    == GenLabel \cup ({"F"} \X Names) \cup {GlobalInit}

None     == <<"none", 0>>
Imm(k)   == <<"int", k>>
Loc(x)   == <<"local", x>>
Glob(x)  == <<"global", x>>
Str(i)   == <<"str", i>>
Operand  == {"none", "int", "local", "global", "str"} \X Int

Arg   == Label \cup Operand
(* The opcodes and directives the handlers name.  "none" is the op of an   *)
(* item that is not an instruction.                                        *)
Opcode == {"none", "pushl", "pushi", "pushs", "pushnull", "movl", "movg", "incl",
           "call", "ret", "jmp", "jf", "jt", "cmov", "pop", "dup", "logicand",
           "eq", "lt", "le", "ge", "add", "load", "copy", "alloc", "memsize",
           "strlen", ".string"} \cup BinOps \cup UnOps

Instr == [labels : SUBSET Label, op : Opcode, arg : Arg]

----------------------------------------------------------------------------
(* The items of todo.  "emit" is a call of generate, "target" a call of    *)
(* generate_jump_target, "leave" the two DYNARRAY_POPs that end a loop;    *)
(* the others visit children.  An "else" or a "cases" item ends by placing *)
(* the label it carries.                                                   *)

Item == [act  : {"emit", "target", "leave", "expr", "stmt", "stmts",
                 "discard", "else", "cases", "tests", "pattern", "args",
                 "params", "globals", "funcs", "strings"},
         op   : Opcode,
         arg  : Arg,
         arg2 : Arg,
         n    : Nat]

Do(act, op, arg, arg2, n) ==
  [act |-> act, op |-> op, arg |-> arg, arg2 |-> arg2, n |-> n]

Emit(op, arg)   == Do("emit", op, arg, None, 0)
Emit0(op)       == Emit(op, None)
Target(l)       == Do("target", "none", l, None, 0)
Leave(out, loop, depth) == Do("leave", "none", out, loop, depth)
Expr            == Do("expr", "none", None, None, 0)
Stmt            == Do("stmt", "none", None, None, 0)
Stmts           == Do("stmts", "none", None, None, 0)
Discarded       == Do("discard", "none", None, None, 0)
Else(l)         == Do("else", "none", l, None, 0)
Cases(out, t, n) == Do("cases", "none", out, t, n)
Tests(t)        == Do("tests", "none", None, t, 0)
Pattern(t)      == Do("pattern", "none", None, t, 0)
Args(n)         == Do("args", "none", None, None, n)
Params(n)       == Do("params", "none", None, None, n)
Globals         == Do("globals", "none", None, None, 0)
Funcs(k)        == Do("funcs", "none", None, None, k)
Strings         == Do("strings", "none", None, None, 0)

(* The handler at the top of the call stack performs an item of kind act,  *)
(* and the item is replaced by what it unfolds to.                         *)
At(act)        == todo # <<>> /\ Head(todo).act = act
Unfold(script) == todo' = script \o Tail(todo)
Finish         == todo' = Tail(todo)

(* One more node of the program is visited.                                *)
Visit(act, form) ==
  /\ At(act)
  /\ form \in Forms
  /\ nodes < MaxNodes
  /\ nodes' = nodes + 1

SameLoops  == UNCHANGED <<loop_entry_labels, loop_exit_labels>>
SameOutput == UNCHANGED <<code, pending, strings, functions>>

----------------------------------------------------------------------------
(* generate and generate_jump_target.                                      *)

Generate ==
  /\ At("emit")
  /\ code' = Append(code, [labels |-> pending, op |-> Head(todo).op,
                           arg |-> Head(todo).arg])
  /\ pending' = {}
  /\ Finish
  /\ UNCHANGED <<label_counter, strings, functions, nodes>>
  /\ SameLoops

(* Mutant: the new label replaces the ones that wait already.              *)
JumpTargetReplaces ==
  /\ At("target")
  /\ pending' = {Head(todo).arg}
  /\ Finish
  /\ UNCHANGED <<code, label_counter, strings, functions, nodes>>
  /\ SameLoops

JumpTarget ==
  /\ At("target")
  /\ pending' = pending \cup {Head(todo).arg}
  /\ Finish
  /\ UNCHANGED <<code, label_counter, strings, functions, nodes>>
  /\ SameLoops

(* A handler that only visits children and emits: no label, no loop.       *)
Plain(script) ==
  /\ Unfold(script)
  /\ UNCHANGED label_counter
  /\ SameLoops
  /\ SameOutput

----------------------------------------------------------------------------
(* Expressions.  Each leaves one value on the operand stack.               *)

(* The script of a handler names the instructions in the order of its      *)
(* calls of generate.                                                      *)
AssignCode(x) == <<Expr, Emit("movl", Loc(x))>>
CallCode(f)   == <<Args(Arity[f]), Emit("call", F(f))>>

Ident ==
  /\ At("expr")
  /\ \E x \in Locals : Plain(<<Emit("pushl", Loc(x))>>)
  /\ UNCHANGED nodes

IntConstant ==
  /\ At("expr")
  /\ \E k \in Consts : Plain(<<Emit("pushi", Imm(k))>>)
  /\ UNCHANGED nodes

Binop ==
  /\ Visit("expr", "binop")
  /\ \E op \in BinOps : Plain(<<Expr, Expr, Emit0(op)>>)

Unary ==
  /\ Visit("expr", "unary")
  /\ \E op \in UnOps : Plain(<<Expr, Emit0(op)>>)

Ternary ==
  /\ Visit("expr", "ternary")
  /\ Plain(<<Expr, Expr, Expr, Emit0("cmov")>>)

(* Mutant: the value of the assignment is not pushed.                      *)
AssignExprDiscards ==
  /\ Visit("expr", "assign_expr")
  /\ \E x \in Locals : Plain(AssignCode(x))

(* An assignment whose result is used pushes the variable again.           *)
AssignExpr ==
  /\ Visit("expr", "assign_expr")
  /\ \E x \in Locals : Plain(AssignCode(x) \o <<Emit("pushl", Loc(x))>>)

Call ==
  /\ Visit("expr", "call")
  /\ \E i \in DOMAIN functions :
       /\ functions[i] \notin Void
       /\ Plain(CallCode(functions[i]))

Arguments ==
  /\ At("args")
  /\ IF Head(todo).n = 0 THEN Plain(<<>>)
                         ELSE Plain(<<Expr, Args(Head(todo).n - 1)>>)
  /\ UNCHANGED nodes

(* Mutant: the index of a new string counts the string itself.             *)
StringLiteralOffByOne ==
  /\ Visit("expr", "string")
  /\ \E s \in Literals :
       \/ \E i \in DOMAIN strings :
            /\ strings[i] = s
            /\ Unfold(<<Emit("pushs", Str(i - 1))>>)
            /\ UNCHANGED strings
       \/ /\ \A i \in DOMAIN strings : strings[i] # s
          /\ Unfold(<<Emit("pushs", Str(Len(strings) + 1))>>)
          /\ strings' = Append(strings, s)
  /\ UNCHANGED <<code, pending, functions, label_counter>>
  /\ SameLoops

(* The string is looked up in the table; a new one gets the next index.    *)
StringLiteral ==
  /\ Visit("expr", "string")
  /\ \E s \in Literals :
       \/ \E i \in DOMAIN strings :
            /\ strings[i] = s
            /\ Unfold(<<Emit("pushs", Str(i - 1))>>)
            /\ UNCHANGED strings
       \/ /\ \A i \in DOMAIN strings : strings[i] # s
          /\ Unfold(<<Emit("pushs", Str(Len(strings)))>>)
          /\ strings' = Append(strings, s)
  /\ UNCHANGED <<code, pending, functions, label_counter>>
  /\ SameLoops

(* match: the tested value goes to a local; each case tests it, and a      *)
(* failed test jumps to the next case.  The parser reads at least one case *)
(* (the first is not counted as a node).                                   *)
Match ==
  /\ Visit("expr", "match")
  /\ \E t \in Locals :
       Unfold(<<Expr, Emit("movl", Loc(t)),
                Cases(L(label_counter), Loc(t), 0)>>)
  /\ label_counter' = label_counter + 1
  /\ SameLoops
  /\ SameOutput

MatchCase ==
  /\ \/ At("cases") /\ Head(todo).n = 0 /\ UNCHANGED nodes
     \/ Visit("cases", "match") /\ Head(todo).n > 0
  /\ LET out == Head(todo).arg
         t   == Head(todo).arg2
         next == L(label_counter)
     IN  Unfold(<<Tests(t), Emit("jf", next), Expr, Emit("jmp", out),
                  Target(next), Cases(out, t, Head(todo).n + 1)>>)
  /\ label_counter' = label_counter + 1
  /\ SameLoops
  /\ SameOutput

(* Mutant: the label behind the last case is forgotten.                    *)
MatchEndForgets ==
  /\ At("cases")
  /\ Head(todo).n > 0
  /\ Plain(<<>>)
  /\ UNCHANGED nodes

MatchEnd ==
  /\ At("cases")
  /\ Head(todo).n > 0
  /\ Plain(<<Target(Head(todo).arg)>>)
  /\ UNCHANGED nodes

(* The alternatives of a case are combined two by two.                     *)
MatchTests ==
  /\ At("tests")
  /\ LET t == Head(todo).arg2
     IN  \/ Plain(<<Pattern(t)>>)
         \/ Plain(<<Pattern(t), Pattern(t), Emit0("logicand")>>)
  /\ UNCHANGED nodes

MatchPattern ==
  /\ At("pattern")
  /\ LET test == Emit("pushl", Head(todo).arg2)
     IN  \/ \E k \in Consts : Plain(<<test, Emit("pushi", Imm(k)), Emit0("eq")>>)
         \/ \E y \in Locals : Plain(<<test, Emit("pushl", Loc(y)), Emit0("eq")>>)
         \/ \E k, m \in Consts :
              Plain(<<test, Emit0("dup"), Emit("pushi", Imm(k)), Emit0("ge"),
                      Emit("pushi", Imm(m)), Emit0("le"), Emit0("logicand")>>)
  /\ UNCHANGED nodes

----------------------------------------------------------------------------
(* Statements.                                                             *)

Empty ==
  /\ At("stmt")
  /\ Plain(<<>>)
  /\ UNCHANGED nodes

Compound ==
  /\ Visit("stmt", "compound")
  /\ Plain(<<Stmts>>)

Statements ==
  /\ At("stmts")
  /\ \/ nodes < MaxNodes /\ Plain(<<Stmt, Stmts>>)
     \/ Plain(<<>>)
  /\ UNCHANGED nodes

VariableDeclaration ==
  /\ Visit("stmt", "decl")
  /\ \E x \in Locals :
       \/ Plain(<<>>)
       \/ Plain(AssignCode(x))
       \/ Plain(<<Emit0("pushnull"), Emit("movl", Loc(x))>>)
       \/ \E k \in Consts :
            Plain(<<Emit("pushi", Imm(k)), Emit0("alloc"), Emit("movl", Loc(x))>>)

(* handle_discarded_expression pops the value of a primary expression that *)
(* is not void and leaves an assignment alone.  For a binary or a ternary  *)
(* expression it reads prim_expr out of a union that holds something else: *)
(* whether it pops is decided by leftover bytes.                           *)
Discards == {<<>>, <<Emit0("pop")>>}

DiscardedExpression ==
  /\ Visit("stmt", "discarded")
  /\ Plain(<<Discarded>>)

HandleDiscarded ==
  /\ At("discard")
  /\ \/ \E x \in Locals : Plain(AssignCode(x))
     \/ /\ "assign_expr" \in Forms
        /\ \E x \in Locals :
             Plain(AssignCode(x) \o <<Emit("pushl", Loc(x)), Emit0("pop")>>)
     \/ /\ "call" \in Forms
        /\ \E i \in DOMAIN functions :
             IF functions[i] \in Void
               THEN Plain(CallCode(functions[i]))
               ELSE Plain(CallCode(functions[i]) \o <<Emit0("pop")>>)
     \/ /\ "discard_binop" \in Forms
        /\ \E op \in BinOps, discard \in Discards :
             Plain(<<Expr, Expr, Emit0(op)>> \o discard)
     \/ /\ "discard_ternary" \in Forms
        /\ \E discard \in Discards :
             Plain(<<Expr, Expr, Expr, Emit0("cmov")>> \o discard)
  /\ UNCHANGED nodes

Return ==
  /\ Visit("stmt", "return")
  /\ \/ Plain(<<Emit0("ret")>>)
     \/ Plain(<<Expr, Emit0("ret")>>)

(* Mutant: the label is used but not taken.                                *)
IfReusesLabel ==
  /\ Visit("stmt", "if")
  /\ LET else == L(label_counter)
     IN  Unfold(<<Expr, Emit("jf", else), Stmt, Else(else)>>)
  /\ UNCHANGED label_counter
  /\ SameLoops
  /\ SameOutput

(* The label of the end is allocated only when there is an else part, and  *)
(* only after the code of the first part.                                  *)
If ==
  /\ Visit("stmt", "if")
  /\ LET else == L(label_counter)
     IN  Unfold(<<Expr, Emit("jf", else), Stmt, Else(else)>>)
  /\ label_counter' = label_counter + 1
  /\ SameLoops
  /\ SameOutput

NoElse ==
  /\ At("else")
  /\ Plain(<<Target(Head(todo).arg)>>)
  /\ UNCHANGED nodes

ElsePart ==
  /\ Visit("else", "if")
  /\ LET else == Head(todo).arg
         out  == L(label_counter)
     IN  Unfold(<<Emit("jmp", out), Target(else), Stmt, Target(out)>>)
  /\ label_counter' = label_counter + 1
  /\ SameLoops
  /\ SameOutput

(* A loop allocates two labels and pushes them on the label stacks; Leave  *)
(* pops both when its code is complete.  The label of the entry stands     *)
(* between what is done once and what is repeated, that of the exit at the *)
(* end.                                                                    *)
Loop(form, out, loop, once, repeated) ==
  /\ Visit("stmt", form)
  /\ label_counter' = label_counter + 2
  /\ loop_entry_labels' = Append(loop_entry_labels, loop)
  /\ loop_exit_labels'  = Append(loop_exit_labels, out)
  /\ Unfold(once \o <<Target(loop)>> \o repeated \o
            <<Target(out), Leave(out, loop, Len(loop_entry_labels) + 1)>>)
  /\ SameOutput

While ==
  LET out  == L(label_counter)
      loop == L(label_counter + 1)
  IN  Loop("while", out, loop, <<>>,
           <<Expr, Emit("jf", out), Stmt, Emit("jmp", loop)>>)

(* The loop expression of a for is a discarded expression.                 *)
For ==
  LET out  == L(label_counter)
      loop == L(label_counter + 1)
  IN  Loop("for", out, loop, <<Stmt>>,
           <<Expr, Emit("jf", out), Stmt, Discarded, Emit("jmp", loop)>>)

(* The array is a variable: its expression is generated twice.             *)
ForEach ==
  LET out  == L(label_counter)
      loop == L(label_counter + 1)
  IN  \E array, x, counter \in Locals :
      \E size \in {"memsize", "strlen"} :
        Loop("foreach", out, loop,
             <<Emit("pushi", Imm(0)), Emit("movl", Loc(counter))>>,
             <<Emit("pushl", Loc(counter)), Emit("pushl", Loc(array)),
               Emit0(size), Emit0("lt"), Emit("jf", out),
               Emit("pushl", Loc(array)), Emit("pushl", Loc(counter)),
               Emit0("add"), Emit0("load"), Emit("movl", Loc(x)),
               Stmt,
               Emit("incl", Loc(counter)), Emit("jmp", loop)>>)

DoWhile ==
  LET loop == L(label_counter)
      out  == L(label_counter + 1)
  IN  Loop("do", out, loop, <<>>, <<Stmt, Expr, Emit("jt", loop)>>)

(* Mutant: the label of the exit stays on its stack.                       *)
LeaveLoopKeepsExit ==
  /\ At("leave")
  /\ Finish
  /\ loop_entry_labels' =
       SubSeq(loop_entry_labels, 1, Len(loop_entry_labels) - 1)
  /\ UNCHANGED <<loop_exit_labels, label_counter, nodes>>
  /\ SameOutput

LeaveLoop ==
  /\ At("leave")
  /\ Finish
  /\ loop_entry_labels' =
       SubSeq(loop_entry_labels, 1, Len(loop_entry_labels) - 1)
  /\ loop_exit_labels' =
       SubSeq(loop_exit_labels, 1, Len(loop_exit_labels) - 1)
  /\ UNCHANGED <<label_counter, nodes>>
  /\ SameOutput

(* The semantic pass accepts break and continue only inside a loop.        *)
InLoop == \E i \in DOMAIN todo : todo[i].act = "leave"

(* Mutant: break leaves the outermost loop.                                *)
BreakOutermost ==
  /\ Visit("stmt", "break")
  /\ InLoop
  /\ Plain(<<Emit("jmp", loop_exit_labels[1])>>)

Break ==
  /\ Visit("stmt", "break")
  /\ InLoop
  /\ Plain(<<Emit("jmp", loop_exit_labels[Len(loop_exit_labels)])>>)

Continue ==
  /\ Visit("stmt", "continue")
  /\ InLoop
  /\ Plain(<<Emit("jmp", loop_entry_labels[Len(loop_entry_labels)])>>)

----------------------------------------------------------------------------
(* The program: global initialisers, a jump to main, the functions, and    *)
(* one directive per string of the table.                                  *)

GlobalDeclarations ==
  /\ At("globals")
  /\ \/ /\ "global" \in Forms
        /\ nodes < MaxNodes
        /\ nodes' = nodes + 1
        /\ \E k \in Consts :
             Plain(<<Emit("pushi", Imm(k)), Emit("movg", Glob(0)), Globals>>)
     \/ Plain(<<>>) /\ UNCHANGED nodes

(* Mutant: a function does not return at its end.                          *)
FunctionWithoutRet ==
  /\ At("funcs")
  /\ LET k == Head(todo).n
     IN  IF k > Len(functions)
           THEN Plain(<<>>)
           ELSE Plain(<<Target(F(functions[k])), Params(Arity[functions[k]]),
                        Stmts, Funcs(k + 1)>>)
  /\ UNCHANGED nodes

Function ==
  /\ At("funcs")
  /\ LET k == Head(todo).n
     IN  IF k > Len(functions)
           THEN Plain(<<>>)
           ELSE Plain(<<Target(F(functions[k])), Params(Arity[functions[k]]),
                        Stmts, Emit0("ret"), Funcs(k + 1)>>)
  /\ UNCHANGED nodes

(* Parameters are popped last to first; a structure is copied.             *)
Parameters ==
  /\ At("params")
  /\ LET i == Head(todo).n - 1
     IN  IF Head(todo).n = 0
           THEN Plain(<<>>)
           ELSE \/ Plain(<<Emit("movl", Loc(i)), Params(i)>>)
                \/ "struct" \in Forms /\ \E size \in Consts :
                     Plain(<<Emit("movl", Loc(i)),
                             Emit("pushi", Imm(size)), Emit0("alloc"),
                             Emit0("dup"), Emit("pushl", Loc(i)),
                             Emit("pushi", Imm(size)), Emit0("copy"),
                             Emit("movl", Loc(i)), Params(i)>>)
  /\ UNCHANGED nodes

(* hash_table_iterate visits the strings in the order of their buckets.    *)
Directives == {i \in DOMAIN code : code[i].op = ".string"}

StringDirectives ==
  /\ At("strings")
  /\ LET left == {i \in DOMAIN strings :
                    \A d \in Directives : code[d].arg # Str(i - 1)}
     IN  IF left = {}
           THEN Plain(<<>>)
           ELSE \E i \in left :
                  Plain(<<Emit(".string", Str(i - 1)), Strings>>)
  /\ UNCHANGED nodes

Done        == todo = <<>>
Terminating == Done /\ UNCHANGED vars

----------------------------------------------------------------------------
Init ==
  /\ code = <<>>
  /\ pending = {}
  /\ label_counter = 0
  /\ loop_entry_labels = <<>>
  /\ loop_exit_labels = <<>>
  /\ strings = <<>>
  /\ functions \in FunctionLists
  /\ nodes = 0
  /\ todo = <<Target(GlobalInit), Globals, Emit("jmp", MainLabel),
              Funcs(1), Strings>>

Expression ==
  \/ Ident \/ IntConstant \/ Binop \/ Unary \/ Ternary \/ AssignExpr
  \/ Call \/ Arguments \/ StringLiteral
  \/ Match \/ MatchCase \/ MatchEnd \/ MatchTests \/ MatchPattern

Statement ==
  \/ Empty \/ Compound \/ Statements \/ VariableDeclaration
  \/ DiscardedExpression \/ HandleDiscarded \/ Return \/ If \/ NoElse \/ ElsePart
  \/ While \/ For \/ ForEach \/ DoWhile \/ LeaveLoop \/ Break \/ Continue

Program ==
  \/ GlobalDeclarations \/ Function \/ Parameters \/ StringDirectives

Next ==
  \/ Generate \/ JumpTarget
  \/ Expression \/ Statement \/ Program
  \/ Terminating

Spec == Init /\ [][Next]_vars

----------------------------------------------------------------------------
(* Properties.                                                             *)

TypeOK ==
  /\ code \in Seq(Instr)
  /\ pending \subseteq Label
  /\ label_counter \in Nat
  /\ loop_entry_labels \in Seq(GenLabel)
  /\ loop_exit_labels \in Seq(GenLabel)
  /\ strings \in Seq(Literals)
  /\ functions \in FunctionLists
  /\ nodes \in Nat
  /\ todo \in Seq(Item)

(* A label the generator makes up is placed at most once: no two           *)
(* instructions carry it, and it does not wait for the next instruction    *)
(* when one carries it already.                                            *)
LabelsUnique ==
  \A i \in DOMAIN code : \A l \in code[i].labels \cap GenLabel :
    /\ l \notin pending
    /\ \A j \in DOMAIN code : l \in code[j].labels => i = j

(* When the program is generated, every label an instruction refers to is  *)
(* carried by an instruction - whatever the nesting of ifs, loops, breaks  *)
(* and matches in between.  Only main may be missing: nothing checks that  *)
(* the program defines it.                                                 *)
JumpsResolved ==
  Done =>
    \A i \in DOMAIN code :
      code[i].arg \in Label =>
        \/ \E j \in DOMAIN code : code[i].arg \in code[j].labels
        \/ /\ code[i].arg = MainLabel
           /\ \A k \in DOMAIN functions : functions[k] # "main"

(* No label is left without an instruction: generate_jump_target only      *)
(* records a label, and it is lost unless an instruction follows.          *)
NoDanglingLabel == Done => pending = {}

(* The two stacks of loop labels hold the labels of the loops whose        *)
(* handlers are active, outermost first.                                   *)
LoopStacks ==
  LET loops == SelectSeq(todo, LAMBDA it : it.act = "leave")
      n     == Len(loops)
  IN  /\ Len(loop_entry_labels) = n
      /\ Len(loop_exit_labels) = n
      /\ \A d \in 1 .. n :
           /\ loop_exit_labels[d]  = loops[n + 1 - d].arg
           /\ loop_entry_labels[d] = loops[n + 1 - d].arg2

(* The innermost loop around the code being generated: the first one in    *)
(* todo whose handler has not returned.                                    *)
IsInnermost(i) ==
  /\ todo[i].act = "leave"
  /\ \A j \in 1 .. i - 1 : todo[j].act # "leave"

(* break jumps out of, and continue jumps to the entry of, the innermost   *)
(* loop around the statement, never those of an outer or a finished loop.  *)
LoopControl ==
  [][/\ Break => \E i \in DOMAIN todo :
                    IsInnermost(i) /\ Head(todo') = Emit("jmp", todo[i].arg)
     /\ Continue => \E i \in DOMAIN todo :
                    IsInnermost(i) /\ Head(todo') = Emit("jmp", todo[i].arg2)
    ]_vars

(* Control never runs from one function, or from the initialisers, into    *)
(* the next function: the instruction before a function's first one        *)
(* returns or jumps.                                                       *)
NoFallThrough ==
  \A i \in DOMAIN code :
    (\E f \in Names : F(f) \in code[i].labels) =>
      i > 1 /\ code[i - 1].op \in {"ret", "jmp"}

(* The indexes of the string table are dense, and each string has exactly  *)
(* one directive when the program is complete.                             *)
StringsComplete ==
  Done =>
    /\ \A i \in DOMAIN code : code[i].op = "pushs" =>
         \E d \in Directives : code[d].arg = code[i].arg
    /\ \A i \in DOMAIN strings : \E d \in Directives :
         /\ code[d].arg = Str(i - 1)
         /\ \A e \in Directives : code[e].arg = Str(i - 1) => e = d
=============================================================================
