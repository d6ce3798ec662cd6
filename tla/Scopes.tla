------------------------------- MODULE Scopes -------------------------------
(***************************************************************************)
(* The part of the semantic pass (semantic_pass.c) that gives variables    *)
(* their slots: the declarations of locals, globals and temporaries, the   *)
(* two depth counters, and the annotation of each identifier with the slot *)
(* or the global it stands for.  Types are checked in module TypeCheck.    *)
(*                                                                         *)
(* The pass is one depth first walk of the tree.  The tree is chosen while *)
(* it is walked: todo holds what the handlers that are active have still   *)
(* to do, and an "expr" or "stmt" item is replaced by any expression or    *)
(* statement.  live is not a variable of the program: it holds the slots   *)
(* whose scope, by the block structure of the source text, is still open.  *)
(***************************************************************************)
EXTENDS Integers, Sequences, FiniteSets, SequencesExt

CONSTANTS
  Names,      (* The identifiers of the program.                           *)
  Functions,  (* Those that name a function,                               *)
  Builtins,   (* and those that name a builtin.                            *)
  Params,     (* The parameters of each function: a sequence of sequences. *)
  Forms,      (* The forms of statements and expressions to walk.          *)
  MaxNodes    (* Bound on the nodes of the program.                        *)

ASSUME FunctionsAssumption == Functions \subseteq Names /\ Builtins \subseteq Names
ASSUME ParamsAssumption    == Params \in Seq(Seq(Names))
ASSUME NodesAssumption     == MaxNodes \in Nat

VARIABLES
  locals,            (* current_function->locals                           *)
  globals,           (* current_program->globals                           *)
  nest_depth, loop_depth, in_function,
  current_function,  (* 0 is NULL.                                         *)
  ident,             (* What the pass wrote into the identifier it met last. *)
  live, todo, nodes,
  phase              (* "running", "error", "crashed"                      *)

vars == <<locals, globals, nest_depth, loop_depth, in_function,
          current_function, ident, live, todo, nodes, phase>>

Garbage == "?"       (* The name of a temporary is never written.          *)
Kind    == {"none", "local", "global"}
Local   == [name : Names \cup {Garbage}, nest_depth : Nat, temp : BOOLEAN]
Ident   == [name : Names \cup {Garbage}, kind : Kind, id : Nat]
NoIdent == [name |-> Garbage, kind |-> "none", id |-> 0]

----------------------------------------------------------------------------
(* The items of todo.  "leave" ends a scope: it takes nest and loop from   *)
(* the two depths, and the slots from n on go out of scope.                *)

Item == [act  : {"stmt", "stmts", "expr", "cases", "use", "call", "declare",
                 "temp", "leave", "globals", "funcs", "return"},
         name : Names \cup {Garbage}, n : Nat, nest : {0, 1}, loop : {0, 1}]

Do(act, name, n) == [act |-> act, name |-> name, n |-> n, nest |-> 0, loop |-> 0]
Stmt       == Do("stmt", Garbage, 0)
Stmts      == Do("stmts", Garbage, 0)
Expr       == Do("expr", Garbage, 0)
Cases      == Do("cases", Garbage, 0)
Use(x)     == Do("use", x, 0)
Declare(x) == Do("declare", x, 0)
Temp       == Do("temp", Garbage, 0)
TempUnlessLocal(x) == Do("temp", x, 0)
Globals    == Do("globals", Garbage, 0)
Funcs(k)   == Do("funcs", Garbage, k)
EndFunction == Do("return", Garbage, 0)
Leave(nest, loop) ==
  [act |-> "leave", name |-> Garbage, n |-> Len(locals), nest |-> nest, loop |-> loop]

At(act) == phase = "running" /\ todo # <<>> /\ Head(todo).act = act
Unfold(script) == todo' = script \o Tail(todo)

Visit(act, form) ==
  /\ At(act)
  /\ form \in Forms
  /\ nodes < MaxNodes
  /\ nodes' = nodes + 1

SameDepths == UNCHANGED <<nest_depth, loop_depth>>
SameSlots  == UNCHANGED <<locals, globals, live, ident>>
SamePlace  == UNCHANGED <<in_function, current_function>>

(* A handler that only visits children.                                    *)
Plain(script) ==
  /\ Unfold(script)
  /\ UNCHANGED phase
  /\ SameDepths /\ SameSlots /\ SamePlace

(* error and a NULL dereference end the program.                           *)
Stop(how) ==
  /\ phase' = how
  /\ UNCHANGED todo
  /\ SameDepths /\ SameSlots /\ SamePlace

----------------------------------------------------------------------------
(* Look-ups.                                                               *)

Slot(i) == locals[i + 1]
Slots   == 0 .. Len(locals) - 1

(* The slots find_local accepts; it returns the first.                     *)
Found(x) ==
  IF current_function = 0 THEN {}
  ELSE {i \in Slots : /\ ~Slot(i).temp
                      /\ Slot(i).nest_depth <= nest_depth
                      /\ Slot(i).name = x}

First(S)  == CHOOSE i \in S : \A j \in S : i <= j
Newest(S) == CHOOSE i \in S : \A j \in S : j <= i
(* Mutant: the search runs from the last slot to the first.                *)
FindFromTheEnd(x) == Newest(Found(x))
find_local(x)  == First(Found(x))
GlobalIds(x)   == {i \in 0 .. Len(globals) - 1 : globals[i + 1] = x}
find_global(x) == First(GlobalIds(x))

(* semanal_ident                                                           *)
Identifier ==
  /\ At("use")
  /\ LET x == Head(todo).name
         is(kind, id) == /\ ident' = [name |-> x, kind |-> kind, id |-> id]
                         /\ Unfold(<<>>)
                         /\ UNCHANGED <<locals, globals, live, phase>>
                         /\ SameDepths /\ SamePlace
     IN  IF Found(x) # {} THEN is("local", find_local(x))
         ELSE IF GlobalIds(x) # {} THEN is("global", find_global(x))
         ELSE Stop("error")
  /\ UNCHANGED nodes

----------------------------------------------------------------------------
(* Slots.                                                                  *)

Added(x, temp) ==
  /\ locals' = Append(locals, [name |-> x, nest_depth |-> nest_depth, temp |-> temp])
  /\ live' = IF temp THEN live ELSE live \cup {Len(locals)}
  /\ UNCHANGED <<globals, ident, phase>>
  /\ SameDepths /\ SamePlace

(* Without a function the list of its locals is read through NULL.         *)
CreateTemporary ==
  /\ At("temp")
  /\ LET x == Head(todo).name
     IN  IF x # Garbage /\ Found(x) # {} THEN Plain(<<>>)
         ELSE IF current_function = 0 THEN Stop("crashed")
         ELSE Added(Garbage, TRUE) /\ Unfold(<<>>)
  /\ UNCHANGED nodes

(* The head of semanal_variable_declaration: in_function decides.          *)
VariableDeclared ==
  /\ At("declare")
  /\ LET x == Head(todo).name
     IN  IF in_function
         THEN Added(x, FALSE)
         ELSE /\ globals' = Append(globals, x)
              /\ UNCHANGED <<locals, live, ident, phase>>
              /\ SameDepths /\ SamePlace
  /\ Unfold(<<>>)
  /\ UNCHANGED nodes

(* The size of an array type, and an assignment of the first value, are    *)
(* read when the variable is declared already; the assigned variable is    *)
(* looked up by its name.                                                  *)
Declaration(x) ==
  {<<Declare(x)>> \o size \o init :
     size \in {<<>>, <<Expr>>}, init \in {<<>>, <<Use(x), Expr>>}}

----------------------------------------------------------------------------
(* Expressions.                                                            *)

Constant ==
  /\ At("expr")
  /\ Plain(<<>>)
  /\ UNCHANGED nodes

IdentExpression ==
  /\ Visit("expr", "ident")
  /\ \E x \in Names : Plain(<<Use(x)>>)

Binop ==
  /\ Visit("expr", "binop")
  /\ Plain(<<Expr, Expr>>)

Ternary ==
  /\ Visit("expr", "ternary")
  /\ Plain(<<Expr, Expr, Expr>>)

Assignment ==
  /\ Visit("expr", "assign")
  /\ \E x \in Names : Plain(<<Use(x), Expr>>)

(* A function, then a builtin, then a variable: the arguments follow.      *)
FuncCall ==
  /\ Visit("expr", "call")
  /\ \E x \in Names :
       Plain((IF x \in Functions \cup Builtins THEN <<>> ELSE <<Use(x)>>) \o <<Expr>>)

AddrGet ==
  /\ Visit("expr", "addr")
  /\ \E x \in Names : Plain(IF x \in Functions THEN <<>> ELSE <<Use(x)>>)

(* The tested value is kept in a temporary, unless it is a local variable. *)
Match ==
  /\ Visit("expr", "match")
  /\ \/ Plain(<<Expr, Cases, Temp>>)
     \/ \E x \in Names : Plain(<<Use(x), Cases, TempUnlessLocal(x)>>)

(* A pattern may be an identifier.                                         *)
MatchCases ==
  /\ At("cases")
  /\ \/ Plain(<<>>)
     \/ Plain(<<Expr>>)
     \/ nodes < MaxNodes /\ \E x \in Names : Plain(<<Use(x), Expr>>)
  /\ UNCHANGED nodes

----------------------------------------------------------------------------
(* Statements.                                                             *)

ExpressionStatement ==
  /\ At("stmt")
  /\ Plain(<<Expr>>)
  /\ UNCHANGED nodes

Empty ==
  /\ At("stmt")
  /\ Plain(<<>>)
  /\ UNCHANGED nodes

Return ==
  /\ Visit("stmt", "return")
  /\ Plain(<<>>) \/ Plain(<<Expr>>)

LocalDeclaration ==
  /\ Visit("stmt", "decl")
  /\ \E x \in Names : \E script \in Declaration(x) : Plain(script)

Statements ==
  /\ At("stmts")
  /\ \/ nodes < MaxNodes /\ Plain(<<Stmt, Stmts>>)
     \/ Plain(<<>>)
  /\ UNCHANGED nodes

If ==
  /\ Visit("stmt", "if")
  /\ Plain(<<Expr, Stmt>>) \/ Plain(<<Expr, Stmt, Stmt>>)

(* A handler that changes the depths around its children.                  *)
Enter(form, nest, loop, script) ==
  /\ Visit("stmt", form)
  /\ nest_depth' = nest_depth + nest
  /\ loop_depth' = loop_depth + loop
  /\ Unfold(script \o <<Leave(nest, loop)>>)
  /\ UNCHANGED phase
  /\ SameSlots /\ SamePlace

Compound == Enter("compound", 1, 0, <<Stmts>>)
While    == Enter("while", 0, 1, <<Expr, Stmt>>)
DoWhile  == Enter("do", 0, 1, <<Stmt, Expr>>)
For      == Enter("for", 1, 1, <<Stmt, Expr, Expr, Stmt>>)

(* The array expression, a variable here, is read before the loop variable *)
(* is declared, and once more in the assignment of the loop variable.      *)
ForEach ==
  \E x, array \in Names :
    Enter("foreach", 1, 1,
          <<Use(array), Declare(x), Temp, Use(x), Use(array), Use(x), Stmt>>)

(* Mutant: the nesting depth stays as it was in the scope.                 *)
LeaveInside ==
  /\ At("leave")
  /\ loop_depth' = loop_depth - Head(todo).loop
  /\ live' = IF Head(todo).nest = 1 THEN {i \in live : i < Head(todo).n} ELSE live
  /\ Unfold(<<>>)
  /\ UNCHANGED <<nest_depth, locals, globals, ident, nodes, phase>>
  /\ SamePlace
LeaveScope ==
  /\ At("leave")
  /\ nest_depth' = nest_depth - Head(todo).nest
  /\ loop_depth' = loop_depth - Head(todo).loop
  /\ live' = IF Head(todo).nest = 1 THEN {i \in live : i < Head(todo).n} ELSE live
  /\ Unfold(<<>>)
  /\ UNCHANGED <<locals, globals, ident, nodes, phase>>
  /\ SamePlace

LoopCtrl ==
  /\ Visit("stmt", "loop_ctrl")
  /\ IF loop_depth = 0 THEN Stop("error") ELSE Plain(<<>>)

----------------------------------------------------------------------------
(* The program: the global declarations, then the functions.               *)

GlobalDeclarations ==
  /\ At("globals")
  /\ \/ Plain(<<Funcs(1)>>) /\ UNCHANGED nodes
     \/ /\ "global" \in Forms /\ nodes < MaxNodes
        /\ nodes' = nodes + 1
        /\ \E x \in Names : \E script \in Declaration(x) : Plain(script \o <<Globals>>)

(* Mutant: the parameters are declared one level too deep.                 *)
ParametersNested ==
  /\ At("funcs")
  /\ Head(todo).n <= Len(Params)
  /\ LET k == Head(todo).n
     IN  /\ in_function' = TRUE
         /\ current_function' = k
         /\ locals' = [i \in DOMAIN Params[k] |->
                        [name |-> Params[k][i], nest_depth |-> 1, temp |-> FALSE]]
         /\ live' = 0 .. Len(Params[k]) - 1
         /\ \E sizes \in {<<>>, <<Expr>>} :
              Unfold(sizes \o <<Stmts, EndFunction, Funcs(k + 1)>>)
  /\ ident' = NoIdent
  /\ UNCHANGED <<globals, nodes, phase>>
  /\ SameDepths

(* The locals of a function begin with its parameters, whose array sizes   *)
(* are read when all of them are declared.                                 *)
Function ==
  /\ At("funcs")
  /\ Head(todo).n <= Len(Params)
  /\ LET k == Head(todo).n
     IN  /\ in_function' = TRUE
         /\ current_function' = k
         /\ locals' = [i \in DOMAIN Params[k] |->
                        [name |-> Params[k][i], nest_depth |-> 0, temp |-> FALSE]]
         /\ live' = 0 .. Len(Params[k]) - 1
         /\ \E sizes \in {<<>>, <<Expr>>} :
              Unfold(sizes \o <<Stmts, EndFunction, Funcs(k + 1)>>)
  /\ ident' = NoIdent
  /\ UNCHANGED <<globals, nodes, phase>>
  /\ SameDepths

FunctionEnds ==
  /\ At("return")
  /\ in_function' = FALSE
  /\ Unfold(<<>>)
  /\ UNCHANGED <<current_function, nodes, phase>>
  /\ SameDepths /\ SameSlots

ProgramEnds ==
  /\ At("funcs")
  /\ Head(todo).n > Len(Params)
  /\ Plain(<<>>)
  /\ UNCHANGED nodes

Stopped == (phase # "running" \/ todo = <<>>) /\ UNCHANGED vars

----------------------------------------------------------------------------
Init ==
  /\ locals = <<>>
  /\ globals = <<>>
  /\ nest_depth = 0
  /\ loop_depth = 0
  /\ in_function = FALSE
  /\ current_function = 0
  /\ ident = NoIdent
  /\ live = {}
  /\ todo = <<Globals>>
  /\ nodes = 0
  /\ phase = "running"

Next ==
  \/ Identifier \/ CreateTemporary \/ VariableDeclared
  \/ Constant \/ IdentExpression \/ Binop \/ Ternary \/ Assignment
  \/ FuncCall \/ AddrGet \/ Match \/ MatchCases
  \/ ExpressionStatement \/ Empty \/ Return \/ LocalDeclaration \/ Statements \/ If
  \/ Compound \/ While \/ DoWhile \/ For \/ ForEach \/ LeaveScope \/ LoopCtrl
  \/ GlobalDeclarations \/ Function \/ FunctionEnds \/ ProgramEnds
  \/ Stopped

Spec == Init /\ [][Next]_vars

----------------------------------------------------------------------------
(* Properties.                                                             *)
(* The scopes and the loops that the active handlers have still to leave.  *)
OpenScopes == {i \in DOMAIN todo : todo[i].nest = 1}
OpenLoops  == {i \in DOMAIN todo : todo[i].loop = 1}

(* The depths count the scopes and the loops that are open around the node *)
(* being walked, and are 0 again between two functions: break is accepted  *)
(* exactly inside loops, and no scope leaks into the next function.        *)
DepthsBalanced ==
  nest_depth = Cardinality(OpenScopes) /\ loop_depth = Cardinality(OpenLoops)

(* The declarations of x that are in scope, by the text of the program,    *)
(* and all those the function has met, also in blocks that have ended.     *)
InScope(x)      == {i \in live : Slot(i).name = x}
Declarations(x) == {i \in Slots : ~Slot(i).temp /\ Slot(i).name = x}
Outside(i)      == Slot(i).nest_depth <= Cardinality(OpenScopes)

Is(x, kind, id) == ident' = [name |-> x, kind |-> kind, id |-> id]

(* Names may be declared again, in the same block, in an inner one or after *)
(* a block that has ended.  An identifier stands for its innermost          *)
(* declaration in scope, unless the function has met, before that one, a    *)
(* declaration of the name no deeper than the identifier: one that an inner *)
(* one hides, or one that is outlived (semantic_pass.c:44, 53).  Where no   *)
(* local is in scope, and none outlived as far out, it is the global one.   *)
ResolvesInnermost ==
  [][Identifier =>
       LET x == Head(todo).name
           d == Newest(InScope(x))
       IN  /\ InScope(x) # {} /\ (\A i \in Declarations(x) : i < d => ~Outside(i)) =>
                Is(x, "local", d)
           /\ InScope(x) = {} /\ GlobalIds(x) # {} /\ (\A i \in Declarations(x) : ~Outside(i)) =>
                Is(x, "global", First(GlobalIds(x)))
    ]_vars

(* The loops of the repository's program_wireworld.dps declare i and j once *)
(* more, as deep as the first loops or deeper.  A name whose first          *)
(* declaration in the function is the outermost has one slot, the first     *)
(* one, wherever any of its declarations is in scope: what the head of a    *)
(* loop writes is what its body reads, however deep in it.                  *)
RedeclaredShare ==
  [][Identifier =>
       LET x == Head(todo).name
           D == Declarations(x)
       IN  InScope(x) # {} /\ (\A i \in D : Slot(First(D)).nest_depth <= Slot(i).nest_depth) =>
             Is(x, "local", First(D))
    ]_vars
=============================================================================
