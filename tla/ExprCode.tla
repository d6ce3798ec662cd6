------------------------------ MODULE ExprCode ------------------------------
(***************************************************************************)
(* The code of expressions that read and write variables, elements and     *)
(* fields (code_generator.c), generated from what the optimizer of trees   *)
(* leaves.                                                                 *)
(*                                                                         *)
(* A struct is known by its address.  Whoever wants the address of a       *)
(* place and not what is there counts addr_calc_state up and trusts that   *)
(* the next subscript, access or dereference that is generated is this     *)
(* place, and counts it down.                                              *)
(*                                                                         *)
(* All variables are locals: a global has other instructions and nothing   *)
(* else.  A match, a slice and a range do not touch the counter.           *)
(***************************************************************************)
EXTENDS AstOptimize, SequencesExt

CONSTANTS
  Locals,    (* The variables, pairs of a name and a type, by slot.         *)
  Structs,   (* Of a struct the pairs of a field and its type.              *)
  Element,   (* The types of the elements of the array types ...            *)
  Length,    (* ... and the initial sizes.                                  *)
  Target,    (* The types that pointers and optionals lead to.              *)
  Optionals, (* Those of them that are optionals.                           *)
  Arity,     (* The functions and the numbers of their arguments.           *)
  Setup      (* The assignments before the program.                         *)

VARIABLE code
allVars == <<vars, code>>

----------------------------------------------------------------------------
(* Sizes, in words.  The size of an array type is that of its elements.    *)

is_struct(type) == type \in DOMAIN Structs
IsArray(type)   == type \in DOMAIN Element

RECURSIVE sizeof_type(_)
sizeof_type(type) ==
  CASE IsArray(type)   -> sizeof_type(Element[type])
    [] is_struct(type) -> FoldLeft(LAMBDA sum, f : sum + sizeof_type(f[2]), 0, Structs[type])
    [] OTHER           -> 1

FieldIndex(struct, name) == CHOOSE i \in DOMAIN Structs[struct] : Structs[struct][i][1] = name
FieldOffset(struct, name) ==
  FoldLeft(LAMBDA sum, f : sum + sizeof_type(f[2]), 0,
           SubSeq(Structs[struct], 1, FieldIndex(struct, name) - 1))

Slot(name) == (CHOOSE i \in DOMAIN Locals : Locals[i][1] = name) - 1

----------------------------------------------------------------------------
(* The generator: its state is the list of instructions, the counter and   *)
(* whether an assertion has failed.                                        *)

Nothing == [list |-> <<>>, addr_calc_state |-> 0, failed |-> FALSE]

Emit(g, op, operand) == [g EXCEPT !.list = Append(@, <<op, operand>>)]
enter_addr_calc(g)   == [g EXCEPT !.addr_calc_state = @ + 1]
InAddrCalc(g)        == g.addr_calc_state > 0

(* Mutant: the counter is read and not counted down.                       *)
PopKeeps(g) == g

pop_addr_calc_state(g) == IF InAddrCalc(g) THEN [g EXCEPT !.addr_calc_state = @ - 1] ELSE g
Restored(g, old)     == [g EXCEPT !.addr_calc_state = old.addr_calc_state]
Asserted(g, old)     == [g EXCEPT !.failed = @ \/ g.addr_calc_state # old.addr_calc_state]

LoadUnless(addr_calc_mode, g) == IF addr_calc_mode THEN g ELSE Emit(g, "load", 0)
StoreAs(type, g) ==
  IF is_struct(type) THEN Emit(Emit(g, "pushi", sizeof_type(type)), "copy", 0) ELSE Emit(g, "store", 0)
Scaled(g, size) == IF size > 1 THEN Emit(Emit(g, "pushi", size), "mul", 0) ELSE g

RECURSIVE generate_inner_size(_, _), generate_array_size(_, _)
generate_inner_size(g, type) ==
  IF IsArray(type)
  THEN generate_inner_size(Emit(Emit(g, "pushi", Length[type]), "mul", 0), Element[type])
  ELSE Scaled(g, sizeof_type(type))
generate_array_size(g, type) ==
  generate_inner_size(Emit(g, "pushi", Length[type]), Element[type])

ScaledIndex(g, type) ==
  IF IsArray(type) THEN Emit(generate_array_size(g, type), "mul", 0) ELSE Scaled(g, sizeof_type(type))

RECURSIVE Generate(_, _)
GenerateAll(g, nodes) == FoldLeft(LAMBDA h, n : Generate(h, n), g, nodes)

AST_ARRAY_SUBSCRIPT(g, n) ==
  LET index == Generate(Generate(pop_addr_calc_state(g), Left(n)), Right(n))
      place == IF IsArray(Type(Left(n))) THEN ScaledIndex(index, Element[Type(Left(n))]) ELSE index
  IN  LoadUnless(InAddrCalc(g), Emit(place, "add", 0))

AST_STRUCT_ACCESS(g, n) ==
  LET direct == Kind(n) = "access"
      popped == pop_addr_calc_state(g)
      object == Restored(Generate(IF direct THEN enter_addr_calc(popped) ELSE popped, Left(n)), popped)
      struct == IF direct THEN Type(Left(n)) ELSE Target[Type(Left(n))]
      checked == IF ~direct /\ Type(Left(n)) \in Optionals THEN Emit(object, "chknotnul", 0) ELSE object
  IN  LoadUnless(InAddrCalc(g),
        Emit(Emit(checked, "pushi", FieldOffset(struct, Token(n))), "add", 0))

AST_DEREF_EXPR(g, n) ==
  LET pointer == Generate(pop_addr_calc_state(g), Left(n))
  IN  IF Type(Left(n)) \in Optionals THEN Emit(pointer, "chknotnul", 0)
                                     ELSE LoadUnless(InAddrCalc(g), pointer)

AST_ADDR_EXPR(g, n) ==
  LET var == Left(n)
  IN  IF Kind(var) = "var"
      THEN Emit(g, IF is_struct(Type(var)) THEN "pushl" ELSE "getaddrl", Slot(Token(var)))
      ELSE Asserted(Generate(enter_addr_calc(g), var), g)

(* The assigned variable is generated once more for its value, unless the  *)
(* value is not used.                                                      *)
AST_ASSIGNMENT(g, n) ==
  LET var == Left(n)  type == Type(var)
      assigned ==
        IF Kind(var) = "subscript" /\ Type(Left(var)) = "string"
        THEN LET place == Emit(Generate(Generate(g, Left(var)), Right(var)), "add", 0)
             IN  Emit(Generate(place, Right(n)), "store", 0)
        ELSE IF Kind(var) # "var"
        THEN StoreAs(type, Generate(Asserted(Generate(enter_addr_calc(g), var), g), Right(n)))
        ELSE IF is_struct(type)
        THEN LET dest == Emit(g, "pushl", Slot(Token(var)))
             IN  StoreAs(type, Restored(Generate(enter_addr_calc(dest), Right(n)), dest))
        ELSE Emit(Generate(g, Right(n)), "movl", Slot(Token(var)))
  IN  IF Token(n) = "discard_result" THEN assigned ELSE Generate(assigned, var)

AST_STRUCT_INIT_EXPR(g, n) ==
  LET fields == Kids(n)
      Field(h, i) ==
        LET before == FoldLeft(LAMBDA sum, e : sum + sizeof_type(Type(e)), 0, SubSeq(fields, 1, i - 1))
            dest   == Emit(Emit(Emit(h, "dup", 0), "pushi", before), "add", 0)
        IN  StoreAs(Type(fields[i]), Generate(dest, fields[i]))
  IN  FoldLeft(Field, Emit(Emit(g, "pushi", sizeof_type(Type(n))), "alloc", 0),
               [i \in DOMAIN fields |-> i])

AST_ARRAY_LIT_EXPR(g, n) ==
  Emit(GenerateAll(Emit(Emit(Emit(g, "pushi", Len(Kids(n))), "alloc", 0), "dup", 0), Reverse(Kids(n))),
       "stackcpy", Len(Kids(n)))

(* rand(l, r): the left bound is generated twice.                          *)
AST_RAND_EXPR(g, n) ==
  Emit(Generate(Emit(Emit(Generate(Generate(g, Right(n)), Left(n)), "sub", 0), "randi", 0), Left(n)), "add", 0)

Generate(g, n) ==
  CASE Kind(n) = "int"       -> Emit(g, "pushi", Token(n))
    [] Kind(n) = "var"       -> Emit(g, "pushl", Slot(Token(n)))
    [] Kind(n) = "enclosed"  -> Generate(g, Left(n))
    [] Kind(n) = "binop"     -> Emit(GenerateAll(g, Kids(n)), "binop", Token(n))
    [] Kind(n) = "ternary"   -> Emit(GenerateAll(g, Kids(n)), "cmov", 0)
    [] Kind(n) = "call"      -> Emit(GenerateAll(g, Kids(n)), "call", Token(n))
    [] Kind(n) = "new"       -> Emit(Emit(g, "pushi", sizeof_type(Token(n))), "alloc", 0)
    [] Kind(n) = "subscript" -> AST_ARRAY_SUBSCRIPT(g, n)
    [] Kind(n) \in {"access", "arrow"} -> AST_STRUCT_ACCESS(g, n)
    [] Kind(n) = "deref"     -> AST_DEREF_EXPR(g, n)
    [] Kind(n) = "addr"      -> AST_ADDR_EXPR(g, n)
    [] Kind(n) = "assign"    -> AST_ASSIGNMENT(g, n)
    [] Kind(n) = "init"      -> AST_STRUCT_INIT_EXPR(g, n)
    [] Kind(n) = "array"     -> AST_ARRAY_LIT_EXPR(g, n)
    [] Kind(n) = "rand"      -> AST_RAND_EXPR(g, n)

AST_VARIABLE_DECLARATION(g, var_id) ==
  LET type == Locals[var_id + 1][2]
      init == CASE is_struct(type) -> Emit(Emit(g, "pushi", sizeof_type(type)), "alloc", 0)
                [] IsArray(type)   -> Emit(generate_array_size(g, type), "alloc", 0)
                [] type \in DOMAIN Target -> Emit(g, "pushnull", 0)
                [] OTHER           -> g
  IN  IF init = g THEN g ELSE Emit(init, "movl", var_id)
Declarations ==
  FoldLeft(AST_VARIABLE_DECLARATION, Nothing, [i \in DOMAIN Locals |-> i - 1])

(* Programs of the forms above, whose only operator is +; the others leave *)
(* no code here.                                                           *)
Generated == {"int", "var", "enclosed", "binop", "ternary", "call", "new", "subscript", "access", "arrow",
          "deref", "addr", "assign", "init", "array", "rand"}
InForms(p) ==
  \A i \in DOMAIN p : \A n \in Nodes(p[i]) :
    Kind(n) \in Generated /\ (Kind(n) = "binop" => Token(n) = "+" /\ Type(Left(n)) = "int")

CInit == Init /\ code = Nothing

optimize == ast_optimize_program /\ UNCHANGED code

generate_program ==
  /\ round = Rounds /\ code = Nothing /\ InForms(source)
  /\ code' = GenerateAll(Nothing, program)
  /\ UNCHANGED vars

Done ==
  /\ crashed \/ code # Nothing \/ (round = Rounds /\ ~InForms(source))
  /\ UNCHANGED allVars

CNext == optimize \/ generate_program \/ Done
CSpec == CInit /\ [][CNext]_allVars

----------------------------------------------------------------------------
(* The machine.  Memory begins with the slots of the locals; an address is *)
(* a word's index, from 0.                                                 *)

IsAddress(mem, a, size) == a >= 0 /\ a + size <= Len(mem)
Read(mem, a)     == mem[a + 1]
Write(mem, a, v) == [mem EXCEPT ![a + 1] = v]
Copy(mem, dest, src, size) ==
  [k \in DOMAIN mem |-> IF k \in dest + 1 .. dest + size THEN mem[k - dest + src] ELSE mem[k]]
Alloc(mem, size) == mem \o [k \in 1 .. size |-> 0]

Random(n)         == 0

(* id gives back the struct it gets, get adds a number to its first field, *)
(* succ adds one to a number.                                              *)
Result(mem, function, args) ==
  CASE function = "id"   -> args[1]
    [] function = "get"  -> Read(mem, args[1]) + args[2]
    [] function = "succ" -> args[1] + 1

(* The addresses an instruction uses, with the words behind them.          *)
Accessed(stack, i) ==
  CASE i[1] = "load"  -> {<<stack[1], 1>>}
    [] i[1] = "store" -> {<<stack[2], 1>>}
    [] i[1] = "copy"  -> {<<stack[2], stack[1]>>, <<stack[3], stack[1]>>}
    [] i[1] = "stackcpy" -> {<<stack[i[2] + 1], i[2]>>}
    [] i = <<"call", "get">> -> {<<stack[2], 1>>}
    [] OTHER -> {}

Executed(m, i) ==
  LET s == m.stack  mem == m.mem
      Push(n, v)     == [m EXCEPT !.stack = <<v>> \o SubSeq(s, n + 1, Len(s))]
      Put(n, memory) == [stack |-> SubSeq(s, n + 1, Len(s)), mem |-> memory, fault |-> FALSE]
  IN  CASE m.fault \/ \E a \in Accessed(s, i) : ~IsAddress(mem, a[1], a[2]) -> [m EXCEPT !.fault = TRUE]
        [] i[1] = "pushi"    -> Push(0, i[2])
        [] i[1] = "pushl"    -> Push(0, Read(mem, i[2]))
        [] i[1] = "getaddrl" -> Push(0, i[2])
        [] i[1] = "pushnull" -> Push(0, 0)
        [] i[1] = "dup"      -> Push(0, s[1])
        [] i[1] = "add"      -> Push(2, s[2] + s[1])
        [] i[1] = "sub"      -> Push(2, s[2] - s[1])
        [] i[1] = "mul"      -> Push(2, s[2] * s[1])
        [] i[1] = "binop"    -> Push(2, eval_int_binop(i[2], s[2], s[1]))
        [] i[1] = "cmov"     -> Push(3, IF s[3] # 0 THEN s[2] ELSE s[1])
        [] i[1] = "randi"    -> Push(1, Random(s[1]))
        [] i[1] = "load"     -> Push(1, Read(mem, s[1]))
        [] i[1] = "call"     -> Push(Arity[i[2]], Result(mem, i[2], Reverse(SubSeq(s, 1, Arity[i[2]]))))
        [] i[1] = "chknotnul" -> [m EXCEPT !.fault = s[1] = 0]
        [] i[1] = "movl"     -> Put(1, Write(mem, i[2], s[1]))
        [] i[1] = "store"    -> Put(2, Write(mem, s[2], s[1]))
        [] i[1] = "copy"     -> Put(3, Copy(mem, s[3], s[2], s[1]))
        [] i[1] = "alloc"    -> [m EXCEPT !.stack[1] = Len(mem), !.mem = Alloc(mem, s[1])]
        [] i[1] = "stackcpy" ->
             Put(i[2] + 1, [k \in DOMAIN mem |-> LET at == k - s[i[2] + 1]
                                                 IN  IF at \in 1 .. i[2] THEN s[at] ELSE mem[k]])

Run(list, memory) == FoldLeft(Executed, [stack |-> <<>>, mem |-> memory, fault |-> FALSE], list)

----------------------------------------------------------------------------
(* What the expressions mean: a value and a memory.  The value of a struct *)
(* is its address, also when it is an element, a field or behind a pointer,*)
(* and so is that of an array in an array.                                 *)

Places    == {"subscript", "access", "arrow", "deref"}
Inline(n) == Kind(n) \in Places /\ (is_struct(Type(n)) \/ (Kind(n) = "subscript" /\ IsArray(Type(n))))

RECURSIVE Words(_)
Words(type) == IF IsArray(type) THEN Length[type] * Words(Element[type]) ELSE sizeof_type(type)

Given(v, mem) == [v |-> v, mem |-> mem]
Assign(type, mem, a, v) ==
  IF is_struct(type) THEN Copy(mem, a, v, sizeof_type(type)) ELSE Write(mem, a, v)

RECURSIVE Value(_, _), Place(_, _)
Values(mem, nodes) ==
  FoldLeft(LAMBDA all, n : LET e == Value(all.mem, n) IN Given(Append(all.v, e.v), e.mem),
           Given(<<>>, mem), nodes)

Value(mem, n) ==
  LET all == Values(mem, Kids(n))  v == all.v
      Allocated(size) == Given(Len(mem), Alloc(mem, size))
  IN  CASE Kind(n) = "int"      -> Given(Token(n), mem)
        [] Kind(n) = "var"      -> Given(Read(mem, Slot(Token(n))), mem)
        [] Kind(n) = "enclosed" -> Value(mem, Left(n))
        [] Kind(n) = "binop"    -> Given(eval_int_binop(Token(n), v[1], v[2]), all.mem)
        [] Kind(n) = "ternary"  -> Given(IF v[1] # 0 THEN v[2] ELSE v[3], all.mem)
        [] Kind(n) = "call"     -> Given(Result(all.mem, Token(n), v), all.mem)
        [] Kind(n) = "rand"     -> LET bounds == Values(mem, Reverse(Kids(n)))
                                   IN  Given(bounds.v[2] + Random(bounds.v[1] - bounds.v[2]), bounds.mem)
        [] Kind(n) = "new"      -> Allocated(sizeof_type(Token(n)))
        [] Kind(n) = "addr"     -> Place(mem, Left(n))
        [] Kind(n) \in Places   ->
             LET p == Place(mem, n) IN IF Inline(n) THEN p ELSE Given(Read(p.mem, p.v), p.mem)
        [] Kind(n) = "assign"   ->
             LET p == Place(mem, Left(n))  e == Value(p.mem, Right(n))  type == Type(Left(n))
             IN  Given(IF is_struct(type) THEN p.v ELSE e.v, Assign(type, e.mem, p.v, e.v))
        [] Kind(n) = "init"     ->
             LET Field(m, i) == LET e == Value(m, Kids(n)[i])  f == Structs[Type(n)][i]
                                IN  Assign(f[2], e.mem, Len(mem) + FieldOffset(Type(n), f[1]), e.v)
             IN  Given(Len(mem), FoldLeft(Field, Allocated(sizeof_type(Type(n))).mem,
                                          [i \in DOMAIN Kids(n) |-> i]))
        [] Kind(n) = "array"    ->
             LET size == Words(Element[Type(n)])
                 e    == Values(Allocated(size * Len(Kids(n))).mem, Reverse(Kids(n)))
                 Put(m, i) == Assign(Element[Type(n)], m, Len(mem) + (i - 1) * size, Reverse(e.v)[i])
             IN  Given(Len(mem), FoldLeft(Put, e.mem, [i \in DOMAIN Kids(n) |-> i]))

Place(mem, n) ==
  LET all == Values(mem, Kids(n))  v == all.v
  IN  CASE Kind(n) = "var" ->
             Given(IF is_struct(Type(n)) THEN Read(mem, Slot(Token(n))) ELSE Slot(Token(n)), mem)
        [] Kind(n) = "subscript" -> Given(v[1] + v[2] * Words(Type(n)), all.mem)
        [] Kind(n) = "access"    -> Given(v[1] + FieldOffset(Type(Left(n)), Token(n)), all.mem)
        [] Kind(n) = "arrow"     -> Given(v[1] + FieldOffset(Target[Type(Left(n))], Token(n)), all.mem)
        [] Kind(n) = "deref"     ->
             IF Type(Left(n)) \in Optionals /\ ~is_struct(Type(n)) THEN Place(mem, Left(n))
             ELSE Given(v[1], all.mem)

(* A statement leaves the value that is used.                              *)
Discarded(n) == Kind(n) = "assign" /\ Token(n) = "discard_result"
Meant(p, memory) ==
  FoldLeft(LAMBDA m, n : LET e == Value(m.mem, n)
                         IN  [stack |-> IF Discarded(n) THEN m.stack ELSE <<e.v>> \o m.stack,
                              mem |-> e.mem, fault |-> FALSE],
           [stack |-> <<>>, mem |-> memory, fault |-> FALSE], p)

----------------------------------------------------------------------------
(* Properties.                                                             *)

Declared == Run(Declarations.list, [k \in DOMAIN Locals |-> 0]).mem
Memory   == Meant(Setup, Declared).mem

(* The operand whose address the handler asks for.                         *)
Wants(n, i) ==
  CASE Kind(n) = "assign" -> \/ i = 1 /\ Kind(Left(n)) # "var"
                             \/ i = 2 /\ Kind(Left(n)) = "var" /\ is_struct(Type(Left(n)))
    [] Kind(n) = "access" -> TRUE
    [] Kind(n) = "addr"   -> Kind(Left(n)) # "var"
    [] OTHER              -> FALSE

(* The mode asked for a place is taken by a place inside a call, a choice  *)
(* or an initialiser that stands there.                                    *)
Leaked(n) ==
  \E i \in DOMAIN Kids(n) :
    /\ Wants(n, i) /\ Kind(Inside(Kids(n)[i])) \notin Places
    /\ \E m \in Nodes(Kids(n)[i]) : Kind(m) \in Places

(* A struct, or an array in an array, is loaded as if it were a word,      *)
(* unless an optional leads to it.                                         *)
LoadedPlace(n) == Inline(n) /\ ~(Kind(n) = "deref" /\ Type(Left(n)) \in Optionals)
Loaded(n) ==
  /\ Kind(n) # "enclosed"
  /\ \E i \in DOMAIN Kids(n) : LoadedPlace(Inside(Kids(n)[i])) /\ ~Wants(n, i)

(* What is generated twice changes something, or is changed in between.    *)
Twice(n) ==
  \/ /\ Kind(n) = "rand" \/ (Kind(n) = "assign" /\ ~Discarded(n) /\ Kind(Left(n)) # "var")
     /\ \E m \in Nodes(Left(n)) : Kind(m) \in {"assign", "new"}
  \/ /\ Kind(n) = "assign" /\ ~Discarded(n) /\ Kind(Left(n)) # "var"
     /\ \E m \in Nodes(Right(n)) : Kind(m) = "assign" /\ Left(m) \in Nodes(Left(n))

(* The value of an optional is taken for its address.                      *)
OptionalWritten(n) ==
  \E i \in DOMAIN Kids(n) : LET m == Kids(n)[i]
    IN  Wants(n, i) /\ Kind(m) = "deref" /\ Type(Left(m)) \in Optionals /\ ~is_struct(Type(m))

(* The literal holds the addresses of the structs.                         *)
LiteralOfStructs(n) == Kind(n) = "array" /\ is_struct(Element[Type(n)])

Odd(n) == Leaked(n) \/ Loaded(n) \/ Twice(n) \/ OptionalWritten(n) \/ LiteralOfStructs(n)

(* Outside these cases the code computes what the source means: each place *)
(* is loaded or left as an address as its use requires, at whatever depth, *)
(* inside the words of its variable, and the assertions about the counter  *)
(* hold (code_generator.c:322-400, 696-991).                               *)
CodeComputes ==
  code # Nothing =>
    \/ \E i \in DOMAIN source : LoadedPlace(Inside(source[i])) \/ \E n \in Nodes(source[i]) : Odd(n)
    \/ ~code.failed /\ Run(code.list, Memory) = Meant(source, Memory)
=============================================================================
