---------------------------- MODULE AsmOptimizer ----------------------------
(***************************************************************************)
(* The peephole optimizer (asm_optimizer.c).  It walks the instruction     *)
(* list and gives every instruction to a fixed list of passes, each of     *)
(* which looks at the next few instructions and may rewrite or remove      *)
(* some; then it replaces jumps to jumps.  main runs it over and over.     *)
(*                                                                         *)
(* An instruction is a record [labels, op, arg], a list of instructions a  *)
(* sequence, a pointer into the list an index.  An operand is a pair: an   *)
(* integer, a local, a label or none.                                      *)
(***************************************************************************)
EXTENDS Integers, Sequences, FiniteSets

CONSTANTS
  Programs,    (* The instruction lists the code generator may hand over.  *)
  Rounds       (* How often main calls optimize_asm.                       *)

ASSUME RoundsAssumption == Rounds \in Nat \ {0}

VARIABLES
  code,
  cursor,      (* The instruction do_peephole looks at.                    *)
  pass,        (* The next pass for it, an index of optimization_passes.   *)
  round,       (* How many calls of optimize_asm are complete.             *)
  phase        (* "peephole", "shorten", "done" or "crashed".              *)

optVars == <<code, cursor, pass, round, phase>>

Imm(k)  == <<"int", k>>
None    == <<"none", 0>>
Ins(op, arg) == [labels |-> {}, op |-> op, arg |-> arg]

Pushes == {"pushi", "pushib", "pushl", "pushs", "pushf", "pushg", "pushnull"}

(* binop_opcodes: the rows of integers and of reals.  generate refuses     *)
(* invl, but not inlv, which stands for ~ of two integers.  The boolean    *)
(* operators are those is_bool says it of.                                 *)
IntBinops  == {"add", "sub", "mul", "idiv", "mod", "inlv", "eq", "neq", "gt", "ge", "lt", "le",
               "land", "lor", "and", "or", "xor", "shl", "shr"}
BoolBinops == {"eq", "neq", "gt", "ge", "lt", "le", "land", "lor",
               "feq", "fneq", "fgt", "fge", "flt", "fle"}

Flag(b) == IF b THEN 1 ELSE 0
Sign(x) == IF x < 0 THEN -1 ELSE 1
Abs(x)  == x * Sign(x)

(* x & y: of one, two, four, eight and sixteen bits, and of the whole      *)
(* integer, whose upper half has the sign.                                 *)
And1(x, y)  == (x % 2) * (y % 2)
And2(x, y)  == And1(x, y) + 2 * And1(x \div 2, y \div 2)
And4(x, y)  == And2(x, y) + 4 * And2(x \div 4, y \div 4)
And8(x, y)  == And4(x, y) + 16 * And4(x \div 16, y \div 16)
And16(x, y) == And8(x, y) + 256 * And8(x \div 256, y \div 256)
BitAnd(x, y) ==
  LET upper == And16(x \div 65536, y \div 65536)
  IN  And16(x, y) + 65536 * (IF upper < 32768 THEN upper ELSE upper - 65536)

(* 2^(y % 32): the processor takes the last five bits of the count.        *)
Factor(y, bit, power) == IF (y \div bit) % 2 = 1 THEN power ELSE 1
Scale(y) ==
  Factor(y, 1, 2) * Factor(y, 2, 4) * Factor(y, 4, 16) * Factor(y, 8, 256) * Factor(y, 16, 65536)

(* The operators that stop the compiler: a division by 0, and inlv, which  *)
(* the switch does not know (an assertion).                                *)
Undefined(op, y) == (op \in {"idiv", "mod"} /\ y = 0) \/ op = "inlv"

(* A sum, a product or a shift that an int cannot hold is not modelled.    *)
eval_int_binop(op, x, y) ==
  CASE op = "add"  -> x + y
    [] op = "sub"  -> x - y
    [] op = "mul"  -> x * y
    [] op = "idiv" -> Sign(x) * Sign(y) * (Abs(x) \div Abs(y))
    [] op = "mod"  -> Sign(x) * (Abs(x) % Abs(y))
    [] op = "eq"   -> Flag(x = y)
    [] op = "neq"  -> Flag(x # y)
    [] op = "gt"   -> Flag(x > y)
    [] op = "ge"   -> Flag(x >= y)
    [] op = "lt"   -> Flag(x < y)
    [] op = "le"   -> Flag(x <= y)
    [] op = "land" -> Flag(x # 0 /\ y # 0)
    [] op = "lor"  -> Flag(x # 0 \/ y # 0)
    [] op = "and"  -> BitAnd(x, y)
    [] op = "or"   -> x + y - BitAnd(x, y)
    [] op = "xor"  -> x + y - 2 * BitAnd(x, y)
    [] op = "shl"  -> x * Scale(y)
    [] op = "shr"  -> x \div Scale(y)

(* Of a comparison, the opcode that reads its first operand from a local,  *)
(* and the one that says the opposite.                                     *)
InPlace ==
  [eq |-> "eql", neq |-> "neql", gt |-> "gtl", ge |-> "gel", lt |-> "ltl", le |-> "lel",
   land |-> "landl", lor |-> "lorl",
   feq |-> "feql", fneq |-> "fneql", fgt |-> "fgtl", fge |-> "fgel", flt |-> "fltl", fle |-> "flel"]
Opposite == [neq |-> "eq", fneq |-> "feq", strneq |-> "streq"]

----------------------------------------------------------------------------
(* The programs.                                                           *)
Operand ==
  ({"int", "real", "local", "global", "str", "L", "I", "none"} \X Int) \cup ({"F"} \X STRING)
(* The opcodes the passes look for or write; "other" stands for the rest.  *)
Opcode == Pushes \cup IntBinops \cup BoolBinops \cup {"strneq", "streq"} \cup
  {"eql", "neql", "gtl", "gel", "ltl", "lel", "landl", "lorl",
   "feql", "fneql", "fgtl", "fgel", "fltl", "flel"} \cup
  {"movl", "movg", "copyl", "incl", "decl", "inc", "dec", "lnot", "dup", "pop", "cmov",
   "jmp", "jf", "jt", "call", "ret", ".string", "other"}
Instruction == [labels : SUBSET Operand, op : Opcode, arg : Operand]

Jumps == {"jmp", "jf", "jt", "call"}

(* No label is at two instructions, and every jump finds its label.        *)
LabelsOnce(c) == \A i, j \in DOMAIN c : c[i].labels \cap c[j].labels # {} => i = j
JumpsLead(c) ==
  \A i \in DOMAIN c : c[i].op \in Jumps => \E j \in DOMAIN c : c[i].arg \in c[j].labels

(* A program begins with the initialisers of its globals and the jump to   *)
(* main: constants and globals are pushed and computed with, until an      *)
(* instruction comes that no pass takes away.  There are no locals yet,    *)
(* and the operators find their operands: with the instruction op the      *)
(* stack goes from the height x to y, and it is not empty again.           *)
Computing(op, x, y) ==
  \/ op \in Pushes \ {"pushl"} /\ y = x + 1
  \/ op = "dup" /\ x >= 1 /\ y = x + 1
  \/ op \in {"lnot", "inc", "dec"} /\ x >= 1 /\ y = x
  \/ op \in IntBinops /\ x >= 2 /\ y = x - 1
Lasting == {"jmp", "jf", "jt", "ret", "call", "movg", "cmov", ".string", "other",
            "strneq", "streq", "feq", "fneq", "fgt", "fge", "flt", "fle"}

Starts(c, b, height) ==
  /\ c[b].op \in Lasting
  /\ height[0] = 0
  /\ \A k \in 1 .. b - 1 : Computing(c[k].op, height[k - 1], height[k])
Begins(c) == \E b \in DOMAIN c : \E height \in [0 .. b - 1 -> 0 .. b] : Starts(c, b, height)

(* It ends with the ret of a function or the directive of a string.        *)
Ends(c)   == c[Len(c)].op \in {"ret", ".string"}

IsProgram(c) ==
  /\ c \in Seq(Instruction) /\ c # <<>>
  /\ LabelsOnce(c) /\ JumpsLead(c)
  /\ Begins(c) /\ Ends(c)

ASSUME ProgramsAssumption == \A c \in Programs : IsProgram(c)

----------------------------------------------------------------------------
(* What a pass does: code is the list it leaves, gone says that the        *)
(* instruction at the cursor was removed (NEXT_INSTRUCTION: the passes go  *)
(* on with the one behind it, which is at the cursor now), crash that the  *)
(* compiler stopped.                                                       *)
Kept(c)    == [code |-> c, gone |-> FALSE, crash |-> FALSE]
Crash(c)   == [code |-> c, gone |-> FALSE, crash |-> TRUE]

(* Mutant: the labels of the instructions that go are lost.                *)
CutLosesLabels(c, m, n) ==
  [j \in 1 .. Len(c) - (n - m + 1) |-> IF j < m THEN c[j] ELSE c[j + (n - m + 1)]]

(* remove_ins for the instructions m .. n: their labels go to the next one.*)
Cut(c, m, n) ==
  [j \in 1 .. Len(c) - (n - m + 1) |->
     IF j < m THEN c[j]
     ELSE IF j > m THEN c[j + (n - m + 1)]
     ELSE [c[n + 1] EXCEPT !.labels = @ \cup UNION {c[k].labels : k \in m .. n}]]

(* The list has no node before its first and none behind its last one.     *)
Removed(c, m, n, gone) ==
  IF m = 1 \/ n = Len(c)
    THEN Crash(c)
    ELSE [code |-> Cut(c, m, n), gone |-> gone, crash |-> FALSE]

Put(c, i, op, arg) == [c EXCEPT ![i].op = op, ![i].arg = arg]
PutOp(c, i, op)    == [c EXCEPT ![i].op = op]

(* The instruction i exists, is an op and is no jump target.               *)
Is(c, i, ops)     == i <= Len(c) /\ c[i].op \in ops
Inner(c, i)       == i <= Len(c) /\ c[i].labels = {}
InnerIs(c, i, ops) == Is(c, i, ops) /\ Inner(c, i)
SameArg(c, i, j)  == c[i].arg = c[j].arg
IsImm(c, i, ks)   == c[i].arg \in {Imm(k) : k \in ks}

----------------------------------------------------------------------------
(* The passes, for the instruction i of the list c.                        *)

(* movl x; pushl x -> copyl x, unless a pop follows.                       *)
peephole_copyl(c, i) ==
  IF /\ Is(c, i, {"movl"})
     /\ InnerIs(c, i + 1, {"pushl"})
     /\ SameArg(c, i, i + 1)
     /\ ~ InnerIs(c, i + 2, {"pop"})
  THEN Removed(PutOp(c, i, "copyl"), i + 1, i + 1, FALSE)
  ELSE Kept(c)

(* copyl x; copyl x -> copyl x                                             *)
peephole_useless_copyl(c, i) ==
  IF Is(c, i, {"copyl"}) /\ InnerIs(c, i + 1, {"copyl"}) /\ SameArg(c, i, i + 1)
  THEN Removed(c, i + 1, i + 1, FALSE)
  ELSE Kept(c)

(* copyl x; anything; copyl x -> anything; copyl x                         *)
peephole_useless_copyl_sandwich(c, i) ==
  IF /\ Is(c, i, {"copyl"})
     /\ Inner(c, i + 1)
     /\ InnerIs(c, i + 2, {"copyl"})
     /\ SameArg(c, i, i + 2)
  THEN Removed(c, i, i, TRUE)
  ELSE Kept(c)

(* pushi 0; add or sub -> nothing                                          *)
peephole_addsub_zero(c, i) ==
  IF InnerIs(c, i, {"pushi"}) /\ IsImm(c, i, {0}) /\ InnerIs(c, i + 1, {"add", "sub"})
  THEN Removed(c, i, i + 1, TRUE)
  ELSE Kept(c)

(* pushi k; movl x; pushi k -> pushi k; copyl x                            *)
peephole_pushi_copyl(c, i) ==
  IF /\ Is(c, i, {"pushi"})
     /\ Is(c, i + 1, {"movl"})
     /\ InnerIs(c, i + 2, {"pushi"})
     /\ SameArg(c, i, i + 2)
  THEN Removed(PutOp(c, i + 1, "copyl"), i + 2, i + 2, FALSE)
  ELSE Kept(c)

(* push; pop -> nothing                                                    *)
peephole_pushpop(c, i) ==
  IF Is(c, i, Pushes) /\ InnerIs(c, i + 1, {"pop"})
  THEN Removed(c, i, i + 1, TRUE)
  ELSE Kept(c)

(* pushi 0; eq -> lnot                                                     *)
peephole_logicnot(c, i) ==
  IF Is(c, i, {"pushi"}) /\ IsImm(c, i, {0}) /\ InnerIs(c, i + 1, {"eq"})
  THEN Removed(Put(c, i, "lnot", None), i + 1, i + 1, FALSE)
  ELSE Kept(c)

(* The last instruction of those from i on that are in S without a gap.    *)
LastOfRun(i, S) == CHOOSE n \in S : i .. n \subseteq S /\ n >= i /\ n + 1 \notin S

(* A chain of lnot is replaced by one or by none.                          *)
peephole_logicnot_chain(c, i) ==
  IF ~ Is(c, i, {"lnot"})
  THEN Kept(c)
  ELSE LET n == LastOfRun(i, {k \in DOMAIN c : c[k].op = "lnot"})
       IN  IF (n - i + 1) % 2 = 0 THEN Removed(c, i, n, TRUE)
           ELSE IF n > i THEN Removed(c, i + 1, n, FALSE)
           ELSE Kept(c)

(* lnot; jf -> jt                                                          *)
peephole_jumpnot(c, i) ==
  IF InnerIs(c, i, {"lnot"}) /\ Is(c, i + 1, {"jf", "jt"})
  THEN Removed(PutOp(c, i + 1, IF c[i + 1].op = "jf" THEN "jt" ELSE "jf"), i, i, TRUE)
  ELSE Kept(c)

(* jf L; jmp M -> jt M.  The test of the label behind the jmp stands under *)
(* a condition that holds only when there is no instruction behind it.     *)
peephole_jcc_jmp(c, i) ==
  IF ~ InnerIs(c, i + 1, {"jmp"}) THEN Kept(c)
  ELSE IF i + 1 = Len(c) THEN Crash(c)
  ELSE IF c[i].op \in {"jf", "jt"}
  THEN Removed(Put(c, i, IF c[i].op = "jf" THEN "jt" ELSE "jf", c[i + 1].arg),
               i + 1, i + 1, FALSE)
  ELSE Kept(c)

(* Mutant: the second operand is taken for the first.                      *)
IncdecSwapped(c, i) ==
  IF Is(c, i, {"pushi"}) /\ IsImm(c, i, {1, -1}) /\ InnerIs(c, i + 1, {"add", "sub"})
  THEN Removed(Put(c, i, IF IsImm(c, i, {1}) THEN "inc" ELSE "dec", None),
               i + 1, i + 1, FALSE)
  ELSE Kept(c)

(* pushi 1; add -> inc, and so on                                          *)
peephole_incdec(c, i) ==
  IF Is(c, i, {"pushi"}) /\ IsImm(c, i, {1, -1}) /\ InnerIs(c, i + 1, {"add", "sub"})
  THEN LET up == IsImm(c, i, {1}) <=> c[i + 1].op = "add"
       IN  Removed(Put(c, i, IF up THEN "inc" ELSE "dec", None), i + 1, i + 1, FALSE)
  ELSE Kept(c)

(* pushl x; inc; movl x -> incl x                                          *)
peephole_incldecl(c, i) ==
  IF /\ Is(c, i, {"pushl"})
     /\ InnerIs(c, i + 1, {"inc", "dec"})
     /\ InnerIs(c, i + 2, {"movl"})
     /\ SameArg(c, i, i + 2)
  THEN Removed(PutOp(c, i, IF c[i + 1].op = "inc" THEN "incl" ELSE "decl"),
               i + 1, i + 2, FALSE)
  ELSE Kept(c)

(* neq; jf -> eq; jt                                                       *)
peephole_normalize_logic(c, i) ==
  IF Is(c, i, {"neq", "fneq", "strneq"}) /\ InnerIs(c, i + 1, {"jf", "jt"})
  THEN Kept(PutOp(PutOp(c, i, Opposite[c[i].op]), i + 1,
                  IF c[i + 1].op = "jf" THEN "jt" ELSE "jf"))
  ELSE Kept(c)

(* jf L; pushi a; movl x; jmp M; L: pushi b; movl x; M: -> pushi a; pushi  *)
(* b; cmov                                                                 *)
peephole_cmov(c, i) ==
  IF /\ Is(c, i, {"jf", "jt"})
     /\ InnerIs(c, i + 1, {"pushi"}) /\ InnerIs(c, i + 2, {"movl"})
     /\ InnerIs(c, i + 3, {"jmp"})
     /\ Is(c, i + 4, {"pushi"}) /\ InnerIs(c, i + 5, {"movl"})
     /\ i + 6 <= Len(c)
     /\ SameArg(c, i + 2, i + 5)
     /\ c[i + 4].labels = {c[i].arg}
     /\ c[i + 3].arg \in c[i + 6].labels
  THEN LET a == IF c[i].op = "jf" THEN c[i + 1].arg ELSE c[i + 4].arg
           b == IF c[i].op = "jf" THEN c[i + 4].arg ELSE c[i + 1].arg
       IN  Removed(PutOp(Put(Put(c, i, "pushi", a), i + 1, "pushi", b), i + 2, "cmov"),
                   i + 3, i + 5, FALSE)
  ELSE Kept(c)

(* pushi a; pushi b; op -> pushi (a op b), unless op stops the compiler.   *)
peephole_consteval_int(c, i) ==
  IF /\ Is(c, i, {"pushi"}) /\ InnerIs(c, i + 1, {"pushi"})
     /\ InnerIs(c, i + 2, IntBinops)
     /\ c[i].arg[1] = "int" /\ c[i + 1].arg[1] = "int"
  THEN IF Undefined(c[i + 2].op, c[i + 1].arg[2])
         THEN Crash(c)
         ELSE Removed(Put(c, i, "pushi",
                          Imm(eval_int_binop(c[i + 2].op, c[i].arg[2], c[i + 1].arg[2]))),
                      i + 1, i + 2, FALSE)
  ELSE Kept(c)

(* ret; ret -> ret.  (No handler generates a nop, which the pass also      *)
(* looks for.)                                                             *)
peephole_useless_rep_nop(c, i) ==
  IF Is(c, i, {"ret"}) /\ InnerIs(c, i + 1, {"ret"})
  THEN Removed(c, i + 1, LastOfRun(i + 1, {k \in DOMAIN c : InnerIs(c, k, {"ret"})}), FALSE)
  ELSE Kept(c)

(* pushl x; pushl x -> pushl x; dup                                        *)
peephole_dup(c, i) ==
  IF Is(c, i, {"copyl", "pushl"}) /\ InnerIs(c, i + 1, {"pushl"}) /\ SameArg(c, i, i + 1)
  THEN Kept(Put(c, i + 1, "dup", None))
  ELSE Kept(c)

(* lnot; push a; push b; cmov -> push b; push a; cmov.  Only the operands  *)
(* are swapped.                                                            *)
peephole_lnot_cmov(c, i) ==
  IF Is(c, i, {"lnot"}) /\ Is(c, i + 1, Pushes) /\ Is(c, i + 2, Pushes) /\ Is(c, i + 3, {"cmov"})
  THEN Removed(Put(Put(c, i + 1, c[i + 1].op, c[i + 2].arg), i + 2, c[i + 2].op, c[i + 1].arg),
               i, i, TRUE)
  ELSE Kept(c)

(* A run of one push is replaced by that push and dups.                    *)
peephole_push_dup(c, i) ==
  IF Is(c, i, Pushes) /\ Is(c, i + 1, {c[i].op}) /\ SameArg(c, i, i + 1)
  THEN LET n == LastOfRun(i, {k \in DOMAIN c : c[k].op = c[i].op /\ SameArg(c, k, i)})
       IN  Kept([k \in DOMAIN c |-> IF k \in i + 1 .. n
                                      THEN [c[k] EXCEPT !.op = "dup", !.arg = None]
                                      ELSE c[k]])
  ELSE Kept(c)

(* call f; ret -> jmp f                                                    *)
peephole_tailcall(c, i) ==
  IF Is(c, i, {"call"}) /\ InnerIs(c, i + 1, {"ret"})
  THEN Removed(PutOp(c, i, "jmp"), i + 1, i + 1, FALSE)
  ELSE Kept(c)

(* Mutant: whatever is behind the jmp is dead.                             *)
DeadCode(c, i) ==
  IF Is(c, i, {"jmp"}) /\ Inner(c, i + 1)
  THEN Removed(c, i + 1, i + 1, FALSE)
  ELSE Kept(c)

(* jmp L; ret -> jmp L                                                     *)
peephole_dead_ret(c, i) ==
  IF Is(c, i, {"jmp"}) /\ InnerIs(c, i + 1, {"ret"})
  THEN Removed(c, i + 1, i + 1, FALSE)
  ELSE Kept(c)

(* pushl x; pushi k; op -> pushi k; opl x                                  *)
peephole_inplace_bool_binops(c, i) ==
  IF /\ Is(c, i, {"pushl"})
     /\ InnerIs(c, i + 1, {"pushi", "pushf"})
     /\ InnerIs(c, i + 2, BoolBinops)
  THEN Removed(Put(c, i + 2, InPlace[c[i + 2].op], c[i].arg), i, i, TRUE)
  ELSE Kept(c)

(* A byte is pushed by a shorter instruction.                              *)
peephole_small_pushi(c, i) ==
  IF Is(c, i, {"pushi"}) /\ c[i].arg[1] = "int" /\ c[i].arg[2] \in -128 .. 126
  THEN Kept(PutOp(c, i, "pushib"))
  ELSE Kept(c)

----------------------------------------------------------------------------
(* optimization_passes, in their order.                                    *)
optimization_passes == <<
  "copyl", "useless_copyl", "useless_copyl_sandwich", "addsub_zero",
  "pushi_copyl", "pushpop", "logicnot", "logicnot_chain", "jumpnot", "jcc_jmp",
  "incdec", "incldecl", "normalize_logic", "cmov", "consteval_int",
  "useless_rep_nop", "dup", "lnot_cmov", "push_dup", "tailcall", "dead_ret",
  "inplace_bool_binops", "small_pushi" >>

Result(name, c, i) ==
  CASE name = "copyl"                  -> peephole_copyl(c, i)
    [] name = "useless_copyl"          -> peephole_useless_copyl(c, i)
    [] name = "useless_copyl_sandwich" -> peephole_useless_copyl_sandwich(c, i)
    [] name = "addsub_zero"            -> peephole_addsub_zero(c, i)
    [] name = "pushi_copyl"            -> peephole_pushi_copyl(c, i)
    [] name = "pushpop"                -> peephole_pushpop(c, i)
    [] name = "logicnot"               -> peephole_logicnot(c, i)
    [] name = "logicnot_chain"         -> peephole_logicnot_chain(c, i)
    [] name = "jumpnot"                -> peephole_jumpnot(c, i)
    [] name = "jcc_jmp"                -> peephole_jcc_jmp(c, i)
    [] name = "incdec"                 -> peephole_incdec(c, i)
    [] name = "incldecl"               -> peephole_incldecl(c, i)
    [] name = "normalize_logic"        -> peephole_normalize_logic(c, i)
    [] name = "cmov"                   -> peephole_cmov(c, i)
    [] name = "consteval_int"          -> peephole_consteval_int(c, i)
    [] name = "useless_rep_nop"        -> peephole_useless_rep_nop(c, i)
    [] name = "dup"                    -> peephole_dup(c, i)
    [] name = "lnot_cmov"              -> peephole_lnot_cmov(c, i)
    [] name = "push_dup"               -> peephole_push_dup(c, i)
    [] name = "tailcall"               -> peephole_tailcall(c, i)
    [] name = "dead_ret"               -> peephole_dead_ret(c, i)
    [] name = "inplace_bool_binops"    -> peephole_inplace_bool_binops(c, i)
    [] name = "small_pushi"            -> peephole_small_pushi(c, i)

Passes   == DOMAIN optimization_passes
At(p)    == Result(optimization_passes[p], code, cursor)

(* The first of the passes still to come that does something, or none.     *)
NoPass == Len(optimization_passes) + 1
FirstMatch ==
  CHOOSE p \in pass .. NoPass :
    /\ p = NoPass \/ At(p) # Kept(code)
    /\ \A q \in pass .. p - 1 : At(q) = Kept(code)

(* do_peephole, one pass that does something at a time: each pass has the  *)
(* instruction once.                                                       *)
do_peephole ==
  /\ phase = "peephole"
  /\ cursor <= Len(code)
  /\ \E p \in {FirstMatch} \ {NoPass} : \E result \in {At(p)} :
       /\ code' = result.code
       /\ phase' = IF result.crash THEN "crashed" ELSE phase
       /\ pass' = IF result.gone THEN 1 ELSE p + 1
  /\ UNCHANGED <<cursor, round>>

(* No pass is left that does something: the next instruction.              *)
NextInstruction ==
  /\ phase = "peephole"
  /\ cursor <= Len(code)
  /\ FirstMatch = NoPass
  /\ cursor' = cursor + 1
  /\ pass' = 1
  /\ UNCHANGED <<code, round, phase>>

find_label_targets ==
  /\ phase = "peephole"
  /\ cursor > Len(code)
  /\ cursor' = 1
  /\ phase' = "shorten"
  /\ UNCHANGED <<code, pass, round>>

Targets(l) == {j \in DOMAIN code : l \in code[j].labels}

(* Mutant: whatever the jump leads to takes its place.                     *)
ShortenAnything ==
  /\ phase = "shorten"
  /\ cursor <= Len(code)
  /\ LET l == code[cursor].arg
     IN  IF code[cursor].op # "jmp" \/ Targets(l) = {}
         THEN UNCHANGED code
         ELSE LET t == CHOOSE j \in Targets(l) : \A k \in Targets(l) : j <= k
              IN  code' = Put(code, cursor, code[t].op, code[t].arg)
  /\ cursor' = cursor + 1
  /\ UNCHANGED <<phase, pass, round>>

(* A jump becomes the jump, or the return, it leads to.  The table finds   *)
(* the first instruction with the label; it must have one.                 *)
shorten_jumps ==
  /\ phase = "shorten"
  /\ cursor <= Len(code)
  /\ LET l == code[cursor].arg
     IN  IF code[cursor].op # "jmp"
         THEN UNCHANGED <<code, phase>>
         ELSE IF Targets(l) = {}
         THEN phase' = "crashed" /\ UNCHANGED code
         ELSE LET t == CHOOSE j \in Targets(l) : \A k \in Targets(l) : j <= k
              IN  /\ code' = IF code[t].op \in {"jmp", "jf", "jt", "ret"}
                               THEN Put(code, cursor, code[t].op, code[t].arg)
                               ELSE code
                  /\ UNCHANGED phase
  /\ cursor' = cursor + 1
  /\ UNCHANGED <<pass, round>>

(* main calls optimize_asm again.                                          *)
optimize_asm ==
  /\ phase = "shorten"
  /\ cursor > Len(code)
  /\ round' = round + 1
  /\ phase' = IF round + 1 = Rounds THEN "done" ELSE "peephole"
  /\ cursor' = 1
  /\ pass' = 1
  /\ UNCHANGED code

Stopped == phase \in {"done", "crashed"} /\ UNCHANGED optVars

Init ==
  /\ code \in Programs
  /\ cursor = 1
  /\ pass = 1
  /\ round = 0
  /\ phase = "peephole"

Next ==
  \/ do_peephole \/ NextInstruction \/ find_label_targets \/ shorten_jumps \/ optimize_asm
  \/ Stopped

(* The one thread of the program keeps running.                            *)
Spec == Init /\ [][Next]_optVars /\ WF_optVars(Next)

----------------------------------------------------------------------------
(* Properties.                                                             *)

(* Every jump and every call finds its target, in one place: whatever is   *)
(* removed, the labels move on to the instruction behind it.               *)
TargetsUnique ==
  \A i \in DOMAIN code : code[i].op \in Jumps =>
    Cardinality(Targets(code[i].arg)) = 1

(* remove_ins goes through NULL only when it removes a ret that ends the   *)
(* list: never at the list's beginning, never another instruction, and     *)
(* not in a program that ends with the directive of a string.  The other   *)
(* crashes are the evaluation of two constants with / or % by 0, and with  *)
(* ~, which the evaluation does not know.                                  *)
EndingRets(c) == {i \in DOMAIN c : \A j \in i .. Len(c) : InnerIs(c, j, {"ret"})}
KnownCrash(c, i) ==
  \/ i + 1 \in EndingRets(c) /\ c[i].op \in {"ret", "jmp", "call"}
  \/ /\ Is(c, i, {"pushi"}) /\ InnerIs(c, i + 1, {"pushi"})
     /\ \/ InnerIs(c, i + 2, {"idiv", "mod"}) /\ IsImm(c, i + 1, {0})
        \/ InnerIs(c, i + 2, {"inlv"})
CrashesKnown == phase = "crashed" => KnownCrash(code, cursor)
=============================================================================
