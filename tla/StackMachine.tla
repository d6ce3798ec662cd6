---------------------------- MODULE StackMachine ----------------------------
(***************************************************************************)
(* The virtual machine the compiler writes code for, as far as the code    *)
(* generator's use of the instructions says what they do.  It is not part  *)
(* of the repository.                                                      *)
(*                                                                         *)
(* A state has the instruction to execute, the operand stack (top first),  *)
(* the globals, the locals of the active function and the frames of its    *)
(* callers.                                                                *)
(***************************************************************************)
EXTENDS AsmOptimizer

CONSTANTS
  Slots,     (* The local variables of a function, and the globals.        *)
  Values,    (* What a local may hold before it is assigned.               *)
  Fuel       (* Bound on the steps of a run.                               *)

Start(locals) ==
  [pc |-> 1, stack |-> <<>>, globals |-> [x \in Slots |-> 0], locals |-> locals,
   frames |-> <<>>, end |-> "running"]

(* The instruction reads the first operands of the stack: a the first      *)
(* pushed of two.  An operand that is not there is a fault.                *)
Needs(op) ==
  CASE op \in IntBinops \cup BoolBinops -> 2
    [] op \in {"cmov"} -> 3
    [] op \in {"lnot", "inc", "dec", "movl", "movg", "copyl", "pop", "dup", "jf", "jt"} -> 1
    [] op \in {InPlace[b] : b \in BoolBinops} -> 1
    [] OTHER -> 0

Fault(s) == [s EXCEPT !.end = "fault"]

(* A real is compared the way an integer is.                               *)
RealBool == [feq |-> "eq", fneq |-> "neq", fgt |-> "gt", fge |-> "ge", flt |-> "lt", fle |-> "le"]
Value(op, x, y) ==
  eval_int_binop(IF op \in DOMAIN RealBool THEN RealBool[op] ELSE op, x, y)

LabelAt(c, l) == CHOOSE j \in DOMAIN c : l \in c[j].labels

Exec(c, s) ==
  LET ins     == c[s.pc]
      op      == ins.op
      x       == ins.arg[2]
      st      == s.stack
      Then(stack, locals) == [s EXCEPT !.pc = @ + 1, !.stack = stack, !.locals = locals]
      Push(v, n) == Then(<<v>> \o SubSeq(st, n + 1, Len(st)), s.locals)
      Goto(stack) == [s EXCEPT !.pc = LabelAt(c, ins.arg), !.stack = stack]
  IN  IF Len(st) < Needs(op) THEN Fault(s)
      ELSE
      CASE op \in {"pushi", "pushib"} -> IF ins.arg[1] = "int" THEN Push(x, 0) ELSE Fault(s)
        [] op = "pushf" -> Push(x, 0)
        [] op = "pushl" -> IF ins.arg[1] = "local" THEN Push(s.locals[x], 0) ELSE Fault(s)
        [] op = "pushg" -> Push(s.globals[x], 0)
        [] op = "movg"  -> [Then(Tail(st), s.locals) EXCEPT !.globals[x] = st[1]]
        [] op = "dup"   -> Push(st[1], 0)
        [] op = "pop"   -> Then(Tail(st), s.locals)
        [] op = "movl"  -> Then(Tail(st), [s.locals EXCEPT ![x] = st[1]])
        [] op = "copyl" -> Then(st, [s.locals EXCEPT ![x] = st[1]])
        [] op = "incl"  -> Then(st, [s.locals EXCEPT ![x] = @ + 1])
        [] op = "decl"  -> Then(st, [s.locals EXCEPT ![x] = @ - 1])
        [] op = "lnot"  -> Push(Flag(st[1] = 0), 1)
        [] op = "inc"   -> Push(st[1] + 1, 1)
        [] op = "dec"   -> Push(st[1] - 1, 1)
        [] op = "cmov"  -> Push(IF st[3] # 0 THEN st[2] ELSE st[1], 3)
        [] op \in IntBinops \cup BoolBinops ->
             IF Undefined(op, st[1]) THEN Fault(s) ELSE Push(Value(op, st[2], st[1]), 2)
        [] op \in {InPlace[b] : b \in BoolBinops} ->
             LET b == CHOOSE b \in BoolBinops : InPlace[b] = op
             IN  Push(Value(b, s.locals[x], st[1]), 1)
        [] op = "jmp"   -> Goto(st)
        [] op = "jf"    -> IF st[1] = 0 THEN Goto(Tail(st)) ELSE Then(Tail(st), s.locals)
        [] op = "jt"    -> IF st[1] # 0 THEN Goto(Tail(st)) ELSE Then(Tail(st), s.locals)
        [] op = "call"  -> [Goto(st) EXCEPT !.frames = <<[pc |-> s.pc + 1, locals |-> s.locals]>> \o @]
        [] op = "ret"   -> IF s.frames = <<>>
                             THEN [s EXCEPT !.end = "returned"]
                             ELSE [s EXCEPT !.pc = s.frames[1].pc,
                                            !.locals = s.frames[1].locals,
                                            !.frames = Tail(@)]

RECURSIVE Run(_, _, _)
Run(c, s, fuel) ==
  IF fuel = 0 \/ s.end # "running" THEN s ELSE Run(c, Exec(c, s), fuel - 1)

(* What a program computes, from every state of its locals: what main      *)
(* leaves on the stack, unless it is still running or at fault.            *)
Meaning(c) ==
  [locals \in [Slots -> Values] |->
     LET end == Run(c, Start(locals), Fuel)
     IN  [end |-> end.end, stack |-> IF end.end = "returned" THEN end.stack ELSE <<>>]]

(* The passes of names leave the meaning of the program as it was.         *)
Preserves(names) ==
  do_peephole /\ optimization_passes[FirstMatch] \in names /\ phase' # "crashed" =>
    Meaning(code') = Meaning(code)

----------------------------------------------------------------------------
(* Properties.                                                             *)

(* Whatever rewriting the passes below do, in whatever order they meet     *)
(* what an earlier pass has left, the program computes what it did before. *)
(* The other passes are left out because they do not always do so: see the *)
(* README for the programs they change.                                    *)
Sound == {"copyl", "useless_copyl", "useless_copyl_sandwich", "addsub_zero",
          "pushi_copyl", "pushpop", "logicnot", "jumpnot", "incdec", "incldecl",
          "normalize_logic", "consteval_int", "useless_rep_nop", "dup", "push_dup",
          "tailcall", "dead_ret", "inplace_bool_binops", "small_pushi"}
SoundPasses == [][Preserves(Sound)]_optVars

(* The instruction shorten_jumps copies over a jump does there what the    *)
(* jump made the program do, whatever the passes have moved the label to.  *)
(* (A conditional jump would not: the instruction behind it is another     *)
(* one.)                                                                   *)
ShortenPreserves ==
  [][phase = "shorten" /\ phase' # "crashed" => Meaning(code') = Meaning(code)]_optVars

(* "optimize 'jcc .L1; jmp .out; .L1: ...' sequences"                      *)
JccJmpPreserves == [][Preserves({"jcc_jmp"})]_optVars
=============================================================================
