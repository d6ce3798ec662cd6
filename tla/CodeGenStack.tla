---------------------------- MODULE CodeGenStack ----------------------------
(***************************************************************************)
(* The operand stack of the code CodeGen generates.  The handlers agree    *)
(* that an expression leaves one value on the stack and a statement none,  *)
(* but nothing in the generator writes that down: the depth of the stack   *)
(* at an instruction is recovered here from the code alone, along every    *)
(* path that leads to it.                                                  *)
(***************************************************************************)
EXTENDS CodeGen

(* What an instruction of the virtual machine pops and pushes.             *)
Popped(ins) ==
  CASE ins.op \in BinOps \cup {"logicand", "eq", "lt", "le", "ge", "add"} -> 2
    [] ins.op \in UnOps \cup {"movl", "movg", "jf", "jt", "pop", "dup", "load",
                              "alloc", "memsize", "strlen"} -> 1
    [] ins.op \in {"cmov", "copy"} -> 3
    [] ins.op = "call" -> Arity[ins.arg[2]]
    [] OTHER -> 0

Pushed(ins) ==
  CASE ins.op \in BinOps \cup UnOps -> 1
    [] ins.op \in {"logicand", "eq", "lt", "le", "ge", "add", "load", "alloc",
                   "memsize", "strlen", "cmov",
                   "pushl", "pushi", "pushs", "pushnull"} -> 1
    [] ins.op = "dup" -> 2
    [] ins.op = "call" -> IF ins.arg[2] \in Void THEN 0 ELSE 1
    [] OTHER -> 0

FallsThrough(ins) == ins.op \notin {"jmp", "ret"}
JumpsTo(i, j)     == code[i].op \in {"jmp", "jf", "jt"} /\ code[i].arg \in code[j].labels

(* The label of a function is the only one code reaches with a stack of    *)
(* its own: the arguments.                                                 *)
Entry(i) == {f \in Names : F(f) \in code[i].labels}

Dead == -1   (* No path that was seen so far leads to the instruction.     *)

(* The depth of the stack before the next instruction, from the depths     *)
(* before the first ones.                                                  *)
NextDepth(d) ==
  LET i     == Len(d) + 1
      froms == {j \in 1 .. i - 1 :
                  /\ d[j] # Dead
                  /\ JumpsTo(j, i) \/ (j = i - 1 /\ FallsThrough(code[j]))}
  IN  CASE Entry(i) # {} -> Arity[CHOOSE f \in Entry(i) : TRUE]
        [] Entry(i) = {} /\ i = 1 -> 0
        [] Entry(i) = {} /\ i > 1 /\ froms = {} -> Dead
        [] OTHER -> LET j == CHOOSE j \in froms : TRUE
                    IN  d[j] - Popped(code[j]) + Pushed(code[j])

(* The depths before all instructions, one after the other.                *)
Depth ==
  LET first[n \in 0 .. Len(code)] ==
        IF n = 0 THEN <<>>
                 ELSE LET d == first[n - 1] IN Append(d, NextDepth(d))
  IN  first[Len(code)]

(* The program is complete and its stack is balanced: no instruction pops  *)
(* what is not there, the depth at an instruction does not depend on the   *)
(* path that leads to it - around a loop, out of a break, after either     *)
(* part of an if -, and a function returns with its value, or nothing, on  *)
(* the stack.                                                              *)
StackBalanced ==
  Done =>
    LET d == Depth
        Before(i) == d[i] - Popped(code[i])
        After(i)  == Before(i) + Pushed(code[i])
    IN  \A i \in DOMAIN code : d[i] # Dead =>
          /\ Before(i) >= 0
          /\ code[i].op = "ret" => d[i] \in {0, 1}
          /\ \A j \in DOMAIN code :
               (\/ JumpsTo(i, j) /\ Entry(j) = {}
                \/ FallsThrough(code[i]) /\ j = i + 1 /\ code[j].op # ".string")
               => d[j] = After(i)

(* "discard pushed expression": a discarded expression leaves the stack as *)
(* it was.                                                                 *)
DiscardBalanced == StackBalanced
=============================================================================
