---------------------------- MODULE CodeFlowInv -----------------------------
(***************************************************************************)
(* The inductive invariants behind the properties of the generated code    *)
(* that are not about labels alone: which instruction can follow which,    *)
(* where the strings go, and where the code of a loop can be entered.      *)
(***************************************************************************)
EXTENDS CodeGenInv, CodeGenStack

----------------------------------------------------------------------------
(* The code of the functions is kept apart: the handler of the function    *)
(* list, and the label of a function, come right behind an instruction     *)
(* that does not fall through.                                             *)

Ends(it)  == it.act = "emit" /\ it.op \in {"ret", "jmp"}
Opens(it) == \/ it.act = "funcs"
             \/ it.act = "target" /\ \E f \in Names : it.arg = F(f)

JustEnded == Len(code) > 0 /\ code[Len(code)].op \in {"ret", "jmp"}

FunctionsApart ==
  /\ \A i \in DOMAIN todo : Opens(todo[i]) =>
       IF i = 1 THEN JustEnded /\ pending = {} ELSE Ends(todo[i - 1])
  /\ \A f \in Names : F(f) \in pending => JustEnded
  /\ \A i \in DOMAIN todo : todo[i].act \in {"else", "cases"} => todo[i].arg \in GenLabel

----------------------------------------------------------------------------
(* The strings: an instruction only names a string of the table, the       *)
(* handler of the table is the last one, and a directive is not repeated.  *)

StringArgs == {Str(i - 1) : i \in DOMAIN strings}
Directed   == {code[d].arg : d \in Directives}

StringsKept ==
  /\ \A i \in DOMAIN code : code[i].op = "pushs" => code[i].arg \in StringArgs
  /\ \A i \in DOMAIN todo :
       /\ todo[i].act = "emit" /\ todo[i].op = "pushs" => todo[i].arg \in StringArgs
       /\ todo[i].act = "emit" /\ todo[i].op = ".string" =>
            i = 1 /\ todo[i].arg \notin Directed
       /\ todo[i].act = "strings" <=> i = Len(todo)
  /\ \A d, e \in Directives : code[d].arg = code[e].arg => d = e
  /\ todo = <<>> => StringArgs \subseteq Directed

----------------------------------------------------------------------------
(* The code of a loop is entered at the label of its entry only: by the    *)
(* time the entry is placed, nothing refers to a label that is still to be *)
(* placed inside the loop, except that of the exit, which comes last.      *)

Refers(i, l)   == code[i].op \in {"jmp", "jf", "jt"} /\ code[i].arg = l
Follows(l, i)  == l \in pending \/ \E k \in DOMAIN code : i < k /\ l \in code[k].labels
IsLoop(p)      == todo[p].act = "leave"
Exit(p)        == todo[p].arg
EntryLabel(p)  == todo[p].arg2
Places(q, l)   == todo[q].act \in Placing /\ todo[q].arg = l

(* No function begins among the instructions after the j-th up to the      *)
(* i-th, and none of them is the target of a jump from before the j-th.    *)
ClosedBetween(j, i) ==
  \A k \in j + 1 .. i : Entry(k) = {} /\ \A h \in 1 .. j - 1 : ~ JumpsTo(h, k)

LoopShape ==
  \A p \in DOMAIN todo : IsLoop(p) =>
    /\ p # 1 => todo[p - 1].act = "target" /\ todo[p - 1].arg = Exit(p)
    /\ \A q \in DOMAIN todo : q < p => ~ Opens(todo[q])
    /\ \A t \in DOMAIN todo : t < p /\ Places(t, EntryLabel(p)) =>
         /\ todo[t].act = "target"
         /\ \A q \in DOMAIN todo :
              t < q /\ q < p /\ todo[q].act \in Placing => todo[q].arg = Exit(p)

LoopClosed ==
  \A p \in DOMAIN todo : IsLoop(p) =>
    /\ \A q \in DOMAIN todo, i \in DOMAIN code :
         q < p /\ todo[q].act \in Placing /\ todo[q].arg # Exit(p)
           /\ Follows(EntryLabel(p), i) => ~ Refers(i, todo[q].arg)
    /\ \A j \in DOMAIN code : EntryLabel(p) \in code[j].labels =>
         /\ ClosedBetween(j, Len(code))
         /\ \A f \in Names : F(f) \notin pending
         /\ \A i \in 1 .. j - 1 : \A l \in pending : Refers(i, l) => l = Exit(p)

(* A jump that is still to be generated leads forward, to a label a later  *)
(* item places, or back to the entry of a loop it is in; only the one to   *)
(* main is not to a generated label.                                       *)
IsJump(it) == it.op \in {"jmp", "jf", "jt"}

JumpsLead ==
  /\ \A q \in DOMAIN todo :
       todo[q].act = "emit" /\ IsJump(todo[q]) /\ todo[q].arg # MainLabel =>
         /\ todo[q].arg \in GenLabel
         /\ \E r \in DOMAIN todo : r > q /\
              (Places(r, todo[q].arg) \/ (IsLoop(r) /\ EntryLabel(r) = todo[q].arg))
  /\ \A i \in DOMAIN code :
       IsJump(code[i]) => code[i].arg \in GenLabel \cup {MainLabel}

(* A jump backward leads to the entry of a loop that nothing else enters.  *)
SingleEntry ==
  \A i, j \in DOMAIN code :
    j <= i /\ JumpsTo(i, j) /\ code[i].arg \in GenLabel => ClosedBetween(j, i)

LoopsInv == LoopShape /\ LoopClosed /\ JumpsLead /\ SingleEntry

FlowInv == FunctionsApart /\ NoFallThrough /\ StringsKept /\ LoopsInv

(* The whole of what the proofs and the model checker keep.                *)
GeneratorInv == IInv /\ FlowInv

----------------------------------------------------------------------------
(* The depth of the operand stack: what an instruction and an item do to   *)
(* it, where every part of the generator keeps the promise that an         *)
(* expression leaves one value and a statement none.                       *)

(* The forms whose code keeps the promise: not a match, which falls behind *)
(* its last case without a value, and not the discarded expressions that   *)
(* leftover bytes decide to pop.                                           *)
BalancedForms == Forms \cap {"match", "discard_binop", "discard_ternary"} = {}

(* Executed at depth a, the instruction leaves depth b.  A jump is made    *)
(* with an empty stack, and a return with a value or none.                 *)
Effect(ins, a, b) ==
  /\ ins.op = "call" => ins.arg[2] \in Names
  /\ CASE ins.op = "ret"            -> a \in {0, 1} /\ b = 0
       [] ins.op = "jmp"            -> a = 0 /\ b = 0
       [] ins.op \in {"jf", "jt"}   -> a = 1 /\ b = 0
       [] ins.op \notin {"ret", "jmp", "jf", "jt"} ->
            a >= Popped(ins) /\ b = a - Popped(ins) + Pushed(ins)

LabelDepth(l) == IF l[1] = "F" THEN Arity[l[2]] ELSE 0

(* The code of an item, started at depth a, ends at depth b.               *)
Moves(it, a, b) ==
  /\ it.act \notin {"cases", "tests", "pattern"}
  /\ it.act = "emit"   => Effect(it, a, b)
  /\ it.act = "target" => a = 0 /\ b = LabelDepth(it.arg)
  /\ it.act = "expr"   => b = a + 1
  /\ it.act = "args"   => b = a + it.n
  /\ it.act = "params" => a = it.n /\ b = 0
  /\ it.act \in {"leave", "stmt", "stmts", "discard", "else", "globals",
                 "funcs", "strings"} => a = 0 /\ b = 0

(* The code of a list of items, started at depth a, ends at depth b.       *)
Runs(s, a, b) ==
  \E g \in [1 .. Len(s) + 1 -> Nat] :
    /\ g[1] = a /\ g[Len(s) + 1] = b
    /\ \A i \in 1 .. Len(s) : Moves(s[i], g[i], g[i + 1])

(* v gives the depth before each instruction and before the next one, from *)
(* where the code of todo runs through.                                    *)
Depths(v) ==
  LET n == Len(code)
  IN  /\ v \in [1 .. n + 1 -> Nat]
      /\ v[1] = 0
      /\ \A i \in 1 .. n :
           /\ \E b \in Nat : Effect(code[i], v[i], b) /\ (FallsThrough(code[i]) => v[i + 1] = b)
           /\ \A l \in code[i].labels : v[i] = LabelDepth(l)
      /\ \A l \in pending : v[n + 1] = LabelDepth(l)
      /\ \E b \in Nat : Runs(todo, v[n + 1], b)

StackKept == \E v : Depths(v)
=============================================================================
