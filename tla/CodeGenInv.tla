---------------------------- MODULE CodeGenInv -----------------------------
(***************************************************************************)
(* The inductive invariant of CodeGen.  A label is owed while a handler on *)
(* the call stack has still to place it, and defined once it was placed.   *)
(* The invariant says that each generated label passes from the one to the *)
(* other exactly once, and that nothing refers to a label that is neither. *)
(***************************************************************************)
EXTENDS CodeGen

(* The items that place the label they carry: now, or when their handler   *)
(* ends.                                                                   *)
Placing == {"target", "else", "cases"}

Owes(it, l) ==
  \/ it.act \in Placing /\ l = it.arg
  \/ it.act = "funcs" /\ \E k \in it.n .. Len(functions) : l = F(functions[k])

Owed(l)    == \E i \in DOMAIN todo : Owes(todo[i], l)
Defined(l) == l \in pending \/ \E i \in DOMAIN code : l \in code[i].labels

(* A jump to the label will find it when the program is complete.          *)
Reachable(l) ==
  \/ Owed(l)
  \/ Defined(l)
  \/ l = MainLabel /\ \A k \in DOMAIN functions : functions[k] # "main"

(* What the items carry, beyond their type.                                *)
WellFormed ==
  \A i \in DOMAIN todo :
    /\ todo[i].act \in Placing => todo[i].arg \in Label
    /\ todo[i].act = "funcs" => todo[i].n > 0
    /\ todo[i].act \in {"cases", "tests", "pattern"} => todo[i].arg2 \in Operand

IsOld(l) == l[2] < label_counter

LabelsFresh ==
  /\ \A i \in DOMAIN todo :
       todo[i].act \in Placing /\ todo[i].arg \in GenLabel => IsOld(todo[i].arg)
  /\ \A l \in pending \cap GenLabel : IsOld(l)
  /\ \A i \in DOMAIN code : \A l \in code[i].labels \cap GenLabel : IsOld(l)

OwedOnce ==
  \A i, j \in DOMAIN todo :
    /\ todo[i].act \in Placing /\ todo[j].act \in Placing
    /\ todo[i].arg = todo[j].arg /\ todo[i].arg \in GenLabel
    => i = j

OwedNotDefined ==
  \A i \in DOMAIN todo :
    todo[i].act \in Placing /\ todo[i].arg \in GenLabel => ~Defined(todo[i].arg)

ReferencesReachable ==
  /\ \A i \in DOMAIN code : code[i].arg \in Label => Reachable(code[i].arg)
  /\ \A i \in DOMAIN todo :
       todo[i].act = "emit" /\ todo[i].arg \in Label => Reachable(todo[i].arg)
  /\ \A d \in DOMAIN loop_exit_labels  : Reachable(loop_exit_labels[d])
  /\ \A d \in DOMAIN loop_entry_labels : Reachable(loop_entry_labels[d])
  /\ \A k \in DOMAIN functions : Owed(F(functions[k])) \/ Defined(F(functions[k]))

(* An instruction will follow: every item but the last two is followed by  *)
(* an "emit", and so is a waiting label.                                   *)
InstructionFollows ==
  /\ \A i \in DOMAIN todo :
       \/ todo[i].act \in {"funcs", "strings"}
       \/ \E j \in DOMAIN todo : j >= i /\ todo[j].act = "emit"
  /\ pending # {} => \E j \in DOMAIN todo : todo[j].act = "emit"

(* The Leave item of a loop knows its depth; depths grow towards the       *)
(* innermost loop, and every entry of the stacks belongs to a loop.        *)
LoopDepths ==
  /\ Len(loop_exit_labels) = Len(loop_entry_labels)
  /\ \A i \in DOMAIN todo : todo[i].act = "leave" =>
       /\ todo[i].n \in 1 .. Len(loop_exit_labels)
       /\ todo[i].arg  = loop_exit_labels[todo[i].n]
       /\ todo[i].arg2 = loop_entry_labels[todo[i].n]
       /\ \A j \in DOMAIN todo : j < i /\ todo[j].act = "leave" =>
            todo[j].n > todo[i].n
  /\ \A d \in 1 .. Len(loop_exit_labels) :
       \E i \in DOMAIN todo : todo[i].act = "leave" /\ todo[i].n = d

IInv ==
  /\ TypeOK
  /\ WellFormed
  /\ LabelsFresh
  /\ OwedOnce
  /\ OwedNotDefined
  /\ LabelsUnique
  /\ ReferencesReachable
  /\ InstructionFollows
  /\ LoopDepths
=============================================================================
