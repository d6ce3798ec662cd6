--------------------------- MODULE CodeGenProofs ---------------------------
(***************************************************************************)
(* TLAPS proofs about CodeGen.                                             *)
(***************************************************************************)
EXTENDS CodeGenInv, ScriptLemmas

(* Every label and operand the scripts build is an Arg, and none is both.  *)
LEMMA ArgTypes ==
  /\ \A n \in Nat : L(n) \in GenLabel
  /\ \A f \in Names : F(f) \in Label
  /\ GenLabel \subseteq Label /\ Label \subseteq Arg /\ Operand \subseteq Arg
  /\ \A k \in Int : {Imm(k), Loc(k), Glob(k), Str(k)} \subseteq Operand
  /\ None \in Operand /\ GlobalInit \in Label /\ MainLabel \in Label
  /\ Label \cap Operand = {}
BY NamesAssumption DEF L, F, GenLabel, Label, Arg, Operand, Imm, Loc, Glob, Str, None,
       GlobalInit, MainLabel

(* The constructors of items build items.                                  *)
LEMMA ItemTypes ==
  /\ \A op \in Opcode, a \in Arg : Emit(op, a) \in Item
  /\ \A op \in Opcode : Emit0(op) \in Item
  /\ \A l \in Label : Target(l) \in Item /\ Else(l) \in Item
  /\ \A o, t \in Arg, n \in Nat : Cases(o, t, n) \in Item /\ Leave(o, t, n) \in Item
  /\ \A t \in Arg : Tests(t) \in Item /\ Pattern(t) \in Item
  /\ \A n \in Nat : Args(n) \in Item /\ Params(n) \in Item /\ Funcs(n) \in Item
  /\ Expr \in Item /\ Stmt \in Item /\ Stmts \in Item
  /\ Discarded \in Item /\ Globals \in Item /\ Strings \in Item
<1>1. None \in Arg /\ Label \subseteq Arg
  BY ArgTypes
<1> "none" \in Opcode
  BY DEF Opcode
<1>2. ASSUME NEW act \in {"emit", "target", "leave", "expr", "stmt", "stmts",
                 "discard", "else", "cases", "tests", "pattern", "args",
                 "params", "globals", "funcs", "strings"},
             NEW op \in Opcode, NEW a \in Arg, NEW b \in Arg, NEW n \in Nat
      PROVE  Do(act, op, a, b, n) \in Item
  BY DEF Item, Do
<1>3. \A op \in Opcode, a \in Arg : Emit(op, a) \in Item
  BY <1>1, <1>2 DEF Emit
<1>4. \A op \in Opcode : Emit0(op) \in Item
  BY <1>1, <1>3 DEF Emit0
<1>5. \A l \in Label : Target(l) \in Item /\ Else(l) \in Item
  BY <1>1, <1>2 DEF Target, Else
<1>6. \A o, t \in Arg, n \in Nat : Cases(o, t, n) \in Item /\ Leave(o, t, n) \in Item
  BY <1>1, <1>2 DEF Cases, Leave
<1>7. \A t \in Arg : Tests(t) \in Item /\ Pattern(t) \in Item
  BY <1>1, <1>2 DEF Tests, Pattern
<1>8. \A n \in Nat : Args(n) \in Item /\ Params(n) \in Item /\ Funcs(n) \in Item
  BY <1>1, <1>2 DEF Args, Params, Funcs
<1>9. /\ Expr \in Item /\ Stmt \in Item /\ Stmts \in Item
      /\ Discarded \in Item /\ Globals \in Item /\ Strings \in Item
  BY <1>1, <1>2 DEF Expr, Stmt, Stmts, Discarded, Globals, Strings
<1> QED BY <1>3, <1>4, <1>5, <1>6, <1>7, <1>8, <1>9

----------------------------------------------------------------------------
(***************************************************************************)
(* What a script must satisfy for the labels to stay in order.  The        *)
(* handler at the top of the call stack is replaced by the script; the     *)
(* labels it owed pass to the script, and the script owes no other old     *)
(* label.                                                                  *)
(***************************************************************************)
Handed(s) ==
  \A l \in Label : Owes(Head(todo), l) => \E i \in DOMAIN s : Owes(s[i], l)

InOrder(s) ==
  /\ \A i \in DOMAIN s :
       /\ s[i].act \in Placing => s[i].arg \in Label
       /\ s[i].act = "funcs" => s[i].n > 0
       /\ s[i].act \in {"cases", "tests", "pattern"} => s[i].arg2 \in Operand
       /\ s[i].act \in Placing /\ s[i].arg \in GenLabel =>
            /\ s[i].arg[2] < label_counter'
            /\ \/ ~ IsOld(s[i].arg)
               \/ Head(todo).act \in Placing /\ Head(todo).arg = s[i].arg
       /\ s[i].act = "emit" /\ s[i].arg \in Label =>
            Reachable(s[i].arg) \/ \E j \in DOMAIN s : Owes(s[j], s[i].arg)
       /\ \/ Head(todo).act \notin {"funcs", "strings"}
          \/ s[i].act \in {"funcs", "strings"}
          \/ \E j \in DOMAIN s : j >= i /\ s[j].act = "emit"
  /\ \A i, j \in DOMAIN s :
       /\ s[i].act \in Placing /\ s[j].act \in Placing
       /\ s[i].arg = s[j].arg /\ s[i].arg \in GenLabel
       => i = j

(***************************************************************************)
(* Replacing the top handler by a script in order keeps the invariants of  *)
(* the labels.                                                             *)
(***************************************************************************)
LEMMA UnfoldedLabels ==
  ASSUME IInv, todo # <<>>, Head(todo).act # "emit",
         NEW s \in Seq(Item), todo' = s \o Tail(todo), Handed(s), InOrder(s),
         UNCHANGED <<code, pending, functions>>,
         label_counter' \in Nat, label_counter' >= label_counter,
         strings' \in Seq(Literals), nodes' \in Nat,
         loop_entry_labels' \in Seq(GenLabel), loop_exit_labels' \in Seq(GenLabel),
         \A d \in DOMAIN loop_exit_labels' :
           Reachable(loop_exit_labels'[d]) \/ \E j \in DOMAIN s : Owes(s[j], loop_exit_labels'[d]),
         \A d \in DOMAIN loop_entry_labels' :
           Reachable(loop_entry_labels'[d]) \/ \E j \in DOMAIN s : Owes(s[j], loop_entry_labels'[d])
  PROVE  /\ TypeOK' /\ WellFormed' /\ LabelsFresh' /\ OwedOnce'
         /\ OwedNotDefined' /\ LabelsUnique' /\ ReferencesReachable'
         /\ InstructionFollows'
<1> DEFINE at(i) == Len(s) + i - 1
<1>1. TypeOK
  BY DEF IInv
<1>2. todo \in Seq(Item) /\ functions \in Seq(Names) /\ label_counter \in Nat
  BY <1>1, FunctionsAssumption DEF TypeOK
<1>3. /\ todo' \in Seq(Item)
      /\ \A i \in DOMAIN s : i \in DOMAIN todo' /\ todo'[i] = s[i]
      /\ \A i \in DOMAIN todo : i # 1 => at(i) \in DOMAIN todo' /\ todo'[at(i)] = todo[i]
      /\ \A k \in DOMAIN todo' :
           k \in DOMAIN s \/ \E i \in DOMAIN todo : i # 1 /\ k = at(i)
  <2>1. todo' = s \o Tail(todo) /\ s \in Seq(Item) /\ todo \in Seq(Item) /\ todo # <<>>
    BY <1>2
  <2> QED BY ONLY SMTT(30), <2>1, UnfoldedSeq DEF at
<1>4. /\ 1 \in DOMAIN todo /\ Head(todo) = todo[1]
      /\ DOMAIN s \subseteq Nat /\ DOMAIN todo \subseteq Nat /\ Len(s) \in Nat
      /\ \A i \in DOMAIN s : i <= Len(s) /\ i >= 1
      /\ \A i \in DOMAIN todo : i >= 1
  BY <1>2
<1> HIDE DEF at
<1>5. TypeOK'
  BY <1>1, <1>3 DEF TypeOK
<1>6. WellFormed'
  <2>1. WellFormed
    BY DEF IInv
  <2> SUFFICES ASSUME NEW k \in DOMAIN todo'
               PROVE  /\ todo'[k].act \in Placing => todo'[k].arg \in Label
                      /\ todo'[k].act = "funcs" => todo'[k].n > 0
                      /\ todo'[k].act \in {"cases", "tests", "pattern"} =>
                           todo'[k].arg2 \in Operand
    BY DEF WellFormed
  <2>2. CASE k \in DOMAIN s
    BY <1>3, <2>2 DEF InOrder
  <2>3. CASE k \notin DOMAIN s
    <3>1. PICK i \in DOMAIN todo : i # 1 /\ k = at(i)
      BY <1>3, <2>3
    <3> QED BY <1>3, <2>1, <3>1 DEF WellFormed
  <2> QED BY <2>2, <2>3
<1>7. \A l \in Label : Owed(l) => Owed(l)'
  <2> SUFFICES ASSUME NEW l \in Label, Owed(l)
               PROVE  Owed(l)'
    OBVIOUS
  <2>1. PICK i \in DOMAIN todo : Owes(todo[i], l)
    BY DEF Owed
  <2>2. CASE i = 1
    <3>1. PICK j \in DOMAIN s : Owes(s[j], l)
      BY <1>4, <2>1, <2>2 DEF Handed
    <3> QED BY <1>3, <3>1 DEF Owed, Owes
  <2>3. CASE i # 1
    <3>1. at(i) \in DOMAIN todo' /\ todo'[at(i)] = todo[i]
      BY <1>3, <2>3
    <3> QED BY <2>1, <3>1 DEF Owed, Owes
  <2> QED BY <2>2, <2>3
<1>8. \A l \in Label : (\E j \in DOMAIN s : Owes(s[j], l)) => Owed(l)'
  BY <1>3 DEF Owed, Owes
<1>9. \A l \in Label : (Defined(l) <=> Defined(l)') /\ (Reachable(l) => Reachable(l)')
  BY <1>7 DEF Defined, Reachable
<1>10. LabelsFresh'
  <2>1. \A l \in GenLabel : l[2] \in Nat /\ (IsOld(l) => IsOld(l)')
    BY <1>2 DEF IsOld, GenLabel
  <2>2. LabelsFresh
    BY DEF IInv
  <2>3. ASSUME NEW k \in DOMAIN todo', todo'[k].act \in Placing, todo'[k].arg \in GenLabel
        PROVE  IsOld(todo[k].arg)'
    <3>1. CASE k \in DOMAIN s
      BY <1>3, <2>3, <3>1 DEF InOrder, IsOld
    <3>2. CASE k \notin DOMAIN s
      <4>1. PICK i \in DOMAIN todo : i # 1 /\ k = at(i)
        BY <1>3, <3>2
      <4>2. IsOld(todo[i].arg) /\ todo[i] = todo'[k]
        BY <1>3, <2>2, <2>3, <4>1 DEF LabelsFresh
      <4> QED BY <2>1, <2>3, <4>2
    <3> QED BY <3>1, <3>2
  <2>4. \A l \in pending' \cap GenLabel : IsOld(l)'
    BY <2>1, <2>2 DEF LabelsFresh
  <2>5. \A i \in DOMAIN code' : \A l \in code'[i].labels \cap GenLabel : IsOld(l)'
    BY <2>1, <2>2 DEF LabelsFresh
  <2> QED BY <2>3, <2>4, <2>5 DEF LabelsFresh
<1>11. OwedOnce'
  <2>1. OwedOnce /\ LabelsFresh
    BY DEF IInv
  <2>2. ASSUME NEW k \in DOMAIN s, NEW i \in DOMAIN todo, i # 1,
               s[k].act \in Placing, todo[i].act \in Placing, s[k].arg \in GenLabel
        PROVE  s[k].arg # todo[i].arg
    BY <1>4, <2>1, <2>2 DEF InOrder, OwedOnce, LabelsFresh
  <2> SUFFICES ASSUME NEW k \in DOMAIN todo', NEW m \in DOMAIN todo',
                      todo'[k].act \in Placing, todo'[m].act \in Placing,
                      todo'[k].arg = todo'[m].arg, todo'[k].arg \in GenLabel
               PROVE  k = m
    BY DEF OwedOnce
  <2>3. CASE k \in DOMAIN s /\ m \in DOMAIN s
    BY <1>3, <2>3 DEF InOrder
  <2>4. CASE k \notin DOMAIN s /\ m \notin DOMAIN s
    <3>1. PICK i \in DOMAIN todo : i # 1 /\ k = at(i)
      BY <1>3, <2>4
    <3>2. PICK j \in DOMAIN todo : j # 1 /\ m = at(j)
      BY <1>3, <2>4
    <3> QED BY <1>3, <2>1, <3>1, <3>2 DEF OwedOnce
  <2>5. CASE k \in DOMAIN s /\ m \notin DOMAIN s
    <3>1. PICK i \in DOMAIN todo : i # 1 /\ m = at(i)
      BY <1>3, <2>5
    <3>2. todo'[k] = s[k] /\ todo'[m] = todo[i]
      BY <1>3, <2>5, <3>1
    <3> QED BY <2>2, <2>5, <3>1, <3>2
  <2>6. CASE k \notin DOMAIN s /\ m \in DOMAIN s
    <3>1. PICK i \in DOMAIN todo : i # 1 /\ k = at(i)
      BY <1>3, <2>6
    <3> QED BY SMTT(30), <1>3, <2>2, <2>6, <3>1
  <2> QED BY <2>3, <2>4, <2>5, <2>6
<1>12. OwedNotDefined'
  <2>1. OwedNotDefined /\ LabelsFresh
    BY DEF IInv
  <2>2. \A l \in GenLabel : Defined(l) => IsOld(l)
    BY <2>1 DEF LabelsFresh, Defined
  <2>3. \A l \in GenLabel : l \in Label
    BY DEF Label
  <2>4. ASSUME NEW k \in DOMAIN todo', todo'[k].act \in Placing, todo'[k].arg \in GenLabel
        PROVE  ~ Defined(todo'[k].arg)
    <3>1. CASE k \in DOMAIN s
      BY <1>3, <1>4, <2>1, <2>2, <2>4, <3>1 DEF OwedNotDefined, InOrder
    <3>2. CASE k \notin DOMAIN s
      <4>1. PICK i \in DOMAIN todo : i # 1 /\ k = at(i)
        BY <1>3, <3>2
      <4> QED BY <1>3, <2>1, <2>4, <4>1 DEF OwedNotDefined
    <3> QED BY <3>1, <3>2
  <2> QED BY <1>9, <2>3, <2>4 DEF OwedNotDefined
<1>13. LabelsUnique'
  BY DEF IInv, LabelsUnique
<1>14. ReferencesReachable'
  <2>1. ReferencesReachable /\ GenLabel \subseteq Label
    BY ArgTypes DEF IInv
  <2>2. \A l \in Label : (Reachable(l) \/ \E j \in DOMAIN s : Owes(s[j], l)) => Reachable(l)'
    BY <1>8, <1>9 DEF Reachable
  <2>3. \A i \in DOMAIN code' : code'[i].arg \in Label => Reachable(code[i].arg)'
    BY <1>9, <2>1 DEF ReferencesReachable
  <2>4. ASSUME NEW k \in DOMAIN todo', todo'[k].act = "emit", todo'[k].arg \in Label
        PROVE  Reachable(todo[k].arg)'
    <3>1. CASE k \in DOMAIN s
      BY <1>3, <2>2, <2>4, <3>1 DEF InOrder
    <3>2. CASE k \notin DOMAIN s
      <4>1. PICK i \in DOMAIN todo : i # 1 /\ k = at(i)
        BY <1>3, <3>2
      <4> QED BY SMTT(30), <1>3, <2>1, <2>2, <2>4, <4>1 DEF ReferencesReachable
    <3> QED BY <3>1, <3>2
  <2>5. /\ \A d \in DOMAIN loop_exit_labels' : loop_exit_labels'[d] \in GenLabel
        /\ \A d \in DOMAIN loop_entry_labels' : loop_entry_labels'[d] \in GenLabel
    OBVIOUS
  <2>6. /\ \A d \in DOMAIN loop_exit_labels' : Reachable(loop_exit_labels[d])'
        /\ \A d \in DOMAIN loop_entry_labels' : Reachable(loop_entry_labels[d])'
    BY <2>1, <2>2, <2>5
  <2>7. \A k \in DOMAIN functions' : F(functions[k]) \in Label
    BY <1>2, ArgTypes
  <2>8. \A k \in DOMAIN functions' : Owed(F(functions[k]))' \/ Defined(F(functions[k]))'
    BY <1>7, <1>9, <2>1, <2>7 DEF ReferencesReachable
  <2> QED BY <2>3, <2>4, <2>6, <2>8 DEF ReferencesReachable
<1>15. InstructionFollows'
  <2>1. InstructionFollows
    BY DEF IInv
  <2>2. \A i \in DOMAIN todo : todo[i].act = "emit" =>
          at(i) \in DOMAIN todo' /\ todo'[at(i)].act = "emit" /\ at(i) = Len(s) + i - 1 /\ i # 1
    BY <1>3, <1>4 DEF at
  <2>3. ASSUME NEW k \in DOMAIN s
        PROVE  \/ s[k].act \in {"funcs", "strings"}
               \/ \E j \in DOMAIN todo' : j >= k /\ todo'[j].act = "emit"
    <3>1. CASE Head(todo).act \in {"funcs", "strings"}
      BY <1>3, <3>1 DEF InOrder
    <3>2. CASE Head(todo).act \notin {"funcs", "strings"}
      <4>1. PICK i \in DOMAIN todo : todo[i].act = "emit"
        BY <1>4, <2>1, <3>2 DEF InstructionFollows
      <4>2. at(i) >= k
        BY SMTT(30), <1>4, <2>2, <4>1
      <4> QED BY <2>2, <4>1, <4>2
    <3> QED BY <3>1, <3>2
  <2>4. ASSUME NEW i \in DOMAIN todo, i # 1
        PROVE  \/ todo[i].act \in {"funcs", "strings"}
               \/ \E j \in DOMAIN todo' : j >= at(i) /\ todo'[j].act = "emit"
    <3>1. CASE todo[i].act \notin {"funcs", "strings"}
      <4>1. PICK j \in DOMAIN todo : j >= i /\ todo[j].act = "emit"
        BY <2>1, <3>1 DEF InstructionFollows
      <4>2. at(j) >= at(i)
        BY <1>4, <4>1 DEF at
      <4> QED BY <2>2, <4>1, <4>2
    <3> QED BY <3>1
  <2>5. pending' # {} => \E j \in DOMAIN todo' : todo'[j].act = "emit"
    BY <2>1, <2>2 DEF InstructionFollows
  <2>6. ASSUME NEW k \in DOMAIN todo'
        PROVE  \/ todo'[k].act \in {"funcs", "strings"}
               \/ \E j \in DOMAIN todo' : j >= k /\ todo'[j].act = "emit"
    <3>1. CASE k \in DOMAIN s
      BY <1>3, <2>3, <3>1
    <3>2. CASE k \notin DOMAIN s
      <4>1. PICK i \in DOMAIN todo : i # 1 /\ k = at(i)
        BY <1>3, <3>2
      <4> QED BY <1>3, <2>4, <4>1
    <3> QED BY <3>1, <3>2
  <2> QED BY <2>5, <2>6 DEF InstructionFollows
<1> QED BY <1>5, <1>6, <1>10, <1>11, <1>12, <1>13, <1>14, <1>15

(***************************************************************************)
(* Replacing the top handler by a script that neither opens nor closes a   *)
(* loop keeps the loop stacks in step with the call stack.                 *)
(***************************************************************************)
LEMMA UnfoldedLoops ==
  ASSUME LoopDepths, todo \in Seq(Item), todo # <<>>, Head(todo).act # "leave",
         NEW s \in Seq(Item), todo' = s \o Tail(todo),
         \A i \in DOMAIN s : s[i].act # "leave",
         UNCHANGED <<loop_entry_labels, loop_exit_labels>>
  PROVE  LoopDepths'
<1> DEFINE at(i) == Len(s) + i - 1
<1>1. /\ todo' \in Seq(Item)
      /\ \A i \in DOMAIN s : i \in DOMAIN todo' /\ todo'[i] = s[i]
      /\ \A i \in DOMAIN todo : i # 1 => at(i) \in DOMAIN todo' /\ todo'[at(i)] = todo[i]
      /\ \A k \in DOMAIN todo' :
           k \in DOMAIN s \/ \E i \in DOMAIN todo : i # 1 /\ k = at(i)
  BY ONLY SMTT(30), todo' = s \o Tail(todo), s \in Seq(Item), todo \in Seq(Item), todo # <<>>,
          UnfoldedSeq DEF at
<1>2. /\ DOMAIN todo \subseteq Nat /\ DOMAIN todo' \subseteq Nat /\ Len(s) \in Nat
      /\ \A i, j \in DOMAIN todo : at(j) < at(i) => j < i
      /\ Head(todo) = todo[1]
  BY <1>1
<1> HIDE DEF at
<1>3. ASSUME NEW k \in DOMAIN todo', todo'[k].act = "leave"
      PROVE  \E i \in DOMAIN todo : i # 1 /\ k = at(i) /\ todo'[k] = todo[i]
  BY <1>1, <1>3
<1>4. ASSUME NEW k \in DOMAIN todo', todo'[k].act = "leave"
      PROVE  /\ todo'[k].n \in 1 .. Len(loop_exit_labels')
             /\ todo'[k].arg  = loop_exit_labels'[todo'[k].n]
             /\ todo'[k].arg2 = loop_entry_labels'[todo'[k].n]
             /\ \A m \in DOMAIN todo' : m < k /\ todo'[m].act = "leave" =>
                  todo'[m].n > todo'[k].n
  <2>1. PICK i \in DOMAIN todo : i # 1 /\ k = at(i) /\ todo'[k] = todo[i]
    BY <1>3, <1>4
  <2>2. /\ todo[i].n \in 1 .. Len(loop_exit_labels)
        /\ todo[i].arg  = loop_exit_labels[todo[i].n]
        /\ todo[i].arg2 = loop_entry_labels[todo[i].n]
    BY <1>4, <2>1 DEF LoopDepths
  <2>3. ASSUME NEW m \in DOMAIN todo', m < k, todo'[m].act = "leave"
        PROVE  todo'[m].n > todo'[k].n
    <3>1. PICK j \in DOMAIN todo : j # 1 /\ m = at(j) /\ todo'[m] = todo[j]
      BY <1>3, <2>3
    <3>2. j < i /\ todo[j].act = "leave" /\ todo[i].act = "leave"
      BY <1>2, <1>4, <2>1, <2>3, <3>1
    <3> QED BY <2>1, <3>1, <3>2 DEF LoopDepths
  <2> QED BY <2>1, <2>2, <2>3
<1>5. ASSUME NEW d \in 1 .. Len(loop_exit_labels')
      PROVE  \E k \in DOMAIN todo' : todo'[k].act = "leave" /\ todo'[k].n = d
  <2>1. PICK i \in DOMAIN todo : todo[i].act = "leave" /\ todo[i].n = d
    BY <1>5 DEF LoopDepths
  <2> QED BY ZenonT(30), <1>1, <1>2, <2>1
<1> QED BY <1>4, <1>5 DEF LoopDepths

----------------------------------------------------------------------------
(***************************************************************************)
(* The items most handlers unfold to: they owe no label, and refer only to *)
(* labels that a jump will find.                                           *)
(***************************************************************************)
Quiet ==
  {it \in Item :
     /\ it.act \notin {"target", "else", "cases", "leave", "funcs", "strings"}
     /\ it.act = "emit" /\ it.arg \in Label => Reachable(it.arg)
     /\ it.act \in {"tests", "pattern"} => it.arg2 \in Operand}

(* A handler that unfolds into quiet items - which place no label, pop no  *)
(* loop and only refer to reachable labels - preserves the invariant.      *)
LEMMA QuietScripts ==
  ASSUME IInv, todo # <<>>,
         Head(todo).act \notin {"target", "else", "cases", "emit", "leave", "funcs", "strings"},
         NEW s \in Seq(Quiet), todo' = s \o Tail(todo),
         UNCHANGED <<code, pending, functions, label_counter,
                     loop_entry_labels, loop_exit_labels>>,
         strings' \in Seq(Literals), nodes' \in Nat
  PROVE  IInv'
<1>1. s \in Seq(Item) /\ \A i \in DOMAIN s : s[i] \in Quiet
  BY DEF Quiet
<1>2. Handed(s)
  BY DEF Handed, Owes, Placing
<1>3. InOrder(s)
  BY <1>1 DEF InOrder, Quiet, Placing
<1>4. TypeOK /\ ReferencesReachable /\ LoopDepths
  BY DEF IInv
<1>5. /\ label_counter \in Nat /\ todo \in Seq(Item)
      /\ loop_entry_labels \in Seq(GenLabel) /\ loop_exit_labels \in Seq(GenLabel)
      /\ \A d \in DOMAIN loop_exit_labels  : Reachable(loop_exit_labels[d])
      /\ \A d \in DOMAIN loop_entry_labels : Reachable(loop_entry_labels[d])
  BY <1>4 DEF TypeOK, ReferencesReachable
<1> /\ label_counter' \in Nat /\ label_counter' >= label_counter
    /\ loop_entry_labels' \in Seq(GenLabel) /\ loop_exit_labels' \in Seq(GenLabel)
    /\ \A d \in DOMAIN loop_exit_labels'  : Reachable(loop_exit_labels'[d])
    /\ \A d \in DOMAIN loop_entry_labels' : Reachable(loop_entry_labels'[d])
    /\ Head(todo).act # "emit"
  BY <1>5
<1>6. /\ TypeOK' /\ WellFormed' /\ LabelsFresh' /\ OwedOnce'
      /\ OwedNotDefined' /\ LabelsUnique' /\ ReferencesReachable'
      /\ InstructionFollows'
  BY <1>1, <1>2, <1>3, <1>5, UnfoldedLabels
<1>7. LoopDepths'
  <2>1. \A i \in DOMAIN s : s[i].act # "leave"
    BY <1>1 DEF Quiet
  <2> QED BY <1>1, <1>4, <1>5, <2>1, UnfoldedLoops
<1> QED BY <1>6, <1>7 DEF IInv

(* The items most scripts are made of are quiet.                           *)
LEMMA QuietItems ==
  ASSUME IInv
  PROVE  /\ \A op \in Opcode, a \in Operand : Emit(op, a) \in Quiet
         /\ \A op \in Opcode : Emit0(op) \in Quiet
         /\ \A op \in Opcode, l \in Label : Reachable(l) => Emit(op, l) \in Quiet
         /\ \A t \in Operand : Tests(t) \in Quiet /\ Pattern(t) \in Quiet
         /\ \A n \in Nat : Args(n) \in Quiet /\ Params(n) \in Quiet
         /\ Expr \in Quiet /\ Stmt \in Quiet /\ Stmts \in Quiet
         /\ Discarded \in Quiet /\ Globals \in Quiet
<1>1. ASSUME NEW op \in Opcode, NEW a \in Arg, a \in Label => Reachable(a)
      PROVE  Emit(op, a) \in Quiet
  BY <1>1, ItemTypes DEF Quiet, Emit, Do
<1>2. \A op \in Opcode, a \in Operand : Emit(op, a) \in Quiet
  BY <1>1, ArgTypes
<1>3. \A op \in Opcode : Emit0(op) \in Quiet
  BY <1>2, ArgTypes DEF Emit0
<1>4. \A op \in Opcode, l \in Label : Reachable(l) => Emit(op, l) \in Quiet
  BY <1>1, ArgTypes
<1>5. \A t \in Operand : Tests(t) \in Quiet /\ Pattern(t) \in Quiet
  BY ItemTypes, ArgTypes DEF Quiet, Tests, Pattern, Do
<1>6. \A n \in Nat : Args(n) \in Quiet /\ Params(n) \in Quiet
  BY ItemTypes DEF Quiet, Args, Params, Do
<1>7. /\ Expr \in Quiet /\ Stmt \in Quiet /\ Stmts \in Quiet
      /\ Discarded \in Quiet /\ Globals \in Quiet
  BY ItemTypes DEF Quiet, Expr, Stmt, Stmts, Discarded, Globals, Do
<1> QED BY <1>2, <1>3, <1>4, <1>5, <1>6, <1>7

----------------------------------------------------------------------------
(***************************************************************************)
(* The three steps that drop the top item: generate, generate_jump_target  *)
(* and the end of a loop.                                                  *)
(***************************************************************************)

(* When the first item is dropped, the rest of todo is well formed and     *)
(* owes what it owed, but for the label the item placed.                   *)
LEMMA Dropped ==
  ASSUME IInv, todo # <<>>, todo' = Tail(todo), UNCHANGED functions,
         Head(todo).act \notin {"else", "cases", "funcs"}
  PROVE  /\ todo' \in Seq(Item)
         /\ WellFormed'
         /\ OwedOnce'
         /\ \A l \in Label :
              Owed(l) => Owed(l)' \/ (Head(todo).act = "target" /\ l = Head(todo).arg)
         /\ \A k \in DOMAIN todo' : todo'[k].act \in Placing =>
              \E i \in DOMAIN todo : i # 1 /\ todo'[k] = todo[i]
         /\ \A k \in DOMAIN todo' : todo'[k].act = "emit" =>
              \E i \in DOMAIN todo : i # 1 /\ todo'[k] = todo[i]
         /\ \A k \in DOMAIN todo' :
              \/ todo'[k].act \in {"funcs", "strings"}
              \/ \E j \in DOMAIN todo' : j >= k /\ todo'[j].act = "emit"
<1>1. todo \in Seq(Item)
  BY DEF IInv, TypeOK
<1>2. /\ todo' \in Seq(Item) /\ Head(todo) = todo[1] /\ 1 \in DOMAIN todo
      /\ DOMAIN todo \subseteq Nat
      /\ \A i \in DOMAIN todo : i # 1 => i - 1 \in DOMAIN todo' /\ todo'[i - 1] = todo[i]
      /\ \A k \in DOMAIN todo' :
           k + 1 \in DOMAIN todo /\ k + 1 # 1 /\ todo'[k] = todo[k + 1]
  BY ONLY <1>1, TailSeq, todo # <<>>, todo' = Tail(todo)
<1>3. WellFormed'
  BY <1>2 DEF IInv, WellFormed
<1>4. OwedOnce'
  <2>1. OwedOnce
    BY DEF IInv
  <2> SUFFICES ASSUME NEW k \in DOMAIN todo', NEW m \in DOMAIN todo',
                      todo'[k].act \in Placing, todo'[m].act \in Placing,
                      todo'[k].arg = todo'[m].arg, todo'[k].arg \in GenLabel
               PROVE  k = m
    BY DEF OwedOnce
  <2>2. k + 1 = m + 1
    BY <1>2, <2>1 DEF OwedOnce
  <2>3. DOMAIN todo' \subseteq Nat
    BY <1>2
  <2> QED BY <2>2, <2>3
<1>5. ASSUME NEW l \in Label, Owed(l)
      PROVE  Owed(l)' \/ (Head(todo).act = "target" /\ l = Head(todo).arg)
  <2>1. PICK i \in DOMAIN todo : Owes(todo[i], l)
    BY <1>5 DEF Owed
  <2>2. CASE i = 1
    BY <1>2, <2>1, <2>2 DEF Owes, Placing
  <2>3. CASE i # 1
    <3>1. i - 1 \in DOMAIN todo' /\ todo'[i - 1] = todo[i]
      BY <1>2, <2>3
    <3> QED BY <2>1, <3>1 DEF Owed, Owes
  <2> QED BY <2>2, <2>3
<1>6. ASSUME NEW k \in DOMAIN todo'
      PROVE  \E i \in DOMAIN todo : i # 1 /\ todo'[k] = todo[i]
  BY <1>2
<1>7. ASSUME NEW k \in DOMAIN todo'
      PROVE  \/ todo'[k].act \in {"funcs", "strings"}
             \/ \E j \in DOMAIN todo' : j >= k /\ todo'[j].act = "emit"
  <2>1. CASE todo'[k].act \notin {"funcs", "strings"}
    <3>1. PICK j \in DOMAIN todo : j >= k + 1 /\ todo[j].act = "emit"
      BY <1>2, <2>1 DEF IInv, InstructionFollows
    <3>2. j # 1 /\ j - 1 >= k /\ DOMAIN todo' \subseteq Nat
      BY <1>2, <3>1
    <3> QED BY <1>2, <3>1, <3>2
  <2> QED BY <2>1
<1> QED BY <1>2, <1>3, <1>4, <1>5, <1>6, <1>7

(* generate preserves the invariant: the pending labels get their          *)
(* instruction.                                                            *)
LEMMA GenerateStep ==
  ASSUME IInv, Generate
  PROVE  IInv'
<1> DEFINE new == [labels |-> pending, op |-> Head(todo).op, arg |-> Head(todo).arg]
<1>1. /\ todo # <<>> /\ Head(todo).act = "emit" /\ todo' = Tail(todo)
      /\ code' = Append(code, new) /\ pending' = {}
      /\ UNCHANGED <<label_counter, strings, functions, nodes,
                     loop_entry_labels, loop_exit_labels>>
  BY DEF Generate, At, Finish, SameLoops
<1>2. /\ TypeOK /\ LabelsFresh /\ OwedNotDefined /\ LabelsUnique
      /\ ReferencesReachable /\ LoopDepths
  BY DEF IInv
<1>3. /\ todo \in Seq(Item) /\ code \in Seq(Instr) /\ pending \subseteq Label
      /\ Head(todo) \in Item /\ new \in Instr /\ Head(todo) = todo[1] /\ 1 \in DOMAIN todo
  <2>1. /\ todo \in Seq(Item) /\ code \in Seq(Instr) /\ pending \subseteq Label
    BY <1>2 DEF TypeOK
  <2>2. Head(todo) \in Item /\ Head(todo) = todo[1] /\ 1 \in DOMAIN todo
    BY <1>1, <2>1
  <2> QED BY <2>1, <2>2 DEF Item, Instr
<1>4. /\ code' \in Seq(Instr) /\ Len(code') = Len(code) + 1
      /\ \A i \in DOMAIN code : i \in DOMAIN code' /\ code'[i] = code[i]
      /\ Len(code') \in DOMAIN code' /\ code'[Len(code')] = new
      /\ \A k \in DOMAIN code' : k \in DOMAIN code \/ k = Len(code')
  BY <1>1, <1>3
<1> HIDE DEF new
<1>5. /\ todo' \in Seq(Item) /\ WellFormed' /\ OwedOnce'
      /\ \A l \in Label : Owed(l) => Owed(l)'
      /\ \A k \in DOMAIN todo' : todo'[k].act \in Placing =>
           \E i \in DOMAIN todo : i # 1 /\ todo'[k] = todo[i]
      /\ \A k \in DOMAIN todo' : todo'[k].act = "emit" =>
           \E i \in DOMAIN todo : i # 1 /\ todo'[k] = todo[i]
      /\ \A k \in DOMAIN todo' :
           \/ todo'[k].act \in {"funcs", "strings"}
           \/ \E j \in DOMAIN todo' : j >= k /\ todo'[j].act = "emit"
  BY <1>1, Dropped
<1>6. /\ new.labels = pending /\ new.arg = Head(todo).arg
  BY DEF new
<1>7. TypeOK'
  BY <1>1, <1>2, <1>4, <1>5 DEF TypeOK
<1>8. \A l \in Label : Defined(l) <=> Defined(l)'
  BY <1>1, <1>4, <1>6 DEF Defined
<1>9. \A l \in Label : Reachable(l) => Reachable(l)'
  BY <1>1, <1>5, <1>8 DEF Reachable
<1>10. LabelsFresh'
  <2>1. \A l \in GenLabel : IsOld(l) => IsOld(l)'
    BY <1>1 DEF IsOld
  <2>2. ASSUME NEW k \in DOMAIN todo', todo'[k].act \in Placing, todo'[k].arg \in GenLabel
        PROVE  IsOld(todo[k].arg)'
    BY <1>2, <1>5, <2>1, <2>2 DEF LabelsFresh
  <2>3. ASSUME NEW k \in DOMAIN code', NEW l \in code'[k].labels \cap GenLabel
        PROVE  IsOld(l)'
    BY <1>2, <1>4, <1>6, <2>1 DEF LabelsFresh
  <2> QED BY <1>1, <2>2, <2>3 DEF LabelsFresh
<1>11. OwedNotDefined'
  <2> SUFFICES ASSUME NEW k \in DOMAIN todo', todo'[k].act \in Placing,
                      todo'[k].arg \in GenLabel
               PROVE  ~ Defined(todo[k].arg)'
    BY DEF OwedNotDefined
  <2>1. PICK i \in DOMAIN todo : todo'[k] = todo[i]
    BY <1>5
  <2>2. ~ Defined(todo[i].arg) /\ todo[i].arg \in Label
    BY <1>2, <2>1, ArgTypes DEF OwedNotDefined
  <2> QED BY <1>8, <2>1, <2>2
<1>12. LabelsUnique'
  BY <1>1, <1>2, <1>4, <1>6 DEF LabelsUnique
<1>13. ReferencesReachable'
  <2>1. \A k \in DOMAIN code' : code'[k].arg \in Label => Reachable(code[k].arg)'
    <3> SUFFICES ASSUME NEW k \in DOMAIN code', code'[k].arg \in Label
                 PROVE  Reachable(code[k].arg)'
      OBVIOUS
    <3>1. CASE k \in DOMAIN code
      BY <1>2, <1>4, <1>9, <3>1 DEF ReferencesReachable
    <3>2. CASE k = Len(code')
      <4>1. code'[k].arg = todo[1].arg
        BY <1>3, <1>4, <1>6, <3>2
      <4>2. Reachable(todo[1].arg)
        BY <1>1, <1>2, <1>3, <4>1 DEF ReferencesReachable
      <4> QED BY <1>9, <4>1, <4>2
    <3> QED BY <1>4, <3>1, <3>2
  <2>2. ASSUME NEW k \in DOMAIN todo', todo'[k].act = "emit", todo'[k].arg \in Label
        PROVE  Reachable(todo[k].arg)'
    <3>1. PICK i \in DOMAIN todo : todo'[k] = todo[i]
      BY <1>5, <2>2
    <3> QED BY <1>2, <1>9, <2>2, <3>1 DEF ReferencesReachable
  <2>3. /\ \A d \in DOMAIN loop_exit_labels'  : Reachable(loop_exit_labels[d])'
        /\ \A d \in DOMAIN loop_entry_labels' : Reachable(loop_entry_labels[d])'
    <3>1. /\ \A d \in DOMAIN loop_exit_labels  : loop_exit_labels[d] \in Label
          /\ \A d \in DOMAIN loop_entry_labels : loop_entry_labels[d] \in Label
      BY <1>2, ArgTypes DEF TypeOK
    <3> QED BY <1>1, <1>2, <1>9, <3>1 DEF ReferencesReachable
  <2>4. ASSUME NEW k \in DOMAIN functions'
        PROVE  Owed(F(functions[k]))' \/ Defined(F(functions[k]))'
    <3>1. functions' = functions /\ F(functions[k]) \in Label
      BY <1>1, <1>2, <2>4, ArgTypes, FunctionsAssumption DEF TypeOK
    <3> QED BY <1>2, <1>5, <1>8, <3>1 DEF ReferencesReachable
  <2> QED BY <2>1, <2>2, <2>3, <2>4 DEF ReferencesReachable
<1>14. InstructionFollows'
  BY <1>1, <1>5 DEF InstructionFollows
<1>15. LoopDepths'
  <2>1. PICK s \in Seq(Item) : Len(s) = 0 /\ todo' = s \o Tail(todo)
    BY <1>1, <1>3, EmptyScript
  <2>2. \A i \in DOMAIN s : s[i].act # "leave"
    BY <2>1
  <2> QED BY <1>1, <1>2, <1>3, <2>1, <2>2, UnfoldedLoops
<1> QED
  BY <1>5, <1>7, <1>10, <1>11, <1>12, <1>13, <1>14, <1>15 DEF IInv

(* generate_jump_target preserves the invariant: the label was owed, and   *)
(* waits.                                                                  *)
LEMMA JumpTargetStep ==
  ASSUME IInv, JumpTarget
  PROVE  IInv'
<1> DEFINE new == Head(todo).arg
<1>1. /\ todo # <<>> /\ Head(todo).act = "target" /\ todo' = Tail(todo)
      /\ pending' = pending \cup {new}
      /\ UNCHANGED <<code, label_counter, strings, functions, nodes,
                     loop_entry_labels, loop_exit_labels>>
  BY DEF JumpTarget, At, Finish, SameLoops
<1>2. /\ TypeOK /\ LabelsFresh /\ OwedOnce /\ OwedNotDefined /\ LabelsUnique
      /\ ReferencesReachable /\ InstructionFollows /\ LoopDepths
  BY DEF IInv
<1>3. /\ todo \in Seq(Item) /\ code \in Seq(Instr) /\ pending \subseteq Label
      /\ Head(todo) = todo[1] /\ 1 \in DOMAIN todo /\ new = todo[1].arg
  BY <1>1, <1>2 DEF TypeOK
<1>4. todo[1].act \in Placing /\ new \in Label
  BY <1>1, <1>3 DEF IInv, WellFormed, Placing
<1> HIDE DEF new
<1>5. /\ todo' \in Seq(Item) /\ WellFormed' /\ OwedOnce'
      /\ \A l \in Label : Owed(l) => Owed(l)' \/ l = new
      /\ \A k \in DOMAIN todo' : todo'[k].act \in Placing =>
           \E i \in DOMAIN todo : i # 1 /\ todo'[k] = todo[i]
      /\ \A k \in DOMAIN todo' : todo'[k].act = "emit" =>
           \E i \in DOMAIN todo : i # 1 /\ todo'[k] = todo[i]
      /\ \A k \in DOMAIN todo' :
           \/ todo'[k].act \in {"funcs", "strings"}
           \/ \E j \in DOMAIN todo' : j >= k /\ todo'[j].act = "emit"
  BY <1>1, Dropped DEF new
<1>6. TypeOK'
  BY <1>1, <1>2, <1>4, <1>5 DEF TypeOK
<1>7. \A l \in Label : Defined(l)' <=> (Defined(l) \/ l = new)
  BY <1>1 DEF Defined
<1>8. \A l \in Label : Reachable(l) => Reachable(l)'
  BY <1>1, <1>5, <1>7 DEF Reachable
<1>9. LabelsFresh'
  <2>1. \A l \in GenLabel : IsOld(l) => IsOld(l)'
    BY <1>1 DEF IsOld
  <2>2. ASSUME NEW k \in DOMAIN todo', todo'[k].act \in Placing, todo'[k].arg \in GenLabel
        PROVE  IsOld(todo[k].arg)'
    BY <1>2, <1>5, <2>1, <2>2 DEF LabelsFresh
  <2>3. \A l \in pending' \cap GenLabel : IsOld(l)'
    BY <1>1, <1>2, <1>3, <1>4, <2>1 DEF LabelsFresh
  <2>4. ASSUME NEW k \in DOMAIN code', NEW l \in code'[k].labels \cap GenLabel
        PROVE  IsOld(l)'
    BY <1>1, <1>2, <2>1 DEF LabelsFresh
  <2> QED BY <2>2, <2>3, <2>4 DEF LabelsFresh
<1>10. OwedNotDefined'
  <2> SUFFICES ASSUME NEW k \in DOMAIN todo', todo'[k].act \in Placing,
                      todo'[k].arg \in GenLabel
               PROVE  ~ Defined(todo[k].arg)'
    BY DEF OwedNotDefined
  <2>1. PICK i \in DOMAIN todo : i # 1 /\ todo'[k] = todo[i]
    BY <1>5
  <2>2. ~ Defined(todo[i].arg) /\ todo[i].arg \in Label
    BY <1>2, <2>1, ArgTypes DEF OwedNotDefined
  <2>3. todo[i].arg # new
    BY <1>2, <1>3, <1>4, <2>1 DEF OwedOnce
  <2> QED BY <1>7, <2>1, <2>2, <2>3
<1>11. LabelsUnique'
  <2> SUFFICES ASSUME NEW i \in DOMAIN code', NEW l \in code'[i].labels \cap GenLabel
               PROVE  /\ l \notin pending'
                      /\ \A j \in DOMAIN code' : l \in code'[j].labels => i = j
    BY DEF LabelsUnique
  <2>1. l \notin pending /\ \A j \in DOMAIN code : l \in code[j].labels => i = j
    BY <1>1, <1>2 DEF LabelsUnique
  <2>2. l # new
    BY <1>1, <1>2, <1>3, <1>4 DEF OwedNotDefined, Defined
  <2> QED BY <1>1, <2>1, <2>2
<1>12. ReferencesReachable'
  <2>1. \A k \in DOMAIN code' : code'[k].arg \in Label => Reachable(code[k].arg)'
    BY <1>1, <1>2, <1>8 DEF ReferencesReachable
  <2>2. ASSUME NEW k \in DOMAIN todo', todo'[k].act = "emit", todo'[k].arg \in Label
        PROVE  Reachable(todo[k].arg)'
    <3>1. PICK i \in DOMAIN todo : todo'[k] = todo[i]
      BY <1>5, <2>2
    <3> QED BY <1>2, <1>8, <2>2, <3>1 DEF ReferencesReachable
  <2>3. /\ \A d \in DOMAIN loop_exit_labels'  : Reachable(loop_exit_labels[d])'
        /\ \A d \in DOMAIN loop_entry_labels' : Reachable(loop_entry_labels[d])'
    <3>1. /\ \A d \in DOMAIN loop_exit_labels  : loop_exit_labels[d] \in Label
          /\ \A d \in DOMAIN loop_entry_labels : loop_entry_labels[d] \in Label
      BY <1>2, ArgTypes DEF TypeOK
    <3> QED BY <1>1, <1>2, <1>8, <3>1 DEF ReferencesReachable
  <2>4. ASSUME NEW k \in DOMAIN functions'
        PROVE  Owed(F(functions[k]))' \/ Defined(F(functions[k]))'
    <3>1. functions' = functions /\ F(functions[k]) \in Label
      BY <1>1, <1>2, <2>4, ArgTypes, FunctionsAssumption DEF TypeOK
    <3> QED BY <1>2, <1>5, <1>7, <3>1 DEF ReferencesReachable
  <2> QED BY <2>1, <2>2, <2>3, <2>4 DEF ReferencesReachable
<1>13. InstructionFollows'
  <2>1. PICK j \in DOMAIN todo : todo[j].act = "emit"
    BY <1>1, <1>2, <1>3 DEF InstructionFollows
  <2>2. j # 1
    BY <1>1, <1>3, <2>1
  <2>3. j - 1 \in DOMAIN todo' /\ todo'[j - 1] = todo[j]
    BY ONLY <1>1, <1>3, <2>2, TailSeq, j \in DOMAIN todo
  <2> QED BY <1>5, <2>1, <2>3 DEF InstructionFollows
<1>14. LoopDepths'
  <2>1. PICK s \in Seq(Item) : Len(s) = 0 /\ todo' = s \o Tail(todo)
    BY <1>1, <1>3, EmptyScript
  <2>2. \A i \in DOMAIN s : s[i].act # "leave"
    BY <2>1
  <2> QED BY <1>1, <1>2, <1>3, <2>1, <2>2, UnfoldedLoops
<1> QED
  BY <1>5, <1>6, <1>9, <1>10, <1>11, <1>12, <1>13, <1>14 DEF IInv

(* The end of a loop preserves the invariant: it pops that loop's labels.  *)
LEMMA LeaveLoopStep ==
  ASSUME IInv, LeaveLoop
  PROVE  IInv'
<1> DEFINE depth == Len(loop_exit_labels)
<1>1. /\ todo # <<>> /\ Head(todo).act = "leave" /\ todo' = Tail(todo)
      /\ loop_entry_labels' = SubSeq(loop_entry_labels, 1, Len(loop_entry_labels) - 1)
      /\ loop_exit_labels'  = SubSeq(loop_exit_labels, 1, Len(loop_exit_labels) - 1)
      /\ UNCHANGED <<code, pending, label_counter, strings, functions, nodes>>
  BY DEF LeaveLoop, At, Finish, SameOutput
<1>2. /\ TypeOK /\ LabelsFresh /\ OwedNotDefined /\ LabelsUnique
      /\ ReferencesReachable /\ InstructionFollows /\ LoopDepths
  BY DEF IInv
<1>3. /\ todo \in Seq(Item) /\ Head(todo) = todo[1] /\ 1 \in DOMAIN todo
      /\ loop_entry_labels \in Seq(GenLabel) /\ loop_exit_labels \in Seq(GenLabel)
  BY <1>1, <1>2 DEF TypeOK
<1>4. /\ todo' \in Seq(Item) /\ WellFormed' /\ OwedOnce'
      /\ \A l \in Label : Owed(l) => Owed(l)'
      /\ \A k \in DOMAIN todo' : todo'[k].act \in Placing =>
           \E i \in DOMAIN todo : i # 1 /\ todo'[k] = todo[i]
      /\ \A k \in DOMAIN todo' : todo'[k].act = "emit" =>
           \E i \in DOMAIN todo : i # 1 /\ todo'[k] = todo[i]
      /\ \A k \in DOMAIN todo' :
           \/ todo'[k].act \in {"funcs", "strings"}
           \/ \E j \in DOMAIN todo' : j >= k /\ todo'[j].act = "emit"
  BY <1>1, Dropped
<1>5. depth \in Nat /\ depth = Len(loop_entry_labels)
  BY <1>2, <1>3 DEF LoopDepths
(* The depth of the handler that returns is that of both stacks.           *)
<1>6. todo[1].n = depth /\ depth > 0
  <2>1. todo[1].n \in 1 .. depth
    BY <1>1, <1>2, <1>3 DEF LoopDepths
  <2>2. depth \in 1 .. depth
    BY <1>5, <2>1
  <2>3. PICK i \in DOMAIN todo : todo[i].act = "leave" /\ todo[i].n = depth
    BY <1>2, <2>2 DEF LoopDepths
  <2>4. CASE i = 1
    BY <2>1, <2>3, <2>4
  <2>5. CASE i # 1
    <3>1. 1 < i
      BY <1>3, <2>5
    <3>2. todo[1].n > todo[i].n
      BY <1>1, <1>2, <1>3, <2>3, <3>1 DEF LoopDepths
    <3> QED BY <1>5, <2>1, <2>3, <3>2
  <2> QED BY <2>1, <2>4, <2>5
<1>7. /\ loop_exit_labels' \in Seq(GenLabel) /\ loop_entry_labels' \in Seq(GenLabel)
      /\ Len(loop_exit_labels') = depth - 1 /\ Len(loop_entry_labels') = depth - 1
      /\ \A d \in 1 .. depth - 1 :
           /\ loop_exit_labels'[d] = loop_exit_labels[d]
           /\ loop_entry_labels'[d] = loop_entry_labels[d]
  BY <1>1, <1>3, <1>5, <1>6
<1> HIDE DEF depth
<1>8. TypeOK'
  BY <1>1, <1>2, <1>4, <1>7 DEF TypeOK
<1>9. \A l \in Label : (Defined(l) <=> Defined(l)') /\ (Reachable(l) => Reachable(l)')
  BY <1>1, <1>4 DEF Defined, Reachable
<1>10. LabelsFresh'
  <2>1. \A l \in GenLabel : IsOld(l) => IsOld(l)'
    BY <1>1 DEF IsOld
  <2>2. ASSUME NEW k \in DOMAIN todo', todo'[k].act \in Placing, todo'[k].arg \in GenLabel
        PROVE  IsOld(todo[k].arg)'
    BY <1>2, <1>4, <2>1, <2>2 DEF LabelsFresh
  <2> QED BY <1>1, <1>2, <2>1, <2>2 DEF LabelsFresh
<1>11. OwedNotDefined'
  <2> SUFFICES ASSUME NEW k \in DOMAIN todo', todo'[k].act \in Placing,
                      todo'[k].arg \in GenLabel
               PROVE  ~ Defined(todo[k].arg)'
    BY DEF OwedNotDefined
  <2>1. PICK i \in DOMAIN todo : todo'[k] = todo[i]
    BY <1>4
  <2> QED BY <1>2, <1>9, <2>1, ArgTypes DEF OwedNotDefined
<1>12. LabelsUnique'
  BY <1>1, <1>2 DEF LabelsUnique
<1>13. ReferencesReachable'
  <2>1. \A k \in DOMAIN code' : code'[k].arg \in Label => Reachable(code[k].arg)'
    BY <1>1, <1>2, <1>9 DEF ReferencesReachable
  <2>2. ASSUME NEW k \in DOMAIN todo', todo'[k].act = "emit", todo'[k].arg \in Label
        PROVE  Reachable(todo[k].arg)'
    <3>1. PICK i \in DOMAIN todo : todo'[k] = todo[i]
      BY <1>4, <2>2
    <3> QED BY <1>2, <1>9, <2>2, <3>1 DEF ReferencesReachable
  <2>3. ASSUME NEW d \in 1 .. depth - 1
        PROVE  /\ Reachable(loop_exit_labels[d])'
               /\ Reachable(loop_entry_labels[d])'
    <3>1. /\ d \in DOMAIN loop_exit_labels /\ loop_exit_labels[d] \in Label
          /\ d \in DOMAIN loop_entry_labels /\ loop_entry_labels[d] \in Label
      BY <1>3, <1>5, ArgTypes DEF depth
    <3>2. Reachable(loop_exit_labels[d]) /\ Reachable(loop_entry_labels[d])
      BY <1>2, <3>1 DEF ReferencesReachable
    <3> QED BY <1>7, <1>9, <3>1, <3>2
  <2>4. DOMAIN loop_exit_labels' = 1 .. depth - 1 /\ DOMAIN loop_entry_labels' = 1 .. depth - 1
    BY <1>7
  <2>5. ASSUME NEW k \in DOMAIN functions'
        PROVE  Owed(F(functions[k]))' \/ Defined(F(functions[k]))'
    <3>1. functions' = functions /\ F(functions[k]) \in Label
      BY <1>1, <1>2, <2>5, ArgTypes, FunctionsAssumption DEF TypeOK
    <3> QED BY <1>2, <1>4, <1>9, <3>1 DEF ReferencesReachable
  <2> QED BY <2>1, <2>2, <2>3, <2>4, <2>5 DEF ReferencesReachable
<1>14. InstructionFollows'
  <2>1. pending' # {} => \E j \in DOMAIN todo' : todo'[j].act = "emit"
    <3> SUFFICES ASSUME pending # {}
                 PROVE  \E j \in DOMAIN todo' : todo'[j].act = "emit"
      BY <1>1
    <3>1. PICK j \in DOMAIN todo : todo[j].act = "emit"
      BY <1>2 DEF InstructionFollows
    <3>2. j # 1
      BY <1>1, <1>3, <3>1
    <3>3. j - 1 \in DOMAIN todo' /\ todo'[j - 1] = todo[j]
      BY ONLY <1>1, <1>3, <3>2, TailSeq, j \in DOMAIN todo
    <3> QED BY <3>1, <3>3
  <2> QED BY <1>4, <2>1 DEF InstructionFollows
<1>15. LoopDepths'
  <2>1. /\ DOMAIN todo \subseteq Nat
        /\ \A i \in DOMAIN todo : i # 1 => i - 1 \in DOMAIN todo' /\ todo'[i - 1] = todo[i]
        /\ \A k \in DOMAIN todo' :
             k + 1 \in DOMAIN todo /\ k + 1 # 1 /\ todo'[k] = todo[k + 1]
    BY ONLY <1>1, <1>3, TailSeq
  <2>2. DOMAIN todo' \subseteq Nat
    BY <1>4
  <2>3. ASSUME NEW k \in DOMAIN todo', todo'[k].act = "leave"
        PROVE  /\ todo'[k].n \in 1 .. depth - 1
               /\ todo'[k].arg  = loop_exit_labels'[todo'[k].n]
               /\ todo'[k].arg2 = loop_entry_labels'[todo'[k].n]
               /\ \A m \in DOMAIN todo' : m < k /\ todo'[m].act = "leave" =>
                    todo'[m].n > todo'[k].n
    <3>1. k + 1 \in DOMAIN todo /\ k + 1 # 1 /\ todo'[k] = todo[k + 1] /\ 1 < k + 1
      BY <1>3, <2>1, <2>2
    <3>2. /\ todo[k + 1].n \in 1 .. depth
          /\ todo[k + 1].arg  = loop_exit_labels[todo[k + 1].n]
          /\ todo[k + 1].arg2 = loop_entry_labels[todo[k + 1].n]
          /\ todo[1].n > todo[k + 1].n
      BY <1>1, <1>2, <1>3, <2>3, <3>1 DEF LoopDepths, depth
    <3>3. todo[k + 1].n \in 1 .. depth - 1
      BY <1>5, <1>6, <3>2
    <3>4. ASSUME NEW m \in DOMAIN todo', m < k, todo'[m].act = "leave"
          PROVE  todo'[m].n > todo'[k].n
      <4>1. m + 1 \in DOMAIN todo /\ todo'[m] = todo[m + 1] /\ m + 1 < k + 1
        BY <2>1, <2>2, <3>4
      <4> QED BY <1>2, <2>3, <3>1, <3>4, <4>1 DEF LoopDepths
    <3> QED BY <1>7, <3>1, <3>2, <3>3, <3>4
  <2>4. ASSUME NEW d \in 1 .. depth - 1
        PROVE  \E k \in DOMAIN todo' : todo'[k].act = "leave" /\ todo'[k].n = d
    <3>1. d \in 1 .. depth /\ d # depth
      BY <1>5
    <3>2. PICK i \in DOMAIN todo : todo[i].act = "leave" /\ todo[i].n = d
      BY <1>2, <3>1 DEF LoopDepths, depth
    <3>3. i # 1
      BY <1>6, <3>1, <3>2
    <3> QED BY <2>1, <3>2, <3>3
  <2> QED BY <1>7, <2>3, <2>4 DEF LoopDepths
<1> QED
  BY <1>4, <1>8, <1>10, <1>11, <1>12, <1>13, <1>14, <1>15 DEF IInv

----------------------------------------------------------------------------
(***************************************************************************)
(* The handlers with a quiet script, one lemma per group of actions.       *)
(***************************************************************************)
LEMMA PlainStep ==
  ASSUME IInv,
         NEW act \in {"expr", "stmt", "stmts", "discard", "tests", "pattern",
                      "args", "params", "globals"},
         At(act), NEW s \in Seq(Quiet), Plain(s), nodes' \in Nat
  PROVE  IInv'
<1>1. strings' \in Seq(Literals)
  BY DEF Plain, SameOutput, IInv, TypeOK
<1> QED BY <1>1, QuietScripts DEF At, Plain, Unfold, SameLoops, SameOutput

(* Short lists of quiet items, and their concatenations, are quiet         *)
(* scripts.                                                                *)
LEMMA Scripts ==
  ASSUME IInv
  PROVE  /\ << >> \in Seq(Quiet)
         /\ \A a \in Quiet : <<a>> \in Seq(Quiet)
         /\ \A a, b \in Quiet : <<a, b>> \in Seq(Quiet)
         /\ \A a, b, c \in Quiet : <<a, b, c>> \in Seq(Quiet)
         /\ \A a, b, c, d \in Quiet : <<a, b, c, d>> \in Seq(Quiet)
         /\ \A s, t \in Seq(Quiet) : s \o t \in Seq(Quiet)
         /\ \A op \in Opcode, x \in Int :
              /\ Emit0(op) \in Quiet
              /\ Emit(op, Loc(x)) \in Quiet /\ Emit(op, Imm(x)) \in Quiet
              /\ Emit(op, Glob(x)) \in Quiet /\ Emit(op, Str(x)) \in Quiet
         /\ \A x \in Locals : AssignCode(x) \in Seq(Quiet)
         /\ \A i \in DOMAIN functions : CallCode(functions[i]) \in Seq(Quiet)
         /\ nodes \in Nat /\ nodes + 1 \in Nat
<1> USE QuietItems, ArgTypes
<1>1. \A op \in Opcode, x \in Int :
        /\ Emit0(op) \in Quiet
        /\ Emit(op, Loc(x)) \in Quiet /\ Emit(op, Imm(x)) \in Quiet
        /\ Emit(op, Glob(x)) \in Quiet /\ Emit(op, Str(x)) \in Quiet
  OBVIOUS
<1>2. ASSUME NEW x \in Locals
      PROVE  AssignCode(x) \in Seq(Quiet)
  <2>1. Emit("movl", Loc(x)) \in Quiet
    BY <1>1, OperandsAssumption DEF Opcode
  <2> QED BY <2>1 DEF AssignCode
<1>3. ASSUME NEW i \in DOMAIN functions
      PROVE  CallCode(functions[i]) \in Seq(Quiet)
  <2>1. functions[i] \in Names /\ Arity[functions[i]] \in Nat
    BY FunctionsAssumption DEF IInv, TypeOK
  <2>2. F(functions[i]) \in Label /\ Reachable(F(functions[i]))
    BY <2>1 DEF IInv, ReferencesReachable, Reachable
  <2>3. Args(Arity[functions[i]]) \in Quiet /\ Emit("call", F(functions[i])) \in Quiet
    BY <2>1, <2>2 DEF Opcode
  <2> QED BY <2>3 DEF CallCode
<1>4. nodes \in Nat /\ nodes + 1 \in Nat
  BY DEF IInv, TypeOK
<1> QED BY <1>1, <1>2, <1>3, <1>4

(* The first item of todo is an item, and so are its fields typed.         *)
LEMMA TopItem ==
  ASSUME IInv, todo # <<>>
  PROVE  /\ todo \in Seq(Item) /\ 1 \in DOMAIN todo /\ Head(todo) = todo[1]
         /\ Head(todo).arg \in Arg /\ Head(todo).arg2 \in Arg
         /\ Head(todo).n \in Nat /\ Head(todo).op \in Opcode
<1>1. todo \in Seq(Item)
  BY DEF IInv, TypeOK
<1>2. Head(todo) \in Item /\ 1 \in DOMAIN todo /\ Head(todo) = todo[1]
  BY <1>1
<1> QED BY <1>1, <1>2 DEF Item

(* The handlers of expressions that only visit and emit preserve the       *)
(* invariant.                                                              *)
LEMMA PlainExpressions ==
  ASSUME IInv,
         \/ Ident \/ IntConstant \/ Binop \/ Unary \/ Ternary \/ AssignExpr
         \/ Call \/ Arguments
  PROVE  IInv'
<1> USE Scripts, QuietItems, OperandsAssumption
<1>1. CASE Ident
  <2>1. PICK x \in Locals : At("expr") /\ Plain(<<Emit("pushl", Loc(x))>>) /\ nodes' = nodes
    BY <1>1 DEF Ident
  <2>2. Emit("pushl", Loc(x)) \in Quiet
    BY DEF Opcode
  <2> QED BY <2>1, <2>2, PlainStep
<1>2. CASE IntConstant
  <2>1. PICK k \in Consts : At("expr") /\ Plain(<<Emit("pushi", Imm(k))>>) /\ nodes' = nodes
    BY <1>2 DEF IntConstant
  <2>2. Emit("pushi", Imm(k)) \in Quiet
    BY DEF Opcode
  <2> QED BY <2>1, <2>2, PlainStep
<1>3. CASE Binop
  <2>1. PICK op \in BinOps : At("expr") /\ Plain(<<Expr, Expr, Emit0(op)>>) /\ nodes' = nodes + 1
    BY <1>3 DEF Binop, Visit
  <2>2. Emit0(op) \in Quiet
    BY DEF Opcode
  <2> QED BY <2>1, <2>2, PlainStep
<1>4. CASE Unary
  <2>1. PICK op \in UnOps : At("expr") /\ Plain(<<Expr, Emit0(op)>>) /\ nodes' = nodes + 1
    BY <1>4 DEF Unary, Visit
  <2>2. Emit0(op) \in Quiet
    BY DEF Opcode
  <2> QED BY <2>1, <2>2, PlainStep
<1>5. CASE Ternary
  <2>1. At("expr") /\ Plain(<<Expr, Expr, Expr, Emit0("cmov")>>) /\ nodes' = nodes + 1
    BY <1>5 DEF Ternary, Visit
  <2>2. Emit0("cmov") \in Quiet
    BY DEF Opcode
  <2> QED BY <2>1, <2>2, PlainStep
<1>6. CASE AssignExpr
  <2>1. PICK x \in Locals : /\ At("expr") /\ nodes' = nodes + 1
                            /\ Plain(AssignCode(x) \o <<Emit("pushl", Loc(x))>>)
    BY <1>6 DEF AssignExpr, Visit
  <2>2. Emit("pushl", Loc(x)) \in Quiet
    BY DEF Opcode
  <2>3. AssignCode(x) \o <<Emit("pushl", Loc(x))>> \in Seq(Quiet)
    BY <2>2
  <2> QED BY <2>1, <2>3, PlainStep
<1>7. CASE Call
  <2>1. PICK i \in DOMAIN functions : /\ At("expr") /\ nodes' = nodes + 1
                                      /\ Plain(CallCode(functions[i]))
    BY <1>7 DEF Call, Visit
  <2> QED BY <2>1, PlainStep
<1>8. CASE Arguments
  <2>1. At("args") /\ nodes' = nodes
    BY <1>8 DEF Arguments
  <2>2. Head(todo).n \in Nat
    BY <2>1, TopItem DEF At
  <2>3. CASE Head(todo).n = 0
    BY <1>8, <2>1, <2>3, PlainStep DEF Arguments
  <2>4. CASE Head(todo).n # 0
    <3>1. Args(Head(todo).n - 1) \in Quiet
      BY <2>2, <2>4
    <3>2. Plain(<<Expr, Args(Head(todo).n - 1)>>)
      BY <1>8, <2>4 DEF Arguments
    <3> QED BY <2>1, <3>1, <3>2, PlainStep
  <2> QED BY <2>3, <2>4
<1> QED BY <1>1, <1>2, <1>3, <1>4, <1>5, <1>6, <1>7, <1>8

(* A string literal, old or new in the table, preserves the invariant.     *)
LEMMA StringLiteralStep ==
  ASSUME IInv, StringLiteral
  PROVE  IInv'
<1> USE Scripts
<1>1. strings \in Seq(Literals) /\ "pushs" \in Opcode
  BY DEF IInv, TypeOK, Opcode
<1>2. PICK x \in Literals :
        \/ \E i \in DOMAIN strings :
             Unfold(<<Emit("pushs", Str(i - 1))>>) /\ UNCHANGED strings
        \/ /\ Unfold(<<Emit("pushs", Str(Len(strings)))>>)
           /\ strings' = Append(strings, x)
  BY DEF StringLiteral
<1>3. PICK i \in Int : Unfold(<<Emit("pushs", Str(i))>>) /\ strings' \in Seq(Literals)
  <2>1. CASE \E i \in DOMAIN strings :
               Unfold(<<Emit("pushs", Str(i - 1))>>) /\ UNCHANGED strings
    <3>1. PICK i \in DOMAIN strings :
               Unfold(<<Emit("pushs", Str(i - 1))>>) /\ UNCHANGED strings
      BY <2>1
    <3>2. i - 1 \in Int
      BY <1>1
    <3> QED BY <1>1, <3>1, <3>2
  <2>2. CASE Unfold(<<Emit("pushs", Str(Len(strings)))>>) /\ strings' = Append(strings, x)
    <3>1. Len(strings) \in Int /\ Append(strings, x) \in Seq(Literals)
      BY <1>1
    <3> QED BY <2>2, <3>1
  <2> QED BY <1>2, <2>1, <2>2
<1>4. Emit("pushs", Str(i)) \in Quiet
  BY <1>1
<1>5. /\ At("expr") /\ nodes' = nodes + 1
      /\ UNCHANGED <<code, pending, functions, label_counter,
                     loop_entry_labels, loop_exit_labels>>
  BY DEF StringLiteral, Visit, SameLoops
<1> QED BY <1>3, <1>4, <1>5, QuietScripts DEF At, Unfold

(***************************************************************************)
(* The tests of a match case.                                              *)
(***************************************************************************)
LEMMA MatchTestsStep ==
  ASSUME IInv, MatchTests \/ MatchPattern
  PROVE  IInv'
<1> DEFINE t    == Head(todo).arg2
           test == Emit("pushl", t)
<1> USE Scripts, QuietItems, OperandsAssumption
<1>1. (At("tests") \/ At("pattern")) /\ nodes' = nodes
  BY DEF MatchTests, MatchPattern
<1>2. t \in Operand
  BY <1>1, TopItem DEF At, IInv, WellFormed
<1>3. /\ Pattern(t) \in Quiet /\ test \in Quiet /\ Emit0("logicand") \in Quiet
      /\ Emit0("eq") \in Quiet /\ Emit0("ge") \in Quiet /\ Emit0("le") \in Quiet
      /\ Emit0("dup") \in Quiet
      /\ \A k \in Consts : Emit("pushi", Imm(k)) \in Quiet
      /\ \A y \in Locals : Emit("pushl", Loc(y)) \in Quiet
  BY <1>2 DEF Opcode
<1>4. CASE MatchTests
  <2>1. Plain(<<Pattern(t)>>) \/ Plain(<<Pattern(t), Pattern(t), Emit0("logicand")>>)
    BY <1>4 DEF MatchTests
  <2>2. <<Pattern(t)>> \in Seq(Quiet)
        /\ <<Pattern(t), Pattern(t), Emit0("logicand")>> \in Seq(Quiet)
    BY <1>3
  <2> QED BY <1>1, <2>1, <2>2, PlainStep
<1>5. CASE MatchPattern
  <2>1. \/ \E k \in Consts : Plain(<<test, Emit("pushi", Imm(k)), Emit0("eq")>>)
        \/ \E y \in Locals : Plain(<<test, Emit("pushl", Loc(y)), Emit0("eq")>>)
        \/ \E k, m \in Consts :
             Plain(<<test, Emit0("dup"), Emit("pushi", Imm(k)), Emit0("ge"),
                     Emit("pushi", Imm(m)), Emit0("le"), Emit0("logicand")>>)
    BY <1>5 DEF MatchPattern
  <2> HIDE DEF test
  <2>2. CASE \E k \in Consts : Plain(<<test, Emit("pushi", Imm(k)), Emit0("eq")>>)
    <3>1. PICK k \in Consts : Plain(<<test, Emit("pushi", Imm(k)), Emit0("eq")>>)
      BY <2>2
    <3> QED BY <1>1, <1>3, <3>1, PlainStep
  <2>3. CASE \E y \in Locals : Plain(<<test, Emit("pushl", Loc(y)), Emit0("eq")>>)
    <3>1. PICK y \in Locals : Plain(<<test, Emit("pushl", Loc(y)), Emit0("eq")>>)
      BY <2>3
    <3> QED BY <1>1, <1>3, <3>1, PlainStep
  <2>4. ASSUME NEW k \in Consts, NEW m \in Consts,
               Plain(<<test, Emit0("dup"), Emit("pushi", Imm(k)), Emit0("ge"),
                       Emit("pushi", Imm(m)), Emit0("le"), Emit0("logicand")>>)
        PROVE  IInv'
    <3>1. <<test, Emit0("dup"), Emit("pushi", Imm(k)), Emit0("ge"),
            Emit("pushi", Imm(m)), Emit0("le"), Emit0("logicand")>> \in Seq(Quiet)
      BY ONLY <1>3, k \in Consts, m \in Consts
    <3> QED BY <1>1, <2>4, <3>1, PlainStep
  <2> QED BY <2>1, <2>2, <2>3, <2>4
<1> QED BY <1>4, <1>5

(* The handlers of statements that only visit and emit preserve the        *)
(* invariant.                                                              *)
LEMMA PlainStatements ==
  ASSUME IInv,
         \/ Empty \/ Compound \/ Statements \/ VariableDeclaration
         \/ DiscardedExpression \/ Return
  PROVE  IInv'
<1> USE Scripts, QuietItems, OperandsAssumption
<1>1. CASE Empty
  BY <1>1, PlainStep DEF Empty
<1>2. CASE Compound
  <2>1. At("stmt") /\ Plain(<<Stmts>>) /\ nodes' = nodes + 1
    BY <1>2 DEF Compound, Visit
  <2> QED BY <2>1, PlainStep
<1>3. CASE Statements
  <2>1. At("stmts") /\ (Plain(<<Stmt, Stmts>>) \/ Plain(<<>>)) /\ nodes' = nodes
    BY <1>3 DEF Statements
  <2> QED BY <2>1, PlainStep
<1>4. CASE VariableDeclaration
  <2>1. At("stmt") /\ nodes' = nodes + 1
    BY <1>4 DEF VariableDeclaration, Visit
  <2>2. PICK x \in Locals :
          \/ Plain(<<>>)
          \/ Plain(AssignCode(x))
          \/ Plain(<<Emit0("pushnull"), Emit("movl", Loc(x))>>)
          \/ \E k \in Consts :
               Plain(<<Emit("pushi", Imm(k)), Emit0("alloc"), Emit("movl", Loc(x))>>)
    BY <1>4 DEF VariableDeclaration
  <2>3. /\ Emit0("pushnull") \in Quiet /\ Emit("movl", Loc(x)) \in Quiet /\ Emit0("alloc") \in Quiet
        /\ \A k \in Consts : Emit("pushi", Imm(k)) \in Quiet
    BY DEF Opcode
  <2>4. CASE Plain(<<>>) \/ Plain(AssignCode(x))
    BY <2>1, <2>4, PlainStep
  <2>5. CASE Plain(<<Emit0("pushnull"), Emit("movl", Loc(x))>>)
    BY <2>1, <2>3, <2>5, PlainStep
  <2>6. CASE \E k \in Consts :
               Plain(<<Emit("pushi", Imm(k)), Emit0("alloc"), Emit("movl", Loc(x))>>)
    <3>1. PICK k \in Consts :
               Plain(<<Emit("pushi", Imm(k)), Emit0("alloc"), Emit("movl", Loc(x))>>)
      BY <2>6
    <3> QED BY <2>1, <2>3, <3>1, PlainStep
  <2> QED BY <2>2, <2>4, <2>5, <2>6
<1>5. CASE DiscardedExpression
  <2>1. At("stmt") /\ Plain(<<Discarded>>) /\ nodes' = nodes + 1
    BY <1>5 DEF DiscardedExpression, Visit
  <2> QED BY <2>1, PlainStep
<1>6. CASE Return
  <2>1. /\ At("stmt") /\ nodes' = nodes + 1
        /\ Plain(<<Emit0("ret")>>) \/ Plain(<<Expr, Emit0("ret")>>)
    BY <1>6 DEF Return, Visit
  <2>2. Emit0("ret") \in Quiet
    BY DEF Opcode
  <2> QED BY <2>1, <2>2, PlainStep
<1> QED BY <1>1, <1>2, <1>3, <1>4, <1>5, <1>6

(* A discarded expression preserves the invariant, popped or not.          *)
LEMMA HandleDiscardedStep ==
  ASSUME IInv, HandleDiscarded
  PROVE  IInv'
<1> USE Scripts, QuietItems, OperandsAssumption
<1>1. At("discard") /\ nodes' = nodes
  BY DEF HandleDiscarded
<1>2. Emit0("pop") \in Quiet /\ <<Emit0("pop")>> \in Seq(Quiet)
  BY DEF Opcode
<1>3. \A discard \in Discards : discard \in Seq(Quiet)
  BY <1>2 DEF Discards
<1>4. CASE \E x \in Locals : Plain(AssignCode(x))
  BY <1>1, <1>4, PlainStep
<1>5. ASSUME NEW x \in Locals,
             Plain(AssignCode(x) \o <<Emit("pushl", Loc(x)), Emit0("pop")>>)
      PROVE  IInv'
  <2>1. Emit("pushl", Loc(x)) \in Quiet
    BY DEF Opcode
  <2>2. AssignCode(x) \o <<Emit("pushl", Loc(x)), Emit0("pop")>> \in Seq(Quiet)
    BY <1>2, <2>1
  <2> QED BY <1>1, <1>5, <2>2, PlainStep
<1>6. ASSUME NEW i \in DOMAIN functions,
             \/ Plain(CallCode(functions[i]))
             \/ Plain(CallCode(functions[i]) \o <<Emit0("pop")>>)
      PROVE  IInv'
  <2>1. CallCode(functions[i]) \o <<Emit0("pop")>> \in Seq(Quiet)
    BY <1>2
  <2> QED BY <1>1, <1>6, <2>1, PlainStep
<1>7. ASSUME NEW op \in BinOps, NEW discard \in Discards,
             Plain(<<Expr, Expr, Emit0(op)>> \o discard)
      PROVE  IInv'
  <2>1. Emit0(op) \in Quiet
    BY DEF Opcode
  <2>2. <<Expr, Expr, Emit0(op)>> \o discard \in Seq(Quiet)
    BY <1>3, <2>1
  <2> QED BY <1>1, <1>7, <2>2, PlainStep
<1>8. ASSUME NEW discard \in Discards,
             Plain(<<Expr, Expr, Expr, Emit0("cmov")>> \o discard)
      PROVE  IInv'
  <2>1. Emit0("cmov") \in Quiet
    BY DEF Opcode
  <2>2. <<Expr, Expr, Expr, Emit0("cmov")>> \o discard \in Seq(Quiet)
    BY <1>3, <2>1
  <2> QED BY <1>1, <1>8, <2>2, PlainStep
<1>9. \/ \E x \in Locals : Plain(AssignCode(x))
      \/ \E x \in Locals :
           Plain(AssignCode(x) \o <<Emit("pushl", Loc(x)), Emit0("pop")>>)
      \/ \E i \in DOMAIN functions :
           \/ Plain(CallCode(functions[i]))
           \/ Plain(CallCode(functions[i]) \o <<Emit0("pop")>>)
      \/ \E op \in BinOps, discard \in Discards :
           Plain(<<Expr, Expr, Emit0(op)>> \o discard)
      \/ \E discard \in Discards :
           Plain(<<Expr, Expr, Expr, Emit0("cmov")>> \o discard)
  BY ONLY HandleDiscarded, Zenon DEF HandleDiscarded
<1> QED BY ONLY <1>4, <1>5, <1>6, <1>7, <1>8, <1>9

(***************************************************************************)
(* break and continue: the call stack holds a loop, so that the label      *)
(* stacks are not empty.                                                   *)
(***************************************************************************)
LEMMA LoopControlStep ==
  ASSUME IInv, Break \/ Continue
  PROVE  IInv'
<1> USE Scripts, QuietItems
<1>1. At("stmt") /\ nodes' = nodes + 1 /\ InLoop
  BY DEF Break, Continue, Visit
<1>2. /\ Len(loop_exit_labels) \in DOMAIN loop_exit_labels
      /\ Len(loop_entry_labels) \in DOMAIN loop_entry_labels
      /\ loop_exit_labels \in Seq(GenLabel) /\ loop_entry_labels \in Seq(GenLabel)
  <2>1. PICK i \in DOMAIN todo : todo[i].act = "leave"
    BY <1>1 DEF InLoop
  <2>2. LoopDepths /\ TypeOK
    BY DEF IInv
  <2>3. /\ todo[i].n \in 1 .. Len(loop_exit_labels)
        /\ Len(loop_exit_labels) = Len(loop_entry_labels)
    BY <2>1, <2>2 DEF LoopDepths
  <2> QED BY <2>2, <2>3 DEF TypeOK
<1> DEFINE out  == loop_exit_labels[Len(loop_exit_labels)]
           loop == loop_entry_labels[Len(loop_entry_labels)]
<1>3. out \in Label /\ Reachable(out) /\ loop \in Label /\ Reachable(loop)
  <2>1. out \in GenLabel /\ loop \in GenLabel
    BY <1>2
  <2> out \in Label /\ loop \in Label
    BY <2>1, ArgTypes
  <2> QED BY <1>2, <2>1 DEF IInv, ReferencesReachable
<1>4. Plain(<<Emit("jmp", out)>>) \/ Plain(<<Emit("jmp", loop)>>)
  BY DEF Break, Continue
<1> HIDE DEF out, loop
<1>5. Emit("jmp", out) \in Quiet /\ Emit("jmp", loop) \in Quiet
  BY <1>3 DEF Opcode
<1> QED BY <1>1, <1>4, <1>5, PlainStep

(* Global initialisers and parameters preserve the invariant.              *)
LEMMA ProgramParts ==
  ASSUME IInv, GlobalDeclarations \/ Parameters
  PROVE  IInv'
<1> USE Scripts, QuietItems, OperandsAssumption
<1>1. CASE GlobalDeclarations
  <2>1. At("globals") /\ nodes' \in Nat
    BY <1>1 DEF GlobalDeclarations
  <2>2. CASE Plain(<<>>)
    BY <2>1, <2>2, PlainStep
  <2>3. CASE \E k \in Consts :
               Plain(<<Emit("pushi", Imm(k)), Emit("movg", Glob(0)), Globals>>)
    <3>1. PICK k \in Consts :
               Plain(<<Emit("pushi", Imm(k)), Emit("movg", Glob(0)), Globals>>)
      BY <2>3
    <3>2. Emit("pushi", Imm(k)) \in Quiet /\ Emit("movg", Glob(0)) \in Quiet
      BY DEF Opcode
    <3> QED BY <2>1, <3>1, <3>2, PlainStep
  <2> QED BY <1>1, <2>2, <2>3 DEF GlobalDeclarations
<1>2. CASE Parameters
  <2> DEFINE i == Head(todo).n - 1
  <2>1. At("params") /\ nodes' = nodes
    BY <1>2 DEF Parameters
  <2>2. Head(todo).n \in Nat
    BY <2>1, TopItem DEF At
  <2>3. CASE Head(todo).n = 0
    BY <1>2, <2>1, <2>3, PlainStep DEF Parameters
  <2>4. CASE Head(todo).n # 0
    <3>1. i \in Nat
      BY <2>2, <2>4
    <3>2. \/ Plain(<<Emit("movl", Loc(i)), Params(i)>>)
          \/ \E size \in Consts :
               Plain(<<Emit("movl", Loc(i)),
                       Emit("pushi", Imm(size)), Emit0("alloc"),
                       Emit0("dup"), Emit("pushl", Loc(i)),
                       Emit("pushi", Imm(size)), Emit0("copy"),
                       Emit("movl", Loc(i)), Params(i)>>)
      BY <1>2, <2>4 DEF Parameters
    <3> HIDE DEF i
    <3>3. /\ Emit("movl", Loc(i)) \in Quiet /\ Emit("pushl", Loc(i)) \in Quiet
          /\ Params(i) \in Quiet /\ Emit0("alloc") \in Quiet /\ Emit0("dup") \in Quiet
          /\ Emit0("copy") \in Quiet
          /\ \A size \in Consts : Emit("pushi", Imm(size)) \in Quiet
      <4>1. i \in Int
        BY <3>1
      <4> QED BY <3>1, <4>1 DEF Opcode
    <3>4. CASE Plain(<<Emit("movl", Loc(i)), Params(i)>>)
      BY <2>1, <3>3, <3>4, PlainStep
    <3>5. ASSUME NEW size \in Consts,
                 Plain(<<Emit("movl", Loc(i)),
                         Emit("pushi", Imm(size)), Emit0("alloc"),
                         Emit0("dup"), Emit("pushl", Loc(i)),
                         Emit("pushi", Imm(size)), Emit0("copy"),
                         Emit("movl", Loc(i)), Params(i)>>)
          PROVE  IInv'
      <4>1. <<Emit("movl", Loc(i)),
              Emit("pushi", Imm(size)), Emit0("alloc"),
              Emit0("dup"), Emit("pushl", Loc(i)),
              Emit("pushi", Imm(size)), Emit0("copy"),
              Emit("movl", Loc(i)), Params(i)>> \in Seq(Quiet)
        BY ONLY <3>3, size \in Consts
      <4> QED BY <2>1, <3>5, <4>1, PlainStep
    <3> QED BY <3>2, <3>4, <3>5
  <2> QED BY <2>3, <2>4
<1> QED BY <1>1, <1>2

----------------------------------------------------------------------------
(***************************************************************************)
(* The handlers whose script places labels.                                *)
(***************************************************************************)
LEMMA LabelledScript ==
  ASSUME IInv, todo # <<>>, Head(todo).act \notin {"emit", "leave"},
         NEW s \in Seq(Item), Unfold(s), Handed(s), InOrder(s),
         \A i \in DOMAIN s : s[i].act # "leave",
         SameLoops, SameOutput,
         label_counter' \in Nat, label_counter' >= label_counter, nodes' \in Nat
  PROVE  IInv'
<1>1. /\ todo' = s \o Tail(todo)
      /\ UNCHANGED <<code, pending, functions, strings, loop_entry_labels, loop_exit_labels>>
      /\ Head(todo).act # "emit" /\ Head(todo).act # "leave"
  BY DEF Unfold, SameLoops, SameOutput
<1>2. TypeOK /\ ReferencesReachable /\ LoopDepths
  BY DEF IInv
<1>3. /\ todo \in Seq(Item) /\ strings' \in Seq(Literals)
      /\ loop_entry_labels' \in Seq(GenLabel) /\ loop_exit_labels' \in Seq(GenLabel)
      /\ \A d \in DOMAIN loop_exit_labels'  : Reachable(loop_exit_labels'[d])
      /\ \A d \in DOMAIN loop_entry_labels' : Reachable(loop_entry_labels'[d])
  BY <1>1, <1>2 DEF TypeOK, ReferencesReachable
<1>4. /\ TypeOK' /\ WellFormed' /\ LabelsFresh' /\ OwedOnce'
      /\ OwedNotDefined' /\ LabelsUnique' /\ ReferencesReachable'
      /\ InstructionFollows'
  BY <1>1, <1>3, UnfoldedLabels
<1>5. LoopDepths'
  BY <1>1, <1>2, <1>3, UnfoldedLoops
<1> QED BY <1>4, <1>5 DEF IInv

(* A label from label_counter on is new: nothing refers to it, places it   *)
(* or carries it.                                                          *)
LEMMA FreshLabels ==
  ASSUME IInv
  PROVE  /\ label_counter \in Nat /\ nodes \in Nat
         /\ \A n \in Nat : L(n) \in Label /\ L(n) \in GenLabel /\ L(n)[2] = n
         /\ \A n, m \in Nat : L(n) = L(m) => n = m
         /\ \A n \in Nat : n >= label_counter => ~ IsOld(L(n))
         /\ todo # <<>> /\ Head(todo).act \in Placing =>
              /\ Head(todo).arg \in Label
              /\ Head(todo).arg \in GenLabel =>
                   /\ Head(todo).arg[2] \in Nat
                   /\ Head(todo).arg[2] < label_counter
<1>1. label_counter \in Nat /\ nodes \in Nat
  BY DEF IInv, TypeOK
<1>2. \A n \in Nat : L(n) \in Label /\ L(n) \in GenLabel /\ L(n)[2] = n
  BY ArgTypes DEF L
<1>3. \A n \in Nat : n >= label_counter => ~ IsOld(L(n))
  BY <1>1, <1>2 DEF IsOld
<1>4. ASSUME todo # <<>>, Head(todo).act \in Placing
      PROVE  /\ Head(todo).arg \in Label
             /\ Head(todo).arg \in GenLabel =>
                  /\ Head(todo).arg[2] \in Nat
                  /\ Head(todo).arg[2] < label_counter
  <2>1. Head(todo).arg \in Label
    BY <1>4, TopItem DEF IInv, WellFormed
  <2>2. ASSUME Head(todo).arg \in GenLabel
        PROVE  Head(todo).arg[2] \in Nat /\ Head(todo).arg[2] < label_counter
    BY <1>4, <2>2, TopItem DEF IInv, LabelsFresh, IsOld, GenLabel
  <2> QED BY <2>1, <2>2
<1> QED BY <1>1, <1>2, <1>3, <1>4

(* An if preserves the invariant: its else part owes the new label.        *)
LEMMA IfStep ==
  ASSUME IInv, If
  PROVE  IInv'
<1> DEFINE else == L(label_counter)
           s    == <<Expr, Emit("jf", else), Stmt, Else(else)>>
<1>1. /\ todo # <<>> /\ Head(todo).act = "stmt" /\ Unfold(s)
      /\ label_counter' = label_counter + 1 /\ nodes' = nodes + 1
      /\ SameLoops /\ SameOutput
  BY DEF If, Visit, At
<1>2. /\ label_counter \in Nat /\ nodes \in Nat /\ else \in Label /\ else \in GenLabel
      /\ else[2] = label_counter /\ ~ IsOld(else)
  BY FreshLabels
<1> HIDE DEF else
<1>3. s \in Seq(Item)
  BY <1>2, ItemTypes, ArgTypes DEF Opcode
<1>4. /\ Len(s) = 4 /\ s[1] = Expr /\ s[2] = Emit("jf", else) /\ s[3] = Stmt
      /\ s[4] = Else(else)
  OBVIOUS
<1>5. /\ s[1].act = "expr" /\ s[2].act = "emit" /\ s[2].arg = else
      /\ s[3].act = "stmt" /\ s[4].act = "else" /\ s[4].arg = else
  BY <1>4 DEF Expr, Emit, Stmt, Else, Do
<1> HIDE DEF s
<1>6. DOMAIN s = {1, 2, 3, 4}
  BY <1>3, <1>4
<1>7. Handed(s)
  BY <1>1 DEF Handed, Owes, Placing
<1>8. InOrder(s)
  BY <1>1, <1>2, <1>5, <1>6 DEF InOrder, Owes, Placing
<1>9. \A i \in DOMAIN s : s[i].act # "leave"
  BY <1>5, <1>6
<1> QED BY <1>1, <1>2, <1>3, <1>7, <1>8, <1>9, LabelledScript

(* An if without an else part, and a match after its last case, preserve   *)
(* the invariant: they place the label they owe.                           *)
LEMMA NoElseStep ==
  ASSUME IInv, NoElse \/ MatchEnd
  PROVE  IInv'
<1> DEFINE else == Head(todo).arg
           s    == <<Target(else)>>
<1>1. /\ todo # <<>> /\ Head(todo).act \in {"else", "cases"} /\ Unfold(s)
      /\ label_counter' = label_counter /\ nodes' = nodes
      /\ SameLoops /\ SameOutput
  BY DEF NoElse, MatchEnd, At, Plain
<1>2. /\ label_counter \in Nat /\ nodes \in Nat /\ else \in Label
      /\ else \in GenLabel => else[2] < label_counter
  BY <1>1, FreshLabels DEF Placing
<1>3. Head(todo).arg = else
  OBVIOUS
<1> HIDE DEF else
<1>4. s \in Seq(Item)
  BY <1>2, ItemTypes
<1>5. Len(s) = 1 /\ s[1] = Target(else)
  OBVIOUS
<1>6. s[1].act = "target" /\ s[1].arg = else
  BY <1>5 DEF Target, Do
<1> HIDE DEF s
<1>7. DOMAIN s = {1}
  BY <1>4, <1>5
<1>8. Handed(s)
  BY <1>1, <1>3, <1>6, <1>7 DEF Handed, Owes, Placing
<1>9. InOrder(s)
  BY <1>1, <1>2, <1>3, <1>6, <1>7 DEF InOrder, Owes, Placing
<1>10. \A i \in DOMAIN s : s[i].act # "leave"
  BY <1>6, <1>7
<1>11. Head(todo).act \notin {"emit", "leave"}
  BY <1>1
<1> QED BY <1>1, <1>2, <1>4, <1>8, <1>9, <1>10, <1>11, LabelledScript

(* An else part preserves the invariant: it places the label of the else   *)
(* and owes a new one for the end.                                         *)
LEMMA ElsePartStep ==
  ASSUME IInv, ElsePart
  PROVE  IInv'
<1> DEFINE else == Head(todo).arg
           out  == L(label_counter)
           s    == <<Emit("jmp", out), Target(else), Stmt, Target(out)>>
<1>1. /\ todo # <<>> /\ Head(todo).act = "else" /\ Unfold(s)
      /\ label_counter' = label_counter + 1 /\ nodes' = nodes + 1
      /\ SameLoops /\ SameOutput
  BY DEF ElsePart, Visit, At
<1>2. /\ label_counter \in Nat /\ nodes \in Nat /\ else \in Label
      /\ else \in GenLabel => else[2] \in Nat /\ else[2] < label_counter
      /\ out \in Label /\ out \in GenLabel /\ out[2] = label_counter /\ ~ IsOld(out)
  BY <1>1, FreshLabels DEF Placing
<1>3. Head(todo).arg = else /\ (else \in GenLabel => else # out)
  BY <1>2
<1> HIDE DEF else, out
<1>4. s \in Seq(Item)
  BY <1>2, ItemTypes, ArgTypes DEF Opcode
<1>5. /\ Len(s) = 4 /\ s[1] = Emit("jmp", out) /\ s[2] = Target(else) /\ s[3] = Stmt
      /\ s[4] = Target(out)
  OBVIOUS
<1>6. /\ s[1].act = "emit" /\ s[1].arg = out /\ s[2].act = "target" /\ s[2].arg = else
      /\ s[3].act = "stmt" /\ s[4].act = "target" /\ s[4].arg = out
  BY <1>5 DEF Target, Emit, Stmt, Do
<1> HIDE DEF s
<1>7. DOMAIN s = {1, 2, 3, 4}
  BY <1>4, <1>5
<1>8. Handed(s)
  BY <1>1, <1>3, <1>6, <1>7 DEF Handed, Owes, Placing
<1>9. InOrder(s)
  BY <1>1, <1>2, <1>3, <1>6, <1>7 DEF InOrder, Owes, Placing
<1>10. \A i \in DOMAIN s : s[i].act # "leave"
  BY <1>6, <1>7
<1> QED BY <1>1, <1>2, <1>4, <1>8, <1>9, <1>10, LabelledScript

(* A match preserves the invariant: its cases owe the label of the end.    *)
LEMMA MatchStep ==
  ASSUME IInv, Match
  PROVE  IInv'
<1> DEFINE out == L(label_counter)
<1>1. PICK t \in Locals :
        Unfold(<<Expr, Emit("movl", Loc(t)), Cases(out, Loc(t), 0)>>)
  BY DEF Match
<1> DEFINE s == <<Expr, Emit("movl", Loc(t)), Cases(out, Loc(t), 0)>>
<1>2. /\ todo # <<>> /\ Head(todo).act = "expr" /\ Unfold(s)
      /\ label_counter' = label_counter + 1 /\ nodes' = nodes + 1
      /\ SameLoops /\ SameOutput
  BY <1>1 DEF Match, Visit, At
<1>3. /\ label_counter \in Nat /\ nodes \in Nat
      /\ out \in Label /\ out \in GenLabel /\ out[2] = label_counter /\ ~ IsOld(out)
  BY FreshLabels
<1>4. Loc(t) \in Operand /\ Loc(t) \notin Label
  BY ArgTypes, OperandsAssumption
<1> HIDE DEF out
<1>5. s \in Seq(Item)
  BY <1>3, <1>4, ItemTypes, ArgTypes DEF Opcode
<1>6. /\ Len(s) = 3 /\ s[1] = Expr /\ s[2] = Emit("movl", Loc(t))
      /\ s[3] = Cases(out, Loc(t), 0)
  OBVIOUS
<1>7. /\ s[1].act = "expr" /\ s[2].act = "emit" /\ s[2].arg = Loc(t)
      /\ s[3].act = "cases" /\ s[3].arg = out /\ s[3].arg2 = Loc(t)
  BY <1>6 DEF Expr, Emit, Cases, Do
<1> HIDE DEF s
<1>8. DOMAIN s = {1, 2, 3}
  BY <1>5, <1>6
<1>9. Handed(s)
  BY <1>2 DEF Handed, Owes, Placing
<1>10. InOrder(s)
  BY <1>2, <1>3, <1>4, <1>7, <1>8 DEF InOrder, Owes, Placing
<1>11. \A i \in DOMAIN s : s[i].act # "leave"
  BY <1>7, <1>8
<1> QED BY <1>2, <1>3, <1>5, <1>9, <1>10, <1>11, LabelledScript

(* A case preserves the invariant: it owes the label of the next case.     *)
LEMMA MatchCaseStep ==
  ASSUME IInv, MatchCase
  PROVE  IInv'
<1> DEFINE out  == Head(todo).arg
           t    == Head(todo).arg2
           n    == Head(todo).n + 1
           next == L(label_counter)
           s    == <<Tests(t), Emit("jf", next), Expr, Emit("jmp", out),
                     Target(next), Cases(out, t, n)>>
<1>1. /\ todo # <<>> /\ Head(todo).act = "cases" /\ Unfold(s)
      /\ label_counter' = label_counter + 1 /\ nodes' \in {nodes, nodes + 1}
      /\ SameLoops /\ SameOutput
  BY DEF MatchCase, Visit, At
<1>2. /\ label_counter \in Nat /\ nodes' \in Nat /\ out \in Label
      /\ out \in GenLabel => out[2] \in Nat /\ out[2] < label_counter
      /\ next \in Label /\ next \in GenLabel /\ next[2] = label_counter /\ ~ IsOld(next)
  BY <1>1, FreshLabels DEF Placing
<1>3. Head(todo).arg = out /\ (out \in GenLabel => out # next)
  BY <1>2
<1>4. t \in Operand /\ n \in Nat
  BY <1>1, TopItem DEF IInv, WellFormed
<1> HIDE DEF out, t, n, next
<1>5. s \in Seq(Item)
  BY <1>2, <1>4, ItemTypes, ArgTypes DEF Opcode
<1>6. /\ Len(s) = 6 /\ s[1] = Tests(t) /\ s[2] = Emit("jf", next) /\ s[3] = Expr
      /\ s[4] = Emit("jmp", out) /\ s[5] = Target(next) /\ s[6] = Cases(out, t, n)
  OBVIOUS
<1>7. /\ s[1].act = "tests" /\ s[1].arg2 = t /\ s[2].act = "emit" /\ s[2].arg = next
      /\ s[3].act = "expr" /\ s[4].act = "emit" /\ s[4].arg = out
      /\ s[5].act = "target" /\ s[5].arg = next
      /\ s[6].act = "cases" /\ s[6].arg = out /\ s[6].arg2 = t
  BY <1>6 DEF Tests, Emit, Expr, Target, Cases, Do
<1> HIDE DEF s
<1>8. DOMAIN s = {1, 2, 3, 4, 5, 6}
  BY <1>5, <1>6
<1>9. Handed(s)
  BY <1>1, <1>3, <1>7, <1>8 DEF Handed, Owes, Placing
<1>10. InOrder(s)
  BY <1>1, <1>2, <1>3, <1>4, <1>7, <1>8 DEF InOrder, Owes, Placing
<1>11. \A i \in DOMAIN s : s[i].act # "leave"
  BY <1>7, <1>8
<1> QED BY <1>1, <1>2, <1>5, <1>9, <1>10, <1>11, LabelledScript

(***************************************************************************)
(* A script of no item: the handler returns.                               *)
(***************************************************************************)
LEMMA NothingLeft ==
  ASSUME IInv, todo # <<>>, Head(todo).act \notin {"emit", "leave"},
         \A l \in Label : ~ Owes(Head(todo), l),
         Plain(<<>>), nodes' \in Nat
  PROVE  IInv'
<1>1. PICK s \in Seq(Item) : Len(s) = 0 /\ Tail(todo) = s \o Tail(todo)
  BY TopItem, EmptyScript
<1>2. Tail(todo) = << >> \o Tail(todo)
  <2>1. Tail(todo) \in Seq(Item)
    BY TopItem
  <2> QED BY <2>1
<1>3. Unfold(s)
  BY <1>1, <1>2 DEF Plain, Unfold
<1>4. Handed(s) /\ InOrder(s) /\ \A i \in DOMAIN s : s[i].act # "leave"
  BY <1>1 DEF Handed, InOrder
<1> QED BY <1>3, <1>4, FreshLabels, LabelledScript DEF Plain

(* A function preserves the invariant: it places its label, and hands on   *)
(* the ones of the functions behind it.                                    *)
LEMMA FunctionStep ==
  ASSUME IInv, Function
  PROVE  IInv'
<1> DEFINE k == Head(todo).n
           f == functions[k]
           s == <<Target(F(f)), Params(Arity[f]), Stmts, Emit0("ret"), Funcs(k + 1)>>
<1>1. /\ todo # <<>> /\ Head(todo).act = "funcs" /\ nodes' = nodes
  BY DEF Function, At
<1>2. /\ label_counter \in Nat /\ nodes \in Nat
  BY FreshLabels
<1>3. k \in Nat /\ k > 0 /\ functions \in Seq(Names)
  BY <1>1, TopItem, FunctionsAssumption DEF IInv, TypeOK, WellFormed
<1>4. CASE k > Len(functions)
  <2>1. \A l \in Label : ~ Owes(Head(todo), l)
    BY <1>1, <1>3, <1>4 DEF Owes, Placing
  <2>2. Plain(<<>>)
    BY <1>4 DEF Function
  <2> QED BY <1>1, <1>2, <2>1, <2>2, NothingLeft
<1>5. CASE ~ (k > Len(functions))
  <2>1. Unfold(s) /\ label_counter' = label_counter /\ SameLoops /\ SameOutput
    BY <1>5 DEF Function, Plain
  <2>2. /\ k \in 1 .. Len(functions) /\ f \in Names /\ F(f) \in Label /\ F(f) \notin GenLabel
        /\ Arity[f] \in Nat /\ k + 1 \in Nat /\ k + 1 > 0
    <3>1. k \in 1 .. Len(functions) /\ f \in Names /\ k + 1 \in Nat /\ k + 1 > 0
      BY <1>3, <1>5
    <3> QED BY <3>1, ArgTypes, FunctionsAssumption DEF F, GenLabel
  <2>3. \A l \in Label : Owes(Head(todo), l) =>
          l = F(f) \/ \E m \in k + 1 .. Len(functions) : l = F(functions[m])
    BY <1>1, <1>3, <2>2 DEF Owes, Placing
  <2> HIDE DEF f, k
  <2>4. s \in Seq(Item)
    BY <2>2, ItemTypes DEF Opcode
  <2>5. /\ Len(s) = 5 /\ s[1] = Target(F(f)) /\ s[2] = Params(Arity[f]) /\ s[3] = Stmts
        /\ s[4] = Emit0("ret") /\ s[5] = Funcs(k + 1)
    OBVIOUS
  <2>6. /\ s[1].act = "target" /\ s[1].arg = F(f) /\ s[2].act = "params"
        /\ s[3].act = "stmts" /\ s[4].act = "emit" /\ s[4].arg = None
        /\ s[5].act = "funcs" /\ s[5].n = k + 1
    BY <2>5 DEF Target, Params, Stmts, Emit0, Emit, Funcs, Do
  <2> HIDE DEF s
  <2>7. DOMAIN s = {1, 2, 3, 4, 5}
    BY <2>4, <2>5
  <2>8. Handed(s)
    BY <2>3, <2>6, <2>7 DEF Handed, Owes, Placing
  <2>9. InOrder(s)
    BY <2>2, <2>6, <2>7, ArgTypes DEF InOrder, Placing
  <2>10. \A i \in DOMAIN s : s[i].act # "leave"
    BY <2>6, <2>7
  <2> QED BY <1>1, <1>2, <2>1, <2>4, <2>8, <2>9, <2>10, LabelledScript
<1> QED BY <1>4, <1>5

(* A string directive preserves the invariant: it is quiet.                *)
LEMMA StringDirectivesStep ==
  ASSUME IInv, StringDirectives
  PROVE  IInv'
<1>1. /\ todo # <<>> /\ Head(todo).act = "strings" /\ nodes' = nodes
  BY DEF StringDirectives, At
<1>2. /\ label_counter \in Nat /\ nodes \in Nat /\ strings \in Seq(Literals)
  BY FreshLabels DEF IInv, TypeOK
<1>3. \A l \in Label : ~ Owes(Head(todo), l)
  BY <1>1 DEF Owes, Placing
<1>4. CASE Plain(<<>>)
  BY <1>1, <1>2, <1>3, <1>4, NothingLeft
<1>5. ASSUME NEW i \in DOMAIN strings, Plain(<<Emit(".string", Str(i - 1)), Strings>>)
      PROVE  IInv'
  <2> DEFINE s == <<Emit(".string", Str(i - 1)), Strings>>
  <2>1. Unfold(s) /\ label_counter' = label_counter /\ SameLoops /\ SameOutput
    BY <1>5 DEF Plain
  <2>2. Str(i - 1) \in Arg /\ Str(i - 1) \notin Label
    <3>1. i - 1 \in Int
      BY <1>2
    <3> QED BY <3>1, ArgTypes
  <2>3. s \in Seq(Item)
    BY <2>2, ItemTypes DEF Opcode
  <2>4. Len(s) = 2 /\ s[1] = Emit(".string", Str(i - 1)) /\ s[2] = Strings
    OBVIOUS
  <2>5. s[1].act = "emit" /\ s[1].arg = Str(i - 1) /\ s[2].act = "strings"
    BY <2>4 DEF Emit, Strings, Do
  <2> HIDE DEF s
  <2>6. DOMAIN s = {1, 2}
    BY <2>3, <2>4
  <2>7. Handed(s)
    BY <1>3 DEF Handed
  <2>8. InOrder(s)
    BY <2>2, <2>5, <2>6 DEF InOrder, Placing
  <2>9. \A j \in DOMAIN s : s[j].act # "leave"
    BY <2>5, <2>6
  <2> QED BY <1>1, <1>2, <2>1, <2>3, <2>7, <2>8, <2>9, LabelledScript
<1>6. Plain(<<>>) \/ \E i \in DOMAIN strings : Plain(<<Emit(".string", Str(i - 1)), Strings>>)
  BY DEF StringDirectives
<1> QED BY <1>4, <1>5, <1>6

(***************************************************************************)
(* The loops.  What is done once and what is repeated emits and visits;    *)
(* only the loop itself places labels.                                     *)
(***************************************************************************)
InLoopBody(out, loop) ==
  {it \in Item :
     /\ it.act \in {"emit", "expr", "stmt", "discard"}
     /\ it.act = "emit" /\ it.arg \in Label => it.arg \in {out, loop}}

(* What a concatenation holds, and where.                                  *)
LEMMA Joined ==
  ASSUME NEW S, NEW a \in Seq(S), NEW b \in Seq(S)
  PROVE  /\ a \o b \in Seq(S) /\ Len(a \o b) = Len(a) + Len(b)
         /\ \A i \in 1 .. Len(a) : (a \o b)[i] = a[i]
         /\ \A i \in 1 .. Len(b) : (a \o b)[Len(a) + i] = b[i]
<1>1. a \o b \in Seq(S) /\ Len(a \o b) = Len(a) + Len(b)
  OBVIOUS
<1>2. ASSUME NEW i \in 1 .. Len(a)
      PROVE  (a \o b)[i] = a[i]
  BY <1>2
<1>3. ASSUME NEW i \in 1 .. Len(b)
      PROVE  (a \o b)[Len(a) + i] = b[i]
  BY <1>3
<1> QED BY <1>1, <1>2, <1>3

LoopScript(once, entry, repeated, exit, leave) ==
  once \o <<entry>> \o repeated \o <<exit, leave>>

(* Where the parts of the script of a loop are.                            *)
LaidOut(s, once, entry, repeated, exit, leave) ==
  /\ s \in Seq(Item) /\ Len(s) = Len(once) + Len(repeated) + 3
  /\ s[Len(once) + 1] = entry /\ s[Len(s) - 1] = exit /\ s[Len(s)] = leave
  /\ \A i \in DOMAIN s :
       i \notin {Len(once) + 1, Len(s) - 1, Len(s)} =>
         \/ \E j \in DOMAIN once : s[i] = once[j]
         \/ \E j \in DOMAIN repeated : s[i] = repeated[j]

(* The script of a loop, item by item.                                     *)
LEMMA Concatenated ==
  ASSUME NEW a \in Seq(Item), NEW b \in Seq(Item), NEW x \in Item,
         NEW y \in Item, NEW z \in Item
  PROVE  LaidOut(LoopScript(a, x, b, y, z), a, x, b, y, z)
<1> DEFINE s == LoopScript(a, x, b, y, z)
<1> DEFINE c == a \o <<x>>
           d == c \o b
           e == <<y, z>>
<1>1. c \in Seq(Item) /\ Len(c) = Len(a) + 1 /\ c[Len(a) + 1] = x
      /\ \A i \in 1 .. Len(a) : c[i] = a[i]
  OBVIOUS
<1> HIDE DEF c
<1>2. /\ d \in Seq(Item) /\ Len(d) = Len(c) + Len(b)
      /\ \A i \in 1 .. Len(c) : d[i] = c[i]
      /\ \A i \in 1 .. Len(b) : d[Len(c) + i] = b[i]
  <2>0. c \in Seq(Item)
    BY <1>1
  <2>1. d \in Seq(Item) /\ Len(d) = Len(c) + Len(b)
    BY ONLY <2>0, b \in Seq(Item), Joined
  <2>2. \A i \in 1 .. Len(c) : d[i] = c[i]
    BY <1>1
  <2>3. \A i \in 1 .. Len(b) : d[Len(c) + i] = b[i]
    BY <1>1, Joined
  <2> QED BY <2>1, <2>2, <2>3
<1> HIDE DEF d
<1>3. e \in Seq(Item) /\ Len(e) = 2 /\ e[1] = y /\ e[2] = z
  OBVIOUS
<1> HIDE DEF e
<1>4. s = d \o e
  BY DEF c, d, e, LoopScript
<1> HIDE DEF s
<1>5. /\ s \in Seq(Item) /\ Len(s) = Len(d) + 2
      /\ \A i \in 1 .. Len(d) : s[i] = d[i]
      /\ s[Len(d) + 1] = y /\ s[Len(d) + 2] = z
  <2>0. Len(d) \in Nat /\ d \in Seq(Item) /\ e \in Seq(Item)
    BY <1>2, <1>3
  <2>1. s \in Seq(Item) /\ Len(s) = Len(d) + 2
    <3>1. s \in Seq(Item) /\ Len(s) = Len(d) + Len(e)
      BY ONLY <2>0, <1>4, Joined
    <3> QED BY ONLY <3>1, <1>3
  <2>2. \A i \in 1 .. Len(d) : s[i] = d[i]
    BY ONLY <2>0, <1>4
  <2>3. \A i \in 1 .. Len(e) : s[Len(d) + i] = e[i]
    BY ONLY <2>0, <1>4, Joined
  <2>4. s[Len(d) + 1] = e[1] /\ s[Len(d) + 2] = e[2]
    BY ONLY <2>3, <1>3
  <2> QED BY <1>3, <2>1, <2>2, <2>4
<1>6. /\ Len(s) = Len(a) + Len(b) + 3 /\ Len(d) = Len(a) + 1 + Len(b)
      /\ s[Len(a) + 1] = x /\ s[Len(s) - 1] = y /\ s[Len(s)] = z
  <2>1. /\ Len(a) \in Nat /\ Len(b) \in Nat
        /\ Len(d) = Len(a) + 1 + Len(b) /\ Len(s) = Len(d) + 2
    BY <1>1, <1>2, <1>5
  <2>2. Len(s) - 1 = Len(d) + 1 /\ Len(a) + 1 \in 1 .. Len(c) /\ Len(a) + 1 \in 1 .. Len(d)
    BY <1>1, <2>1
  <2> QED BY <1>1, <1>2, <1>5, <2>1, <2>2
<1>7. ASSUME NEW i \in DOMAIN s, i \notin {Len(a) + 1, Len(s) - 1, Len(s)}
      PROVE  (\E j \in DOMAIN a : s[i] = a[j]) \/ (\E j \in DOMAIN b : s[i] = b[j])
  <2>1. i \in 1 .. Len(d) /\ i # Len(a) + 1 /\ i \in Nat
    <3>1. i \in 1 .. Len(s) /\ Len(d) \in Nat
      BY <1>2, <1>5
    <3>2. i # Len(s) /\ i # Len(s) - 1 /\ i # Len(a) + 1 /\ Len(s) = Len(d) + 2
      BY <1>5, <1>7
    <3> QED BY ONLY <3>1, <3>2
  <2>2. CASE i <= Len(a)
    <3>1. i \in 1 .. Len(a) /\ i \in 1 .. Len(c) /\ i \in DOMAIN a
      BY <1>1, <1>2, <2>1, <2>2
    <3> QED BY <1>1, <1>2, <1>5, <2>1, <3>1
  <2>3. CASE i > Len(a)
    <3>1. /\ i - Len(c) \in 1 .. Len(b) /\ i - Len(c) \in DOMAIN b
          /\ i = Len(c) + (i - Len(c))
      <4>1. /\ Len(a) \in Nat /\ Len(b) \in Nat /\ Len(c) = Len(a) + 1
            /\ Len(d) = Len(a) + 1 + Len(b)
        BY <1>1, <1>6
      <4>2. i - Len(c) \in 1 .. Len(b) /\ i = Len(c) + (i - Len(c))
        BY ONLY <4>1, <2>1, <2>3
      <4> QED BY <4>2
    <3>2. s[i] = b[i - Len(c)]
      BY <1>2, <1>5, <2>1, <3>1
    <3> QED BY <3>1, <3>2
  <2> QED BY <2>1, <2>2, <2>3
<1> QED BY <1>5, <1>6, <1>7 DEF s, LaidOut

(* A loop of any kind preserves the invariant: its script owes the two     *)
(* labels it allocated and pops them at its end.                           *)
LEMMA LoopStep ==
  ASSUME IInv, NEW form, NEW out, NEW loop,
         \/ out = L(label_counter) /\ loop = L(label_counter + 1)
         \/ loop = L(label_counter) /\ out = L(label_counter + 1),
         NEW once, once \in Seq(InLoopBody(out, loop)),
         NEW repeated, repeated \in Seq(InLoopBody(out, loop)),
         Loop(form, out, loop, once, repeated),
         NEW s, s = LoopScript(once, Target(loop), repeated, Target(out),
                               Leave(out, loop, Len(loop_entry_labels) + 1))
  PROVE  IInv'
<1> DEFINE depth == Len(loop_entry_labels) + 1
           leave == Leave(out, loop, depth)
           at(i) == Len(s) + i - 1
<1>1. /\ todo # <<>> /\ Head(todo).act = "stmt" /\ nodes' = nodes + 1
      /\ label_counter' = label_counter + 2
      /\ loop_entry_labels' = Append(loop_entry_labels, loop)
      /\ loop_exit_labels'  = Append(loop_exit_labels, out)
      /\ todo' = s \o Tail(todo)
      /\ UNCHANGED <<code, pending, strings, functions>>
  BY DEF Loop, Visit, At, Unfold, SameOutput, LoopScript
<1>2. /\ TypeOK /\ ReferencesReachable /\ LoopDepths
  BY DEF IInv
<1>3. /\ label_counter \in Nat /\ nodes \in Nat /\ todo \in Seq(Item)
      /\ strings \in Seq(Literals)
      /\ loop_entry_labels \in Seq(GenLabel) /\ loop_exit_labels \in Seq(GenLabel)
      /\ Len(loop_exit_labels) = Len(loop_entry_labels)
  BY <1>2 DEF TypeOK, LoopDepths
<1>4. /\ out \in GenLabel /\ loop \in GenLabel /\ out \in Label /\ loop \in Label
      /\ out[2] \in Nat /\ loop[2] \in Nat
      /\ out[2] < label_counter + 2 /\ loop[2] < label_counter + 2
      /\ ~ IsOld(out) /\ ~ IsOld(loop) /\ out # loop
  BY <1>3, FreshLabels
<1>5. depth \in Nat /\ depth > 0
  BY <1>3
<1> HIDE DEF depth
<1>6. /\ Target(loop) \in Item /\ Target(out) \in Item /\ leave \in Item
      /\ Target(loop).act = "target" /\ Target(loop).arg = loop
      /\ Target(out).act = "target" /\ Target(out).arg = out
      /\ leave.act = "leave" /\ leave.n = depth /\ leave.arg = out /\ leave.arg2 = loop
  <2>1. Target(loop) \in Item /\ Target(out) \in Item /\ leave \in Item
    BY <1>4, <1>5, ItemTypes, ArgTypes
  <2> QED BY <2>1 DEF Target, Leave, Do
<1>7. /\ once \in Seq(Item) /\ repeated \in Seq(Item)
      /\ s = LoopScript(once, Target(loop), repeated, Target(out), leave)
  BY DEF InLoopBody, depth
<1> HIDE DEF leave
<1>8. /\ s \in Seq(Item) /\ Len(s) = Len(once) + Len(repeated) + 3
      /\ s[Len(once) + 1] = Target(loop) /\ s[Len(s) - 1] = Target(out) /\ s[Len(s)] = leave
      /\ \A i \in DOMAIN s :
           i \notin {Len(once) + 1, Len(s) - 1, Len(s)} =>
             \/ \E j \in DOMAIN once : s[i] = once[j]
             \/ \E j \in DOMAIN repeated : s[i] = repeated[j]
  <2>1. /\ Target(loop) \in Item /\ Target(out) \in Item /\ leave \in Item
        /\ once \in Seq(Item) /\ repeated \in Seq(Item)
    BY <1>6, <1>7
  <2>2. LaidOut(s, once, Target(loop), repeated, Target(out), leave)
    BY ONLY <1>7, <2>1, Concatenated
  <2> QED BY ONLY <2>2 DEF LaidOut
<1>9. /\ Len(once) + 1 \in DOMAIN s /\ Len(s) - 1 \in DOMAIN s /\ Len(s) \in DOMAIN s
      /\ Len(once) + 1 # Len(s) - 1 /\ Len(s) \in Nat /\ DOMAIN s \subseteq Nat
      /\ \A i \in DOMAIN s : i <= Len(s)
  <2>1. Len(once) \in Nat /\ Len(repeated) \in Nat
    BY <1>7
  <2>2. Len(s) \in Nat /\ DOMAIN s = 1 .. Len(s)
    BY <1>8
  <2> QED BY ONLY <2>1, <2>2, <1>8
<1>10. \A i \in DOMAIN s :
         \/ i = Len(once) + 1 /\ s[i].act = "target" /\ s[i].arg = loop
         \/ i = Len(s) - 1 /\ s[i].act = "target" /\ s[i].arg = out
         \/ i = Len(s) /\ s[i].act = "leave" /\ s[i].arg = out /\ s[i].arg2 = loop
              /\ s[i].n = depth
         \/ s[i] \in InLoopBody(out, loop)
  <2> SUFFICES ASSUME NEW i \in DOMAIN s,
                      i \notin {Len(once) + 1, Len(s) - 1, Len(s)}
               PROVE  s[i] \in InLoopBody(out, loop)
    BY <1>6, <1>8
  <2>1. CASE \E j \in DOMAIN once : s[i] = once[j]
    BY <2>1
  <2>2. CASE \E j \in DOMAIN repeated : s[i] = repeated[j]
    BY <2>2
  <2> QED BY <1>8, <2>1, <2>2
<1>11. Handed(s)
  BY <1>1 DEF Handed, Owes, Placing
<1>12. Owes(s[Len(once) + 1], loop) /\ Owes(s[Len(s) - 1], out)
  BY <1>6, <1>8 DEF Owes, Placing
<1>13. InOrder(s)
  <2>1. \A i \in DOMAIN s : s[i].act \in Placing =>
          \/ i = Len(once) + 1 /\ s[i].arg = loop
          \/ i = Len(s) - 1 /\ s[i].arg = out
    BY <1>10 DEF InLoopBody, Placing
  <2>2. \A i \in DOMAIN s : s[i].act \notin {"funcs", "cases", "tests", "pattern"}
    BY <1>10 DEF InLoopBody
  <2>3. \A i \in DOMAIN s : s[i].act = "emit" /\ s[i].arg \in Label =>
          \E j \in DOMAIN s : Owes(s[j], s[i].arg)
    BY <1>9, <1>10, <1>12 DEF InLoopBody
  <2>4. ASSUME NEW i \in DOMAIN s
        PROVE  /\ s[i].act \in Placing => s[i].arg \in Label
               /\ s[i].act \in Placing /\ s[i].arg \in GenLabel =>
                    s[i].arg[2] < label_counter' /\ ~ IsOld(s[i].arg)
    BY <1>1, <1>4, <2>1
  <2>5. \A i, j \in DOMAIN s :
          s[i].act \in Placing /\ s[j].act \in Placing /\ s[i].arg = s[j].arg => i = j
    BY <1>4, <2>1
  <2> QED BY <1>1, <2>2, <2>3, <2>4, <2>5 DEF InOrder
<1>14. /\ loop_entry_labels' \in Seq(GenLabel) /\ loop_exit_labels' \in Seq(GenLabel)
       /\ Len(loop_entry_labels') = depth /\ Len(loop_exit_labels') = depth
       /\ loop_entry_labels'[depth] = loop /\ loop_exit_labels'[depth] = out
       /\ \A d \in 1 .. depth : d # depth =>
            /\ d \in 1 .. Len(loop_exit_labels)
            /\ d \in DOMAIN loop_exit_labels /\ d \in DOMAIN loop_entry_labels
            /\ loop_entry_labels'[d] = loop_entry_labels[d]
            /\ loop_exit_labels'[d] = loop_exit_labels[d]
  <2>1. /\ loop_entry_labels' \in Seq(GenLabel) /\ loop_exit_labels' \in Seq(GenLabel)
        /\ Len(loop_entry_labels') = depth /\ Len(loop_exit_labels') = depth
    BY <1>1, <1>3, <1>4 DEF depth
  <2>2. loop_entry_labels'[depth] = loop /\ loop_exit_labels'[depth] = out
    BY <1>1, <1>3, <1>4 DEF depth
  <2>3. ASSUME NEW d \in 1 .. depth, d # depth
        PROVE  /\ d \in 1 .. Len(loop_exit_labels)
               /\ d \in DOMAIN loop_exit_labels /\ d \in DOMAIN loop_entry_labels
               /\ loop_entry_labels'[d] = loop_entry_labels[d]
               /\ loop_exit_labels'[d] = loop_exit_labels[d]
    <3>1. /\ d \in 1 .. Len(loop_exit_labels)
          /\ d \in DOMAIN loop_exit_labels /\ d \in DOMAIN loop_entry_labels
      BY SMTT(30), <1>3, <2>3 DEF depth
    <3> QED BY <1>1, <1>3, <3>1
  <2> QED BY <2>1, <2>2, <2>3
<1>15. /\ \A d \in DOMAIN loop_exit_labels' :
            \/ Reachable(loop_exit_labels'[d])
            \/ \E j \in DOMAIN s : Owes(s[j], loop_exit_labels'[d])
       /\ \A d \in DOMAIN loop_entry_labels' :
            \/ Reachable(loop_entry_labels'[d])
            \/ \E j \in DOMAIN s : Owes(s[j], loop_entry_labels'[d])
  <2>1. DOMAIN loop_exit_labels' = 1 .. depth /\ DOMAIN loop_entry_labels' = 1 .. depth
    BY <1>14
  <2>2. /\ \A d \in DOMAIN loop_exit_labels  : Reachable(loop_exit_labels[d])
        /\ \A d \in DOMAIN loop_entry_labels : Reachable(loop_entry_labels[d])
    BY <1>2 DEF ReferencesReachable
  <2> QED BY <1>9, <1>12, <1>14, <2>1, <2>2
<1>16. /\ TypeOK' /\ WellFormed' /\ LabelsFresh' /\ OwedOnce'
       /\ OwedNotDefined' /\ LabelsUnique' /\ ReferencesReachable'
       /\ InstructionFollows'
  <2>1. /\ label_counter' \in Nat /\ label_counter' >= label_counter
        /\ strings' \in Seq(Literals) /\ nodes' \in Nat
        /\ UNCHANGED <<code, pending, functions>> /\ Head(todo).act # "emit"
    BY <1>1, <1>3
  <2> QED BY <1>1, <1>8, <1>11, <1>13, <1>14, <1>15, <2>1, UnfoldedLabels
<1>17. LoopDepths'
  <2>1. /\ todo' \in Seq(Item)
        /\ \A i \in DOMAIN s : i \in DOMAIN todo' /\ todo'[i] = s[i]
        /\ \A i \in DOMAIN todo : i # 1 => at(i) \in DOMAIN todo' /\ todo'[at(i)] = todo[i]
        /\ \A k \in DOMAIN todo' :
             k \in DOMAIN s \/ \E i \in DOMAIN todo : i # 1 /\ k = at(i)
    <3>1. todo' = s \o Tail(todo) /\ s \in Seq(Item) /\ todo \in Seq(Item) /\ todo # <<>>
      BY <1>1, <1>3, <1>8
    <3> QED BY ONLY <3>1, UnfoldedSeq DEF at
  <2>2. /\ DOMAIN todo \subseteq Nat /\ DOMAIN todo' \subseteq Nat
        /\ \A i, j \in DOMAIN todo : at(j) < at(i) => j < i
        /\ \A i \in DOMAIN todo : i # 1 => at(i) > Len(s)
        /\ Head(todo) = todo[1] /\ 1 \in DOMAIN todo
    <3>1. /\ DOMAIN todo \subseteq Nat /\ DOMAIN todo' \subseteq Nat
          /\ Head(todo) = todo[1] /\ 1 \in DOMAIN todo /\ Len(s) \in Nat
      <4>1. Head(todo) = todo[1] /\ 1 \in DOMAIN todo
        BY <1>1, TopItem
      <4>2. DOMAIN todo \subseteq Nat /\ DOMAIN todo' \subseteq Nat
        BY ONLY <1>3, <2>1
      <4> QED BY <1>9, <4>1, <4>2
    <3>2. \A i \in DOMAIN todo : i # 1 => i > 1
      BY <1>3
    <3> QED BY ONLY <3>1, <3>2 DEF at
  <2> HIDE DEF at
  <2>3. ASSUME NEW k \in DOMAIN todo', todo'[k].act = "leave"
        PROVE  \/ /\ k = Len(s) /\ todo'[k].n = depth
                  /\ todo'[k].arg = out /\ todo'[k].arg2 = loop
               \/ /\ k > Len(s)
                  /\ \E i \in DOMAIN todo : i # 1 /\ k = at(i) /\ todo'[k] = todo[i]
    <3>1. CASE k \in DOMAIN s
      BY SMTT(30), <1>10, <2>1, <2>3, <3>1 DEF InLoopBody
    <3>2. CASE k \notin DOMAIN s
      BY <2>1, <2>2, <3>2
    <3> QED BY <3>1, <3>2
  <2>4. ASSUME NEW k \in DOMAIN todo', todo'[k].act = "leave"
        PROVE  /\ todo'[k].n \in 1 .. Len(loop_exit_labels')
               /\ todo'[k].arg  = loop_exit_labels'[todo'[k].n]
               /\ todo'[k].arg2 = loop_entry_labels'[todo'[k].n]
               /\ \A m \in DOMAIN todo' : m < k /\ todo'[m].act = "leave" =>
                    todo'[m].n > todo'[k].n
    <3>1. CASE k = Len(s) /\ todo'[k].n = depth /\ todo'[k].arg = out /\ todo'[k].arg2 = loop
      <4>1. \A m \in DOMAIN todo' : m < k => todo'[m].act # "leave"
        <5> SUFFICES ASSUME NEW m \in DOMAIN todo', m < k, todo'[m].act = "leave"
                     PROVE  FALSE
          OBVIOUS
        <5>1. m = Len(s) \/ m > Len(s)
          BY <2>3
        <5>2. m \in Nat /\ Len(s) \in Nat /\ m < Len(s)
          BY <1>9, <2>2, <3>1
        <5> QED BY ONLY <5>1, <5>2
      <4>2. depth \in 1 .. depth
        BY <1>5
      <4> QED BY <1>14, <3>1, <4>1, <4>2
    <3>2. CASE \E i \in DOMAIN todo : i # 1 /\ k = at(i) /\ todo'[k] = todo[i]
      <4>1. PICK i \in DOMAIN todo : i # 1 /\ k = at(i) /\ todo'[k] = todo[i]
        BY <3>2
      <4>2. /\ todo[i].n \in 1 .. Len(loop_exit_labels)
            /\ todo[i].arg  = loop_exit_labels[todo[i].n]
            /\ todo[i].arg2 = loop_entry_labels[todo[i].n]
        BY <1>2, <2>4, <4>1 DEF LoopDepths
      <4>3. todo[i].n \in 1 .. depth /\ todo[i].n # depth /\ depth > todo[i].n
        BY <1>3, <4>2 DEF depth
      <4>4. ASSUME NEW m \in DOMAIN todo', m < k, todo'[m].act = "leave"
            PROVE  todo'[m].n > todo'[k].n
        <5>1. CASE todo'[m].n = depth
          BY <4>1, <4>3, <5>1
        <5>2. CASE \E j \in DOMAIN todo : j # 1 /\ m = at(j) /\ todo'[m] = todo[j]
          <6>1. PICK j \in DOMAIN todo : j # 1 /\ m = at(j) /\ todo'[m] = todo[j]
            BY <5>2
          <6>2. j < i /\ todo[j].act = "leave" /\ todo[i].act = "leave"
            BY <2>2, <2>4, <4>1, <4>4, <6>1
          <6> QED BY <1>2, <4>1, <6>1, <6>2 DEF LoopDepths
        <5> QED BY <2>3, <4>4, <5>1, <5>2
      <4> QED BY <1>14, <4>1, <4>2, <4>3, <4>4
    <3> QED BY <2>3, <2>4, <3>1, <3>2
  <2>5. ASSUME NEW d \in 1 .. Len(loop_exit_labels')
        PROVE  \E k \in DOMAIN todo' : todo'[k].act = "leave" /\ todo'[k].n = d
    <3>1. CASE d = depth
      <4>1. Len(s) \in DOMAIN todo' /\ todo'[Len(s)] = leave
        BY <1>8, <1>9, <2>1
      <4> QED BY <1>6, <3>1, <4>1
    <3>2. CASE d # depth
      <4>1. d \in 1 .. Len(loop_exit_labels)
        BY <1>14, <3>2
      <4>2. PICK i \in DOMAIN todo : todo[i].act = "leave" /\ todo[i].n = d
        BY <1>2, <4>1 DEF LoopDepths
      <4>3. i # 1
        BY <1>1, <2>2, <4>2
      <4> QED BY <2>1, <4>2, <4>3
    <3> QED BY <3>1, <3>2
  <2> QED BY <1>14, <2>4, <2>5 DEF LoopDepths
<1> QED BY <1>16, <1>17 DEF IInv

(* The four loops of the language preserve the invariant.                  *)
LEMMA LoopsStep ==
  ASSUME IInv, While \/ For \/ ForEach \/ DoWhile
  PROVE  IInv'
<1> DEFINE c    == label_counter
           body(out, loop) == InLoopBody(out, loop)
<1>1. /\ c \in Nat /\ c + 1 \in Nat
      /\ L(c) \in Arg /\ L(c + 1) \in Arg
  BY FreshLabels, ArgTypes
<1>2. ASSUME NEW out \in Arg, NEW loop \in Arg
      PROVE  /\ Expr \in body(out, loop) /\ Stmt \in body(out, loop)
             /\ Discarded \in body(out, loop)
             /\ \A op \in Opcode :
                  /\ Emit(op, out) \in body(out, loop) /\ Emit(op, loop) \in body(out, loop)
                  /\ Emit0(op) \in body(out, loop)
             /\ \A op \in Opcode, x \in Int :
                  Emit(op, Loc(x)) \in body(out, loop) /\ Emit(op, Imm(x)) \in body(out, loop)
  <2>1. /\ Expr \in body(out, loop) /\ Stmt \in body(out, loop)
        /\ Discarded \in body(out, loop)
    BY ItemTypes DEF InLoopBody, Expr, Stmt, Discarded, Do
  <2>2. \A op \in Opcode, a \in Arg :
          (a \in Label => a \in {out, loop}) => Emit(op, a) \in body(out, loop)
    BY ItemTypes DEF InLoopBody, Emit, Do
  <2>3. \A op \in Opcode : Emit0(op) \in body(out, loop)
    BY <2>2, ArgTypes DEF Emit0
  <2>4. \A op \in Opcode, x \in Int :
          Emit(op, Loc(x)) \in body(out, loop) /\ Emit(op, Imm(x)) \in body(out, loop)
    BY <2>2, ArgTypes
  <2> QED BY <2>1, <2>2, <2>3, <2>4
<1> HIDE DEF body
<1>3. ASSUME NEW form, NEW out, NEW loop, NEW once, NEW repeated,
             \/ out = L(c) /\ loop = L(c + 1)
             \/ loop = L(c) /\ out = L(c + 1),
             once \in Seq(body(out, loop)), repeated \in Seq(body(out, loop)),
             Loop(form, out, loop, once, repeated)
      PROVE  IInv'
  BY <1>3, LoopStep DEF body
<1> DEFINE a == L(c)
           b == L(c + 1)
<1>4. CASE While
  <2>1. Loop("while", a, b, <<>>, <<Expr, Emit("jf", a), Stmt, Emit("jmp", b)>>)
    BY <1>4 DEF While
  <2>2. Emit("jf", a) \in body(a, b) /\ Emit("jmp", b) \in body(a, b)
        /\ Expr \in body(a, b) /\ Stmt \in body(a, b)
    BY <1>1, <1>2 DEF Opcode
  <2>3. /\ << >> \in Seq(body(a, b))
        /\ <<Expr, Emit("jf", a), Stmt, Emit("jmp", b)>> \in Seq(body(a, b))
    BY ONLY <2>2
  <2> QED BY ONLY <1>3, <2>1, <2>3
<1>5. CASE For
  <2>1. Loop("for", a, b, <<Stmt>>,
             <<Expr, Emit("jf", a), Stmt, Discarded, Emit("jmp", b)>>)
    BY <1>5 DEF For
  <2>2. Emit("jf", a) \in body(a, b) /\ Emit("jmp", b) \in body(a, b)
        /\ Expr \in body(a, b) /\ Stmt \in body(a, b) /\ Discarded \in body(a, b)
    BY <1>1, <1>2 DEF Opcode
  <2>3. /\ <<Stmt>> \in Seq(body(a, b))
        /\ <<Expr, Emit("jf", a), Stmt, Discarded, Emit("jmp", b)>> \in Seq(body(a, b))
    BY ONLY <2>2
  <2> QED BY ONLY <1>3, <2>1, <2>3
<1>6. CASE ForEach
  <2>1. PICK array \in Locals, x \in Locals, counter \in Locals,
             size \in {"memsize", "strlen"} :
        Loop("foreach", a, b,
             <<Emit("pushi", Imm(0)), Emit("movl", Loc(counter))>>,
             <<Emit("pushl", Loc(counter)), Emit("pushl", Loc(array)),
               Emit0(size), Emit0("lt"), Emit("jf", a),
               Emit("pushl", Loc(array)), Emit("pushl", Loc(counter)),
               Emit0("add"), Emit0("load"), Emit("movl", Loc(x)),
               Stmt,
               Emit("incl", Loc(counter)), Emit("jmp", b)>>)
    BY <1>6, Zenon DEF ForEach
  <2>2. /\ array \in Int /\ x \in Int /\ counter \in Int /\ size \in Opcode
        /\ "pushi" \in Opcode /\ "movl" \in Opcode /\ "pushl" \in Opcode /\ "lt" \in Opcode
        /\ "jf" \in Opcode /\ "add" \in Opcode /\ "load" \in Opcode /\ "incl" \in Opcode
        /\ "jmp" \in Opcode
    BY OperandsAssumption DEF Opcode
  <2>3. /\ Emit("pushi", Imm(0)) \in body(a, b) /\ Emit("movl", Loc(counter)) \in body(a, b)
        /\ Emit("pushl", Loc(counter)) \in body(a, b) /\ Emit("pushl", Loc(array)) \in body(a, b)
        /\ Emit0(size) \in body(a, b) /\ Emit0("lt") \in body(a, b) /\ Emit("jf", a) \in body(a, b)
        /\ Emit0("add") \in body(a, b) /\ Emit0("load") \in body(a, b)
        /\ Emit("movl", Loc(x)) \in body(a, b) /\ Stmt \in body(a, b)
        /\ Emit("incl", Loc(counter)) \in body(a, b) /\ Emit("jmp", b) \in body(a, b)
    BY <1>1, <1>2, <2>2
  <2>4. <<Emit("pushi", Imm(0)), Emit("movl", Loc(counter))>> \in Seq(body(a, b))
    BY ONLY <2>3
  <2>5. <<Emit("pushl", Loc(counter)), Emit("pushl", Loc(array)),
          Emit0(size), Emit0("lt"), Emit("jf", a),
          Emit("pushl", Loc(array)), Emit("pushl", Loc(counter)),
          Emit0("add"), Emit0("load"), Emit("movl", Loc(x)),
          Stmt,
          Emit("incl", Loc(counter)), Emit("jmp", b)>> \in Seq(body(a, b))
    BY ONLY <2>3
  <2> QED BY ONLY <1>3, <2>1, <2>4, <2>5
<1>7. CASE DoWhile
  <2>1. Loop("do", b, a, <<>>, <<Stmt, Expr, Emit("jt", a)>>)
    BY <1>7 DEF DoWhile
  <2>2. Emit("jt", a) \in body(b, a) /\ Expr \in body(b, a) /\ Stmt \in body(b, a)
    BY <1>1, <1>2 DEF Opcode
  <2>3. << >> \in Seq(body(b, a)) /\ <<Stmt, Expr, Emit("jt", a)>> \in Seq(body(b, a))
    BY ONLY <2>2
  <2> QED BY ONLY <1>3, <2>1, <2>3
<1> QED BY <1>4, <1>5, <1>6, <1>7

----------------------------------------------------------------------------
(***************************************************************************)
(* The invariant holds initially, and every step preserves it.             *)
(***************************************************************************)
LEMMA InitInv ==
  ASSUME Init
  PROVE  IInv
<1> DEFINE t == <<Target(GlobalInit), Globals, Emit("jmp", MainLabel), Funcs(1), Strings>>
<1>1. /\ todo = t /\ Len(code) = 0 /\ code \in Seq(Instr) /\ pending = {}
      /\ label_counter = 0
      /\ loop_entry_labels = <<>> /\ loop_exit_labels = <<>> /\ strings = <<>>
      /\ functions \in FunctionLists /\ functions \in Seq(Names) /\ nodes = 0
  BY FunctionsAssumption DEF Init
<1>2. /\ GlobalInit \in Label /\ GlobalInit \notin GenLabel
      /\ MainLabel \in Label /\ MainLabel \in Arg
  BY ArgTypes DEF GlobalInit, GenLabel
<1>3. t \in Seq(Item)
  BY <1>2, ItemTypes DEF Opcode
<1>4. /\ Len(t) = 5 /\ t[1] = Target(GlobalInit) /\ t[2] = Globals
      /\ t[3] = Emit("jmp", MainLabel) /\ t[4] = Funcs(1) /\ t[5] = Strings
  OBVIOUS
<1>5. /\ t[1].act = "target" /\ t[1].arg = GlobalInit /\ t[2].act = "globals"
      /\ t[3].act = "emit" /\ t[3].arg = MainLabel
      /\ t[4].act = "funcs" /\ t[4].n = 1 /\ t[5].act = "strings"
  BY <1>4 DEF Target, Globals, Emit, Funcs, Strings, Do
<1> HIDE DEF t
<1>6. DOMAIN todo = {1, 2, 3, 4, 5} /\ todo = t
  BY <1>1, <1>3, <1>4
<1>7. DOMAIN code = {} /\ DOMAIN loop_exit_labels = {} /\ DOMAIN loop_entry_labels = {}
      /\ Len(loop_exit_labels) = 0 /\ Len(loop_entry_labels) = 0
  BY <1>1
<1>8. TypeOK
  BY <1>1, <1>3 DEF TypeOK
<1>9. WellFormed
  BY <1>2, <1>5, <1>6 DEF WellFormed, Placing
<1>10. LabelsFresh /\ OwedOnce /\ OwedNotDefined /\ LabelsUnique
  BY <1>1, <1>2, <1>5, <1>6, <1>7
     DEF LabelsFresh, OwedOnce, OwedNotDefined, LabelsUnique, Placing
<1>11. ReferencesReachable
  <2>1. ASSUME NEW k \in DOMAIN functions
        PROVE  Owed(F(functions[k]))
    <3>1. k \in 1 .. Len(functions)
      BY <1>1
    <3> QED BY <1>5, <1>6, <3>1 DEF Owed, Owes
  <2>2. Reachable(MainLabel)
    BY <2>1 DEF Reachable, MainLabel
  <2> QED BY <1>5, <1>6, <1>7, <2>1, <2>2 DEF ReferencesReachable
<1>12. InstructionFollows
  BY <1>1, <1>5, <1>6 DEF InstructionFollows
<1>13. LoopDepths
  BY <1>5, <1>6, <1>7 DEF LoopDepths
<1> QED BY <1>8, <1>9, <1>10, <1>11, <1>12, <1>13 DEF IInv

(* A stuttering step preserves the invariant.                              *)
LEMMA StutterInv ==
  ASSUME IInv, UNCHANGED vars
  PROVE  IInv'
<1>1. /\ code' = code /\ pending' = pending /\ label_counter' = label_counter
      /\ loop_entry_labels' = loop_entry_labels /\ loop_exit_labels' = loop_exit_labels
      /\ strings' = strings /\ functions' = functions /\ nodes' = nodes /\ todo' = todo
  BY DEF vars
<1>2. TypeOK' /\ WellFormed'
  BY <1>1 DEF IInv, TypeOK, WellFormed
<1>3. LabelsFresh' /\ OwedOnce' /\ LabelsUnique'
  BY <1>1 DEF IInv, LabelsFresh, IsOld, OwedOnce, LabelsUnique
<1>4. OwedNotDefined'
  BY <1>1 DEF IInv, OwedNotDefined, Defined
<1>5. ReferencesReachable'
  BY <1>1 DEF IInv, ReferencesReachable, Reachable, Owed, Owes, Defined
<1>6. InstructionFollows' /\ LoopDepths'
  BY <1>1 DEF IInv, InstructionFollows, LoopDepths
<1> QED BY <1>2, <1>3, <1>4, <1>5, <1>6 DEF IInv

(* Every step preserves the invariant.                                     *)
LEMMA NextInv ==
  ASSUME IInv, [Next]_vars
  PROVE  IInv'
<1>1. CASE Generate
  BY <1>1, GenerateStep
<1>2. CASE JumpTarget
  BY <1>2, JumpTargetStep
<1>3. CASE Expression
  <2>1. CASE Ident \/ IntConstant \/ Binop \/ Unary \/ Ternary \/ AssignExpr \/ Call \/ Arguments
    BY <2>1, PlainExpressions
  <2>2. CASE StringLiteral
    BY <2>2, StringLiteralStep
  <2>3. CASE Match
    BY <2>3, MatchStep
  <2>4. CASE MatchCase
    BY <2>4, MatchCaseStep
  <2>5. CASE MatchEnd
    BY <2>5, NoElseStep
  <2>6. CASE MatchTests \/ MatchPattern
    BY <2>6, MatchTestsStep
  <2> QED BY <1>3, <2>1, <2>2, <2>3, <2>4, <2>5, <2>6 DEF Expression
<1>4. CASE Statement
  <2>1. CASE Empty \/ Compound \/ Statements \/ VariableDeclaration
             \/ DiscardedExpression \/ Return
    BY <2>1, PlainStatements
  <2>2. CASE HandleDiscarded
    BY <2>2, HandleDiscardedStep
  <2>3. CASE If
    BY <2>3, IfStep
  <2>4. CASE NoElse
    BY <2>4, NoElseStep
  <2>5. CASE ElsePart
    BY <2>5, ElsePartStep
  <2>6. CASE While \/ For \/ ForEach \/ DoWhile
    BY <2>6, LoopsStep
  <2>7. CASE LeaveLoop
    BY <2>7, LeaveLoopStep
  <2>8. CASE Break \/ Continue
    BY <2>8, LoopControlStep
  <2> QED BY <1>4, <2>1, <2>2, <2>3, <2>4, <2>5, <2>6, <2>7, <2>8 DEF Statement
<1>5. CASE Program
  BY <1>5, ProgramParts, FunctionStep, StringDirectivesStep DEF Program
<1>6. CASE Terminating \/ UNCHANGED vars
  BY <1>6, StutterInv DEF Terminating
<1> QED BY <1>1, <1>2, <1>3, <1>4, <1>5, <1>6 DEF Next

(* The inductive invariant holds in every reachable state, for every       *)
(* program the generator may be given.                                     *)
THEOREM Invariance == Spec => []IInv
<1>1. Init => IInv
  BY InitInv
<1>2. IInv /\ [Next]_vars => IInv'
  BY NextInv
<1> QED BY <1>1, <1>2, PTL DEF Spec

(* Types: in particular the label stacks hold labels the generator made,   *)
(* and every operand is one an instruction may have.                       *)
THEOREM TypeCorrect == Spec => []TypeOK
<1>1. IInv => TypeOK
  BY DEF IInv
<1> QED BY <1>1, Invariance, PTL

(* generate_label's labels are placed at most once.                        *)
THEOREM UniqueLabels == Spec => []LabelsUnique
<1>1. IInv => LabelsUnique
  BY DEF IInv
<1> QED BY <1>1, Invariance, PTL

(* In a complete program no label is left waiting, and every label an      *)
(* instruction refers to is carried by an instruction.                     *)
THEOREM NoLostLabel == Spec => []NoDanglingLabel
<1>1. IInv => NoDanglingLabel
  BY DEF IInv, InstructionFollows, NoDanglingLabel, Done
<1> QED BY <1>1, Invariance, PTL

(* Every jump of a complete program has its target: the invariant says     *)
(* who still owes the label of each jump, and at the end nobody does.      *)
THEOREM Resolved == Spec => []JumpsResolved
<1>1. ASSUME IInv, Done
      PROVE  \A i \in DOMAIN code :
               code[i].arg \in Label =>
                 \/ \E j \in DOMAIN code : code[i].arg \in code[j].labels
                 \/ /\ code[i].arg = MainLabel
                    /\ \A k \in DOMAIN functions : functions[k] # "main"
  <2>1. DOMAIN todo = {}
    BY <1>1 DEF Done
  <2>2. pending = {}
    BY <1>1, <2>1 DEF IInv, InstructionFollows
  <2> QED
    BY <1>1, <2>1, <2>2 DEF IInv, ReferencesReachable, Reachable, Owed, Defined
<1>2. IInv => JumpsResolved
  BY <1>1 DEF JumpsResolved
<1> QED BY <1>2, Invariance, PTL

(* break and continue jump to the labels of the innermost loop whose       *)
(* handler is active.                                                      *)
THEOREM LoopControlCorrect == Spec => LoopControl
<1>1. ASSUME IInv, Break \/ Continue
      PROVE  \E i \in DOMAIN todo :
               /\ IsInnermost(i)
               /\ Break => Head(todo') = Emit("jmp", todo[i].arg)
               /\ Continue => Head(todo') = Emit("jmp", todo[i].arg2)
  <2>1. InLoop /\ LoopDepths /\ TypeOK
    BY <1>1 DEF Break, Continue, IInv
  <2>2. Len(loop_exit_labels) \in 1 .. Len(loop_exit_labels)
        /\ Len(loop_exit_labels) = Len(loop_entry_labels)
    <3>1. PICK i \in DOMAIN todo : todo[i].act = "leave"
      BY <2>1 DEF InLoop
    <3>2. todo[i].n \in 1 .. Len(loop_exit_labels) /\ Len(loop_exit_labels) \in Nat
      BY <2>1, <3>1 DEF LoopDepths, TypeOK
    <3> QED BY <2>1, <3>2 DEF LoopDepths
  <2>3. PICK i \in DOMAIN todo :
          todo[i].act = "leave" /\ todo[i].n = Len(loop_exit_labels)
    BY <2>1, <2>2 DEF LoopDepths
  <2>4. IsInnermost(i)
    <3> SUFFICES ASSUME NEW j \in 1 .. i - 1, todo[j].act = "leave"
                 PROVE  FALSE
      BY <2>3 DEF IsInnermost
    <3>1. j \in DOMAIN todo /\ j < i
      BY <2>1 DEF TypeOK
    <3>2. todo[j].n > todo[i].n /\ todo[j].n \in 1 .. Len(loop_exit_labels)
      BY <2>1, <2>3, <3>1 DEF LoopDepths
    <3> QED BY <2>2, <2>3, <3>2
  <2>5. /\ todo[i].arg  = loop_exit_labels[Len(loop_exit_labels)]
        /\ todo[i].arg2 = loop_entry_labels[Len(loop_entry_labels)]
    BY <2>1, <2>2, <2>3 DEF LoopDepths
  <2>6. ASSUME NEW a, todo' = <<a>> \o Tail(todo)
        PROVE  Head(todo') = a
    <3>1. todo # <<>> /\ todo \in Seq(Item)
      BY <1>1, <2>1 DEF Break, Continue, Visit, At, TypeOK
    <3> QED BY <2>6, <3>1
  <2>7. /\ Break => Head(todo') = Emit("jmp", todo[i].arg)
        /\ Continue => Head(todo') = Emit("jmp", todo[i].arg2)
    BY <2>5, <2>6 DEF Break, Continue, Plain, Unfold
  <2> QED BY <2>4, <2>7
<1>2. IInv /\ [Next]_vars =>
        [/\ Break => \E i \in DOMAIN todo :
                        IsInnermost(i) /\ Head(todo') = Emit("jmp", todo[i].arg)
         /\ Continue => \E i \in DOMAIN todo :
                        IsInnermost(i) /\ Head(todo') = Emit("jmp", todo[i].arg2)]_vars
  BY <1>1
<1> QED BY <1>2, Invariance, PTL DEF Spec, LoopControl

=============================================================================
