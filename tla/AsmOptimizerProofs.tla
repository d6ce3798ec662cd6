------------------------- MODULE AsmOptimizerProofs -------------------------
(***************************************************************************)
(* TLAPS proofs about AsmOptimizer, for every set of programs and every    *)
(* number of rounds: jumps keep their targets whatever the passes remove,  *)
(* the list is only ever left at its ends where the property says so, and  *)
(* every step brings the optimizer closer to its end.                      *)
(***************************************************************************)
EXTENDS AsmOptimizer, ScriptLemmas

(* The program begins with instructions that find their operands on the    *)
(* stack, of the height h, up to the one at b, which no pass takes away.   *)
Entry(c, b, h) == b \in 1 .. Len(c) /\ h \in [0 .. b - 1 -> Nat] /\ Starts(c, b, h)
EntryKept(c)   == \E b, h : Entry(c, b, h)

Resolved(c) ==
  /\ c \in Seq(Instruction) /\ c # <<>>
  /\ LabelsOnce(c) /\ JumpsLead(c) /\ Ends(c)

ListKept(c) == Resolved(c) /\ EntryKept(c)

OptimizerInv ==
  /\ ListKept(code)
  /\ cursor \in 1 .. Len(code) + 1
  /\ pass \in 1 .. NoPass
  /\ round \in 0 .. Rounds
  /\ phase \in {"peephole", "shorten", "done", "crashed"}
  /\ phase \in {"peephole", "shorten"} => round < Rounds
  /\ CrashesKnown

----------------------------------------------------------------------------
(* Rewriting instructions.                                                 *)

(* The labels stay where they are, and every jump is to where one was.     *)
Rewritten(c, d) ==
  /\ d \in Seq(Instruction) /\ Len(d) = Len(c)
  /\ \A k \in 1 .. Len(c) : d[k].labels = c[k].labels
  /\ \A k \in 1 .. Len(c) : d[k].op \in Jumps =>
       \E j \in 1 .. Len(c) : c[j].op \in Jumps /\ c[j].arg = d[k].arg
  /\ d[Len(c)].op = c[Len(c)].op

LEMMA ListFacts ==
  ASSUME NEW c \in Seq(Instruction), c # <<>>
  PROVE  /\ Len(c) \in Nat /\ Len(c) >= 1 /\ DOMAIN c = 1 .. Len(c)
         /\ \A k \in 1 .. Len(c) : c[k] \in Instruction
OBVIOUS

LEMMA RewritingResolved ==
  ASSUME NEW c, NEW d, Resolved(c), Rewritten(c, d)
  PROVE  Resolved(d)
<1> c \in Seq(Instruction) /\ c # <<>> /\ d \in Seq(Instruction) /\ Len(d) = Len(c)
  BY DEF Resolved, Rewritten
<1>1. Len(c) \in Nat /\ Len(c) >= 1 /\ DOMAIN c = 1 .. Len(c) /\ DOMAIN d = 1 .. Len(c)
  OBVIOUS
<1>2. d # <<>>
  BY <1>1
<1>3. LabelsOnce(d)
  BY <1>1 DEF LabelsOnce, Resolved, Rewritten
<1>4. JumpsLead(d)
  BY SMTT(30), <1>1 DEF JumpsLead, Resolved, Rewritten
<1>5. Ends(d)
  BY <1>1 DEF Ends, Resolved, Rewritten
<1> QED BY <1>2, <1>3, <1>4, <1>5 DEF Resolved

LEMMA Same ==
  ASSUME NEW c, Resolved(c)
  PROVE  Rewritten(c, c)
BY DEF Resolved, Rewritten

LEMMA PutFacts ==
  ASSUME NEW c \in Seq(Instruction), NEW i \in 1 .. Len(c), NEW op \in Opcode, NEW arg \in Operand
  PROVE  /\ Put(c, i, op, arg) \in Seq(Instruction)
         /\ Len(Put(c, i, op, arg)) = Len(c)
         /\ Put(c, i, op, arg)[i] = [labels |-> c[i].labels, op |-> op, arg |-> arg]
         /\ \A k \in 1 .. Len(c) : k # i => Put(c, i, op, arg)[k] = c[k]
<1> DEFINE d == [c EXCEPT ![i] = [labels |-> c[i].labels, op |-> op, arg |-> arg]]
<1>1. c[i] \in Instruction /\ i \in DOMAIN c /\ DOMAIN c = 1 .. Len(c)
  OBVIOUS
<1>2. [labels |-> c[i].labels, op |-> op, arg |-> arg] \in Instruction
  BY <1>1 DEF Instruction
<1>3. d \in Seq(Instruction) /\ Len(d) = Len(c)
  BY <1>1, <1>2
<1>4. /\ d[i] = [labels |-> c[i].labels, op |-> op, arg |-> arg]
      /\ \A k \in 1 .. Len(c) : k # i => d[k] = c[k]
  BY <1>1
<1>5. Put(c, i, op, arg) = d
  <2>1. [c EXCEPT ![i].op = op] = [c EXCEPT ![i] = [c[i] EXCEPT !.op = op]]
    BY <1>1
  <2>2. [c EXCEPT ![i].op = op, ![i].arg = arg]
            = [[c EXCEPT ![i].op = op] EXCEPT ![i] = [[c EXCEPT ![i].op = op][i] EXCEPT !.arg = arg]]
    BY <1>1
  <2>3. [[c[i] EXCEPT !.op = op] EXCEPT !.arg = arg] = [labels |-> c[i].labels, op |-> op, arg |-> arg]
    <3>1. [c[i] EXCEPT !.op = op] = [labels |-> c[i].labels, op |-> op, arg |-> c[i].arg]
      BY <1>1 DEF Instruction
    <3>2. [[labels |-> c[i].labels, op |-> op, arg |-> c[i].arg] EXCEPT !.arg = arg]
            = [labels |-> c[i].labels, op |-> op, arg |-> arg]
      OBVIOUS
    <3> QED BY <3>1, <3>2
  <2>4. [c EXCEPT ![i].op = op][i] = [c[i] EXCEPT !.op = op]
    BY <1>1
  <2> QED BY <1>1, <2>1, <2>2, <2>3, <2>4 DEF Put
<1> QED BY <1>3, <1>4, <1>5

LEMMA PutOpFacts ==
  ASSUME NEW c \in Seq(Instruction), NEW i \in 1 .. Len(c), NEW op \in Opcode
  PROVE  /\ PutOp(c, i, op) \in Seq(Instruction)
         /\ Len(PutOp(c, i, op)) = Len(c)
         /\ PutOp(c, i, op)[i] = [labels |-> c[i].labels, op |-> op, arg |-> c[i].arg]
         /\ \A k \in 1 .. Len(c) : k # i => PutOp(c, i, op)[k] = c[k]
<1> DEFINE d == [c EXCEPT ![i] = [labels |-> c[i].labels, op |-> op, arg |-> c[i].arg]]
<1>1. c[i] \in Instruction /\ i \in DOMAIN c /\ DOMAIN c = 1 .. Len(c)
  OBVIOUS
<1>2. [labels |-> c[i].labels, op |-> op, arg |-> c[i].arg] \in Instruction
  BY <1>1 DEF Instruction
<1>3. d \in Seq(Instruction) /\ Len(d) = Len(c)
  BY <1>1, <1>2
<1>4. [c[i] EXCEPT !.op = op] = [labels |-> c[i].labels, op |-> op, arg |-> c[i].arg]
  BY <1>1 DEF Instruction
<1>5. PutOp(c, i, op) = d
  BY <1>1, <1>4 DEF PutOp
<1>6. /\ d[i] = [labels |-> c[i].labels, op |-> op, arg |-> c[i].arg]
      /\ \A k \in 1 .. Len(c) : k # i => d[k] = c[k]
  BY <1>1
<1> QED BY <1>3, <1>5, <1>6

----------------------------------------------------------------------------
(* Removing instructions.                                                  *)
IsCut(c, m, n, d) ==
  /\ d \in Seq(Instruction) /\ Len(d) = Len(c) - (n - m + 1)
  /\ \A k \in 1 .. m - 1 : d[k] = c[k]
  /\ d[m] = [labels |-> c[n + 1].labels \cup UNION {c[k].labels : k \in m .. n},
             op |-> c[n + 1].op, arg |-> c[n + 1].arg]
  /\ \A k \in m + 1 .. Len(c) - (n - m + 1) : d[k] = c[k + (n - m + 1)]

LEMMA CutFacts ==
  ASSUME NEW c \in Seq(Instruction), NEW n \in 1 .. Len(c) - 1, NEW m \in 1 .. n
  PROVE  IsCut(c, m, n, Cut(c, m, n))
<1> DEFINE d == Cut(c, m, n)
           w == n - m + 1
           U == UNION {c[k].labels : k \in m .. n}
<1>1. /\ Len(c) \in Nat /\ DOMAIN c = 1 .. Len(c) /\ w \in Nat /\ w >= 1 /\ w < Len(c)
      /\ m <= Len(c) - w /\ m \in Nat /\ n + 1 \in 1 .. Len(c)
      /\ \A k \in 1 .. Len(c) : c[k] \in Instruction
  OBVIOUS
<1>2. DOMAIN d = 1 .. Len(c) - w
  BY <1>1 DEF Cut
<1>3. \A k \in 1 .. Len(c) - w : k < m => d[k] = c[k]
  BY <1>1 DEF Cut
<1>4. \A k \in 1 .. Len(c) - w : k > m => d[k] = c[k + w]
  BY <1>1 DEF Cut
<1>5. d[m] = [labels |-> c[n + 1].labels \cup U, op |-> c[n + 1].op, arg |-> c[n + 1].arg]
  <2>1. d[m] = [c[n + 1] EXCEPT !.labels = @ \cup U]
    BY <1>1 DEF Cut
  <2>2. c[n + 1] \in Instruction
    BY <1>1
  <2> QED BY <2>1, <2>2 DEF Instruction
<1>6. d[m] \in Instruction
  <2>1. U \in SUBSET Operand
    <3>1. \A k \in m .. n : c[k].labels \subseteq Operand
      BY <1>1 DEF Instruction
    <3> QED BY <3>1
  <2>2. c[n + 1] \in Instruction
    BY <1>1
  <2> QED BY <1>5, <2>1, <2>2 DEF Instruction
<1>7. \A k \in 1 .. Len(c) - w : d[k] \in Instruction
  <2> TAKE k \in 1 .. Len(c) - w
  <2>1. CASE k < m
    BY <1>1, <1>3, <2>1
  <2>2. CASE k = m
    BY <1>6, <2>2
  <2>3. CASE k > m
    BY <1>1, <1>4, <2>3
  <2> QED BY <1>1, <2>1, <2>2, <2>3
<1>8. d = [k \in 1 .. Len(c) - w |-> d[k]]
  BY <1>1, <1>2 DEF Cut
<1> HIDE DEF d
<1>9. d \in Seq(Instruction) /\ Len(d) = Len(c) - w
  <2>1. Len(c) - w \in Nat
    BY <1>1
  <2> HIDE DEF w
  <2>2. d \in [1 .. Len(c) - w -> Instruction]
    BY <1>7, <1>8
  <2> QED BY <2>1, <2>2
<1> QED BY <1>1, <1>3, <1>4, <1>5, <1>9 DEF d, IsCut

LEMMA CutResolved ==
  ASSUME NEW c, Resolved(c), NEW n \in 1 .. Len(c) - 1, NEW m \in 1 .. n
  PROVE  Resolved(Cut(c, m, n))
<1>w. PICK w \in Nat : w = n - m + 1
  OBVIOUS
<1> DEFINE d == Cut(c, m, n)
           From(k) == IF k < m THEN {k} ELSE IF k = m THEN m .. n + 1 ELSE {k + w}
<1>1. c \in Seq(Instruction) /\ c # <<>> /\ LabelsOnce(c) /\ JumpsLead(c) /\ Ends(c)
  BY DEF Resolved
<1>2. /\ Len(c) \in Nat /\ DOMAIN c = 1 .. Len(c) /\ w \in Nat /\ w >= 1 /\ w < Len(c)
      /\ m <= Len(c) - w /\ m \in Nat /\ n \in Nat /\ n + 1 \in 1 .. Len(c)
      /\ n + 1 = m + w /\ 1 <= m /\ m <= n
  BY <1>1, <1>w
<1>3. /\ d \in Seq(Instruction) /\ Len(d) = Len(c) - w
      /\ \A k \in 1 .. m - 1 : d[k] = c[k]
      /\ d[m] = [labels |-> c[n + 1].labels \cup UNION {c[k].labels : k \in m .. n},
                 op |-> c[n + 1].op, arg |-> c[n + 1].arg]
      /\ \A k \in m + 1 .. Len(c) - w : d[k] = c[k + w]
  <2>1. IsCut(c, m, n, d)
    BY <1>1, CutFacts
  <2> QED BY <1>w, <2>1, Zenon DEF IsCut
<1> HIDE DEF d
<1>a. \A k \in DOMAIN d : k < m => k \in DOMAIN c /\ d[k] = c[k]
  <2>1. DOMAIN d = 1 .. Len(c) - w
    BY <1>2, <1>3
  <2>2. ASSUME NEW k \in DOMAIN d, k < m
        PROVE  k \in DOMAIN c /\ k \in 1 .. m - 1
    BY ONLY <1>2, <2>1, <2>2, m \in 1 .. n
  <2> QED BY ONLY <1>3, <2>2
<1>b. d[m].op = c[n + 1].op /\ d[m].arg = c[n + 1].arg
  BY <1>3
<1>c. \A k \in DOMAIN d : k > m => k + w \in DOMAIN c /\ d[k] = c[k + w]
  <2>1. DOMAIN d = 1 .. Len(c) - w
    BY <1>2, <1>3
  <2>2. ASSUME NEW k \in DOMAIN d, k > m
        PROVE  k + w \in DOMAIN c /\ k \in m + 1 .. Len(c) - w
    BY ONLY <1>2, <2>1, <2>2, m \in 1 .. n
  <2> QED BY ONLY <1>3, <2>2
<1>4. DOMAIN d = 1 .. Len(c) - w
  BY <1>2, <1>3
(* Where the labels of an instruction come from.                           *)
<1>5. ASSUME NEW k \in DOMAIN d
      PROVE  From(k) \subseteq DOMAIN c /\ d[k].labels = UNION {c[j].labels : j \in From(k)}
  <2>1. CASE k < m
    BY SMTT(30), <1>2, <1>3, <1>4, <2>1
  <2>2. CASE k = m
    <3>1. From(k) = (m .. n) \cup {n + 1}
      BY <1>2, <2>2
    <3>2. d[k].labels = c[n + 1].labels \cup UNION {c[j].labels : j \in m .. n}
      BY <1>3, <2>2
    <3> HIDE DEF From
    <3>3. From(k) \subseteq DOMAIN c
      BY <1>2, <3>1
    <3> QED BY <3>1, <3>2, <3>3
  <2>3. CASE k > m
    <3>1. From(k) = {k + w} /\ k + w \in DOMAIN c /\ d[k] = c[k + w]
      BY SMTT(30), <1>2, <1>3, <1>4, <2>3
    <3> HIDE DEF From
    <3> QED BY <3>1
  <2> QED BY <1>2, <1>4, <2>1, <2>2, <2>3
<1>6. ASSUME NEW i \in DOMAIN d, NEW j \in DOMAIN d, From(i) \cap From(j) # {}
      PROVE  i = j
  BY <1>2, <1>4, <1>6
<1>7. ASSUME NEW x \in DOMAIN c
      PROVE  \E k \in DOMAIN d : x \in From(k)
  <2>1. CASE x < m
    BY <1>2, <1>4, <2>1
  <2>2. CASE x \in m .. n + 1
    <3>1. m \in DOMAIN d /\ x \in From(m)
      BY <1>2, <1>4, <2>2
    <3> QED BY <3>1
  <2>3. CASE x > n + 1
    <3>1. x - w \in DOMAIN d /\ x \in From(x - w)
      BY <1>2, <1>4, <2>3
    <3> QED BY <3>1
  <2> QED BY <1>2, <2>1, <2>2, <2>3
<1>8. ASSUME NEW k \in DOMAIN d
      PROVE  \E x \in DOMAIN c : c[x].op = d[k].op /\ c[x].arg = d[k].arg
  <2>1. CASE k < m
    BY <1>a, <2>1
  <2>2. CASE k = m
    BY <1>2, <1>b, <2>2
  <2>3. CASE k > m
    BY <1>c, <2>3
  <2> QED BY <1>2, <1>4, <2>1, <2>2, <2>3
<1>9. LabelsOnce(d)
  <2> SUFFICES ASSUME NEW i \in DOMAIN d, NEW j \in DOMAIN d, d[i].labels \cap d[j].labels # {}
               PROVE  i = j
    BY DEF LabelsOnce
  <2>1. PICK l : l \in d[i].labels /\ l \in d[j].labels
    OBVIOUS
  <2> HIDE DEF From
  <2>2. PICK x \in From(i) : l \in c[x].labels
    BY <1>5, <2>1
  <2>3. PICK y \in From(j) : l \in c[y].labels
    BY <1>5, <2>1
  <2>4. x = y
    BY <1>1, <1>5, <2>2, <2>3 DEF LabelsOnce
  <2> QED BY <1>6, <2>2, <2>3, <2>4
<1>10. JumpsLead(d)
  <2> SUFFICES ASSUME NEW i \in DOMAIN d, d[i].op \in Jumps
               PROVE  \E j \in DOMAIN d : d[i].arg \in d[j].labels
    BY DEF JumpsLead
  <2> HIDE DEF From
  <2>1. PICK x \in DOMAIN c : c[x].op = d[i].op /\ c[x].arg = d[i].arg
    BY <1>8
  <2>2. PICK y \in DOMAIN c : d[i].arg \in c[y].labels
    BY <1>1, <2>1 DEF JumpsLead
  <2>3. PICK j \in DOMAIN d : y \in From(j)
    BY <1>7
  <2> QED BY <1>5, <2>2, <2>3
<1>11. Ends(d)
  <2>1. d[Len(d)].op = c[Len(c)].op
    <3>1. Len(d) = Len(c) - w /\ Len(d) \in DOMAIN d
      BY <1>2, <1>3, <1>4
    <3>2. CASE m = Len(d)
      BY <1>2, <1>b, <3>1, <3>2
    <3>3. CASE m < Len(d)
      BY <1>2, <1>c, <3>1, <3>3
    <3>4. m \in Int /\ Len(c) - w \in Int /\ m <= Len(c) - w
      BY ONLY <1>2, w \in Nat
    <3>5. m = Len(d) \/ m < Len(d)
      BY ONLY <3>1, <3>4
    <3> QED BY <3>2, <3>3, <3>5
  <2> QED BY <1>1, <2>1 DEF Ends
<1>12. d # <<>>
  BY <1>2, <1>3
<1> QED BY <1>3, <1>9, <1>10, <1>11, <1>12 DEF Resolved, d

----------------------------------------------------------------------------
(* One instruction is rewritten.                                           *)
LEMMA PutResolved ==
  ASSUME NEW c, Resolved(c), NEW i \in 1 .. Len(c), NEW op \in Opcode, NEW arg \in Operand,
         op \in Jumps => \E j \in 1 .. Len(c) : c[j].op \in Jumps /\ c[j].arg = arg,
         c[i].op \notin {"ret", ".string"}
  PROVE  Resolved(Put(c, i, op, arg))
<1> DEFINE d == Put(c, i, op, arg)
<1>1. c \in Seq(Instruction) /\ c # <<>> /\ Ends(c)
  BY DEF Resolved
<1>2. /\ d \in Seq(Instruction) /\ Len(d) = Len(c)
      /\ d[i] = [labels |-> c[i].labels, op |-> op, arg |-> arg]
      /\ \A k \in 1 .. Len(c) : k # i => d[k] = c[k]
  BY <1>1, PutFacts
<1> HIDE DEF d
<1>3. \A k \in 1 .. Len(c) : d[k].labels = c[k].labels
  BY <1>2
<1>4. \A k \in 1 .. Len(c) : d[k].op \in Jumps =>
        \E j \in 1 .. Len(c) : c[j].op \in Jumps /\ c[j].arg = d[k].arg
  BY <1>2
<1>5. d[Len(c)].op = c[Len(c)].op
  <2>1. Len(c) \in 1 .. Len(c) /\ Len(c) # i
    BY <1>1 DEF Ends
  <2> QED BY <1>2, <2>1
<1>6. Rewritten(c, d)
  BY <1>2, <1>3, <1>4, <1>5 DEF Rewritten
<1> QED BY <1>6, RewritingResolved DEF d

(* A new opcode is one with the operand it had.                            *)
LEMMA PutOpIsPut ==
  ASSUME NEW c \in Seq(Instruction), NEW i \in 1 .. Len(c), NEW op \in Opcode
  PROVE  PutOp(c, i, op) = Put(c, i, op, c[i].arg) /\ c[i].arg \in Operand
<1> DEFINE d == PutOp(c, i, op)
           e == Put(c, i, op, c[i].arg)
<1>1. c[i] \in Instruction
  OBVIOUS
<1>2. c[i].arg \in Operand
  BY <1>1 DEF Instruction
<1>3. /\ d \in Seq(Instruction) /\ Len(d) = Len(c)
      /\ d[i] = [labels |-> c[i].labels, op |-> op, arg |-> c[i].arg]
      /\ \A k \in 1 .. Len(c) : k # i => d[k] = c[k]
  BY PutOpFacts
<1>4. /\ e \in Seq(Instruction) /\ Len(e) = Len(c)
      /\ e[i] = [labels |-> c[i].labels, op |-> op, arg |-> c[i].arg]
      /\ \A k \in 1 .. Len(c) : k # i => e[k] = c[k]
  BY <1>2, PutFacts
<1> HIDE DEF d, e
<1>5. d = e
  BY SMTT(30), <1>3, <1>4
<1> QED BY <1>2, <1>5 DEF d, e

LEMMA NotLast ==
  ASSUME NEW c, Resolved(c), NEW i \in 1 .. Len(c), c[i].op \notin {"ret", ".string"}
  PROVE  i < Len(c)
<1>1. Len(c) \in Nat /\ i # Len(c)
  BY DEF Resolved, Ends
<1> QED BY <1>1

----------------------------------------------------------------------------
(* What a pass may do for the instruction i of the list c.                 *)
Safe(c, i, r) ==
  /\ ListKept(r.code)
  /\ i <= Len(r.code) /\ Len(r.code) <= Len(c)
  /\ r.gone \in BOOLEAN /\ r.crash \in BOOLEAN
  /\ r.gone => Len(r.code) < Len(c)
  /\ r.crash => KnownCrash(r.code, i)

LEMMA ListType ==
  ASSUME NEW c, Resolved(c)
  PROVE  c \in Seq(Instruction) /\ c # <<>> /\ Len(c) \in Nat /\ Len(c) >= 1
BY DEF Resolved

LEMMA KeptSafe ==
  ASSUME NEW c, NEW d, ListKept(d), Len(d) = Len(c), NEW i \in 1 .. Len(c)
  PROVE  Safe(c, i, Kept(d))
BY DEF Safe, Kept, ListKept, Resolved

(* Where an instruction is, compared with the end of the program's entry.  *)
Early == (Pushes \ {"pushl"}) \cup {"dup", "lnot", "inc", "dec"} \cup IntBinops

LEMMA Where ==
  ASSUME NEW c, NEW b, NEW h, Entry(c, b, h), NEW i \in 1 .. Len(c)
  PROVE  /\ c[i].op \notin Early \cup Lasting => i > b
         /\ c[i].op \in Lasting => i >= b
         /\ c[i].op \notin Lasting => i # b
         /\ i < b => Computing(c[i].op, h[i - 1], h[i]) /\ h[i - 1] \in Nat /\ h[i] \in Nat
         /\ b \in Nat /\ b >= 1 /\ b <= Len(c) /\ c[b].op \in Lasting /\ h[0] = 0
<1>1. b \in 1 .. Len(c) /\ h \in [0 .. b - 1 -> Nat] /\ Starts(c, b, h)
  BY DEF Entry
<1>2. i < b => Computing(c[i].op, h[i - 1], h[i]) /\ h[i - 1] \in Nat /\ h[i] \in Nat
  <2> SUFFICES ASSUME i < b
               PROVE  Computing(c[i].op, h[i - 1], h[i]) /\ h[i - 1] \in Nat /\ h[i] \in Nat
    OBVIOUS
  <2>1. i \in 1 .. b - 1 /\ i - 1 \in 0 .. b - 1 /\ i \in 0 .. b - 1
    BY <1>1
  <2> QED BY <1>1, <2>1 DEF Starts
<1>3. i < b => c[i].op \in Early /\ c[i].op \notin Lasting
  <2>1. \A op, x, y : Computing(op, x, y) => op \in Early /\ op \notin Lasting
    BY DEF Computing, Early, Lasting, Pushes, IntBinops
  <2> QED BY <1>2, <2>1
<1>4. c[b].op \in Lasting /\ h[0] = 0
  BY <1>1 DEF Starts
<1> QED BY <1>1, <1>2, <1>3, <1>4

(* A list that differs from c only from i on.                              *)
Rest(c, i, d) ==
  /\ Resolved(d) /\ Len(d) = Len(c)
  /\ \A k \in 1 .. Len(c) : k < i => d[k].op = c[k].op

LEMMA RestSame ==
  ASSUME NEW c, Resolved(c), NEW i
  PROVE  Rest(c, i, c)
BY DEF Rest

LEMMA PutRest ==
  ASSUME NEW c, NEW d, NEW i \in 1 .. Len(c), Rest(c, i, d), NEW j \in 1 .. Len(c), j >= i,
         NEW op \in Opcode, NEW arg \in Operand,
         op \in Jumps => \E k \in 1 .. Len(c) : d[k].op \in Jumps /\ d[k].arg = arg,
         d[j].op \notin {"ret", ".string"}
  PROVE  /\ Rest(c, i, Put(d, j, op, arg))
         /\ Put(d, j, op, arg)[j].op = op
         /\ \A k \in 1 .. Len(c) : k # j => Put(d, j, op, arg)[k] = d[k]
<1>1. Resolved(d) /\ d \in Seq(Instruction) /\ Len(d) = Len(c) /\ j \in 1 .. Len(d)
  BY DEF Rest, Resolved
<1> DEFINE e == Put(d, j, op, arg)
<1>2. Resolved(e)
  BY <1>1, PutResolved
<1>3. /\ e \in Seq(Instruction) /\ Len(e) = Len(d)
      /\ e[j] = [labels |-> d[j].labels, op |-> op, arg |-> arg]
      /\ \A k \in 1 .. Len(d) : k # j => e[k] = d[k]
  BY <1>1, PutFacts
<1> HIDE DEF e
<1>4. e[j].op = op
  BY <1>3
<1>5. \A k \in 1 .. Len(c) : k # j => e[k] = d[k]
  BY <1>1, <1>3
<1>6. \A k \in 1 .. Len(c) : k < i => e[k].op = c[k].op
  BY <1>5 DEF Rest
<1>7. Rest(c, i, e)
  BY <1>1, <1>2, <1>3, <1>6 DEF Rest
<1> QED BY <1>4, <1>5, <1>7 DEF e

LEMMA PutOpRest ==
  ASSUME NEW c, NEW d, NEW i \in 1 .. Len(c), Rest(c, i, d), NEW j \in 1 .. Len(c), j >= i,
         NEW op \in Opcode, op \in Jumps => d[j].op \in Jumps,
         d[j].op \notin {"ret", ".string"}
  PROVE  /\ Rest(c, i, PutOp(d, j, op))
         /\ PutOp(d, j, op)[j].op = op
         /\ \A k \in 1 .. Len(c) : k # j => PutOp(d, j, op)[k] = d[k]
<1>1. d \in Seq(Instruction) /\ j \in 1 .. Len(d)
  BY DEF Rest, Resolved
<1>2. PutOp(d, j, op) = Put(d, j, op, d[j].arg) /\ d[j].arg \in Operand
  BY <1>1, PutOpIsPut
<1>3. op \in Jumps => \E k \in 1 .. Len(c) : d[k].op \in Jumps /\ d[k].arg = d[j].arg
  OBVIOUS
<1>4. /\ Rest(c, i, Put(d, j, op, d[j].arg))
      /\ Put(d, j, op, d[j].arg)[j].op = op
      /\ \A k \in 1 .. Len(c) : k # j => Put(d, j, op, d[j].arg)[k] = d[k]
  BY <1>2, <1>3, PutRest
<1> QED BY <1>2, <1>4, Zenon

(* An instruction of a list put anew leaves the list as it was elsewhere.   *)
LEMMA PutPlain ==
  ASSUME NEW c, Resolved(c), NEW i \in 1 .. Len(c), NEW j \in 1 .. Len(c), j >= i,
         NEW op \in Opcode, op \notin Jumps, NEW arg \in Operand,
         c[j].op \notin {"ret", ".string"}
  PROVE  /\ Rest(c, i, Put(c, j, op, arg))
         /\ Put(c, j, op, arg)[j].op = op
         /\ \A k \in 1 .. Len(c) : k # j => Put(c, j, op, arg)[k] = c[k]
<1>1. Rest(c, i, c)
  BY RestSame
<1> QED BY ONLY <1>1, PutRest, i \in 1 .. Len(c), j \in 1 .. Len(c), j >= i, op \in Opcode,
             op \notin Jumps, arg \in Operand, c[j].op \notin {"ret", ".string"}

----------------------------------------------------------------------------
(* Behind the entry.                                                       *)
LEMMA EntryAgrees ==
  ASSUME NEW c, NEW b, NEW h, Entry(c, b, h), NEW d, Len(d) \in Nat, b <= Len(d),
         \A k \in 1 .. b - 1 : d[k].op = c[k].op, d[b].op \in Lasting
  PROVE  Entry(d, b, h)
<1>1. b \in 1 .. Len(c) /\ h \in [0 .. b - 1 -> Nat] /\ Starts(c, b, h)
  BY DEF Entry
<1>2. Starts(d, b, h)
  BY <1>1 DEF Starts
<1>3. b \in 1 .. Len(d)
  BY <1>1
<1> QED BY <1>1, <1>2, <1>3 DEF Entry

LEMMA RestEntry ==
  ASSUME NEW c, NEW b, NEW h, Entry(c, b, h), Resolved(c), NEW i \in 1 .. Len(c),
         NEW d, Rest(c, i, d), i > b \/ (i = b /\ d[i].op \in Lasting)
  PROVE  Entry(d, b, h) /\ ListKept(d)
<1>1. b \in Nat /\ b >= 1 /\ b <= Len(c) /\ c[b].op \in Lasting
  BY Where
<1>2. \A k \in 1 .. b - 1 : d[k].op = c[k].op
  BY <1>1, ListType DEF Rest
<1>3. d[b].op \in Lasting
  BY <1>1, ListType DEF Rest
<1>4. Resolved(d) /\ Len(d) \in Nat /\ b <= Len(d)
  BY <1>1, ListType DEF Rest
<1>5. Entry(d, b, h)
  BY <1>2, <1>3, <1>4, EntryAgrees
<1> QED BY <1>4, <1>5 DEF ListKept, EntryKept

LEMMA RemovedBehind ==
  ASSUME NEW c, NEW d, NEW b, NEW h, Entry(d, b, h), Resolved(d), Len(d) = Len(c),
         NEW i \in 1 .. Len(c), NEW n \in 1 .. Len(c), NEW m \in i .. n, m > b,
         n = Len(c) => KnownCrash(d, i), NEW gone \in BOOLEAN
  PROVE  Safe(c, i, Removed(d, m, n, gone))
<1>1. b \in 1 .. Len(d) /\ Starts(d, b, h)
  BY DEF Entry
<1>2. d \in Seq(Instruction) /\ Len(c) \in Nat /\ m # 1
  BY <1>1, ListType
<1>3. CASE n = Len(c)
  <2>1. Removed(d, m, n, gone) = Crash(d)
    BY <1>2, <1>3 DEF Removed
  <2> QED BY <1>2, <1>3, <2>1 DEF Safe, Crash, ListKept, EntryKept
<1>4. CASE n # Len(c)
  <2> DEFINE e == Cut(d, m, n)
  <2>1. Removed(d, m, n, gone) = [code |-> e, gone |-> gone, crash |-> FALSE]
    BY <1>2, <1>4 DEF Removed
  <2>2. n \in 1 .. Len(d) - 1 /\ m \in 1 .. n
    BY <1>2, <1>4
  <2>3. Resolved(e)
    BY <1>2, <2>2, CutResolved
  <2>4. Len(e) = Len(d) - (n - m + 1) /\ \A k \in 1 .. m - 1 : e[k] = d[k]
    BY ZenonT(30), <1>2, <2>2, CutFacts DEF IsCut
  <2> HIDE DEF e
  <2>5. i <= Len(e) /\ Len(e) < Len(c) /\ Len(e) <= Len(c) /\ b <= Len(e) /\ Len(e) \in Nat
    BY <1>1, <1>2, <2>2, <2>4
  <2>6. \A k \in 1 .. b : e[k] = d[k]
    BY <1>1, <2>4
  <2>7. Entry(e, b, h)
    <3>1. (\A k \in 1 .. b - 1 : e[k].op = d[k].op) /\ e[b].op \in Lasting
      BY <1>1, <2>6 DEF Starts
    <3> QED BY <2>5, <3>1, EntryAgrees
  <2> QED BY <2>1, <2>3, <2>5, <2>7 DEF Safe, ListKept, EntryKept
<1> QED BY <1>3, <1>4

----------------------------------------------------------------------------
(* In the entry: m .. n go, and the instruction before them may have       *)
(* become one that leaves the stack as they did.                           *)
LEMMA RemovedInside ==
  ASSUME NEW c, NEW b, NEW h, Entry(c, b, h), Resolved(c), NEW i \in 1 .. Len(c),
         NEW d, Resolved(d), Len(d) = Len(c),
         NEW n \in 1 .. Len(c), n < b, NEW m \in i .. n, m >= 2,
         \A k \in 1 .. b - 1 : k < m - 1 \/ k > n => d[k].op = c[k].op,
         d[b].op \in Lasting,
         Computing(d[m - 1].op, h[m - 2], h[n]), NEW gone \in BOOLEAN
  PROVE  Safe(c, i, Removed(d, m, n, gone))
<1>1. b \in 1 .. Len(c) /\ h \in [0 .. b - 1 -> Nat] /\ Starts(c, b, h)
  BY DEF Entry
<1>2. /\ d \in Seq(Instruction) /\ Len(c) \in Nat /\ n \in 1 .. Len(d) - 1 /\ m \in 1 .. n
      /\ n # Len(c) /\ m # 1
  BY <1>1, ListType
<1>w. PICK w \in Nat : w = n - m + 1
  BY <1>2
<1> DEFINE e == Cut(d, m, n)
           a == b - w
           g == [k \in 0 .. a - 1 |-> IF k < m - 1 THEN h[k] ELSE h[k + w]]
<1>3. Removed(d, m, n, gone) = [code |-> e, gone |-> gone, crash |-> FALSE]
  BY <1>2 DEF Removed
<1>4. Resolved(e)
  BY <1>2, CutResolved
<1>5. /\ Len(e) = Len(d) - w
      /\ \A k \in 1 .. m - 1 : e[k] = d[k]
      /\ e[m] = [labels |-> d[n + 1].labels \cup UNION {d[k].labels : k \in m .. n},
                 op |-> d[n + 1].op, arg |-> d[n + 1].arg]
      /\ \A k \in m + 1 .. Len(d) - w : e[k] = d[k + w]
  <2>1. IsCut(d, m, n, e)
    BY <1>2, CutFacts
  <2> QED BY <1>w, <2>1, Zenon DEF IsCut
<1>6. /\ n = m + w - 1 /\ w >= 1 /\ m \in Nat /\ m >= 2 /\ a \in Nat /\ m <= a /\ a <= Len(d) - w
      /\ b = a + w /\ b \in Nat
  BY <1>1, <1>2, <1>w
<1> HIDE DEF e, a
<1>7. g \in [0 .. a - 1 -> Nat] /\ g[0] = 0
  <2>1. \A k \in 0 .. a - 1 : g[k] \in Nat
    BY SMTT(30), <1>1, <1>6
  <2>2. g[0] = h[0]
    BY <1>6
  <2> QED BY <1>1, <2>1, <2>2 DEF Starts
<1>8. e[m].op = d[m + w].op
  <2>1. n + 1 = m + w
    BY <1>6
  <2>2. e[m].op = d[n + 1].op
    BY ONLY <1>5
  <2> QED BY ONLY <2>1, <2>2
<1>9. \A k \in m .. a : e[k].op = d[k + w].op
  <2> TAKE k \in m .. a
  <2>1. CASE k = m
    BY <1>8, <2>1
  <2>2. CASE k # m
    <3>1. k \in m + 1 .. Len(d) - w
      BY <1>6, <2>2
    <3> QED BY <1>5, <3>1
  <2> QED BY <2>1, <2>2
<1>10. e[a].op \in Lasting
  BY <1>6, <1>9
<1>11. ASSUME NEW k \in 1 .. a - 1
       PROVE  Computing(e[k].op, g[k - 1], g[k])
  <2>1. CASE k < m - 1
    <3>1. g[k - 1] = h[k - 1] /\ g[k] = h[k] /\ k \in 1 .. b - 1 /\ k \in 1 .. m - 1
      BY <1>6, <2>1
    <3>2. e[k].op = c[k].op
      BY <1>5, <2>1, <3>1
    <3> QED BY <1>1, <3>1, <3>2 DEF Starts
  <2>2. CASE k = m - 1
    <3>1. g[k - 1] = h[m - 2] /\ g[k] = h[n] /\ k \in 1 .. m - 1
      BY <1>6, <2>2
    <3>2. e[k].op = d[m - 1].op
      BY <1>5, <2>2, <3>1
    <3> QED BY <3>1, <3>2
  <2>3. CASE k >= m
    <3>1. /\ g[k - 1] = h[k - 1 + w] /\ g[k] = h[k + w] /\ k + w \in 1 .. b - 1 /\ k + w > n
          /\ k \in m .. a /\ k - 1 + w = k + w - 1
      BY <1>6, <2>3
    <3> HIDE DEF g
    <3>2. e[k].op = c[k + w].op
      BY <1>9, <3>1
    <3>3. Computing(c[k + w].op, h[k + w - 1], h[k + w])
      BY <1>1, <3>1 DEF Starts
    <3> QED BY <3>1, <3>2, <3>3
  <2> QED BY <1>6, <2>1, <2>2, <2>3
<1> HIDE DEF g
<1>12. Entry(e, a, g)
  <2>1. a \in 1 .. Len(e)
    BY <1>5, <1>6
  <2> QED BY <1>7, <1>10, <1>11, <2>1 DEF Entry, Starts
<1>13. i <= Len(e) /\ Len(e) < Len(c) /\ Len(e) <= Len(c)
  BY <1>2, <1>5, <1>6
<1> QED BY <1>3, <1>4, <1>12, <1>13 DEF Safe, ListKept, EntryKept

(* An instruction of the entry is rewritten, without a change of height.   *)
LEMMA RewrittenInside ==
  ASSUME NEW c, NEW b, NEW h, Entry(c, b, h), Resolved(c),
         NEW d, Resolved(d), Len(d) = Len(c), d[b].op \in Lasting,
         \A k \in 1 .. b - 1 : Computing(d[k].op, h[k - 1], h[k])
  PROVE  ListKept(d)
<1>1. b \in 1 .. Len(c) /\ h \in [0 .. b - 1 -> Nat] /\ h[0] = 0
  BY DEF Entry, Starts
<1> QED BY <1>1 DEF Entry, Starts, ListKept, EntryKept

(* Instructions that together leave the stack as it was go.                *)
LEMMA CutInside ==
  ASSUME NEW c, NEW b, NEW h, Entry(c, b, h), Resolved(c), NEW i \in 1 .. Len(c),
         NEW d, Resolved(d), Len(d) = Len(c),
         \A k \in 1 .. b - 1 : d[k].op = c[k].op, d[b].op \in Lasting,
         NEW n \in 1 .. Len(c), n < b, NEW m \in i .. n,
         h[n] = h[m - 1], h[m - 1] >= 1, NEW gone \in BOOLEAN
  PROVE  Safe(c, i, Removed(d, m, n, gone))
<1>1. b \in Nat /\ b >= 1 /\ b <= Len(c) /\ h[0] = 0 /\ Len(c) \in Nat
  BY Where, ListType
<1>2. m >= 2
  <2>1. m >= 1 /\ m # 1
    BY <1>1
  <2> QED BY <2>1
<1>3. m - 1 \in 1 .. Len(c) /\ m - 1 < b /\ m - 1 \in 1 .. b - 1 /\ (m - 1) - 1 = m - 2
  BY <1>1, <1>2
<1>4. Computing(c[m - 1].op, h[m - 2], h[m - 1])
  BY <1>3, Where
<1>5. Computing(d[m - 1].op, h[m - 2], h[n])
  BY <1>3, <1>4
<1> QED BY <1>2, <1>5, RemovedInside

(* The height of the stack with an instruction of the entry.               *)
LEMMA Heights ==
  ASSUME NEW c, NEW b, NEW h, Entry(c, b, h), NEW i \in 1 .. Len(c), i < b
  PROVE  /\ h[i - 1] \in Nat /\ h[i] \in Nat /\ b \in Nat
         /\ c[i].op \in Pushes => h[i] = h[i - 1] + 1
         /\ c[i].op \in {"lnot", "inc", "dec"} => h[i] = h[i - 1] /\ h[i - 1] >= 1
         /\ c[i].op \in IntBinops => h[i] = h[i - 1] - 1 /\ h[i - 1] >= 2
         /\ i + 1 <= b
<1>1. Computing(c[i].op, h[i - 1], h[i]) /\ h[i - 1] \in Nat /\ h[i] \in Nat /\ b \in Nat
  BY Where
<1>2. c[i].op \in Pushes => h[i] = h[i - 1] + 1
  BY <1>1 DEF Computing, Pushes, IntBinops
<1>3. c[i].op \in {"lnot", "inc", "dec"} => h[i] = h[i - 1] /\ h[i - 1] >= 1
  BY <1>1 DEF Computing, Pushes, IntBinops
<1>4. c[i].op \in IntBinops => h[i] = h[i - 1] - 1 /\ h[i - 1] >= 2
  BY <1>1 DEF Computing, Pushes, IntBinops
<1> QED BY <1>1, <1>2, <1>3, <1>4

----------------------------------------------------------------------------
(* The passes.  First the two ways in which most of them work: the list c  *)
(* has become d from the instruction j on, and then nothing else, or the   *)
(* instructions m .. n go, all behind the entry.                           *)
LEMMA BehindSafe ==
  ASSUME NEW c, NEW b, NEW h, Entry(c, b, h), Resolved(c), NEW i \in 1 .. Len(c),
         NEW j \in 1 .. Len(c), NEW d, Rest(c, j, d), j > b \/ (j = b /\ d[j].op \in Lasting),
         NEW n \in 1 .. Len(c), NEW m \in i .. n, m > b,
         n = Len(c) => KnownCrash(d, i), NEW gone \in BOOLEAN
  PROVE  Safe(c, i, Removed(d, m, n, gone))
<1>1. Entry(d, b, h)
  BY RestEntry
<1>2. Resolved(d) /\ Len(d) = Len(c)
  BY DEF Rest
<1> QED BY <1>1, <1>2, RemovedBehind

LEMMA LaterSafe ==
  ASSUME NEW c, NEW b, NEW h, Entry(c, b, h), Resolved(c), NEW i \in 1 .. Len(c),
         NEW j \in 1 .. Len(c), NEW d, Rest(c, j, d), j > b \/ (j = b /\ d[j].op \in Lasting)
  PROVE  Safe(c, i, Kept(d))
<1>1. ListKept(d)
  BY RestEntry
<1>2. Len(d) = Len(c)
  BY DEF Rest
<1> QED BY <1>1, <1>2, KeptSafe

LEMMA CopylSafe ==
  ASSUME NEW c, ListKept(c), NEW i \in 1 .. Len(c)
  PROVE  Safe(c, i, peephole_copyl(c, i))
<1>1. CASE ~ (/\ Is(c, i, {"movl"})
                /\ InnerIs(c, i + 1, {"pushl"})
                /\ SameArg(c, i, i + 1)
                /\ ~ InnerIs(c, i + 2, {"pop"}))
  BY <1>1, KeptSafe DEF peephole_copyl
<1>2. CASE /\ Is(c, i, {"movl"})
           /\ InnerIs(c, i + 1, {"pushl"})
           /\ SameArg(c, i, i + 1)
           /\ ~ InnerIs(c, i + 2, {"pop"})
  <2>e. PICK b, h : Entry(c, b, h)
    BY DEF ListKept, EntryKept
  <2>r. Resolved(c)
    BY DEF ListKept
  <2>1. c[i].op = "movl" /\ c[i + 1].op = "pushl" /\ i + 1 \in 1 .. Len(c)
    BY <1>2, <2>r, ListType DEF Is, InnerIs, Inner
  <2>2. i > b /\ b \in Nat
    BY <2>e, <2>1, Where DEF Early, Lasting, Pushes, IntBinops
  <2> DEFINE d == PutOp(c, i, "copyl")
  <2>3. Rest(c, i, d)
    BY <2>r, <2>1, RestSame, PutOpRest DEF Jumps, Opcode
  <2>4. i + 1 # Len(c)
    BY <2>r, <2>1, NotLast
  <2>5. Safe(c, i, Removed(d, i + 1, i + 1, FALSE))
    <3> HIDE DEF d
    <3>1. i + 1 \in i .. i + 1 /\ i + 1 > b
      BY <2>2
    <3> QED BY <2>e, <2>r, <2>1, <2>2, <2>3, <2>4, <3>1, BehindSafe
  <2> QED BY <1>2, <2>5 DEF peephole_copyl
<1> QED BY <1>1, <1>2

LEMMA UselessCopylSafe ==
  ASSUME NEW c, ListKept(c), NEW i \in 1 .. Len(c)
  PROVE  Safe(c, i, peephole_useless_copyl(c, i))
<1>1. CASE ~ (Is(c, i, {"copyl"}) /\ InnerIs(c, i + 1, {"copyl"}) /\ SameArg(c, i, i + 1))
  BY <1>1, KeptSafe DEF peephole_useless_copyl
<1>2. CASE Is(c, i, {"copyl"}) /\ InnerIs(c, i + 1, {"copyl"}) /\ SameArg(c, i, i + 1)
  <2>e. PICK b, h : Entry(c, b, h)
    BY DEF ListKept, EntryKept
  <2>r. Resolved(c)
    BY DEF ListKept
  <2>1. c[i].op = "copyl" /\ c[i + 1].op = "copyl" /\ i + 1 \in 1 .. Len(c)
    BY <1>2, <2>r, ListType DEF Is, InnerIs, Inner
  <2>2. i > b /\ b \in Nat
    BY <2>e, <2>1, Where DEF Early, Lasting, Pushes, IntBinops
  <2>3. i + 1 # Len(c)
    BY <2>r, <2>1, NotLast
  <2>4. Safe(c, i, Removed(c, i + 1, i + 1, FALSE))
    <3>1. i + 1 \in i .. i + 1 /\ i + 1 > b /\ Rest(c, i, c)
      BY <2>r, <2>2, RestSame
    <3> QED BY <2>e, <2>r, <2>1, <2>2, <2>3, <3>1, BehindSafe
  <2> QED BY <1>2, <2>4 DEF peephole_useless_copyl
<1> QED BY <1>1, <1>2

LEMMA SandwichSafe ==
  ASSUME NEW c, ListKept(c), NEW i \in 1 .. Len(c)
  PROVE  Safe(c, i, peephole_useless_copyl_sandwich(c, i))
<1>1. CASE ~ (/\ Is(c, i, {"copyl"})
                /\ Inner(c, i + 1)
                /\ InnerIs(c, i + 2, {"copyl"})
                /\ SameArg(c, i, i + 2))
  BY <1>1, KeptSafe DEF peephole_useless_copyl_sandwich
<1>2. CASE /\ Is(c, i, {"copyl"})
           /\ Inner(c, i + 1)
           /\ InnerIs(c, i + 2, {"copyl"})
           /\ SameArg(c, i, i + 2)
  <2>e. PICK b, h : Entry(c, b, h)
    BY DEF ListKept, EntryKept
  <2>r. Resolved(c)
    BY DEF ListKept
  <2>1. c[i].op = "copyl" /\ i # Len(c)
    BY <1>2, <2>r, ListType DEF Is, InnerIs, Inner
  <2>2. i > b /\ b \in Nat
    BY <2>e, <2>1, Where DEF Early, Lasting, Pushes, IntBinops
  <2>3. Safe(c, i, Removed(c, i, i, TRUE))
    <3>1. i \in i .. i /\ Rest(c, i, c)
      BY <2>r, RestSame
    <3> QED BY <2>e, <2>r, <2>1, <2>2, <3>1, BehindSafe
  <2> QED BY <1>2, <2>3 DEF peephole_useless_copyl_sandwich
<1> QED BY <1>1, <1>2

LEMMA PushiCopylSafe ==
  ASSUME NEW c, ListKept(c), NEW i \in 1 .. Len(c)
  PROVE  Safe(c, i, peephole_pushi_copyl(c, i))
<1>1. CASE ~ (/\ Is(c, i, {"pushi"})
                /\ Is(c, i + 1, {"movl"})
                /\ InnerIs(c, i + 2, {"pushi"})
                /\ SameArg(c, i, i + 2))
  BY <1>1, KeptSafe DEF peephole_pushi_copyl
<1>2. CASE /\ Is(c, i, {"pushi"})
           /\ Is(c, i + 1, {"movl"})
           /\ InnerIs(c, i + 2, {"pushi"})
           /\ SameArg(c, i, i + 2)
  <2>e. PICK b, h : Entry(c, b, h)
    BY DEF ListKept, EntryKept
  <2>r. Resolved(c)
    BY DEF ListKept
  <2>1. /\ c[i + 1].op = "movl" /\ c[i + 2].op = "pushi"
        /\ i + 1 \in 1 .. Len(c) /\ i + 2 \in 1 .. Len(c)
    BY <1>2, <2>r, ListType DEF Is, InnerIs, Inner
  <2>2. i + 1 > b /\ b \in Nat
    BY <2>e, <2>1, Where DEF Early, Lasting, Pushes, IntBinops
  <2> DEFINE d == PutOp(c, i + 1, "copyl")
  <2>3. Rest(c, i + 1, d)
    BY <2>r, <2>1, RestSame, PutOpRest DEF Jumps, Opcode
  <2>4. i + 2 # Len(c)
    BY <2>r, <2>1, NotLast
  <2>5. Safe(c, i, Removed(d, i + 2, i + 2, FALSE))
    <3> HIDE DEF d
    <3>1. i + 2 \in i .. i + 2 /\ i + 2 > b
      BY <2>2
    <3> QED BY <2>e, <2>r, <2>1, <2>2, <2>3, <2>4, <3>1, BehindSafe
  <2> QED BY <1>2, <2>5 DEF peephole_pushi_copyl
<1> QED BY <1>1, <1>2

LEMMA PushpopSafe ==
  ASSUME NEW c, ListKept(c), NEW i \in 1 .. Len(c)
  PROVE  Safe(c, i, peephole_pushpop(c, i))
<1>1. CASE ~ (Is(c, i, Pushes) /\ InnerIs(c, i + 1, {"pop"}))
  BY <1>1, KeptSafe DEF peephole_pushpop
<1>2. CASE Is(c, i, Pushes) /\ InnerIs(c, i + 1, {"pop"})
  <2>e. PICK b, h : Entry(c, b, h)
    BY DEF ListKept, EntryKept
  <2>r. Resolved(c)
    BY DEF ListKept
  <2>1. c[i].op \in Pushes /\ c[i + 1].op = "pop" /\ i + 1 \in 1 .. Len(c)
    BY <1>2, <2>r, ListType DEF Is, InnerIs, Inner
  <2>2. i > b /\ b \in Nat
    <3>1. i + 1 > b /\ b \in Nat
      BY SMTT(30), <2>e, <2>1, Where DEF Early, Lasting, Pushes, IntBinops
    <3>2. i # b
      BY <2>e, <2>1, Where DEF Lasting, Pushes
    <3> QED BY <3>1, <3>2
  <2>3. i + 1 # Len(c)
    BY <2>r, <2>1, NotLast
  <2>4. Safe(c, i, Removed(c, i, i + 1, TRUE))
    <3>1. i \in i .. i + 1 /\ Rest(c, i, c)
      BY <2>r, RestSame
    <3> QED BY <2>e, <2>r, <2>1, <2>2, <2>3, <3>1, BehindSafe
  <2> QED BY <1>2, <2>4 DEF peephole_pushpop
<1> QED BY <1>1, <1>2

LEMMA IncldeclSafe ==
  ASSUME NEW c, ListKept(c), NEW i \in 1 .. Len(c)
  PROVE  Safe(c, i, peephole_incldecl(c, i))
<1>1. CASE ~ (/\ Is(c, i, {"pushl"})
                /\ InnerIs(c, i + 1, {"inc", "dec"})
                /\ InnerIs(c, i + 2, {"movl"})
                /\ SameArg(c, i, i + 2))
  BY <1>1, KeptSafe DEF peephole_incldecl
<1>2. CASE /\ Is(c, i, {"pushl"})
           /\ InnerIs(c, i + 1, {"inc", "dec"})
           /\ InnerIs(c, i + 2, {"movl"})
           /\ SameArg(c, i, i + 2)
  <2>e. PICK b, h : Entry(c, b, h)
    BY DEF ListKept, EntryKept
  <2>r. Resolved(c)
    BY DEF ListKept
  <2>1. /\ c[i].op = "pushl" /\ c[i + 2].op = "movl"
        /\ i + 1 \in 1 .. Len(c) /\ i + 2 \in 1 .. Len(c)
    BY <1>2, <2>r, ListType DEF Is, InnerIs, Inner
  <2>2. i > b /\ b \in Nat
    BY <2>e, <2>1, Where DEF Early, Lasting, Pushes, IntBinops
  <2> DEFINE op == IF c[i + 1].op = "inc" THEN "incl" ELSE "decl"
             d  == PutOp(c, i, op)
  <2>3. op \in Opcode /\ op \notin Jumps
    BY DEF Jumps, Opcode
  <2> HIDE DEF op
  <2>4. Rest(c, i, d)
    BY <2>r, <2>1, <2>3, RestSame, PutOpRest
  <2>5. i + 2 # Len(c)
    BY <2>r, <2>1, NotLast
  <2>6. Safe(c, i, Removed(d, i + 1, i + 2, FALSE))
    <3> HIDE DEF d
    <3>1. i + 1 \in i .. i + 2 /\ i + 1 > b
      BY <2>2
    <3> QED BY <2>e, <2>r, <2>1, <2>2, <2>4, <2>5, <3>1, BehindSafe
  <2> QED BY <1>2, <2>6 DEF peephole_incldecl, op
<1> QED BY <1>1, <1>2

LEMMA DupSafe ==
  ASSUME NEW c, ListKept(c), NEW i \in 1 .. Len(c)
  PROVE  Safe(c, i, peephole_dup(c, i))
<1>1. CASE ~ (/\ Is(c, i, {"copyl", "pushl"})
                /\ InnerIs(c, i + 1, {"pushl"})
                /\ SameArg(c, i, i + 1))
  BY <1>1, KeptSafe DEF peephole_dup
<1>2. CASE /\ Is(c, i, {"copyl", "pushl"})
           /\ InnerIs(c, i + 1, {"pushl"})
           /\ SameArg(c, i, i + 1)
  <2>e. PICK b, h : Entry(c, b, h)
    BY DEF ListKept, EntryKept
  <2>r. Resolved(c)
    BY DEF ListKept
  <2>1. c[i + 1].op = "pushl" /\ i + 1 \in 1 .. Len(c)
    BY <1>2, <2>r, ListType DEF Is, InnerIs, Inner
  <2>2. i + 1 > b /\ b \in Nat
    BY <2>e, <2>1, Where DEF Early, Lasting, Pushes, IntBinops
  <2> DEFINE d == Put(c, i + 1, "dup", None)
  <2>3. "dup" \in Opcode /\ "dup" \notin Jumps /\ None \in Operand
    BY DEF Jumps, Opcode, None, Operand
  <2>4. Rest(c, i + 1, d)
    <3>1. c[i + 1].op \notin {"ret", ".string"} /\ i + 1 >= i + 1
      BY <2>1
    <3> QED BY ONLY <2>r, <2>1, <2>3, <3>1, PutPlain DEF d
  <2> HIDE DEF d
  <2>5. Safe(c, i, Kept(d))
    BY <2>e, <2>r, <2>1, <2>2, <2>4, LaterSafe
  <2> QED BY <1>2, <2>5 DEF peephole_dup, d
<1> QED BY <1>1, <1>2

LEMMA InplaceSafe ==
  ASSUME NEW c, ListKept(c), NEW i \in 1 .. Len(c)
  PROVE  Safe(c, i, peephole_inplace_bool_binops(c, i))
<1>1. CASE ~ (/\ Is(c, i, {"pushl"})
                /\ InnerIs(c, i + 1, {"pushi", "pushf"})
                /\ InnerIs(c, i + 2, BoolBinops))
  BY <1>1, KeptSafe DEF peephole_inplace_bool_binops
<1>2. CASE /\ Is(c, i, {"pushl"})
           /\ InnerIs(c, i + 1, {"pushi", "pushf"})
           /\ InnerIs(c, i + 2, BoolBinops)
  <2>e. PICK b, h : Entry(c, b, h)
    BY DEF ListKept, EntryKept
  <2>r. Resolved(c)
    BY DEF ListKept
  <2>1. c[i].op = "pushl" /\ c[i + 2].op \in BoolBinops /\ i + 2 \in 1 .. Len(c) /\ i # Len(c)
    BY <1>2, <2>r, ListType DEF Is, InnerIs, Inner
  <2>2. i > b /\ b \in Nat
    BY <2>e, <2>1, Where DEF Early, Lasting, Pushes, IntBinops
  <2> DEFINE op == InPlace[c[i + 2].op]
             d  == Put(c, i + 2, op, c[i].arg)
  <2>3. op \in {"eql", "neql", "gtl", "gel", "ltl", "lel", "landl", "lorl",
               "feql", "fneql", "fgtl", "fgel", "fltl", "flel"}
    BY <2>1 DEF InPlace, BoolBinops
  <2> HIDE DEF op
  <2>4. op \in Opcode /\ op \notin Jumps
    BY <2>3 DEF Opcode, Jumps
  <2>5. c[i].arg \in Operand /\ c[i + 2].op \notin {"ret", ".string"}
    <3>1. c[i] \in Instruction
      BY <2>r, ListType
    <3> QED BY <2>1, <3>1 DEF Instruction, BoolBinops
  <2>6. Rest(c, i, d)
    <3>1. i + 2 >= i
      OBVIOUS
    <3> QED BY ONLY <2>r, <2>1, <2>4, <2>5, <3>1, PutPlain, i \in 1 .. Len(c) DEF d
  <2>7. Safe(c, i, Removed(d, i, i, TRUE))
    <3> HIDE DEF d
    <3>1. i \in i .. i /\ i + 2 > b
      BY <2>2
    <3> QED BY <2>e, <2>r, <2>1, <2>2, <2>6, <3>1, BehindSafe
  <2> QED BY <1>2, <2>7 DEF peephole_inplace_bool_binops, d, op
<1> QED BY <1>1, <1>2

LEMMA JccJmpSafe ==
  ASSUME NEW c, ListKept(c), NEW i \in 1 .. Len(c)
  PROVE  Safe(c, i, peephole_jcc_jmp(c, i))
<1>r. Resolved(c)
  BY DEF ListKept
<1>1. CASE ~ (InnerIs(c, i + 1, {"jmp"}) /\ c[i].op \in {"jf", "jt"} /\ i + 1 # Len(c))
  <2>1. InnerIs(c, i + 1, {"jmp"}) => i + 1 # Len(c)
    <3> SUFFICES ASSUME InnerIs(c, i + 1, {"jmp"}) PROVE i + 1 # Len(c)
      OBVIOUS
    <3>1. c[i + 1].op = "jmp" /\ i + 1 \in 1 .. Len(c)
      BY <1>r, ListType DEF Is, InnerIs
    <3> QED BY <1>r, <3>1, NotLast
  <2> QED BY <1>1, <2>1, KeptSafe DEF peephole_jcc_jmp
<1>2. CASE InnerIs(c, i + 1, {"jmp"}) /\ c[i].op \in {"jf", "jt"} /\ i + 1 # Len(c)
  <2>e. PICK b, h : Entry(c, b, h)
    BY DEF ListKept, EntryKept
  <2>1. c[i].op \in {"jf", "jt"} /\ c[i + 1].op = "jmp" /\ i + 1 \in 1 .. Len(c)
    BY <1>2, <1>r, ListType DEF Is, InnerIs, Inner
  <2>2. i >= b /\ b \in Nat
    BY <2>e, <2>1, Where DEF Lasting
  <2> DEFINE op == IF c[i].op = "jf" THEN "jt" ELSE "jf"
             d  == Put(c, i, op, c[i + 1].arg)
  <2>3. op \in Opcode /\ op \in Lasting /\ c[i + 1].op \in Jumps
    BY <2>1 DEF Jumps, Opcode, Lasting
  <2>4. c[i + 1].arg \in Operand /\ c[i].op \notin {"ret", ".string"}
    <3>1. c[i + 1] \in Instruction
      BY <2>1, <1>r, ListType
    <3> QED BY <2>1, <3>1 DEF Instruction
  <2> HIDE DEF op
  <2>5. Rest(c, i, d) /\ d[i].op = op
    <3>1. op \in Jumps => \E k \in 1 .. Len(c) : c[k].op \in Jumps /\ c[k].arg = c[i + 1].arg
      BY <2>1, <2>3
    <3>2. Rest(c, i, c) /\ i >= i
      BY <1>r, RestSame
    <3> QED BY ONLY <2>3, <2>4, <3>1, <3>2, PutRest, i \in 1 .. Len(c) DEF d
  <2>6. Safe(c, i, Removed(d, i + 1, i + 1, FALSE))
    <3> HIDE DEF d
    <3>1. i + 1 \in i .. i + 1 /\ i + 1 > b
      BY <2>2
    <3>2. i > b \/ (i = b /\ d[i].op \in Lasting)
      BY <2>2, <2>3, <2>5
    <3> QED BY <1>2, <1>r, <2>e, <2>1, <2>5, <3>1, <3>2, BehindSafe
  <2> QED BY <1>2, <2>6 DEF peephole_jcc_jmp, d, op
<1> QED BY <1>1, <1>2

LEMMA TailcallSafe ==
  ASSUME NEW c, ListKept(c), NEW i \in 1 .. Len(c)
  PROVE  Safe(c, i, peephole_tailcall(c, i))
<1>1. CASE ~ (Is(c, i, {"call"}) /\ InnerIs(c, i + 1, {"ret"}))
  BY <1>1, KeptSafe DEF peephole_tailcall
<1>2. CASE Is(c, i, {"call"}) /\ InnerIs(c, i + 1, {"ret"})
  <2>e. PICK b, h : Entry(c, b, h)
    BY DEF ListKept, EntryKept
  <2>r. Resolved(c) /\ Len(c) \in Nat
    BY ListType DEF ListKept
  <2>1. c[i].op = "call" /\ InnerIs(c, i + 1, {"ret"}) /\ c[i + 1].op = "ret" /\ i + 1 \in 1 .. Len(c)
    BY <1>2, <2>r DEF Is, InnerIs, Inner
  <2>2. i >= b /\ b \in Nat
    BY <2>e, <2>1, Where DEF Lasting
  <2> DEFINE d == PutOp(c, i, "jmp")
  <2>3. "jmp" \in Opcode /\ "jmp" \in Lasting /\ "call" \in Jumps
    BY DEF Jumps, Opcode, Lasting
  <2>4. Rest(c, i, d) /\ d[i].op = "jmp" /\ \A k \in 1 .. Len(c) : k # i => d[k] = c[k]
    <3>1. Rest(c, i, c) /\ i >= i
      BY <2>r, RestSame
    <3> QED BY ONLY <2>1, <2>3, <3>1, PutOpRest, i \in 1 .. Len(c) DEF d
  <2> HIDE DEF d
  <2>5. d[i + 1] = c[i + 1] /\ Len(d) = Len(c) /\ DOMAIN d = 1 .. Len(c)
    BY <2>1, <2>4, ListType DEF Rest
  <2>6. Safe(c, i, Removed(d, i + 1, i + 1, FALSE))
    <3>1. i + 1 \in i .. i + 1 /\ i + 1 > b
      BY <2>2
    <3>2. i > b \/ (i = b /\ d[i].op \in Lasting)
      BY <2>2, <2>3, <2>4
    <3>3. i + 1 = Len(c) => KnownCrash(d, i)
      <4> SUFFICES ASSUME i + 1 = Len(c) PROVE i + 1 \in EndingRets(d)
        BY <2>4 DEF KnownCrash
      <4>1. \A j \in i + 1 .. Len(d) : j = i + 1
        BY <2>5, <2>r
      <4> QED BY <2>1, <2>5, <4>1 DEF EndingRets, InnerIs, Is, Inner
    <3> QED BY <2>e, <2>r, <2>1, <2>4, <3>1, <3>2, <3>3, BehindSafe
  <2> QED BY <1>2, <2>6 DEF peephole_tailcall, d
<1> QED BY <1>1, <1>2

LEMMA DeadRetSafe ==
  ASSUME NEW c, ListKept(c), NEW i \in 1 .. Len(c)
  PROVE  Safe(c, i, peephole_dead_ret(c, i))
<1>1. CASE ~ (Is(c, i, {"jmp"}) /\ InnerIs(c, i + 1, {"ret"}))
  BY <1>1, KeptSafe DEF peephole_dead_ret
<1>2. CASE Is(c, i, {"jmp"}) /\ InnerIs(c, i + 1, {"ret"})
  <2>e. PICK b, h : Entry(c, b, h)
    BY DEF ListKept, EntryKept
  <2>r. Resolved(c) /\ Len(c) \in Nat /\ DOMAIN c = 1 .. Len(c)
    BY ListType DEF ListKept
  <2>1. c[i].op = "jmp" /\ InnerIs(c, i + 1, {"ret"}) /\ c[i + 1].op = "ret" /\ i + 1 \in 1 .. Len(c)
    BY <1>2, <2>r DEF Is, InnerIs, Inner
  <2>2. i >= b /\ b \in Nat /\ c[i].op \in Lasting
    BY <2>e, <2>1, Where DEF Lasting
  <2>3. Safe(c, i, Removed(c, i + 1, i + 1, FALSE))
    <3>1. i + 1 \in i .. i + 1 /\ i + 1 > b /\ Rest(c, i, c)
      BY <2>2, <2>r, RestSame
    <3>2. i > b \/ (i = b /\ c[i].op \in Lasting)
      BY <2>2
    <3>3. i + 1 = Len(c) => KnownCrash(c, i)
      <4> SUFFICES ASSUME i + 1 = Len(c) PROVE i + 1 \in EndingRets(c)
        BY <2>1 DEF KnownCrash
      <4>1. \A j \in i + 1 .. Len(c) : j = i + 1
        BY <2>r
      <4> QED BY <2>1, <2>r, <4>1 DEF EndingRets
    <3> QED BY <2>e, <2>r, <2>1, <3>1, <3>2, <3>3, BehindSafe
  <2> QED BY <1>2, <2>3 DEF peephole_dead_ret
<1> QED BY <1>1, <1>2

(* What was computed with two operands, the second of them a constant.     *)
LEMMA PairSafe ==
  ASSUME NEW c, ListKept(c), NEW i \in 1 .. Len(c), i + 1 \in 1 .. Len(c),
         c[i].op = "pushi", c[i + 1].op \in {"eq", "add", "sub"},
         NEW op \in {"lnot", "inc", "dec"}
  PROVE  Safe(c, i, Removed(Put(c, i, op, None), i + 1, i + 1, FALSE))
<1>e. PICK b, h : Entry(c, b, h)
  BY DEF ListKept, EntryKept
<1>r. Resolved(c) /\ Len(c) \in Nat
  BY ListType DEF ListKept
<1>j. PICK j \in 1 .. Len(c) : j = i + 1
  OBVIOUS
<1> DEFINE d == Put(c, i, op, None)
<1>1. op \in Opcode /\ op \notin Jumps /\ None \in Operand
  BY DEF Opcode, Jumps, None, Operand
<1>2. Rest(c, i, d) /\ d[i].op = op /\ \A k \in 1 .. Len(c) : k # i => d[k] = c[k]
  <2>1. Rest(c, i, c) /\ i >= i /\ c[i].op \notin {"ret", ".string"}
    BY <1>r, RestSame
  <2> QED BY ONLY <1>1, <2>1, PutRest, i \in 1 .. Len(c) DEF d
<1> HIDE DEF d
<1>3. Resolved(d) /\ Len(d) = Len(c)
  BY <1>2 DEF Rest
<1>4. j # Len(c)
  <2>1. c[j].op \notin {"ret", ".string"}
    BY <1>j
  <2> QED BY <1>r, <2>1, NotLast
<1>5. b \in Nat /\ b <= Len(c) /\ i # b /\ j # b /\ c[b].op \in Lasting
  <2>1. c[i].op \notin Lasting
    BY DEF Lasting
  <2>2. c[j].op \notin Lasting
    BY <1>j DEF Lasting
  <2>3. b \in Nat /\ b <= Len(c) /\ c[b].op \in Lasting
    BY <1>e, Where
  <2> QED BY <2>1, <2>2, <2>3
<1>6. CASE i > b
  <2>1. j \in i .. j /\ j > b
    BY <1>j, <1>5, <1>6
  <2>2. Safe(c, i, Removed(d, j, j, FALSE))
    BY <1>e, <1>r, <1>2, <1>4, <1>6, <2>1, BehindSafe
  <2> QED BY <1>j, <2>2 DEF d
<1>7. CASE i < b
  <2>1. j < b /\ j - 1 = i /\ j - 2 = i - 1 /\ j \in i .. j /\ j >= 2
    BY <1>j, <1>5, <1>7
  <2>2. h[i] = h[i - 1] + 1 /\ h[i - 1] \in Nat
    BY <1>e, <1>7, Heights DEF Pushes
  <2>3. h[j] = h[j - 1] - 1 /\ h[j - 1] >= 2
    <3>1. c[j].op \in IntBinops
      BY <1>j DEF IntBinops
    <3> QED BY <1>e, <2>1, <3>1, Heights
  <2>4. Computing(d[j - 1].op, h[j - 2], h[j])
    <3>1. h[j] = h[i - 1] /\ h[i - 1] >= 1
      BY <2>1, <2>2, <2>3
    <3> QED BY <1>2, <2>1, <3>1 DEF Computing
  <2>5. /\ \A k \in 1 .. b - 1 : k < j - 1 \/ k > j => d[k].op = c[k].op
        /\ d[b].op \in Lasting
    <3>1. b \in 1 .. Len(c) /\ \A k \in 1 .. b - 1 : k \in 1 .. Len(c)
      BY <1>5, <1>7
    <3> QED BY <1>2, <1>5, <2>1, <3>1
  <2>6. Safe(c, i, Removed(d, j, j, FALSE))
    BY <1>e, <1>r, <1>3, <2>1, <2>4, <2>5, RemovedInside
  <2> QED BY <1>j, <2>6 DEF d
<1>8. i > b \/ i < b
  BY ONLY <1>5, i \in 1 .. Len(c)
<1> QED BY <1>6, <1>7, <1>8, Zenon

LEMMA LogicnotSafe ==
  ASSUME NEW c, ListKept(c), NEW i \in 1 .. Len(c)
  PROVE  Safe(c, i, peephole_logicnot(c, i))
<1>1. CASE ~ (Is(c, i, {"pushi"}) /\ IsImm(c, i, {0}) /\ InnerIs(c, i + 1, {"eq"}))
  BY <1>1, KeptSafe DEF peephole_logicnot
<1>2. CASE Is(c, i, {"pushi"}) /\ IsImm(c, i, {0}) /\ InnerIs(c, i + 1, {"eq"})
  <2>1. c[i].op = "pushi" /\ c[i + 1].op \in {"eq", "add", "sub"} /\ i + 1 \in 1 .. Len(c)
    BY <1>2, ListType DEF ListKept, Is, InnerIs, Inner
  <2> QED BY <1>2, <2>1, PairSafe DEF peephole_logicnot
<1> QED BY <1>1, <1>2

LEMMA IncdecSafe ==
  ASSUME NEW c, ListKept(c), NEW i \in 1 .. Len(c)
  PROVE  Safe(c, i, peephole_incdec(c, i))
<1>1. CASE ~ (Is(c, i, {"pushi"}) /\ IsImm(c, i, {1, -1}) /\ InnerIs(c, i + 1, {"add", "sub"}))
  BY <1>1, KeptSafe DEF peephole_incdec
<1>2. CASE Is(c, i, {"pushi"}) /\ IsImm(c, i, {1, -1}) /\ InnerIs(c, i + 1, {"add", "sub"})
  <2>1. c[i].op = "pushi" /\ c[i + 1].op \in {"eq", "add", "sub"} /\ i + 1 \in 1 .. Len(c)
    BY <1>2, ListType DEF ListKept, Is, InnerIs, Inner
  <2> DEFINE up == IsImm(c, i, {1}) <=> c[i + 1].op = "add"
             op == IF up THEN "inc" ELSE "dec"
  <2>2. op \in {"lnot", "inc", "dec"}
    OBVIOUS
  <2> HIDE DEF op
  <2>3. Safe(c, i, Removed(Put(c, i, op, None), i + 1, i + 1, FALSE))
    BY <2>1, <2>2, PairSafe
  <2> QED BY <1>2, <2>3 DEF peephole_incdec, op
<1> QED BY <1>1, <1>2

LEMMA AddsubZeroSafe ==
  ASSUME NEW c, ListKept(c), NEW i \in 1 .. Len(c)
  PROVE  Safe(c, i, peephole_addsub_zero(c, i))
<1>1. CASE ~ (/\ InnerIs(c, i, {"pushi"})
                /\ IsImm(c, i, {0})
                /\ InnerIs(c, i + 1, {"add", "sub"}))
  BY <1>1, KeptSafe DEF peephole_addsub_zero
<1>2. CASE /\ InnerIs(c, i, {"pushi"})
           /\ IsImm(c, i, {0})
           /\ InnerIs(c, i + 1, {"add", "sub"})
  <2>e. PICK b, h : Entry(c, b, h)
    BY DEF ListKept, EntryKept
  <2>r. Resolved(c) /\ Len(c) \in Nat
    BY ListType DEF ListKept
  <2>1. c[i].op = "pushi" /\ c[i + 1].op \in {"add", "sub"} /\ i + 1 \in 1 .. Len(c)
    BY <1>2, <2>r DEF Is, InnerIs, Inner
  <2>2. PICK j \in 1 .. Len(c) : j = i + 1
    BY <2>1
  <2>3. j # Len(c)
    BY <2>r, <2>1, <2>2, NotLast
  <2>4. b \in Nat /\ i # b /\ j # b /\ c[b].op \in Lasting /\ i \in i .. j
    BY <2>e, <2>1, <2>2, Where DEF Lasting
  <2>5. CASE i > b
    <3>1. Rest(c, i, c)
      BY <2>r, RestSame
    <3>2. Safe(c, i, Removed(c, i, j, TRUE))
      BY <2>e, <2>r, <2>3, <2>4, <2>5, <3>1, BehindSafe
    <3> QED BY <1>2, <2>2, <3>2 DEF peephole_addsub_zero
  <2>6. CASE i < b
    <3>1. j < b /\ j - 1 = i
      BY <2>2, <2>4, <2>6
    <3>2. h[i] = h[i - 1] + 1 /\ h[i - 1] \in Nat
      BY <2>e, <2>1, <2>6, Heights DEF Pushes
    <3>3. h[j] = h[j - 1] - 1 /\ h[j - 1] >= 2
      BY <2>e, <2>1, <2>2, <3>1, Heights DEF IntBinops
    <3>4. h[j] = h[i - 1] /\ h[i - 1] >= 1
      BY <3>1, <3>2, <3>3
    <3>5. Safe(c, i, Removed(c, i, j, TRUE))
      BY <2>e, <2>r, <2>4, <3>1, <3>4, CutInside
    <3> QED BY <1>2, <2>2, <3>5 DEF peephole_addsub_zero
  <2> QED BY <2>4, <2>5, <2>6
<1> QED BY <1>1, <1>2

LEMMA JumpnotSafe ==
  ASSUME NEW c, ListKept(c), NEW i \in 1 .. Len(c)
  PROVE  Safe(c, i, peephole_jumpnot(c, i))
<1>1. CASE ~ (InnerIs(c, i, {"lnot"}) /\ Is(c, i + 1, {"jf", "jt"}))
  BY <1>1, KeptSafe DEF peephole_jumpnot
<1>2. CASE InnerIs(c, i, {"lnot"}) /\ Is(c, i + 1, {"jf", "jt"})
  <2>e. PICK b, h : Entry(c, b, h)
    BY DEF ListKept, EntryKept
  <2>r. Resolved(c) /\ Len(c) \in Nat
    BY ListType DEF ListKept
  <2>1. c[i].op = "lnot" /\ c[i + 1].op \in {"jf", "jt"} /\ i + 1 \in 1 .. Len(c)
    BY <1>2, <2>r DEF Is, InnerIs, Inner
  <2>j. PICK j \in 1 .. Len(c) : j = i + 1
    BY <2>1
  <2> DEFINE op == IF c[i + 1].op = "jf" THEN "jt" ELSE "jf"
             d  == PutOp(c, j, op)
  <2>2. /\ op \in Opcode /\ op \in Lasting /\ c[j].op \in Jumps /\ c[j].op \in Lasting
        /\ c[j].op \notin {"ret", ".string"}
    BY <2>1, <2>j DEF Opcode, Lasting, Jumps
  <2>3. peephole_jumpnot(c, i) = Removed(d, i, i, TRUE)
    BY <1>2, <2>j DEF peephole_jumpnot
  <2> HIDE DEF op
  <2>4. Rest(c, i, d) /\ d[j].op = op /\ \A k \in 1 .. Len(c) : k # j => d[k] = c[k]
    <3>1. Rest(c, i, c) /\ j >= i
      BY <2>r, <2>j, RestSame
    <3> QED BY ONLY <2>2, <3>1, PutOpRest, i \in 1 .. Len(c), j \in 1 .. Len(c) DEF d
  <2> HIDE DEF d
  <2>5. b \in Nat /\ b <= Len(c) /\ i # b /\ j >= b /\ i # Len(c) /\ c[b].op \in Lasting /\ i \in i .. i
    BY <2>e, <2>r, <2>1, <2>2, <2>j, Where DEF Lasting
  <2>6. Safe(c, i, Removed(d, i, i, TRUE))
    <3>1. CASE i > b
      BY <2>e, <2>r, <2>4, <2>5, <3>1, BehindSafe
    <3>2. CASE i < b
      <4>1. j = b
        BY <2>j, <2>5, <3>2
      <4>2. Resolved(d) /\ Len(d) = Len(c)
        BY <2>4 DEF Rest
      <4>3. h[i] = h[i - 1] /\ h[i - 1] >= 1
        BY <2>e, <2>1, <3>2, Heights
      <4>4. (\A k \in 1 .. b - 1 : d[k].op = c[k].op) /\ d[b].op \in Lasting
        <5>1. \A k \in 1 .. b - 1 : k \in 1 .. Len(c) /\ k # j
          BY <2>5, <4>1
        <5> QED BY <2>2, <2>4, <4>1, <5>1
      <4> QED BY <2>e, <2>r, <2>5, <3>2, <4>2, <4>3, <4>4, CutInside
    <3>3. i > b \/ i < b
      BY <2>5
    <3> QED BY <3>1, <3>2, <3>3, Zenon
  <2> QED BY <2>3, <2>6
<1> QED BY <1>1, <1>2

LEMMA NormalizeLogicSafe ==
  ASSUME NEW c, ListKept(c), NEW i \in 1 .. Len(c)
  PROVE  Safe(c, i, peephole_normalize_logic(c, i))
<1>1. CASE ~ (Is(c, i, {"neq", "fneq", "strneq"}) /\ InnerIs(c, i + 1, {"jf", "jt"}))
  BY <1>1, KeptSafe DEF peephole_normalize_logic
<1>2. CASE Is(c, i, {"neq", "fneq", "strneq"}) /\ InnerIs(c, i + 1, {"jf", "jt"})
  <2>e. PICK b, h : Entry(c, b, h)
    BY DEF ListKept, EntryKept
  <2>r. Resolved(c) /\ Len(c) \in Nat
    BY ListType DEF ListKept
  <2>1. /\ c[i].op \in {"neq", "fneq", "strneq"} /\ c[i + 1].op \in {"jf", "jt"}
        /\ i + 1 \in 1 .. Len(c)
    BY <1>2, <2>r DEF Is, InnerIs, Inner
  <2>j. PICK j \in 1 .. Len(c) : j = i + 1
    BY <2>1
  <2> DEFINE equal == Opposite[c[i].op]
             op == IF c[i + 1].op = "jf" THEN "jt" ELSE "jf"
             d  == PutOp(c, i, equal)
             e  == PutOp(d, j, op)
  <2>2. /\ op \in Opcode /\ op \in Lasting /\ c[j].op \in Jumps /\ c[j].op \in Lasting
        /\ c[j].op \notin {"ret", ".string"} /\ c[i].op \notin {"ret", ".string"}
    BY <2>1, <2>j DEF Opcode, Lasting, Jumps
  (* The integers' comparison may be of the entry, the others end it.      *)
  <2>o. /\ c[i].op = "neq" => equal = "eq"
        /\ c[i].op # "neq" => equal \in {"feq", "streq"}
    BY <2>1 DEF Opposite
  <2>3. peephole_normalize_logic(c, i) = Kept(e)
    BY <1>2, <2>j DEF peephole_normalize_logic
  <2> HIDE DEF op, equal
  <2>q. equal \in Opcode /\ equal \notin Jumps
    BY <2>o DEF Opcode, Jumps, IntBinops, BoolBinops
  <2>4. Rest(c, i, d) /\ d[i].op = equal /\ \A k \in 1 .. Len(c) : k # i => d[k] = c[k]
    <3>1. Rest(c, i, c) /\ i >= i
      BY <2>r, RestSame
    <3> QED BY ONLY <2>2, <2>q, <3>1, PutOpRest, i \in 1 .. Len(c) DEF d
  <2> HIDE DEF d
  <2>5. d[j] = c[j] /\ i # j /\ j >= i
    BY <2>j, <2>4
  <2>6. Rest(c, i, e) /\ e[j].op = op /\ \A k \in 1 .. Len(c) : k # j => e[k] = d[k]
    <3>1. d[j].op \in Jumps /\ d[j].op \notin {"ret", ".string"}
      BY <2>2, <2>5
    <3> QED BY ONLY <2>2, <2>4, <2>5, <3>1, PutOpRest, i \in 1 .. Len(c), j \in 1 .. Len(c) DEF e
  <2> HIDE DEF e
  <2>7. b \in Nat /\ b >= 1 /\ b <= Len(c) /\ j >= b /\ c[b].op \in Lasting
    BY <2>e, <2>r, <2>2, <2>j, Where
  <2>8. e[i].op = equal
    BY <2>4, <2>5, <2>6
  <2>9. CASE i > b
    BY <2>3, <2>e, <2>r, <2>6, <2>7, <2>9, LaterSafe
  <2>10. CASE i = b
    <3>1. equal \in Lasting
      <4>1. c[i].op # "neq"
        BY <2>7, <2>10 DEF Lasting
      <4> QED BY <2>o, <4>1 DEF Lasting
    <3>2. i = b /\ e[i].op \in Lasting
      BY <2>8, <2>10, <3>1
    <3> QED BY <2>3, <2>e, <2>r, <2>6, <3>2, LaterSafe
  <2>11. CASE i < b
    <3>1. j = b
      BY <2>j, <2>7, <2>11
    <3>2. c[i].op = "neq"
      <4>1. c[i].op \notin Lasting
        BY <2>e, <2>7, <2>11, Where
      <4> QED BY <2>1, <4>1 DEF Lasting
    <3>3. h[i] = h[i - 1] - 1 /\ h[i - 1] >= 2 /\ equal = "eq"
      BY <2>e, <2>o, <2>11, <3>2, Heights DEF IntBinops
    <3>4. ASSUME NEW k \in 1 .. b - 1
          PROVE  Computing(e[k].op, h[k - 1], h[k])
      <4>1. k \in 1 .. Len(c) /\ k # j /\ k < b
        BY <2>7, <3>1
      <4>2. CASE k = i
        <5>1. e[k].op = "eq"
          BY <2>8, <3>3, <4>2
        <5> QED BY <3>3, <4>2, <5>1 DEF Computing, IntBinops
      <4>3. CASE k # i
        <5>1. e[k].op = c[k].op
          BY <2>4, <2>6, <4>1, <4>3
        <5>2. Computing(c[k].op, h[k - 1], h[k])
          BY <2>e, <4>1, Where
        <5> QED BY <5>1, <5>2
      <4> QED BY <4>2, <4>3
    <3>5. e[b].op \in Lasting /\ Resolved(e) /\ Len(e) = Len(c)
      BY <2>2, <2>6, <3>1 DEF Rest
    <3>6. ListKept(e)
      BY <2>e, <2>r, <3>4, <3>5, RewrittenInside
    <3> QED BY <2>3, <3>5, <3>6, KeptSafe
  <2>12. i > b \/ i = b \/ i < b
    BY <2>7
  <2> QED BY <2>9, <2>10, <2>11, <2>12, Zenon
<1> QED BY <1>1, <1>2

(* The value of two constants is an integer: bits, factors of a shift, and *)
(* the operators.                                                          *)
LEMMA AndInt ==
  ASSUME NEW x \in Int, NEW y \in Int
  PROVE  BitAnd(x, y) \in Int
<1>1. ASSUME NEW u \in Int, NEW v \in Int
      PROVE  And1(u, v) \in Int
  <2>1. u % 2 \in Int /\ v % 2 \in Int
    OBVIOUS
  <2> QED BY <2>1 DEF And1
<1>2. ASSUME NEW u \in Int, NEW v \in Int
      PROVE  And2(u, v) \in Int
  <2>1. u \div 2 \in Int /\ v \div 2 \in Int
    OBVIOUS
  <2>2. And1(u, v) \in Int /\ And1(u \div 2, v \div 2) \in Int
    BY <1>1, <2>1
  <2> QED BY <2>2 DEF And2
<1>3. ASSUME NEW u \in Int, NEW v \in Int
      PROVE  And4(u, v) \in Int
  <2>1. u \div 4 \in Int /\ v \div 4 \in Int
    OBVIOUS
  <2>2. And2(u, v) \in Int /\ And2(u \div 4, v \div 4) \in Int
    BY <1>2, <2>1
  <2> QED BY <2>2 DEF And4
<1>4. ASSUME NEW u \in Int, NEW v \in Int
      PROVE  And8(u, v) \in Int
  <2>1. u \div 16 \in Int /\ v \div 16 \in Int
    OBVIOUS
  <2>2. And4(u, v) \in Int /\ And4(u \div 16, v \div 16) \in Int
    BY <1>3, <2>1
  <2> QED BY <2>2 DEF And8
<1>5. ASSUME NEW u \in Int, NEW v \in Int
      PROVE  And16(u, v) \in Int
  <2>1. u \div 256 \in Int /\ v \div 256 \in Int
    OBVIOUS
  <2>2. And8(u, v) \in Int /\ And8(u \div 256, v \div 256) \in Int
    BY <1>4, <2>1
  <2> QED BY <2>2 DEF And16
<1>6. x \div 65536 \in Int /\ y \div 65536 \in Int
  OBVIOUS
<1>7. And16(x, y) \in Int /\ And16(x \div 65536, y \div 65536) \in Int
  BY <1>5, <1>6
<1> QED BY <1>7 DEF BitAnd

LEMMA ScalePositive ==
  ASSUME NEW y \in Int
  PROVE  Scale(y) \in Nat \ {0}
<1>1. /\ Factor(y, 1, 2) \in {1, 2} /\ Factor(y, 2, 4) \in {1, 4}
      /\ Factor(y, 4, 16) \in {1, 16} /\ Factor(y, 8, 256) \in {1, 256}
      /\ Factor(y, 16, 65536) \in {1, 65536}
  BY DEF Factor
<1>2. ASSUME NEW a \in Nat \ {0}, NEW b \in Nat \ {0}
      PROVE  a * b \in Nat \ {0}
  OBVIOUS
<1>3. Factor(y, 1, 2) * Factor(y, 2, 4) \in Nat \ {0}
  BY <1>1, <1>2
<1>4. Factor(y, 1, 2) * Factor(y, 2, 4) * Factor(y, 4, 16) \in Nat \ {0}
  BY <1>1, <1>2, <1>3
<1>5. Factor(y, 1, 2) * Factor(y, 2, 4) * Factor(y, 4, 16) * Factor(y, 8, 256) \in Nat \ {0}
  BY <1>1, <1>2, <1>4
<1> QED BY <1>1, <1>2, <1>5 DEF Scale

LEMMA EvalInt ==
  ASSUME NEW op \in IntBinops, NEW x \in Int, NEW y \in Int, ~ Undefined(op, y)
  PROVE  eval_int_binop(op, x, y) \in Int
<1>1. Abs(x) \in Int /\ Abs(y) \in Int /\ Sign(x) \in Int /\ Sign(y) \in Int
      /\ (y # 0 => Abs(y) > 0)
  BY DEF Abs, Sign
<1>2. CASE op \in {"idiv", "mod"}
  <2>1. Abs(y) > 0
    BY <1>1, <1>2 DEF Undefined
  <2>2. Abs(x) \div Abs(y) \in Int /\ Abs(x) % Abs(y) \in Int
    BY <1>1, <2>1
  <2>3. CASE op = "idiv"
    BY <1>1, <2>2, <2>3 DEF eval_int_binop
  <2>4. CASE op = "mod"
    BY <1>1, <2>2, <2>4 DEF eval_int_binop
  <2> QED BY <1>2, <2>3, <2>4
<1>3. CASE op \in {"and", "or", "xor"}
  <2>1. BitAnd(x, y) \in Int
    BY AndInt
  <2> QED BY <1>3, <2>1 DEF eval_int_binop
<1>4. CASE op \in {"shl", "shr"}
  <2>1. Scale(y) \in Int /\ Scale(y) > 0
    BY ScalePositive
  <2>2. x * Scale(y) \in Int /\ x \div Scale(y) \in Int
    BY <2>1
  <2> QED BY <1>4, <2>2 DEF eval_int_binop
<1>5. CASE op \in {"add", "sub", "mul"}
  BY <1>5 DEF eval_int_binop
<1>6. CASE op \in {"eq", "neq", "gt", "ge", "lt", "le", "land", "lor"}
  BY <1>6 DEF eval_int_binop, Flag
<1>7. op # "inlv"
  BY DEF Undefined
<1> QED BY <1>2, <1>3, <1>4, <1>5, <1>6, <1>7 DEF IntBinops

LEMMA ConstevalIntSafe ==
  ASSUME NEW c, ListKept(c), NEW i \in 1 .. Len(c)
  PROVE  Safe(c, i, peephole_consteval_int(c, i))
<1> DEFINE guard ==
      /\ Is(c, i, {"pushi"}) /\ InnerIs(c, i + 1, {"pushi"})
      /\ InnerIs(c, i + 2, IntBinops)
      /\ c[i].arg[1] = "int" /\ c[i + 1].arg[1] = "int"
           by0 == Undefined(c[i + 2].op, c[i + 1].arg[2])
<1>r. Resolved(c) /\ Len(c) \in Nat /\ c \in Seq(Instruction)
  BY ListType DEF ListKept
<1>1. CASE ~ guard
  BY <1>1, KeptSafe DEF peephole_consteval_int
<1>2. CASE guard /\ by0
  <2>1. /\ Is(c, i, {"pushi"}) /\ InnerIs(c, i + 1, {"pushi"})
        /\ InnerIs(c, i + 2, {c[i + 2].op}) /\ i + 1 \in 1 .. Len(c)
    BY <1>2, <1>r DEF InnerIs, Is
  <2>2. KnownCrash(c, i)
    <3>1. CASE c[i + 2].op = "inlv"
      BY <2>1, <3>1 DEF KnownCrash
    <3>2. CASE c[i + 2].op \in {"idiv", "mod"} /\ c[i + 1].arg[2] = 0
      <4>0. c[i + 1] \in Instruction
        BY <1>r, <2>1
      <4>1. c[i + 1].arg \in Operand
        BY <4>0 DEF Instruction
      <4>2. c[i + 1].arg = <<"int", 0>>
        BY <1>2, <3>2, <4>1 DEF Operand
      <4>3. IsImm(c, i + 1, {0}) /\ InnerIs(c, i + 2, {"idiv", "mod"})
        BY <2>1, <3>2, <4>2 DEF IsImm, Imm, InnerIs, Is
      <4> QED BY <2>1, <4>3 DEF KnownCrash
    <3> QED BY <1>2, <3>1, <3>2 DEF Undefined
  <2>3. Safe(c, i, Crash(c))
    BY <2>2, <1>r DEF Safe, Crash
  <2> QED BY <1>2, <2>3 DEF peephole_consteval_int
<1>3. CASE guard /\ ~ by0
  <2>e. PICK b, h : Entry(c, b, h)
    BY DEF ListKept, EntryKept
  <2>1. /\ c[i].op = "pushi" /\ c[i + 1].op = "pushi" /\ c[i + 2].op \in IntBinops
        /\ i + 1 \in 1 .. Len(c) /\ i + 2 \in 1 .. Len(c)
    BY <1>3, <1>r DEF Is, InnerIs
  <2> DEFINE x == c[i].arg[2]
             y == c[i + 1].arg[2]
             v == eval_int_binop(c[i + 2].op, x, y)
             d == Put(c, i, "pushi", Imm(v))
  <2>2. x \in Int /\ y \in Int
    <3>1. c[i] \in Instruction /\ c[i + 1] \in Instruction
      BY <2>1, <1>r
    <3>2. c[i].arg \in Operand /\ c[i + 1].arg \in Operand
      BY <3>1 DEF Instruction
    <3> QED BY <1>3, <3>2 DEF Operand
  <2>3. ~ Undefined(c[i + 2].op, y)
    BY <1>3
  <2>4. v \in Int
    BY <2>1, <2>2, <2>3, EvalInt
  <2>5. peephole_consteval_int(c, i) = Removed(d, i + 1, i + 2, FALSE)
    BY <1>3 DEF peephole_consteval_int
  <2> HIDE DEF v, guard, by0
  <2>6. "pushi" \in Opcode /\ "pushi" \notin Jumps /\ Imm(v) \in Operand
    BY <2>4 DEF Jumps, Opcode, Pushes, Imm, Operand
  <2>7. Rest(c, i, d) /\ d[i].op = "pushi" /\ \A k \in 1 .. Len(c) : k # i => d[k] = c[k]
    <3>1. i >= i /\ c[i].op \notin {"ret", ".string"}
      BY <2>1
    <3> QED BY ONLY <1>r, <2>6, <3>1, PutPlain, i \in 1 .. Len(c) DEF d
  <2> HIDE DEF d
  <2>8. PICK m \in 1 .. Len(c), n \in 1 .. Len(c) : m = i + 1 /\ n = i + 2
    BY <2>1
  <2>9. n # Len(c) /\ c[m].op = "pushi" /\ c[n].op \in IntBinops
    <3>1. c[m].op = "pushi" /\ c[n].op \in IntBinops
      BY ONLY <2>1, <2>8
    <3>2. c[n].op \notin {"ret", ".string"}
      BY ONLY <3>1 DEF IntBinops
    <3>3. n < Len(c)
      BY ONLY <1>r, <3>2, NotLast, n \in 1 .. Len(c)
    <3> QED BY ONLY <1>r, <3>1, <3>3, n \in 1 .. Len(c)
  <2>10. /\ b \in Nat /\ b >= 1 /\ b <= Len(c) /\ i # b /\ m # b /\ n # b
         /\ c[b].op \in Lasting /\ m \in i .. n
    BY <2>e, <1>r, <2>1, <2>8, <2>9, Where DEF Lasting, IntBinops
  <2>11. Safe(c, i, Removed(d, m, n, FALSE))
    <3>1. CASE i > b
      <4>1. m > b
        BY <2>8, <2>10, <3>1
      <4> QED BY <2>e, <1>r, <2>7, <2>9, <2>10, <3>1, <4>1, BehindSafe
    <3>2. CASE i < b
      <4>1. m < b /\ n < b /\ m - 1 = i /\ n - 1 = m
        BY <2>8, <2>10, <3>2
      <4>2. h[i] = h[i - 1] + 1 /\ h[i - 1] \in Nat
        BY SMTT(30), <2>e, <2>1, <3>2, Heights DEF Pushes
      <4>3. h[m] = h[m - 1] + 1
        BY SMTT(30), <2>e, <2>9, <4>1, Heights DEF Pushes
      <4>4. h[n] = h[n - 1] - 1
        BY <2>e, <2>9, <4>1, Heights
      <4>5. h[n] = h[m - 1] /\ h[m - 1] >= 1
        BY <4>1, <4>2, <4>3, <4>4
      <4>6. (\A k \in 1 .. b - 1 : d[k].op = c[k].op) /\ d[b].op \in Lasting
        <5>1. \A k \in 1 .. b : k \in 1 .. Len(c)
          BY <2>10
        <5> QED BY <2>1, <2>7, <2>10, <5>1
      <4>7. Resolved(d) /\ Len(d) = Len(c)
        BY <2>7 DEF Rest
      <4> QED BY <2>e, <1>r, <2>10, <4>1, <4>5, <4>6, <4>7, CutInside
    <3>3. i > b \/ i < b
      BY <2>10
    <3> QED BY <3>1, <3>2, <3>3, Zenon
  <2> QED BY <2>5, <2>8, <2>11
<1> QED BY <1>1, <1>2, <1>3

LEMMA SmallPushiSafe ==
  ASSUME NEW c, ListKept(c), NEW i \in 1 .. Len(c)
  PROVE  Safe(c, i, peephole_small_pushi(c, i))
<1>1. CASE ~ (Is(c, i, {"pushi"}) /\ c[i].arg[1] = "int" /\ c[i].arg[2] \in -128 .. 126)
  BY <1>1, KeptSafe DEF peephole_small_pushi
<1>2. CASE Is(c, i, {"pushi"}) /\ c[i].arg[1] = "int" /\ c[i].arg[2] \in -128 .. 126
  <2>e. PICK b, h : Entry(c, b, h)
    BY DEF ListKept, EntryKept
  <2>r. Resolved(c) /\ Len(c) \in Nat
    BY ListType DEF ListKept
  <2>1. c[i].op = "pushi"
    BY <1>2 DEF Is
  <2> DEFINE d == PutOp(c, i, "pushib")
  <2>2. "pushib" \in Opcode /\ "pushib" \notin Jumps /\ c[i].op \notin {"ret", ".string"}
    BY <2>1 DEF Opcode, Jumps, Pushes
  <2>3. Rest(c, i, d) /\ d[i].op = "pushib" /\ \A k \in 1 .. Len(c) : k # i => d[k] = c[k]
    <3>1. Rest(c, i, c) /\ i >= i
      BY <2>r, RestSame
    <3> QED BY ONLY <2>2, <3>1, PutOpRest, i \in 1 .. Len(c) DEF d
  <2>4. peephole_small_pushi(c, i) = Kept(d)
    BY <1>2 DEF peephole_small_pushi
  <2> HIDE DEF d
  <2>5. b \in Nat /\ b >= 1 /\ b <= Len(c) /\ i # b /\ c[b].op \in Lasting
    BY <2>e, <2>1, Where DEF Lasting
  <2>6. ASSUME NEW k \in 1 .. b - 1
        PROVE  Computing(d[k].op, h[k - 1], h[k])
    <3>1. k \in 1 .. Len(c) /\ k < b
      BY <2>5
    <3>2. Computing(c[k].op, h[k - 1], h[k])
      BY <2>e, <3>1, Where
    <3>3. CASE k = i
      BY <2>1, <2>3, <3>2, <3>3 DEF Computing, Pushes, IntBinops
    <3>4. CASE k # i
      BY <2>3, <3>1, <3>2, <3>4
    <3> QED BY <3>3, <3>4
  <2>7. d[b].op \in Lasting /\ Resolved(d) /\ Len(d) = Len(c)
    BY <2>3, <2>5 DEF Rest
  <2>8. ListKept(d)
    BY <2>e, <2>r, <2>6, <2>7, RewrittenInside
  <2> QED BY <2>4, <2>7, <2>8, KeptSafe
<1> QED BY <1>1, <1>2

LEMMA LnotCmovSafe ==
  ASSUME NEW c, ListKept(c), NEW i \in 1 .. Len(c)
  PROVE  Safe(c, i, peephole_lnot_cmov(c, i))
<1>1. CASE ~ (/\ Is(c, i, {"lnot"})
                /\ Is(c, i + 1, Pushes)
                /\ Is(c, i + 2, Pushes)
                /\ Is(c, i + 3, {"cmov"}))
  BY <1>1, KeptSafe DEF peephole_lnot_cmov
<1>2. CASE /\ Is(c, i, {"lnot"})
           /\ Is(c, i + 1, Pushes)
           /\ Is(c, i + 2, Pushes)
           /\ Is(c, i + 3, {"cmov"})
  <2>e. PICK b, h : Entry(c, b, h)
    BY DEF ListKept, EntryKept
  <2>r. Resolved(c) /\ Len(c) \in Nat /\ c \in Seq(Instruction)
    BY ListType DEF ListKept
  <2>1. /\ c[i].op = "lnot" /\ c[i + 1].op \in Pushes /\ c[i + 2].op \in Pushes
        /\ i + 1 \in 1 .. Len(c) /\ i + 2 \in 1 .. Len(c) /\ i # Len(c)
    BY <1>2, <2>r DEF Is
  <2>2. PICK m \in 1 .. Len(c), n \in 1 .. Len(c) : m = i + 1 /\ n = i + 2
    BY <2>1
  <2> DEFINE x == c[m]
             y == c[n]
             d == Put(c, m, x.op, y.arg)
             e == Put(d, n, y.op, x.arg)
  <2>3. /\ x.op \in Opcode /\ x.op \notin Jumps /\ x.arg \in Operand /\ x.op \notin {"ret", ".string"}
        /\ y.op \in Opcode /\ y.op \notin Jumps /\ y.arg \in Operand /\ y.op \notin {"ret", ".string"}
    <3>1. x \in Instruction /\ y \in Instruction
      BY <2>r
    <3>2. x.op \in Pushes /\ y.op \in Pushes
      BY <2>1, <2>2
    <3> HIDE DEF x, y
    <3> QED BY <3>1, <3>2 DEF Instruction, Jumps, Pushes
  <2>4. peephole_lnot_cmov(c, i) = Removed(e, i, i, TRUE)
    BY <1>2, <2>2 DEF peephole_lnot_cmov
  <2>5. Rest(c, i, d) /\ d[m].op = x.op /\ \A k \in 1 .. Len(c) : k # m => d[k] = c[k]
    <3>1. Rest(c, i, c) /\ m >= i
      BY <2>r, <2>2, RestSame
    <3> QED BY ONLY <2>3, <3>1, PutRest, i \in 1 .. Len(c), m \in 1 .. Len(c) DEF d
  <2> HIDE DEF d
  <2>6. d[n] = c[n] /\ m # n /\ n >= i /\ i # m /\ i # n
    BY <2>2, <2>5
  <2>7. Rest(c, i, e) /\ e[n].op = y.op /\ \A k \in 1 .. Len(c) : k # n => e[k] = d[k]
    <3>1. d[n].op \notin {"ret", ".string"}
      BY <2>3, <2>6
    <3> QED BY ONLY <2>3, <2>5, <2>6, <3>1, PutRest, i \in 1 .. Len(c), n \in 1 .. Len(c) DEF e
  <2> HIDE DEF e
  <2>8. \A k \in 1 .. Len(c) : e[k].op = c[k].op
    BY <2>5, <2>6, <2>7
  <2>9. b \in Nat /\ b >= 1 /\ b <= Len(c) /\ i # b /\ c[b].op \in Lasting /\ i \in i .. i
    BY <2>e, <2>1, Where DEF Lasting
  <2>10. Safe(c, i, Removed(e, i, i, TRUE))
    <3>1. CASE i > b
      BY <2>e, <2>r, <2>1, <2>7, <2>9, <3>1, BehindSafe
    <3>2. CASE i < b
      <4>1. h[i] = h[i - 1] /\ h[i - 1] >= 1
        BY <2>e, <2>1, <3>2, Heights
      <4>2. (\A k \in 1 .. b - 1 : e[k].op = c[k].op) /\ e[b].op \in Lasting
        <5>1. \A k \in 1 .. b : k \in 1 .. Len(c)
          BY <2>9
        <5> QED BY <2>8, <2>9, <5>1
      <4>3. Resolved(e) /\ Len(e) = Len(c)
        BY <2>7 DEF Rest
      <4> QED BY <2>e, <2>r, <2>9, <3>2, <4>1, <4>2, <4>3, CutInside
    <3>3. i > b \/ i < b
      BY <2>9
    <3> QED BY <3>1, <3>2, <3>3, Zenon
  <2> QED BY <2>4, <2>10
<1> QED BY <1>1, <1>2

----------------------------------------------------------------------------
(* The passes that look at a run of instructions.                          *)
LEMMA RunEnds ==
  ASSUME NEW L \in Nat, NEW S \in SUBSET (1 .. L), NEW i \in S, NEW n, n = LastOfRun(i, S)
  PROVE  n \in S /\ n >= i /\ i .. n \subseteq S /\ n + 1 \notin S
<1> DEFINE T == {k \in Nat : k >= i /\ k \notin S}
<1>1. T \subseteq Nat /\ T # {}
  <2>1. L + 1 \in T
    OBVIOUS
  <2> QED BY <2>1
<1>2. PICK x \in T : \A y \in T : x <= y
  BY <1>1, NatMin
<1>3. x \in Nat /\ x > i /\ x \notin S /\ i \in Nat
  BY <1>2
<1>4. \A k \in i .. x - 1 : k \in S
  BY <1>2, <1>3
<1>5. PICK m \in Int : m = x - 1
  BY <1>3
<1>6. m \in S /\ m >= i /\ i .. m \subseteq S /\ m + 1 \notin S
  BY <1>3, <1>4, <1>5
<1>7. \E k \in S : i .. k \subseteq S /\ k >= i /\ k + 1 \notin S
  BY <1>6
<1> QED BY <1>7 DEF LastOfRun

(* Behind a run of lnot the stack is as high as before it.                 *)
LEMMA NotsLevel ==
  ASSUME NEW c, NEW b, NEW h, Entry(c, b, h), NEW i \in 1 .. Len(c), NEW n \in 1 .. Len(c),
         n < b, n >= i, \A k \in i .. n : c[k].op = "lnot"
  PROVE  \A k \in i .. n : h[k] = h[i - 1]
<1> DEFINE S == {k \in Nat : i + k <= n => h[i + k] = h[i - 1]}
<1>1. 0 \in S
  <2>1. c[i].op = "lnot" /\ i < b
    <3>1. i \in i .. n /\ b \in Nat
      BY Where
    <3> QED BY <3>1
  <2>2. h[i] = h[i - 1]
    BY <2>1, Heights
  <2> QED BY <2>2
<1>2. ASSUME NEW k \in Nat, k \in S
      PROVE  k + 1 \in S
  <2> SUFFICES ASSUME i + (k + 1) <= n PROVE h[i + (k + 1)] = h[i - 1]
    OBVIOUS
  <2>1. PICK j \in 1 .. Len(c) : j = i + (k + 1)
    OBVIOUS
  <2>2. b \in Nat
    BY Where
  <2>3. j - 1 = i + k /\ i + k <= n /\ j \in i .. n /\ j < b
    BY <2>1, <2>2
  <2>4. h[j] = h[j - 1]
    <3>1. c[j].op = "lnot" /\ j < b
      BY SMTT(30), <2>3
    <3> QED BY SMTT(30), <3>1, Heights
  <2> QED BY SMTT(30), <1>2, <2>1, <2>3, <2>4
<1> HIDE DEF S
<1>3. Nat \subseteq S
  BY <1>1, <1>2, NatInd
<1> USE DEF S
<1> SUFFICES ASSUME NEW k \in i .. n PROVE h[k] = h[i - 1]
  OBVIOUS
<1>4. PICK j \in Nat : j = k - i
  OBVIOUS
<1>5. i + j = k
  BY <1>4
<1>6. j \in S
  BY <1>3
<1> QED BY <1>5, <1>6

LEMMA LogicnotChainSafe ==
  ASSUME NEW c, ListKept(c), NEW i \in 1 .. Len(c)
  PROVE  Safe(c, i, peephole_logicnot_chain(c, i))
<1>1. CASE ~ Is(c, i, {"lnot"})
  BY <1>1, KeptSafe DEF peephole_logicnot_chain
<1>2. CASE Is(c, i, {"lnot"})
  <2>e. PICK b, h : Entry(c, b, h)
    BY DEF ListKept, EntryKept
  <2>r. Resolved(c) /\ Rest(c, i, c)
    BY RestSame DEF ListKept
  <2> DEFINE S == {k \in DOMAIN c : c[k].op = "lnot"}
  <2>1. PICK n : n = LastOfRun(i, S)
    OBVIOUS
  <2>2. c \in Seq(Instruction) /\ Len(c) \in Nat /\ DOMAIN c = 1 .. Len(c) /\ c[i].op = "lnot"
    BY <1>2, <2>r, ListType DEF Is
  <2>3. n \in S /\ n >= i /\ i .. n \subseteq S
    <3>1. S \in SUBSET (1 .. Len(c)) /\ i \in S
      BY <2>2
    <3> HIDE DEF S
    <3> QED BY <2>1, <2>2, <3>1, RunEnds
  <2>4. /\ n \in 1 .. Len(c) /\ n >= i /\ c[n].op = "lnot" /\ i \in i .. n
        /\ \A k \in i .. n : c[k].op = "lnot"
    BY <2>2, <2>3
  <2> HIDE DEF S
  <2>5. n # Len(c)
    BY <2>r, <2>4, NotLast
  <2>6. b \in Nat /\ c[b].op \in Lasting /\ b \notin i .. n
    BY <2>e, <2>4, Where DEF Lasting
  <2>7. ASSUME NEW m \in i .. n, NEW gone \in BOOLEAN
        PROVE  Safe(c, i, Removed(c, m, n, gone))
    <3>1. CASE i > b
      <4>1. m > b
        BY <2>6, <3>1
      <4> QED BY <2>e, <2>r, <2>4, <2>5, <3>1, <4>1, BehindSafe
    <3>2. CASE n < b
      <4>1. \A k \in i .. n : h[k] = h[i - 1]
        BY <2>e, <2>4, <3>2, NotsLevel
      <4>2. i < b /\ h[i - 1] >= 1
        BY <2>e, <2>2, <2>4, <2>6, <3>2, Heights
      <4>3. h[m - 1] = h[i - 1]
        <5>1. m - 1 = i - 1 \/ m - 1 \in i .. n
          BY ONLY <2>4, i \in 1 .. Len(c), m \in i .. n
        <5> QED BY ONLY <4>1, <5>1
      <4>4. h[n] = h[m - 1] /\ h[m - 1] >= 1
        BY <2>4, <4>1, <4>2, <4>3
      <4> QED BY <2>e, <2>r, <2>4, <2>6, <3>2, <4>4, CutInside
    <3>3. i > b \/ n < b
      BY ONLY <2>4, <2>6, i \in 1 .. Len(c)
    <3> QED BY <3>1, <3>2, <3>3, Zenon
  <2>8. Safe(c, i, Removed(c, i, n, TRUE))
    BY <2>4, <2>7, Zenon
  <2>9. n > i => Safe(c, i, Removed(c, i + 1, n, FALSE))
    <3>1. n > i => i + 1 \in i .. n
      BY <2>4
    <3> QED BY <2>7, <3>1, Zenon
  <2>10. Safe(c, i, Kept(c))
    BY KeptSafe
  <2>11. peephole_logicnot_chain(c, i) =
           IF (n - i + 1) % 2 = 0 THEN Removed(c, i, n, TRUE)
           ELSE IF n > i THEN Removed(c, i + 1, n, FALSE)
           ELSE Kept(c)
    BY <1>2, <2>1, Zenon DEF peephole_logicnot_chain, S
  <2> QED BY <2>8, <2>9, <2>10, <2>11, Zenon
<1> QED BY <1>1, <1>2

LEMMA UselessRepNopSafe ==
  ASSUME NEW c, ListKept(c), NEW i \in 1 .. Len(c)
  PROVE  Safe(c, i, peephole_useless_rep_nop(c, i))
<1>1. CASE ~ (Is(c, i, {"ret"}) /\ InnerIs(c, i + 1, {"ret"}))
  BY <1>1, KeptSafe DEF peephole_useless_rep_nop
<1>2. CASE Is(c, i, {"ret"}) /\ InnerIs(c, i + 1, {"ret"})
  <2>e. PICK b, h : Entry(c, b, h)
    BY DEF ListKept, EntryKept
  <2>r. Resolved(c) /\ Rest(c, i, c)
    BY RestSame DEF ListKept
  <2> DEFINE S == {k \in DOMAIN c : InnerIs(c, k, {"ret"})}
  <2>1. PICK n : n = LastOfRun(i + 1, S)
    OBVIOUS
  <2>2. /\ c \in Seq(Instruction) /\ Len(c) \in Nat /\ DOMAIN c = 1 .. Len(c) /\ c[i].op = "ret"
        /\ i + 1 \in 1 .. Len(c)
    BY <1>2, <2>r, ListType DEF Is, InnerIs
  <2>3. n \in S /\ n >= i + 1 /\ i + 1 .. n \subseteq S
    <3>1. S \in SUBSET (1 .. Len(c)) /\ i + 1 \in S
      BY <1>2, <2>2
    <3> HIDE DEF S
    <3> QED BY <2>1, <2>2, <3>1, RunEnds
  <2>4. n \in 1 .. Len(c) /\ \A k \in i + 1 .. n : InnerIs(c, k, {"ret"})
    BY <2>2, <2>3
  <2>5. i >= b /\ b \in Nat /\ c[i].op \in Lasting
    BY <2>e, <2>2, Where DEF Lasting
  <2>6. Safe(c, i, Removed(c, i + 1, n, FALSE))
    <3>1. i + 1 \in i .. n /\ i + 1 > b
      BY <2>2, <2>3, <2>4, <2>5
    <3>2. i > b \/ (i = b /\ c[i].op \in Lasting)
      BY <2>5
    <3>3. n = Len(c) => KnownCrash(c, i)
      BY <2>2, <2>4 DEF KnownCrash, EndingRets
    <3> QED BY <2>e, <2>r, <2>4, <3>1, <3>2, <3>3, BehindSafe
  <2>7. peephole_useless_rep_nop(c, i) = Removed(c, i + 1, n, FALSE)
    BY <1>2, <2>1, Zenon DEF peephole_useless_rep_nop
  <2> QED BY <2>6, <2>7, Zenon
<1> QED BY <1>1, <1>2

LEMMA PushDupSafe ==
  ASSUME NEW c, ListKept(c), NEW i \in 1 .. Len(c)
  PROVE  Safe(c, i, peephole_push_dup(c, i))
<1>1. CASE ~ (Is(c, i, Pushes) /\ Is(c, i + 1, {c[i].op}) /\ SameArg(c, i, i + 1))
  BY <1>1, KeptSafe DEF peephole_push_dup
<1>2. CASE Is(c, i, Pushes) /\ Is(c, i + 1, {c[i].op}) /\ SameArg(c, i, i + 1)
  <2>e. PICK b, h : Entry(c, b, h)
    BY DEF ListKept, EntryKept
  <2>r. Resolved(c)
    BY DEF ListKept
  <2> DEFINE S == {k \in DOMAIN c : c[k].op = c[i].op /\ SameArg(c, k, i)}
  <2>1. PICK n : n = LastOfRun(i, S)
    OBVIOUS
  <2>2. /\ c \in Seq(Instruction) /\ c # <<>> /\ Len(c) \in Nat /\ DOMAIN c = 1 .. Len(c)
        /\ c[i].op \in Pushes
    BY <1>2, <2>r, ListType DEF Is
  <2>3. n \in S /\ i .. n \subseteq S
    <3>1. S \in SUBSET (1 .. Len(c)) /\ i \in S
      BY <2>2 DEF SameArg
    <3> HIDE DEF S
    <3> QED BY <2>1, <2>2, <3>1, RunEnds
  <2>4. /\ n \in 1 .. Len(c)
        /\ \A k \in i + 1 .. n : k \in 1 .. Len(c) /\ k > 1 /\ c[k].op \in Pushes
                                /\ k - 1 \in 1 .. Len(c) /\ c[k - 1].op \in Pushes
    <3>1. n \in 1 .. Len(c) /\ \A k \in i .. n : k \in 1 .. Len(c) /\ c[k].op = c[i].op
      BY <2>2, <2>3
    <3>2. \A k \in i + 1 .. n : k \in i .. n /\ k - 1 \in i .. n /\ k > 1
      BY <3>1
    <3> QED BY <2>2, <3>1, <3>2
  <2> HIDE DEF S
  <2> DEFINE dup(k) == [labels |-> c[k].labels, op |-> "dup", arg |-> None]
             d == [k \in 1 .. Len(c) |-> IF k \in i + 1 .. n THEN dup(k) ELSE c[k]]
  <2>5. \A k \in 1 .. Len(c) : c[k] \in Instruction /\ dup(k) \in Instruction
    <3> TAKE k \in 1 .. Len(c)
    <3>1. c[k] \in Instruction
      BY <2>2
    <3>2. "dup" \in Opcode /\ None \in Operand
      BY DEF Opcode, None, Operand
    <3> QED BY <3>1, <3>2 DEF Instruction
  <2>6. /\ d \in Seq(Instruction) /\ Len(d) = Len(c)
        /\ \A k \in 1 .. Len(c) : k \in i + 1 .. n => d[k] = dup(k)
        /\ \A k \in 1 .. Len(c) : k \notin i + 1 .. n => d[k] = c[k]
    <3> HIDE DEF dup
    <3>1. d \in [1 .. Len(c) -> Instruction]
      BY <2>5
    <3> QED BY <2>2, <3>1
  <2>7. peephole_push_dup(c, i) = Kept(d)
    <3>1. ASSUME NEW k \in 1 .. Len(c)
          PROVE  [c[k] EXCEPT !.op = "dup", !.arg = None] = dup(k)
      <4>1. c[k] \in Instruction
        BY <2>5
      <4>2. [c[k] EXCEPT !.op = "dup"] = [labels |-> c[k].labels, op |-> "dup", arg |-> c[k].arg]
        BY <4>1 DEF Instruction
      <4>3. [[labels |-> c[k].labels, op |-> "dup", arg |-> c[k].arg] EXCEPT !.arg = None] = dup(k)
        OBVIOUS
      <4> QED BY <4>2, <4>3
    <3>2. [k \in DOMAIN c |-> IF k \in i + 1 .. n
                                THEN [c[k] EXCEPT !.op = "dup", !.arg = None]
                                ELSE c[k]] = d
      <4> HIDE DEF dup
      <4> QED BY <2>2, <3>1
    <3> HIDE DEF d
    <3> QED BY <1>2, <2>1, <3>2 DEF peephole_push_dup, S
  <2> HIDE DEF d
  <2>8. \A k \in 1 .. Len(c) : d[k].labels = c[k].labels
    <3> TAKE k \in 1 .. Len(c)
    <3>1. CASE k \in i + 1 .. n
      <4>1. d[k] = [labels |-> c[k].labels, op |-> "dup", arg |-> None]
        BY <2>6, <3>1
      <4> QED BY <4>1
    <3>2. CASE k \notin i + 1 .. n
      BY <2>6, <3>2
    <3> QED BY <3>1, <3>2
  <2>9. \A k \in 1 .. Len(c) : d[k].op \in Jumps => c[k].op \in Jumps /\ c[k].arg = d[k].arg
    <3> TAKE k \in 1 .. Len(c)
    <3>1. CASE k \in i + 1 .. n
      <4>1. d[k] = [labels |-> c[k].labels, op |-> "dup", arg |-> None]
        BY <2>6, <3>1
      <4>2. d[k].op = "dup"
        BY <4>1
      <4> QED BY <4>2 DEF Jumps
    <3>2. CASE k \notin i + 1 .. n
      BY <2>6, <3>2
    <3> QED BY <3>1, <3>2
  <2>10. d[Len(c)].op = c[Len(c)].op
    <3>1. Len(c) \in 1 .. Len(c) /\ c[Len(c)].op \notin Pushes
      BY <2>2, <2>r DEF Resolved, Ends, Pushes
    <3> QED BY <2>4, <2>6, <3>1
  <2>11. Rewritten(c, d)
    BY <2>6, <2>8, <2>9, <2>10 DEF Rewritten
  <2>12. Resolved(d)
    BY <2>r, <2>11, RewritingResolved
  <2>13. b \in Nat /\ b >= 1 /\ b <= Len(c) /\ c[b].op \in Lasting
    BY <2>e, <2>2, Where
  <2>14. ASSUME NEW k \in 1 .. b - 1
         PROVE  Computing(d[k].op, h[k - 1], h[k])
    <3>1. k \in 1 .. Len(c) /\ k < b
      BY <2>2, <2>13
    <3>2. CASE k \in i + 1 .. n
      <4>1. d[k] = [labels |-> c[k].labels, op |-> "dup", arg |-> None]
        BY <2>6, <3>1, <3>2
      <4>2. d[k].op = "dup"
        BY <4>1
      <4>3. h[k] = h[k - 1] + 1
        <5>1. c[k].op \in Pushes
          BY <2>4, <3>2
        <5> QED BY <2>e, <3>1, <5>1, Heights
      <4>4. PICK j \in 1 .. Len(c) : j = k - 1
        BY <2>4, <3>2
      <4>5. c[j].op \in Pushes /\ j < b
        BY <2>4, <3>1, <3>2, <2>13, <4>4
      <4>6. h[j] = h[j - 1] + 1 /\ h[j - 1] \in Nat
        BY <2>e, <4>5, Heights
      <4>7. h[k - 1] >= 1
        BY <4>4, <4>6
      <4> QED BY <4>2, <4>3, <4>7 DEF Computing
    <3>3. CASE k \notin i + 1 .. n
      <4>1. d[k] = c[k]
        BY <2>6, <3>1, <3>3
      <4>2. Computing(c[k].op, h[k - 1], h[k])
        BY <2>e, <3>1, Where
      <4> QED BY <4>1, <4>2
    <3> QED BY <3>2, <3>3
  <2>15. d[b].op \in Lasting
    <3>1. b \notin i + 1 .. n
      <4>1. Pushes \cap Lasting = {}
        BY DEF Pushes, Lasting
      <4> QED BY <2>4, <2>13, <4>1
    <3> QED BY <2>2, <2>6, <2>13, <3>1
  <2>16. ListKept(d)
    BY <2>e, <2>r, <2>6, <2>12, <2>14, <2>15, RewrittenInside
  <2> QED BY <2>6, <2>7, <2>16, KeptSafe
<1> QED BY <1>1, <1>2

(* A program may begin with a cmov.                                        *)
LEMMA CmovEntry ==
  ASSUME NEW c, NEW i, NEW h, Entry(c, i, h), NEW d, Len(d) = Len(c), Len(c) \in Nat,
         i + 2 <= Len(c),
         d[i].op = "pushi", d[i + 1].op = "pushi", d[i + 2].op = "cmov",
         \A k \in 1 .. i - 1 : d[k].op = c[k].op
  PROVE  \E g : Entry(d, i + 2, g)
<1> DEFINE g == [k \in 0 .. i + 1 |-> IF k < i THEN h[k] ELSE h[i - 1] + (k - i + 1)]
<1>1. i \in 1 .. Len(c) /\ h \in [0 .. i - 1 -> Nat] /\ Starts(c, i, h)
  BY DEF Entry
<1>2. i + 2 \in 1 .. Len(d) /\ (i + 2) - 1 = i + 1 /\ i - 1 \in 0 .. i - 1 /\ h[i - 1] \in Nat
  BY <1>1
<1>3. g \in [0 .. (i + 2) - 1 -> Nat]
  <2>1. \A k \in 0 .. i + 1 : g[k] \in Nat
    BY <1>1, <1>2
  <2> QED BY <1>2, <2>1
<1>4. g[0] = 0
  BY <1>1 DEF Starts
<1>5. ASSUME NEW k \in 1 .. (i + 2) - 1
      PROVE  Computing(d[k].op, g[k - 1], g[k])
  <2>1. CASE k < i
    <3>1. g[k - 1] = h[k - 1] /\ g[k] = h[k] /\ k \in 1 .. i - 1
      BY <1>1, <2>1
    <3> HIDE DEF g
    <3> QED BY <1>1, <3>1 DEF Starts
  <2>2. CASE k = i
    <3>1. g[k] = g[k - 1] + 1
      BY <1>1, <1>2, <2>2
    <3> HIDE DEF g
    <3> QED BY <2>2, <3>1 DEF Computing, Pushes
  <2>3. CASE k = i + 1
    <3>1. g[k] = g[k - 1] + 1
      BY <1>1, <1>2, <2>3
    <3> HIDE DEF g
    <3> QED BY <2>3, <3>1 DEF Computing, Pushes
  <2> QED BY <1>1, <2>1, <2>2, <2>3
<1> HIDE DEF g
<1>6. Entry(d, i + 2, g)
  <2>1. d[i + 2].op \in Lasting
    BY DEF Lasting
  <2> QED BY <1>2, <1>3, <1>4, <1>5, <2>1 DEF Entry, Starts
<1> QED BY <1>6

LEMMA CmovSafe ==
  ASSUME NEW c, ListKept(c), NEW i \in 1 .. Len(c)
  PROVE  Safe(c, i, peephole_cmov(c, i))
<1> DEFINE guard ==
      /\ Is(c, i, {"jf", "jt"})
      /\ InnerIs(c, i + 1, {"pushi"}) /\ InnerIs(c, i + 2, {"movl"})
      /\ InnerIs(c, i + 3, {"jmp"})
      /\ Is(c, i + 4, {"pushi"}) /\ InnerIs(c, i + 5, {"movl"})
      /\ i + 6 <= Len(c)
      /\ SameArg(c, i + 2, i + 5)
      /\ c[i + 4].labels = {c[i].arg}
      /\ c[i + 3].arg \in c[i + 6].labels
<1>1. CASE ~ guard
  BY <1>1, KeptSafe DEF peephole_cmov
<1>2. CASE guard
  <2> DEFINE a == IF c[i].op = "jf" THEN c[i + 1].arg ELSE c[i + 4].arg
             z == IF c[i].op = "jf" THEN c[i + 4].arg ELSE c[i + 1].arg
  <2>e. PICK b, h : Entry(c, b, h)
    BY DEF ListKept, EntryKept
  <2>r. Resolved(c) /\ Len(c) \in Nat /\ c \in Seq(Instruction)
    BY ListType DEF ListKept
  <2>1. /\ c[i].op \in {"jf", "jt"} /\ c[i + 1].op = "pushi" /\ c[i + 2].op = "movl"
        /\ i \in Nat /\ i >= 1 /\ i + 6 <= Len(c)
    BY <1>2, <2>r DEF Is, InnerIs
  <2>2. PICK j \in 1 .. Len(c), k \in 1 .. Len(c), m \in 1 .. Len(c), n \in 1 .. Len(c) :
          j = i + 1 /\ k = i + 2 /\ m = i + 3 /\ n = i + 5
    BY ONLY <2>1, <2>r
  <2> DEFINE e == Put(c, i, "pushi", a)
             f == Put(e, j, "pushi", z)
             d == PutOp(f, k, "cmov")
  <2>3. a \in Operand /\ z \in Operand
    <3>1. c[i + 1] \in Instruction /\ c[i + 4] \in Instruction
      BY <2>1, <2>r
    <3>2. c[i + 1].arg \in Operand /\ c[i + 4].arg \in Operand
      BY <3>1 DEF Instruction
    <3> QED BY <3>2
  <2>4. peephole_cmov(c, i) = Removed(d, m, n, FALSE)
    BY <1>2, <2>2 DEF peephole_cmov
  <2> HIDE DEF guard, a, z
  <2>5. "pushi" \in Opcode /\ "pushi" \notin Jumps /\ "cmov" \in Opcode /\ "cmov" \notin Jumps
    BY DEF Opcode, Jumps, Pushes
  <2>6. j >= i /\ k >= i /\ i # j /\ i # k /\ j # k /\ m \in i .. n /\ n # Len(c)
    BY ONLY <2>1, <2>2, <2>r
  <2>7. Rest(c, i, e) /\ e[i].op = "pushi" /\ \A x \in 1 .. Len(c) : x # i => e[x] = c[x]
    <3>1. i >= i /\ c[i].op \notin {"ret", ".string"}
      BY <2>1
    <3> QED BY ONLY <2>r, <2>3, <2>5, <3>1, PutPlain, i \in 1 .. Len(c) DEF e
  <2> HIDE DEF e
  <2>8. Rest(c, i, f) /\ f[j].op = "pushi" /\ \A x \in 1 .. Len(c) : x # j => f[x] = e[x]
    <3>1. e[j].op \notin {"ret", ".string"}
      BY <2>1, <2>2, <2>6, <2>7
    <3> QED BY ONLY <2>3, <2>5, <2>6, <2>7, <3>1, PutRest, i \in 1 .. Len(c), j \in 1 .. Len(c) DEF f
  <2> HIDE DEF f
  <2>9. Rest(c, i, d) /\ d[k].op = "cmov" /\ \A x \in 1 .. Len(c) : x # k => d[x] = f[x]
    <3>1. f[k].op \notin {"ret", ".string"}
      BY <2>1, <2>2, <2>6, <2>7, <2>8
    <3> QED BY ONLY <2>5, <2>6, <2>8, <3>1, PutOpRest, i \in 1 .. Len(c), k \in 1 .. Len(c) DEF d
  <2> HIDE DEF d
  <2>10. d[i].op = "pushi" /\ d[i + 1].op = "pushi" /\ d[i + 2].op = "cmov"
    BY <2>2, <2>6, <2>7, <2>8, <2>9
  <2>11. i >= b /\ b \in Nat
    BY <2>e, <2>1, Where DEF Lasting
  <2>12. Safe(c, i, Removed(d, m, n, FALSE))
    <3>1. CASE i > b
      <4>1. m > b
        BY ONLY <2>2, <2>11, <3>1, i \in 1 .. Len(c)
      <4> QED BY <2>e, <2>r, <2>6, <2>9, <3>1, <4>1, BehindSafe
    <3>2. CASE i = b
      <4>1. Resolved(d) /\ Len(d) = Len(c) /\ \A x \in 1 .. i - 1 : d[x].op = c[x].op
        <5>1. \A x \in 1 .. i - 1 : x \in 1 .. Len(c) /\ x < i
          BY ONLY SMTT(30), <2>1, <2>r
        <5> QED BY <2>9, <5>1 DEF Rest
      <4>2. PICK g : Entry(d, i + 2, g)
        <5>1. i + 2 <= Len(c)
          BY ONLY <2>1, <2>r
        <5>2. Entry(c, i, h)
          BY <2>e, <3>2
        <5> QED BY ONLY <2>r, <2>10, <4>1, <5>1, <5>2, CmovEntry
      <4>3. m > i + 2
        BY <2>2
      <4> QED BY <2>6, <4>1, <4>2, <4>3, RemovedBehind
    <3>3. i > b \/ i = b
      BY ONLY <2>11, i \in 1 .. Len(c)
    <3> QED BY <3>1, <3>2, <3>3, Zenon
  <2> QED BY <2>4, <2>12
<1> QED BY <1>1, <1>2

----------------------------------------------------------------------------
(* The steps of the optimizer.                                             *)
PassNames == {
  "copyl", "useless_copyl", "useless_copyl_sandwich", "addsub_zero",
  "pushi_copyl", "pushpop", "logicnot", "logicnot_chain", "jumpnot",
  "jcc_jmp", "incdec", "incldecl", "normalize_logic", "cmov",
  "consteval_int", "useless_rep_nop", "dup", "lnot_cmov",
  "push_dup", "tailcall", "dead_ret", "inplace_bool_binops",
  "small_pushi"}

LEMMA PassesNamed ==
  /\ NoPass = 24 /\ Passes = 1 .. 23
  /\ \A p \in 1 .. 23 : optimization_passes[p] \in PassNames
<1>1. Len(optimization_passes) = 23 /\ DOMAIN optimization_passes = 1 .. 23
  BY DEF optimization_passes
<1>2. ASSUME NEW p \in 1 .. 23
      PROVE  optimization_passes[p] \in PassNames
  <2>1. \/ p = 1 \/ p = 2 \/ p = 3 \/ p = 4 \/ p = 5 \/ p = 6 \/ p = 7 \/ p = 8 \/ p = 9 \/ p = 10
        \/ p = 11 \/ p = 12 \/ p = 13 \/ p = 14 \/ p = 15 \/ p = 16 \/ p = 17 \/ p = 18 \/ p = 19
        \/ p = 20 \/ p = 21 \/ p = 22 \/ p = 23
    OBVIOUS
  <2> QED BY <2>1 DEF optimization_passes, PassNames
<1> QED BY <1>1, <1>2 DEF NoPass, Passes

(* Whatever pass it is, what it does is safe.                              *)
LEMMA PassSafe ==
  ASSUME NEW name \in PassNames, NEW c, ListKept(c), NEW i \in 1 .. Len(c)
  PROVE  Safe(c, i, Result(name, c, i))
<1>1. CASE name = "copyl"
  <2>1. Result(name, c, i) = peephole_copyl(c, i)
    BY <1>1 DEF Result
  <2> QED BY <2>1, CopylSafe, Zenon
<1>2. CASE name = "useless_copyl"
  <2>1. Result(name, c, i) = peephole_useless_copyl(c, i)
    BY <1>2 DEF Result
  <2> QED BY <2>1, UselessCopylSafe, Zenon
<1>3. CASE name = "useless_copyl_sandwich"
  <2>1. Result(name, c, i) = peephole_useless_copyl_sandwich(c, i)
    BY <1>3 DEF Result
  <2> QED BY <2>1, SandwichSafe, Zenon
<1>4. CASE name = "addsub_zero"
  <2>1. Result(name, c, i) = peephole_addsub_zero(c, i)
    BY <1>4 DEF Result
  <2> QED BY <2>1, AddsubZeroSafe, Zenon
<1>5. CASE name = "pushi_copyl"
  <2>1. Result(name, c, i) = peephole_pushi_copyl(c, i)
    BY <1>5 DEF Result
  <2> QED BY <2>1, PushiCopylSafe, Zenon
<1>6. CASE name = "pushpop"
  <2>1. Result(name, c, i) = peephole_pushpop(c, i)
    BY <1>6 DEF Result
  <2> QED BY <2>1, PushpopSafe, Zenon
<1>7. CASE name = "logicnot"
  <2>1. Result(name, c, i) = peephole_logicnot(c, i)
    BY <1>7 DEF Result
  <2> QED BY <2>1, LogicnotSafe, Zenon
<1>8. CASE name = "logicnot_chain"
  <2>1. Result(name, c, i) = peephole_logicnot_chain(c, i)
    BY <1>8 DEF Result
  <2> QED BY <2>1, LogicnotChainSafe, Zenon
<1>9. CASE name = "jumpnot"
  <2>1. Result(name, c, i) = peephole_jumpnot(c, i)
    BY <1>9 DEF Result
  <2> QED BY <2>1, JumpnotSafe, Zenon
<1>10. CASE name = "jcc_jmp"
  <2>1. Result(name, c, i) = peephole_jcc_jmp(c, i)
    BY <1>10 DEF Result
  <2> QED BY <2>1, JccJmpSafe, Zenon
<1>11. CASE name = "incdec"
  <2>1. Result(name, c, i) = peephole_incdec(c, i)
    BY <1>11 DEF Result
  <2> QED BY <2>1, IncdecSafe, Zenon
<1>12. CASE name = "incldecl"
  <2>1. Result(name, c, i) = peephole_incldecl(c, i)
    BY <1>12 DEF Result
  <2> QED BY <2>1, IncldeclSafe, Zenon
<1>13. CASE name = "normalize_logic"
  <2>1. Result(name, c, i) = peephole_normalize_logic(c, i)
    BY <1>13 DEF Result
  <2> QED BY <2>1, NormalizeLogicSafe, Zenon
<1>14. CASE name = "cmov"
  <2>1. Result(name, c, i) = peephole_cmov(c, i)
    BY <1>14 DEF Result
  <2> QED BY <2>1, CmovSafe, Zenon
<1>15. CASE name = "consteval_int"
  <2>1. Result(name, c, i) = peephole_consteval_int(c, i)
    BY <1>15 DEF Result
  <2> QED BY <2>1, ConstevalIntSafe, Zenon
<1>16. CASE name = "useless_rep_nop"
  <2>1. Result(name, c, i) = peephole_useless_rep_nop(c, i)
    BY <1>16 DEF Result
  <2> QED BY <2>1, UselessRepNopSafe, Zenon
<1>17. CASE name = "dup"
  <2>1. Result(name, c, i) = peephole_dup(c, i)
    BY <1>17 DEF Result
  <2> QED BY <2>1, DupSafe, Zenon
<1>18. CASE name = "lnot_cmov"
  <2>1. Result(name, c, i) = peephole_lnot_cmov(c, i)
    BY <1>18 DEF Result
  <2> QED BY <2>1, LnotCmovSafe, Zenon
<1>19. CASE name = "push_dup"
  <2>1. Result(name, c, i) = peephole_push_dup(c, i)
    BY <1>19 DEF Result
  <2> QED BY <2>1, PushDupSafe, Zenon
<1>20. CASE name = "tailcall"
  <2>1. Result(name, c, i) = peephole_tailcall(c, i)
    BY <1>20 DEF Result
  <2> QED BY <2>1, TailcallSafe, Zenon
<1>21. CASE name = "dead_ret"
  <2>1. Result(name, c, i) = peephole_dead_ret(c, i)
    BY <1>21 DEF Result
  <2> QED BY <2>1, DeadRetSafe, Zenon
<1>22. CASE name = "inplace_bool_binops"
  <2>1. Result(name, c, i) = peephole_inplace_bool_binops(c, i)
    BY <1>22 DEF Result
  <2> QED BY <2>1, InplaceSafe, Zenon
<1>23. CASE name = "small_pushi"
  <2>1. Result(name, c, i) = peephole_small_pushi(c, i)
    BY <1>23 DEF Result
  <2> QED BY <2>1, SmallPushiSafe, Zenon
<1> QED BY <1>1, <1>2, <1>3, <1>4, <1>5, <1>6, <1>7, <1>8, <1>9, <1>10, <1>11, <1>12,
           <1>13, <1>14, <1>15, <1>16, <1>17, <1>18, <1>19, <1>20, <1>21, <1>22, <1>23 DEF PassNames

LEMMA FirstMatchFacts ==
  ASSUME pass \in 1 .. 24
  PROVE  FirstMatch \in pass .. 24
<1> DEFINE T == {p \in pass .. 24 : p = 24 \/ At(p) # Kept(code)}
<1>1. T \subseteq Nat /\ T # {}
  <2>1. 24 \in T
    OBVIOUS
  <2> QED BY <2>1
<1>2. PICK x \in T : \A y \in T : x <= y
  BY <1>1, NatMin, Zenon
<1>3. \A q \in pass .. x - 1 : At(q) = Kept(code)
  <2> SUFFICES ASSUME NEW q \in pass .. x - 1, At(q) # Kept(code)
               PROVE  FALSE
    OBVIOUS
  <2> HIDE DEF At
  <2>1. q \in T /\ ~ (x <= q)
    OBVIOUS
  <2> QED BY <1>2, <2>1
<1>4. \E p \in pass .. 24 : /\ p = 24 \/ At(p) # Kept(code)
                            /\ \A q \in pass .. p - 1 : At(q) = Kept(code)
  BY <1>2, <1>3
<1> QED BY <1>4, PassesNamed DEF FirstMatch

(* How far the optimizer is from its end: the rounds still to come, the    *)
(* phases of this one, the instructions from the cursor on and the passes  *)
(* for the instruction there.                                              *)
RoundsLeft == Rounds - round
PhasesLeft == CASE phase = "peephole" -> 2 [] phase = "shorten" -> 1 [] OTHER -> 0
CodeLeft   == Len(code) + 1 - cursor
PassesLeft == NoPass - pass

Nearer ==
  \/ RoundsLeft' < RoundsLeft
  \/ RoundsLeft' = RoundsLeft /\ PhasesLeft' < PhasesLeft
  \/ RoundsLeft' = RoundsLeft /\ PhasesLeft' = PhasesLeft /\ CodeLeft' < CodeLeft
  \/ /\ RoundsLeft' = RoundsLeft /\ PhasesLeft' = PhasesLeft /\ CodeLeft' = CodeLeft
     /\ PassesLeft' < PassesLeft

LEMMA InvFacts ==
  ASSUME OptimizerInv
  PROVE  /\ code \in Seq(Instruction) /\ code # <<>> /\ Len(code) \in Nat /\ Len(code) >= 1
         /\ ListKept(code) /\ cursor \in 1 .. Len(code) + 1 /\ pass \in 1 .. 24
         /\ round \in 0 .. Rounds /\ Rounds \in Nat /\ Rounds >= 1
BY ListType, PassesNamed, RoundsAssumption DEF OptimizerInv, ListKept

LEMMA PeepholeStep ==
  ASSUME OptimizerInv, do_peephole
  PROVE  OptimizerInv' /\ Nearer
<1>1. PICK p \in {FirstMatch} \ {NoPass} :
        /\ code' = At(p).code
        /\ phase' = IF At(p).crash THEN "crashed" ELSE phase
        /\ pass' = IF At(p).gone THEN 1 ELSE p + 1
  BY DEF do_peephole
<1>2. p \in pass .. 24 /\ p # 24 /\ pass \in 1 .. 24
  BY <1>1, InvFacts, FirstMatchFacts, PassesNamed
<1>3. p \in 1 .. 23
  BY <1>2
<1>4. cursor \in 1 .. Len(code) /\ ListKept(code)
  BY InvFacts DEF do_peephole
<1>5. PICK r : r = At(p)
  OBVIOUS
<1>6. Safe(code, cursor, r)
  <2>1. optimization_passes[p] \in PassNames
    BY <1>3, PassesNamed
  <2>2. Safe(code, cursor, Result(optimization_passes[p], code, cursor))
    BY <1>4, <2>1, PassSafe, Zenon
  <2> QED BY <1>5, <2>2 DEF At
<1>7. /\ code' = r.code /\ phase' = (IF r.crash THEN "crashed" ELSE "peephole")
      /\ pass' = (IF r.gone THEN 1 ELSE p + 1)
      /\ phase = "peephole" /\ cursor' = cursor /\ round' = round
  BY <1>1, <1>5 DEF do_peephole
<1>8. /\ ListKept(code') /\ cursor <= Len(code') /\ Len(code') <= Len(code)
      /\ r.gone \in BOOLEAN /\ r.crash \in BOOLEAN
      /\ r.gone => Len(code') < Len(code)
      /\ r.crash => KnownCrash(code', cursor')
  BY <1>6, <1>7 DEF Safe
<1>9. Len(code') \in Nat /\ Len(code) \in Nat
  BY <1>8, ListType, InvFacts DEF ListKept
<1>10. OptimizerInv'
  <2>1. cursor' \in 1 .. Len(code') + 1
    BY <1>4, <1>7, <1>8, <1>9
  <2>2. pass' \in 1 .. NoPass
    BY <1>3, <1>7, PassesNamed
  <2>3. CrashesKnown'
    BY <1>7, <1>8 DEF CrashesKnown
  <2> QED BY <1>7, <1>8, <2>1, <2>2, <2>3, PassesNamed DEF OptimizerInv
<1>11. Nearer
  <2>1. RoundsLeft' = RoundsLeft
    BY <1>7 DEF RoundsLeft
  <2>2. CASE r.crash
    <3>1. PhasesLeft' = 0 /\ PhasesLeft = 2
      BY <1>7, <2>2 DEF PhasesLeft
    <3> QED BY <2>1, <3>1 DEF Nearer
  <2>3. CASE ~ r.crash
    <3>1. PhasesLeft' = PhasesLeft
      BY <1>7, <2>3 DEF PhasesLeft
    <3>2. CASE Len(code') < Len(code)
      <4>1. CodeLeft' < CodeLeft
        BY <1>4, <1>7, <1>9, <3>2 DEF CodeLeft
      <4> QED BY <2>1, <3>1, <4>1 DEF Nearer
    <3>3. CASE ~ (Len(code') < Len(code))
      <4>1. CodeLeft' = CodeLeft
        BY <1>4, <1>7, <1>8, <1>9, <3>3 DEF CodeLeft
      <4>2. pass' = p + 1
        BY <1>7, <1>8, <3>3
      <4>3. PassesLeft' < PassesLeft
        BY <1>2, <4>2, PassesNamed DEF PassesLeft
      <4> QED BY <2>1, <3>1, <4>1, <4>3 DEF Nearer
    <3> QED BY <3>2, <3>3
  <2> QED BY <2>2, <2>3
<1> QED BY <1>10, <1>11

LEMMA NextInstructionStep ==
  ASSUME OptimizerInv, NextInstruction
  PROVE  OptimizerInv' /\ Nearer
<1>1. /\ phase = "peephole" /\ cursor <= Len(code) /\ cursor' = cursor + 1 /\ pass' = 1
      /\ code' = code /\ round' = round /\ phase' = phase
  BY DEF NextInstruction
<1>2. OptimizerInv'
  <2>1. cursor' \in 1 .. Len(code') + 1
    BY <1>1, InvFacts
  <2>2. pass' \in 1 .. NoPass
    BY <1>1, PassesNamed
  <2> QED BY <1>1, <2>1, <2>2, PassesNamed DEF OptimizerInv, CrashesKnown
<1>3. Nearer
  <2>1. RoundsLeft' = RoundsLeft /\ PhasesLeft' = PhasesLeft
    BY <1>1 DEF RoundsLeft, PhasesLeft
  <2>2. CodeLeft' < CodeLeft
    BY <1>1, InvFacts DEF CodeLeft
  <2> QED BY <2>1, <2>2 DEF Nearer
<1> QED BY <1>2, <1>3

LEMMA LabelTargetsStep ==
  ASSUME OptimizerInv, find_label_targets
  PROVE  OptimizerInv' /\ Nearer
<1>1. /\ phase = "peephole" /\ phase' = "shorten" /\ cursor' = 1
      /\ code' = code /\ round' = round /\ pass' = pass
  BY DEF find_label_targets
<1>2. OptimizerInv'
  <2>1. cursor' \in 1 .. Len(code') + 1
    BY <1>1, InvFacts
  <2> QED BY <1>1, <2>1, PassesNamed DEF OptimizerInv, CrashesKnown
<1>3. Nearer
  <2>1. RoundsLeft' = RoundsLeft /\ PhasesLeft' = 1 /\ PhasesLeft = 2
    BY <1>1 DEF RoundsLeft, PhasesLeft
  <2> QED BY <2>1 DEF Nearer
<1> QED BY <1>2, <1>3

LEMMA ShortenStep ==
  ASSUME OptimizerInv, shorten_jumps
  PROVE  OptimizerInv' /\ Nearer
<1> DEFINE l == code[cursor].arg
           t == CHOOSE j \in Targets(l) : \A k \in Targets(l) : j <= k
<1>1. /\ phase = "shorten" /\ cursor' = cursor + 1 /\ pass' = pass /\ round' = round
      /\ cursor \in 1 .. Len(code) /\ DOMAIN code = 1 .. Len(code)
  BY InvFacts DEF shorten_jumps
<1>2. ListKept(code') /\ Len(code') = Len(code) /\ phase' = "shorten"
  <2>1. CASE code[cursor].op # "jmp"
    BY <1>1, <2>1, InvFacts DEF shorten_jumps
  <2>2. CASE code[cursor].op = "jmp"
    <3>1. Targets(l) # {} /\ Targets(l) \subseteq Nat
      <4>1. JumpsLead(code) /\ code[cursor].op \in Jumps
        BY <2>2, InvFacts DEF ListKept, Resolved, Jumps
      <4> QED BY <1>1, <4>1 DEF JumpsLead, Targets
    <3>2. t \in Targets(l)
      <4>1. \E j \in Targets(l) : \A k \in Targets(l) : j <= k
        BY <3>1, NatMin, Zenon
      <4> QED BY <4>1
    <3>3. t \in 1 .. Len(code)
      BY <1>1, <3>2 DEF Targets
    <3>4. /\ code' = IF code[t].op \in {"jmp", "jf", "jt", "ret"}
                       THEN Put(code, cursor, code[t].op, code[t].arg)
                       ELSE code
          /\ phase' = phase
      BY <2>2, <3>1 DEF shorten_jumps
    <3> HIDE DEF t
    <3>5. CASE code[t].op \in {"jmp", "jf", "jt", "ret"}
      <4> DEFINE op  == code[t].op
                 arg == code[t].arg
      <4>1. op \in Opcode /\ arg \in Operand
        <5>1. code[t] \in Instruction
          BY <3>3, InvFacts
        <5> QED BY <5>1 DEF Instruction
      <4>2. op \in Jumps => \E j \in 1 .. Len(code) : code[j].op \in Jumps /\ code[j].arg = arg
        BY <3>3
      <4>3. op \in Lasting /\ code[cursor].op \notin {"ret", ".string"}
        BY <2>2, <3>5 DEF Lasting
      <4>4. PICK b, h : Entry(code, b, h)
        BY InvFacts DEF ListKept, EntryKept
      <4>5. cursor >= b /\ b \in Nat
        BY <1>1, <2>2, <4>4, Where DEF Lasting
      <4>6. ListKept(Put(code, cursor, op, arg)) /\ Len(Put(code, cursor, op, arg)) = Len(code)
        <5> HIDE DEF op, arg
        <5>1. Resolved(code) /\ Rest(code, cursor, code) /\ cursor >= cursor
          BY <1>1, RestSame, InvFacts DEF ListKept
        <5>2. /\ Rest(code, cursor, Put(code, cursor, op, arg))
              /\ Put(code, cursor, op, arg)[cursor].op = op
          BY <1>1, <4>1, <4>2, <4>3, <5>1, PutRest
        <5>3. cursor > b \/ (cursor = b /\ Put(code, cursor, op, arg)[cursor].op \in Lasting)
          BY <1>1, <4>3, <4>5, <5>2
        <5>4. ListKept(Put(code, cursor, op, arg))
          BY <1>1, <4>4, <5>1, <5>2, <5>3, RestEntry
        <5> QED BY <5>2, <5>4 DEF Rest
      <4> QED BY <1>1, <3>4, <3>5, <4>6
    <3>6. CASE code[t].op \notin {"jmp", "jf", "jt", "ret"}
      BY <1>1, <3>4, <3>6, InvFacts
    <3> QED BY <3>5, <3>6
  <2> QED BY <2>1, <2>2
<1> HIDE DEF t, l
<1>3. OptimizerInv'
  <2>1. cursor' \in 1 .. Len(code') + 1
    BY <1>1, <1>2, InvFacts
  <2> QED BY <1>1, <1>2, <2>1, PassesNamed DEF OptimizerInv, CrashesKnown
<1>4. Nearer
  <2>1. RoundsLeft' = RoundsLeft /\ PhasesLeft' = PhasesLeft
    BY <1>1, <1>2 DEF RoundsLeft, PhasesLeft
  <2>2. CodeLeft' < CodeLeft
    BY <1>1, <1>2, InvFacts DEF CodeLeft
  <2> QED BY <2>1, <2>2 DEF Nearer
<1> QED BY <1>3, <1>4

LEMMA OptimizeStep ==
  ASSUME OptimizerInv, optimize_asm
  PROVE  OptimizerInv' /\ Nearer
<1>1. /\ phase = "shorten" /\ cursor' = 1 /\ pass' = 1 /\ round' = round + 1 /\ code' = code
      /\ phase' = IF round + 1 = Rounds THEN "done" ELSE "peephole"
      /\ round < Rounds
  BY DEF optimize_asm, OptimizerInv
<1>2. OptimizerInv'
  <2>1. cursor' \in 1 .. Len(code') + 1 /\ pass' \in 1 .. NoPass
    BY <1>1, InvFacts, PassesNamed
  <2>2. round' \in 0 .. Rounds
    BY <1>1, InvFacts
  <2>3. phase' \in {"peephole", "shorten"} => round' < Rounds
    BY <1>1, InvFacts
  <2>4. ListKept(code')
    BY <1>1, InvFacts
  <2>5. phase' \in {"done", "peephole"}
    BY <1>1
  <2> QED BY <2>1, <2>2, <2>3, <2>4, <2>5 DEF OptimizerInv, CrashesKnown
<1>3. Nearer
  <2>1. RoundsLeft' < RoundsLeft
    BY <1>1, InvFacts DEF RoundsLeft
  <2> QED BY <2>1 DEF Nearer
<1> QED BY <1>2, <1>3

LEMMA NextStep ==
  ASSUME OptimizerInv, [Next]_optVars
  PROVE  OptimizerInv' /\ (Nearer \/ UNCHANGED optVars)
<1>1. CASE do_peephole
  BY <1>1, PeepholeStep
<1>2. CASE NextInstruction
  BY <1>2, NextInstructionStep
<1>3. CASE find_label_targets
  BY <1>3, LabelTargetsStep
<1>4. CASE shorten_jumps
  BY <1>4, ShortenStep
<1>5. CASE optimize_asm
  BY <1>5, OptimizeStep
<1>6. CASE UNCHANGED optVars
  BY <1>6 DEF OptimizerInv, CrashesKnown, optVars
<1> QED BY <1>1, <1>2, <1>3, <1>4, <1>5, <1>6 DEF Next, Stopped

LEMMA InitInv == Init => OptimizerInv
<1> SUFFICES ASSUME Init PROVE OptimizerInv
  OBVIOUS
<1>1. IsProgram(code) /\ cursor = 1 /\ pass = 1 /\ round = 0 /\ phase = "peephole"
  BY ProgramsAssumption DEF Init
<1>2. ListKept(code)
  <2>1. EntryKept(code)
    <3>1. PICK b \in DOMAIN code : \E h \in [0 .. b - 1 -> 0 .. b] : Starts(code, b, h)
      BY <1>1 DEF IsProgram, Begins
    <3>2. PICK h \in [0 .. b - 1 -> 0 .. b] : Starts(code, b, h)
      BY <3>1
    <3>3. b \in 1 .. Len(code) /\ h \in [0 .. b - 1 -> Nat]
      BY <1>1 DEF IsProgram
    <3> QED BY <3>2, <3>3 DEF Entry, EntryKept
  <2> QED BY <1>1, <2>1 DEF IsProgram, ListKept, Resolved
<1>3. cursor \in 1 .. Len(code) + 1
  BY <1>1, <1>2, ListType DEF ListKept
<1>4. pass \in 1 .. NoPass /\ round \in 0 .. Rounds /\ round < Rounds
  BY <1>1, PassesNamed, RoundsAssumption
<1> QED BY <1>1, <1>2, <1>3, <1>4 DEF OptimizerInv, CrashesKnown

----------------------------------------------------------------------------
(* The theorems.                                                           *)

(* Through any passes, in any order that the program lets them match in:   *)
(* the list stays one in which no label is at two instructions and every   *)
(* jump finds its own, it begins with instructions that find their         *)
(* operands and end in one that no pass removes, it ends with a ret or a   *)
(* directive, and the cursor stays in it.                                  *)
THEOREM OptimizerInvariance == Spec => []OptimizerInv
<1>1. Init => OptimizerInv
  BY InitInv
<1>2. OptimizerInv /\ [Next]_optVars => OptimizerInv'
  BY NextStep
<1> QED BY <1>1, <1>2, PTL DEF Spec

(* Every jump and every call finds its target in one place, whatever       *)
(* remove_ins has taken out and shorten_jumps has joined.                  *)
THEOREM TargetsStayUnique == Spec => []TargetsUnique
<1>1. OptimizerInv => TargetsUnique
  <2> SUFFICES ASSUME OptimizerInv, NEW i \in DOMAIN code, code[i].op \in Jumps
               PROVE  Cardinality(Targets(code[i].arg)) = 1
    BY DEF TargetsUnique
  <2>1. JumpsLead(code) /\ LabelsOnce(code)
    BY InvFacts DEF ListKept, Resolved
  <2>2. PICK j \in DOMAIN code : code[i].arg \in code[j].labels
    BY <2>1 DEF JumpsLead
  <2>3. Targets(code[i].arg) = {j}
    BY <2>1, <2>2 DEF Targets, LabelsOnce
  <2> QED BY <2>3, FS_Singleton
<1>2. Spec => []OptimizerInv
  BY OptimizerInvariance
<1> QED BY <1>1, <1>2, PTL

(* remove_ins goes through NULL only for a ret that ends the list; the     *)
(* other ways to stop are / and % of constants by zero, and ~ of           *)
(* constants.                                                              *)
THEOREM CrashesStayKnown == Spec => []CrashesKnown
<1>1. OptimizerInv => CrashesKnown
  BY DEF OptimizerInv
<1>2. Spec => []OptimizerInv
  BY OptimizerInvariance
<1> QED BY <1>1, <1>2, PTL

(* Each pass sees an instruction once, and the next one comes after the    *)
(* last pass or when a pass has removed the instruction itself: every step *)
(* brings the optimizer nearer to its end, in an order of four natural     *)
(* numbers, so it comes to one.                                            *)
THEOREM StepsLeadToTheEnd ==
  Spec => /\ [](RoundsLeft \in Nat /\ PhasesLeft \in Nat /\ CodeLeft \in Nat /\ PassesLeft \in Nat)
          /\ [][Nearer]_optVars
<1>1. OptimizerInv => RoundsLeft \in Nat /\ PhasesLeft \in Nat /\ CodeLeft \in Nat /\ PassesLeft \in Nat
  <2> SUFFICES ASSUME OptimizerInv
               PROVE  RoundsLeft \in Nat /\ PhasesLeft \in Nat /\ CodeLeft \in Nat /\ PassesLeft \in Nat
    OBVIOUS
  <2>1. RoundsLeft \in Nat
    BY InvFacts DEF RoundsLeft
  <2>2. PhasesLeft \in Nat
    BY DEF PhasesLeft
  <2>3. CodeLeft \in Nat
    BY InvFacts DEF CodeLeft
  <2>4. PassesLeft \in Nat
    <3>1. pass \in 1 .. 24 /\ NoPass = 24
      BY InvFacts, PassesNamed, Zenon
    <3> QED BY <3>1 DEF PassesLeft
  <2> QED BY <2>1, <2>2, <2>3, <2>4
<1>2. OptimizerInv /\ [Next]_optVars => [Nearer]_optVars
  BY NextStep
<1>3. Spec => []OptimizerInv
  BY OptimizerInvariance
<1> QED BY <1>1, <1>2, <1>3, PTL DEF Spec
=============================================================================
