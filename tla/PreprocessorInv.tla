-------------------------- MODULE PreprocessorInv ---------------------------
(***************************************************************************)
(* The inductive invariant behind the properties of the directives: how    *)
(* the calls of parse_if_chain stand on each other, which lines are in     *)
(* which branch, and what the branches collected so far mean.              *)
(***************************************************************************)
EXTENDS Preprocessor

(* The lines whose directive has been dealt with.                          *)
Processed == IF at_word THEN Len(source) - 1 ELSE Len(source)

FrameType ==
  [flags : Flags, pc : Places, cond : Lines, body : Seq(Nat),
   elifs : Seq(Branch), else_branch : Seq(Branch)]

TypeOK ==
  /\ source \in Seq(Lines)
  /\ at_word \in BOOLEAN /\ on_new_line \in BOOLEAN
  /\ frames \in Seq(FrameType)
  /\ tokens \in Seq(Nat)
  /\ phase \in {"running", "done", "error", "overrun"}
  /\ oddities \subseteq Oddity

----------------------------------------------------------------------------
(* A call of parse_if_chain is made at one place of the call below it, and *)
(* loc is at a word where the rest of the outer loop looks at it.          *)
CalledAt(flags) == CASE flags = "Nothing"            -> {"body", "nested"}
                     [] flags = "StopOnElifElseEndif" -> {"after_elif"}
                     [] flags = "StopOnEndif"         -> {"after_else"}

Stacked ==
  \A k \in DOMAIN frames :
    IF k = 1 THEN frames[k].flags = "Nothing"
    ELSE frames[k - 1].pc \in CalledAt(frames[k].flags)

Position ==
  /\ phase = "running" /\ at_word =>
       /\ frames # <<>> /\ source # <<>> /\ Word \in Chain
       /\ Top.pc # "nested"
       /\ Top.pc = "body" => Word = "elif"
       /\ Top.pc = "after_else" => Word # "else"
  /\ phase = "running" /\ ~at_word /\ frames # <<>> => Top.pc \in {"body", "nested"}
  /\ frames = <<>> => ~at_word
  /\ frames = <<>> /\ ~on_new_line => source # <<>> /\ Last(source).dir = "endif"
  /\ phase = "done" => frames = <<>>

----------------------------------------------------------------------------
(* What is collected is in the order of the source: an outer branch before *)
(* all that is collected for the calls above it.                           *)

Bodies(f) == {f.body} \cup {f.elifs[i].body : i \in DOMAIN f.elifs}
                      \cup {f.else_branch[i].body : i \in DOMAIN f.else_branch}

Rising(s)    == \A i, j \in DOMAIN s : i < j => s[i] < s[j]
Before(s, t) == \A i \in DOMAIN s, j \in DOMAIN t : s[i] < t[j]
ReadIn(s)    == \A i \in DOMAIN s : 1 <= s[i] /\ s[i] <= Processed

Ordered ==
  /\ Rising(tokens) /\ ReadIn(tokens)
  /\ \A k \in DOMAIN frames : \A b \in Bodies(frames[k]) :
       /\ Rising(b) /\ ReadIn(b) /\ Before(tokens, b)
       /\ \A i \in DOMAIN frames : i < k => Before(frames[i].body, b)

----------------------------------------------------------------------------
(* The chains under way are the #ifs that are still open, counted from the *)
(* beginning of the source or from the outermost of them.                  *)

NestingKept ==
  phase \in {"running", "done"} /\ "directive_after_endif" \notin oddities =>
    Cardinality(Chains) = Nesting(1, Processed)

OpenSince(j) ==
  /\ source[j].dir \in Ifs
  /\ \A k \in j .. Processed : Nesting(j, k) > 0
  /\ Cardinality(Chains) = Nesting(j, Processed)

ChainOpen == phase = "running" /\ frames # <<>> => \E j \in 1 .. Processed : OpenSince(j)

(* A directive in a branch is one of those that chains do not know.        *)
Unknown(n) ==
  source[n].dir \in Directives =>
    source[n].dir \in {"define", "error", "elif"} /\ \E j \in 1 .. n - 1 : Within(n, j)

OnlyUnknown ==
  /\ \A i \in DOMAIN tokens : \/ Unknown(tokens[i])
                              \/ tokens[i] > 1 /\ source[tokens[i] - 1].dir = "endif"
  /\ \A k \in DOMAIN frames : \A b \in Bodies(frames[k]) : \A i \in DOMAIN b : Unknown(b[i])

----------------------------------------------------------------------------
(* Without the oddities a chain is a call with at most one branch for an   *)
(* #elif and one for an #else, finished or still being read.               *)

BranchOf(flags) == CASE flags = "Nothing"             -> Ifs
                     [] flags = "StopOnElifElseEndif" -> {"elif"}
                     [] flags = "StopOnEndif"         -> {"else"}

AtMostOne(bs, dir) == bs = <<>> \/ (Len(bs) = 1 /\ bs[1].cond.dir = dir)

Regular(k) ==
  LET f == frames[k]
  IN  /\ f.cond.dir \in BranchOf(f.flags)
      /\ AtMostOne(f.elifs, "elif") /\ AtMostOne(f.else_branch, "else")
      /\ f.flags # "Nothing" \/ f.pc \notin {"after_elif", "after_else"} =>
           f.elifs = <<>> /\ f.else_branch = <<>>
      /\ f.flags # "Nothing" => f.pc \notin {"after_elif", "after_else"}
      /\ f.pc = "after_elif" => f.else_branch = <<>>
      /\ f.flags = "StopOnElifElseEndif" => frames[k - 1].elifs = <<>>
      /\ f.flags = "StopOnEndif" => frames[k - 1].else_branch = <<>>

RegularWord ==
  /\ Last(source).dir = Word
  /\ Top.pc # "body"
  /\ Top.flags = "StopOnElifElseEndif" => Word # "elif"
  /\ Top.flags = "StopOnEndif" => Word = "endif"
  /\ Top.pc = "after_elif" => Word # "elif"
  /\ Top.pc = "after_else" => Word = "endif"

RegularChains ==
  oddities = {} =>
    /\ \A k \in DOMAIN frames : Regular(k)
    /\ phase = "running" /\ at_word => RegularWord

(* The branches collected so far, read as conditional sections: what comes *)
(* of it is what the source means up to here.                              *)

Took(s, body) == IF Active(s) THEN [s EXCEPT !.out = @ \o body] ELSE s
Entered(s, l) == [s EXCEPT !.open = Append(@, Open(s, l))]
Turned(s, l)  == [s EXCEPT !.open = Append(Front(@),
                                           NextBranch(Last(@), l.dir = "else" \/ l.arg = "1"))]
Also(s, bs)   == IF bs = <<>> THEN s ELSE Took(Turned(s, bs[1].cond), bs[1].body)
First(s, f)   == Took(IF f.flags = "Nothing" THEN Entered(s, f.cond) ELSE Turned(s, f.cond),
                      f.body)
With(s, f)    == Also(Also(First(s, f), f.elifs), f.else_branch)

Replayed(s, fs, n) ==
  LET replayed[k \in 0 .. n] == IF k = 0 THEN s ELSE With(replayed[k - 1], fs[k])
  IN  replayed[n]

Base == [out |-> tokens, open |-> <<>>, defined |-> macro_definitions]

MeaningKept ==
  oddities = {} /\ phase \in {"running", "done"} =>
    Replayed(Base, frames, Len(frames)) = MeantUpTo(source, Processed)

----------------------------------------------------------------------------
PreprocessorInv ==
  /\ TypeOK /\ Stacked /\ Position /\ Ordered
  /\ NestingKept /\ ChainOpen /\ OnlyUnknown
  /\ RegularChains /\ MeaningKept
=============================================================================
