---------------------------- MODULE Preprocessor ----------------------------
(***************************************************************************)
(* The directives of the preprocessor (preprocessor.c), as the lexer's     *)
(* do_tokenization (lexer.c) meets them: #define, #ifdef, #ifndef, #if     *)
(* with #elif, #else and #endif, and #error.  (#warning only prints.)       *)
(*                                                                         *)
(* A source file is a sequence of lines, chosen while it is read.  The     *)
(* tokens of a line of text are one token, the number of the line; the     *)
(* expression of an #if or an #elif is known by its value.  The recursion  *)
(* of parse_if_chain and handle_if_chain is a stack of frames.             *)
(***************************************************************************)
EXTENDS Integers, Sequences, SequencesExt

CONSTANTS
  Lines,     (* What a line may be.                                        *)
  MaxLines   (* Bound on the length of the source.                         *)

(* A directive is a line whose first character is #.  "else_text" is text  *)
(* that begins with the keyword else of the language itself.               *)
Texts      == {"text", "else_text", "blank"}
Ifs        == {"ifdef", "ifndef", "if"}
Chain      == {"elif", "else", "endif"}
Directives == Ifs \cup Chain \cup {"define", "error"}

ASSUME LinesAssumption == \A l \in Lines : l.dir \in Texts \cup Directives
ASSUME BoundAssumption == MaxLines \in Nat

VARIABLES
  source,             (* The lines read so far.                            *)
  at_word,            (* Is loc at the word of the last line's directive,  *)
                      (* and not at the beginning of the next line?        *)
  on_new_line,        (* What skip_whitespace returns at the top level.    *)
  frames,             (* The calls of parse_if_chain.                      *)
  tokens,             (* The tokens of the program.                        *)
  macro_definitions,  (* The macros defined.                               *)
  phase,              (* "running", "done", "error", or "overrun" when loc *)
                      (* is beyond the end of the source.                  *)
  oddities            (* Not of the program: what is special about the     *)
                      (* source so far.                                    *)

vars == <<source, at_word, on_new_line, frames, tokens, macro_definitions,
          phase, oddities>>

Oddity == {"directive_after_endif", "directive_in_branch", "second_elif",
           "after_else", "else_text"}
Notes(what, holds) == oddities' = IF holds THEN oddities \cup {what} ELSE oddities

----------------------------------------------------------------------------
(* The frames of parse_if_chain.  pc is the place it is at: "body" is the  *)
(* call of do_tokenization, "nested" the test of the inner loop after a    *)
(* nested chain, "found" the first test behind the inner loop.             *)

Flags  == {"Nothing", "StopOnEndif", "StopOnElifElseEndif"}
Places == {"body", "nested", "found", "after_elif", "after_else"}
Branch == [cond : Lines, body : Seq(Nat)]

Frame(flags, line) ==
  [flags |-> flags, pc |-> "body", cond |-> line, body |-> <<>>,
   elifs |-> <<>>, else_branch |-> <<>>]
Contents(f) == [cond |-> f.cond, body |-> f.body]

Top      == Last(frames)
Word     == LET d == Last(source).dir IN IF d = "else_text" THEN "else" ELSE d
LineNo   == Len(source)
InFrame(pc) == phase = "running" /\ frames # <<>> /\ Top.pc = pc

SetTop(f) == frames' = Append(Front(frames), f)
Goto(pc)  == SetTop([Top EXCEPT !.pc = pc])
Push(flags, pc) ==
  frames' = Append(Append(Front(frames), [Top EXCEPT !.pc = pc]),
                   Frame(flags, Last(source)))

(* The next line is read.                                                  *)
Reads(l) ==
  /\ phase = "running" /\ ~at_word
  /\ Len(source) < MaxLines
  /\ l \in Lines
  /\ source' = Append(source, l)

----------------------------------------------------------------------------
(* Conditions.                                                             *)

(* test_if_condition; "bad" stands for an error in the expression.         *)
test_if_condition(c) ==
  CASE c.dir = "ifdef"  -> IF c.arg \in macro_definitions THEN "1" ELSE "0"
    [] c.dir = "ifndef" -> IF c.arg \in macro_definitions THEN "0" ELSE "1"
    [] OTHER            -> c.arg

(* Mutant: the last condition that holds selects.                          *)
LastHolds(f) ==
  LET tested == <<Contents(f)>> \o f.elifs
      held   == {i \in DOMAIN tested : test_if_condition(tested[i].cond) # "0"}
  IN  IF held = {} THEN IF f.else_branch = <<>> THEN <<>> ELSE f.else_branch[1].body
      ELSE LET i == CHOOSE i \in held : \A j \in held : j <= i
           IN  IF test_if_condition(tested[i].cond) = "1" THEN tested[i].body ELSE <<-1>>

(* The branches in the order they are tested, up to the first whose        *)
(* condition is not false.                                                 *)
handle_if_chain(f) ==
  LET tested == <<Contents(f)>> \o f.elifs
      held   == {i \in DOMAIN tested : test_if_condition(tested[i].cond) # "0"}
  IN  IF held = {} THEN IF f.else_branch = <<>> THEN <<>> ELSE f.else_branch[1].body
      ELSE LET i == CHOOSE i \in held : \A j \in held : i <= j
           IN  IF test_if_condition(tested[i].cond) = "1" THEN tested[i].body ELSE <<-1>>

----------------------------------------------------------------------------
(* At the top level.                                                       *)

AtTop(l) == frames = <<>> /\ Reads(l) /\ UNCHANGED <<at_word, frames>>
Handled  == on_new_line /\ on_new_line' = TRUE /\ UNCHANGED oddities

(* Mutant: the newline behind a line of text is gone, too.                 *)
TextEndsLine ==
  \E l \in Lines :
    /\ AtTop(l)
    /\ l.dir \in Texts
    /\ tokens' = IF l.dir = "blank" THEN tokens ELSE Append(tokens, LineNo + 1)
    /\ on_new_line' = FALSE
    /\ UNCHANGED <<macro_definitions, phase, oddities>>

Text ==
  \E l \in Lines :
    /\ AtTop(l)
    /\ l.dir \in Texts
    /\ tokens' = IF l.dir = "blank" THEN tokens ELSE Append(tokens, LineNo + 1)
    /\ on_new_line' = TRUE
    /\ UNCHANGED <<macro_definitions, phase, oddities>>

(* The newline behind an #endif is gone when skip_whitespace is called: a  *)
(* directive on the very next line is read as ordinary tokens.             *)
DirectiveAsText ==
  \E l \in Lines :
    /\ AtTop(l)
    /\ l.dir \in Directives
    /\ ~on_new_line
    /\ Notes("directive_after_endif", TRUE)
    /\ tokens' = Append(tokens, LineNo + 1)
    /\ on_new_line' = TRUE
    /\ UNCHANGED <<macro_definitions, phase>>

Define ==
  \E l \in Lines :
    /\ AtTop(l) /\ Handled
    /\ l.dir = "define"
    /\ IF l.arg \in macro_definitions
       THEN phase' = "error" /\ UNCHANGED macro_definitions
       ELSE macro_definitions' = macro_definitions \cup {l.arg} /\ UNCHANGED phase
    /\ UNCHANGED tokens

(* #error, and the directives that only a chain knows.                     *)
Error ==
  \E l \in Lines :
    /\ AtTop(l) /\ Handled
    /\ l.dir \in Chain \cup {"error"}
    /\ phase' = "error"
    /\ UNCHANGED <<tokens, macro_definitions>>

If ==
  \E l \in Lines :
    /\ frames = <<>> /\ Reads(l) /\ Handled
    /\ l.dir \in Ifs
    /\ frames' = <<Frame("Nothing", l)>>
    /\ UNCHANGED <<at_word, tokens, macro_definitions, phase>>

(* do_tokenization stops at the end of the source, but a chain goes on     *)
(* behind the NUL.                                                         *)
EndOfFile ==
  /\ phase = "running" /\ ~at_word
  /\ phase' = IF frames = <<>> THEN "done" ELSE "overrun"
  /\ UNCHANGED <<source, at_word, on_new_line, frames, tokens, macro_definitions,
                 oddities>>

----------------------------------------------------------------------------
(* The inner loop of parse_if_chain.                                       *)

InBody(l) ==
  /\ phase = "running" /\ frames # <<>> /\ Top.pc \in {"body", "nested"}
  /\ Reads(l)
  /\ UNCHANGED <<on_new_line, tokens, macro_definitions, phase>>

(* Behind a nested #endif the text itself is tested, without a #.          *)
ElseTextTaken(l) == Top.pc = "nested" /\ l.dir = "else_text"

(* Every directive but those of chains is taken for text.                  *)
BodyText ==
  \E l \in Lines :
    /\ InBody(l)
    /\ l.dir \notin Ifs \cup Chain /\ ~ElseTextTaken(l)
    /\ Notes("directive_in_branch", l.dir \in Directives)
    /\ SetTop([Top EXCEPT !.pc = "body",
                          !.body = IF l.dir = "blank" THEN @ ELSE Append(@, LineNo + 1)])
    /\ UNCHANGED at_word

BodyIf ==
  \E l \in Lines :
    /\ InBody(l)
    /\ l.dir \in Ifs
    /\ frames' = Append(frames, Frame("Nothing", l))
    /\ UNCHANGED <<at_word, oddities>>

BodyEnds ==
  \E l \in Lines :
    /\ InBody(l)
    /\ l.dir \in Chain \/ ElseTextTaken(l)
    /\ oddities' = oddities \cup
         (IF l.dir = "else_text" THEN {"else_text"}
          ELSE IF l.dir = "elif" /\ Top.flags = "StopOnElifElseEndif" THEN {"second_elif"}
          ELSE IF l.dir # "endif" /\ Top.flags = "StopOnEndif" THEN {"after_else"}
          ELSE {})
    /\ Goto("found")
    /\ at_word' = TRUE

(* Mutant: loc stays where it is.                                          *)
BodyWordStays ==
  /\ InFrame("body") /\ at_word
  /\ SetTop([Top EXCEPT !.body = Append(@, LineNo)])
  /\ UNCHANGED <<source, at_word, on_new_line, tokens, macro_definitions, phase, oddities>>

(* The outer loop came back with loc at the word of a second #elif.        *)
BodyWord ==
  /\ InFrame("body") /\ at_word
  /\ SetTop([Top EXCEPT !.body = Append(@, LineNo)])
  /\ at_word' = FALSE
  /\ UNCHANGED <<source, on_new_line, tokens, macro_definitions, phase, oddities>>

----------------------------------------------------------------------------
(* The outer loop.                                                         *)

Step == /\ at_word
        /\ UNCHANGED <<source, on_new_line, tokens, macro_definitions, phase, oddities>>

(* A recursive call returns into the frame below.                          *)
Return ==
  LET caller == Last(Front(frames))
  IN  frames' = Append(Front(Front(frames)),
                       IF Top.flags = "StopOnElifElseEndif"
                       THEN [caller EXCEPT !.elifs = Append(@, Contents(Top))]
                       ELSE [caller EXCEPT !.else_branch = <<Contents(Top)>>])

EndsHere == Top.flags = "StopOnEndif" /\ Word = "endif"

Found ==
  /\ InFrame("found") /\ Step
  /\ \/ /\ Top.flags = "StopOnElifElseEndif" \/ EndsHere
        /\ Return
        /\ UNCHANGED at_word
     \/ /\ Top.flags # "StopOnElifElseEndif" /\ Word = "elif"
        /\ Push("StopOnElifElseEndif", "after_elif")
        /\ at_word' = FALSE
     \/ /\ Top.flags # "StopOnElifElseEndif" /\ Word # "elif" /\ ~EndsHere
        /\ Goto("after_elif")
        /\ UNCHANGED at_word

AfterElif ==
  /\ InFrame("after_elif") /\ Step
  /\ \/ EndsHere /\ Return /\ UNCHANGED at_word
     \/ Word = "else" /\ Push("StopOnEndif", "after_else") /\ at_word' = FALSE
     \/ Word # "else" /\ ~EndsHere /\ Goto("after_else") /\ UNCHANGED at_word

AfterElse ==
  /\ InFrame("after_else") /\ Step
  /\ \/ Top.flags = "StopOnEndif" /\ Return
     \/ Top.flags = "Nothing" /\ Word # "endif" /\ Goto("body")
  /\ UNCHANGED at_word

(* Mutant: the enclosing chain is ended as well.                           *)
EndChainTwice ==
  /\ InFrame("after_else") /\ at_word
  /\ Top.flags = "Nothing" /\ Word = "endif"
  /\ frames' = <<>>
  /\ at_word' = FALSE
  /\ on_new_line' = FALSE
  /\ UNCHANGED <<source, tokens, macro_definitions, phase, oddities>>
(* The #endif of a chain: its line and its newline are skipped, and the    *)
(* tokens of one branch go to the body around the chain or to the program. *)
EndChain ==
  /\ InFrame("after_else") /\ at_word
  /\ Top.flags = "Nothing" /\ Word = "endif"
  /\ LET chosen == handle_if_chain(Top)
         around == Last(Front(frames))
     IN  IF chosen = <<-1>>
         THEN phase' = "error" /\ UNCHANGED <<frames, tokens>>
         ELSE IF Len(frames) = 1
         THEN tokens' = tokens \o chosen /\ frames' = <<>> /\ UNCHANGED phase
         ELSE /\ frames' = Append(Front(Front(frames)),
                                  [around EXCEPT !.body = @ \o chosen, !.pc = "nested"])
              /\ UNCHANGED <<tokens, phase>>
  /\ at_word' = FALSE
  /\ on_new_line' = FALSE
  /\ UNCHANGED <<source, macro_definitions, oddities>>

Stopped == phase # "running" /\ UNCHANGED vars

----------------------------------------------------------------------------
Init ==
  /\ source = <<>>
  /\ at_word = FALSE
  /\ on_new_line = TRUE
  /\ frames = <<>>
  /\ tokens = <<>>
  /\ macro_definitions = {}
  /\ phase = "running"
  /\ oddities = {}

Next ==
  \/ Text \/ DirectiveAsText \/ Define \/ Error \/ If \/ EndOfFile
  \/ BodyText \/ BodyIf \/ BodyEnds \/ BodyWord
  \/ Found \/ AfterElif \/ AfterElse \/ EndChain
  \/ Stopped

Spec == Init /\ [][Next]_vars

----------------------------------------------------------------------------
(* What a conditional section means: a stack of the open ones, each with   *)
(* the two facts whether its current branch is active and whether a branch *)
(* of it was.  A section in a branch that is not active has no active one. *)

Start == [out |-> <<>>, open |-> <<>>, defined |-> {}]

Active(s) == s.open = <<>> \/ Last(s.open).active
Holds(s, l) ==
  CASE l.dir = "ifdef"  -> l.arg \in s.defined
    [] l.dir = "ifndef" -> l.arg \notin s.defined
    [] OTHER            -> l.arg = "1"
Open(s, l) ==
  LET v == Active(s) /\ Holds(s, l) IN [active |-> v, done |-> v \/ ~Active(s)]
NextBranch(b, v) == [active |-> ~b.done /\ v, done |-> b.done \/ v]

(* What the n-th line l makes of s.                                        *)
Meant(s, n, l) ==
  LET branch(v) == [s EXCEPT !.open = Append(Front(@), NextBranch(Last(@), v))]
  IN  CASE l.dir \in Ifs    -> [s EXCEPT !.open = Append(@, Open(s, l))]
        [] l.dir = "elif"   -> branch(l.arg = "1")
        [] l.dir = "else"   -> branch(TRUE)
        [] l.dir = "endif"  -> [s EXCEPT !.open = Front(@)]
        [] l.dir = "define" /\ Active(s) -> [s EXCEPT !.defined = @ \cup {l.arg}]
        [] l.dir \in {"text", "else_text"} /\ Active(s) -> [s EXCEPT !.out = Append(@, n)]
        [] OTHER            -> s

(* The meaning of the first n lines of src.                                *)
MeantUpTo(src, n) ==
  LET meant[k \in 0 .. n] ==
        IF k = 0 THEN Start ELSE Meant(meant[k - 1], k, src[k])
  IN  meant[n]

----------------------------------------------------------------------------
(* Properties.                                                             *)
(* Outside of chains the program's tokens are those of the branches that   *)
(* the conditions select, and the macros those of the #defines met: of     *)
(* each chain exactly one branch is taken, whatever is nested in it.  Each *)
(* of the oddities is a source for which this is wrong.                    *)
SelectedBranches ==
  frames = <<>> /\ phase \in {"running", "done"} /\ oddities = {} =>
    LET meant == MeantUpTo(source, Len(source))
    IN  tokens = meant.out /\ macro_definitions = meant.defined

(* How many more chains begin than end in the lines from j to k.           *)
Nesting(j, k) ==
  Cardinality({i \in j .. k : source[i].dir \in Ifs})
    - Cardinality({i \in j .. k : source[i].dir = "endif"})

(* The chains under way.                                                   *)
Chains == {k \in DOMAIN frames : frames[k].flags = "Nothing"}

(* The recursion follows the nesting of the source: between two lines      *)
(* there is one chain under way for each #if whose #endif is still to      *)
(* come, so that no #endif is taken by another chain and loc leaves the    *)
(* source only if an #endif is missing.  Here a #define in a branch, or an *)
(* #elif too many, does no harm.                                           *)
NestingFollowsSource ==
  phase \in {"running", "done"} /\ ~at_word /\ "directive_after_endif" \notin oddities =>
    Cardinality(Chains) = Nesting(1, Len(source))

(* The tokens keep the order of the source, and no line is taken twice,    *)
(* whatever the oddities.                                                  *)
InOrder ==
  /\ \A i \in 1 .. Len(tokens) - 1 : tokens[i] < tokens[i + 1]
  /\ \A k \in DOMAIN frames :
       LET body == frames[k].body
       IN  \A i \in 1 .. Len(body) - 1 : body[i] < body[i + 1]

(* A directive is read as ordinary tokens in three places only: directly   *)
(* behind an #endif, whose newline is gone when skip_whitespace looks for  *)
(* it; within a chain, where #define and #error are not known; and as a    *)
(* second #elif.  Everywhere else it is handled.                           *)
Within(n, j) == source[j].dir \in Ifs /\ \A k \in j .. n - 1 : Nesting(j, k) > 0
DirectivesHandled ==
  frames = <<>> =>
    \A n \in Range(tokens) :
      \/ source[n].dir \notin Directives
      \/ n > 1 /\ source[n - 1].dir = "endif"
      \/ source[n].dir \in {"define", "error", "elif"}
         /\ \E j \in 1 .. n - 1 : Within(n, j)
=============================================================================
