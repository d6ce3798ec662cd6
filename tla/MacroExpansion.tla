--------------------------- MODULE MacroExpansion ---------------------------
(***************************************************************************)
(* Macros (preprocessor.c): #define puts them into the hash table, and the *)
(* tokens of a condition, or of the whole program, are expanded round by   *)
(* round (do_macro_expansion), each round from one list into another.      *)
(*                                                                         *)
(* A list is an array whose memory reaches beyond its size.  What an       *)
(* earlier, longer list left there is still there (stale), and what was    *)
(* never written may be anything.  do_macro_expansion looks at the token   *)
(* behind a macro's name even when that is the last of the list.           *)
(***************************************************************************)
EXTENDS HashTable, CPreprocessor

CONSTANTS
  Inputs,    (* Files to choose from: [defs, mode, sources].  The mode is  *)
             (* "if" when the source is a condition, "text" when it is the *)
             (* text of the program.                                       *)
  Rounds     (* 16 in the code.                                            *)

ASSUME RoundsAssumption == Rounds \in Nat \ {0}

VARIABLES
  program,        (* The file: [defs, mode, source].                       *)
  defined,        (* The number of definitions read.                       *)
  tokens,         (* The list that is expanded.                            *)
  stale,          (* What is known of the memory behind it.                *)
  i,              (* The loop variable of do_macro_expansion.              *)
  expanded_list,
  round,
  phase,          (* "define", "expand", "evaluate", "done", "error", or   *)
                  (* how the compiler fails.                               *)
  value,          (* Of the condition.                                     *)
  oddities        (* Not of the program: what was special so far.          *)

macroVars == <<program, defined, tokens, stale, i, expanded_list, round, phase,
               value, oddities>>
vars == <<tableVars, macroVars>>

Here    == tokens[i]
Running == phase = "expand" /\ i <= Len(tokens)

(* What C calls a token: its type and its data.                            *)
Plain(s) == [k \in DOMAIN s |-> <<Type(s[k]), Data(s[k])>>]

----------------------------------------------------------------------------
(* The file: the bodies of the macros, one behind the other, and then the  *)
(* source.  Every token knows its place.                                   *)

Bodies(p, n) == FlattenSeq([k \in 1 .. n |-> p.defs[k].tokens])
File(p)      == Bodies(p, Len(p.defs)) \o p.source
PlacedFrom(s, at) == [k \in DOMAIN s |-> <<Type(s[k]), Data(s[k]), at + k>>]

MacroDef(p, n) ==
  [args |-> p.defs[n].args, variadic |-> p.defs[n].variadic,
   tokens |-> PlacedFrom(p.defs[n].tokens, Len(Bodies(p, n - 1)))]

(* The macros of a program, as C sees them.                                *)
Macros(p) ==
  [name \in {p.defs[n].name : n \in DOMAIN p.defs} |->
     LET d == p.defs[CHOOSE n \in DOMAIN p.defs : p.defs[n].name = name]
     IN  [args |-> d.args, variadic |-> d.variadic, tokens |-> d.tokens]]

----------------------------------------------------------------------------
(* The call of a macro.                                                    *)

(* What may lie n places behind the list.                                  *)
Unwritten == {<<"lp", "", 0>>, <<"rp", "", 0>>, <<"junk", "", 0>>}
Behind(n) == IF n <= Len(stale) THEN {stale[n]} ELSE Unwritten

(* The places from the one behind the opening parenthesis to j.            *)
Depth(list, j) ==
  LET Count(type) == Cardinality({k \in i + 2 .. j : Type(list[k]) = type})
  IN  1 + Count("lp") - Count("rp")

(* Where the call may end.  The test against the size of the list comes    *)
(* one place late, and not at all before an empty list of arguments.       *)
Ends(list) ==
  LET last == IF i = Len(tokens) THEN i + 2 ELSE Len(tokens) + 1
  IN  {j \in i + 2 .. last : Depth(list, j) = 0}
End(list) == CHOOSE j \in Ends(list) : \A k \in Ends(list) : j <= k

Sorted(S) == [k \in 1 .. Cardinality(S) |->
                CHOOSE x \in S : Cardinality({y \in S : y < x}) = k - 1]

(* Mutant: a comma in inner parentheses separates arguments, too.          *)
ArgsAtAnyComma(list) ==
  LET inner == {j \in i + 2 .. End(list) - 1 : Type(list[j]) = "comma"}
      cuts  == Sorted({i + 1, End(list)} \cup inner)
  IN  IF End(list) = i + 2 THEN <<>>
      ELSE [k \in 1 .. Len(cuts) - 1 |-> SubSeq(list, cuts[k] + 1, cuts[k + 1] - 1)]

(* The arguments, separated by the commas that are in no inner parentheses.*)
Arguments(list) ==
  LET commas == {j \in i + 2 .. End(list) - 1 :
                   Type(list[j]) = "comma" /\ Depth(list, j) = 1}
      cuts   == Sorted({i + 1, End(list)} \cup commas)
  IN  IF End(list) = i + 2 THEN <<>>
      ELSE [k \in 1 .. Len(cuts) - 1 |-> SubSeq(list, cuts[k] + 1, cuts[k + 1] - 1)]

CountFits(def, args) ==
  IF def.variadic THEN Len(args) >= Len(def.args) ELSE Len(args) = Len(def.args)

----------------------------------------------------------------------------
(* The body of a macro, appended to what is expanded already: list is the  *)
(* expanded list, failed how the compiler failed, odd what was special.    *)

Params(def, t) == {k \in DOMAIN def.args : def.args[k] = Data(t)}

(* A # before a name, at place j.                                          *)
Hashed(def, j) ==
  /\ j < Len(def.tokens)
  /\ Type(def.tokens[j]) = "hash" /\ IsName(def.tokens[j + 1])

(* # makes a string of the file from the first token of the argument to    *)
(* its last one; without a token there is no string, and the name stays.   *)
Stringified(st, t, arg) ==
  LET from == At(arg[1])
      to   == At(arg[Len(arg)])
      text == [k \in 1 .. to - from + 1 |-> File(program)[from + k - 1]]
  IN  IF to < from THEN [st EXCEPT !.failed = "undefined"]
      ELSE [st EXCEPT !.list = Append(@, <<"str", text, At(t)>>),
                      !.odd  = IF text = Plain(arg) THEN @ ELSE @ \cup {"pieces"}]

StringOf(st, def, t, args) ==
  LET ks  == {k \in Params(def, t) : args[k] # <<>>}
      arg == args[CHOOSE k \in ks : TRUE]
  IN  IF ks = {} THEN [st EXCEPT !.list = Append(@, t), !.odd = @ \cup {"no_string"}]
                 ELSE Stringified(st, t, arg)

(* Mutant: the comma is taken away before the assertion looks for it.      *)
VaArgsPopsFirst(st, def, t, args, j) ==
  LET extra == SubSeq(args, Len(def.args) + 1, Len(args))
      comma == <<"comma", "", At(t)>>
  IN  IF extra # <<>>
      THEN [st EXCEPT !.list = @ \o FlattenSeq([k \in DOMAIN extra |->
              IF k < Len(extra) THEN Append(extra[k], comma) ELSE extra[k]])]
      ELSE IF Len(st.list) < 2 THEN [st EXCEPT !.failed = "undefined"]
      ELSE IF Type(Last(Front(st.list))) # "comma" THEN [st EXCEPT !.failed = "aborted"]
      ELSE [st EXCEPT !.list = Front(@)]

(* __VA_ARGS__: the arguments that have no name, with commas between them. *)
(* Without any, the comma in front goes: the assertion that there is one   *)
(* looks at the last token that is expanded, whatever macro it is from.    *)
VaArgs(st, def, t, args, j) ==
  LET extra == SubSeq(args, Len(def.args) + 1, Len(args))
      comma == <<"comma", "", At(t)>>
  IN  IF extra # <<>>
      THEN [st EXCEPT !.list = @ \o FlattenSeq([k \in DOMAIN extra |->
              IF k < Len(extra) THEN Append(extra[k], comma) ELSE extra[k]])]
      ELSE IF st.list = <<>> THEN [st EXCEPT !.failed = "undefined"]
      ELSE IF Type(Last(st.list)) # "comma" THEN [st EXCEPT !.failed = "aborted"]
      ELSE [st EXCEPT !.list = Front(@),
                      !.odd  = IF j > 1 /\ Type(def.tokens[j - 1]) = "comma"
                               THEN @ ELSE @ \cup {"foreign_comma"}]

(* Token j of the body.                                                    *)
BodyToken(st, def, j, args) ==
  LET t  == def.tokens[j]
      ks == Params(def, t)
      Adds(s) == [st EXCEPT !.list = @ \o s]
  IN  CASE st.failed # ""                  -> st
        [] j > 1 /\ Hashed(def, j - 1)     -> st
        [] Hashed(def, j)                  -> StringOf(st, def, def.tokens[j + 1], args)
        [] IsName(t) /\ def.variadic /\ Data(t) = "__VA_ARGS__" ->
             VaArgs(st, def, t, args, j)
        [] IsName(t) /\ def.variadic /\ Data(t) = "__VA_COUNT__" ->
             Adds(<<<<"int", Len(args), At(t)>>>>)
        [] IsName(t) /\ ks # {} ->
             Adds(args[CHOOSE k \in ks : \A m \in ks : k <= m])
        [] OTHER                           -> Adds(<<t>>)

Substituted(def, args) ==
  LET Step(st, j) == BodyToken(st, def, j, args)
  IN  FoldLeftDomain(Step, [list |-> expanded_list, failed |-> "", odd |-> {}], def.tokens)
----------------------------------------------------------------------------
(* The actions.                                                            *)

Init ==
  /\ mk_hash_table
  /\ \E in \in Inputs : \E s \in in.sources :
       program = [defs |-> in.defs, mode |-> in.mode, source |-> s]
  /\ defined = 0 /\ i = 1 /\ round = 0 /\ value = 0
  /\ tokens = <<>> /\ stale = <<>> /\ expanded_list = <<>>
  /\ phase = "define"
  /\ oddities = {}

(* A #define: one of a name that is taken is an error.                     *)
Define ==
  /\ phase = "define" /\ defined < Len(program.defs)
  /\ LET name == program.defs[defined + 1].name
     IN  IF Has(name)
         THEN /\ phase' = "error"
              /\ UNCHANGED <<tableVars, defined>>
         ELSE /\ InsertKey(name, MacroDef(program, defined + 1))
              /\ defined' = defined + 1
              /\ UNCHANGED phase
  /\ UNCHANGED <<program, tokens, stale, i, expanded_list, round, value, oddities>>

(* test_if_condition copies the condition into an array of its own;        *)
(* tokenize_program expands the program where it is.                       *)
StartExpansion ==
  /\ phase = "define" /\ defined = Len(program.defs)
  /\ tokens' = PlacedFrom(program.source, Len(Bodies(program, defined)))
  /\ phase' = "expand"
  /\ UNCHANGED <<tableVars, program, defined, stale, i, expanded_list, round, value, oddities>>

Expands(list, next, odd) ==
  /\ expanded_list' = list
  /\ i' = next
  /\ oddities' = oddities \cup odd
  /\ UNCHANGED <<tableVars, program, defined, tokens, stale, round, phase, value>>

Fails(how) ==
  /\ phase' = how
  /\ UNCHANGED <<tableVars, program, defined, tokens, stale, i, expanded_list, round,
                 value, oddities>>

AtDefined == program.mode = "if" /\ IsDefined(Here)
AtPlace   == ~AtDefined /\ IsName(Here) /\ Data(Here) \in {"__FILE__", "__LINE__"}
AtMacro   == ~AtDefined /\ ~AtPlace /\ IsName(Here) /\ Has(Data(Here))

(* defined ( X ) stays as it is; the token behind it is lost.              *)
KeepDefined ==
  /\ Running /\ AtDefined
  /\ IF DefinedCall(tokens, i)
     THEN Expands(expanded_list \o SubSeq(tokens, i, i + 3), i + 5,
                  IF i + 4 <= Len(tokens) THEN {"dropped"} ELSE {})
     ELSE Fails("error")

(* __FILE__ and __LINE__: where the token was read, so in the body of a    *)
(* macro the place of its definition.                                      *)
ExpandPlace ==
  /\ Running /\ AtPlace
  /\ Expands(Append(expanded_list,
                    IF Data(Here) = "__FILE__" THEN <<"str", <<>>, At(Here)>>
                                               ELSE <<"int", At(Here), At(Here)>>),
             i + 1, {"place"})

ExpandMacro ==
  /\ Running /\ AtMacro
  /\ \E b1 \in Behind(1), b2 \in Behind(2) :
       LET list   == tokens \o <<b1, b2>>
           def    == hash_table_get(Data(Here))
           called == Type(list[i + 1]) = "lp"
           args   == IF called THEN Arguments(list) ELSE <<>>
           end    == IF called THEN End(list) ELSE i
           result == Substituted(def, args)
           beyond == end > Len(tokens)
           odd    == {o \in {"beyond", "object_call", "name_alone"} :
                        \/ o = "beyond" /\ called /\ beyond
                        \/ o = "object_call" /\ called /\ ObjectLike(def)
                        \/ o = "name_alone" /\ ~called /\ ~ObjectLike(def)}
       IN  IF called /\ Ends(list) = {}
           THEN /\ phase' = "error"
                /\ oddities' = oddities \cup (IF i = Len(tokens) THEN {"beyond"}
                                              ELSE IF ObjectLike(def) THEN {"object_call"} ELSE {})
                /\ UNCHANGED <<tableVars, program, defined, tokens, stale, i, expanded_list,
                               round, value>>
           ELSE IF ~CountFits(def, args)
           THEN /\ phase' = "error"
                /\ oddities' = oddities \cup odd
                /\ UNCHANGED <<tableVars, program, defined, tokens, stale, i, expanded_list,
                               round, value>>
           ELSE IF result.failed # "" THEN Fails(result.failed)
           ELSE Expands(result.list, end + 1, odd \cup result.odd)

KeepToken ==
  /\ Running /\ ~AtDefined /\ ~AtPlace /\ ~AtMacro
  /\ Expands(Append(expanded_list, Here), i + 1, {})
(* The expanded list is copied over the old one, and a longer list stays   *)
(* behind it.  (Of a program's text the first round is done twice.)        *)
EndRound ==
  LET memory == tokens \o stale
  IN  /\ phase = "expand" /\ i > Len(tokens)
      /\ tokens' = expanded_list
      /\ stale' = SubSeq(memory, Len(expanded_list) + 1, Len(memory))
      /\ expanded_list' = <<>>
      /\ i' = 1
      /\ round' = round + 1
      /\ phase' = IF round + 1 < Rounds THEN "expand"
                  ELSE IF program.mode = "if" THEN "evaluate" ELSE "done"
      /\ UNCHANGED <<tableVars, program, defined, value, oddities>>

Evaluate ==
  /\ phase = "evaluate"
  /\ LET result == pp_evaluate_expr(tokens, Present)
     IN  /\ phase' = IF result.status = "ok" THEN "done" ELSE result.status
         /\ value' = result.value
  /\ UNCHANGED <<tableVars, program, defined, tokens, stale, i, expanded_list, round, oddities>>

Over    == {"done", "error", "aborted", "crashed", "undefined"}
Stopped == phase \in Over /\ UNCHANGED vars

Next ==
  \/ Define \/ StartExpansion
  \/ KeepDefined \/ ExpandPlace \/ ExpandMacro \/ KeepToken \/ EndRound
  \/ Evaluate
  \/ Stopped

Spec == Init /\ [][Next]_vars

----------------------------------------------------------------------------
(* Properties.                                                             *)

(* The text is what C makes of it, and an error is one in C, unless it was *)
(* special: a name without its call, an object-like macro before a         *)
(* parenthesis, a look beyond the end of the list, a string from several   *)
(* places (preprocessor.c:427-575).                                        *)
TextExpanded ==
  LET macros == Macros(program)
      meant  == Expanded(program.source, macros)
  IN  /\ program.mode = "text"
      /\ phase \in {"done", "error"} /\ defined = Len(program.defs)
      /\ oddities = {}
      /\ Weight(program.source, macros, Rounds + 1) <= Rounds
      => IF phase = "done" THEN Plain(tokens) = meant ELSE Error \in ToSet(meant)

(* A condition that means a number in C is true when C says so, unless     *)
(* operators bind equally strong, a token behind defined ( X ) was lost or *)
(* the expansion was special (pp_expr_parser.c:68-168).                    *)
ConditionValue ==
  LET macros  == Macros(program)
      meant   == Condition(program.source, macros)
      meaning == Meaning(meant)
  IN  /\ program.mode = "if"
      /\ phase \in Over /\ defined = Len(program.defs)
      /\ oddities = {}
      /\ Weight(program.source, macros, Rounds + 1) <= Rounds
      /\ ~EqualOperators(meant)
      => /\ Type(meaning) = "int" => phase = "done" /\ value = Data(meaning)
         /\ Type(meaning) = "crashed" => phase = "crashed"

(* How the compiler fails on macros and conditions: on a comma that is not *)
(* there (preprocessor.c:539), on operators that have no value in a        *)
(* condition, a parenthesis that stays open, a division by zero, a string  *)
(* that ends before it begins, and on a condition without a token.         *)
FailuresKnown ==
  LET Lone    == \E n \in DOMAIN program.defs :
                   LET body == program.defs[n].tokens
                   IN  /\ program.defs[n].variadic
                       /\ \E j \in DOMAIN body :
                            /\ body[j] = <<"id", "__VA_ARGS__">>
                            /\ j = 1 \/ body[j - 1] # <<"comma", "">>
      Hashes  == \E t \in ToSet(File(program)) : Type(t) = "hash"
      Ops(S)  == \E t \in ToSet(tokens) : Type(t) = "op" /\ Data(t) \in S
      Opened  == Cardinality({k \in DOMAIN tokens : Type(tokens[k]) = "lp"})
                   > Cardinality({k \in DOMAIN tokens : Type(tokens[k]) = "rp"})
  IN  /\ phase = "aborted" => Lone \/ Ops({"++", "--", "in"}) \/ Opened
      /\ phase = "crashed" => Ops({"/", "%"})
      /\ phase = "undefined" => Lone \/ Hashes \/ tokens = <<>>
=============================================================================
