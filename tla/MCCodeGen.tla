----------------------------- MODULE MCCodeGen -----------------------------
(* Small programs for the model checker: constants of CodeGen that a .cfg  *)
(* cannot write.                                                           *)
EXTENDS CodeFlowInv

MCNames         == {"main", "f"}
MCArity         == [n \in MCNames |-> IF n = "f" THEN 1 ELSE 0]
MCFunctionLists == {<<>>, <<"f", "main">>}
OnlyMain        == {<<"main">>}

(* Nested statements, and the expressions whose code is balanced: neither  *)
(* a match, which falls behind its last case without a value, nor the      *)
(* discarded forms that are popped or not.                                 *)
NestForms    ==
  {"while", "for", "foreach", "do", "break", "continue", "if", "return",
   "discarded", "assign_expr", "binop", "ternary"}
FlatForms    ==
  {"while", "foreach", "break", "if", "return", "compound", "decl", "global",
   "struct", "discarded", "discard_binop", "discard_ternary", "assign_expr",
   "binop", "unary", "ternary", "call", "string", "match"}
DiscardForms == {"while", "compound", "discarded", "discard_binop"}
=============================================================================
