------------------------------ MODULE MCScopes ------------------------------
(* Two functions, one with a parameter, and three names, for the model     *)
(* checker.                                                                *)
EXTENDS Scopes

MCParams == <<<<"p">>, <<>>>>
MCForms  == {"ident", "binop", "ternary", "assign", "call", "addr", "match",
             "return", "decl", "if", "compound", "while", "do", "for",
             "foreach", "loop_ctrl", "global"}
=============================================================================
