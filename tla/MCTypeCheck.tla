---------------------------- MODULE MCTypeCheck -----------------------------
(* The types of a small program, for the model checker.                    *)
EXTENDS TypeCheck

Point == Struct("point")

MCVarTypes   == {INT, REAL, Point, Pointer(INT), Array(INT), Optional(REAL),
                 Function(INT, <<>>), Function(INT, <<INT>>)}
MCSignatures == {[ret |-> REAL, params |-> <<INT, Optional(REAL)>>],
                 [ret |-> INT, params |-> <<SPEC_ARRAY>>],
                 [ret |-> STR, params |-> <<REAL>>]}
MCOverloads  == {[op |-> "add", params |-> <<Point, Point>>, ret |-> Point],
                 [op |-> "eq", params |-> <<Point, INT>>, ret |-> INT],
                 [op |-> "not", params |-> <<Point>>, ret |-> REAL]}
MCCasts      == {INT, REAL, STR, Pointer(INT), Array(INT), Point}
=============================================================================
