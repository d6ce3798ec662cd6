--------------------------- MODULE MCPreprocessor ---------------------------
(* The lines of small sources, for the model checker.                      *)
EXTENDS Preprocessor

L(dir, arg) == [dir |-> dir, arg |-> arg]

Sources == {L("text", ""), L("else_text", ""), L("define", "A"),
            L("ifdef", "A"), L("ifndef", "A"), L("if", "bad"),
            L("elif", "0"), L("elif", "1"), L("else", ""), L("endif", "")}
=============================================================================
