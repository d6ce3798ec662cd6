------------------------------- MODULE Types --------------------------------
(***************************************************************************)
(* The types of the language and their comparisons (types.c).              *)
(*                                                                         *)
(* A type is a tuple: its kind, or its name when the kind is BASIC, and    *)
(* what the union holds.  The "spec" types are those of the builtins'      *)
(* parameters and of null.                                                 *)
(***************************************************************************)
EXTENDS Integers, Sequences

INT          == <<"int">>
REAL         == <<"real">>
STR          == <<"str">>
VOID         == <<"void">>
SPEC_ARRAY   == <<"spec_array">>
SPEC_POINTER == <<"spec_pointer">>
SPEC_NULL    == <<"spec_null">>
SPEC_ANY     == <<"spec_any">>
Struct(s)    == <<"struct", s>>
Pointer(t)   == <<"pointer", t>>
Array(t)     == <<"array", t>>
Optional(t)  == <<"optional", t>>
Function(ret, params) == <<"function", ret, params>>

kind(t)   == IF t[1] \in {"pointer", "array", "optional", "function"} THEN t[1] ELSE "basic"
Of(t)     == t[2]       (* what is pointed to, an element, what is optional *)
is_struct(t) == t[1] = "struct"

POD     == {INT, REAL, STR, VOID}
Special == {SPEC_ARRAY, SPEC_POINTER, SPEC_NULL, SPEC_ANY}

(* A special type on one side accepts a whole kind on the other.           *)
Special1(s, t) ==
  \/ s = SPEC_ARRAY /\ (kind(t) = "array" \/ t = STR)
  \/ s \in {SPEC_POINTER, SPEC_NULL} /\ kind(t) = "pointer"
  \/ s = SPEC_ANY

(* Mutant: the parameters of two function types are not counted.           *)
RECURSIVE SameReturn(_, _)
SameReturn(l, r) ==
  \/ Special1(l, r) \/ Special1(r, l)
  \/ /\ kind(l) = kind(r)
     /\ CASE kind(l) \in {"pointer", "optional", "array"} -> SameReturn(Of(l), Of(r))
          [] kind(l) = "function" ->
               /\ SameReturn(l[2], r[2])
               /\ \A i \in DOMAIN l[3] \cap DOMAIN r[3] : SameReturn(l[3][i], r[3][i])
          [] OTHER -> l = r

RECURSIVE cmp_types(_, _)
cmp_types(l, r) ==
  \/ Special1(l, r) \/ Special1(r, l)
  \/ /\ kind(l) = kind(r)
     /\ CASE kind(l) \in {"pointer", "optional", "array"} -> cmp_types(Of(l), Of(r))
          [] kind(l) = "function" ->
               /\ cmp_types(l[2], r[2])
               /\ Len(l[3]) = Len(r[3])
               /\ \A i \in DOMAIN l[3] : cmp_types(l[3][i], r[3][i])
          [] OTHER -> l = r

(* 2: implicit, 1: explicit only.                                          *)
cast_matrix(from, to) ==
  IF from = to /\ from # VOID THEN 2
  ELSE IF from = INT /\ to = REAL THEN 2
  ELSE IF from = REAL /\ to = INT THEN 1
  ELSE 0

(* The outcomes of can_implicit_cast (level 2) and can_explicit_cast       *)
(* (level 1).  The matrix has no row and no column for a special type: it  *)
(* is read out of bounds then, and the outcome is whatever lies there.     *)
CanCast(from, to, level) ==
  IF cmp_types(from, to) THEN {TRUE}
  ELSE IF kind(from) # "basic" \/ kind(to) # "basic" \/ is_struct(from) \/ is_struct(to)
  THEN {FALSE}
  ELSE IF {from, to} \cap Special # {} THEN BOOLEAN
  ELSE {cast_matrix(from, to) >= level}

can_implicit_cast(from, to) == CanCast(from, to, 2)
can_explicit_cast(from, to) == CanCast(from, to, 1)

----------------------------------------------------------------------------
(* For the properties and the bounds of the models.                        *)

(* No special type anywhere.                                               *)
RECURSIVE IsPlain(_)
IsPlain(t) ==
  CASE kind(t) \in {"pointer", "optional", "array"} -> IsPlain(Of(t))
    [] kind(t) = "function" -> IsPlain(t[2]) /\ \A i \in DOMAIN t[3] : IsPlain(t[3][i])
    [] OTHER -> t \notin Special

(* How many pointers, arrays and optionals are nested.                     *)
RECURSIVE Depth(_)
Depth(t) == IF kind(t) \in {"pointer", "optional", "array"} THEN 1 + Depth(Of(t)) ELSE 0
=============================================================================
