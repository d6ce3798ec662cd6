-------------------------------- MODULE Map ---------------------------------
(***************************************************************************)
(* What a hash table promises: a map from some of the keys to values.  A   *)
(* key is inserted once.                                                   *)
(***************************************************************************)
CONSTANTS Keys, Values

VARIABLE map

Init == map = [k \in {} |-> k]

(* One key more, the others as before.                                     *)
Insert ==
  \E k \in DOMAIN map' \ DOMAIN map :
    /\ k \in Keys /\ map'[k] \in Values
    /\ DOMAIN map' = DOMAIN map \cup {k}
    /\ \A x \in DOMAIN map : map'[x] = map[x]

(* One key less, the others as before.                                     *)
Remove ==
  \E k \in DOMAIN map \ DOMAIN map' :
    /\ DOMAIN map' = DOMAIN map \ {k}
    /\ \A x \in DOMAIN map' : map'[x] = map[x]

Clear == DOMAIN map # {} /\ DOMAIN map' = {}

Next == Insert \/ Remove \/ Clear

Spec == Init /\ [][Next]_map
=============================================================================
