-------------------------------- MODULE KeyMap --------------------------------
(***************************************************************************)
(* What a dictionary promises: each key has at most one value, the first   *)
(* it was given, until it is removed.                                      *)
(***************************************************************************)
CONSTANTS Keys, Values

VARIABLE map

Init == map = [k \in {} |-> {}]

Add(k, v) ==
  /\ k \notin DOMAIN map
  /\ map' = [j \in DOMAIN map \cup {k} |-> IF j = k THEN v ELSE map[j]]

Remove(k) ==
  /\ k \in DOMAIN map
  /\ map' = [j \in DOMAIN map \ {k} |-> map[j]]

Next == \E k \in Keys : Remove(k) \/ \E v \in Values : Add(k, v)

Spec == Init /\ [][Next]_map
=============================================================================
