-------------------------------- MODULE Links --------------------------------
(***************************************************************************)
(* Lists as the program has them: a pointer to the first node, and in each *)
(* node a pointer to the next one.  What a loop from the first node on     *)
(* meets is the least set that contains it and follows the pointers.       *)
(***************************************************************************)
EXTENDS Naturals, Sequences, FiniteSets

NULL == 0

(* Has S the node that pointer points to, if there is one? *)
Holds(S, pointer) == pointer # NULL => pointer \in S

Closed(link, S) == \A p \in S : Holds(S, link[p])

(* The nodes from start on. *)
Reach(link, start) ==
  LET walks == {S \in SUBSET DOMAIN link : start \in S /\ Closed(link, S)}
  IN IF start = NULL THEN {} ELSE {p \in DOMAIN link : \A S \in walks : p \in S}

(* The last of them, where a loop to the end stops; in a circle, it goes   *)
(* on for ever.                                                            *)
EndOf(link, start) == CHOOSE p \in Reach(link, start) : link[p] = NULL

Circular(link, start) == start # NULL /\ \A p \in Reach(link, start) : link[p] # NULL

(* link without the node p, in the list that starts at start. *)
Bypass(link, start, p) ==
  [q \in DOMAIN link |-> IF link[q] = p /\ q \in Reach(link, start) THEN link[p] ELSE link[q]]

(* Are the nodes from start on, in order, those of the sequence s? *)
IsList(link, start, s) ==
  /\ start = IF s = << >> THEN NULL ELSE s[1]
  /\ \A n \in 1 .. Len(s) : link[s[n]] = IF n = Len(s) THEN NULL ELSE s[n + 1]
=============================================================================
