------------------------------ MODULE MCIpcQueue ------------------------------
(* Small instances of IpcQueue for TLC. *)
EXTENDS IpcQueue, TLC

CONSTANTS o1, o2, c1, c2

OneOwner == {o1}
TwoOwners == {o1, o2}
TwoClients == {c1, c2}
Second == {c2}
Nobody == {}

(* The owners are alike, and so are the clients. *)
Symmetry == Permutations(TwoOwners) \cup Permutations(TwoClients)
=============================================================================
