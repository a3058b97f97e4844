----------------------------- MODULE MCWorkQueue -----------------------------
(* Small instances of WorkQueue for TLC. *)
EXTENDS WorkQueue, TLC

CONSTANTS s1, s2

TwoSenders == {s1, s2}
Infinite == {"INFINITE"}
FiniteOrInfinite == {"finite", "INFINITE"}

=============================================================================
