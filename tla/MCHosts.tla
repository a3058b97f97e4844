------------------------------- MODULE MCHosts -------------------------------
(* Small instances of Hosts for TLC. *)
EXTENDS Hosts, TLC

Nobody == {}
First == {1}
Second == {2}
FirstTwo == {1, 2}
NoRoute == {}
OneRoute == {0}

(* Both send to each other, and to themselves or only the first does. *)
Everybody == <<{1, 2}, {1, 2}>>
Partly == <<{1, 2}, {1}>>
Backward == <<{}, {1}>>
Silent == <<{}, {}>>
SilentThree == <<{}, {}, {}>>
=============================================================================
