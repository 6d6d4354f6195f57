---------------------------- MODULE MCClientLife ----------------------------
(* The second release no longer has one of the files of the first.         *)
EXTENDS ClientLife

CONSTANTS ui, old

MCFiles == [r \in 0 .. 1 |-> IF r = 0 THEN {ui, old} ELSE {ui}]
=============================================================================
