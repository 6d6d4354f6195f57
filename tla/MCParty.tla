------------------------------ MODULE MCParty ------------------------------
(* Two servers of different session modes.                                 *)
EXTENDS Party

CONSTANTS A, B, multiplayer, zombies

MCServer == {A, B}
MCMode == {multiplayer, zombies}
MCModeOf == [s \in MCServer |-> IF s = A THEN multiplayer ELSE zombies]

(* The same two servers in one mode.                                       *)
MCSameMode == [s \in MCServer |-> multiplayer]
=============================================================================
