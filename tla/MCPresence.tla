----------------------------- MODULE MCPresence -----------------------------
(* What happens in one behaviour: the launcher owns the card, hangs, and   *)
(* the game quits; joins from both sides; friends come and are asked; a    *)
(* match is opened for a friend.                                           *)
EXTENDS Presence

MCScenario ==
    {{"owner", "wedge", "quit"}, {"connect", "join", "ready"}, {"friends", "ask"},
     {"open-match", "play"}}
=============================================================================
