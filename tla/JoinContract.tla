---------------------------- MODULE JoinContract ----------------------------
(***************************************************************************)
(* What party.cpp and client_fps_limit.cpp promise each other of the join  *)
(* under way.  party asks for a server and so begins a new join, which     *)
(* takes the place of any other; it hands a join to the engine at most     *)
(* once, and only while it is the current one.  client_fps_limit retires   *)
(* none but a join that was handed over, and it is not current again.      *)
(* Party and JoinPolicy, which each know one side in detail, are both      *)
(* shown to keep it.                                                       *)
(***************************************************************************)
EXTENDS Naturals

CONSTANTS Server, NoServer, MaxJoins

VARIABLES
    server,        \* of the newest join, which generation numbers
    generation,
    current_join,  \* it is neither retired nor replaced
    join_started,  \* it is in the engine's hands
    handed         \* how often each generation was handed to the engine

join == <<server, generation, current_join, join_started, handed>>

Init ==
    /\ server = NoServer /\ generation = 0
    /\ current_join = FALSE /\ join_started = FALSE
    /\ handed = [g \in 1 .. MaxJoins |-> 0]

Begin(s) ==
    /\ generation < MaxJoins
    /\ server' = s /\ generation' = generation + 1
    /\ current_join' = TRUE /\ join_started' = FALSE
    /\ UNCHANGED handed

Start ==
    /\ current_join /\ handed[generation] = 0
    /\ join_started' = TRUE
    /\ handed' = [handed EXCEPT ![generation] = @ + 1]
    /\ UNCHANGED <<server, generation, current_join>>

Retire ==
    /\ current_join /\ join_started
    /\ current_join' = FALSE /\ join_started' = FALSE
    /\ UNCHANGED <<server, generation, handed>>

Next == (\E s \in Server : Begin(s)) \/ Start \/ Retire

Spec == Init /\ [][Next]_join
=============================================================================
