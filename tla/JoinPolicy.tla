----------------------------- MODULE JoinPolicy -----------------------------
(***************************************************************************)
(* The frame cap a dedicated server may put on its players:                *)
(* component/client_fps_limit.cpp.                                         *)
(*                                                                         *)
(* The main thread begins joins, hands over the verified info of a server  *)
(* and brackets the engine's join.  The renderer thread decides in every   *)
(* frame whether the cap applies: it reads the state of the connection,    *)
(* takes the lock, and only then looks at the policy and at the peer.  The *)
(* engine, on the main thread, moves on in between.                        *)
(*                                                                         *)
(* party.cpp is any caller: it may hand over info for any generation it    *)
(* was given, as often as it likes.  The pacing of a capped frame is left  *)
(* out.                                                                    *)
(***************************************************************************)
EXTENDS Naturals

CONSTANTS
    Server,
    Loopback,   \* the address of a match of this client's own, and of the frontend
    NoServer,
    MaxJoins    \* bound: join generations

ASSUME JoinPolicyAssumption ==
    Loopback \notin Server /\ NoServer \notin Server \cup {Loopback} /\ MaxJoins \in Nat

Generation == 1 .. MaxJoins
Address == Server \cup {Loopback, NoServer}

(* connectionState, by the comparisons the code makes.                     *)
State == {"idle", "connecting", "connected", "active"}
Connected == {"connected", "active"}

VARIABLES
    policy, established,  \* guarded by policy_mutex
    main,        \* where the main thread is in connect_to_lobby, and for which join
    frame,       \* the state active_join_policy has read, or "none"
    state,       \* connectionState
    peer,        \* get_connected_server
    frontend,    \* Com_IsRunningUILevel
    target,      \* a server the engine will turn to later
    asked,       \* history: the server of each generation
    first_info,  \* history: the first info handed over for each generation
    armed,       \* history: how often each generation armed the cap
    away,        \* history: the client was not on the server since the cap was armed
    handed       \* history: how often each generation was handed to the engine

engine == <<state, peer, frontend, target>>
history == <<asked, first_info, armed>>
vars == <<policy, established, main, frame, engine, history, away, handed>>

NoPolicy == [server |-> NoServer, prior_server |-> NoServer, generation |-> 0,
             current_join |-> FALSE, info_received |-> FALSE, enabled |-> FALSE,
             join_started |-> FALSE, awaiting_departure |-> FALSE,
             observed_attempt |-> FALSE, late |-> FALSE]

NoCap == [server |-> NoServer, generation |-> 0, enabled |-> FALSE]

Free == [at |-> "free", generation |-> 0]

Init ==
    /\ policy = NoPolicy /\ established = NoCap
    /\ main = Free /\ frame = "none"
    /\ state = "active" /\ peer = Loopback /\ frontend = TRUE /\ target = NoServer
    /\ asked = [g \in Generation |-> NoServer]
    /\ first_info = [g \in Generation |-> "none"]
    /\ armed = [g \in Generation |-> 0]
    /\ away = FALSE
    /\ handed = [g \in Generation |-> 0]

AtServer == established.enabled /\ state \in Connected /\ peer = established.server

(* The histories of away and of handed, conjuncts of every step.           *)
Away ==
    away' = IF established' # established /\ established'.enabled
            THEN ~AtServer'
            ELSE away \/ ~AtServer'

Handed ==
    handed' = IF main = Free /\ main' # Free
              THEN [handed EXCEPT ![main'.generation] = @ + 1]
              ELSE handed

Past == Away /\ Handed

-----------------------------------------------------------------------------
(* The main thread                                                         *)

begin_join(s) ==
    /\ main = Free
    /\ policy.generation < MaxJoins
    /\ policy' = [NoPolicy EXCEPT !.server = s, !.generation = policy.generation + 1,
                                  !.current_join = TRUE]
    /\ asked' = [asked EXCEPT ![policy'.generation] = s]
    /\ UNCHANGED <<established, main, frame, engine, first_info, armed>>

is_current_join(g) ==
    policy.current_join /\ policy.generation = g /\ policy.server = asked[g]

(* Mutant: any current join takes the info.                                *)
accept_verified_join_info_Any(g, capped) ==
    /\ main = Free
    /\ policy' = IF policy.current_join /\ ~policy.info_received
                 THEN [policy EXCEPT !.info_received = TRUE, !.enabled = capped]
                 ELSE policy
    /\ first_info' = IF first_info[g] = "none"
                     THEN [first_info EXCEPT ![g] = IF capped THEN "capped" ELSE "free"]
                     ELSE first_info
    /\ UNCHANGED <<established, main, frame, engine, asked, armed>>

(* The info of a server that answered the query of generation g; capped    *)
(* when it is dedicated, has an IP address and asks for the fixed limit.   *)
accept_verified_join_info(g, capped) ==
    /\ main = Free
    /\ policy' = IF is_current_join(g) /\ ~policy.info_received
                 THEN [policy EXCEPT !.info_received = TRUE, !.enabled = capped]
                 ELSE policy
    /\ first_info' = IF first_info[g] = "none"
                     THEN [first_info EXCEPT ![g] = IF capped THEN "capped" ELSE "free"]
                     ELSE first_info
    /\ UNCHANGED <<established, main, frame, engine, asked, armed>>

Prepared ==
    LET leaving == state \in Connected
    IN  [policy EXCEPT !.join_started = TRUE,
                       !.awaiting_departure = leaving,
                       !.prior_server = IF leaving THEN peer ELSE NoServer,
                       !.observed_attempt = state = "connecting",
                       !.late = FALSE]

(* Mutant: the cap of the present match ends with the new join.            *)
prepare_native_join_Drops(g) ==
    /\ main = Free
    /\ is_current_join(g) /\ ~policy.join_started
    /\ policy' = Prepared
    /\ established' = NoCap
    /\ main' = [at |-> "prepared", generation |-> g]
    /\ UNCHANGED <<frame, engine, history>>

(* party.cpp gets here once per generation: JoinsOnce of Party.            *)
prepare_native_join(g) ==
    /\ main = Free
    /\ is_current_join(g) /\ ~policy.join_started
    /\ policy' = Prepared
    /\ main' = [at |-> "prepared", generation |-> g]
    /\ UNCHANGED <<established, frame, engine, history>>

(* The engine leaves its match and connects, puts that off, or refuses.    *)
CL_ConnectFromLobby ==
    /\ main.at = "prepared"
    /\ main' = [main EXCEPT !.at = "joined"]
    /\ \/ /\ state' = "connecting" /\ peer' = asked[main.generation] /\ frontend' = FALSE
          /\ target' = NoServer
       \/ target' = asked[main.generation] /\ UNCHANGED <<state, peer, frontend>>
       \/ UNCHANGED engine
    /\ UNCHANGED <<policy, established, frame, history>>

observe_native_join_start ==
    LET departed == \/ state \notin Connected
                    \/ policy.awaiting_departure /\ peer # policy.prior_server
    IN  /\ main.at = "joined"
        /\ main' = Free
        /\ IF is_current_join(main.generation) /\ policy.join_started
           THEN /\ policy' = [policy EXCEPT
                       !.awaiting_departure = @ /\ ~departed,
                       !.observed_attempt = @ \/ state = "connecting"]
                /\ established' = IF departed THEN NoCap ELSE established
           ELSE UNCHANGED <<policy, established>>
        /\ UNCHANGED <<frame, engine, history>>

-----------------------------------------------------------------------------
(* The renderer thread                                                     *)

(* active_join_policy up to the lock.                                      *)
read_state ==
    /\ frame = "none"
    /\ frame' = state
    /\ UNCHANGED <<policy, established, main, engine, history>>

(* Mutant: the join is not retired when it arms the cap.                   *)
retire_join_policy_Not(p) == p

retire_join_policy(p) ==
    [p EXCEPT !.current_join = FALSE, !.enabled = FALSE, !.join_started = FALSE,
              !.observed_attempt = FALSE]

server == IF frame \in Connected THEN peer ELSE NoServer

local_match ==
    /\ frame = "active" /\ state = "active"
    /\ peer = Loopback /\ ~frontend

(* Mutant: the peer is not compared.                                       *)
CapLost_AnyPeer == frame \notin Connected \/ local_match

(* The cap does not outlive the match it was armed for.                    *)
CapLost == frame \notin Connected \/ server # established.server \/ local_match

Started == policy.current_join /\ policy.join_started

(* Nothing has shown yet that the client left the match it was in.         *)
StillThere ==
    /\ policy.awaiting_departure
    /\ frame \in Connected /\ server = policy.prior_server

Arrived ==
    /\ Started /\ frame \in Connected
    /\ ~StillThere /\ ~local_match
    /\ server = policy.server

(* Mutant: the deadline counts only for a client that is not connected.    *)
Over_WhileIdle ==
    /\ Started
    /\ \/ frame = "idle" /\ (policy.observed_attempt \/ policy.late)
       \/ frame \in Connected /\ ~StillThere /\ local_match

(* The join came to nothing.                                               *)
Over ==
    /\ Started
    /\ \/ frame = "idle" /\ (policy.observed_attempt \/ policy.late)
       \/ frame \in Connected /\ ~StillThere /\ local_match
       \/ frame \in Connected /\ ~policy.observed_attempt /\ policy.late

Watched == [policy EXCEPT !.awaiting_departure = StillThere,
                          !.observed_attempt = @ \/ frame = "connecting"]

CapAfter ==
    IF Arrived /\ policy.enabled
    THEN [server |-> policy.server, generation |-> policy.generation, enabled |-> TRUE]
    ELSE IF established.enabled /\ CapLost THEN NoCap
    ELSE established

(* active_join_policy under the lock, to the end of the frame.             *)
active_join_policy ==
    /\ frame # "none"
    /\ frame' = "none"
    /\ established' = CapAfter
    /\ armed' = IF Arrived /\ policy.enabled
                THEN [armed EXCEPT ![policy.generation] = @ + 1]
                ELSE armed
    /\ policy' = IF Arrived \/ Over THEN retire_join_policy(Watched)
                 ELSE IF Started THEN Watched
                 ELSE policy
    /\ UNCHANGED <<main, engine, asked, first_info>>

-----------------------------------------------------------------------------
(* The engine, on the main thread, and time                                *)

EngineUnchanged == UNCHANGED <<policy, established, main, frame, history>>

StartsConnecting ==
    /\ main = Free /\ target # NoServer
    /\ state' = "connecting" /\ peer' = target /\ frontend' = FALSE /\ target' = NoServer
    /\ EngineUnchanged

Advances ==
    /\ main = Free
    /\ \/ state = "connecting" /\ state' = "connected"
       \/ state = "connected" /\ state' = "active"
    /\ UNCHANGED <<peer, frontend, target>> /\ EngineUnchanged

(* The address of the last peer stays where it is.                         *)
Disconnects ==
    /\ main = Free /\ state # "idle"
    /\ state' = "idle"
    /\ UNCHANGED <<peer, frontend, target>> /\ EngineUnchanged

(* A match of the client's own, or the frontend.                           *)
LoadsLocally ==
    /\ main = Free /\ state = "idle"
    /\ state' = "connected" /\ peer' = Loopback /\ frontend' \in BOOLEAN
    /\ UNCHANGED target /\ EngineUnchanged

(* Sixty seconds since prepare_native_join.                                *)
DeadlinePasses ==
    /\ policy.join_started /\ ~policy.late
    /\ policy' = [policy EXCEPT !.late = TRUE]
    /\ UNCHANGED <<established, main, frame, engine, history>>

Main ==
    \/ \E s \in Server : begin_join(s)
    \/ \E g \in 1 .. policy.generation, capped \in BOOLEAN : accept_verified_join_info(g, capped)
    \/ \E g \in 1 .. policy.generation : prepare_native_join(g)
    \/ CL_ConnectFromLobby \/ observe_native_join_start

Renderer == read_state \/ active_join_policy

Engine == StartsConnecting \/ Advances \/ Disconnects \/ LoadsLocally

Next == (Main \/ Renderer \/ Engine \/ DeadlinePasses) /\ Past

Spec == Init /\ [][Next]_vars

(* Frames go on, and the calls that bracket the engine's join return.      *)
FairSpec ==
    /\ Spec
    /\ WF_vars(Renderer /\ Past)
    /\ WF_vars((CL_ConnectFromLobby \/ observe_native_join_start) /\ Past)
    /\ WF_vars(DeadlinePasses /\ Past)

-----------------------------------------------------------------------------
TypeOK ==
    /\ policy \in [server : Server \cup {NoServer}, prior_server : Address,
                   generation : 0 .. MaxJoins, current_join : BOOLEAN,
                   info_received : BOOLEAN, enabled : BOOLEAN, join_started : BOOLEAN,
                   awaiting_departure : BOOLEAN, observed_attempt : BOOLEAN, late : BOOLEAN]
    /\ established \in [server : Server, generation : Generation, enabled : {TRUE}] \cup {NoCap}
    /\ main \in [at : {"prepared", "joined"}, generation : 1 .. policy.generation] \cup {Free}
    /\ frame \in State \cup {"none"} /\ state \in State
    /\ peer \in Server \cup {Loopback} /\ frontend \in BOOLEAN
    /\ target \in Server \cup {NoServer}
    /\ asked \in [Generation -> Server \cup {NoServer}]
    /\ first_info \in [Generation -> {"none", "capped", "free"}]
    /\ armed \in [Generation -> Nat]
    /\ away \in BOOLEAN
    /\ handed \in [Generation -> Nat]

(* "Only the checked connect-query callback may arm a fixed cap policy":   *)
(* a cap in force belongs to a join whose first verified info asked for    *)
(* it, and to the server that join was for.                                *)
ArmedByVerified ==
    established.enabled =>
        /\ first_info[established.generation] = "capped"
        /\ asked[established.generation] = established.server

(* "Consume this generation; retries begin a fresh one": no join arms the  *)
(* cap twice, however the frames fall.                                     *)
OncePerGeneration == \A g \in Generation : armed[g] <= 1

(* "A failed/pending new query must not remove the established match's     *)
(* cap": a cap in force ends, or passes to another join, only after the    *)
(* client was away from the server.                                        *)
CapKept == [][established.enabled /\ established' # established => away]_vars

(* What Party sees of the policy.                                          *)
Joins == INSTANCE JoinContract WITH
    server <- policy.server, generation <- policy.generation,
    current_join <- policy.current_join, join_started <- policy.join_started

(* The policy changes for party as the contract says: no frame and no late *)
(* call retires, starts or revives another join than the current one.      *)
KeepsContract == Joins!Spec

(* A client that stays away from the server loses its cap.                 *)
CapEnds == (established.enabled /\ ~AtServer) ~> (~established.enabled \/ AtServer)

(* A join of which no attempt shows (the engine refused it or put it off,  *)
(* in a match, in the frontend or idle) is retired, by the deadline if     *)
(* nothing else, and one that was attempted by the first frame that sees   *)
(* the client idle.  What may stay pending is an attempt that failed       *)
(* between two frames, none of which sees the client idle again.           *)
JoinRetires ==
    policy.join_started ~>
        \/ ~policy.join_started
        \/ policy.observed_attempt /\ [](frame # "idle")
=============================================================================
