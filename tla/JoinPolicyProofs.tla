-------------------------- MODULE JoinPolicyProofs --------------------------
(***************************************************************************)
(* Proofs about JoinPolicy, for any servers and any number of joins: a cap *)
(* in force belongs to a join whose first verified info asked for it, no   *)
(* join arms it twice, and it stays as long as the client does.            *)
(***************************************************************************)
EXTENDS JoinPolicy, TLAPS

Types ==
    /\ policy \in [server : Server \cup {NoServer}, prior_server : Address,
                   generation : 0 .. MaxJoins, current_join : BOOLEAN,
                   info_received : BOOLEAN, enabled : BOOLEAN, join_started : BOOLEAN,
                   awaiting_departure : BOOLEAN, observed_attempt : BOOLEAN, late : BOOLEAN]
    /\ asked \in [Generation -> Server \cup {NoServer}]
    /\ first_info \in [Generation -> {"none", "capped", "free"}]
    /\ armed \in [Generation -> Nat]

(* The addresses the engine turns to.                                      *)
Targets ==
    /\ peer \in Address /\ target \in Address
    /\ main \in [at : {"free", "prepared", "joined"}, generation : 0 .. MaxJoins]
    /\ main.at = "prepared" => main.generation \in Generation

(* Nothing has happened to the generations to come.                        *)
Future ==
    \A g \in Generation : g > policy.generation => first_info[g] = "none" /\ armed[g] = 0

(* A current join has not armed the cap, and holds what it was told first. *)
Current ==
    policy.current_join =>
        /\ policy.generation \in Generation
        /\ policy.server = asked[policy.generation]
        /\ armed[policy.generation] = 0
        /\ first_info[policy.generation] # "none" => policy.info_received
        /\ policy.enabled => first_info[policy.generation] = "capped"

(* The cap in force belongs to a join of the past.                         *)
InForce ==
    established.enabled =>
        /\ established.generation \in Generation
        /\ established.generation <= policy.generation
        /\ first_info[established.generation] = "capped"
        /\ asked[established.generation] = established.server

IInv == Types /\ Future /\ Current /\ InForce /\ OncePerGeneration

LEMMA InitIInv == Init => IInv
BY JoinPolicyAssumption
   DEF Init, IInv, Types, Future, Current, InForce, OncePerGeneration, NoPolicy, NoCap,
       Generation, Address

(* Steps that touch nothing but the progress of the join.                  *)
LEMMA PolicyProgress ==
    ASSUME IInv, Types', UNCHANGED <<history, established>>,
           policy'.generation = policy.generation, policy'.server = policy.server,
           policy'.current_join => policy.current_join,
           policy'.info_received = policy.info_received,
           policy'.enabled => policy.enabled
    PROVE  IInv'
<1>1. UNCHANGED <<asked, first_info, armed>>
  BY DEF history
<1> QED BY <1>1 DEF IInv, Future, Current, InForce, OncePerGeneration

LEMMA BeginStep ==
    ASSUME IInv, NEW s \in Server, begin_join(s)
    PROVE  IInv'
<1> DEFINE g == policy.generation + 1
<1>1. policy.generation \in 0 .. MaxJoins /\ g \in Generation
  BY JoinPolicyAssumption DEF begin_join, IInv, Types, Generation
<1>2. policy' = [server |-> s, prior_server |-> NoServer, generation |-> g,
                 current_join |-> TRUE, info_received |-> FALSE, enabled |-> FALSE,
                 join_started |-> FALSE, awaiting_departure |-> FALSE,
                 observed_attempt |-> FALSE, late |-> FALSE]
  BY DEF begin_join, NoPolicy
<1>3. /\ asked' = [asked EXCEPT ![g] = s]
      /\ UNCHANGED <<established, first_info, armed, peer>>
  BY <1>2 DEF begin_join, engine
<1>4. Types'
  <2>1. policy' \in [server : Server \cup {NoServer}, prior_server : Address,
                     generation : 0 .. MaxJoins, current_join : BOOLEAN,
                     info_received : BOOLEAN, enabled : BOOLEAN, join_started : BOOLEAN,
                     awaiting_departure : BOOLEAN, observed_attempt : BOOLEAN, late : BOOLEAN]
    <3>1. g \in 0 .. MaxJoins
      BY <1>1 DEF Generation
    <3>2. NoServer \in Address
      BY DEF Address
    <3> QED BY <1>2, <3>1, <3>2
  <2> QED BY <1>1, <1>3, <2>1 DEF IInv, Types
<1>5. policy'.generation = g /\ policy'.server = s /\ ~policy'.enabled
  BY <1>2
<1>6. Future'
  BY <1>1, <1>3, <1>5 DEF IInv, Future, Generation
<1>7. Current'
  <2>1. armed[g] = 0 /\ first_info[g] = "none" /\ asked'[g] = s
    BY <1>1, <1>3 DEF IInv, Future, Types
  <2> QED BY <1>1, <1>3, <1>5, <2>1 DEF Current
<1>8. InForce'
  <2>1. ASSUME established.enabled
        PROVE  /\ established.generation \in Generation
               /\ established.generation <= g
               /\ asked'[established.generation] = asked[established.generation]
    BY <1>1, <1>3, <2>1 DEF IInv, InForce, Types, Generation
  <2> QED BY <1>3, <1>5, <2>1 DEF IInv, InForce
<1>9. OncePerGeneration'
  BY <1>3 DEF IInv, OncePerGeneration
<1> QED BY <1>4, <1>6, <1>7, <1>8, <1>9 DEF IInv

LEMMA AcceptStep ==
    ASSUME IInv, NEW g \in 1 .. policy.generation, NEW capped \in BOOLEAN,
           accept_verified_join_info(g, capped)
    PROVE  IInv'
<1>1. g \in Generation /\ policy.generation \in 0 .. MaxJoins
  BY JoinPolicyAssumption DEF IInv, Types, Generation
<1>2. UNCHANGED <<established, asked, armed, peer>>
  BY DEF accept_verified_join_info, engine
<1>3. \A h \in Generation : first_info[h] # "none" \/ h # g => first_info'[h] = first_info[h]
  BY <1>1 DEF accept_verified_join_info, IInv, Types
<1>4. /\ first_info' \in [Generation -> {"none", "capped", "free"}]
      /\ first_info'[g] # "none"
      /\ first_info[g] = "none" /\ capped => first_info'[g] = "capped"
  BY <1>1 DEF accept_verified_join_info, IInv, Types
<1>5. CASE is_current_join(g) /\ ~policy.info_received
  <2>1. policy' = [policy EXCEPT !.info_received = TRUE, !.enabled = capped]
    BY <1>5 DEF accept_verified_join_info
  <2>2. policy.generation = g /\ policy.current_join /\ first_info[g] = "none"
    BY <1>1, <1>5 DEF is_current_join, IInv, Current, Types
  <2>3. Types'
    BY <1>2, <1>4, <2>1 DEF IInv, Types
  <2>4. /\ policy'.generation = g /\ policy'.server = policy.server
        /\ policy'.info_received /\ policy'.enabled = capped
    BY <2>1, <2>2 DEF IInv, Types
  <2>5. Future' /\ InForce' /\ OncePerGeneration'
    <3>1. Future'
      BY <1>1, <1>2, <1>3, <2>2, <2>4 DEF IInv, Future, Generation
    <3>2. InForce'
      BY <1>1, <1>2, <1>3, <2>2, <2>4 DEF IInv, InForce
    <3> QED BY <1>2, <3>1, <3>2 DEF IInv, OncePerGeneration
  <2>6. Current'
    BY <1>1, <1>2, <1>4, <2>2, <2>4 DEF IInv, Current
  <2> QED BY <2>3, <2>5, <2>6 DEF IInv
<1>6. CASE ~(is_current_join(g) /\ ~policy.info_received)
  <2>1. policy' = policy
    BY <1>6 DEF accept_verified_join_info
  <2>2. Types'
    BY <1>2, <1>4, <2>1 DEF IInv, Types
  <2>3. Future' /\ InForce' /\ OncePerGeneration'
    <3>1. Future'
      BY <1>1, <1>2, <1>3, <2>1 DEF IInv, Future, Generation
    <3>2. InForce'
      BY <1>1, <1>2, <1>3, <2>1 DEF IInv, InForce
    <3> QED BY <1>2, <3>1, <3>2 DEF IInv, OncePerGeneration
  <2>4. ASSUME policy.current_join
        PROVE  /\ first_info'[policy.generation] # "none" => policy.info_received
               /\ policy.enabled => first_info'[policy.generation] = "capped"
    <3>1. policy.generation = g => policy.info_received
      BY <1>6, <2>4 DEF is_current_join, IInv, Current
    <3> QED BY <1>3, <2>4, <3>1 DEF IInv, Current
  <2>5. Current'
    BY <1>2, <2>1, <2>4 DEF IInv, Current
  <2> QED BY <2>2, <2>3, <2>5 DEF IInv
<1> QED BY <1>5, <1>6

LEMMA RendererStep ==
    ASSUME IInv, active_join_policy
    PROVE  IInv'
<1>1. UNCHANGED <<asked, first_info, peer>>
  BY DEF active_join_policy, engine
<1> DEFINE Arms == Arrived /\ policy.enabled
<1>2. /\ Watched.generation = policy.generation /\ Watched.server = policy.server
      /\ Watched.current_join = policy.current_join
      /\ Watched.info_received = policy.info_received /\ Watched.enabled = policy.enabled
      /\ Watched \in [server : Server \cup {NoServer}, prior_server : Address,
                   generation : 0 .. MaxJoins, current_join : BOOLEAN,
                   info_received : BOOLEAN, enabled : BOOLEAN, join_started : BOOLEAN,
                   awaiting_departure : BOOLEAN, observed_attempt : BOOLEAN, late : BOOLEAN]
  <2>1. StillThere \in BOOLEAN /\ (policy.observed_attempt \/ frame = "connecting") \in BOOLEAN
    BY DEF StillThere
  <2> QED BY <2>1 DEF Watched, IInv, Types
<1>3. /\ policy' \in [server : Server \cup {NoServer}, prior_server : Address,
                   generation : 0 .. MaxJoins, current_join : BOOLEAN,
                   info_received : BOOLEAN, enabled : BOOLEAN, join_started : BOOLEAN,
                   awaiting_departure : BOOLEAN, observed_attempt : BOOLEAN, late : BOOLEAN]
      /\ policy'.generation = policy.generation /\ policy'.server = policy.server
      /\ policy'.info_received = policy.info_received
      /\ policy'.current_join => policy.current_join /\ ~Arrived
      /\ policy'.enabled => policy.enabled
  <2>1. CASE Arrived \/ Over
    BY <1>2, <2>1 DEF active_join_policy, retire_join_policy
  <2>2. CASE ~(Arrived \/ Over) /\ Started
    BY <1>2, <2>2 DEF active_join_policy
  <2>3. CASE ~(Arrived \/ Over) /\ ~Started
    BY <2>3 DEF active_join_policy, IInv, Types
  <2> QED BY <2>1, <2>2, <2>3
<1>4. CASE Arms
  <2>1. /\ policy.current_join /\ policy.generation \in Generation
        /\ policy.server = asked[policy.generation] /\ armed[policy.generation] = 0
        /\ first_info[policy.generation] = "capped"
    BY <1>4 DEF Arrived, Started, IInv, Current
  <2>2. /\ established' = [server |-> policy.server, generation |-> policy.generation,
                           enabled |-> TRUE]
        /\ armed' = [armed EXCEPT ![policy.generation] = @ + 1]
    BY <1>4 DEF active_join_policy, CapAfter
  <2>3. Types'
    BY <1>1, <1>3, <2>1, <2>2 DEF IInv, Types
  <2>4. \A h \in Generation : h # policy.generation => armed'[h] = armed[h]
    BY <2>2 DEF IInv, Types
  <2>5. armed'[policy.generation] = 1
    BY <2>1, <2>2 DEF IInv, Types
  <2>6. Future' /\ OncePerGeneration'
    BY <1>1, <1>3, <2>1, <2>4, <2>5 DEF IInv, Future, OncePerGeneration, Generation
  <2>7. Current'
    BY <1>3, <1>4 DEF Current
  <2>8. InForce'
    BY <1>1, <1>3, <2>1, <2>2 DEF InForce, Generation
  <2> QED BY <2>3, <2>6, <2>7, <2>8 DEF IInv
<1>5. CASE ~Arms
  <2>1. armed' = armed /\ established' \in {NoCap, established}
    BY <1>5 DEF active_join_policy, CapAfter
  <2>2. Types'
    BY <1>1, <1>3, <2>1 DEF IInv, Types
  <2>3. InForce'
    BY <1>1, <1>3, <2>1 DEF IInv, InForce, NoCap
  <2>4. Future' /\ Current' /\ OncePerGeneration'
    BY <1>1, <1>3, <2>1 DEF IInv, Future, Current, OncePerGeneration
  <2> QED BY <2>2, <2>3, <2>4 DEF IInv
<1> QED BY <1>4, <1>5

LEMMA ObserveStep ==
    ASSUME IInv, observe_native_join_start
    PROVE  IInv'
<1>1. UNCHANGED <<asked, first_info, armed, peer>>
  BY DEF observe_native_join_start, engine, history
<1>2. established' \in {NoCap, established}
  BY DEF observe_native_join_start
<1>3. PICK w \in BOOLEAN, o \in BOOLEAN :
        policy' \in {policy, [policy EXCEPT !.awaiting_departure = w, !.observed_attempt = o]}
  <2>1. policy.awaiting_departure \in BOOLEAN /\ policy.observed_attempt \in BOOLEAN
    BY DEF IInv, Types
  <2> QED BY <2>1 DEF observe_native_join_start
<1>4. /\ Types' /\ policy'.generation = policy.generation /\ policy'.server = policy.server
      /\ policy'.current_join = policy.current_join
      /\ policy'.info_received = policy.info_received /\ policy'.enabled = policy.enabled
  BY <1>1, <1>3 DEF IInv, Types
<1>5. Future' /\ Current' /\ OncePerGeneration'
  BY <1>1, <1>4 DEF IInv, Future, Current, OncePerGeneration
<1>6. InForce'
  BY <1>1, <1>2, <1>4 DEF IInv, InForce, NoCap
<1> QED BY <1>4, <1>5, <1>6 DEF IInv

LEMMA PrepareStep ==
    ASSUME IInv, Targets, NEW g, prepare_native_join(g)
    PROVE  IInv'
<1>1. policy' = Prepared /\ UNCHANGED <<history, established>>
  BY DEF prepare_native_join
<1>2. UNCHANGED <<asked, first_info, armed>>
  BY <1>1 DEF history
<1> DEFINE l == state \in Connected
           p == IF l THEN peer ELSE NoServer
           o == state = "connecting"
<1>3. p \in Address
  BY DEF Targets, Address
<1>4. Prepared = [policy EXCEPT !.join_started = TRUE, !.awaiting_departure = l,
                                !.prior_server = p, !.observed_attempt = o, !.late = FALSE]
  BY DEF Prepared
<1>5. l \in BOOLEAN /\ o \in BOOLEAN
  OBVIOUS
<1> HIDE DEF l, p, o
<1>6. /\ Types' /\ policy'.generation = policy.generation /\ policy'.server = policy.server
      /\ policy'.current_join = policy.current_join
      /\ policy'.info_received = policy.info_received /\ policy'.enabled = policy.enabled
  BY <1>1, <1>2, <1>3, <1>4, <1>5 DEF IInv, Types
<1> QED BY <1>1, <1>6, PolicyProgress

LEMMA StillStep ==
    ASSUME IInv, UNCHANGED <<policy, established, history>>
    PROVE  IInv'
<1>1. UNCHANGED <<asked, first_info, armed>>
  BY DEF history
<1> QED BY <1>1, PolicyProgress DEF IInv, Types

LEMMA StepIInv ==
    ASSUME IInv, Targets, [Next]_vars
    PROVE  IInv'
<1>1. CASE UNCHANGED vars
  BY <1>1, StillStep DEF vars
<1>2. CASE \E s \in Server : begin_join(s)
  BY <1>2, BeginStep
<1>3. CASE \E g \in 1 .. policy.generation, capped \in BOOLEAN :
             accept_verified_join_info(g, capped)
  BY <1>3, AcceptStep
<1>4. CASE \E g \in 1 .. policy.generation : prepare_native_join(g)
  BY <1>4, PrepareStep
<1>5. CASE CL_ConnectFromLobby
  BY <1>5, StillStep DEF CL_ConnectFromLobby
<1>6. CASE observe_native_join_start
  BY <1>6, ObserveStep
<1>7. CASE read_state
  BY <1>7, StillStep DEF read_state
<1>8. CASE active_join_policy
  BY <1>8, RendererStep
<1>9. CASE Engine
  BY <1>9, StillStep DEF Engine, StartsConnecting, Advances, Disconnects, LoadsLocally,
                         EngineUnchanged
<1>10. CASE DeadlinePasses
  <2>1. policy' = [policy EXCEPT !.late = TRUE] /\ UNCHANGED <<history, established>>
    BY <1>10 DEF DeadlinePasses
  <2>2. UNCHANGED <<asked, first_info, armed>>
    BY <2>1 DEF history
  <2>3. /\ Types' /\ policy'.generation = policy.generation /\ policy'.server = policy.server
        /\ policy'.current_join = policy.current_join
        /\ policy'.info_received = policy.info_received /\ policy'.enabled = policy.enabled
    BY <2>1, <2>2 DEF IInv, Types
  <2> QED BY <2>1, <2>3, PolicyProgress
<1> QED BY <1>1, <1>2, <1>3, <1>4, <1>5, <1>6, <1>7, <1>8, <1>9, <1>10 DEF Next, Main, Renderer

LEMMA TargetsStep ==
    ASSUME IInv, Targets, [Next]_vars
    PROVE  Targets'
<1>1. CASE \E g \in 1 .. policy.generation : prepare_native_join(g)
  <2>1. PICK g \in 1 .. policy.generation : prepare_native_join(g)
    BY <1>1
  <2>2. g \in Generation
    BY JoinPolicyAssumption DEF IInv, Types, Generation
  <2>3. main' = [at |-> "prepared", generation |-> g] /\ UNCHANGED <<peer, target>>
    BY <2>1 DEF prepare_native_join, engine
  <2> QED BY <2>2, <2>3, JoinPolicyAssumption DEF Targets, Generation
<1>2. CASE CL_ConnectFromLobby
  <2>1. asked[main.generation] \in Address
    BY <1>2 DEF CL_ConnectFromLobby, Targets, IInv, Types, Address
  <2>2. main' = [main EXCEPT !.at = "joined"]
    BY <1>2 DEF CL_ConnectFromLobby
  <2>3. peer' \in Address /\ target' \in Address
    BY <1>2, <2>1 DEF CL_ConnectFromLobby, Targets, Address, engine
  <2> QED BY <2>2, <2>3 DEF Targets
<1>3. CASE observe_native_join_start
  BY <1>3, JoinPolicyAssumption DEF observe_native_join_start, Free, Targets, engine
<1>4. CASE Engine
  BY <1>4 DEF Engine, StartsConnecting, Advances, Disconnects, LoadsLocally,
              EngineUnchanged, Targets, Address
<1>5. CASE \/ UNCHANGED vars \/ Renderer \/ DeadlinePasses
           \/ \E s \in Server : begin_join(s)
           \/ \E g \in 1 .. policy.generation, capped \in BOOLEAN :
                accept_verified_join_info(g, capped)
  <2>1. UNCHANGED <<main, peer, target>>
    BY <1>5 DEF vars, Renderer, read_state, active_join_policy, DeadlinePasses, begin_join,
                accept_verified_join_info, engine
  <2> QED BY <2>1 DEF Targets
<1> QED BY <1>1, <1>2, <1>3, <1>4, <1>5 DEF Next, Main

(* Policy and cap always say what was asked and verified for their joins,  *)
(* in every interleaving of frames with begin_join and the engine's join.  *)
THEOREM Inductive == Spec => [](IInv /\ Targets)
<1>1. Init => Targets
  BY JoinPolicyAssumption DEF Init, Targets, Free, Address
<1> QED BY <1>1, InitIInv, StepIInv, TargetsStep, PTL DEF Spec

(* A cap in force belongs to a join whose first verified info asked for    *)
(* it, and to the server of that join.                                     *)
THEOREM Verified == Spec => []ArmedByVerified
<1>1. IInv => ArmedByVerified
  BY DEF IInv, InForce, ArmedByVerified
<1> QED BY <1>1, Inductive, PTL

(* No join arms the cap twice.                                             *)
THEOREM Consumed == Spec => []OncePerGeneration
<1>1. IInv => OncePerGeneration
  BY DEF IInv
<1> QED BY <1>1, Inductive, PTL

-----------------------------------------------------------------------------
(* Types, given the invariant: the cap in force, the calls of the main     *)
(* thread, and what the engine turns to, are those of joins that began.    *)
Begun == \A g \in 1 .. policy.generation : asked[g] \in Server

Cap == established \in [server : Server, generation : Generation, enabled : {TRUE}] \cup {NoCap}

Call == main \in [at : {"prepared", "joined"}, generation : 1 .. policy.generation] \cup {Free}

Peers ==
    /\ frame \in State \cup {"none"} /\ state \in State
    /\ peer \in Server \cup {Loopback} /\ target \in Server \cup {NoServer}

Flags == frontend \in BOOLEAN /\ away \in BOOLEAN /\ handed \in [Generation -> Nat]

(* Only begin_join begins a generation.                                    *)
LEMMA Generations ==
    ASSUME IInv, Targets, [Next]_vars
    PROVE  \/ \E s \in Server : begin_join(s)
           \/ policy'.generation = policy.generation /\ asked' = asked
<1> USE DEF IInv
<1>1. CASE \/ UNCHANGED vars \/ CL_ConnectFromLobby \/ read_state \/ Engine
  BY <1>1 DEF vars, history, CL_ConnectFromLobby, read_state, Engine, StartsConnecting,
     Advances, Disconnects, LoadsLocally, EngineUnchanged
<1>2. CASE \E g \in 1 .. policy.generation, capped \in BOOLEAN :
             accept_verified_join_info(g, capped)
  BY <1>2 DEF accept_verified_join_info, Types
<1>3. CASE \E g \in 1 .. policy.generation : prepare_native_join(g)
  BY <1>3 DEF prepare_native_join, Prepared, history, Types
<1>4. CASE observe_native_join_start
  BY <1>4 DEF observe_native_join_start, history, Types
<1>5. CASE active_join_policy
  BY <1>5 DEF active_join_policy, retire_join_policy, Watched, Types
<1>6. CASE DeadlinePasses
  BY <1>6 DEF DeadlinePasses, history, Types
<1> QED BY <1>1, <1>2, <1>3, <1>4, <1>5, <1>6 DEF Next, Main, Renderer

LEMMA BegunStep ==
    ASSUME IInv, Targets, Begun, Call, [Next]_vars
    PROVE  Begun' /\ (main' = main => Call')
<1>1. CASE \E s \in Server : begin_join(s)
  <2>1. PICK s \in Server : begin_join(s)
    BY <1>1
  <2>2. /\ policy'.generation = policy.generation + 1
        /\ asked' = [asked EXCEPT ![policy.generation + 1] = s]
        /\ policy.generation \in Nat /\ policy.generation < MaxJoins
    BY <2>1, JoinPolicyAssumption DEF begin_join, NoPolicy, IInv, Types
  <2>3. policy.generation + 1 \in Generation
    BY <2>2, JoinPolicyAssumption DEF Generation
  <2>4. Begun'
    BY <2>2, <2>3 DEF Begun, IInv, Types
  <2>5. 1 .. policy.generation \subseteq 1 .. policy'.generation
    BY <2>2
  <2> QED BY <2>4, <2>5 DEF Call
<1>2. CASE policy'.generation = policy.generation /\ asked' = asked
  BY <1>2 DEF Begun, Call
<1> QED BY <1>1, <1>2, Generations

LEMMA CallStep ==
    ASSUME IInv, Targets, Begun, Call, [Next]_vars
    PROVE  Call'
<1>1. CASE \E g \in 1 .. policy.generation : prepare_native_join(g)
  <2>1. PICK g \in 1 .. policy.generation :
          policy' = Prepared /\ main' = [at |-> "prepared", generation |-> g]
    BY <1>1 DEF prepare_native_join
  <2>2. policy'.generation = policy.generation
    BY <2>1 DEF Prepared, IInv, Types
  <2> QED BY <2>1, <2>2 DEF Call
<1>2. CASE CL_ConnectFromLobby
  BY <1>2 DEF CL_ConnectFromLobby, Call, Free
<1>3. CASE observe_native_join_start
  BY <1>3 DEF observe_native_join_start, Call
<1>4. CASE main' = main
  BY <1>4, BegunStep
<1> QED BY <1>1, <1>2, <1>3, <1>4
        DEF Next, vars, Main, Renderer, Engine, begin_join, accept_verified_join_info,
            read_state, active_join_policy, StartsConnecting, Advances, Disconnects,
            LoadsLocally, EngineUnchanged, DeadlinePasses

LEMMA CapStep ==
    ASSUME IInv, Targets, Begun, Cap, [Next]_vars
    PROVE  Cap'
<1>1. CASE active_join_policy /\ Arrived /\ policy.enabled
  <2>1. established' = [server |-> policy.server, generation |-> policy.generation,
                        enabled |-> TRUE]
    BY <1>1 DEF active_join_policy, CapAfter
  <2>2. policy.generation \in Generation /\ policy.server = asked[policy.generation]
    BY <1>1 DEF Arrived, Started, IInv, Current
  <2>3. policy.generation \in 1 .. policy.generation
    BY <2>2 DEF Generation
  <2> QED BY <2>1, <2>2, <2>3 DEF Begun, Cap
<1>2. CASE established' \in {established, NoCap}
  BY <1>2 DEF Cap
<1>3. CASE active_join_policy /\ ~(Arrived /\ policy.enabled)
  BY <1>2, <1>3 DEF active_join_policy, CapAfter
<1>4. CASE observe_native_join_start
  BY <1>2, <1>4 DEF observe_native_join_start
<1> QED BY <1>1, <1>2, <1>3, <1>4
        DEF Next, vars, Main, Renderer, Engine, begin_join, accept_verified_join_info,
            prepare_native_join, CL_ConnectFromLobby, read_state, StartsConnecting,
            Advances, Disconnects, LoadsLocally, EngineUnchanged, DeadlinePasses

LEMMA PeersStep ==
    ASSUME Begun, Call, Peers, [Next]_vars
    PROVE  Peers'
<1> USE DEF Peers
<1>1. CASE CL_ConnectFromLobby
  <2>1. asked[main.generation] \in Server
    BY <1>1 DEF CL_ConnectFromLobby, Call, Free, Begun
  <2> QED BY <1>1, <2>1 DEF CL_ConnectFromLobby, engine, State
<1>2. CASE Engine
  BY <1>2 DEF Engine, StartsConnecting, Advances, Disconnects, LoadsLocally,
     EngineUnchanged, State
<1>3. CASE Renderer
  BY <1>3 DEF Renderer, read_state, active_join_policy, engine
<1>4. CASE UNCHANGED <<engine, frame>>
  BY <1>4 DEF engine
<1> QED BY <1>1, <1>2, <1>3, <1>4
        DEF Next, vars, Main, begin_join, accept_verified_join_info, prepare_native_join,
            observe_native_join_start, DeadlinePasses

LEMMA FlagsStep ==
    ASSUME Flags, [Next]_vars
    PROVE  Flags'
<1>1. away' \in BOOLEAN
  BY DEF Flags, Next, Past, Away, AtServer, vars
<1>2. frontend' \in BOOLEAN
  BY DEF Flags, Next, vars, engine, Main, Renderer, Engine, begin_join,
     accept_verified_join_info, prepare_native_join, CL_ConnectFromLobby,
     observe_native_join_start, read_state, active_join_policy, StartsConnecting, Advances,
     Disconnects, LoadsLocally, EngineUnchanged, DeadlinePasses
<1>3. handed' \in [Generation -> Nat]
  <2>1. Handed \/ UNCHANGED handed
    BY DEF Next, Past, vars
  <2> QED BY <2>1 DEF Flags, Handed
<1> QED BY <1>1, <1>2, <1>3 DEF Flags

(* The policy, the cap in force, the calls and the histories keep their    *)
(* types.                                                                  *)
THEOREM TypeCorrect == Spec => []TypeOK
<1> DEFINE More == Begun /\ Cap /\ Call /\ Peers /\ Flags
<1>1. Init => More
  <2> SUFFICES ASSUME Init PROVE More
    OBVIOUS
  <2> USE JoinPolicyAssumption DEF Init
  <2>1. Begun
    BY DEF Begun, NoPolicy
  <2>2. Cap /\ Call
    BY DEF Cap, Call
  <2>3. Peers /\ Flags
    BY DEF Peers, Flags, State
  <2> QED BY <2>1, <2>2, <2>3
<1>2. IInv /\ Targets /\ More /\ [Next]_vars => More'
  BY BegunStep, CallStep, CapStep, PeersStep, FlagsStep
<1>3. IInv /\ More => TypeOK
  BY DEF IInv, Types, Cap, Call, Peers, Flags, TypeOK
<1> HIDE DEF More
<1> QED BY <1>1, <1>2, <1>3, Inductive, PTL DEF Spec

-----------------------------------------------------------------------------
(***************************************************************************)
(* The cap stays as long as the client does.                               *)
(***************************************************************************)

(* While the client stays on the server of the cap, frames have read that  *)
(* it is connected, and a join that began there waits for its departure.   *)
Staying ==
    established.enabled /\ ~away =>
        /\ AtServer
        /\ frame # "none" => frame \in Connected
        /\ Started => policy.awaiting_departure /\ policy.prior_server = established.server

(* A frame that finds the client where it was leaves the cap alone.        *)
LEMMA FrameKeeps ==
    ASSUME Cap, Staying, established.enabled, ~away, active_join_policy
    PROVE  established' = established /\ ~Arrived /\ (Started => StillThere)
<1>1. frame \in Connected /\ server = peer /\ peer = established.server
  BY DEF active_join_policy, Staying, AtServer, server
<1>2. ~local_match
  <2>1. established # NoCap
    BY DEF NoCap
  <2>2. established.server \in Server
    BY <2>1 DEF Cap
  <2> QED BY <1>1, <2>2, JoinPolicyAssumption DEF local_match
<1>3. Started => StillThere
  BY <1>1 DEF Staying, StillThere
<1>4. ~Arrived /\ ~CapLost
  BY <1>1, <1>2, <1>3 DEF Arrived, CapLost
<1> QED BY <1>3, <1>4 DEF active_join_policy, CapAfter

(* So does the observation that the engine has not left yet.               *)
LEMMA ObservationKeeps ==
    ASSUME Types, Staying, established.enabled, ~away, observe_native_join_start
    PROVE  /\ established' = established
           /\ policy.awaiting_departure => policy'.awaiting_departure
           /\ policy'.prior_server = policy.prior_server
           /\ Started' => Started
<1> DEFINE departed == \/ state \notin Connected
                       \/ policy.awaiting_departure /\ peer # policy.prior_server
<1>1. state \in Connected /\ peer = established.server
  BY DEF Staying, AtServer
<1>2. CASE is_current_join(main.generation) /\ policy.join_started
  <2>1. policy.awaiting_departure /\ policy.prior_server = established.server
    BY <1>2 DEF Staying, Started, is_current_join
  <2>2. ~departed
    BY <1>1, <2>1
  <2>3. established' = established
    BY <1>2, <2>2 DEF observe_native_join_start
  <2>4. policy' = [policy EXCEPT !.awaiting_departure = @ /\ ~departed,
                                 !.observed_attempt = @ \/ state = "connecting"]
    BY <1>2 DEF observe_native_join_start
  <2> QED BY <2>1, <2>2, <2>3, <2>4 DEF Types, Started
<1>3. CASE ~(is_current_join(main.generation) /\ policy.join_started)
  BY <1>3 DEF observe_native_join_start, Started
<1> QED BY <1>2, <1>3

(* Nothing else changes the cap.                                           *)
LEMMA CapChanges ==
    ASSUME IInv, Cap, Staying, [Next]_vars, established.enabled, established' # established
    PROVE  away
<1> SUFFICES ASSUME ~away PROVE FALSE
  OBVIOUS
<1>1. CASE active_join_policy
  BY <1>1, FrameKeeps
<1>2. CASE observe_native_join_start
  BY <1>2, ObservationKeeps DEF IInv
<1> QED BY <1>1, <1>2
        DEF Next, vars, Main, Renderer, Engine, begin_join, accept_verified_join_info,
            prepare_native_join, CL_ConnectFromLobby, read_state, StartsConnecting,
            Advances, Disconnects, LoadsLocally, EngineUnchanged, DeadlinePasses

(* A cap that has just come to be in force belongs to a join that is over. *)
LEMMA JustArmed ==
    ASSUME IInv, [Next]_vars, established' # established, established'.enabled
    PROVE  /\ away' = ~AtServer'
           /\ frame' = "none" /\ ~Started'
<1>1. active_join_policy /\ Arrived
  <2>1. established' # NoCap
    BY DEF NoCap
  <2>2. CASE active_join_policy
    BY <2>1, <2>2 DEF active_join_policy, CapAfter
  <2>3. CASE observe_native_join_start
    BY <2>1, <2>3 DEF observe_native_join_start
  <2> QED
    BY <2>2, <2>3
       DEF Next, vars, Main, Renderer, Engine, begin_join, accept_verified_join_info,
           prepare_native_join, CL_ConnectFromLobby, read_state, StartsConnecting,
           Advances, Disconnects, LoadsLocally, EngineUnchanged, DeadlinePasses
<1>2. away' = ~AtServer'
  <2>1. Away
    BY DEF Next, Past, vars
  <2> QED BY <2>1 DEF Away
<1>3. ~policy'.current_join
  <2>1. policy' = retire_join_policy(Watched)
    BY <1>1 DEF active_join_policy
  <2> QED BY <2>1 DEF retire_join_policy, Watched, IInv, Types
<1> QED BY <1>1, <1>2, <1>3 DEF active_join_policy, Started

(* A join that begins on the server of the cap notes where it began.       *)
LEMMA JoinsThere ==
    ASSUME IInv, Cap, Staying, [Next]_vars, established' = established,
           established.enabled, ~away, Started'
    PROVE  policy'.awaiting_departure /\ policy'.prior_server = established.server
<1> USE DEF IInv, Types
<1>1. state \in Connected /\ peer = established.server
  BY DEF Staying, AtServer
<1>2. CASE policy' = policy
  BY <1>2 DEF Staying, Started
<1>3. CASE \E s \in Server : begin_join(s)
  BY <1>3 DEF begin_join, NoPolicy, Started
<1>4. CASE \E g \in 1 .. policy.generation, capped \in BOOLEAN :
             accept_verified_join_info(g, capped)
  BY <1>4 DEF accept_verified_join_info, Staying, Started
<1>5. CASE \E g \in 1 .. policy.generation : prepare_native_join(g)
  BY <1>1, <1>5 DEF prepare_native_join, Prepared
<1>6. CASE observe_native_join_start
  <2>1. /\ Started /\ policy'.prior_server = policy.prior_server
        /\ policy.awaiting_departure => policy'.awaiting_departure
    BY <1>6, ObservationKeeps
  <2> QED BY <2>1 DEF Staying
<1>7. CASE active_join_policy
  <2>1. ~Arrived /\ (Started => StillThere)
    BY <1>7, FrameKeeps
  <2>2. Started /\ (policy' = Watched \/ policy' = policy)
    BY <1>7, <2>1 DEF active_join_policy, retire_join_policy, Watched, Started
  <2>3. Watched.awaiting_departure /\ Watched.prior_server = policy.prior_server
    BY <2>1, <2>2 DEF Watched
  <2> QED BY <2>2, <2>3 DEF Staying
<1>8. CASE DeadlinePasses
  BY <1>8 DEF DeadlinePasses, Staying, Started
<1> QED BY <1>2, <1>3, <1>4, <1>5, <1>6, <1>7, <1>8
        DEF Next, vars, Main, Renderer, Engine, CL_ConnectFromLobby, read_state,
            StartsConnecting, Advances, Disconnects, LoadsLocally, EngineUnchanged

LEMMA StayingStep ==
    ASSUME IInv, Cap, Flags, Staying, [Next]_vars
    PROVE  Staying'
<1> SUFFICES ASSUME established'.enabled, ~away'
             PROVE  /\ AtServer'
                    /\ frame' # "none" => frame' \in Connected
                    /\ Started' => /\ policy'.awaiting_departure
                                   /\ policy'.prior_server = established'.server
  BY DEF Staying
<1>1. CASE established' # established
  BY <1>1, JustArmed
<1>2. CASE established' = established
  <2>1. ~away /\ established.enabled
    <3>1. CASE UNCHANGED vars
      BY <1>2, <3>1 DEF vars
    <3>2. CASE Away
      <4>1. away' = (away \/ ~AtServer')
        BY <1>2, <3>2 DEF Away
      <4> QED BY <1>2, <4>1
    <3> QED BY <3>1, <3>2 DEF Next, Past
  <2>2. AtServer'
    <3>1. CASE UNCHANGED vars
      BY <2>1, <3>1 DEF vars, engine, Staying, AtServer
    <3>2. CASE Away
      BY <1>2, <3>2 DEF Away
    <3> QED BY <3>1, <3>2 DEF Next, Past
  <2>3. frame' \in {frame, "none", state}
    BY DEF Next, vars, Main, Renderer, Engine, begin_join, accept_verified_join_info,
       prepare_native_join, CL_ConnectFromLobby, observe_native_join_start, read_state,
       active_join_policy, StartsConnecting, Advances, Disconnects, LoadsLocally,
       EngineUnchanged, DeadlinePasses
  <2>4. frame' # "none" => frame' \in Connected
    BY <2>1, <2>3 DEF Staying, AtServer
  <2> QED BY <1>2, <2>1, <2>2, <2>4, JoinsThere
<1> QED BY <1>1, <1>2

(* A cap in force ends, or passes to another join, only after the client   *)
(* was away from the server: no query, no failed join and no frame that    *)
(* read an old state takes it from a match that goes on.                   *)
THEOREM Stays == Spec => CapKept
<1> DEFINE More == Begun /\ Cap /\ Call /\ Flags /\ Staying
<1>1. Init => More
  <2> SUFFICES ASSUME Init PROVE More
    OBVIOUS
  <2> USE JoinPolicyAssumption DEF Init
  <2>1. Begun /\ Cap /\ Call
    BY DEF Begun, NoPolicy, Cap, Call
  <2>2. Flags /\ Staying
    BY DEF Flags, Staying, NoCap
  <2> QED BY <2>1, <2>2
<1>2. IInv /\ Targets /\ More /\ [Next]_vars => More'
  BY BegunStep, CallStep, CapStep, FlagsStep, StayingStep
<1>3. IInv /\ More /\ [Next]_vars =>
        [established.enabled /\ established' # established => away]_vars
  <2> SUFFICES ASSUME IInv, More, [Next]_vars, established.enabled,
                      established' # established
               PROVE  away
    OBVIOUS
  <2> QED BY CapChanges
<1> HIDE DEF More
<1> QED BY <1>1, <1>2, <1>3, Inductive, PTL DEF Spec, CapKept

-----------------------------------------------------------------------------
(* What party sees of each step.                                           *)
Seen == <<policy.server, policy.generation, policy.current_join, policy.join_started>>

LEMMA SameSeen ==
    ASSUME policy'.server = policy.server, policy'.generation = policy.generation,
           policy'.current_join = policy.current_join,
           policy'.join_started = policy.join_started
    PROVE  UNCHANGED Seen
  BY DEF Seen

(* The join that is current and not started was not handed over.           *)
NotYet ==
    /\ handed \in [Generation -> Nat]
    /\ \A g \in Generation : g > policy.generation => handed[g] = 0
    /\ policy.current_join /\ ~policy.join_started => handed[policy.generation] = 0

BeginSeen(s) ==
    /\ policy.generation < MaxJoins
    /\ policy'.server = s /\ policy'.generation = policy.generation + 1
    /\ policy'.current_join = TRUE /\ policy'.join_started = FALSE

StartSeen ==
    /\ policy.current_join /\ ~policy.join_started
    /\ policy'.join_started = TRUE
    /\ policy'.server = policy.server /\ policy'.generation = policy.generation
    /\ policy'.current_join = policy.current_join

RetireSeen ==
    /\ policy.current_join /\ policy.join_started
    /\ policy'.current_join = FALSE /\ policy'.join_started = FALSE
    /\ policy'.server = policy.server /\ policy'.generation = policy.generation

LEMMA SeeBegin ==
    ASSUME NEW s \in Server, begin_join(s)
    PROVE  BeginSeen(s)
<1>1. policy' = [server |-> s, prior_server |-> NoServer, generation |-> policy.generation + 1,
                 current_join |-> TRUE, info_received |-> FALSE, enabled |-> FALSE,
                 join_started |-> FALSE, awaiting_departure |-> FALSE,
                 observed_attempt |-> FALSE, late |-> FALSE]
  BY DEF begin_join, NoPolicy
<1>2. policy.generation < MaxJoins
  BY DEF begin_join
<1> QED BY <1>1, <1>2 DEF BeginSeen

LEMMA SeeStart ==
    ASSUME IInv, NEW g, prepare_native_join(g)
    PROVE  StartSeen
<1> DEFINE l == state \in Connected
           p == IF l THEN peer ELSE NoServer
           o == state = "connecting"
<1>1. policy.current_join /\ ~policy.join_started
  BY DEF prepare_native_join, is_current_join
<1>2. policy' = [policy EXCEPT !.join_started = TRUE, !.awaiting_departure = l,
                               !.prior_server = p, !.observed_attempt = o, !.late = FALSE]
  BY DEF prepare_native_join, Prepared
<1> HIDE DEF l, p, o
<1>3. /\ policy'.server = policy.server /\ policy'.generation = policy.generation
      /\ policy'.current_join = policy.current_join
  BY <1>2 DEF IInv, Types
<1>4. policy'.join_started = TRUE
  BY <1>2, <1>3 DEF IInv, Types
<1> QED BY <1>1, <1>3, <1>4 DEF StartSeen

(* A frame retires the join that was started, or leaves it as it is.       *)
LEMMA SeeFrame ==
    ASSUME IInv, active_join_policy
    PROVE  RetireSeen \/ UNCHANGED Seen
<1>1. /\ Watched.server = policy.server /\ Watched.generation = policy.generation
      /\ Watched.current_join = policy.current_join
      /\ Watched.join_started = policy.join_started
      /\ DOMAIN Watched = DOMAIN policy
  BY DEF Watched, IInv, Types
<1>2. CASE Arrived \/ Over
  <2>1. policy.current_join /\ policy.join_started
    BY <1>2 DEF Arrived, Over, Started
  <2>2. policy' = [Watched EXCEPT !.current_join = FALSE, !.enabled = FALSE,
                                  !.join_started = FALSE, !.observed_attempt = FALSE]
    BY <1>2 DEF active_join_policy, retire_join_policy
  <2>3. DOMAIN Watched = {"server", "prior_server", "generation", "current_join",
                          "info_received", "enabled", "join_started",
                          "awaiting_departure", "observed_attempt", "late"}
    BY <1>1 DEF IInv, Types
  <2>4. policy'.server = Watched.server /\ policy'.generation = Watched.generation
    BY <2>2, <2>3
  <2>5. policy'.current_join = FALSE
    BY <2>2, <2>3
  <2>6. policy'.join_started = FALSE
    BY <2>2, <2>3
  <2> QED BY <1>1, <2>1, <2>4, <2>5, <2>6 DEF RetireSeen
<1>3. CASE ~(Arrived \/ Over)
  <2>1. policy' = Watched \/ policy' = policy
    BY <1>3 DEF active_join_policy
  <2> QED BY <1>1, <2>1, SameSeen
<1> QED BY <1>2, <1>3

LEMMA HandedStep ==
    ASSUME IInv, Targets, [Next]_vars
    PROVE  \/ /\ \E g \in Generation : prepare_native_join(g)
              /\ StartSeen /\ policy.generation \in Generation
              /\ handed' = [handed EXCEPT ![policy.generation] = @ + 1]
           \/ /\ UNCHANGED handed
              /\ \/ UNCHANGED Seen
                 \/ \E s \in Server : BeginSeen(s)
                 \/ RetireSeen
<1>0. Handed \/ UNCHANGED <<main, handed>>
  BY DEF Next, Past, vars
<1>1. CASE \/ UNCHANGED vars \/ read_state \/ Engine \/ DeadlinePasses
           \/ \E g \in 1 .. policy.generation, capped \in BOOLEAN :
                accept_verified_join_info(g, capped)
  <2>1. UNCHANGED main
    BY <1>1 DEF vars, read_state, Engine, StartsConnecting, Advances, Disconnects,
                LoadsLocally, EngineUnchanged, DeadlinePasses, accept_verified_join_info
  <2>2. UNCHANGED Seen
    <3>1. CASE UNCHANGED vars \/ read_state \/ Engine
      <4>1. policy' = policy
        BY <3>1 DEF vars, read_state, Engine, StartsConnecting, Advances,
                    Disconnects, LoadsLocally, EngineUnchanged
      <4> QED BY <4>1, SameSeen
    <3>2. CASE DeadlinePasses
      BY <3>2, SameSeen DEF DeadlinePasses, IInv, Types
    <3>3. CASE \E g \in 1 .. policy.generation, capped \in BOOLEAN :
                 accept_verified_join_info(g, capped)
      BY <3>3, SameSeen DEF accept_verified_join_info, IInv, Types
    <3> QED BY <1>1, <3>1, <3>2, <3>3
  <2> QED BY <1>0, <2>1, <2>2 DEF Handed
<1>2. CASE CL_ConnectFromLobby \/ observe_native_join_start
  <2>1. main # Free
    BY <1>2 DEF CL_ConnectFromLobby, observe_native_join_start, Free
  <2>2. UNCHANGED Seen
    <3>1. CASE CL_ConnectFromLobby
      BY <3>1, SameSeen DEF CL_ConnectFromLobby
    <3>2. CASE observe_native_join_start
      BY <3>2, SameSeen DEF observe_native_join_start, IInv, Types
    <3> QED BY <1>2, <3>1, <3>2
  <2> QED BY <1>0, <2>1, <2>2 DEF Handed
<1>3. ASSUME NEW s \in Server, begin_join(s)
      PROVE  UNCHANGED handed /\ BeginSeen(s)
  <2>1. UNCHANGED main
    BY <1>3 DEF begin_join
  <2> QED BY <1>0, <1>3, <2>1, SeeBegin DEF Handed
<1>4. CASE active_join_policy
  <2>1. UNCHANGED main
    BY <1>4 DEF active_join_policy
  <2> QED BY <1>0, <1>4, <2>1, SeeFrame DEF Handed
<1>5. ASSUME NEW g \in 1 .. policy.generation, prepare_native_join(g)
      PROVE  /\ g \in Generation /\ StartSeen
             /\ policy.generation \in Generation
             /\ handed' = [handed EXCEPT ![policy.generation] = @ + 1]
  <2>1. g \in Generation /\ g = policy.generation
    BY <1>5, JoinPolicyAssumption
       DEF prepare_native_join, is_current_join, IInv, Types, Generation
  <2>2. main = Free /\ main' # Free /\ main'.generation = g
    BY <1>5 DEF prepare_native_join, Free
  <2>3. Handed
    BY <1>0, <2>2
  <2> QED BY <1>5, <2>1, <2>2, <2>3, SeeStart DEF Handed
<1> QED BY <1>1, <1>2, <1>3, <1>4, <1>5 DEF Next, Main, Renderer

LEMMA NotYetStep ==
    ASSUME IInv, Targets, NotYet, [Next]_vars
    PROVE  NotYet'
<1>0. policy.generation \in 0 .. MaxJoins
  BY DEF IInv, Types
<1>1. CASE /\ StartSeen /\ policy.generation \in Generation
           /\ handed' = [handed EXCEPT ![policy.generation] = @ + 1]
  BY <1>0, <1>1 DEF StartSeen, NotYet, Generation
<1>2. CASE UNCHANGED handed /\ UNCHANGED Seen
  <2>1. /\ policy'.generation = policy.generation
        /\ policy'.current_join = policy.current_join
        /\ policy'.join_started = policy.join_started
    BY <1>2 DEF Seen
  <2> QED BY <1>2, <2>1 DEF NotYet
<1>3. ASSUME UNCHANGED handed, NEW s \in Server, BeginSeen(s)
      PROVE  NotYet'
  <2>1. policy'.generation = policy.generation + 1 /\ policy'.generation \in Generation
    BY <1>0, <1>3, JoinPolicyAssumption DEF BeginSeen, Generation
  <2>2. policy'.generation > policy.generation
    BY <1>0, <2>1
  <2>3. handed[policy'.generation] = 0
    BY <2>1, <2>2 DEF NotYet
  <2>4. \A g \in Generation : g > policy'.generation => g > policy.generation
    BY <1>0, <2>1 DEF Generation
  <2> QED BY <1>3, <2>3, <2>4 DEF NotYet
<1>4. CASE UNCHANGED handed /\ RetireSeen
  <2>1. policy'.generation = policy.generation /\ ~policy'.current_join
    BY <1>4 DEF RetireSeen
  <2> QED BY <1>4, <2>1 DEF NotYet
<1> QED BY <1>1, <1>2, <1>3, <1>4, HandedStep

LEMMA StepContract ==
    ASSUME IInv, Targets, NotYet, [Next]_vars
    PROVE  [Joins!Next]_(Joins!join)
<1>1. CASE /\ StartSeen
           /\ handed' = [handed EXCEPT ![policy.generation] = @ + 1]
  <2>1. handed[policy.generation] = 0
    BY <1>1 DEF StartSeen, NotYet
  <2>2. Joins!Start
    BY <1>1, <2>1 DEF StartSeen, Joins!Start
  <2> QED BY <2>2 DEF Joins!Next
<1>2. CASE UNCHANGED handed /\ UNCHANGED Seen
  BY <1>2 DEF Seen, Joins!join
<1>3. CASE UNCHANGED handed /\ \E s \in Server : BeginSeen(s)
  BY <1>3 DEF BeginSeen, Joins!Begin, Joins!Next
<1>4. CASE UNCHANGED handed /\ RetireSeen
  BY <1>4 DEF RetireSeen, Joins!Retire, Joins!Next
<1> QED BY <1>1, <1>2, <1>3, <1>4, HandedStep

(* The join policy changes as the contract with party says: a frame that   *)
(* read an old state retires no join but the one that was started, and     *)
(* nothing starts or revives another one.                                  *)
THEOREM PolicyKeepsContract == Spec => KeepsContract
<1>1. Init => Joins!Init /\ NotYet
  BY DEF Init, NoPolicy, Joins!Init, NotYet, Generation
<1>2. Spec => []NotYet
  BY <1>1, NotYetStep, Inductive, PTL DEF Spec
<1> QED BY <1>1, <1>2, StepContract, Inductive, PTL DEF Spec, KeepsContract, Joins!Spec
=============================================================================
