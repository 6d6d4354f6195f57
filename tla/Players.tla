------------------------------- MODULE Players -------------------------------
(***************************************************************************)
(* The players of a match, as the server keeps them and tells of them:     *)
(* component/auth.cpp and component/profile_infos.cpp.                     *)
(*                                                                         *)
(* A connect packet that was put together waits for the next frame of the  *)
(* server.  dispatch_connect_packet then stores and hands on the player's  *)
(* profile, lets the engine find a slot, and hands on the slot's xuid,     *)
(* under the profile lock.  The main thread erases the profiles of those   *)
(* who are not connected; on a listen host it also joins other servers,    *)
(* which empties the cache.  Bots enter without a packet and a lock.       *)
(*                                                                         *)
(* Clients are reduced to what the server has told them.                   *)
(***************************************************************************)
EXTENDS Naturals, Sequences, FiniteSets

CONSTANTS
    Address,      \* where players connect from
    Loopback,     \* that of the player on a listen host
    Xuid,
    XuidOf,       \* [Address -> Xuid]: the hash of the key a player signs with
    Own,          \* the xuid of a listen host; not a player's on a dedicated server
    Dedicated,    \* game::is_server()
    NoXuid, Nobody,
    BotAddress,   \* NA_BOT: are_addresses_equal knows one address of that type
    BotXuid,
    MaxSlot,      \* bound: com_maxclients, 18 at most
    MaxConnects,  \* bound: connect packets put together
    MaxBots       \* bound: bots added

ASSUME PlayersAssumption ==
    /\ XuidOf \in [Address -> Xuid]
    /\ Loopback \in Address
    /\ NoXuid \notin Xuid \cup BotXuid
    /\ Own \in Xuid
    /\ Nobody \notin Address \cup {BotAddress} /\ BotAddress \notin Address
    /\ Dedicated \in BOOLEAN
    /\ Dedicated => \A a \in Address : XuidOf[a] # Own
    /\ MaxSlot \in Nat /\ MaxConnects \in Nat /\ MaxBots \in Nat

Slot == 0 .. MaxSlot

VARIABLES
    sv_running,
    clients,          \* [Slot -> [address, xuid]]; Nobody at the address is CS_FREE
    profile_mapping,  \* SUBSET Xuid: the players whose profile is cached
    packets,          \* Seq(Address): dispatches waiting on the server pipeline
    entering,         \* the player in dispatch_connect_packet or direct_connect_bots_stub
    told,             \* [Address -> [xuids, profiles, unread]]: what the server sent a
                      \* player who is connected, since the last dispatch of a packet;
                      \* unread is history: the host's profile could not be read then
    lost,             \* history: profiles that clear_profile_infos took away
    connects, bots    \* counters

server == <<sv_running, clients, packets, entering>>
counters == <<connects, bots>>
vars == <<server, profile_mapping, told, lost, counters>>

Free == [address |-> Nobody, xuid |-> NoXuid]

NoneEntering == [at |-> "none", address |-> Nobody, xuid |-> NoXuid]

Nothing == [xuids |-> [i \in Slot |-> NoXuid], profiles |-> {}, unread |-> FALSE]

Init ==
    /\ sv_running = FALSE
    /\ clients = [i \in Slot |-> Free]
    /\ profile_mapping = {}
    /\ packets = <<>>
    /\ entering = NoneEntering
    /\ told = [a \in Address |-> Nothing]
    /\ lost = {}
    /\ connects = 0 /\ bots = 0

Connected == {i \in Slot : clients[i].address # Nobody}

ConnectedAddresses == {clients[i].address : i \in Connected}

(* The profile lock is held through the dispatch of a connect packet.      *)
LockFree == entering.at = "none" \/ entering.address = BotAddress

-----------------------------------------------------------------------------
(* The packet is complete: its dispatch is left to the server pipeline.    *)
handle_connect_packet_fragment(a) ==
    /\ sv_running
    /\ connects < MaxConnects
    /\ connects' = connects + 1
    /\ packets' = Append(packets, a)
    /\ UNCHANGED <<sv_running, clients, entering, profile_mapping, told, lost, bots>>

(* A frame of the server: only a match that runs has them.                 *)
NextPacket ==
    /\ sv_running
    /\ entering = NoneEntering
    /\ packets # <<>>
    /\ packets' = Tail(packets)

(* Bad signature, xuid or name: for instance of a packet of another match. *)
dispatch_connect_packet_refuses ==
    /\ NextPacket
    /\ UNCHANGED <<sv_running, clients, entering, profile_mapping, told, lost, counters>>

(* distribute_profile_infos_to_user: every cached profile, and a listen    *)
(* host's own, if load_profile_info finds it in its file.                  *)
Profiles(unread) ==
    profile_mapping \cup (IF Dedicated \/ unread THEN {} ELSE {Own})

Unread == IF Dedicated THEN {FALSE} ELSE BOOLEAN

(* A checked packet: the player is told of the others' profiles, then the  *)
(* others of the player's.  The lock is taken here.                        *)
add_and_distribute_profile_info(unread) ==
    LET a == Head(packets)
        x == XuidOf[a]
        Fresh == [xuids |-> Nothing.xuids, profiles |-> Profiles(unread), unread |-> unread]
        ToPlayer == [told EXCEPT ![a] = Fresh]
    IN  /\ NextPacket
        /\ entering' = [at |-> "added", address |-> a, xuid |-> x]
        /\ profile_mapping' = IF x = Own THEN profile_mapping ELSE profile_mapping \cup {x}
        /\ told' = [b \in Address |->
                      IF x # Own /\ b \in ConnectedAddresses
                      THEN [ToPlayer[b] EXCEPT !.profiles = @ \cup {x}]
                      ELSE ToPlayer[b]]
        /\ lost' = lost \ {x}
        /\ UNCHANGED <<sv_running, clients, counters>>

(* The engine: a player who is there stays in the slot, another takes a    *)
(* free one, or none.                                                      *)
SV_DirectConnect ==
    /\ entering.at = "added"
    /\ entering' = [entering EXCEPT !.at = "connected"]
    /\ \/ /\ entering.address \in ConnectedAddresses
          /\ \E i \in Connected :
                /\ clients[i].address = entering.address
                /\ clients' = [clients EXCEPT ![i].xuid = NoXuid]
       \/ /\ entering.address \notin ConnectedAddresses
          /\ \E i \in Slot \ Connected :
                clients' = [clients EXCEPT ![i].address = entering.address]
       \/ UNCHANGED clients
    /\ UNCHANGED <<sv_running, packets, profile_mapping, told, lost, counters>>

(* SV_AddTestClient, whose call of SV_DirectConnect is hooked.             *)
direct_connect_bots_stub(x) ==
    /\ sv_running /\ entering = NoneEntering
    /\ bots < MaxBots
    /\ bots' = bots + 1
    /\ \E i \in Slot \ Connected : clients' = [clients EXCEPT ![i].address = BotAddress]
    /\ entering' = [at |-> "connected", address |-> BotAddress, xuid |-> x]
    /\ UNCHANGED <<sv_running, packets, profile_mapping, told, lost, connects>>

(* The slots with the address of the player; all bots have the same.       *)
Matching == {i \in Slot : clients[i].address = entering.address}

(* Mutant: the player is not told of the others.                           *)
distribute_player_xuid_OneWay(slots, player_index, xuid) ==
    [a \in Address |->
        IF \E i \in Slot : slots[i].address = a
        THEN [told[a] EXCEPT !.xuids[player_index] = xuid]
        ELSE told[a]]

(* Everyone is told of the player, and the player of everyone.             *)
distribute_player_xuid(slots, player_index, xuid) ==
    [a \in Address |->
        IF a = entering.address
        THEN [told[a] EXCEPT !.xuids =
                [i \in Slot |-> IF slots[i].address = Nobody THEN @[i] ELSE slots[i].xuid]]
        ELSE IF \E i \in Slot : slots[i].address = a
        THEN [told[a] EXCEPT !.xuids[player_index] = xuid]
        ELSE told[a]]

Forgotten(S) == [a \in Address |-> IF a \in S THEN Nothing ELSE told[a]]

(* The xuid is stored in every slot that has the address; the last of them *)
(* is the one handed on.                                                   *)
handle_new_player ==
    /\ entering.at = "connected"
    /\ entering' = NoneEntering
    /\ \/ /\ Matching = {}
          /\ told' = Forgotten({entering.address})
          /\ UNCHANGED clients
       \/ \E player_index \in Matching :
             /\ \A i \in Matching : i <= player_index
             /\ clients' = [i \in Slot |-> IF i \in Matching
                                          THEN [clients[i] EXCEPT !.xuid = entering.xuid]
                                          ELSE clients[i]]
             /\ told' = distribute_player_xuid(clients', player_index, entering.xuid)
    /\ UNCHANGED <<sv_running, packets, profile_mapping, lost, counters>>

-----------------------------------------------------------------------------
(* The main thread                                                         *)

Wanted == {clients[i].xuid : i \in Connected}

(* Mutants: the lock is not taken; the early return is the wrong way round. *)
clean_cached_profile_infos_Unlocked ==
    /\ sv_running
    /\ profile_mapping' = profile_mapping \cap Wanted
    /\ UNCHANGED <<server, told, lost, counters>>

clean_cached_profile_infos_Stopped ==
    /\ ~sv_running /\ LockFree
    /\ profile_mapping' = profile_mapping \cap Wanted
    /\ UNCHANGED <<server, told, lost, counters>>

(* Every five seconds.                                                     *)
clean_cached_profile_infos ==
    /\ sv_running /\ LockFree
    /\ profile_mapping' = profile_mapping \cap Wanted
    /\ UNCHANGED <<server, told, lost, counters>>

(* party::connect and requery_current_server of a listen host.             *)
clear_profile_infos ==
    /\ ~Dedicated
    /\ LockFree
    /\ profile_mapping' = {}
    /\ lost' = lost \cup profile_mapping
    /\ UNCHANGED <<server, told, counters>>

(* The handler of profileInfo of a listen host, which joins another server *)
(* or is its own client.                                                   *)
handle_profile_info(x) ==
    /\ ~Dedicated
    /\ LockFree
    /\ sv_running => x \in told[Loopback].profiles
    /\ x # Own
    /\ profile_mapping' = profile_mapping \cup {x}
    /\ UNCHANGED <<server, told, lost, counters>>

-----------------------------------------------------------------------------
(* The engine, between the steps of a dispatch, not in them                *)

Start ==
    /\ ~sv_running
    /\ sv_running' = TRUE
    /\ UNCHANGED <<clients, packets, entering, profile_mapping, told, lost, counters>>

(* The match ends; what waits on the server pipeline is not forgotten.     *)
Stop ==
    /\ sv_running /\ entering = NoneEntering
    /\ sv_running' = FALSE
    /\ clients' = [i \in Slot |-> Free]
    /\ told' = Forgotten(Address)
    /\ lost' = {}
    /\ UNCHANGED <<packets, entering, profile_mapping, counters>>

Drop(i) ==
    /\ i \in Connected /\ entering = NoneEntering
    /\ clients' = [clients EXCEPT ![i] = Free]
    /\ told' = Forgotten({clients[i].address})
    /\ UNCHANGED <<sv_running, packets, entering, profile_mapping, lost, counters>>

Dispatch ==
    \/ dispatch_connect_packet_refuses
    \/ \E unread \in Unread : add_and_distribute_profile_info(unread)
    \/ SV_DirectConnect \/ handle_new_player

Next ==
    \/ \E a \in Address : handle_connect_packet_fragment(a)
    \/ \E x \in BotXuid : direct_connect_bots_stub(x)
    \/ Dispatch
    \/ clean_cached_profile_infos \/ clear_profile_infos
    \/ \E x \in Xuid : handle_profile_info(x)
    \/ Start \/ Stop
    \/ \E i \in Slot : Drop(i)

Spec == Init /\ [][Next]_vars

(* A dispatch that has begun is finished, as it waits for nothing, and the *)
(* main thread gets a lock that is released again and again.               *)
FairSpec ==
    /\ Spec
    /\ WF_vars(SV_DirectConnect) /\ WF_vars(handle_new_player)
    /\ SF_vars(clean_cached_profile_infos)

-----------------------------------------------------------------------------
TypeOK ==
    /\ sv_running \in BOOLEAN
    /\ clients \in [Slot -> [address : Address \cup {BotAddress, Nobody},
                             xuid : Xuid \cup BotXuid \cup {NoXuid}]]
    /\ profile_mapping \subseteq Xuid
    /\ packets \in Seq(Address)
    /\ entering \in [at : {"none", "added", "connected"},
                     address : Address \cup {BotAddress, Nobody},
                     xuid : Xuid \cup BotXuid \cup {NoXuid}]
    /\ told \in [Address -> [xuids : [Slot -> Xuid \cup BotXuid \cup {NoXuid}],
                             profiles : SUBSET Xuid, unread : BOOLEAN]]
    /\ lost \subseteq Xuid
    /\ connects \in 0 .. MaxConnects /\ bots \in 0 .. MaxBots

Players == {i \in Connected : clients[i].address \in Address}

(* Whoever has a slot has a profile in the cache: the cleaner never takes  *)
(* that of a player on the way in for one who left, whatever else comes    *)
(* and goes.  (A listen host that joins elsewhere empties its own cache.)  *)
ProfileKept ==
    \A i \in Players : clients[i].xuid \in profile_mapping \cup lost \cup {Own, NoXuid}

(* The players who are not on their way in (again).                        *)
Settled == {i \in Players : clients[i].address # entering.address}

(* Each of two settled players has been sent the xuid that stands in the   *)
(* slot of the other, which playerXuid says only once, however they came,  *)
(* left, came again, or came with one xuid from two addresses.  (Not that  *)
(* of a bot: a second bot changes the xuid of the first and tells nobody.) *)
XuidsTold ==
    \A i, j \in Settled :
        i # j => told[clients[i].address].xuids[j] = clients[j].xuid

(* What the server had no profile to send for: its own, when it could not  *)
(* read it, is sent at the player's next connect packet at the earliest.   *)
Missing(a) == IF told[a].unread THEN {Own} ELSE {}

(* Each has been sent the other's profile, whichever of them came first.   *)
(* (Not one the host's own join took out of the cache, and not the host's, *)
(* when it could not be read as the packet of the player was dispatched.)  *)
ProfilesTold ==
    \A i, j \in Settled :
        clients[i].xuid # clients[j].xuid
            => clients[j].xuid \in told[clients[i].address].profiles
                                    \cup lost \cup Missing(clients[i].address)

(* Two settled players know each other: xuid and profile.                  *)
Acquainted == XuidsTold /\ ProfilesTold

(* The profiles of those who left do not stay, however they come and go.   *)
Cleaned == (sv_running /\ ~(profile_mapping \subseteq Wanted))
               ~> (profile_mapping \subseteq Wanted \/ ~sv_running)

-----------------------------------------------------------------------------
(* The inductive strengthening.                                            *)

(* A bot has neither packet nor profile; a player on the way in has both,  *)
(* and nobody can take the profile while the dispatch has the lock.        *)
Entering ==
    /\ entering.at = "none" => entering = NoneEntering
    /\ entering.at = "added" => entering.address \in Address
    /\ entering.at # "none" => entering.address # Nobody /\ entering.xuid # NoXuid
    /\ entering.address \in Address =>
          /\ entering.xuid = XuidOf[entering.address]
          /\ entering.xuid \in profile_mapping \cup {Own}

(* A slot has the xuid of who is in it, once that player has settled, and  *)
(* nobody is in two.                                                       *)
Occupants ==
    /\ \A i \in Slot : clients[i].address = Nobody => clients[i].xuid = NoXuid
    /\ \A i \in Players : clients[i].xuid \in {XuidOf[clients[i].address], NoXuid}
    /\ \A i \in Settled : clients[i].xuid # NoXuid
    /\ \A i, j \in Players : clients[i].address = clients[j].address => i = j

(* The host's own profile is never in its cache, and told to everyone, if  *)
(* it can be read.                                                         *)
OwnTold(a) == Own \in told[a].profiles \cup Missing(a)

OwnProfile ==
    /\ Own \notin profile_mapping \cup lost
    /\ ~Dedicated =>
          /\ \A i \in Settled : OwnTold(clients[i].address)
          /\ entering.address \in Address => OwnTold(entering.address)

(* What ProfilesTold will say of the player on the way in.                 *)
Introduced ==
    entering.address \in Address =>
        \A i \in Settled :
            clients[i].xuid # entering.xuid =>
                /\ clients[i].xuid \in told[entering.address].profiles
                                           \cup lost \cup Missing(entering.address)
                /\ entering.xuid \in told[clients[i].address].profiles
                                        \cup Missing(clients[i].address)

IInv ==
    /\ TypeOK /\ Entering /\ Occupants /\ OwnProfile /\ Introduced
    /\ ProfileKept /\ XuidsTold /\ ProfilesTold
=============================================================================
