---------------------------- MODULE PlayersProofs ----------------------------
(***************************************************************************)
(* Proofs about Players, for any addresses, xuids and number of slots:     *)
(* whoever has a slot has a profile in the cache, and has been told of the *)
(* xuid and the profile of everybody else.                                 *)
(***************************************************************************)
EXTENDS Players, TLAPS

SlotRecord == [address : Address \cup {BotAddress, Nobody},
               xuid : Xuid \cup BotXuid \cup {NoXuid}]

ToldRecord == [xuids : [Slot -> Xuid \cup BotXuid \cup {NoXuid}],
               profiles : SUBSET Xuid, unread : BOOLEAN]

LEMMA InitIInv == Init => IInv
<1> SUFFICES ASSUME Init PROVE IInv
  OBVIOUS
<1> USE PlayersAssumption DEF Init
<1>1. Players = {} /\ Settled = {}
  BY DEF Players, Settled, Connected, Free
<1>2. TypeOK
  <2>1. Nothing \in ToldRecord
    BY DEF Nothing, ToldRecord
  <2>2. Free \in SlotRecord /\ <<>> \in Seq(Address)
    BY DEF Free, SlotRecord
  <2>3. clients \in [Slot -> SlotRecord] /\ told \in [Address -> ToldRecord]
    BY <2>1, <2>2
  <2>4. connects \in 0 .. MaxConnects /\ bots \in 0 .. MaxBots
    OBVIOUS
  <2>5. entering \in [at : {"none", "added", "connected"},
                     address : Address \cup {BotAddress, Nobody},
                     xuid : Xuid \cup BotXuid \cup {NoXuid}]
    BY DEF NoneEntering
  <2> QED BY <2>2, <2>3, <2>4, <2>5 DEF TypeOK, SlotRecord, ToldRecord
<1>3. Entering /\ OwnProfile /\ Introduced
  BY <1>1 DEF Entering, NoneEntering, OwnProfile, Introduced, OwnTold, Missing
<1>4. Occupants
  BY <1>1 DEF Occupants, Free
<1> QED BY <1>1, <1>2, <1>3, <1>4 DEF IInv, ProfileKept, XuidsTold, ProfilesTold, Missing

(* Steps that move nobody: only the cache may shrink, for a reason.        *)
LEMMA NobodyMoves ==
    ASSUME IInv, TypeOK', UNCHANGED <<clients, entering, told>>,
           lost' \in SUBSET Xuid, profile_mapping' \in SUBSET Xuid,
           lost \subseteq lost',
           profile_mapping' \cup lost' \subseteq profile_mapping \cup lost,
           \A i \in Players :
               clients[i].xuid \in profile_mapping \cup lost
                   => clients[i].xuid \in profile_mapping' \cup lost',
           entering.address \in Address => profile_mapping' = profile_mapping
    PROVE  IInv'
<1>1. Players' = Players /\ Settled' = Settled
  BY DEF Players, Settled, Connected
<1>2. Entering' /\ Occupants'
  BY <1>1 DEF IInv, Entering, Occupants
<1>3. OwnProfile' /\ Introduced'
  BY <1>1 DEF IInv, OwnProfile, Introduced, OwnTold, Missing
<1>4. ProfileKept' /\ XuidsTold' /\ ProfilesTold'
  BY <1>1 DEF IInv, ProfileKept, XuidsTold, ProfilesTold, Missing
<1> QED BY <1>2, <1>3, <1>4 DEF IInv

LEMMA PacketStep ==
    ASSUME IInv,
           \/ \E a \in Address : handle_connect_packet_fragment(a)
           \/ dispatch_connect_packet_refuses
           \/ Start
    PROVE  IInv'
<1>1. UNCHANGED <<clients, entering, told, profile_mapping, lost, bots>>
  BY DEF handle_connect_packet_fragment, dispatch_connect_packet_refuses, Start, counters
<1>2. TypeOK'
  <2>1. packets \in Seq(Address) /\ connects \in 0 .. MaxConnects /\ sv_running \in BOOLEAN
    BY DEF IInv, TypeOK
  <2>2. ASSUME NEW a \in Address, handle_connect_packet_fragment(a)
        PROVE  /\ packets' \in Seq(Address) /\ connects' \in 0 .. MaxConnects
               /\ sv_running' \in BOOLEAN
    <3>1. packets' \in Seq(Address)
      BY <2>1, <2>2 DEF handle_connect_packet_fragment
    <3>2. connects' \in 0 .. MaxConnects
      BY <2>1, <2>2, PlayersAssumption DEF handle_connect_packet_fragment
    <3>3. sv_running' \in BOOLEAN
      BY <2>1, <2>2 DEF handle_connect_packet_fragment
    <3> QED BY <3>1, <3>2, <3>3
  <2>3. ASSUME dispatch_connect_packet_refuses
        PROVE  packets' \in Seq(Address) /\ UNCHANGED <<connects, sv_running>>
    BY <2>1, <2>3 DEF dispatch_connect_packet_refuses, NextPacket, counters
  <2>4. ASSUME Start
        PROVE  UNCHANGED <<packets, connects>> /\ sv_running' \in BOOLEAN
    BY <2>4 DEF Start, counters
  <2>5. packets' \in Seq(Address) /\ connects' \in 0 .. MaxConnects /\ sv_running' \in BOOLEAN
    BY <2>1, <2>2, <2>3, <2>4
  <2> QED BY <1>1, <2>5 DEF IInv, TypeOK
<1>3. lost' \in SUBSET Xuid /\ profile_mapping' \in SUBSET Xuid
  BY <1>1 DEF IInv, TypeOK
<1> QED BY <1>1, <1>2, <1>3, NobodyMoves

LEMMA CleanStep ==
    ASSUME IInv, clean_cached_profile_infos \/ clear_profile_infos
    PROVE  IInv'
<1>1. UNCHANGED <<sv_running, clients, packets, entering, told, connects, bots>> /\ LockFree
  BY DEF clean_cached_profile_infos, clear_profile_infos, server, counters
<1>2. /\ profile_mapping' \subseteq profile_mapping
      /\ lost \subseteq lost' /\ lost' \subseteq lost \cup profile_mapping
  BY DEF clean_cached_profile_infos, clear_profile_infos
<1>3. TypeOK'
  BY <1>1, <1>2 DEF IInv, TypeOK
<1>4. entering.address \notin Address
  BY <1>1, PlayersAssumption DEF LockFree, IInv, Entering, NoneEntering
<1>5. ASSUME NEW i \in Players, clients[i].xuid \in profile_mapping \cup lost
      PROVE  clients[i].xuid \in profile_mapping' \cup lost'
  <2>1. clients[i].xuid \in Wanted
    BY DEF Wanted, Players
  <2> QED BY <1>5, <2>1 DEF clean_cached_profile_infos, clear_profile_infos
<1> QED BY <1>1, <1>2, <1>3, <1>4, <1>5, NobodyMoves DEF IInv, TypeOK

(* A profile more in the cache changes nothing but the cache.              *)
LEMMA ProfileInfoStep ==
    ASSUME IInv, NEW x \in Xuid, handle_profile_info(x)
    PROVE  IInv'
<1>1. /\ UNCHANGED <<sv_running, clients, packets, entering, told, lost, connects, bots>>
      /\ x # Own /\ profile_mapping' = profile_mapping \cup {x}
  BY DEF handle_profile_info, server, counters
<1>2. TypeOK'
  BY <1>1 DEF IInv, TypeOK
<1>3. Players' = Players /\ Settled' = Settled
  BY <1>1 DEF Players, Settled, Connected
<1>4. Entering' /\ Occupants'
  BY <1>1, <1>3 DEF IInv, Entering, Occupants
<1>5. OwnProfile' /\ Introduced'
  BY <1>1, <1>3 DEF IInv, OwnProfile, Introduced, OwnTold, Missing
<1>6. ProfileKept' /\ XuidsTold' /\ ProfilesTold'
  BY <1>1, <1>3 DEF IInv, ProfileKept, XuidsTold, ProfilesTold, Missing
<1> QED BY <1>2, <1>4, <1>5, <1>6 DEF IInv

-----------------------------------------------------------------------------
(* A player's packet is dispatched.                                        *)

LEMMA AddStep ==
    ASSUME IInv, NEW unread \in Unread, add_and_distribute_profile_info(unread)
    PROVE  IInv'
<1> DEFINE a == Head(packets)
           x == XuidOf[a]
           MissingThen(b) == IF told'[b].unread THEN {Own} ELSE {}
<1>1. a \in Address /\ x \in Xuid
  BY PlayersAssumption
  DEF add_and_distribute_profile_info, NextPacket, IInv, TypeOK
<1>2. /\ entering = NoneEntering
      /\ entering' = [at |-> "added", address |-> a, xuid |-> x]
      /\ profile_mapping' = IF x = Own THEN profile_mapping ELSE profile_mapping \cup {x}
      /\ lost' = lost \ {x}
      /\ UNCHANGED <<sv_running, clients, connects, bots>>
  BY DEF add_and_distribute_profile_info, NextPacket, counters
<1>3. told[a] \in ToldRecord /\ told \in [Address -> ToldRecord]
  BY <1>1 DEF IInv, TypeOK, ToldRecord
<1>4. /\ \A b \in Address :
            /\ told'[b] \in ToldRecord
            /\ b # a => told'[b].xuids = told[b].xuids
            /\ b # a => /\ told[b].profiles \subseteq told'[b].profiles
                        /\ told'[b].unread = told[b].unread
            /\ x # Own /\ b \in ConnectedAddresses => x \in told'[b].profiles
      /\ Profiles(unread) \subseteq told'[a].profiles /\ told'[a].unread = unread
      /\ told' \in [Address -> ToldRecord]
  <2> DEFINE Fresh == [xuids |-> Nothing.xuids, profiles |-> Profiles(unread),
                       unread |-> unread]
             ToPlayer == [told EXCEPT ![a] = Fresh]
  <2>1. Profiles(unread) \in SUBSET Xuid /\ unread \in BOOLEAN
    BY PlayersAssumption DEF Profiles, Unread, IInv, TypeOK
  <2>2. Fresh = [xuids |-> [i \in Slot |-> NoXuid], profiles |-> Profiles(unread),
                 unread |-> unread]
    BY DEF Nothing
  <2>3. Fresh \in ToldRecord
    BY <2>1, <2>2 DEF ToldRecord
  <2>4. ToPlayer \in [Address -> ToldRecord] /\ ToPlayer[a].profiles = Profiles(unread)
        /\ ToPlayer[a].unread = unread
        /\ \A b \in Address : b # a => ToPlayer[b] = told[b]
    BY <1>1, <1>3, <2>2, <2>3
  <2>5. told' = [b \in Address |->
                    IF x # Own /\ b \in ConnectedAddresses
                    THEN [ToPlayer[b] EXCEPT !.profiles = @ \cup {x}]
                    ELSE ToPlayer[b]]
    BY DEF add_and_distribute_profile_info
  <2> HIDE DEF ToPlayer, x, a
  <2>6. ASSUME NEW b \in Address
        PROVE  /\ told'[b] \in ToldRecord
               /\ told'[b].xuids = ToPlayer[b].xuids
               /\ told'[b].unread = ToPlayer[b].unread
               /\ ToPlayer[b].profiles \subseteq told'[b].profiles
               /\ x # Own /\ b \in ConnectedAddresses => x \in told'[b].profiles
    <3>1. ToPlayer[b] \in ToldRecord
      BY <2>4
    <3>2. [ToPlayer[b] EXCEPT !.profiles = @ \cup {x}]
            = [xuids |-> ToPlayer[b].xuids, profiles |-> ToPlayer[b].profiles \cup {x},
               unread |-> ToPlayer[b].unread]
      BY <3>1 DEF ToldRecord
    <3>3. told'[b] = IF x # Own /\ b \in ConnectedAddresses
                     THEN [xuids |-> ToPlayer[b].xuids,
                           profiles |-> ToPlayer[b].profiles \cup {x},
                           unread |-> ToPlayer[b].unread]
                     ELSE ToPlayer[b]
      BY <2>5, <3>2
    <3> QED BY <1>1, <3>1, <3>3 DEF ToldRecord
  <2>7. told' \in [Address -> ToldRecord]
    BY <2>5, <2>6
  <2> QED BY <1>1, <2>4, <2>6, <2>7
<1> HIDE DEF a, x
<1>5. Players' = Players /\ Settled' \subseteq Settled
      /\ \A i \in Settled' : clients[i].address # a /\ clients[i].address \in Address
                             /\ clients[i].address \in ConnectedAddresses
  BY <1>2, PlayersAssumption
  DEF Players, Settled, Connected, ConnectedAddresses, NoneEntering
<1>6. Settled = Players
  BY <1>2, PlayersAssumption DEF Settled, Players, NoneEntering
<1>7. TypeOK'
  <2>1. entering' \in [at : {"none", "added", "connected"},
                       address : Address \cup {BotAddress, Nobody},
                       xuid : Xuid \cup BotXuid \cup {NoXuid}]
    BY <1>1, <1>2
  <2>2. packets' \in Seq(Address)
    BY DEF add_and_distribute_profile_info, NextPacket, IInv, TypeOK
  <2>3. profile_mapping' \subseteq Xuid /\ lost' \subseteq Xuid
    BY <1>1, <1>2 DEF IInv, TypeOK
  <2> QED BY <1>2, <1>4, <2>1, <2>2, <2>3 DEF IInv, TypeOK, ToldRecord
<1>8. Entering'
  BY <1>1, <1>2, PlayersAssumption DEF Entering, a, x
<1>9. Occupants'
  BY <1>2, <1>5 DEF IInv, Occupants
<1>10. OwnProfile'
  <2>1. Own \notin profile_mapping' \cup lost'
    BY <1>2 DEF IInv, OwnProfile, OwnTold, Missing
  <2>2. ~Dedicated => Own \in told'[a].profiles \/ told'[a].unread
    BY <1>4 DEF Profiles
  <2> QED BY <1>2, <1>4, <1>5, <2>1, <2>2 DEF IInv, OwnProfile, OwnTold, Missing
<1>11. ProfileKept'
  BY <1>2, <1>5 DEF IInv, ProfileKept
<1>12. XuidsTold'
  BY <1>2, <1>4, <1>5 DEF IInv, XuidsTold
<1>13. ProfilesTold'
  <2> SUFFICES ASSUME NEW i \in Settled', NEW j \in Settled',
                      clients[i].xuid # clients[j].xuid
               PROVE  clients[j].xuid \in told'[clients[i].address].profiles
                                \cup lost' \cup MissingThen(clients[i].address)
    BY <1>2 DEF ProfilesTold, Missing
  <2>1. clients[j].xuid \in told[clients[i].address].profiles
                              \cup lost \cup Missing(clients[i].address)
    BY <1>5 DEF IInv, ProfilesTold, Missing
  <2>2. CASE clients[j].xuid = x
    <3>1. x = Own => x \notin lost
      BY DEF IInv, OwnProfile, OwnTold, Missing
    <3> QED BY <1>4, <1>5, <2>1, <2>2, <3>1 DEF Missing
  <2>3. CASE clients[j].xuid # x
    BY <1>2, <1>4, <1>5, <2>1, <2>3 DEF Missing
  <2> QED BY <2>2, <2>3
<1>14. Introduced'
  <2> SUFFICES ASSUME NEW i \in Settled', clients[i].xuid # x
               PROVE  /\ clients[i].xuid \in told'[a].profiles \cup lost' \cup MissingThen(a)
                      /\ x \in told'[clients[i].address].profiles
                                 \cup MissingThen(clients[i].address)
    BY <1>2 DEF Introduced, Missing
  <2>1. i \in Settled /\ i \in Players /\ clients[i].xuid # NoXuid
        /\ clients[i].xuid \in {XuidOf[clients[i].address], NoXuid}
    BY <1>5, <1>6 DEF IInv, Occupants
  <2>2. clients[i].xuid \in profile_mapping \cup lost \cup {Own}
    BY <2>1 DEF IInv, ProfileKept
  <2>3. clients[i].xuid = Own => ~Dedicated
    BY <1>5, <2>1, PlayersAssumption
  <2>4. clients[i].xuid \in told'[a].profiles \cup lost' \cup MissingThen(a)
    BY <1>2, <1>4, <2>2, <2>3 DEF Profiles, Missing
  <2>5. x = Own => ~Dedicated
    BY <1>1, PlayersAssumption DEF x
  <2>6. x \in told'[clients[i].address].profiles \cup MissingThen(clients[i].address)
    BY <1>4, <1>5, <2>1, <2>5 DEF IInv, OwnProfile, OwnTold, Missing
  <2> QED BY <2>4, <2>6
<1> QED BY <1>7, <1>8, <1>9, <1>10, <1>11, <1>12, <1>13, <1>14 DEF IInv

-----------------------------------------------------------------------------
(* The engine takes the player, or a bot, into a slot.                     *)

(* A slot is given to who is on the way in; nobody else notices.           *)
LEMMA SlotTaken ==
    ASSUME IInv, TypeOK', Entering', UNCHANGED <<profile_mapping, told, lost>>,
           entering'.address # Nobody,
           entering.address \in {Nobody, entering'.address},
           entering'.address \in Address =>
               entering' = [entering EXCEPT !.at = "connected"],
           NEW p \in Slot, clients[p].address \in {Nobody, entering'.address},
           \A i \in Slot : i # p =>
               /\ clients[i].address = entering'.address => entering'.address = BotAddress
               /\ clients'[i] = clients[i],
           clients'[p] = [address |-> entering'.address, xuid |-> NoXuid]
    PROVE  IInv'
<1> USE PlayersAssumption
<1>1. /\ Settled' = Settled
      /\ \A i \in Settled : /\ i # p /\ i \in Slot /\ clients'[i] = clients[i]
                            /\ clients[i].address \in Address
      /\ \A i \in Players' : i # p => i \in Players /\ clients'[i] = clients[i]
      /\ Players' \subseteq Slot
  <2>1. \A i \in Slot : i \in Players <=> clients[i].address \in Address
    BY DEF Players, Connected
  <2>2. \A i \in Slot : i \in Players' <=> clients'[i].address \in Address
    BY DEF Players, Connected
  <2>3. Players \subseteq Slot /\ Players' \subseteq Slot
    BY DEF Players, Connected
  <2>4. entering'.address \in Address => entering.address = entering'.address
    BY DEF IInv, TypeOK
  <2>5. p \notin Settled /\ p \notin Settled'
    BY <2>1, <2>2, <2>4 DEF Settled
  <2>6. \A i \in Slot : i # p => (i \in Settled <=> i \in Settled')
    BY <2>1, <2>2, <2>4 DEF Settled
  <2> QED BY <2>1, <2>2, <2>3, <2>5, <2>6 DEF Settled
<1>2. Occupants'
  <2>1. \A i \in Slot : clients'[i].address = Nobody => clients'[i].xuid = NoXuid
    BY DEF IInv, Occupants
  <2>2. \A i \in Players' : clients'[i].xuid \in {XuidOf[clients'[i].address], NoXuid}
    BY <1>1 DEF IInv, Occupants
  <2>3. \A i \in Settled' : clients'[i].xuid # NoXuid
    BY <1>1 DEF IInv, Occupants
  <2>4. ASSUME NEW i \in Players', NEW j \in Players',
               clients'[i].address = clients'[j].address
        PROVE  i = j
    <3>1. CASE i # p /\ j # p
      BY <1>1, <2>4, <3>1 DEF IInv, Occupants
    <3>2. CASE i = p \/ j = p
      <4>1. \A k \in Players' : clients'[k].address \in Address
        BY DEF Players
      <4> QED BY <1>1, <2>4, <3>2, <4>1
    <3> QED BY <3>1, <3>2
  <2> QED BY <2>1, <2>2, <2>3, <2>4 DEF Occupants
<1>3. OwnProfile'
  <2>1. entering'.address \in Address => entering.address = entering'.address
    BY DEF IInv, TypeOK
  <2> QED BY <1>1, <2>1 DEF IInv, OwnProfile, OwnTold, Missing
<1>4. Introduced'
  <2>1. entering'.address \in Address =>
            entering.address = entering'.address /\ entering.xuid = entering'.xuid
    BY DEF IInv, TypeOK
  <2> QED BY <1>1, <2>1 DEF IInv, Introduced, Missing
<1>5. ProfileKept'
  BY <1>1 DEF IInv, ProfileKept
<1>6. XuidsTold' /\ ProfilesTold'
  BY <1>1 DEF IInv, XuidsTold, ProfilesTold, Missing
<1> QED BY <1>2, <1>3, <1>4, <1>5, <1>6 DEF IInv

LEMMA ConnectStep ==
    ASSUME IInv, SV_DirectConnect
    PROVE  IInv'
<1> USE PlayersAssumption
<1>1. /\ entering.address \in Address
      /\ entering' = [entering EXCEPT !.at = "connected"]
      /\ UNCHANGED <<sv_running, packets, profile_mapping, told, lost, connects, bots>>
  BY DEF SV_DirectConnect, IInv, Entering, counters
<1>2. /\ entering' \in [at : {"none", "added", "connected"},
                        address : Address \cup {BotAddress, Nobody},
                        xuid : Xuid \cup BotXuid \cup {NoXuid}]
      /\ entering'.at = "connected" /\ entering'.address = entering.address
      /\ entering'.xuid = entering.xuid
  BY <1>1 DEF IInv, TypeOK
<1>3. Entering'
  BY <1>1, <1>2 DEF IInv, Entering
<1>4. clients \in [Slot -> SlotRecord]
  BY DEF IInv, TypeOK, SlotRecord
<1>5. CASE \E i \in Connected :
              /\ clients[i].address = entering.address
              /\ clients' = [clients EXCEPT ![i].xuid = NoXuid]
  <2>1. PICK p \in Connected : /\ clients[p].address = entering.address
                               /\ clients' = [clients EXCEPT ![p].xuid = NoXuid]
    BY <1>5
  <2>2. p \in Slot /\ clients'[p] = [address |-> entering.address, xuid |-> NoXuid]
        /\ \A i \in Slot : i # p => clients'[i] = clients[i]
    BY <1>4, <2>1 DEF Connected, SlotRecord
  <2>3. clients' \in [Slot -> SlotRecord]
    BY <1>1, <1>4, <2>1, <2>2 DEF SlotRecord
  <2>4. TypeOK'
    BY <1>1, <1>2, <2>3 DEF IInv, TypeOK, SlotRecord
  <2>5. \A i \in Slot : i # p => clients[i].address # entering.address
    BY <1>1, <2>1 DEF IInv, Occupants, Players, Connected
  <2> QED BY <1>1, <1>2, <1>3, <2>1, <2>2, <2>4, <2>5, SlotTaken
<1>6. CASE /\ entering.address \notin ConnectedAddresses
           /\ \E i \in Slot \ Connected :
                 clients' = [clients EXCEPT ![i].address = entering.address]
  <2>1. PICK p \in Slot \ Connected :
                 clients' = [clients EXCEPT ![p].address = entering.address]
    BY <1>6
  <2>2. clients[p].address = Nobody /\ clients[p].xuid = NoXuid
    BY <2>1 DEF Connected, IInv, Occupants
  <2>3. clients'[p] = [address |-> entering.address, xuid |-> NoXuid]
        /\ \A i \in Slot : i # p => clients'[i] = clients[i]
    BY <1>4, <2>1, <2>2 DEF SlotRecord
  <2>4. clients' \in [Slot -> SlotRecord]
    BY <1>1, <1>4, <2>1, <2>3 DEF SlotRecord
  <2>5. TypeOK'
    BY <1>1, <1>2, <2>4 DEF IInv, TypeOK, SlotRecord
  <2>6. \A i \in Slot : clients[i].address # entering.address
    BY <1>1, <1>6 DEF ConnectedAddresses, Connected
  <2> QED BY <1>1, <1>2, <1>3, <2>1, <2>2, <2>3, <2>5, <2>6, SlotTaken
<1>7. CASE UNCHANGED clients
  <2>1. Players' = Players /\ Settled' = Settled
    BY <1>2, <1>7 DEF Players, Settled, Connected
  <2>2. TypeOK'
    BY <1>1, <1>2, <1>7 DEF IInv, TypeOK
  <2>3. Occupants' /\ OwnProfile' /\ Introduced'
    BY <1>1, <1>2, <1>7, <2>1 DEF IInv, Occupants, OwnProfile, Introduced, OwnTold, Missing
  <2>4. ProfileKept' /\ XuidsTold' /\ ProfilesTold'
    BY <1>1, <1>7, <2>1 DEF IInv, ProfileKept, XuidsTold, ProfilesTold, Missing
  <2> QED BY <1>3, <2>2, <2>3, <2>4 DEF IInv
<1> QED BY <1>5, <1>6, <1>7 DEF SV_DirectConnect

LEMMA BotStep ==
    ASSUME IInv, NEW x \in BotXuid, direct_connect_bots_stub(x)
    PROVE  IInv'
<1> USE PlayersAssumption
<1>1. /\ entering = NoneEntering
      /\ entering' = [at |-> "connected", address |-> BotAddress, xuid |-> x]
      /\ UNCHANGED <<sv_running, packets, profile_mapping, told, lost, connects>>
  BY DEF direct_connect_bots_stub
<1>2. bots' \in 0 .. MaxBots
  BY DEF direct_connect_bots_stub, IInv, TypeOK
<1>3. clients \in [Slot -> SlotRecord]
  BY DEF IInv, TypeOK, SlotRecord
<1>4. PICK p \in Slot \ Connected : clients' = [clients EXCEPT ![p].address = BotAddress]
  BY DEF direct_connect_bots_stub
<1>5. clients[p].address = Nobody /\ clients[p].xuid = NoXuid
  BY <1>4 DEF Connected, IInv, Occupants
<1>6. clients'[p] = [address |-> BotAddress, xuid |-> NoXuid]
      /\ \A i \in Slot : i # p => clients'[i] = clients[i]
  BY <1>3, <1>4, <1>5 DEF SlotRecord
<1>7. clients' \in [Slot -> SlotRecord]
  BY <1>3, <1>4, <1>6 DEF SlotRecord
<1>8. entering' \in [at : {"none", "added", "connected"},
                     address : Address \cup {BotAddress, Nobody},
                     xuid : Xuid \cup BotXuid \cup {NoXuid}]
  BY <1>1
<1>9. TypeOK'
  BY <1>1, <1>2, <1>7, <1>8 DEF IInv, TypeOK, SlotRecord
<1>10. Entering' /\ entering'.address = BotAddress /\ entering.address = Nobody
       /\ BotAddress # Nobody
  BY <1>1 DEF Entering, NoneEntering
<1> QED BY <1>1, <1>4, <1>5, <1>6, <1>9, <1>10, SlotTaken

-----------------------------------------------------------------------------
(* The slot gets its xuid, and everyone is told.                           *)

(* A bot, or nobody: what players were told of each other stays.           *)
LEMMA OthersUntouched ==
    ASSUME IInv, TypeOK', Entering', UNCHANGED <<profile_mapping, lost>>,
           entering' = NoneEntering, Settled = Players,
           \A i \in Slot : clients'[i].address \in {clients[i].address, Nobody},
           \A i \in Slot : clients'[i].address = Nobody => clients'[i].xuid = NoXuid,
           \A i \in Players' : /\ clients'[i].xuid = clients[i].xuid
                               /\ told'[clients'[i].address].profiles
                                      = told[clients[i].address].profiles
                               /\ told'[clients'[i].address].unread
                                      = told[clients[i].address].unread,
           \A i, j \in Players' :
               told'[clients'[i].address].xuids[j] = told[clients[i].address].xuids[j]
    PROVE  IInv'
<1> USE PlayersAssumption
<1>1. \A i \in Players' : /\ i \in Players /\ i \in Settled
                          /\ clients'[i].address = clients[i].address
  BY DEF Players, Connected
<1>2. Settled' \subseteq Players' /\ entering'.address = Nobody
  BY DEF Settled, NoneEntering
<1>3. Occupants'
  BY <1>1, <1>2 DEF IInv, Occupants
<1>4. OwnProfile' /\ Introduced'
  BY <1>1, <1>2 DEF IInv, OwnProfile, Introduced, OwnTold, Missing
<1>5. ProfileKept'
  BY <1>1 DEF IInv, ProfileKept
<1>6. XuidsTold' /\ ProfilesTold'
  BY <1>1, <1>2 DEF IInv, XuidsTold, ProfilesTold, Missing
<1> QED BY <1>3, <1>4, <1>5, <1>6 DEF IInv

LEMMA ForgottenStays ==
    ASSUME TypeOK, NEW S
    PROVE  /\ Forgotten(S) \in [Address -> ToldRecord]
           /\ \A b \in Address : b \notin S => Forgotten(S)[b] = told[b]
<1>1. Nothing \in ToldRecord
  BY DEF Nothing, ToldRecord
<1> QED BY <1>1 DEF Forgotten, TypeOK, ToldRecord

LEMMA LeaveStep ==
    ASSUME IInv, Stop \/ \E i \in Slot : Drop(i)
    PROVE  IInv'
<1> USE PlayersAssumption
<1>1. /\ entering = NoneEntering /\ entering' = entering
      /\ UNCHANGED <<packets, profile_mapping, connects, bots>>
      /\ sv_running' \in BOOLEAN
  BY DEF Stop, Drop, counters, IInv, TypeOK
<1>2. Settled = Players /\ Entering'
  BY <1>1 DEF Settled, Players, NoneEntering, IInv, Entering
<1>3. clients \in [Slot -> SlotRecord] /\ Free \in SlotRecord
  BY DEF IInv, TypeOK, SlotRecord, Free
<1>4. CASE Stop
  <2>1. clients' = [i \in Slot |-> Free] /\ told' = Forgotten(Address) /\ lost' = {}
    BY <1>4 DEF Stop
  <2>2. Players' = {} /\ \A i \in Slot : clients'[i] = Free
    BY <2>1 DEF Players, Connected, Free
  <2>3. TypeOK'
    BY <1>1, <1>3, <2>1, ForgottenStays DEF IInv, TypeOK, SlotRecord, ToldRecord
  <2>4. Settled' = {} /\ entering'.address \notin Address
    BY <1>1, <2>2 DEF Settled, NoneEntering
  <2>5. Occupants'
    BY <2>2, <2>4 DEF Occupants, Free
  <2>6. OwnProfile' /\ Introduced'
    BY <1>1, <2>1, <2>4 DEF IInv, OwnProfile, Introduced, OwnTold, Missing
  <2>7. ProfileKept' /\ XuidsTold' /\ ProfilesTold'
    BY <2>2, <2>4 DEF ProfileKept, XuidsTold, ProfilesTold, Missing
  <2> QED BY <1>2, <2>3, <2>5, <2>6, <2>7 DEF IInv
<1>5. ASSUME NEW p \in Slot, Drop(p)
      PROVE  IInv'
  <2>1. /\ clients' = [clients EXCEPT ![p] = Free]
        /\ told' = Forgotten({clients[p].address}) /\ UNCHANGED lost
    BY <1>5 DEF Drop
  <2>2. \A i \in Slot : clients'[i] = IF i = p THEN Free ELSE clients[i]
    BY <1>3, <2>1
  <2>3. TypeOK'
    BY <1>1, <1>3, <2>1, ForgottenStays DEF IInv, TypeOK, SlotRecord, ToldRecord
  <2>4. \A i \in Players' : /\ i \in Players /\ i # p /\ clients'[i] = clients[i]
                            /\ clients[i].address \in Address
    BY <2>2 DEF Players, Connected, Free
  <2>5. \A i \in Players' : clients[i].address # clients[p].address
    <3>1. \A i \in Players' : clients[i].address = clients[p].address => p \in Players
      BY <2>4 DEF Players, Connected
    <3> QED BY <2>4, <3>1 DEF IInv, Occupants
  <2>6. \A i \in Players' : told'[clients[i].address] = told[clients[i].address]
    BY <2>1, <2>4, <2>5, ForgottenStays DEF IInv
  <2>7. \A i \in Slot : /\ clients'[i].address \in {clients[i].address, Nobody}
                        /\ clients'[i].address = Nobody => clients'[i].xuid = NoXuid
    BY <2>2 DEF Free, IInv, Occupants
  <2> QED BY <1>1, <1>2, <2>1, <2>3, <2>4, <2>6, <2>7, OthersUntouched
<1> QED BY <1>4, <1>5

(* What a dispatch that found a slot tells, in the new state's slots.      *)
LEMMA Distributed ==
    ASSUME IInv, NEW slots \in [Slot -> SlotRecord], NEW p \in Slot,
           NEW x \in Xuid \cup BotXuid,
           NEW d, d = distribute_player_xuid(slots, p, x)
    PROVE  /\ d \in [Address -> ToldRecord]
           /\ \A b \in Address : /\ d[b].profiles = told[b].profiles
                                 /\ d[b].unread = told[b].unread
           /\ \A b \in Address, i \in Slot : i # p /\ b # entering.address
                  => d[b].xuids[i] = told[b].xuids[i]
           /\ \A b \in Address : b # entering.address /\ (\E i \in Slot : slots[i].address = b)
                  => d[b].xuids[p] = x
           /\ \A i \in Slot : entering.address \in Address /\ slots[i].address # Nobody
                  => d[entering.address].xuids[i] = slots[i].xuid
<1> DEFINE ToPlayer(b) == [i \in Slot |-> IF slots[i].address = Nobody
                                          THEN told[b].xuids[i] ELSE slots[i].xuid]
<1>1. told \in [Address -> ToldRecord]
  BY DEF IInv, TypeOK, ToldRecord
<1>2. ASSUME NEW b \in Address, b = entering.address
      PROVE  d[b] = [xuids |-> ToPlayer(b), profiles |-> told[b].profiles,
                      unread |-> told[b].unread]
  <2>1. told[b] \in ToldRecord
    BY <1>1
  <2>2. d[b] = [told[b] EXCEPT !.xuids =
                  [i \in Slot |-> IF slots[i].address = Nobody THEN @[i] ELSE slots[i].xuid]]
    BY <1>2 DEF distribute_player_xuid
  <2> QED BY <2>1, <2>2 DEF ToldRecord
<1>3. ASSUME NEW b \in Address, b # entering.address
      PROVE  d[b] = IF \E i \in Slot : slots[i].address = b
                    THEN [xuids |-> [told[b].xuids EXCEPT ![p] = x], profiles |-> told[b].profiles,
                          unread |-> told[b].unread]
                    ELSE told[b]
  <2>1. told[b] \in ToldRecord
    BY <1>1
  <2>2. d[b] = IF \E i \in Slot : slots[i].address = b
               THEN [told[b] EXCEPT !.xuids[p] = x] ELSE told[b]
    BY <1>3 DEF distribute_player_xuid
  <2> QED BY <2>1, <2>2 DEF ToldRecord
<1>4. d = [b \in Address |-> d[b]]
  BY DEF distribute_player_xuid
<1>5. ASSUME NEW b \in Address
      PROVE  /\ d[b] \in ToldRecord /\ d[b].profiles = told[b].profiles
             /\ d[b].unread = told[b].unread
             /\ \A i \in Slot : i # p /\ b # entering.address
                   => d[b].xuids[i] = told[b].xuids[i]
             /\ b # entering.address /\ (\E i \in Slot : slots[i].address = b)
                   => d[b].xuids[p] = x
             /\ \A i \in Slot : b = entering.address /\ slots[i].address # Nobody
                   => d[b].xuids[i] = slots[i].xuid
  <2>1. told[b] \in ToldRecord
    BY <1>1
  <2>2. CASE b = entering.address
    <3>1. /\ told[b].xuids \in [Slot -> Xuid \cup BotXuid \cup {NoXuid}]
          /\ told[b].profiles \in SUBSET Xuid /\ told[b].unread \in BOOLEAN
      BY <2>1 DEF ToldRecord
    <3>2. \A i \in Slot : slots[i].xuid \in Xuid \cup BotXuid \cup {NoXuid}
      BY DEF SlotRecord
    <3>3. ToPlayer(b) \in [Slot -> Xuid \cup BotXuid \cup {NoXuid}]
      BY <3>1, <3>2
    <3>4. d[b] = [xuids |-> ToPlayer(b), profiles |-> told[b].profiles,
                  unread |-> told[b].unread]
      BY <1>2, <2>2
    <3>5. \A i \in Slot : slots[i].address # Nobody => ToPlayer(b)[i] = slots[i].xuid
      OBVIOUS
    <3> HIDE DEF ToPlayer
    <3> QED BY <2>2, <3>1, <3>3, <3>4, <3>5 DEF ToldRecord
  <2>3. CASE b # entering.address
    <3>1. /\ told[b].xuids \in [Slot -> Xuid \cup BotXuid \cup {NoXuid}]
          /\ told[b].profiles \in SUBSET Xuid /\ told[b].unread \in BOOLEAN
      BY <2>1 DEF ToldRecord
    <3>2. CASE \E i \in Slot : slots[i].address = b
      <4> DEFINE after == [told[b].xuids EXCEPT ![p] = x]
      <4>1. d[b] = [xuids |-> after, profiles |-> told[b].profiles,
                    unread |-> told[b].unread]
        BY <1>3, <2>3, <3>2
      <4>2. /\ after \in [Slot -> Xuid \cup BotXuid \cup {NoXuid}]
            /\ after[p] = x /\ \A i \in Slot : i # p => after[i] = told[b].xuids[i]
        BY <3>1
      <4> HIDE DEF after
      <4> QED BY <2>3, <3>1, <4>1, <4>2 DEF ToldRecord
    <3>3. CASE ~\E i \in Slot : slots[i].address = b
      <4>1. d[b] = told[b]
        BY <1>3, <2>3, <3>3
      <4> QED BY <2>1, <2>3, <3>3, <4>1
    <3> QED BY <3>2, <3>3
  <2> QED BY <2>2, <2>3
<1>6. d \in [Address -> ToldRecord]
  BY <1>4, <1>5
<1> QED BY <1>5, <1>6

LEMMA EnteredStep ==
    ASSUME IInv, handle_new_player
    PROVE  IInv'
<1> USE PlayersAssumption
<1>1. /\ entering.at = "connected" /\ entering' = NoneEntering
      /\ entering.address \in Address \cup {BotAddress}
      /\ UNCHANGED <<sv_running, packets, profile_mapping, lost, connects, bots>>
  BY DEF handle_new_player, IInv, Entering, TypeOK, counters
<1>2. /\ entering' \in [at : {"none", "added", "connected"},
                        address : Address \cup {BotAddress, Nobody},
                        xuid : Xuid \cup BotXuid \cup {NoXuid}]
      /\ Entering' /\ entering'.address = Nobody
  BY <1>1 DEF NoneEntering, Entering
<1>3. clients \in [Slot -> SlotRecord] /\ entering.xuid \in Xuid \cup BotXuid \cup {NoXuid}
  BY DEF IInv, TypeOK, SlotRecord
<1>4. \A i \in Slot : i \in Players <=> clients[i].address \in Address
  BY DEF Players, Connected
<1>5. Players \subseteq Slot
  BY DEF Players, Connected
<1>6. CASE Matching = {} /\ told' = Forgotten({entering.address}) /\ UNCHANGED clients
  <2>1. TypeOK'
    BY <1>1, <1>2, <1>6, ForgottenStays DEF IInv, TypeOK, ToldRecord
  <2>2. Players' = Players /\ Settled = Players
    BY <1>4, <1>5, <1>6 DEF Players, Connected, Settled, Matching
  <2>3. \A i \in Players : told'[clients[i].address] = told[clients[i].address]
    BY <1>4, <1>5, <1>6, ForgottenStays DEF Matching, IInv
  <2> QED BY <1>1, <1>2, <1>6, <2>1, <2>2, <2>3, OthersUntouched DEF IInv, Occupants
<1>7. ASSUME NEW p \in Matching,
             clients' = [i \in Slot |-> IF i \in Matching
                                       THEN [clients[i] EXCEPT !.xuid = entering.xuid]
                                       ELSE clients[i]],
             told' = distribute_player_xuid(clients', p, entering.xuid)
      PROVE  IInv'
  <2>1. /\ p \in Slot /\ clients[p].address = entering.address
        /\ \A i \in Slot : i \in Matching <=> clients[i].address = entering.address
    BY DEF Matching
  <2>2. \A i \in Slot :
            clients'[i] = IF i \in Matching
                          THEN [address |-> clients[i].address, xuid |-> entering.xuid]
                          ELSE clients[i]
    BY <1>3, <1>7 DEF SlotRecord
  <2>3. clients' \in [Slot -> SlotRecord]
    BY <1>3, <1>7, <2>2 DEF SlotRecord
  <2>4. ASSUME NEW i \in Slot
        PROVE  /\ clients'[i].address = clients[i].address
               /\ i \in Matching => clients'[i].xuid = entering.xuid
               /\ i \notin Matching => clients'[i].xuid = clients[i].xuid
    <3>1. CASE i \in Matching
      <4>1. clients'[i] = [address |-> clients[i].address, xuid |-> entering.xuid]
        BY <2>2, <3>1
      <4> QED BY <3>1, <4>1
    <3>2. CASE i \notin Matching
      BY <2>2, <3>2
    <3> QED BY <3>1, <3>2
  <2>5. Players' = Players /\ Settled' = Players
    BY <1>2, <1>4, <1>5, <2>4 DEF Players, Connected, Settled
  <2>6. entering.xuid \in Xuid \cup BotXuid
    BY <1>1, <1>3 DEF IInv, Entering
  <2>7. /\ told' \in [Address -> ToldRecord]
        /\ \A b \in Address : /\ told'[b].profiles = told[b].profiles
                              /\ told'[b].unread = told[b].unread
        /\ \A b \in Address, i \in Slot : i # p /\ b # entering.address
              => told'[b].xuids[i] = told[b].xuids[i]
        /\ \A b \in Address : b # entering.address /\ (\E i \in Slot : clients'[i].address = b)
              => told'[b].xuids[p] = entering.xuid
        /\ \A i \in Slot : entering.address \in Address /\ clients'[i].address # Nobody
              => told'[entering.address].xuids[i] = clients'[i].xuid
    <3> DEFINE slots == clients'
               d == told'
               x == entering.xuid
    <3>1. slots \in [Slot -> SlotRecord] /\ p \in Slot /\ x \in Xuid \cup BotXuid
      BY <2>1, <2>3, <2>6
    <3>2. d = distribute_player_xuid(slots, p, x)
      BY <1>7
    <3> HIDE DEF slots, d, x
    <3>3. /\ d \in [Address -> ToldRecord]
          /\ \A b \in Address : /\ d[b].profiles = told[b].profiles
                                /\ d[b].unread = told[b].unread
          /\ \A b \in Address, i \in Slot : i # p /\ b # entering.address
                => d[b].xuids[i] = told[b].xuids[i]
          /\ \A b \in Address : b # entering.address /\ (\E i \in Slot : slots[i].address = b)
                => d[b].xuids[p] = x
          /\ \A i \in Slot : entering.address \in Address /\ slots[i].address # Nobody
                => d[entering.address].xuids[i] = slots[i].xuid
      BY <3>1, <3>2, Distributed
    <3> QED BY <3>3 DEF slots, d, x
  <2>8. TypeOK'
    BY <1>1, <1>2, <2>3, <2>7 DEF IInv, TypeOK, SlotRecord, ToldRecord
  <2>9. \A i \in Players : i \in Slot /\ clients[i].address \in Address
    BY <1>4, <1>5
  <2>10. CASE entering.address = BotAddress
    <3>1. Settled = Players /\ \A i \in Players : i # p /\ i \notin Matching
      BY <1>4, <1>5, <2>1, <2>9, <2>10 DEF Settled
    <3>2. \A i \in Slot : clients'[i].address = Nobody => clients'[i].xuid = NoXuid
      BY <1>1, <2>1, <2>4 DEF IInv, Occupants
    <3> QED BY <1>1, <1>2, <2>4, <2>5, <2>7, <2>8, <2>9, <2>10, <3>1, <3>2, OthersUntouched
  <2>11. CASE entering.address \in Address
    <3>1. p \in Players /\ Matching = {p}
      BY <1>4, <2>1, <2>11 DEF IInv, Occupants, Matching
    <3>2. \A i \in Players : i # p => i \in Settled
      BY <1>4, <2>9, <3>1 DEF Settled, Matching
    <3>3. entering.xuid = XuidOf[entering.address] /\ entering.xuid # NoXuid
          /\ entering.xuid \in profile_mapping \cup {Own}
      BY <1>1, <2>11 DEF IInv, Entering
    <3>4. Occupants'
      BY <1>1, <2>1, <2>4, <2>5, <2>9, <3>1, <3>2, <3>3 DEF IInv, Occupants
    <3>5. OwnProfile' /\ Introduced'
      BY <1>1, <1>2, <2>1, <2>4, <2>5, <2>7, <2>9, <2>11, <3>2
         DEF IInv, OwnProfile, Introduced, OwnTold, Missing
    <3>6. ProfileKept'
      BY <1>1, <2>4, <2>5, <2>9, <3>1, <3>3 DEF IInv, ProfileKept
    <3>7. XuidsTold'
      <4> SUFFICES ASSUME NEW i \in Players, NEW j \in Players, i # j
                   PROVE  told'[clients[i].address].xuids[j] = clients'[j].xuid
        BY <2>4, <2>5, <2>9 DEF XuidsTold
      <4>1. CASE i = p
        BY <1>1, <2>1, <2>4, <2>7, <2>9, <2>11, <4>1
      <4>2. CASE i # p /\ j = p
        BY <2>1, <2>4, <2>7, <2>9, <3>1, <4>2 DEF IInv, Occupants
      <4>3. CASE i # p /\ j # p
        <5>1. clients[i].address # entering.address /\ j \notin Matching
          BY <2>1, <2>9, <3>1, <4>3
        <5>2. told[clients[i].address].xuids[j] = clients[j].xuid
          BY <3>2, <4>3 DEF IInv, XuidsTold
        <5> QED BY <2>4, <2>7, <2>9, <4>3, <5>1, <5>2
      <4> QED BY <4>1, <4>2, <4>3
    <3>8. ProfilesTold'
      <4> SUFFICES ASSUME NEW i \in Players, NEW j \in Players,
                          clients'[i].xuid # clients'[j].xuid
                   PROVE  clients'[j].xuid \in told[clients[i].address].profiles
                                \cup lost \cup Missing(clients[i].address)
        BY <1>1, <2>4, <2>5, <2>7, <2>9 DEF ProfilesTold, Missing
      <4>1. CASE i = p
        BY <2>1, <2>4, <2>9, <2>11, <3>1, <3>2, <4>1 DEF IInv, Introduced, Missing
      <4>2. CASE i # p /\ j = p
        BY <2>1, <2>4, <2>9, <2>11, <3>1, <3>2, <4>2 DEF IInv, Introduced, Missing
      <4>3. CASE i # p /\ j # p
        BY <2>4, <2>9, <3>1, <3>2, <4>3 DEF IInv, ProfilesTold, Missing
      <4> QED BY <4>1, <4>2, <4>3
    <3> QED BY <1>2, <2>8, <3>4, <3>5, <3>6, <3>7, <3>8 DEF IInv
  <2> QED BY <1>1, <2>10, <2>11
<1> QED BY <1>6, <1>7 DEF handle_new_player

-----------------------------------------------------------------------------
LEMMA StepIInv == IInv /\ [Next]_vars => IInv'
<1> SUFFICES ASSUME IInv, [Next]_vars PROVE IInv'
  OBVIOUS
<1>1. CASE UNCHANGED vars
  <2>1. UNCHANGED <<sv_running, clients, packets, entering, profile_mapping, told, lost,
                    connects, bots>>
    BY <1>1 DEF vars, server, counters
  <2>2. TypeOK' /\ lost' \in SUBSET Xuid /\ profile_mapping' \in SUBSET Xuid
    BY <2>1 DEF IInv, TypeOK
  <2> QED BY <2>1, <2>2, NobodyMoves
<1> QED BY <1>1, PacketStep, AddStep, ConnectStep, EnteredStep, BotStep, CleanStep, ProfileInfoStep,
        LeaveStep
        DEF Next, Dispatch

(* Whatever step of a dispatch, the cleaner or the engine comes next, slots, *)
(* cache and what players were told of each other stay in agreement.       *)
THEOREM Inductive == Spec => []IInv
BY InitIInv, StepIInv, PTL DEF Spec

(* Slots, the profile cache, waiting packets and what was told have their  *)
(* types, in any number of slots: no xuid is cached that no player has.    *)
THEOREM TypeCorrect == Spec => []TypeOK
<1>1. IInv => TypeOK
  BY DEF IInv
<1> QED BY <1>1, Inductive, PTL

(* The cleaner never takes the profile of a player who has a slot.         *)
THEOREM Kept == Spec => []ProfileKept
<1>1. IInv => ProfileKept
  BY DEF IInv
<1> QED BY <1>1, Inductive, PTL

(* Settled players were sent each other's xuids and profiles, all that the *)
(* server could read.                                                      *)
THEOREM AllAcquainted == Spec => []Acquainted
<1>1. IInv => Acquainted
  BY DEF IInv, Acquainted
<1> QED BY <1>1, Inductive, PTL
=============================================================================
