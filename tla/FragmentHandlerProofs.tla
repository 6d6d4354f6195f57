------------------------ MODULE FragmentHandlerProofs ------------------------
(* Proofs about FragmentHandler: types, the bound on queues, that no       *)
(* returned packet mixes bytes of different packets of one incarnation,    *)
(* and, while no peer has restarted, that a returned packet is whole, that *)
(* none disappears without a cause and none is completed twice.            *)
EXTENDS FragmentHandler, FiniteSetTheorems, TLAPS

(***************************************************************************)
(* Lemmas about cutting a packet.                                          *)
(***************************************************************************)

(* Lengths and sizes are positive.                                         *)
LEMMA LengthType ==
    ASSUME NEW p \in Packet
    PROVE  /\ p.length \in Nat /\ p.length >= 1
           /\ max_fragment_size \in Nat /\ max_fragment_size >= 1
<1>1. p.length \in Lengths
  BY DEF Packet
<1>2. p.length \in Nat \ {0} /\ max_fragment_size \in Nat \ {0}
  BY <1>1, FragmentAssumption
<1>3. QED
  BY <1>2

(* A packet has at least one fragment.                                     *)
LEMMA FragmentCountType ==
    ASSUME NEW p \in Packet
    PROVE  FragmentCount(p) \in Nat /\ FragmentCount(p) >= 1
<1>1. ASSUME NEW l \in Nat, NEW s \in Nat, l >= 1, s >= 1
      PROVE  (l + s - 1) \div s \in Nat /\ (l + s - 1) \div s >= 1
  BY <1>1
<1>2. QED
  BY LengthType, <1>1 DEF FragmentCount

(* Every fragment names its packet and a byte range.                       *)
LEMMA FragmentType ==
    ASSUME NEW p \in Packet, NEW i \in 0 .. FragmentCount(p) - 1
    PROVE  /\ construct_fragments(p)[i] \in Fragment
           /\ construct_fragments(p)[i].packet = p
<1>1. i \in Nat
  BY FragmentCountType
<1>2. ASSUME NEW l \in Nat, NEW s \in Nat, NEW j \in Nat
      PROVE  j * s \in Nat /\ j * s + SmallerOf(l - j * s, s) \in Nat
  <2>1. j * s \in Nat
    OBVIOUS
  <2>2. ASSUME NEW x \in Nat PROVE x + SmallerOf(l - x, s) \in Nat
    BY DEF SmallerOf
  <2>3. QED
    BY <2>1, <2>2
<1>3. QED
  BY <1>1, <1>2, LengthType DEF construct_fragments, Fragment

-----------------------------------------------------------------------------
(***************************************************************************)
(* What handle makes of an honest datagram.                                *)
(***************************************************************************)

(* The queue handle works on is one.                                       *)
LEMMA PacketQueueType ==
    ASSUME IInv, NEW m \in net, ~Refused(m)
    PROVE  /\ IsQueue(packet_queue(m))
           /\ packet_queue(m).fragment_count = m.fragment_count
           /\ m.fragment_count \in 1 .. MAX_FRAGMENTS
           /\ m.fragment_index \in 0 .. m.fragment_count - 1
           /\ m.from \in Addr /\ m.id \in Id /\ m.data \in Fragment
<1>1. IsDatagram(m)
  BY DEF IInv, TypeOK
<1>2. m.fragment_count \in 1 .. MAX_FRAGMENTS
  BY <1>1, FragmentAssumption DEF Refused, Malformed, IsDatagram
<1>3. packet_queue(m).fragment_count = m.fragment_count
  BY DEF Refused
<1>4. CASE m.id \in Present(m.from)
  <2>1. packet_queue(m) = global_map[m.from][m.id] /\ global_map[m.from][m.id] # NoQueue
    BY <1>4 DEF packet_queue, Present
  <2>2. IsQueue(global_map[m.from][m.id])
    BY <1>1, <2>1 DEF IInv, TypeOK, IsDatagram
  <2>3. QED
    BY <1>1, <1>2, <1>3, <2>1, <2>2 DEF IsDatagram
<1>5. CASE m.id \notin Present(m.from)
  <2>1. packet_queue(m) = [fragment_count |-> m.fragment_count, fragments |-> NoFragments, age |-> 0]
    BY <1>5 DEF packet_queue
  <2>2. DOMAIN NoFragments = {} /\ NoFragments = [i \in DOMAIN NoFragments |-> NoFragments[i]]
    BY DEF NoFragments
  <2>3. 0 \in 0 .. Lifetime + 1
    BY FragmentAssumption
  <2>4. IsQueue(packet_queue(m))
    BY <1>2, <2>1, <2>2, <2>3 DEF IsQueue
  <2>5. QED
    BY <1>1, <1>2, <1>3, <2>4 DEF IsDatagram
<1>6. QED
  BY <1>1, <1>2, <1>3, <1>4, <1>5 DEF IsDatagram

(* Everything stored in it was cut from packets of that address and id.    *)
LEMMA PacketQueueHonest ==
    ASSUME IInv, NEW m \in net, ~Refused(m),
           NEW i \in DOMAIN packet_queue(m).fragments
    PROVE  LET d == packet_queue(m).fragments[i]
           IN  /\ CutFrom(d, m.from, m.id, i)
               /\ m.fragment_count = FragmentCount(d.packet)
<1>1. m.from \in Addr /\ m.id \in Id /\ packet_queue(m).fragment_count = m.fragment_count
  BY PacketQueueType
<1>2. CASE m.id \in Present(m.from)
  <2>1. packet_queue(m) = global_map[m.from][m.id]
    BY <1>2 DEF packet_queue
  <2>2. QED
    BY <1>1, <2>1 DEF IInv, QueuesHonest
<1>3. CASE m.id \notin Present(m.from)
  BY <1>3 DEF packet_queue, NoFragments
<1>4. QED
  BY <1>2, <1>3

(* The arriving fragment itself was, too.                                  *)
LEMMA DatagramHonest ==
    ASSUME IInv, NEW m \in net
    PROVE  /\ CutFrom(m.data, m.from, m.id, m.fragment_index)
           /\ m.fragment_count = FragmentCount(m.data.packet)
BY DEF IInv, NetHonest

-----------------------------------------------------------------------------
(***************************************************************************)
(* The queue handle writes back.                                           *)
(***************************************************************************)

(* A queue that may stand at an address and id.                            *)
GoodQueue(q, a, k) ==
    /\ IsQueue(q)
    /\ \A i \in DOMAIN q.fragments :
          /\ CutFrom(q.fragments[i], a, k, i)
          /\ q.fragment_count = FragmentCount(q.fragments[i].packet)

(* The queue handle found or made is good, ...                             *)
LEMMA FoundQueueGood ==
    ASSUME IInv, NEW m \in net, ~Refused(m)
    PROVE  GoodQueue(packet_queue(m), m.from, m.id)
BY PacketQueueType, PacketQueueHonest DEF GoodQueue

(* ... and stays so when the fragment that arrived is put into it.         *)
LEMMA StoredQueueGood ==
    ASSUME IInv, NEW m \in net, ~Refused(m)
    PROVE  GoodQueue([packet_queue(m) EXCEPT !.fragments = Put(@, m.fragment_index, m.data)],
                     m.from, m.id)
<1> DEFINE q == packet_queue(m)
           f == Put(q.fragments, m.fragment_index, m.data)
           r == [fragment_count |-> q.fragment_count, fragments |-> f, age |-> q.age]
<1>1. /\ IsQueue(q) /\ q.fragment_count = m.fragment_count
      /\ m.fragment_index \in 0 .. q.fragment_count - 1 /\ m.data \in Fragment
  BY PacketQueueType
<1>2. [q EXCEPT !.fragments = Put(@, m.fragment_index, m.data)] = r
  BY <1>1 DEF IsQueue
<1>3. /\ DOMAIN f = DOMAIN q.fragments \cup {m.fragment_index}
      /\ f = [i \in DOMAIN f |-> f[i]]
      /\ \A i \in DOMAIN f : f[i] = IF i = m.fragment_index THEN m.data ELSE q.fragments[i]
  BY DEF Put
<1>4. IsQueue(r)
  <2> HIDE DEF f, q
  <2> QED BY <1>1, <1>3 DEF IsQueue
<1>5. \A i \in DOMAIN f : CutFrom(f[i], m.from, m.id, i) /\ q.fragment_count = FragmentCount(f[i].packet)
  <2> SUFFICES ASSUME NEW i \in DOMAIN f
               PROVE  CutFrom(f[i], m.from, m.id, i) /\ q.fragment_count = FragmentCount(f[i].packet)
    OBVIOUS
  <2>1. CASE i = m.fragment_index
    <3> f[i] = m.data
      BY <2>1, <1>3
    <3> QED
      BY <2>1, <1>1, DatagramHonest
  <2>2. CASE i # m.fragment_index
    <3> f[i] = q.fragments[i] /\ i \in DOMAIN q.fragments
      BY <2>2, <1>3
    <3> QED
      BY <1>1, PacketQueueHonest
  <2>3. QED
    BY <2>1, <2>2
<1>6. GoodQueue(r, m.from, m.id)
  <2> HIDE DEF f, q
  <2> QED BY <1>4, <1>5 DEF GoodQueue
<1>7. QED
  BY <1>2, <1>6

(* Writing a good queue back keeps the map well typed and honest.          *)
MapType ==
    /\ global_map = [a \in Addr |-> [k \in Id |-> global_map[a][k]]]
    /\ \A a \in Addr, k \in Id : global_map[a][k] = NoQueue \/ IsQueue(global_map[a][k])

LEMMA SetQueueKeepsMap ==
    ASSUME IInv, NEW m \in net, NEW q, GoodQueue(q, m.from, m.id), SetQueue(m, q), sent' = sent
    PROVE  /\ MapType'
           /\ QueuesHonest'
<1>1. m.from \in Addr /\ m.id \in Id
  BY DEF IInv, TypeOK, IsDatagram
<1>2. global_map = [a \in Addr |-> [k \in Id |-> global_map[a][k]]]
  BY DEF IInv, TypeOK
<1>3. global_map' = [a \in Addr |-> [k \in Id |->
                       IF a = m.from /\ k = m.id THEN q ELSE global_map[a][k]]]
  BY <1>1, <1>2 DEF SetQueue
<1>4. \A a \in Addr, k \in Id :
         global_map'[a][k] = IF a = m.from /\ k = m.id THEN q ELSE global_map[a][k]
  BY <1>3
<1>5. MapType'
  <2>1. \A a \in Addr, k \in Id : global_map'[a][k] = NoQueue \/ IsQueue(global_map'[a][k])
    BY <1>4 DEF GoodQueue, IInv, TypeOK
  <2>2. QED
    BY <1>3, <1>4, <2>1 DEF MapType
<1>6. QueuesHonest'
  <2> SUFFICES ASSUME NEW a \in Addr, NEW k \in Id, NEW i \in DOMAIN global_map'[a][k].fragments
               PROVE  /\ CutFrom(global_map'[a][k].fragments[i], a, k, i)
                      /\ global_map'[a][k].fragment_count
                           = FragmentCount(global_map'[a][k].fragments[i].packet)
    BY DEF QueuesHonest, CutFrom
  <2>1. CASE a = m.from /\ k = m.id
    BY <2>1, <1>4 DEF GoodQueue
  <2>2. CASE ~(a = m.from /\ k = m.id)
    BY <2>2, <1>4 DEF IInv, QueuesHonest
  <2>3. QED
    BY <2>1, <2>2
<1>7. QED
  BY <1>5, <1>6

-----------------------------------------------------------------------------
(***************************************************************************)
(* The invariant is inductive: one lemma for each action.                  *)
(***************************************************************************)

LEMMA InitIInv == Init => IInv
<1> SUFFICES ASSUME Init PROVE IInv
  OBVIOUS
<1>1. TypeOK
  BY FragmentAssumption DEF Init, TypeOK
<1>2. QueuesHonest
  BY DEF Init, QueuesHonest, NoQueue, NoFragments
<1>3. NetHonest /\ DeliveredHonest /\ IdsFresh
  BY DEF Init, NetHonest, DeliveredHonest, IdsFresh
<1>4. QED
  BY <1>1, <1>2, <1>3 DEF IInv

(* More packets sent leaves what was cut honest.                           *)
LEMMA CutFromMonotone ==
    ASSUME sent \subseteq sent', NEW d, NEW a, NEW k, NEW i, CutFrom(d, a, k, i)
    PROVE  CutFrom(d, a, k, i)'
BY DEF CutFrom

LEMMA QueuesHonestMonotone ==
    ASSUME QueuesHonest, sent \subseteq sent', global_map' = global_map
    PROVE  QueuesHonest'
BY DEF QueuesHonest, CutFrom

LEMMA DeliveredHonestMonotone ==
    ASSUME DeliveredHonest, sent \subseteq sent', delivered' = delivered
    PROVE  DeliveredHonest'
BY DEF DeliveredHonest, CutFrom

LEMMA SendIInv ==
    ASSUME IInv, NEW a \in Addr, NEW length \in Lengths, fragment_data(a, length)
    PROVE  IInv'
<1> DEFINE p == [addr |-> a, inc |-> incarnation[a], id |-> current_id[a], length |-> length]
<1>1. p \in Packet /\ current_id[a] + 1 \in 0 .. MaxPackets
  BY FragmentAssumption DEF IInv, TypeOK, fragment_data, Packet, Id
<1>2. sent' = sent \cup {p} /\ net' = net \cup Datagrams(p)
  BY DEF fragment_data
<1>3. \A m \in Datagrams(p) :
         /\ IsDatagram(m)
         /\ m.data.packet = p
         /\ CutFrom(m.data, m.from, m.id, m.fragment_index)'
         /\ m.fragment_count = FragmentCount(p)
  <2> SUFFICES ASSUME NEW i \in 0 .. FragmentCount(p) - 1,
                      NEW m, m = [from |-> p.addr, id |-> p.id,
                                  fragment_count |-> FragmentCount(p),
                                  fragment_index |-> i, data |-> construct_fragments(p)[i]]
               PROVE  /\ IsDatagram(m)
                      /\ m.data.packet = p
                      /\ CutFrom(m.data, m.from, m.id, m.fragment_index)'
                      /\ m.fragment_count = FragmentCount(p)
    BY DEF Datagrams
  <2>1. FragmentCount(p) \in Nat /\ FragmentCount(p) >= 1
    BY <1>1, FragmentCountType
  <2>2. construct_fragments(p)[i] \in Fragment /\ construct_fragments(p)[i].packet = p
    BY <1>1, FragmentType
  <2>3. p.addr \in Addr /\ p.id \in Id
    BY <1>1 DEF Packet
  <2> HIDE DEF p
  <2>4. IsDatagram(m)
    BY <2>1, <2>2, <2>3 DEF IsDatagram
  <2>5. CutFrom(m.data, m.from, m.id, m.fragment_index)'
    BY <1>2, <2>1, <2>2 DEF CutFrom
  <2>6. QED
    BY <2>2, <2>4, <2>5
<1>4. TypeOK'
  <2>1. current_id' \in [Addr -> 0 .. MaxPackets]
    BY <1>1 DEF IInv, TypeOK, fragment_data
  <2>2. sent' \subseteq Packet /\ \A m \in net' : IsDatagram(m)
    BY <1>1, <1>2, <1>3 DEF IInv, TypeOK
  <2>3. QED
    BY <2>1, <2>2 DEF IInv, TypeOK, fragment_data
<1>5. NetHonest'
  <2> HIDE DEF p
  <2> QED BY <1>2, <1>3 DEF IInv, NetHonest, CutFrom
<1>6. QueuesHonest' /\ DeliveredHonest'
  BY <1>2, QueuesHonestMonotone, DeliveredHonestMonotone DEF IInv, fragment_data
<1>7. IdsFresh'
  <2>1. current_id' = [current_id EXCEPT ![a] = current_id[a] + 1] /\ incarnation' = incarnation
    BY DEF fragment_data
  <2>2. /\ incarnation \in [Addr -> 0 .. MaxRestarts]
        /\ current_id \in [Addr -> 0 .. MaxPackets]
        /\ \A q \in sent : q.addr \in Addr /\ q.inc \in Int /\ q.id \in Int
    BY DEF IInv, TypeOK, Packet, Id
  <2>3. \A q \in sent : ~(q.addr = p.addr /\ q.inc = p.inc /\ q.id = p.id)
    BY <2>2 DEF IInv, IdsFresh
  <2>4. \A q \in sent' :
           /\ q.inc <= incarnation'[q.addr]
           /\ q.inc = incarnation'[q.addr] => q.id < current_id'[q.addr]
    BY <1>2, <2>1, <2>2 DEF IInv, IdsFresh
  <2>5. \A q, r \in sent' : q.addr = r.addr /\ q.inc = r.inc /\ q.id = r.id => q = r
    BY <1>2, <2>3 DEF IInv, IdsFresh
  <2>6. QED
    BY <2>4, <2>5 DEF IdsFresh
<1>8. QED
  BY <1>4, <1>5, <1>6, <1>7 DEF IInv

LEMMA RestartIInv ==
    ASSUME IInv, NEW a \in Addr, Restart(a)
    PROVE  IInv'
<1>1. TypeOK'
  BY FragmentAssumption DEF IInv, TypeOK, Restart
<1>2. NetHonest' /\ QueuesHonest' /\ DeliveredHonest'
  BY QueuesHonestMonotone, DeliveredHonestMonotone DEF IInv, NetHonest, CutFrom, Restart
<1>3. IdsFresh'
  <2>1. /\ incarnation \in [Addr -> 0 .. MaxRestarts]
        /\ \A q \in sent : q.addr \in Addr /\ q.inc \in Int
    BY DEF IInv, TypeOK, Packet
  <2>2. sent' = sent /\ incarnation' = [incarnation EXCEPT ![a] = incarnation[a] + 1]
        /\ current_id' = [current_id EXCEPT ![a] = 0]
    BY DEF Restart
  <2>3. \A q \in sent : /\ q.inc <= incarnation'[q.addr]
                        /\ q.inc = incarnation'[q.addr] => q.addr # a
    BY <2>1, <2>2, FragmentAssumption DEF IInv, IdsFresh
  <2>4. current_id \in [Addr -> 0 .. MaxPackets]
    BY DEF IInv, TypeOK
  <2>5. \A q \in sent' : /\ q.inc <= incarnation'[q.addr]
                         /\ q.inc = incarnation'[q.addr] => q.id < current_id'[q.addr]
    BY <2>1, <2>2, <2>3, <2>4 DEF IInv, IdsFresh
  <2>6. QED
    BY <2>2, <2>5 DEF IInv, IdsFresh
<1>4. QED
  BY <1>1, <1>2, <1>3 DEF IInv

LEMMA LoseIInv ==
    ASSUME IInv, NEW m \in net, Lose(m)
    PROVE  IInv'
<1>1. m.data.packet \in Packet
  BY DEF IInv, TypeOK, IsDatagram, Fragment
<1>2. TypeOK'
  BY <1>1 DEF IInv, TypeOK, Lose, sender
<1>3. NetHonest' /\ QueuesHonest' /\ DeliveredHonest' /\ IdsFresh'
  BY QueuesHonestMonotone, DeliveredHonestMonotone
     DEF IInv, NetHonest, IdsFresh, CutFrom, Lose, sender
<1>4. QED
  BY <1>2, <1>3 DEF IInv

(* A packet handle puts together is honest.                                *)
LEMMA FinalPacketHonest ==
    ASSUME IInv, NEW m \in net, ~Refused(m), Missing(m) = {}
    PROVE  LET d == final_packet(m)
           IN  /\ d.from = m.from
               /\ DOMAIN d.parts = 0 .. m.fragment_count - 1
               /\ \A i \in DOMAIN d.parts :
                     /\ d.parts[i] \in Fragment
                     /\ CutFrom(d.parts[i], m.from, m.id, i)
                     /\ m.fragment_count = FragmentCount(d.parts[i].packet)
<1> DEFINE d == final_packet(m)
<1>1. d.from = m.from /\ DOMAIN d.parts = 0 .. m.fragment_count - 1
  BY DEF final_packet
<1>2. ASSUME NEW i \in DOMAIN d.parts
      PROVE  /\ d.parts[i] \in Fragment
             /\ CutFrom(d.parts[i], m.from, m.id, i)
             /\ m.fragment_count = FragmentCount(d.parts[i].packet)
  <2>1. CASE i = m.fragment_index
    <3>1. d.parts[i] = m.data
      BY <2>1, <1>1 DEF final_packet
    <3>2. QED
      BY <2>1, <3>1, DatagramHonest, PacketQueueType
  <2>2. CASE i # m.fragment_index
    <3>1. d.parts[i] = packet_queue(m).fragments[i]
      BY <2>2, <1>1 DEF final_packet
    <3>2. i \in DOMAIN packet_queue(m).fragments
      BY <2>2, <1>1 DEF Missing
    <3>3. packet_queue(m).fragments[i] \in Fragment
      BY <3>2, PacketQueueType DEF IsQueue
    <3>4. QED
      BY <3>1, <3>2, <3>3, PacketQueueHonest
  <2>3. QED
    BY <2>1, <2>2
<1>3. QED
  BY <1>1, <1>2

LEMMA HandleIInv ==
    ASSUME IInv, NEW m \in net, handle(m)
    PROVE  IInv'
<1>1. /\ net' \subseteq net /\ duplicates' \in 0 .. MaxDuplicates
      /\ sent' = sent /\ incarnation' = incarnation /\ current_id' = current_id
  BY FragmentAssumption DEF handle, Arrive, sender, IInv, TypeOK
<1>2. NetHonest' /\ IdsFresh'
  BY <1>1 DEF IInv, NetHonest, IdsFresh, CutFrom
<1>3. m.data.packet \in Packet
  BY DEF IInv, TypeOK, IsDatagram, Fragment
<1>4. CASE handle_refuses(m)
  <2>1. TypeOK'
    BY <1>1, <1>3, <1>4 DEF handle_refuses, IInv, TypeOK
  <2>2. QueuesHonest' /\ DeliveredHonest'
    BY <1>1, <1>4, QueuesHonestMonotone, DeliveredHonestMonotone DEF handle_refuses, IInv
  <2>3. QED
    BY <1>2, <2>1, <2>2 DEF IInv
<1>5. CASE handle_stores(m) \/ handle_throws(m)
  <2>1. MapType' /\ QueuesHonest'
    BY <1>1, <1>5, FoundQueueGood, StoredQueueGood, SetQueueKeepsMap
       DEF handle_stores, handle_throws
  <2>2. delivered' = delivered /\ dropped' = dropped
    BY <1>5 DEF handle_stores, handle_throws
  <2>3. TypeOK'
    BY <1>1, <2>1, <2>2 DEF IInv, TypeOK, MapType
  <2>4. DeliveredHonest'
    BY <1>1, <2>2, DeliveredHonestMonotone DEF IInv
  <2>5. QED
    BY <1>2, <2>1, <2>3, <2>4 DEF IInv
<1>6. CASE handle_completes(m)
  <2>1. MapType' /\ QueuesHonest'
    BY <1>1, <1>6, FoundQueueGood, SetQueueKeepsMap DEF handle_completes
  <2>2. /\ delivered' = delivered \cup {final_packet(m)} /\ dropped' = dropped
        /\ ~Refused(m) /\ Missing(m) = {}
    BY <1>6 DEF handle_completes
  <2>3. m.from \in Addr /\ m.id \in Id
    BY DEF IInv, TypeOK, IsDatagram
  <2>4. TypeOK'
    BY <1>1, <2>1, <2>2, <2>3, FinalPacketHonest DEF IInv, TypeOK, MapType
  <2>5. DeliveredHonest'
    <3>1. \E k \in Id : \A i \in DOMAIN final_packet(m).parts :
             /\ CutFrom(final_packet(m).parts[i], final_packet(m).from, k, i)
             /\ DOMAIN final_packet(m).parts
                  = 0 .. FragmentCount(final_packet(m).parts[i].packet) - 1
      BY <2>2, <2>3, FinalPacketHonest
    <3>2. QED
      BY <1>1, <2>2, <3>1 DEF IInv, DeliveredHonest, CutFrom
  <2>6. QED
    BY <1>2, <2>1, <2>4, <2>5 DEF IInv
<1>7. QED
  BY <1>4, <1>5, <1>6 DEF handle

LEMMA TickIInv ==
    ASSUME IInv, Tick
    PROVE  IInv'
<1>1. \A a \in Addr, k \in Id : global_map'[a][k] = Older(global_map[a][k])
  BY DEF Tick
<1>2. ASSUME NEW q, IsQueue(q)
      PROVE  /\ Older(q) = NoQueue \/ IsQueue(Older(q))
             /\ Older(q).fragments = q.fragments
             /\ Older(q).fragment_count = q.fragment_count
  <2>1. CASE q = NoQueue
    BY <2>1 DEF Older
  <2>2. CASE q # NoQueue
    <3>1. Older(q) = [fragment_count |-> q.fragment_count, fragments |-> q.fragments,
                      age |-> SmallerOf(q.age + 1, Lifetime + 1)]
      BY <1>2, <2>2 DEF Older, IsQueue
    <3>2. SmallerOf(q.age + 1, Lifetime + 1) \in 0 .. Lifetime + 1
      BY <1>2, FragmentAssumption DEF IsQueue, SmallerOf
    <3>3. QED
      BY <1>2, <3>1, <3>2 DEF IsQueue
  <2>3. QED
    BY <2>1, <2>2
<1>3. TypeOK'
  <2>1. \A a \in Addr, k \in Id : global_map'[a][k] = NoQueue \/ IsQueue(global_map'[a][k])
    <3> SUFFICES ASSUME NEW a \in Addr, NEW k \in Id
                 PROVE  global_map'[a][k] = NoQueue \/ IsQueue(global_map'[a][k])
      OBVIOUS
    <3>1. global_map[a][k] = NoQueue \/ IsQueue(global_map[a][k])
      BY DEF IInv, TypeOK
    <3>2. global_map[a][k] = NoQueue => Older(global_map[a][k]) = NoQueue
      BY DEF Older
    <3>3. QED
      BY <1>1, <1>2, <3>1, <3>2
  <2>2. global_map' = [a \in Addr |-> [k \in Id |-> global_map'[a][k]]]
    BY <1>1 DEF Tick
  <2>3. QED
    BY <2>1, <2>2 DEF IInv, TypeOK, Tick, sender
<1>4. QueuesHonest'
  <2>1. \A a \in Addr, k \in Id :
           /\ global_map'[a][k].fragments = global_map[a][k].fragments
           /\ global_map'[a][k].fragment_count = global_map[a][k].fragment_count
    <3> SUFFICES ASSUME NEW a \in Addr, NEW k \in Id
                 PROVE  /\ global_map'[a][k].fragments = global_map[a][k].fragments
                        /\ global_map'[a][k].fragment_count = global_map[a][k].fragment_count
      OBVIOUS
    <3>1. global_map[a][k] = NoQueue \/ IsQueue(global_map[a][k])
      BY DEF IInv, TypeOK
    <3>2. global_map[a][k] = NoQueue => Older(global_map[a][k]) = global_map[a][k]
      BY DEF Older
    <3>3. QED
      BY <1>1, <1>2, <3>1, <3>2
  <2>2. sent' = sent
    BY DEF Tick, sender
  <2>3. QED
    BY <2>1, <2>2 DEF IInv, QueuesHonest, CutFrom
<1>5. NetHonest' /\ DeliveredHonest' /\ IdsFresh'
  BY DeliveredHonestMonotone DEF IInv, NetHonest, IdsFresh, CutFrom, Tick, sender
<1>6. QED
  BY <1>3, <1>4, <1>5 DEF IInv

LEMMA CleanIInv ==
    ASSUME IInv, clean
    PROVE  IInv'
<1>1. \A a \in Addr, k \in Id :
         global_map'[a][k] = NoQueue \/ global_map'[a][k] = global_map[a][k]
  BY DEF clean
<1>2. sent' = sent
  BY DEF clean, sender
<1>3. TypeOK'
  <2>1. \A a \in Addr, k \in Id : global_map'[a][k] = NoQueue \/ IsQueue(global_map'[a][k])
    BY <1>1 DEF IInv, TypeOK
  <2>2. global_map' = [a \in Addr |-> [k \in Id |-> global_map'[a][k]]]
    BY DEF clean
  <2>3. dropped' \subseteq Packet
    BY DEF IInv, TypeOK, clean
  <2>4. QED
    BY <2>1, <2>2, <2>3 DEF IInv, TypeOK, clean, sender
<1>4. QueuesHonest'
  <2>1. \A i : i \notin DOMAIN NoQueue.fragments
    BY DEF NoQueue, NoFragments
  <2>2. QED
    BY <1>1, <1>2, <2>1 DEF IInv, QueuesHonest, CutFrom
<1>5. NetHonest' /\ DeliveredHonest' /\ IdsFresh'
  BY DeliveredHonestMonotone DEF IInv, NetHonest, IdsFresh, CutFrom, clean, sender
<1>6. QED
  BY <1>3, <1>4, <1>5 DEF IInv

LEMMA StepIInv == IInv /\ [Next]_vars => IInv'
<1> SUFFICES ASSUME IInv, [Next]_vars PROVE IInv'
  OBVIOUS
<1>1. CASE \E a \in Addr, length \in Lengths : fragment_data(a, length)
  BY <1>1, SendIInv
<1>2. CASE \E a \in Addr : Restart(a)
  BY <1>2, RestartIInv
<1>3. CASE \E m \in net : Lose(m)
  BY <1>3, LoseIInv
<1>4. CASE \E m \in net : handle(m)
  BY <1>4, HandleIInv
<1>5. CASE Tick
  BY <1>5, TickIInv
<1>6. CASE clean
  BY <1>6, CleanIInv
<1>7. CASE UNCHANGED vars
  BY <1>7 DEF vars, IInv, TypeOK, NetHonest, QueuesHonest, DeliveredHonest, IdsFresh,
              CutFrom
<1>8. QED
  BY <1>1, <1>2, <1>3, <1>4, <1>5, <1>6, <1>7 DEF Next

(* The strengthened invariant holds in every reachable state.              *)
THEOREM Inductive == Spec => []IInv
BY InitIInv, StepIInv, PTL DEF Spec

(* Type correctness, for every number of peers, lengths and limits.        *)
THEOREM TypeCorrect == Spec => []TypeOK
<1>1. IInv => TypeOK
  BY DEF IInv
<1>2. QED
  BY <1>1, Inductive, PTL

(* A returned packet never joins fragments of two packets that the same    *)
(* incarnation of a peer sent, nor of two addresses, under any loss,       *)
(* duplication, reordering, expiry and restart.                            *)
THEOREM NoMixing == Spec => []IntactPerIncarnation
<1>1. IInv => IntactPerIncarnation
  <2> SUFFICES ASSUME IInv, NEW d \in delivered, NEW i \in DOMAIN d.parts, NEW j \in DOMAIN d.parts
               PROVE  LET p == d.parts[i].packet
                          q == d.parts[j].packet
                      IN  /\ p.addr = d.from
                          /\ DOMAIN d.parts = 0 .. FragmentCount(p) - 1
                          /\ d.parts[i] = construct_fragments(p)[i]
                          /\ p.inc = q.inc => p = q
    BY DEF IntactPerIncarnation
  <2>1. PICK k \in Id : \A n \in DOMAIN d.parts :
           /\ CutFrom(d.parts[n], d.from, k, n)
           /\ DOMAIN d.parts = 0 .. FragmentCount(d.parts[n].packet) - 1
    BY DEF IInv, DeliveredHonest
  <2>2. QED
    BY <2>1 DEF CutFrom, IInv, IdsFresh
<1>2. QED
  BY <1>1, Inductive, PTL

-----------------------------------------------------------------------------
(***************************************************************************)
(* The bound on the queues of one address.                                 *)
(***************************************************************************)

LEMMA PresentFinite ==
    ASSUME NEW a \in Addr
    PROVE  /\ IsFiniteSet(Present(a))
           /\ Cardinality(Present(a)) \in Nat
<1>1. IsFiniteSet(Id)
  BY FS_Interval, FragmentAssumption DEF Id
<1>2. QED
  BY <1>1, FS_Subset, FS_CardinalityType DEF Present

(* An address that gains no queue, or one while it has room, stays bounded. *)
LEMMA OneMore ==
    ASSUME NEW a \in Addr, NEW k \in Id, Cardinality(Present(a)) <= MAX_FRAGMENTS + 1,
           \/ Present(a)' \subseteq Present(a)
           \/ /\ Present(a)' \subseteq Present(a) \cup {k}
              /\ Cardinality(Present(a)) <= MAX_FRAGMENTS
    PROVE  Cardinality(Present(a)') <= MAX_FRAGMENTS + 1
<1>1. IsFiniteSet(Present(a)) /\ Cardinality(Present(a)) \in Nat
  BY PresentFinite
<1>2. CASE Present(a)' \subseteq Present(a)
  <2>1. Cardinality(Present(a)') <= Cardinality(Present(a)) /\ Cardinality(Present(a)') \in Nat
    BY <1>1, <1>2, FS_Subset, FS_CardinalityType
  <2>2. QED
    BY <1>1, <2>1, FragmentAssumption
<1>3. CASE /\ Present(a)' \subseteq Present(a) \cup {k}
           /\ Cardinality(Present(a)) <= MAX_FRAGMENTS
  <2>1. /\ IsFiniteSet(Present(a) \cup {k})
        /\ Cardinality(Present(a) \cup {k}) <= Cardinality(Present(a)) + 1
        /\ Cardinality(Present(a) \cup {k}) \in Nat
    <3>1. /\ IsFiniteSet(Present(a) \cup {k})
          /\ \/ Cardinality(Present(a) \cup {k}) = Cardinality(Present(a))
             \/ Cardinality(Present(a) \cup {k}) = Cardinality(Present(a)) + 1
      BY <1>1, FS_AddElement
    <3>2. QED
      BY <1>1, <3>1
  <2>2. Cardinality(Present(a)') <= Cardinality(Present(a) \cup {k}) /\ Cardinality(Present(a)') \in Nat
    BY <1>3, <2>1, FS_Subset, FS_CardinalityType
  <2>3. QED
    BY <1>1, <1>3, <2>1, <2>2, FragmentAssumption
<1>4. QED
  BY <1>2, <1>3

LEMMA HandlePresent ==
    ASSUME IInv, NEW m \in net, handle(m), NEW a \in Addr
    PROVE  \/ Present(a)' \subseteq Present(a)
           \/ /\ Present(a)' \subseteq Present(a) \cup {m.id}
              /\ Cardinality(Present(a)) <= MAX_FRAGMENTS
<1>1. m.from \in Addr /\ m.id \in Id
  BY DEF IInv, TypeOK, IsDatagram
<1>2. CASE global_map' = global_map
  BY <1>2 DEF Present
<1>3. CASE ~Refused(m) /\ \E q : SetQueue(m, q)
  <2>1. \A b \in Addr, k \in Id : b # m.from \/ k # m.id => global_map'[b][k] = global_map[b][k]
    BY <1>1, <1>3 DEF SetQueue, IInv, TypeOK
  <2>2. CASE a # m.from
    BY <2>1, <2>2 DEF Present
  <2>3. CASE a = m.from
    <3>1. Present(a)' \subseteq Present(a) \cup {m.id}
      BY <2>1, <2>3 DEF Present
    <3>2. m.id \in Present(a) \/ Cardinality(Present(a)) <= MAX_FRAGMENTS
      BY <1>3, <2>3, PresentFinite, FragmentAssumption DEF Refused, UserMapFull
    <3>3. QED
      BY <3>1, <3>2
  <2>4. QED
    BY <2>2, <2>3
<1>4. QED
  BY <1>2, <1>3 DEF handle, handle_refuses, handle_stores, handle_completes, handle_throws

(* An address never holds more than MAX_FRAGMENTS + 1 queues.              *)
THEOREM Bounded == Spec => []QueuesBounded
<1>1. Init => QueuesBounded
  <2> SUFFICES ASSUME Init, NEW a \in Addr PROVE Cardinality(Present(a)) <= MAX_FRAGMENTS + 1
    BY DEF QueuesBounded
  <2>1. Present(a) = {}
    BY DEF Init, Present
  <2>2. QED
    BY <2>1, FS_EmptySet, FragmentAssumption
<1>2. IInv /\ QueuesBounded /\ [Next]_vars => QueuesBounded'
  <2> SUFFICES ASSUME IInv, QueuesBounded, [Next]_vars, NEW a \in Addr
               PROVE  Cardinality(Present(a)') <= MAX_FRAGMENTS + 1
    BY DEF QueuesBounded
  <2>1. CASE global_map' = global_map
    BY <2>1 DEF QueuesBounded, Present
  <2>2. CASE Tick \/ clean
    <3>1. Present(a)' \subseteq Present(a)
      BY <2>2 DEF Present, Tick, clean, Older
    <3>2. QED
      <4>1. CASE Id = {}
        <5>1. Present(a)' = Present(a)
          BY <4>1 DEF Present
        <5>2. QED
          BY <5>1 DEF QueuesBounded
      <4>2. CASE Id # {}
        BY <3>1, <4>2, OneMore DEF QueuesBounded
      <4>3. QED
        BY <4>1, <4>2
  <2>3. CASE \E m \in net : handle(m)
    <3>1. PICK m \in net : handle(m)
      BY <2>3
    <3>2. m.id \in Id
      BY DEF IInv, TypeOK, IsDatagram
    <3>3. QED
      BY <3>1, <3>2, HandlePresent, OneMore DEF QueuesBounded
  <2>4. QED
    BY <2>1, <2>2, <2>3 DEF Next, vars, fragment_data, Restart, Lose
<1>3. QED
  BY <1>1, <1>2, Inductive, PTL DEF Spec

-----------------------------------------------------------------------------
(***************************************************************************)
(* While no peer has restarted: returned packets are whole.                *)
(***************************************************************************)

(* What is returned is a sequence of parts with a first one.               *)
DeliveredWhole ==
    \A d \in delivered : d.parts = [i \in DOMAIN d.parts |-> d.parts[i]] /\ 0 \in DOMAIN d.parts

LEMMA StepWhole == IInv /\ DeliveredWhole /\ [Next]_vars => DeliveredWhole'
<1> SUFFICES ASSUME IInv, DeliveredWhole, [Next]_vars PROVE DeliveredWhole'
  OBVIOUS
<1>1. CASE delivered' = delivered
  BY <1>1 DEF DeliveredWhole
<1>2. CASE \E m \in net : handle_completes(m)
  <2>1. PICK m \in net : handle_completes(m)
    BY <1>2
  <2>2. delivered' = delivered \cup {final_packet(m)} /\ ~Refused(m) /\ Missing(m) = {}
    BY <2>1 DEF handle_completes
  <2>3. m.fragment_count \in Nat \ {0}
    BY DEF IInv, TypeOK, IsDatagram
  <2>4. LET d == final_packet(m)
        IN  d.parts = [i \in DOMAIN d.parts |-> d.parts[i]] /\ 0 \in DOMAIN d.parts
    BY <2>3 DEF final_packet
  <2> QED BY <2>2, <2>4 DEF DeliveredWhole
<1> QED
  BY <1>1, <1>2 DEF Next, vars, fragment_data, Restart, Lose, handle, handle_refuses, handle_stores,
                    handle_throws, Tick, clean

(* An id names one packet.                                                 *)
LEMMA OnlyPacket ==
    ASSUME IInv, NoRestartYet, NEW p \in sent, NEW q \in sent, p.addr = q.addr, p.id = q.id
    PROVE  p = q
<1>1. p \in Packet /\ q \in Packet
  BY DEF IInv, TypeOK
<1>2. p.inc <= 0 /\ q.inc <= 0
  BY <1>1 DEF IInv, IdsFresh, NoRestartYet, Packet
<1>3. p.inc = 0 /\ q.inc = 0
  BY <1>1, <1>2, FragmentAssumption DEF Packet
<1> QED BY <1>3 DEF IInv, IdsFresh

(* The last fragment begins inside the packet and ends it.                 *)
LEMMA CutLength ==
    ASSUME NEW l \in Nat, NEW s \in Nat, l >= 1, s >= 1,
           NEW n \in Nat, n = (l + s - 1) \div s
    PROVE  n >= 1 /\ (n - 1) * s <= l - 1 /\ l <= n * s
<1> DEFINE x == l + s - 1
<1>1. x \in Nat /\ n = x \div s
  OBVIOUS
<1>2. n * s <= x /\ x < n * s + s
  <2> HIDE DEF x
  <2>1. x = s * (x \div s) + (x % s) /\ 0 <= x % s /\ x % s < s
    BY <1>1
  <2> QED BY <1>1, <2>1
<1>3. (n - 1) * s = n * s - s /\ n * s \in Nat
  OBVIOUS
<1>4. n >= 1
  OBVIOUS
<1> QED BY <1>2, <1>3, <1>4

LEMMA CutJoined ==
    ASSUME NEW p \in Packet
    PROVE  Joined(construct_fragments(p), p.length)
<1> DEFINE n == FragmentCount(p)
           l == p.length
           s == max_fragment_size
           parts == construct_fragments(p)
<1>1. l \in Nat /\ l >= 1 /\ s \in Nat /\ s >= 1 /\ n \in Nat /\ n >= 1
  BY LengthType, FragmentCountType
<1>2. (n - 1) * s <= l - 1 /\ l <= n * s
  BY <1>1, CutLength DEF FragmentCount
<1>3. /\ DOMAIN parts = 0 .. n - 1
      /\ \A i \in 0 .. n - 1 : /\ parts[i].first = i * s
                               /\ parts[i].last = i * s + SmallerOf(l - i * s, s)
  BY DEF construct_fragments
<1>4. Cardinality(0 .. n - 1) = n
  BY <1>1, FS_Interval
<1> HIDE DEF n, l, s, parts
<1>5. parts[0].first = 0
  BY <1>1, <1>3
<1>6. \A i \in 0 .. n - 2 : parts[i].last = parts[i + 1].first
  <2> SUFFICES ASSUME NEW i \in 0 .. n - 2 PROVE parts[i].last = parts[i + 1].first
    OBVIOUS
  <2>1. i \in Nat /\ i + 1 \in 0 .. n - 1 /\ i \in 0 .. n - 1 /\ i + 1 <= n - 1
    BY <1>1
  <2>2. (i + 1) * s <= (n - 1) * s
    <3>1. PICK k \in Nat : n - 1 = (i + 1) + k
      <4>1. n - 1 - (i + 1) \in Nat /\ n - 1 = (i + 1) + (n - 1 - (i + 1))
        BY <1>1, <2>1
      <4> QED BY <4>1
    <3>2. (n - 1) * s = (i + 1) * s + k * s /\ k * s \in Nat
      BY <1>1, <2>1, <3>1
    <3>3. (i + 1) * s \in Nat
      BY <1>1, <2>1
    <3> QED BY <3>2, <3>3
  <2>3. (i + 1) * s = i * s + s /\ i * s \in Nat
    BY <1>1, <2>1
  <2>4. SmallerOf(l - i * s, s) = s
    <3>1. ASSUME NEW x \in Nat, NEW y \in Int, y <= l - 1, x + s <= y
          PROVE  ~(l - x < s) \/ l - x = s
      BY <1>1, <3>1
    <3>2. (n - 1) * s \in Int
      BY <1>1
    <3>3. ~(l - i * s < s) \/ l - i * s = s
      BY <1>2, <2>2, <2>3, <3>1, <3>2
    <3> QED BY <3>3 DEF SmallerOf
  <2> QED BY <1>3, <2>1, <2>3, <2>4
<1>7. parts[n - 1].last = l
  <2>1. n - 1 \in 0 .. n - 1 /\ (n - 1) * s = n * s - s /\ n * s \in Nat
    BY <1>1
  <2>2. l - (n - 1) * s <= s
    BY <1>1, <1>2, <2>1
  <2>3. SmallerOf(l - (n - 1) * s, s) = l - (n - 1) * s
    BY <1>1, <2>1, <2>2 DEF SmallerOf
  <2>4. ASSUME NEW x \in Int PROVE x + (l - x) = l
    BY <1>1
  <2> QED BY <1>1, <1>3, <2>1, <2>3, <2>4
<1> QED BY <1>1, <1>3, <1>4, <1>5, <1>6, <1>7 DEF Joined, l, parts

LEMMA WholePacket ==
    ASSUME IInv, DeliveredWhole, NoRestartYet, NEW d \in delivered
    PROVE  \E p \in sent : p.addr = d.from /\ d.parts = construct_fragments(p)
<1>1. PICK k \in Id : \A n \in DOMAIN d.parts :
         /\ CutFrom(d.parts[n], d.from, k, n)
         /\ DOMAIN d.parts = 0 .. FragmentCount(d.parts[n].packet) - 1
  BY DEF IInv, DeliveredHonest
<1>2. 0 \in DOMAIN d.parts /\ d.parts = [i \in DOMAIN d.parts |-> d.parts[i]]
  BY DEF DeliveredWhole
<1> DEFINE p == d.parts[0].packet
<1>3. p \in sent /\ p.addr = d.from /\ p.id = k /\ DOMAIN d.parts = 0 .. FragmentCount(p) - 1
  BY <1>1, <1>2 DEF CutFrom
<1>4. \A i \in DOMAIN d.parts : d.parts[i].packet = p
  BY <1>1, <1>3, OnlyPacket DEF CutFrom
<1>5. \A i \in DOMAIN d.parts : d.parts[i] = construct_fragments(p)[i]
  BY <1>1, <1>4 DEF CutFrom
<1>6. d.parts = construct_fragments(p)
  BY <1>2, <1>3, <1>5 DEF construct_fragments
<1> QED BY <1>3, <1>6

(* Until a peer restarts, what handle returns is byte for byte a packet    *)
(* that was sent, for any lengths and any fragment size: the ranges join   *)
(* and end where the packet does.                                          *)
THEOREM ReturnsWhole == Spec => []Intact
<1>1. Init => DeliveredWhole
  BY DEF Init, DeliveredWhole
<1>2. IInv /\ DeliveredWhole => Intact
  <2> SUFFICES ASSUME IInv, DeliveredWhole, NoRestartYet, NEW d \in delivered
               PROVE  \E p \in sent : /\ p.addr = d.from
                                      /\ d.parts = construct_fragments(p)
                                      /\ Joined(d.parts, p.length)
    BY DEF Intact
  <2>1. PICK p \in sent : p.addr = d.from /\ d.parts = construct_fragments(p)
    BY WholePacket
  <2>2. p \in Packet
    BY DEF IInv, TypeOK
  <2> QED BY <2>1, <2>2, CutJoined
<1> QED BY <1>1, <1>2, StepWhole, Inductive, PTL DEF Spec

-----------------------------------------------------------------------------
(***************************************************************************)
(* While no peer has restarted: no packet is lost without a cause.         *)
(***************************************************************************)

Stored(a, k) == DOMAIN global_map[a][k].fragments

(* A fragment is in flight or stored.                                      *)
Somewhere(p, i) ==
    \/ \E m \in net : m.data.packet = p /\ m.fragment_index = i
    \/ i \in Stored(p.addr, p.id)

NotLost ==
    NoRestartYet =>
        \A p \in sent :
            \/ Returned(p)
            \/ p \in dropped
            \/ \A i \in 0 .. FragmentCount(p) - 1 : Somewhere(p, i)

(* The fragment that completes a queue is not stored in it.                *)
Unfinished ==
    \A a \in Addr, k \in Id :
        global_map[a][k] # NoQueue =>
            Cardinality(Stored(a, k)) < global_map[a][k].fragment_count

Lossless == IInv /\ NotLost /\ Unfinished

LEMMA QueueFinite ==
    ASSUME NEW q, IsQueue(q)
    PROVE  /\ IsFiniteSet(DOMAIN q.fragments) /\ Cardinality(DOMAIN q.fragments) \in Nat
           /\ IsFiniteSet(0 .. q.fragment_count - 1)
           /\ Cardinality(0 .. q.fragment_count - 1) = q.fragment_count
           /\ DOMAIN q.fragments \subseteq 0 .. q.fragment_count - 1
           /\ q.fragment_count \in Nat
<1>1. q.fragment_count \in Nat /\ q.fragment_count >= 1
  BY FragmentAssumption DEF IsQueue
<1>2. /\ IsFiniteSet(0 .. q.fragment_count - 1)
      /\ Cardinality(0 .. q.fragment_count - 1) = q.fragment_count
  BY <1>1, FS_Interval
<1>3. DOMAIN q.fragments \subseteq 0 .. q.fragment_count - 1
  BY DEF IsQueue
<1>4. IsFiniteSet(DOMAIN q.fragments) /\ Cardinality(DOMAIN q.fragments) \in Nat
  BY <1>2, <1>3, FS_Subset, FS_CardinalityType
<1> QED BY <1>1, <1>2, <1>3, <1>4

(* A fragment not yet stored that is counted as the last is the last.      *)
LEMMA Counted ==
    ASSUME IInv, NEW m \in net, ~Refused(m), ~Incomplete(m),
           m.fragment_index \notin DOMAIN packet_queue(m).fragments
    PROVE  Missing(m) = {}
<1> DEFINE D == DOMAIN packet_queue(m).fragments
           i == m.fragment_index
           n == m.fragment_count
<1>1. /\ IsFiniteSet(D) /\ Cardinality(D) \in Nat
      /\ IsFiniteSet(0 .. n - 1) /\ Cardinality(0 .. n - 1) = n
      /\ D \subseteq 0 .. n - 1 /\ i \in 0 .. n - 1 /\ n \in Nat
  BY PacketQueueType, QueueFinite
<1>2. Cardinality(D) + 1 >= n
  BY <1>1 DEF Incomplete
<1>3. IsFiniteSet(D \cup {i}) /\ Cardinality(D \cup {i}) = Cardinality(D) + 1
  BY <1>1, FS_AddElement
<1>4. D \cup {i} \subseteq 0 .. n - 1
  BY <1>1
<1>5. Cardinality(D \cup {i}) <= Cardinality(0 .. n - 1)
  BY <1>1, <1>4, FS_Subset
<1>6. Cardinality(D \cup {i}) = Cardinality(0 .. n - 1)
  BY <1>1, <1>2, <1>3, <1>5
<1>7. D \cup {i} = 0 .. n - 1
  BY <1>1, <1>4, <1>6, FS_Subset
<1> QED BY <1>7 DEF Missing

(* What is put together is the packet the last fragment belongs to.        *)
LEMMA CompleteParts ==
    ASSUME IInv, NoRestartYet, NEW m \in net, ~Refused(m), Missing(m) = {}
    PROVE  final_packet(m).parts = construct_fragments(m.data.packet)
<1> DEFINE d == final_packet(m)
           p == m.data.packet
<1>1. /\ DOMAIN d.parts = 0 .. m.fragment_count - 1
      /\ \A i \in DOMAIN d.parts : CutFrom(d.parts[i], m.from, m.id, i)
  BY FinalPacketHonest
<1>2. p \in sent /\ p.addr = m.from /\ p.id = m.id /\ m.fragment_count = FragmentCount(p)
  BY DatagramHonest DEF CutFrom
<1>3. \A i \in DOMAIN d.parts : d.parts[i].packet = p
  BY <1>1, <1>2, OnlyPacket DEF CutFrom
<1>4. \A i \in DOMAIN d.parts : d.parts[i] = construct_fragments(p)[i]
  BY <1>1, <1>3 DEF CutFrom
<1>5. d.parts = [i \in 0 .. m.fragment_count - 1 |-> d.parts[i]]
  BY DEF final_packet
<1> QED BY <1>1, <1>2, <1>4, <1>5 DEF construct_fragments

(* What each outcome of handle does to the queue of its datagram.          *)
LEMMA QueueAfter ==
    ASSUME IInv, NEW m \in net, handle(m)
    PROVE  /\ m.from \in Addr /\ m.id \in Id
           /\ \A a \in Addr, k \in Id :
                (a # m.from \/ k # m.id) => global_map'[a][k] = global_map[a][k]
           /\ handle_refuses(m) => global_map' = global_map
           /\ handle_stores(m) =>
                global_map'[m.from][m.id] =
                  [packet_queue(m) EXCEPT !.fragments = Put(@, m.fragment_index, m.data)]
           /\ handle_completes(m) \/ handle_throws(m) =>
                global_map'[m.from][m.id] = packet_queue(m)
<1>1. m.from \in Addr /\ m.id \in Id
  BY DEF IInv, TypeOK, IsDatagram
<1>2. ASSUME NEW q, SetQueue(m, q)
      PROVE  /\ global_map'[m.from][m.id] = q
             /\ \A a \in Addr, k \in Id :
                  (a # m.from \/ k # m.id) => global_map'[a][k] = global_map[a][k]
  BY <1>1, <1>2 DEF SetQueue, IInv, TypeOK
<1>3. CASE handle_refuses(m)
  <2>1. global_map' = global_map /\ ~handle_stores(m) /\ ~handle_completes(m) /\ ~handle_throws(m)
    BY <1>3 DEF handle_refuses, handle_stores, handle_completes, handle_throws
  <2> QED BY <1>1, <2>1
<1>4. CASE handle_stores(m)
  <2>1. ~handle_refuses(m) /\ ~handle_completes(m) /\ ~handle_throws(m)
    BY <1>4 DEF handle_refuses, handle_stores, handle_completes, handle_throws
  <2>2. SetQueue(m, [packet_queue(m) EXCEPT !.fragments = Put(@, m.fragment_index, m.data)])
    BY <1>4 DEF handle_stores
  <2> QED BY <1>1, <1>2, <2>1, <2>2
<1>5. CASE handle_completes(m) \/ handle_throws(m)
  <2>1. ~handle_refuses(m) /\ ~handle_stores(m)
    BY <1>5 DEF handle_refuses, handle_stores, handle_completes, handle_throws
  <2>2. SetQueue(m, packet_queue(m))
    BY <1>5 DEF handle_completes, handle_throws
  <2> QED BY <1>1, <1>2, <2>1, <2>2
<1> QED BY <1>3, <1>4, <1>5 DEF handle

(* handle forgets no fragment, and the one it keeps is stored.             *)
LEMMA StoredAfter ==
    ASSUME IInv, NEW m \in net, handle(m)
    PROVE  /\ \A a \in Addr, k \in Id : Stored(a, k) \subseteq Stored(a, k)'
           /\ handle_stores(m) => m.fragment_index \in Stored(m.from, m.id)'
           /\ \A a \in Addr, k \in Id : \A i \in Stored(a, k)' :
                i \in Stored(a, k) \/ (a = m.from /\ k = m.id /\ i = m.fragment_index
                                       /\ handle_stores(m))
<1> DEFINE q == packet_queue(m)
           f == Put(q.fragments, m.fragment_index, m.data)
<1>1. DOMAIN q.fragments = Stored(m.from, m.id)
  <2>1. CASE m.id \in Present(m.from)
    BY <2>1 DEF packet_queue, Stored
  <2>2. CASE m.id \notin Present(m.from)
    <3>1. global_map[m.from][m.id] = NoQueue
      BY <2>2, QueueAfter DEF Present
    <3> QED BY <2>2, <3>1 DEF packet_queue, Stored, NoQueue
  <2> QED BY <2>1, <2>2
<1>2. DOMAIN f = DOMAIN q.fragments \cup {m.fragment_index}
  BY DEF Put
<1>3. handle_stores(m) => /\ global_map'[m.from][m.id] = [q EXCEPT !.fragments = f]
                          /\ ~handle_refuses(m) /\ ~handle_completes(m) /\ ~handle_throws(m)
  BY QueueAfter DEF handle_stores, handle_refuses, handle_completes, handle_throws
<1>4. handle_stores(m) => Stored(m.from, m.id)' = Stored(m.from, m.id) \cup {m.fragment_index}
  <2> SUFFICES ASSUME handle_stores(m)
               PROVE  Stored(m.from, m.id)' = Stored(m.from, m.id) \cup {m.fragment_index}
    OBVIOUS
  <2>1. IsQueue(q)
    BY PacketQueueType DEF handle_stores
  <2>2. [q EXCEPT !.fragments = f].fragments = f
    <3> HIDE DEF q, f
    <3>1. [q EXCEPT !.fragments = f]
             = [fragment_count |-> q.fragment_count, fragments |-> f, age |-> q.age]
      BY <2>1 DEF IsQueue
    <3> QED BY <3>1
  <2>3. global_map'[m.from][m.id].fragments = f
    <3> HIDE DEF q, f
    <3> QED BY <1>3, <2>2
  <2> QED BY <1>1, <1>2, <2>3 DEF Stored
<1>5. ~handle_stores(m) => Stored(m.from, m.id)' = Stored(m.from, m.id)
  <2>1. CASE handle_refuses(m)
    BY <2>1, QueueAfter DEF Stored
  <2>2. CASE handle_completes(m) \/ handle_throws(m)
    <3>1. global_map'[m.from][m.id] = packet_queue(m)
      BY <2>2, QueueAfter
    <3> QED BY <1>1, <3>1 DEF Stored
  <2> QED BY <2>1, <2>2 DEF handle
<1>6. \A a \in Addr, k \in Id : (a # m.from \/ k # m.id) => Stored(a, k)' = Stored(a, k)
  BY QueueAfter DEF Stored
<1> QED BY <1>4, <1>5, <1>6

LEMMA HandleUnfinished ==
    ASSUME IInv, Unfinished, NEW m \in net, handle(m)
    PROVE  Unfinished'
<1> SUFFICES ASSUME NEW a \in Addr, NEW k \in Id, global_map'[a][k] # NoQueue
             PROVE  Cardinality(DOMAIN global_map'[a][k].fragments) < global_map'[a][k].fragment_count
  BY DEF Unfinished, Stored
<1>1. CASE global_map'[a][k] = global_map[a][k]
  BY <1>1 DEF Unfinished, Stored
<1>2. CASE global_map'[a][k] # global_map[a][k]
  <2>1. a = m.from /\ k = m.id /\ ~handle_refuses(m)
    BY <1>2, QueueAfter
  <2>2. ~Refused(m)
    BY <2>1 DEF handle, handle_stores, handle_completes, handle_throws
  <2> DEFINE q == packet_queue(m)
             D == DOMAIN q.fragments
             i == m.fragment_index
             f == Put(q.fragments, i, m.data)
  <2>3. IsQueue(q) /\ q.fragment_count = m.fragment_count
    BY <2>2, PacketQueueType
  <2>4. IsFiniteSet(D) /\ Cardinality(D) \in Nat /\ q.fragment_count \in Nat
    BY <2>3, QueueFinite
  <2>5. CASE handle_stores(m)
    <3>1. Cardinality(D) + 1 < m.fragment_count
      BY <2>5 DEF handle_stores, Incomplete
    <3>2. global_map'[a][k] = [q EXCEPT !.fragments = f]
      BY <2>1, <2>5, QueueAfter
    <3>3. [q EXCEPT !.fragments = f]
             = [fragment_count |-> q.fragment_count, fragments |-> f, age |-> q.age]
      <4> HIDE DEF q, f
      <4> QED BY <2>3 DEF IsQueue
    <3>4. DOMAIN f = D \cup {i}
      BY DEF Put
    <3>5. Cardinality(D \cup {i}) \in {Cardinality(D), Cardinality(D) + 1}
      BY <2>4, FS_AddElement
    <3> HIDE DEF q, f, D
    <3>6. DOMAIN global_map'[a][k].fragments = D \cup {i}
      BY <3>2, <3>3, <3>4
    <3>7. global_map'[a][k].fragment_count = m.fragment_count
      BY <2>3, <3>2, <3>3
    <3>8. m.fragment_count \in Nat
      BY <2>3, <2>4
    <3> QED BY <2>4, <3>1, <3>5, <3>6, <3>7, <3>8
  <2>6. CASE handle_completes(m) \/ handle_throws(m)
    <3>1. global_map'[a][k] = q
      BY <2>1, <2>6, QueueAfter
    <3>2. m.id \notin Present(m.from)
      BY <1>2, <2>1, <3>1 DEF packet_queue
    <3>3. D = {}
      BY <3>2 DEF packet_queue, NoFragments
    <3>4. Cardinality(D) = 0
      BY <3>3, FS_EmptySet
    <3>5. m.fragment_count \in Nat \ {0}
      BY DEF IInv, TypeOK, IsDatagram
    <3> QED BY <2>3, <3>1, <3>4, <3>5
  <2> QED BY <2>1, <2>5, <2>6 DEF handle
<1> QED BY <1>1, <1>2

LEMMA HandleNotLost ==
    ASSUME Lossless, NEW m \in net, handle(m)
    PROVE  NotLost'
<1> SUFFICES ASSUME NoRestartYet, NEW p \in sent, ~Returned(p)', p \notin dropped',
                    NEW i \in 0 .. FragmentCount(p) - 1
             PROVE  Somewhere(p, i)'
  BY DEF NotLost, handle, sender, NoRestartYet
<1>1. delivered \subseteq delivered' /\ dropped \subseteq dropped'
  BY DEF handle, handle_refuses, handle_stores, handle_completes, handle_throws
<1>2. ~Returned(p) /\ p \notin dropped
  BY <1>1 DEF Returned
<1>3. Somewhere(p, i)
  BY <1>2 DEF Lossless, NotLost
<1>4. p \in Packet /\ p.addr \in Addr /\ p.id \in Id
  BY DEF Lossless, IInv, TypeOK, Packet
<1>5. CASE i \in Stored(p.addr, p.id)
  <2>1. i \in Stored(p.addr, p.id)'
    BY <1>4, <1>5, StoredAfter DEF Lossless
  <2> QED BY <2>1 DEF Somewhere
<1>6. CASE \E n \in net : n \in net' /\ n.data.packet = p /\ n.fragment_index = i
  BY <1>6 DEF Somewhere
<1>7. CASE m.data.packet = p /\ m.fragment_index = i
  <2>1. p.addr = m.from /\ p.id = m.id
    BY <1>7, DatagramHonest DEF CutFrom, Lossless
  <2>2. CASE handle_refuses(m)
    BY <1>7, <2>2 DEF handle_refuses
  <2>3. CASE handle_stores(m)
    <3>1. m.fragment_index \in Stored(m.from, m.id)'
      BY <2>3, StoredAfter DEF Lossless
    <3>2. i \in Stored(p.addr, p.id)'
      BY <1>7, <2>1, <3>1 DEF Stored
    <3> QED BY <3>2 DEF Somewhere
  <2>4. CASE handle_completes(m)
    <3>1. ~Refused(m) /\ Missing(m) = {} /\ delivered' = delivered \cup {final_packet(m)}
      BY <2>4 DEF handle_completes
    <3>2. final_packet(m).parts = construct_fragments(p)
      BY <1>7, <3>1, CompleteParts DEF Lossless
    <3>3. Returned(p)'
      BY <3>1, <3>2 DEF Returned
    <3> QED BY <3>3
  <2>5. CASE handle_throws(m)
    <3>1. ~Refused(m) /\ ~Incomplete(m) /\ Missing(m) # {}
      BY <2>5 DEF handle_throws
    <3>2. m.fragment_index \in DOMAIN packet_queue(m).fragments
      BY <3>1, Counted DEF Lossless
    <3>3. global_map'[m.from][m.id] = packet_queue(m)
      BY <2>5, QueueAfter DEF Lossless
    <3>4. i \in Stored(p.addr, p.id)'
      BY <1>7, <2>1, <3>2, <3>3 DEF Stored
    <3> QED BY <3>4 DEF Somewhere
  <2> QED BY <2>2, <2>3, <2>4, <2>5 DEF handle
<1>8. \A n \in net : n # m => n \in net'
  BY DEF handle, Arrive
<1> QED BY <1>3, <1>5, <1>6, <1>7, <1>8 DEF Somewhere

LEMMA SendNotLost ==
    ASSUME Lossless, NEW a \in Addr, NEW length \in Lengths, fragment_data(a, length)
    PROVE  NotLost'
<1> DEFINE P == [addr |-> a, inc |-> incarnation[a], id |-> current_id[a], length |-> length]
<1>1. /\ sent' = sent \cup {P} /\ net' = net \cup Datagrams(P)
      /\ UNCHANGED <<incarnation, global_map, delivered, dropped>>
  BY DEF fragment_data
<1>2. P \in Packet
  BY FragmentAssumption DEF Lossless, IInv, TypeOK, fragment_data, Packet, Id
<1> HIDE DEF P
<1>3. \A i \in 0 .. FragmentCount(P) - 1 :
         \E m \in Datagrams(P) : m.data.packet = P /\ m.fragment_index = i
  <2> SUFFICES ASSUME NEW i \in 0 .. FragmentCount(P) - 1
               PROVE  \E m \in Datagrams(P) : m.data.packet = P /\ m.fragment_index = i
    OBVIOUS
  <2> DEFINE m == [from |-> P.addr, id |-> P.id, fragment_count |-> FragmentCount(P),
                   fragment_index |-> i, data |-> construct_fragments(P)[i]]
  <2>1. m \in Datagrams(P) /\ m.fragment_index = i /\ m.data = construct_fragments(P)[i]
    BY DEF Datagrams
  <2>2. m.data.packet = P
    BY <1>2, <2>1, FragmentType
  <2> QED BY <2>1, <2>2
<1> SUFFICES ASSUME NoRestartYet, NEW p \in sent', ~Returned(p), p \notin dropped,
                    NEW i \in 0 .. FragmentCount(p) - 1
             PROVE  Somewhere(p, i)'
  BY <1>1 DEF NotLost, NoRestartYet, Returned
<1>4. CASE p = P
  BY <1>1, <1>3, <1>4 DEF Somewhere
<1>5. CASE p \in sent
  <2>1. Somewhere(p, i)
    BY <1>5 DEF Lossless, NotLost
  <2> QED BY <1>1, <2>1 DEF Somewhere, Stored
<1> QED BY <1>1, <1>4, <1>5

LEMMA TickQueues ==
    ASSUME IInv, Tick, NEW a \in Addr, NEW k \in Id
    PROVE  /\ Stored(a, k)' = Stored(a, k)
           /\ global_map'[a][k].fragment_count = global_map[a][k].fragment_count
           /\ global_map'[a][k] # NoQueue => global_map[a][k] # NoQueue
<1> DEFINE q == global_map[a][k]
<1>1. global_map'[a][k] = Older(q)
  BY DEF Tick
<1>2. CASE q = NoQueue
  BY <1>1, <1>2 DEF Older, Stored
<1>3. CASE q # NoQueue
  <2>1. IsQueue(q)
    BY <1>3 DEF IInv, TypeOK
  <2> HIDE DEF q
  <2>2. Older(q) = [fragment_count |-> q.fragment_count, fragments |-> q.fragments,
                    age |-> SmallerOf(q.age + 1, Lifetime + 1)]
    BY <1>3, <2>1 DEF Older, IsQueue
  <2> QED BY <1>1, <1>3, <2>2 DEF Stored, q
<1> QED BY <1>2, <1>3

LEMMA StepLossless == Lossless /\ [Next]_vars => Lossless'
<1> SUFFICES ASSUME Lossless, [Next]_vars PROVE NotLost' /\ Unfinished'
  BY StepIInv DEF Lossless
<1>1. ASSUME NEW a \in Addr, NEW length \in Lengths, fragment_data(a, length)
      PROVE  NotLost' /\ Unfinished'
  <2>1. global_map' = global_map
    BY <1>1 DEF fragment_data
  <2> QED BY <1>1, <2>1, SendNotLost DEF Lossless, Unfinished, Stored
<1>2. ASSUME NEW a \in Addr, Restart(a) PROVE NotLost' /\ Unfinished'
  <2>1. incarnation'[a] # 0
    <3>1. incarnation[a] \in Nat /\ incarnation'[a] = incarnation[a] + 1
      BY <1>2, FragmentAssumption DEF Lossless, IInv, TypeOK, Restart
    <3> QED BY <3>1
  <2> QED BY <1>2, <2>1 DEF Restart, NotLost, NoRestartYet, Lossless, Unfinished, Stored
<1>3. ASSUME NEW m \in net, Lose(m) PROVE NotLost' /\ Unfinished'
  <2>1. /\ net' = net \ {m} /\ dropped' = dropped \cup {m.data.packet}
        /\ UNCHANGED <<incarnation, sent, global_map, delivered>>
    BY <1>3 DEF Lose, sender
  <2>2. NotLost'
    <3> SUFFICES ASSUME NoRestartYet, NEW p \in sent, ~Returned(p), p \notin dropped',
                        NEW i \in 0 .. FragmentCount(p) - 1
                 PROVE  Somewhere(p, i)'
      BY <2>1 DEF NotLost, NoRestartYet, Returned
    <3>1. Somewhere(p, i) /\ p # m.data.packet
      BY <2>1 DEF Lossless, NotLost
    <3> QED BY <2>1, <3>1 DEF Somewhere, Stored
  <2> QED BY <2>1, <2>2 DEF Lossless, Unfinished, Stored
<1>4. ASSUME NEW m \in net, handle(m) PROVE NotLost' /\ Unfinished'
  BY <1>4, HandleNotLost, HandleUnfinished DEF Lossless
<1>5. ASSUME Tick PROVE NotLost' /\ Unfinished'
  <2>1. UNCHANGED <<incarnation, sent, net, delivered, dropped>>
    BY <1>5 DEF Tick, sender
  <2>2. \A a \in Addr, k \in Id :
          /\ Stored(a, k)' = Stored(a, k)
          /\ global_map'[a][k].fragment_count = global_map[a][k].fragment_count
          /\ global_map'[a][k] # NoQueue => global_map[a][k] # NoQueue
    BY <1>5, TickQueues DEF Lossless
  <2>3. \A p \in sent : p.addr \in Addr /\ p.id \in Id
    BY DEF Lossless, IInv, TypeOK, Packet
  <2>4. Unfinished'
    BY <2>2 DEF Lossless, Unfinished
  <2>5. NotLost'
    <3> SUFFICES ASSUME NoRestartYet, NEW p \in sent, ~Returned(p), p \notin dropped,
                        NEW i \in 0 .. FragmentCount(p) - 1
                 PROVE  Somewhere(p, i)'
      BY <2>1 DEF NotLost, NoRestartYet, Returned
    <3>1. Somewhere(p, i)
      BY DEF Lossless, NotLost
    <3>2. Stored(p.addr, p.id)' = Stored(p.addr, p.id)
      BY <2>2, <2>3
    <3> QED BY <2>1, <3>1, <3>2 DEF Somewhere
  <2> QED BY <2>4, <2>5
<1>6. ASSUME clean PROVE NotLost' /\ Unfinished'
  <2>1. /\ UNCHANGED <<incarnation, sent, net, delivered>>
        /\ dropped' = dropped \cup {p \in sent : Expired(global_map[p.addr][p.id])}
        /\ \A a \in Addr, k \in Id :
             global_map'[a][k] = IF Expired(global_map[a][k]) THEN NoQueue ELSE global_map[a][k]
    BY <1>6 DEF clean, sender
  <2>2. \A p \in sent : p.addr \in Addr /\ p.id \in Id
    BY DEF Lossless, IInv, TypeOK, Packet
  <2>3. Unfinished'
    BY <2>1 DEF Lossless, Unfinished, Stored
  <2>4. NotLost'
    <3> SUFFICES ASSUME NoRestartYet, NEW p \in sent, ~Returned(p), p \notin dropped',
                        NEW i \in 0 .. FragmentCount(p) - 1
                 PROVE  Somewhere(p, i)'
      BY <2>1 DEF NotLost, NoRestartYet, Returned
    <3>1. Somewhere(p, i)
      BY <2>1 DEF Lossless, NotLost
    <3>2. global_map'[p.addr][p.id] = global_map[p.addr][p.id]
      BY <2>1, <2>2
    <3> QED BY <2>1, <3>1, <3>2 DEF Somewhere, Stored
  <2> QED BY <2>3, <2>4
<1>7. ASSUME UNCHANGED vars PROVE NotLost' /\ Unfinished'
  BY <1>7 DEF vars, Lossless, NotLost, NoRestartYet, Returned, Somewhere, Stored, Unfinished
<1> QED
  BY <1>1, <1>2, <1>3, <1>4, <1>5, <1>6, <1>7 DEF Next

(* A packet disappears only with a cause: a lost datagram, a refusal or    *)
(* the cleaner.  Duplicates, and the exception they provoke, cost nothing. *)
THEOREM NothingDisappears == Spec => []NothingStuck
<1>1. Init => Lossless
  BY InitIInv DEF Init, Lossless, NotLost, Unfinished
<1>2. Lossless => NothingStuck
  <2> SUFFICES ASSUME Lossless, NoRestartYet, NEW p \in sent, ~Returned(p), p \notin dropped,
                      ~\E m \in net : m.data.packet = p
               PROVE  FALSE
    BY DEF NothingStuck
  <2> DEFINE q == global_map[p.addr][p.id]
             n == FragmentCount(p)
  <2>1. p \in Packet /\ p.addr \in Addr /\ p.id \in Id /\ n \in Nat /\ n >= 1
    BY FragmentCountType DEF Lossless, IInv, TypeOK, Packet
  <2>2. \A i \in 0 .. n - 1 : i \in DOMAIN q.fragments
    BY DEF Lossless, NotLost, Somewhere, Stored
  <2>3. 0 \in DOMAIN q.fragments
    BY <2>1, <2>2
  <2>4. q # NoQueue /\ IsQueue(q)
    <3>1. DOMAIN NoQueue.fragments = {}
      BY DEF NoQueue, NoFragments
    <3>2. q # NoQueue
      BY <2>3, <3>1
    <3>3. q = NoQueue \/ IsQueue(q)
      BY <2>1 DEF Lossless, IInv, TypeOK
    <3> QED BY <3>2, <3>3
  <2>5. q.fragment_count = n
    <3>1. CutFrom(q.fragments[0], p.addr, p.id, 0)
          /\ q.fragment_count = FragmentCount(q.fragments[0].packet)
      BY <2>1, <2>3 DEF Lossless, IInv, QueuesHonest
    <3>2. q.fragments[0].packet = p
      BY <3>1, OnlyPacket DEF CutFrom, Lossless
    <3> QED BY <3>1, <3>2
  <2>6. /\ DOMAIN q.fragments = 0 .. n - 1
        /\ Cardinality(0 .. n - 1) = n
    BY <2>2, <2>4, <2>5, QueueFinite
  <2>7. Cardinality(DOMAIN q.fragments) < q.fragment_count
    BY <2>1, <2>4 DEF Lossless, Unfinished, Stored
  <2> QED BY <2>1, <2>5, <2>6, <2>7
<1> QED BY <1>1, <1>2, StepLossless, PTL DEF Spec

-----------------------------------------------------------------------------
(***************************************************************************)
(* Without duplicates and restarts: a packet is completed once.            *)
(***************************************************************************)

NetCut == \A m \in net : m \in Datagrams(m.data.packet)

(* What is in flight was neither stored nor returned.                      *)
InFlightOnce ==
    Orderly =>
        \A m \in net : /\ m.fragment_index \notin Stored(m.from, m.id)
                       /\ \A d \in delivered : \A i \in DOMAIN d.parts :
                            d.parts[i].packet # m.data.packet

OInv == IInv /\ NetCut /\ InFlightOnce

LEMMA SameDatagram ==
    ASSUME IInv, NetCut, NoRestartYet, NEW m \in net, NEW n \in net,
           m.from = n.from, m.id = n.id, m.fragment_index = n.fragment_index
    PROVE  m = n
<1>1. m.data.packet = n.data.packet
  BY DatagramHonest, OnlyPacket DEF CutFrom
<1> DEFINE p == m.data.packet
<1>2. m \in Datagrams(p) /\ n \in Datagrams(p)
  BY <1>1 DEF NetCut
<1> HIDE DEF p
<1>3. \A x \in Datagrams(p) :
         x = [from |-> p.addr, id |-> p.id, fragment_count |-> FragmentCount(p),
              fragment_index |-> x.fragment_index, data |-> construct_fragments(p)[x.fragment_index]]
  BY DEF Datagrams
<1> QED BY <1>2, <1>3

LEMMA StepNetCut == IInv /\ NetCut /\ [Next]_vars => NetCut'
<1> SUFFICES ASSUME IInv, NetCut, [Next]_vars PROVE NetCut'
  OBVIOUS
<1>1. ASSUME NEW a \in Addr, NEW length \in Lengths, fragment_data(a, length) PROVE NetCut'
  <2> DEFINE P == [addr |-> a, inc |-> incarnation[a], id |-> current_id[a], length |-> length]
  <2>1. net' = net \cup Datagrams(P)
    BY <1>1 DEF fragment_data
  <2>2. P \in Packet
    BY <1>1, FragmentAssumption DEF IInv, TypeOK, fragment_data, Packet, Id
  <2> HIDE DEF P
  <2>3. \A m \in Datagrams(P) : m.data.packet = P
    BY <2>2, FragmentType DEF Datagrams
  <2> QED BY <2>1, <2>3 DEF NetCut
<1>2. ASSUME net' \subseteq net PROVE NetCut'
  BY <1>2 DEF NetCut
<1> QED BY <1>1, <1>2 DEF Next, Restart, Lose, handle, Arrive, Tick, clean, vars

LEMMA HandleOnce ==
    ASSUME OInv, NEW m \in net, handle(m)
    PROVE  InFlightOnce'
<1>1. /\ UNCHANGED <<incarnation, sent>> /\ duplicates \in Nat
      /\ m.from \in Addr /\ m.id \in Id
  <2>1. UNCHANGED <<incarnation, sent>>
    BY DEF handle, sender
  <2>2. duplicates \in Nat
    BY FragmentAssumption DEF OInv, IInv, TypeOK
  <2>3. m.from \in Addr /\ m.id \in Id
    BY DEF OInv, IInv, TypeOK, IsDatagram
  <2> QED BY <2>1, <2>2, <2>3
<1> SUFFICES ASSUME NoRestartYet, duplicates' = 0, NEW n \in net'
             PROVE  /\ n.fragment_index \notin Stored(n.from, n.id)'
                    /\ \A d \in delivered' : \A i \in DOMAIN d.parts :
                         d.parts[i].packet # n.data.packet
  BY <1>1 DEF InFlightOnce, Orderly, NoRestartYet
<1>2. net' = net \ {m} /\ duplicates = 0
  BY <1>1 DEF handle, Arrive
<1>3. Orderly
  BY <1>2 DEF Orderly
<1>4. n \in net /\ n # m /\ n.from \in Addr /\ n.id \in Id
  BY <1>2 DEF OInv, IInv, TypeOK, IsDatagram
<1>5. n.fragment_index \notin Stored(n.from, n.id)
  BY <1>3, <1>4 DEF OInv, InFlightOnce
<1>6. n.fragment_index \notin Stored(n.from, n.id)'
  <2>1. ~(n.from = m.from /\ n.id = m.id /\ n.fragment_index = m.fragment_index)
    BY <1>4, SameDatagram DEF OInv
  <2> QED BY <1>4, <1>5, <2>1, StoredAfter DEF OInv
<1>7. \A d \in delivered : \A i \in DOMAIN d.parts : d.parts[i].packet # n.data.packet
  BY <1>3, <1>4 DEF OInv, InFlightOnce
<1>8. CASE delivered' = delivered
  BY <1>6, <1>7, <1>8
<1>9. CASE handle_completes(m)
  <2>1. ~Refused(m) /\ Missing(m) = {} /\ delivered' = delivered \cup {final_packet(m)}
    BY <1>9 DEF handle_completes
  <2>2. /\ DOMAIN final_packet(m).parts = 0 .. m.fragment_count - 1
        /\ \A i \in DOMAIN final_packet(m).parts :
             CutFrom(final_packet(m).parts[i], m.from, m.id, i)
    BY <2>1, FinalPacketHonest DEF OInv
  <2>3. ASSUME NEW i \in DOMAIN final_packet(m).parts,
               final_packet(m).parts[i].packet = n.data.packet
        PROVE  FALSE
    <3>1. n.from = m.from /\ n.id = m.id
      BY <1>4, <2>2, <2>3, DatagramHonest DEF OInv, CutFrom
    <3>2. n.data.packet = m.data.packet
      BY <1>4, <3>1, DatagramHonest, OnlyPacket DEF OInv, CutFrom
    <3>3. n.fragment_index \in 0 .. m.fragment_count - 1
      BY <1>4, <3>2, DatagramHonest DEF OInv, CutFrom
    <3>4. n.fragment_index # m.fragment_index
      BY <1>4, <3>1, SameDatagram DEF OInv
    <3>5. n.fragment_index \in DOMAIN packet_queue(m).fragments
      BY <2>1, <3>3, <3>4 DEF Missing
    <3>6. n.fragment_index \in Stored(m.from, m.id)
      BY <3>5 DEF packet_queue, Stored, NoFragments
    <3> QED BY <1>5, <3>1, <3>6
  <2> QED BY <1>6, <1>7, <2>1, <2>3
<1> QED BY <1>8, <1>9 DEF handle, handle_refuses, handle_stores, handle_throws

LEMMA SendOnce ==
    ASSUME OInv, NEW a \in Addr, NEW length \in Lengths, fragment_data(a, length)
    PROVE  InFlightOnce'
<1> DEFINE P == [addr |-> a, inc |-> incarnation[a], id |-> current_id[a], length |-> length]
<1>1. /\ net' = net \cup Datagrams(P)
      /\ UNCHANGED <<incarnation, duplicates, global_map, delivered>>
  BY DEF fragment_data
<1>2. P \in Packet /\ P.addr = a /\ P.id = current_id[a] /\ P.inc = incarnation[a]
  BY FragmentAssumption DEF OInv, IInv, TypeOK, fragment_data, Packet, Id
<1> HIDE DEF P
<1>3. \A m \in Datagrams(P) : m.data.packet = P /\ m.from = P.addr /\ m.id = P.id
  BY <1>2, FragmentType DEF Datagrams
<1>4. ASSUME NoRestartYet, NEW p \in sent, p.addr = a, p.id = current_id[a] PROVE FALSE
  <2>1. p \in Packet /\ p.inc <= incarnation[a] /\ incarnation[a] = 0 /\ current_id[a] \in Nat
    BY <1>4, FragmentAssumption DEF OInv, IInv, TypeOK, IdsFresh, NoRestartYet
  <2>2. p.inc = incarnation[a]
    BY <2>1, FragmentAssumption DEF Packet
  <2>3. p.id < current_id[a]
    BY <1>4, <2>2 DEF OInv, IInv, IdsFresh
  <2> QED BY <1>4, <2>1, <2>3
<1> SUFFICES ASSUME NoRestartYet, duplicates = 0, NEW m \in net'
             PROVE  /\ m.fragment_index \notin Stored(m.from, m.id)
                    /\ \A d \in delivered : \A i \in DOMAIN d.parts :
                         d.parts[i].packet # m.data.packet
  BY <1>1 DEF InFlightOnce, Orderly, NoRestartYet, Stored
<1>5. CASE m \in net
  BY <1>5 DEF OInv, InFlightOnce, Orderly
<1>6. CASE m \in Datagrams(P)
  <2>1. m.data.packet = P /\ m.from = a /\ m.id = current_id[a] /\ m.id \in Id
    BY <1>2, <1>3, <1>6 DEF Packet
  <2>2. m.fragment_index \notin Stored(m.from, m.id)
    <3> SUFFICES ASSUME m.fragment_index \in Stored(m.from, m.id) PROVE FALSE
      OBVIOUS
    <3>1. CutFrom(global_map[m.from][m.id].fragments[m.fragment_index], m.from, m.id,
                  m.fragment_index)
      BY <2>1 DEF OInv, IInv, QueuesHonest, Stored
    <3> QED BY <1>4, <2>1, <3>1 DEF CutFrom
  <2>3. ASSUME NEW d \in delivered, NEW i \in DOMAIN d.parts, d.parts[i].packet = m.data.packet
        PROVE  FALSE
    <3>1. d.parts[i].packet \in sent
      BY DEF OInv, IInv, DeliveredHonest, CutFrom
    <3> QED BY <1>2, <1>4, <2>1, <2>3, <3>1
  <2> QED BY <2>2, <2>3
<1> QED BY <1>1, <1>5, <1>6

LEMMA StepOnce == OInv /\ [Next]_vars => OInv'
<1> SUFFICES ASSUME OInv, [Next]_vars PROVE InFlightOnce'
  BY StepIInv, StepNetCut DEF OInv
<1>1. ASSUME NEW a \in Addr, Restart(a) PROVE InFlightOnce'
  <2>1. incarnation'[a] # 0
    <3>1. incarnation[a] \in Nat /\ incarnation'[a] = incarnation[a] + 1
      BY <1>1, FragmentAssumption DEF OInv, IInv, TypeOK, Restart
    <3> QED BY <3>1
  <2> QED BY <2>1 DEF InFlightOnce, Orderly, NoRestartYet
<1>2. ASSUME net' \subseteq net, UNCHANGED <<incarnation, duplicates, delivered>>,
             \A a \in Addr, k \in Id : Stored(a, k)' \subseteq Stored(a, k)
      PROVE  InFlightOnce'
  <2>1. \A m \in net : m.from \in Addr /\ m.id \in Id
    BY DEF OInv, IInv, TypeOK, IsDatagram
  <2> SUFFICES ASSUME Orderly, NEW m \in net
               PROVE  /\ m.fragment_index \notin Stored(m.from, m.id)'
                      /\ \A d \in delivered : \A i \in DOMAIN d.parts :
                           d.parts[i].packet # m.data.packet
    BY <1>2 DEF InFlightOnce, Orderly, NoRestartYet
  <2> QED BY <1>2, <2>1 DEF OInv, InFlightOnce
<1>3. ASSUME NEW m \in net, Lose(m) PROVE InFlightOnce'
  BY <1>2, <1>3 DEF Lose, sender, Stored
<1>4. ASSUME Tick PROVE InFlightOnce'
  BY <1>2, <1>4, TickQueues DEF Tick, sender, OInv
<1>5. ASSUME clean PROVE InFlightOnce'
  <2>1. \A a \in Addr, k \in Id : Stored(a, k)' \subseteq Stored(a, k)
    BY <1>5 DEF clean, Stored, NoQueue, NoFragments
  <2> QED BY <1>2, <1>5, <2>1 DEF clean, sender
<1>6. ASSUME UNCHANGED vars PROVE InFlightOnce'
  BY <1>2, <1>6 DEF vars, Stored
<1> QED BY <1>1, <1>3, <1>4, <1>5, <1>6, HandleOnce, SendOnce DEF Next

(* Until something is duplicated or a peer restarts, what completes a      *)
(* packet completes it whole and once, although the queue stays in the     *)
(* map.                                                                    *)
THEOREM CompletedOnce == Spec => []CompletesOnce
<1>1. Init => OInv
  BY InitIInv DEF Init, OInv, NetCut, InFlightOnce
<1>2. OInv => CompletesOnce
  <2> SUFFICES ASSUME OInv, Orderly, NEW m \in net, ~Refused(m), ~Incomplete(m)
               PROVE  Missing(m) = {} /\ final_packet(m) \notin delivered
    BY DEF CompletesOnce
  <2>1. m.fragment_index \notin Stored(m.from, m.id)
    BY DEF OInv, InFlightOnce
  <2>2. m.fragment_index \notin DOMAIN packet_queue(m).fragments
    BY <2>1 DEF packet_queue, Stored, NoFragments
  <2>3. Missing(m) = {}
    BY <2>2, Counted DEF OInv
  <2>4. /\ m.fragment_index \in DOMAIN final_packet(m).parts
        /\ final_packet(m).parts[m.fragment_index] = m.data
    BY DEF final_packet, OInv, IInv, TypeOK, IsDatagram
  <2>5. final_packet(m) \notin delivered
    BY <2>4 DEF OInv, InFlightOnce
  <2> QED BY <2>3, <2>5
<1> QED BY <1>1, <1>2, StepOnce, PTL DEF Spec

=============================================================================
