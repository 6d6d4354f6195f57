--------------------------- MODULE FragmentHandler ---------------------------
(***************************************************************************)
(* Reassembly of large connectionless packets, game/fragment_handler.cpp.  *)
(* A peer cuts a packet into fragments (fragment_data) and sends each as   *)
(* one UDP datagram; the receiver collects them per address and id         *)
(* (handle) and every five seconds throws old collections away (clean).    *)
(* The network loses, duplicates and reorders; a peer's process restarts,  *)
(* and its static id counter then begins again at zero.                    *)
(*                                                                         *)
(* A fragment's bytes are abstracted to where they were cut from: the      *)
(* packet they belong to and the byte range of it.                         *)
(***************************************************************************)
EXTENDS Integers, FiniteSets

CONSTANTS
    Addr,               \* addresses of the sending peers
    Lengths,            \* packet lengths a peer sends, in bytes
    MAX_FRAGMENTS,      \* line 8: 100
    max_fragment_size,  \* line 28: 0x400
    Lifetime,           \* line 112: 5s, in ticks
    MaxPackets,         \* bound: packets a peer sends per incarnation
    MaxSent,            \* bound: packets all peers send
    MaxRestarts,        \* bound: restarts of a peer
    MaxDuplicates       \* bound: datagrams the network delivers twice

ASSUME FragmentAssumption ==
    /\ Lengths \subseteq Nat \ {0}
    /\ MAX_FRAGMENTS \in Nat \ {0}
    /\ max_fragment_size \in Nat \ {0}
    /\ Lifetime \in Nat
    /\ MaxPackets \in Nat
    /\ MaxSent \in Nat
    /\ MaxRestarts \in Nat
    /\ MaxDuplicates \in Nat

VARIABLES
    incarnation,  \* [Addr -> Nat]: which process runs at the address (not on the wire)
    current_id,   \* [Addr -> Nat]: the static counter of fragment_data
    sent,         \* history: the packets fragment_data was called with
    net,          \* datagrams in flight
    duplicates,   \* datagrams duplicated so far
    global_map,   \* [Addr -> [Id -> packet queue or NoQueue]]
    delivered,    \* history: [from, parts] of every packet handle returned
    dropped       \* history: packets that lost a fragment to the network, a refusal or clean

vars == <<incarnation, current_id, sent, net, duplicates, global_map, delivered, dropped>>

sender == <<incarnation, current_id, sent>>

-----------------------------------------------------------------------------
(* Packets, fragments and datagrams. *)

Id == 0 .. MaxPackets - 1

Packet == [addr : Addr, inc : 0 .. MaxRestarts, id : Id, length : Lengths]

FragmentCount(p) == (p.length + max_fragment_size - 1) \div max_fragment_size

Fragment == [packet : Packet, first : Nat, last : Nat]

SmallerOf(x, y) == IF x < y THEN x ELSE y

(* Mutant: the last fragment not cut to the packet's length.               *)
construct_fragments_NoMin(p) ==
    [i \in 0 .. FragmentCount(p) - 1 |->
        [packet |-> p,
         first  |-> i * max_fragment_size,
         last   |-> i * max_fragment_size + max_fragment_size]]

(* construct_fragments, as a function from fragment index to byte range.    *)
construct_fragments(p) ==
    [i \in 0 .. FragmentCount(p) - 1 |->
        [packet |-> p,
         first  |-> i * max_fragment_size,
         last   |-> i * max_fragment_size
                      + SmallerOf(p.length - i * max_fragment_size, max_fragment_size)]]

Datagrams(p) ==
    {[from |-> p.addr, id |-> p.id, fragment_count |-> FragmentCount(p),
      fragment_index |-> i, data |-> construct_fragments(p)[i]] :
        i \in 0 .. FragmentCount(p) - 1}

NoFragments == [i \in {} |-> i]

NoQueue == [fragment_count |-> 0, fragments |-> NoFragments, age |-> 0]

Present(a) == {k \in Id : global_map[a][k] # NoQueue}

Put(f, i, d) == [k \in DOMAIN f \cup {i} |-> IF k = i THEN d ELSE f[k]]

-----------------------------------------------------------------------------
Init ==
    /\ incarnation = [a \in Addr |-> 0]
    /\ current_id = [a \in Addr |-> 0]
    /\ sent = {}
    /\ net = {}
    /\ duplicates = 0
    /\ global_map = [a \in Addr |-> [k \in Id |-> NoQueue]]
    /\ delivered = {}
    /\ dropped = {}

(* Mutant: the id counter is not advanced.                                 *)
fragment_data_SameId(a, length) ==
    /\ Cardinality(sent) < MaxSent
    /\ LET p == [addr |-> a, inc |-> incarnation[a], id |-> current_id[a], length |-> length]
       IN  /\ sent' = sent \cup {p}
           /\ net' = net \cup Datagrams(p)
    /\ UNCHANGED <<incarnation, current_id, duplicates, global_map, delivered, dropped>>

(* The sender: one call of fragment_data.                                  *)
fragment_data(a, length) ==
    /\ current_id[a] < MaxPackets
    /\ Cardinality(sent) < MaxSent
    /\ LET p == [addr |-> a, inc |-> incarnation[a], id |-> current_id[a], length |-> length]
       IN  /\ sent' = sent \cup {p}
           /\ net' = net \cup Datagrams(p)
    /\ current_id' = [current_id EXCEPT ![a] = @ + 1]
    /\ UNCHANGED <<incarnation, duplicates, global_map, delivered, dropped>>

(* The peer's process ends and another starts at the same address.         *)
Restart(a) ==
    /\ incarnation[a] < MaxRestarts
    /\ incarnation' = [incarnation EXCEPT ![a] = @ + 1]
    /\ current_id' = [current_id EXCEPT ![a] = 0]
    /\ UNCHANGED <<sent, net, duplicates, global_map, delivered, dropped>>

(* The network loses a datagram.                                           *)
Lose(m) ==
    /\ net' = net \ {m}
    /\ dropped' = dropped \cup {m.data.packet}
    /\ UNCHANGED <<sender, duplicates, global_map, delivered>>

(* The network hands a datagram over, and may keep a copy for later.       *)
Arrive(m) ==
    \/ /\ net' = net \ {m}
       /\ UNCHANGED duplicates
    \/ /\ duplicates < MaxDuplicates
       /\ duplicates' = duplicates + 1
       /\ UNCHANGED net

-----------------------------------------------------------------------------
(* The receiver.                                                           *)

Malformed(m) ==
    \/ m.fragment_index > m.fragment_count
    \/ m.fragment_count = 0
    \/ m.fragment_count > MAX_FRAGMENTS

(* Mutant: the limit is not enforced.                                      *)
UserMapFull_NoLimit(m) == FALSE

UserMapFull(m) ==
    /\ m.id \notin Present(m.from)
    /\ Cardinality(Present(m.from)) > MAX_FRAGMENTS

(* The packet queue handle works on: the one it finds, or a new one, which *)
(* takes its fragment count and insertion time from this datagram.         *)
packet_queue(m) ==
    IF m.id \in Present(m.from)
    THEN global_map[m.from][m.id]
    ELSE [fragment_count |-> m.fragment_count, fragments |-> NoFragments, age |-> 0]

Refused(m) ==
    \/ Malformed(m)
    \/ UserMapFull(m)
    \/ packet_queue(m).fragment_count # m.fragment_count

(* Mutants: the arriving fragment is not counted; or is counted twice.     *)
Incomplete_NotCounted(m) ==
    Cardinality(DOMAIN packet_queue(m).fragments) < m.fragment_count

Incomplete_CountedTwice(m) ==
    Cardinality(DOMAIN packet_queue(m).fragments) + 2 < m.fragment_count

Incomplete(m) ==
    Cardinality(DOMAIN packet_queue(m).fragments) + 1 < m.fragment_count

(* The indices the final loop reads with .at(), which throws on a miss.    *)
Missing(m) ==
    ((0 .. m.fragment_count - 1) \ {m.fragment_index})
        \ DOMAIN packet_queue(m).fragments

final_packet(m) ==
    [from  |-> m.from,
     parts |-> [i \in 0 .. m.fragment_count - 1 |->
                    IF i = m.fragment_index THEN m.data
                    ELSE packet_queue(m).fragments[i]]]

SetQueue(m, q) == global_map' = [global_map EXCEPT ![m.from][m.id] = q]

handle_refuses(m) ==
    /\ Refused(m)
    /\ dropped' = dropped \cup {m.data.packet}
    /\ UNCHANGED <<global_map, delivered>>

handle_stores(m) ==
    /\ ~Refused(m)
    /\ Incomplete(m)
    /\ SetQueue(m, [packet_queue(m) EXCEPT !.fragments = Put(@, m.fragment_index, m.data)])
    /\ UNCHANGED <<delivered, dropped>>

(* The completed queue stays in the map until clean finds it old.          *)
handle_completes(m) ==
    /\ ~Refused(m)
    /\ ~Incomplete(m)
    /\ Missing(m) = {}
    /\ SetQueue(m, packet_queue(m))
    /\ delivered' = delivered \cup {final_packet(m)}
    /\ UNCHANGED dropped

(* std::out_of_range leaves handle and is caught in network's handle_command. *)
handle_throws(m) ==
    /\ ~Refused(m)
    /\ ~Incomplete(m)
    /\ Missing(m) # {}
    /\ SetQueue(m, packet_queue(m))
    /\ UNCHANGED <<delivered, dropped>>

handle(m) ==
    /\ Arrive(m)
    /\ \/ handle_refuses(m)
       \/ handle_stores(m)
       \/ handle_completes(m)
       \/ handle_throws(m)
    /\ UNCHANGED sender

-----------------------------------------------------------------------------
(* Time.  An age stops counting one past the lifetime.                     *)

Expired(q) == q.age > Lifetime

Older(q) == IF q = NoQueue THEN q ELSE [q EXCEPT !.age = SmallerOf(@ + 1, Lifetime + 1)]

Tick ==
    /\ global_map' = [a \in Addr |-> [k \in Id |-> Older(global_map[a][k])]]
    /\ UNCHANGED <<sender, net, duplicates, delivered, dropped>>

(* Mutant: queues without stored fragments are left.                       *)
clean_SkipsEmpty ==
    /\ global_map' = [a \in Addr |-> [k \in Id |->
                        IF Expired(global_map[a][k]) /\ DOMAIN global_map[a][k].fragments # {}
                        THEN NoQueue ELSE global_map[a][k]]]
    /\ UNCHANGED <<sender, net, duplicates, delivered, dropped>>

(* scheduler::loop(clean, async, 5s).                                      *)
clean ==
    /\ global_map' = [a \in Addr |-> [k \in Id |->
                        IF Expired(global_map[a][k]) THEN NoQueue ELSE global_map[a][k]]]
    /\ dropped' = dropped \cup {p \in sent : Expired(global_map[p.addr][p.id])}
    /\ UNCHANGED <<sender, net, duplicates, delivered>>

Next ==
    \/ \E a \in Addr, length \in Lengths : fragment_data(a, length)
    \/ \E a \in Addr : Restart(a)
    \/ \E m \in net : Lose(m) \/ handle(m)
    \/ Tick
    \/ clean

Spec == Init /\ [][Next]_vars

(* The async pipeline's thread keeps running its loops, and time passes.   *)
FairSpec == Spec /\ WF_vars(Tick) /\ WF_vars(clean)

-----------------------------------------------------------------------------
(* Properties. *)

IsQueue(q) ==
    /\ q = [fragment_count |-> q.fragment_count, fragments |-> q.fragments, age |-> q.age]
    /\ q.fragment_count \in 1 .. MAX_FRAGMENTS
    /\ DOMAIN q.fragments \subseteq 0 .. q.fragment_count - 1
    /\ q.fragments = [i \in DOMAIN q.fragments |-> q.fragments[i]]
    /\ \A i \in DOMAIN q.fragments : q.fragments[i] \in Fragment
    /\ q.age \in 0 .. Lifetime + 1

IsDatagram(m) ==
    /\ m.from \in Addr
    /\ m.id \in Id
    /\ m.fragment_count \in Nat \ {0}
    /\ m.fragment_index \in 0 .. m.fragment_count - 1
    /\ m.data \in Fragment

(* Every variable holds values of the shape the code gives it; in          *)
(* particular no stored index lies outside the fragment vector, although   *)
(* handle's first check lets the index equal the count.                    *)
TypeOK ==
    /\ incarnation \in [Addr -> 0 .. MaxRestarts]
    /\ current_id \in [Addr -> 0 .. MaxPackets]
    /\ sent \subseteq Packet
    /\ \A m \in net : IsDatagram(m)
    /\ duplicates \in 0 .. MaxDuplicates
    /\ global_map = [a \in Addr |-> [k \in Id |-> global_map[a][k]]]
    /\ \A a \in Addr, k \in Id : global_map[a][k] = NoQueue \/ IsQueue(global_map[a][k])
    /\ \A d \in delivered :
          /\ d.from \in Addr
          /\ \A i \in DOMAIN d.parts : d.parts[i] \in Fragment
    /\ dropped \subseteq Packet

(* What handle returns was cut from packets of that address, carries every *)
(* index in its place, and two parts are of different packets only when    *)
(* they come from different incarnations of the peer, whose ids collide.   *)
IntactPerIncarnation ==
    \A d \in delivered : \A i, j \in DOMAIN d.parts :
        LET p == d.parts[i].packet
            q == d.parts[j].packet
        IN  /\ p.addr = d.from
            /\ DOMAIN d.parts = 0 .. FragmentCount(p) - 1
            /\ d.parts[i] = construct_fragments(p)[i]
            /\ p.inc = q.inc => p = q

(* While no peer has restarted, handle returns exactly the bytes of one    *)
(* packet that was sent, however the network loses, repeats and reorders:  *)
(* the ranges join without gap or overlap and end at the packet's length.  *)
NoRestartYet == \A a \in Addr : incarnation[a] = 0

Joined(parts, length) ==
    LET last == Cardinality(DOMAIN parts) - 1
    IN  /\ parts[0].first = 0
        /\ \A i \in 0 .. last - 1 : parts[i].last = parts[i + 1].first
        /\ parts[last].last = length

Intact ==
    NoRestartYet =>
        \A d \in delivered : \E p \in sent :
            /\ p.addr = d.from
            /\ d.parts = construct_fragments(p)
            /\ Joined(d.parts, p.length)

(* A packet that was sent, has no fragment in flight and lost none to the  *)
(* network, to a full user map or to clean has been returned: neither a    *)
(* duplicate nor the exception it provokes loses a packet.                 *)
Returned(p) == \E d \in delivered : d.parts = construct_fragments(p)

NothingStuck ==
    NoRestartYet =>
        \A p \in sent : \/ Returned(p)
                        \/ p \in dropped
                        \/ \E m \in net : m.data.packet = p

(* One address never holds more than MAX_FRAGMENTS + 1 queues: the check   *)
(* compares with > before it inserts.                                      *)
QueuesBounded == \A a \in Addr : Cardinality(Present(a)) <= MAX_FRAGMENTS + 1

(* Until the network duplicates something or a peer restarts, what         *)
(* completes a packet completes it whole, so the final loop's .at() never  *)
(* misses, and once, although the queue is not erased, whatever is in      *)
(* flight.                                                                 *)
Orderly == NoRestartYet /\ duplicates = 0

CompletesOnce ==
    Orderly => \A m \in net : ~Refused(m) /\ ~Incomplete(m) =>
                   Missing(m) = {} /\ final_packet(m) \notin delivered

(* Every queue, completed or not, is reclaimed, so a peer shut out by a    *)
(* full user map can be heard again.                                       *)
Reclaimed == \A a \in Addr, k \in Id : k \in Present(a) ~> k \notin Present(a)

-----------------------------------------------------------------------------
(* The inductive strengthening of IntactPerIncarnation: what is in flight  *)
(* and what is stored was cut from a packet that was sent, and the ids of  *)
(* one incarnation name one packet each.                                   *)

CutFrom(d, a, k, i) ==
    LET p == d.packet
    IN  /\ p \in sent
        /\ p.addr = a
        /\ p.id = k
        /\ i \in 0 .. FragmentCount(p) - 1
        /\ d = construct_fragments(p)[i]

NetHonest ==
    \A m \in net :
        /\ CutFrom(m.data, m.from, m.id, m.fragment_index)
        /\ m.fragment_count = FragmentCount(m.data.packet)

QueuesHonest ==
    \A a \in Addr, k \in Id : \A i \in DOMAIN global_map[a][k].fragments :
        LET d == global_map[a][k].fragments[i]
        IN  /\ CutFrom(d, a, k, i)
            /\ global_map[a][k].fragment_count = FragmentCount(d.packet)

DeliveredHonest ==
    \A d \in delivered : \E k \in Id : \A i \in DOMAIN d.parts :
        /\ CutFrom(d.parts[i], d.from, k, i)
        /\ DOMAIN d.parts = 0 .. FragmentCount(d.parts[i].packet) - 1

IdsFresh ==
    /\ \A p \in sent :
          /\ p.inc <= incarnation[p.addr]
          /\ p.inc = incarnation[p.addr] => p.id < current_id[p.addr]
    /\ \A p, q \in sent : p.addr = q.addr /\ p.inc = q.inc /\ p.id = q.id => p = q

IInv == TypeOK /\ NetHonest /\ QueuesHonest /\ DeliveredHonest /\ IdsFresh

=============================================================================
