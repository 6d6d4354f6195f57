-------------------------- MODULE MCFragmentHandler --------------------------
(* Small instances of FragmentHandler for TLC.                             *)
EXTENDS FragmentHandler, TLC

CONSTANTS a1, a2

OnePeer == {a1}
TwoPeers == {a1, a2}

(* With max_fragment_size = 2: two fragments.                              *)
ShortPackets == {3, 4}
(* Three fragments, with a short last one and without.                     *)
LongPackets == {5, 6}
(* One fragment, and more than MAX_FRAGMENTS = 1 allows.                   *)
OversizedPackets == {2, 3}

Symmetry == Permutations(Addr)
=============================================================================
