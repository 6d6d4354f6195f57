----------------------------- MODULE MCPlayers -----------------------------
(* A listen host, a player, and one who comes from two addresses.          *)
EXTENDS Players

CONSTANTS loopback, alice_at, bob_at, bob_too, host, alice, bob

MCAddress == {loopback, alice_at, bob_at, bob_too}
MCXuid == {host, alice, bob}
MCXuidOf == [p \in MCAddress |-> CASE p = loopback -> host
                                   [] p = alice_at -> alice
                                   [] OTHER -> bob]
=============================================================================
