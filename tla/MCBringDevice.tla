---------------------------- MODULE MCBringDevice ----------------------------
(***************************************************************************)
(* Constants for model-checking BringDevice.  Clients are interchangeable, *)
(* and so are servers.                                                     *)
(***************************************************************************)
EXTENDS BringDevice, TLC

CONSTANTS s1, s2, c1, c2, c3

OneServer    == {s1}
TwoServers   == {s1, s2}
TwoClients   == {c1, c2}
ThreeClients == {c1, c2, c3}

Symmetry == Permutations(Servers) \cup Permutations(Clients)
==============================================================================
