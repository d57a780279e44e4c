------------------------------ MODULE MCBackends ------------------------------
(* Three clients and two keys, which are alike.                            *)
EXTENDS Backends, TLC

CONSTANTS c1, c2, c3, k1, k2

MCClients == {c1, c2, c3}
MCKeys == {k1, k2}
MCSymmetry == Permutations(MCClients) \cup Permutations(MCKeys)
=============================================================================
