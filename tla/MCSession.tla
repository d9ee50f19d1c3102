----------------------------- MODULE MCSession -----------------------------
(* Instances of Session for TLC.                                             *)
EXTENDS Session, TLC
CONSTANTS r1, r2, s1, s2, g1, g2, g3

Alike == Permutations(Sockets) \cup Permutations(Guests)
=============================================================================
