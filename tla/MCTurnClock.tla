---------------------------- MODULE MCTurnClock ----------------------------
(***************************************************************************)
(* Small instances of TurnClock for TLC.                                   *)
(***************************************************************************)
EXTENDS TurnClock, TLC

CONSTANTS u1, u2, u3

TwoUsers == {u1, u2}
ThreeUsers == {u1, u2, u3}

\* Only safety runs use it: the module never tells two users apart.
UserSymmetry == Permutations(ThreeUsers)
=============================================================================
