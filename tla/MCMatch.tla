------------------------------ MODULE MCMatch ------------------------------
(***************************************************************************)
(* Small instances of Match for TLC.                                       *)
(***************************************************************************)
EXTENDS Match, TLC

CONSTANTS u1, u2, u3, aceS, aceH, kingS, kingH, Ace, King

ThreeUsers == {u1, u2, u3}
FourFaces == {aceS, aceH, kingS, kingH}
ThreeFaces == {aceS, aceH, kingS}
FaceRank == [f \in Face |-> IF f \in {aceS, aceH} THEN Ace ELSE King]

\* Users are interchangeable: seating order is part of the state.
Symmetry == Permutations(User)
=============================================================================
