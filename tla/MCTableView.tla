---------------------------- MODULE MCTableView ----------------------------
(* Small instances of TableView for TLC. *)
EXTENDS TableView

CONSTANTS u1, u2, aceS, aceH, kingS, kingH, Ace, King

TwoUsers == {u1, u2}
FourFaces == {aceS, aceH, kingS, kingH}
FaceRank == [f \in Face |-> IF f \in {aceS, aceH} THEN Ace ELSE King]
=============================================================================
