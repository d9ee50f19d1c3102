--------------------------- MODULE MCPersistence ---------------------------
(***************************************************************************)
(* Instances of Persistence for TLC.                                       *)
(***************************************************************************)
EXTENDS Persistence

CONSTANTS r1, r2, c1, c2

\* Every actor has a code of its own.
OwnCode == [r \in Rooms |-> IF r = r1 THEN c1 ELSE c2]

\* One room with every kind of failure; two rooms, the second of which is
\* joined and no more, while saves fail and are put back.
OneOrTwo ==
    {[steps   |-> [c \in {c1} |-> 3],
      faults  |-> [save |-> 2, live |-> 1, drop |-> 1],
      crashes |-> 1],
     [steps   |-> [c \in {c1, c2} |-> IF c = c1 THEN 3 ELSE 1],
      faults  |-> [save |-> 2, live |-> 0, drop |-> 0],
      crashes |-> 0]}
=============================================================================
