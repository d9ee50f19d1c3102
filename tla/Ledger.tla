------------------------------- MODULE Ledger -------------------------------
(***************************************************************************)
(* What keeping the rooms promises: every store keeps ever later states of *)
(* an open room and nothing of a room that is shut; a shut room is cleared *)
(* from the stores one by one, can be opened again only while a store      *)
(* still has it, and once it is nowhere it stays nowhere.  The module      *)
(* Persistence shows that the room manager, its write-behind worker, Redis *)
(* and Postgres implement it through failed calls and crashes.             *)
(***************************************************************************)
EXTENDS Naturals

CONSTANTS Codes,   \* the codes rooms go by
          Stores,  \* the places a room is kept in
          Seqs     \* the sequence numbers of states; 0 stands for no state

VARIABLES open,    \* the codes whose room takes part in the game
          kept     \* kept[s][c]: the sequence number store s has of c, 0 for none

vars == <<open, kept>>

Init ==
    /\ open = Codes
    /\ kept = [s \in Stores |-> [c \in Codes |-> 0]]

\* A store takes a state of an open room that is no older than what it has.
Keep(s, c) ==
    /\ c \in open
    /\ \E n \in Seqs : /\ n >= kept[s][c]
                      /\ kept' = [kept EXCEPT ![s][c] = n]
    /\ UNCHANGED open

\* A room is destroyed, or the server stops with all of them.
Shut(C) ==
    /\ C \subseteq open
    /\ open' = open \ C
    /\ UNCHANGED kept

\* A store forgets a room that is shut.
Clear(s, c) ==
    /\ c \notin open
    /\ kept' = [kept EXCEPT ![s][c] = 0]
    /\ UNCHANGED open

\* A restart finds a room in a store; every store ends up no older.
Reopen(c) ==
    /\ c \notin open
    /\ \E s \in Stores : kept[s][c] > 0
    /\ open' = open \cup {c}
    /\ \E now \in [Stores -> Seqs] :
          /\ \A s \in Stores : now[s] >= kept[s][c]
          /\ kept' = [s \in Stores |-> [kept[s] EXCEPT ![c] = now[s]]]

Next ==
    \/ \E s \in Stores, c \in Codes : Keep(s, c) \/ Clear(s, c)
    \/ \E C \in SUBSET Codes : Shut(C)
    \/ \E c \in Codes : Reopen(c)

Spec == Init /\ [][Next]_vars
=============================================================================
