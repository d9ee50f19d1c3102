------------------------------ MODULE Delivery ------------------------------
(* What a tab is promised about the reliable commands of one room: a command *)
(* is applied at most once, only after it was asked for, however many        *)
(* connections it takes, and its visitor does not wait for ever.             *)
EXTENDS Naturals

CONSTANTS Commands, None   \* None is not a command

VARIABLES
    asked,      \* commands the visitor has given
    waiting,    \* the one whose answer the visitor waits for, or None: the last
                \* one given, as far as it is not answered
    count       \* how often the room has applied each command
vars == <<asked, waiting, count>>

Init == asked = {} /\ waiting = None /\ count = [i \in Commands |-> 0]

Ask(i) ==
    /\ waiting = None /\ i \notin asked
    /\ asked' = asked \cup {i} /\ waiting' = i /\ UNCHANGED count

\* A command given while another is waited for: from now on it is this one's
\* answer that counts.
Overtake(i) ==
    /\ waiting # None /\ i \notin asked
    /\ asked' = asked \cup {i} /\ waiting' = i /\ UNCHANGED count

Apply(i) ==
    /\ i \in asked /\ count[i] = 0
    /\ count' = [count EXCEPT ![i] = 1] /\ UNCHANGED <<asked, waiting>>

Settle ==
    /\ waiting # None
    /\ waiting' = None /\ UNCHANGED <<asked, count>>

Next == Settle \/ \E i \in Commands : Ask(i) \/ Overtake(i) \/ Apply(i)
Spec == Init /\ [][Next]_vars /\ WF_vars(Settle)
=============================================================================
