------------------------------ MODULE MCPages ------------------------------
(* The instance of Pages for TLC.                                            *)
EXTENDS Pages, TLC

CONSTANTS
    p1, p2, c1, c2, c3, c4, u1, u2, aceS, aceH, kingS, kingH, Ace, King,
    ann, bob, laptop, phone, other, nobody, lostName, an, empty, r1, r2

FaceRank == [f \in Face |-> IF f \in {aceS, aceH} THEN Ace ELSE King]
\* Ann has two pages open, on two devices.
AnnHasTwo == [g \in Hubs |-> IF g = other THEN bob ELSE ann]

\* The rematch brings the player a card of the first hand and one of the other.
TwoDeals == {{c1, c2}, {c1, c3}}

\* The players at the table are alike to Voice, and other parts do not have them.
AlikeSpeakers == Permutations(Speakers)

\* What is explored: of voice, five offers, controls shown and breaks in all; of
\* a friends page, answers, removals and failures any two,
\* and a third request while another is about to be written over a declined row;
\* of a bell, polls, failures and changes any two; for the first match one deal,
\* because the cards are alike until then; more than four moves only when nothing
\* was dropped or done in haste, and a sixth only of a rematch.
Explored ==
    /\ part = "voice" => offers + mounts + breaks <= 5
    /\ part = "friends" => /\ answers + removals + lost <= 2
                           /\ asks = 3 => /\ lost = 0 /\ removals = 0
                                          /\ \E k \in calls : k.state = "found"
    /\ part = "invites" => polls + troubles + changes <= 2
    /\ part = "flights" =>
         /\ matches = 1 /\ moves = 0 /\ table.phase = "playing" => table.hand["me"] = {c1, c2}
         /\ moves > 4 => ~hasty /\ drops = 0
         /\ moves = 6 => matches = 2
=============================================================================
