------------------------------ MODULE Flights ------------------------------
(* The flying cards of the table (GameRoom.tsx, CardFlightLayer.tsx).  Cards *)
(* that come to the player's hand are concealed, which also takes them from  *)
(* the pointer, and each is shown when the flight that carries it lands.     *)
(* What flies is worked out from the state shown before and after a message, *)
(* and from the challenge result that comes a message earlier.               *)
(*                                                                           *)
(* The room is an environment of two players whose moves are those of the    *)
(* game (Match says which).  Left out: flights that reveal nothing, reduced  *)
(* motion, joining during a match, and the reset of a match, which no button *)
(* of the page asks for.                                                     *)
EXTENDS Naturals, FiniteSets, Sequences, SequencesExt

CONSTANTS
    Cards,           \* in the game; the same in every match
    DealtHands,      \* bound: the hands that are dealt to the player
    MaxMoves,        \* bound: moves of the room
    MaxMatches,      \* bound: matches started
    MaxDrops         \* bound: messages the room's full queue drops

VARIABLES
    room,            \* the room: phase, hands, pile, who has returned
    sent,            \* messages on their way to the page
    view,            \* what the page shows
    pickup,          \* pendingPickup, or NoPickup
    frames,          \* flights asked for, to start with the next frame
    flights,         \* flights under way
    concealed,       \* concealedCardIds
    piles, shown,    \* history: piles picked up, and pick-ups shown
    hasty,           \* history: the lobby took the place of the table before all had landed
    moves, matches, drops
vars == <<room, sent, view, pickup, frames, flights, concealed, piles, shown, hasty, moves, matches, drops>>

Players == {"me", "other"}
Other(p) == CHOOSE q \in Players : q # p
NoPickup == [to |-> "none", count |-> 0]

Init ==
    /\ room = [phase |-> "lobby", hand |-> [p \in Players |-> {}], pile |-> {},
               by |-> "none", returned |-> {}]
    /\ sent = <<>>
    /\ view = [phase |-> "lobby", hand |-> {}, pile |-> 0, returned |-> {}]
    /\ pickup = NoPickup /\ frames = {} /\ flights = {} /\ concealed = {}
    /\ piles = <<>> /\ shown = <<>> /\ hasty = FALSE
    /\ moves = 0 /\ matches = 0 /\ drops = 0

-----------------------------------------------------------------------------
(* The room. *)

State(r) == [type |-> "state", phase |-> r.phase, hand |-> r.hand["me"],
             pile |-> Cardinality(r.pile), returned |-> r.returned, to |-> "none"]
Result(r, p) == [State(r) EXCEPT !.type = "challenge", !.to = p]
\* player_won carries the phase alone.
Won(r) == [State(r) EXCEPT !.type = "won"]

\* A concealed card takes no pointer and no key.
Choosable == view.hand \ concealed

Page == <<view, pickup, frames, flights, concealed, shown>>
Tell(msgs) == sent' = sent \o msgs
Moved == moves < MaxMoves /\ moves' = moves + 1

\* After a match the room waits for everybody connected; the other player may
\* not be.
Deal ==
    /\ room.phase = "lobby" \/ (room.phase = "finished" /\ "me" \in room.returned)
    /\ matches < MaxMatches /\ matches' = matches + 1
    /\ \E H \in DealtHands \cap SUBSET Cards :
         /\ Cardinality(H) = Cardinality(Cards) \div 2
         /\ room' = [phase |-> "playing", hand |-> [p \in Players |-> IF p = "me" THEN H ELSE Cards \ H],
                     pile |-> {}, by |-> "none", returned |-> {}]
    /\ Tell(<<State(room')>>)
    /\ UNCHANGED <<Page, piles, hasty, moves, drops>>

\* A play on the last cards of the other player confirms the win.
Play(p, C) ==
    /\ room.phase = "playing" /\ C # {} /\ C \subseteq room.hand[p]
    /\ p = "me" => C \subseteq Choosable
    /\ Moved
    /\ room' = [room EXCEPT !.hand[p] = @ \ C, !.pile = @ \cup C, !.by = p,
                            !.phase = IF room.hand[Other(p)] = {} THEN "finished" ELSE @]
    /\ Tell(IF room'.phase = "finished" THEN <<Won(room'), State(room')>> ELSE <<State(room')>>)
    /\ UNCHANGED <<Page, piles, hasty, matches, drops>>

\* The pile goes to the one who is wrong; last cards that were honest win.
Challenge(bluff) ==
    /\ room.phase = "playing" /\ room.pile # {}
    /\ Moved
    /\ LET maker == room.by
           loser == IF bluff THEN maker ELSE Other(maker)
           ends  == ~bluff /\ room.hand[maker] = {}
           next  == [room EXCEPT !.hand[loser] = @ \cup room.pile, !.pile = {}, !.by = "none",
                                 !.phase = IF ends THEN "finished" ELSE @]
       IN  /\ room' = next
           /\ piles' = Append(piles, [to |-> loser, count |-> Cardinality(room.pile)])
           /\ Tell((IF ends THEN <<Won(next)>> ELSE <<>>) \o <<Result(room, loser), State(next)>>)
    /\ UNCHANGED <<Page, hasty, matches, drops>>

Burn ==
    /\ room.phase = "playing" /\ room.pile # {}
    /\ \A p \in Players : room.hand[p] # {}
    /\ Moved
    /\ room' = [room EXCEPT !.pile = {}, !.by = "none"]
    /\ Tell(<<State(room')>>)
    /\ UNCHANGED <<Page, piles, hasty, matches, drops>>

\* Passing on last cards confirms the win as well.
Confirm ==
    /\ room.phase = "playing" /\ room.pile # {}
    /\ \E p \in Players : room.hand[p] = {}
    /\ Moved
    /\ room' = [room EXCEPT !.phase = "finished"]
    /\ Tell(<<Won(room'), State(room')>>)
    /\ UNCHANGED <<Page, piles, hasty, matches, drops>>

\* The button of the verdict; a page that is looked at has started its frames.
Return ==
    /\ view.phase = "finished" /\ "me" \notin view.returned
    /\ room.phase = "finished" /\ "me" \notin room.returned
    /\ frames = {}
    /\ room' = [room EXCEPT !.returned = @ \cup {"me"}]
    /\ Tell(<<State(room')>>)
    /\ hasty' = (hasty \/ flights # {} \/ sent # <<>>)
    /\ UNCHANGED <<Page, piles, moves, matches, drops>>

OtherReturns ==
    /\ room.phase = "finished" /\ "other" \notin room.returned
    /\ room' = [room EXCEPT !.returned = @ \cup {"other"}]
    /\ Tell(<<State(room')>>)
    /\ UNCHANGED <<Page, piles, hasty, moves, matches, drops>>

Drop ==
    /\ sent # <<>> /\ drops < MaxDrops
    /\ sent' = Tail(sent)
    /\ drops' = drops + 1
    /\ UNCHANGED <<room, Page, piles, hasty, moves, matches>>

-----------------------------------------------------------------------------
(* The page. *)

Table(v) == v.phase = "playing" \/ (v.phase = "finished" /\ "me" \notin v.returned)

\* An empty list of who has returned is not sent, and the page keeps the one
\* it has: after a rematch, that of the match before.
NewView(msg) ==
    CASE msg.type = "state" -> [phase |-> msg.phase, hand |-> msg.hand, pile |-> msg.pile,
                                returned |-> IF msg.returned = {} THEN view.returned
                                             ELSE msg.returned]
      [] msg.type = "won"   -> [view EXCEPT !.phase = "finished"]
      [] OTHER              -> view

StartsRound(v) == view.phase = "lobby" /\ v.phase = "playing"

Pending(msg) == IF msg.type = "challenge" THEN [to |-> msg.to, count |-> view.pile] ELSE pickup

\* Faulty variant: the whole hand is taken for new.
WholeHand(v) == v.hand
NewCards(v) == v.hand \ view.hand

\* Faulty variant: a pick-up that was shown stays to be shown.
StaysPending(p, done) == p
Cleared(p, done) == IF done THEN NoPickup ELSE p

Frame(kind, count, reveal) == [kind |-> kind, count |-> count, reveal |-> reveal]

\* The cards that a layout pass conceals, each with the flight that shows it.
Incoming(v, p, done) ==
    (IF StartsRound(v) THEN {Frame("deal", Cardinality(v.hand), v.hand)} ELSE {})
      \cup (IF done /\ p.to = "me" /\ p.count > 0 THEN {Frame("pickup", p.count, NewCards(v))} ELSE {})

\* The layer of flights goes with the table; what flies is forgotten by it,
\* but not by the page.  The table goes when the player has returned, and also
\* at the end of a rematch, of which the page has the list of the match before.
Receive ==
    /\ sent # <<>>
    /\ sent' = Tail(sent)
    /\ LET msg  == Head(sent)
           v    == NewView(msg)
           p    == Pending(msg)
           done == p # NoPickup /\ v.pile = 0
           new  == Incoming(v, p, done)
       IN  /\ view' = v
           /\ pickup' = Cleared(p, done)
           /\ shown' = IF done /\ p.count > 0 THEN Append(shown, p) ELSE shown
           /\ frames' = frames \cup {f \in new : f.count > 0}
           /\ concealed' = concealed \cup UNION {f.reveal : f \in new}
           /\ flights' = IF Table(v) THEN flights ELSE {[g EXCEPT !.live = FALSE] : g \in flights}
           /\ hasty' = (hasty \/ (/\ Table(view) /\ ~Table(v) /\ "me" \notin msg.returned
                                  /\ flights # {}))
    /\ UNCHANGED <<room, piles, moves, matches, drops>>

\* Each of the cards to be shown gets a flight, as far as the count goes.
\* Without a table there is nowhere to fly, and the cards are shown.
StartFlights(f) ==
    /\ frames' = frames \ {f}
    /\ IF Table(view) /\ view.hand # {}
         THEN /\ \E R \in SUBSET f.reveal :
                   /\ Cardinality(R) = (IF f.count < Cardinality(f.reveal) THEN f.count
                                        ELSE Cardinality(f.reveal))
                   /\ flights' = flights \cup {[kind |-> f.kind, n |-> Len(shown), card |-> c, live |-> TRUE] : c \in R}
              /\ UNCHANGED concealed
         ELSE concealed' = concealed \ f.reveal /\ UNCHANGED flights
    /\ UNCHANGED <<room, sent, view, pickup, piles, shown, hasty, moves, matches, drops>>

\* Flights that were there when the layer came back do not fly: it shows them
\* at their end (AnimatePresence initial={false}) and nothing completes them.
Land(g) ==
    /\ g.live /\ Table(view)
    /\ flights' = flights \ {g}
    /\ concealed' = concealed \ {g.card}
    /\ UNCHANGED <<room, sent, view, pickup, frames, piles, shown, hasty, moves, matches, drops>>

Next ==
    \/ Deal \/ Burn \/ Confirm \/ Return \/ OtherReturns \/ Drop \/ Receive
    \/ \E p \in Players : \E C \in SUBSET room.hand[p] : Play(p, C)
    \/ \E bluff \in BOOLEAN : Challenge(bluff)
    \/ \E f \in frames : StartFlights(f)
    \/ \E g \in flights : Land(g)

Spec == Init /\ [][Next]_vars

-----------------------------------------------------------------------------
(* Properties. *)

\* When nothing is going to fly or to land any more, every card of the hand is
\* shown and can be chosen; unless the room dropped a message, or the lobby took
\* the place of the table while cards were still to land, because the player
\* went back to it or at the end of a rematch by itself.
AtRest == sent = <<>> /\ frames = {} /\ \A g \in flights : ~(g.live /\ Table(view))
HandIsShown == (AtRest /\ Table(view) /\ ~hasty /\ drops = 0) => Choosable = view.hand

\* The pick-ups the page shows are those of the game, in their order, each to
\* the one who picked up and with as many cards as the pile had.  When the room
\* has dropped messages some are missing and sizes may be wrong, but none is shown
\* twice.
PickupsAreThePiles ==
    IF drops = 0 THEN IsPrefix(shown, piles) ELSE Len(shown) <= Len(piles)
=============================================================================
