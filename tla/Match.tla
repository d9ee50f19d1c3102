------------------------------- MODULE Match -------------------------------
(***************************************************************************)
(* The game engine of one room actor (internal/room/room.go).  The actor   *)
(* handles one inbox message at a time, so an action is one whole handler. *)
(* Its state is the record room; the helpers below are the methods the     *)
(* handlers call, as functions from record to record, composed in the      *)
(* order of the calls.  A rejected message changes nothing and is left     *)
(* out: the guard of an action is what the handler accepts.                *)
(*                                                                         *)
(* A user is online while the actor counts a device of theirs as           *)
(* connected; the controlling device and the turn clock are the business   *)
(* of other modules.  Every message that carries expectedSeq is one sent   *)
(* from the current state: the others are rejected as stale.               *)
(***************************************************************************)
EXTENDS Rules

CONSTANTS
  NoRank,          \* no claimed rank
  NoPlay,          \* no top play
  NoResult,        \* no completed match to record
  ConfigDecks,     \* deck counts a client may ask for
  ConfigWinners,   \* winner targets a client may ask for; 0 is "unset"
  MaxSeats         \* bound: users admitted to the room

ASSUME ConfigAssumption == ConfigDecks \subseteq Nat /\ ConfigWinners \subseteq Nat

VARIABLE room

TopPlay == [player : User, cards : SUBSET Card, claims : Seq(ClaimGroup)]
Result == [players : SUBSET User, winners : SUBSET User]

ASSUME AbsenceAssumption ==
  NoRank \notin Rank /\ NoPlay \notin TopPlay /\ NoResult \notin Result

Room ==
  [phase : {"lobby", "playing", "finished"},
   seats : Seq(User), online : SUBSET User, host : User \cup {NoOne},
   deckCount : 1..MaxDecks, winnerCount : Nat \ {0}, locked : BOOLEAN,
   hands : [User -> SUBSET Card], handCount : [User -> Nat],
   done : SUBSET User, winners : Seq(User), pending : User \cup {NoOne},
   stack : SUBSET Card, stackCount : Nat,
   claimedRank : Rank \cup {NoRank}, topPlay : TopPlay \cup {NoPlay},
   turn : User \cup {NoOne}, skips : Seq(User), ready : SUBSET User,
   result : Result \cup {NoResult}]

NewRoom ==
  [phase |-> "lobby", seats |-> <<>>, online |-> {}, host |-> NoOne,
   deckCount |-> 1, winnerCount |-> 1, locked |-> FALSE,
   hands |-> [p \in User |-> {}], handCount |-> [p \in User |-> 0],
   done |-> {}, winners |-> <<>>, pending |-> NoOne,
   stack |-> {}, stackCount |-> 0, claimedRank |-> NoRank, topPlay |-> NoPlay,
   turn |-> NoOne, skips |-> <<>>, ready |-> {}, result |-> NoResult]

Init == room = NewRoom

----------------------------------------------------------------------------
(* Who may do what. *)

\* The sender holds a seat and their connection is the controlling one.
IsController(p) == p \in Seated(room) /\ p \in room.online

CanAct(p) == IsController(p) /\ p \notin room.done

RequireHostController(p) ==
  /\ IsController(p)
  /\ p \in room.done => room.phase = "finished"
  /\ room.host = p

OnTurn(p) == room.phase = "playing" /\ CanAct(p) /\ room.turn = p

ResultsLobbyReady == Seated(room) \cap room.online \subseteq room.ready

----------------------------------------------------------------------------
(* The methods of the room that several handlers share. *)

SetCurrentTurn(s, p) == [s EXCEPT !.turn = p]

\* Faulty variant: the public stack count survives the round.
ClearRoundKeepsCount(s) ==
  [s EXCEPT !.stack = {}, !.claimedRank = NoRank, !.topPlay = NoPlay,
            !.skips = <<>>]

ClearRound(s) ==
  [s EXCEPT !.stack = {}, !.stackCount = 0, !.claimedRank = NoRank,
            !.topPlay = NoPlay, !.skips = <<>>]

\* Faulty variant: the match ends without being recorded.
FinishUnrecorded(s) == [SetCurrentTurn(s, NoOne) EXCEPT !.phase = "finished"]

\* The match is over: its seated players are recorded with their outcome.
FinishMatch(s) ==
  [SetCurrentTurn(s, NoOne) EXCEPT
     !.phase = "finished",
     !.result = [players |-> Seated(s), winners |-> s.done \cap Seated(s)]]

MaybeEndGame(s) ==
  IF s.phase = "playing" /\ ShouldEndGame(s) THEN FinishMatch(s) ELSE s

ConfirmPendingFinish(s) ==
  LET p == s.pending
      cleared == [s EXCEPT !.pending = NoOne]
      won == [cleared EXCEPT !.done = @ \cup {p}, !.winners = Append(@, p)]
      confirmed == p \in Seated(s) /\ s.handCount[p] = 0 /\ p \notin s.done
  IN  IF ~confirmed THEN cleared
      ELSE IF ShouldEndGame(won) THEN FinishMatch(won) ELSE won

PendingFinishIsTopPlay(s) ==
  /\ s.pending # NoOne
  /\ s.topPlay # NoPlay
  /\ s.pending = s.topPlay.player

\* Faulty variant: the maker of the top play need not skip.
OpponentsOnly(s) == Rotation(s) \ {s.topPlay.player}

\* Everyone who must skip before the stack burns.
RequiredSkippers(s) ==
  IF PendingFinishIsTopPlay(s) THEN Rotation(s) ELSE ActivePlayers(s)

SkipRequirementsMet(s) ==
  /\ s.topPlay # NoPlay
  /\ s.stackCount # 0
  /\ RequiredSkippers(s) # {}
  /\ RequiredSkippers(s) \subseteq Range(s.skips)

RecordSkip(s, p) ==
  IF p \in Range(s.skips) THEN s ELSE [s EXCEPT !.skips = Append(@, p)]

LastSkipper(s, fallback) ==
  IF s.skips = <<>> THEN fallback ELSE Last(s.skips)

\* All required players skipped: the stack burns, a pending finish is
\* confirmed, and the player after the last skipper opens the next round.
ResolveAllPass(s, fallback) ==
  LET t == IF PendingFinishIsTopPlay(s) THEN ConfirmPendingFinish(s) ELSE s
      starter == GetNextPlayerID(t, LastSkipper(t, fallback))
  IN  IF t.phase # "playing" THEN [t EXCEPT !.skips = <<>>]
      ELSE SetCurrentTurn(ClearRound(t), starter)

ReconcileSkipProgression(s) ==
  IF SkipRequirementsMet(s) THEN ResolveAllPass(s, s.turn) ELSE s

ApplySkip(s, p) ==
  IF s.topPlay = NoPlay \/ s.stackCount = 0
  THEN MaybeEndGame(SetCurrentTurn([s EXCEPT !.skips = <<>>],
                                   GetNextPlayerID(s, p)))
  ELSE LET t == IF p \in Rotation(s) THEN RecordSkip(s, p) ELSE s
       IN  MaybeEndGame(IF SkipRequirementsMet(t)
                        THEN ResolveAllPass(t, p)
                        ELSE SetCurrentTurn(t, GetNextPlayerID(t, p)))

----------------------------------------------------------------------------
(* Presence: joining, losing the last device, leaving, server restart. *)

\* A seated user comes back, in any phase.
Reconnect(p) ==
  /\ p \in Seated(room)
  /\ room' = [room EXCEPT !.online = @ \cup {p}]

\* A new seat, only in the lobby.  The first user becomes host and may bring
\* a configuration, limited as for two players.
Seat(p, decks, winners) ==
  /\ room.phase = "lobby"
  /\ p \notin Seated(room)
  /\ Len(room.seats) < MaxSeats
  /\ LET first == room.seats = <<>>
         configured == first /\ (decks # 0 \/ winners # 0)
     IN  room' = [room EXCEPT
           !.seats = Append(@, p),
           !.online = @ \cup {p},
           !.host = IF first THEN p ELSE @,
           !.deckCount = IF configured THEN ClampDecks(decks) ELSE @,
           !.winnerCount = IF configured THEN ClampWinners(winners, 2) ELSE @]

\* The first online seat, or the fallback when there is none.
FirstOnline(s, fallback) ==
  LET here == {i \in DOMAIN s.seats : s.seats[i] \in s.online}
  IN  IF here = {} THEN fallback ELSE s.seats[Min(here)]

Disconnect(p) ==
  /\ p \in Seated(room)
  /\ p \in room.online
  /\ LET s == [room EXCEPT !.online = @ \ {p}]
     IN  room' = IF s.phase = "lobby" /\ s.host = p
                 THEN [s EXCEPT !.host = FirstOnline(s, p)] ELSE s

\* Faulty variant: the seat goes but the presence mark stays.
RemoveSeatOnly(s, p) ==
  [s EXCEPT !.seats = RemoveAt(@, SeatOf(s, p)), !.handCount[p] = 0]

\* The seat and everything the player record holds go away; the hand and the
\* results-lobby mark go after the match has settled without the player.
RemoveSeat(s, p) ==
  [s EXCEPT !.seats = RemoveAt(@, SeatOf(s, p)), !.online = @ \ {p},
            !.done = @ \ {p}, !.handCount[p] = 0]

\* Faulty variant: the hand of the leaver is kept.
ClearReadyOnly(s, p) == [s EXCEPT !.ready = @ \ {p}]

ClearPlayerRuntime(s, p) ==
  [s EXCEPT !.hands[p] = {}, !.ready = @ \ {p}]

\* Faulty variant: a leaving host stays host.
KeepHost(s, p) == s

\* A leaving host hands over to the first remaining seat.
TransferHost(s, p) ==
  IF s.host = p /\ s.seats # <<>> THEN [s EXCEPT !.host = Head(s.seats)] ELSE s

LeaveRoom(p) ==
  /\ IsController(p)
  /\ LET passed == IF room.phase = "playing" /\ room.turn = p
                   THEN ApplySkip(room, p) ELSE room
         gone == RemoveSeat(passed, p)
         settled == IF gone.phase = "playing"
                    THEN MaybeEndGame(ReconcileSkipProgression(gone))
                    ELSE gone
     IN  room' = TransferHost(ClearPlayerRuntime(settled, p), p)

\* The process stops and restores the room from its last snapshot: nobody is
\* connected, and a finish that a later play covered is confirmed.
Restart ==
  LET s == IF room.pending # NoOne /\ room.topPlay # NoPlay
                /\ ~PendingFinishIsTopPlay(room)
           THEN ConfirmPendingFinish(room) ELSE room
  IN  room' = [s EXCEPT !.online = {}]

----------------------------------------------------------------------------
(* The host's and the lobby's operations. *)

SetConfig(p, decks, winners) ==
  /\ RequireHostController(p)
  /\ room.phase = "lobby"
  /\ room.locked => winners = room.winnerCount
  /\ room' = [room EXCEPT
       !.deckCount = ClampDecks(decks),
       !.winnerCount = IF room.locked THEN @
                       ELSE ClampWinners(winners, Len(room.seats))]

\* Faulty variant: the reset forgets the lock and the results of the match.
ResetStillLocked(p) ==
  /\ RequireHostController(p)
  /\ room.phase # "finished"
  /\ room' = [ClearRound(SetCurrentTurn(room, NoOne)) EXCEPT
       !.phase = "lobby", !.hands = [q \in User |-> {}],
       !.handCount = [q \in User |-> 0]]

ResetToLobby(p) ==
  /\ RequireHostController(p)
  /\ room.phase # "finished"
  /\ room' = [ClearRound(SetCurrentTurn(room, NoOne)) EXCEPT
       !.phase = "lobby", !.locked = FALSE, !.ready = {},
       !.winners = <<>>, !.done = {}, !.pending = NoOne,
       !.hands = [q \in User |-> {}], !.handCount = [q \in User |-> 0],
       !.result = NoResult]

ReturnToLobby(p) ==
  /\ IsController(p)
  /\ room.phase = "finished"
  /\ room' = [room EXCEPT !.ready = @ \cup {p}]

StartGame(p) ==
  /\ RequireHostController(p)
  /\ Len(room.seats) >= 2
  /\ room.phase \in {"lobby", "finished"}
  /\ room.phase = "finished" => ResultsLobbyReady
  /\ Len(room.seats) <= Cardinality(Face) * room.deckCount
  /\ room.locked => room.winnerCount \in 1..(Len(room.seats) - 1)
  /\ \E owner \in Deals(room) : \E opener \in Openers(room, owner) :
       room' = [SetCurrentTurn(ClearRound(room), opener) EXCEPT
         !.phase = "playing", !.locked = TRUE, !.ready = {},
         !.winnerCount = IF room.locked THEN @
                         ELSE ClampWinners(@, Len(room.seats)),
         !.winners = <<>>, !.done = {}, !.pending = NoOne,
         !.hands = [q \in User |-> DealtTo(owner, q)],
         !.handCount = [q \in User |-> Cardinality(DealtTo(owner, q))],
         !.result = NoResult]

----------------------------------------------------------------------------
(* The three moves, and the clock's. *)

\* What a play of n cards may declare: anything well formed when it opens a
\* round, the round's rank otherwise.
PlayableClaims(s, n) ==
  IF s.stackCount = 0 THEN OpeningClaims(n)
  ELSE IF s.claimedRank = NoRank THEN {}
  ELSE {<<[rank |-> s.claimedRank, count |-> n]>>}

\* Faulty variant: a new play does not void the skips before it.
PlaceKeepingSkips(s, p, cards, claims) ==
  LET hand == s.hands[p] \ cards
  IN  [s EXCEPT
        !.hands[p] = hand, !.handCount[p] = Cardinality(hand),
        !.stack = @ \cup cards, !.stackCount = @ + Cardinality(cards),
        !.claimedRank = FinalRank(claims),
        !.topPlay = [player |-> p, cards |-> cards, claims |-> claims]]

PlaceCards(s, p, cards, claims) ==
  LET hand == s.hands[p] \ cards
  IN  [s EXCEPT
        !.hands[p] = hand, !.handCount[p] = Cardinality(hand),
        !.stack = @ \cup cards, !.stackCount = @ + Cardinality(cards),
        !.claimedRank = FinalRank(claims),
        !.topPlay = [player |-> p, cards |-> cards, claims |-> claims],
        !.skips = <<>>]

\* Faulty variant: the play that empties the hand is confirmed on the spot.
SettleAtOnce(s, p, covers) ==
  IF s.handCount[p] = 0 THEN ConfirmPendingFinish([s EXCEPT !.pending = p])
  ELSE IF covers THEN ConfirmPendingFinish(s) ELSE s

\* A play that covers a pending finish confirms it; then, if the match goes
\* on and the player's own hand is empty, their finish is pending.
SettleFinishes(s, p, covers) ==
  LET t == IF covers THEN ConfirmPendingFinish(s) ELSE s
  IN  IF t.phase = "playing" /\ t.handCount[p] = 0
      THEN [t EXCEPT !.pending = p] ELSE t

PlayCards(p, cards, claims) ==
  /\ OnTurn(p)
  /\ cards # {}
  /\ LET placed == PlaceCards(room, p, cards, claims)
         settled == SettleFinishes(placed, p, PendingFinishIsTopPlay(room))
     IN  room' = IF settled.phase = "playing"
                 THEN SetCurrentTurn(settled, GetNextPlayerID(settled, p))
                 ELSE settled

\* Faulty variant: the loser takes the top play and the rest is thrown away.
PickUpTopPlay(s, loser) ==
  LET hand == s.hands[loser] \cup s.topPlay.cards
  IN  ClearRound([s EXCEPT !.hands[loser] = hand,
                           !.handCount[loser] = Cardinality(hand)])

\* Faulty variant: the loser takes a copy, the stack stays on the table.
PickUpCopy(s, loser) ==
  LET hand == s.hands[loser] \cup s.stack
  IN  [s EXCEPT !.hands[loser] = hand, !.handCount[loser] = Cardinality(hand)]

\* Faulty variant: the public count of the loser's hand is not refreshed.
PickUpUncounted(s, loser) ==
  ClearRound([s EXCEPT !.hands[loser] = @ \cup s.stack])

\* The loser of a challenge takes the whole stack.
PickUpStack(s, loser) ==
  LET hand == s.hands[loser] \cup s.stack
  IN  ClearRound([s EXCEPT !.hands[loser] = hand,
                           !.handCount[loser] = Cardinality(hand)])

\* Faulty variant: a caught finisher stays pending.
JudgeLeniently(s, wasBluff) == IF wasBluff THEN s ELSE ConfirmPendingFinish(s)

\* A challenged finish is void when it was a bluff and confirmed otherwise.
JudgeFinish(s, wasBluff) ==
  IF wasBluff THEN [s EXCEPT !.pending = NoOne] ELSE ConfirmPendingFinish(s)

Challenge(p) ==
  /\ OnTurn(p)
  /\ room.stackCount # 0
  /\ room.topPlay # NoPlay
  /\ room.topPlay.player # p
  /\ room.topPlay.player \in ActivePlayers(room)
  /\ LET maker == room.topPlay.player
         wasBluff == IsClaimBluff(room.topPlay.cards, room.topPlay.claims)
         taken == PickUpStack(room, IF wasBluff THEN maker ELSE p)
         judged == IF room.pending = maker THEN JudgeFinish(taken, wasBluff)
                   ELSE taken
         starter == IF wasBluff THEN p
                    ELSE IF maker \in ActivePlayers(judged) THEN maker
                    ELSE GetNextPlayerID(judged, maker)
     IN  room' = MaybeEndGame(IF judged.phase = "playing"
                              THEN SetCurrentTurn(judged, starter)
                              ELSE judged)

Skip(p) ==
  /\ OnTurn(p)
  /\ room' = ApplySkip(room, p)

\* The expiry message of the current turn.
TurnTimerExpired ==
  /\ room.phase = "playing"
  /\ room.turn # NoOne
  /\ room' = ApplySkip(room, room.turn)

----------------------------------------------------------------------------

Next ==
  \/ \E p \in User : \/ Reconnect(p) \/ Disconnect(p) \/ LeaveRoom(p)
                     \/ ResetToLobby(p) \/ ReturnToLobby(p) \/ StartGame(p)
                     \/ Challenge(p) \/ Skip(p)
  \/ \E p \in User, decks \in ConfigDecks, winners \in ConfigWinners :
       Seat(p, decks, winners) \/ SetConfig(p, decks, winners)
  \/ \E p \in User : \E cards \in SUBSET room.hands[p] :
       \E claims \in PlayableClaims(room, Cardinality(cards)) :
         PlayCards(p, cards, claims)
  \/ Restart
  \/ TurnTimerExpired

Spec == Init /\ [][Next]_room

----------------------------------------------------------------------------
(* Invariants. *)

IsInjectiveSeq(q) == \A i, j \in DOMAIN q : q[i] = q[j] => i = j

\* A record of the room's type in which no user has two seats and only seated
\* users are online or finished.
WellTyped(s) ==
  /\ s \in Room
  /\ IsInjectiveSeq(s.seats)
  /\ s.online \subseteq Seated(s)
  /\ s.done \subseteq Seated(s)

\* Type invariant: the room is well typed and only seated users are marked as
\* back in the results lobby; leaving takes every mark of the player away.
TypeOK == WellTyped(room) /\ room.ready \subseteq Seated(room)

\* Exactly while a match is played somebody is on turn, and it is a seated
\* player who can still act: no leave, burn, finish or restart strands the turn.
TurnIsPlayable ==
  IF room.phase = "playing" THEN room.turn \in Rotation(room)
                            ELSE room.turn = NoOne

\* The skips counted towards a burn are of different players, follow a play,
\* and never include the player on turn: nobody is counted for a skip that an
\* earlier play made void.  So passing on the player on turn, by their skip or
\* by the clock, really passes the turn on: whatever burn, confirmation or end
\* of match comes with it, it is not the same player's turn again.
SkipPassesTheTurn ==
  room.phase = "playing" =>
    /\ IsInjectiveSeq(room.skips)
    /\ room.turn \notin Range(room.skips)
    /\ room.topPlay = NoPlay => room.skips = <<>>
    /\ ApplySkip(room, room.turn).turn # room.turn

\* A finish awaits confirmation exactly as long as its cards are the top play,
\* and every seated player with an empty hand is either confirmed or awaiting;
\* when a match ends with a finish still unconfirmed, that player has left.
FinishIsAccounted ==
  /\ room.phase = "playing" =>
       \A p \in ActivePlayers(room) : room.handCount[p] = 0 <=> room.pending = p
  /\ room.pending # NoOne =>
       /\ room.topPlay # NoPlay
       /\ room.topPlay.player = room.pending
       /\ room.pending \notin room.done
       /\ room.phase = "finished" => room.pending \notin Seated(room)

\* No card is in two places: hands are disjoint, the stack holds no card of a
\* hand, the top play is part of the stack and only seated players hold cards.
CardCustody ==
  /\ \A p, q \in User : p # q => room.hands[p] \cap room.hands[q] = {}
  /\ \A p \in User : room.hands[p] \cap room.stack = {}
  /\ \A p \in User \ Seated(room) : room.hands[p] = {}
  /\ room.topPlay # NoPlay => room.topPlay.cards \subseteq room.stack

\* The public counts every client sees agree with the private cards, and a
\* stack always has a top play and a rank to follow.
CountsAgree ==
  /\ \A p \in User : room.handCount[p] = Cardinality(room.hands[p])
  /\ room.stackCount = Cardinality(room.stack)
  /\ room.stackCount = 0 <=> room.topPlay = NoPlay
  /\ room.stackCount = 0 <=> room.claimedRank = NoRank

\* The finishing order has nobody twice, agrees with the winner flags, stays
\* below the target while the match is played and never passes it.  A match is
\* recorded once it is finished and not before, with winners out of that order.
WinnersAgree ==
  /\ IsInjectiveSeq(room.winners)
  /\ room.done = Range(room.winners) \cap Seated(room)
  /\ Len(room.winners) <= room.winnerCount
  /\ room.phase = "playing" =>
       /\ Len(room.winners) < room.winnerCount
       /\ Cardinality(ActivePlayers(room)) >= 2
  /\ room.phase = "finished" <=> room.result # NoResult
  /\ room.phase = "finished" => room.result.winners \subseteq Range(room.winners)

\* A room with players always has one of them as host.
HostIsSeated == room.seats # <<>> => room.host \in Seated(room)

\* The lobby carries nothing over from a match: no cards, winners, pending
\* finish or results marks, and the winner target is open again.
LobbyIsClean ==
  room.phase = "lobby" =>
    /\ \A p \in User : room.hands[p] = {}
    /\ room.stack = {} /\ room.winners = <<>> /\ room.pending = NoOne
    /\ room.ready = {} /\ ~room.locked /\ room.skips = <<>>

----------------------------------------------------------------------------
(* Action properties. *)

\* A match goes on, or ends, in this step.
MatchStep == room.phase = "playing" /\ room'.phase # "lobby"

\* Within a match the finishing order only grows, by one player at a time, and
\* only by the player who was already awaiting confirmation before the step:
\* nobody wins in the step that empties their hand.
WinsAreConfirmedLater ==
  [][MatchStep =>
       \/ room'.winners = room.winners
       \/ /\ room.pending # NoOne
          /\ room'.winners = Append(room.winners, room.pending)]_room

\* The cards in play never grow within a match, and a card only changes hands
\* by way of the stack: what a hand gains was on the stack, and then the whole
\* stack goes to that one hand.
CardsMoveByTheStack ==
  [][MatchStep =>
       \A p \in User : ~(room'.hands[p] \subseteq room.hands[p]) =>
         /\ room'.hands[p] = room.hands[p] \cup room.stack
         /\ room'.stack = {} /\ room'.stackCount = 0
         /\ \A q \in User \ {p} : room'.hands[q] = room.hands[q]]_room

\* The cards of a play are what it declares when they can be laid out in the
\* declared groups, each group of its size and its rank.
IsHonest(play) ==
  \E group \in [play.cards -> DOMAIN play.claims] :
    /\ \A c \in play.cards : CardRank(c) = play.claims[group[c]].rank
    /\ \A i \in DOMAIN play.claims :
          Cardinality({c \in play.cards : group[c] = i}) = play.claims[i].count

\* A challenge costs the right player: the maker of the top play gains the
\* stack only for a play that was not what it declared, the challenger only
\* for one that was.
LiarsPay ==
  [][MatchStep =>
       \A p \in User : ~(room'.hands[p] \subseteq room.hands[p]) =>
         IF IsHonest(room.topPlay) THEN p = room.turn
                                   ELSE p = room.topPlay.player]_room

\* The cards of the stack disappear while the match goes on only when every
\* player still in rotation has skipped since the last play; the player on
\* turn in the step counts, and a leaver does not.
BurnNeedsAllSkips ==
  [][(/\ MatchStep /\ room'.phase = "playing"
      /\ room.stack # {} /\ room'.stack = {}
      /\ room'.hands = [p \in User |-> IF p \in Seated(room')
                                       THEN room.hands[p] ELSE {}])
     => Rotation(room) \cap Seated(room')
          \subseteq Range(room.skips) \cup {room.turn}]_room

----------------------------------------------------------------------------
(* What the documents say of the game and the code does not do. *)

\* README rule 6: a win is confirmed once the final cards survive the turn of
\* the next player.  In the code it takes a covering play, a failed challenge
\* or a skip of every player in rotation (resolveAllPass).
WinConfirmedAfterNextTurn ==
  [][(/\ MatchStep
      /\ room.pending \in Seated(room) /\ room.pending \in Seated(room')
      /\ room'.turn # room.turn)
     => room'.pending # room.pending]_room

\* The results lobby offers the host a start button once every connected
\* player came back; then the start is not refused for the locked target.
ReadyResultsCanRestart ==
  (/\ room.phase = "finished" /\ Len(room.seats) >= 2
   /\ room.host \in room.online /\ ResultsLobbyReady)
  => room.winnerCount \in 1..(Len(room.seats) - 1)
=============================================================================
