----------------------------- MODULE MoveProofs -----------------------------
(***************************************************************************)
(* Theorems about the steps of a match for every value of the constants of *)
(* Match: who wins when, how cards move, whom a challenge costs, and when  *)
(* the stack burns.  These are action properties: a step is followed       *)
(* through the calls of its handler, from a state in which the invariants  *)
(* of TurnProofs hold.                                                     *)
(***************************************************************************)
EXTENDS TurnProofs

----------------------------------------------------------------------------
(* The finishing order. *)

\* The only winner to come is the pending one, and once confirmed or voided
\* nobody is pending any more.
WinsInOrder(s, t) ==
  \/ t.winners = s.winners /\ t.pending \in {s.pending, NoOne}
  \/ /\ s.pending # NoOne
     /\ t.winners = Append(s.winners, s.pending) /\ t.pending = NoOne

\* The part of it that a whole step can be held to: the player whose hand
\* became empty in the step is pending after it.
WinsOnce(s, t) ==
  \/ t.winners = s.winners
  \/ s.pending # NoOne /\ t.winners = Append(s.winners, s.pending)

LEMMA InOrderTwice ==
  ASSUME NEW r, NEW s, NEW t, WinsInOrder(r, s), WinsInOrder(s, t)
  PROVE  WinsInOrder(r, t)
BY DEF WinsInOrder

LEMMA InOrderOnce ==
  ASSUME NEW s, NEW t, WinsInOrder(s, t)
  PROVE  WinsOnce(s, t)
BY DEF WinsInOrder, WinsOnce

LEMMA SameWinsInOrder ==
  ASSUME NEW s, NEW t, t.winners = s.winners, t.pending = s.pending
  PROVE  WinsInOrder(s, t)
BY DEF WinsInOrder

LEMMA SetCurrentTurnWins ==
  ASSUME NEW s, WellTyped(s), NEW p
  PROVE  WinsInOrder(s, SetCurrentTurn(s, p))
BY DEF WellTyped, Room, SetCurrentTurn, WinsInOrder

LEMMA ClearRoundWins ==
  ASSUME NEW s, WellTyped(s)
  PROVE  WinsInOrder(s, ClearRound(s))
BY DEF WellTyped, Room, ClearRound, WinsInOrder

LEMMA NoSkipsWins ==
  ASSUME NEW s, WellTyped(s)
  PROVE  WinsInOrder(s, [s EXCEPT !.skips = <<>>])
BY DEF WellTyped, Room, WinsInOrder

LEMMA MaybeEndGameWins ==
  ASSUME NEW s, WellTyped(s)
  PROVE  WinsInOrder(s, MaybeEndGame(s))
<1>1. WinsInOrder(s, FinishMatch(s))
  BY FinishMatchFields DEF SameScore, WinsInOrder
<1>2. WinsInOrder(s, s)
  BY DEF WinsInOrder
<1> QED BY <1>1, <1>2 DEF MaybeEndGame

LEMMA ConfirmPendingFinishWins ==
  ASSUME NEW s, WellTyped(s)
  PROVE  WinsInOrder(s, ConfirmPendingFinish(s))
<1>1. WinsInOrder(s, Cleared(s))
  BY ClearedFields DEF WinsInOrder
<1>2. ASSUME MayConfirm(s)
      PROVE  /\ WinsInOrder(s, Won(s))
             /\ WinsInOrder(s, FinishMatch(Won(s)))
  <2>1. s.pending # NoOne
    BY <1>2, TableOfRoom DEF MayConfirm
  <2>2. /\ WellTyped(Won(s)) /\ Won(s).pending = NoOne
        /\ Won(s).winners = Append(s.winners, s.pending)
    BY <1>2, WonFields
  <2>3. SameScore(Won(s), FinishMatch(Won(s)))
    BY <2>2, FinishMatchFields
  <2> QED BY <2>1, <2>2, <2>3 DEF SameScore, WinsInOrder
<1> QED BY <1>1, <1>2, ConfirmIs

LEMMA ResolveAllPassWins ==
  ASSUME NEW s, WellTyped(s), NEW p \in User \cup {NoOne}
  PROVE  WinsInOrder(s, ResolveAllPass(s, p))
<1> DEFINE t == IF PendingFinishIsTopPlay(s) THEN ConfirmPendingFinish(s) ELSE s
           starter == GetNextPlayerID(t, LastSkipper(t, p))
           cleared == ClearRound(t)
<1>1. WellTyped(t) /\ WinsInOrder(s, t)
  BY ConfirmPendingFinishKeeps, ConfirmPendingFinishWins
     DEF KeepsTable, WinsInOrder
<1> HIDE DEF t
<1>2. WinsInOrder(t, [t EXCEPT !.skips = <<>>])
  BY <1>1, NoSkipsWins
<1>3. WinsInOrder(t, SetCurrentTurn(cleared, starter))
  <2>1. WellTyped(cleared) /\ WinsInOrder(t, cleared)
    BY <1>1, ClearRoundKeeps, ClearRoundWins DEF KeepsTable
  <2> HIDE DEF cleared
  <2>2. WinsInOrder(cleared, SetCurrentTurn(cleared, starter))
    BY <2>1, SetCurrentTurnWins
  <2> QED BY <2>1, <2>2, InOrderTwice
<1>4. \/ ResolveAllPass(s, p) = [t EXCEPT !.skips = <<>>]
      \/ ResolveAllPass(s, p) = SetCurrentTurn(cleared, starter)
  BY DEF ResolveAllPass, t
<1> QED BY <1>1, <1>2, <1>3, <1>4, InOrderTwice

LEMMA ReconcileWins ==
  ASSUME NEW s, WellTyped(s)
  PROVE  WinsInOrder(s, ReconcileSkipProgression(s))
<1>1. s.turn \in User \cup {NoOne}
  BY DEF WellTyped, Room
<1>2. WinsInOrder(s, ResolveAllPass(s, s.turn))
  BY <1>1, ResolveAllPassWins
<1> QED BY <1>2 DEF ReconcileSkipProgression, WinsInOrder

LEMMA ApplySkipWins ==
  ASSUME NEW s, WellTyped(s), NEW p \in User
  PROVE  WinsInOrder(s, ApplySkip(s, p))
<1> DEFINE bare == [s EXCEPT !.skips = <<>>]
           t == IF p \in Rotation(s) THEN RecordSkip(s, p) ELSE s
           moved == IF SkipRequirementsMet(t) THEN ResolveAllPass(t, p)
                    ELSE SetCurrentTurn(t, GetNextPlayerID(t, p))
           idle == SetCurrentTurn(bare, GetNextPlayerID(s, p))
<1>1. WinsInOrder(s, MaybeEndGame(idle))
  <2>1. WellTyped(bare) /\ WinsInOrder(s, bare)
    BY NoSkipsKeeps, NoSkipsWins DEF KeepsTable
  <2> HIDE DEF bare
  <2>2. WellTyped(idle) /\ WinsInOrder(bare, idle)
    BY <2>1, NextPlayerIsUser, SetCurrentTurnKeeps, SetCurrentTurnWins
       DEF KeepsTable
  <2> HIDE DEF idle
  <2>3. WinsInOrder(idle, MaybeEndGame(idle))
    BY <2>2, MaybeEndGameWins
  <2> QED BY <2>1, <2>2, <2>3, InOrderTwice
<1>2. WinsInOrder(s, MaybeEndGame(moved))
  <2>1. WellTyped(t) /\ WinsInOrder(s, t)
    BY RecordSkipKeeps
       DEF KeepsTable, WellTyped, Room, WinsInOrder, RecordSkip
  <2> HIDE DEF t
  <2>2. WellTyped(moved) /\ WinsInOrder(t, moved)
    BY <2>1, NextPlayerIsUser, SetCurrentTurnKeeps, SetCurrentTurnWins,
       ResolveAllPassKeeps, ResolveAllPassWins DEF KeepsTable
  <2> HIDE DEF moved
  <2>3. WinsInOrder(moved, MaybeEndGame(moved))
    BY <2>2, MaybeEndGameWins
  <2> QED BY <2>1, <2>2, <2>3, InOrderTwice
<1>3. \/ ApplySkip(s, p) = MaybeEndGame(idle)
      \/ ApplySkip(s, p) = MaybeEndGame(moved)
  BY DEF ApplySkip
<1> QED BY <1>1, <1>2, <1>3

\* The steps after a departure, of the seat, the hand and the host, are no
\* business of the finishing order.
LEMMA LeaveRoomWins ==
  ASSUME TypeOK, NEW p \in User, LeaveRoom(p)
  PROVE  WinsInOrder(room, room')
<1> DEFINE passed == IF room.phase = "playing" /\ room.turn = p
                     THEN ApplySkip(room, p) ELSE room
           gone == RemoveSeat(passed, p)
           settled == IF gone.phase = "playing"
                      THEN MaybeEndGame(ReconcileSkipProgression(gone))
                      ELSE gone
           cleared == ClearPlayerRuntime(settled, p)
           t == TransferHost(cleared, p)
<1>1. WellTyped(room) /\ p \in Seated(room) /\ room' = t
  BY DEF TypeOK, LeaveRoom, IsController
<1>2. /\ WellTyped(passed) /\ WellTyped(gone)
      /\ WellTyped(settled) /\ WellTyped(cleared)
  BY <1>1, LeaveChain
<1>3. p \in Seated(passed)
  BY <1>1, ApplySkipKeeps DEF KeepsTable, SameTable, Seated
<1>4. WinsInOrder(room, passed)
  BY <1>1, ApplySkipWins, SameWinsInOrder
<1> HIDE DEF passed
<1>5. WinsInOrder(passed, gone)
  BY <1>2, <1>3, RemoveSeatLeaves, SameWinsInOrder
<1> HIDE DEF gone
<1>6. WinsInOrder(gone, settled)
  <2> DEFINE r == ReconcileSkipProgression(gone)
  <2>1. WellTyped(r) /\ WinsInOrder(gone, r)
    BY <1>2, ReconcileKeeps, ReconcileWins DEF KeepsTable
  <2> HIDE DEF r
  <2>2. WinsInOrder(r, MaybeEndGame(r))
    BY <2>1, MaybeEndGameWins
  <2>3. WinsInOrder(gone, MaybeEndGame(r)) /\ WinsInOrder(gone, gone)
    BY <2>1, <2>2, InOrderTwice, SameWinsInOrder
  <2> QED BY <2>3 DEF r
<1> HIDE DEF settled
<1>7. WinsInOrder(settled, cleared)
  BY <1>2, ClearPlayerRuntimeLeaves, SameWinsInOrder
<1> HIDE DEF cleared
<1>8. WinsInOrder(cleared, t)
  BY <1>2, TransferHostLeaves, SameWinsInOrder
<1> QED BY <1>1, <1>4, <1>5, <1>6, <1>7, <1>8, InOrderTwice

\* A play confirms the finish it covers; its own becomes pending only.
LEMMA PlayCardsWins ==
  ASSUME TypeOK, NEW p \in User, NEW cards \in SUBSET room.hands[p],
         NEW claims \in PlayableClaims(room, Cardinality(cards)),
         PlayCards(p, cards, claims)
  PROVE  WinsOnce(room, room')
<1> DEFINE placed == PlaceCards(room, p, cards, claims)
           covers == PendingFinishIsTopPlay(room)
           t == IF covers THEN ConfirmPendingFinish(placed) ELSE placed
           settled == SettleFinishes(placed, p, covers)
           next == GetNextPlayerID(settled, p)
<1>1. /\ WellTyped(room) /\ cards # {}
      /\ room' = IF settled.phase = "playing"
                 THEN SetCurrentTurn(settled, next) ELSE settled
  BY DEF TypeOK, PlayCards
<1>2. /\ WellTyped(placed) /\ WinsInOrder(room, placed)
  BY <1>1, PlaceCardsFields, SameWinsInOrder
<1> HIDE DEF placed
<1>3. WellTyped(t) /\ WinsInOrder(placed, t)
  BY <1>2, ConfirmPendingFinishKeeps, ConfirmPendingFinishWins, SameWinsInOrder
     DEF KeepsTable
<1>4. WellTyped(settled)
  BY <1>2, SettleFinishesKeeps DEF KeepsTable
<1>5. settled.winners = t.winners
  <2>1. [t EXCEPT !.pending = p].winners = t.winners
    BY <1>3 DEF WellTyped, Room
  <2> QED BY <2>1 DEF SettleFinishes
<1>6. WinsOnce(room, t)
  BY <1>2, <1>3, InOrderTwice, InOrderOnce
<1> HIDE DEF settled, t
<1>7. SetCurrentTurn(settled, next).winners = settled.winners
  BY <1>4 DEF WellTyped, Room, SetCurrentTurn
<1> QED BY <1>1, <1>5, <1>6, <1>7 DEF WinsOnce

\* What a challenge does: the loser takes the stack, and a finish that is
\* judged by it is the pending one.
LEMMA ChallengeMoves ==
  ASSUME TypeOK, NEW p \in User, Challenge(p),
         NEW loser, loser = IF IsClaimBluff(room.topPlay.cards, room.topPlay.claims)
                            THEN room.topPlay.player ELSE p
  PROVE  /\ loser \in Seated(room) /\ loser \in User
         /\ WinsOnce(room, room')
         /\ room'.seats = room.seats
         /\ room'.hands = [room.hands EXCEPT ![loser] = @ \cup room.stack]
         /\ NoPile(room')
<1> DEFINE maker == room.topPlay.player
           wasBluff == IsClaimBluff(room.topPlay.cards, room.topPlay.claims)
           taken == PickUpStack(room, loser)
           judged == IF room.pending = maker THEN JudgeFinish(taken, wasBluff)
                     ELSE taken
           starter == IF wasBluff THEN p
                      ELSE IF maker \in ActivePlayers(judged) THEN maker
                      ELSE GetNextPlayerID(judged, maker)
           moved == IF judged.phase = "playing"
                    THEN SetCurrentTurn(judged, starter) ELSE judged
           t == MaybeEndGame(moved)
<1>1. WellTyped(room) /\ room' = t /\ loser = IF wasBluff THEN maker ELSE p
  BY DEF TypeOK, Challenge
<1>2. maker \in User /\ loser \in Seated(room) /\ loser \in User
  <2>1. maker \in User
    BY <1>1 DEF Challenge, WellTyped, Room, TopPlay
  <2>2. p \in Seated(room) /\ maker \in Seated(room)
    BY DEF Challenge, OnTurn, CanAct, IsController, ActivePlayers, Rotation
  <2> QED BY <1>1, <2>1, <2>2
<1> HIDE DEF maker, wasBluff
<1>3. /\ WellTyped(taken) /\ NoPile(taken) /\ WinsInOrder(room, taken)
      /\ taken.hands = [room.hands EXCEPT ![loser] = @ \cup room.stack]
      /\ taken.seats = room.seats
  <2>1. WellTyped(taken)
    BY <1>1, <1>2, PickUpStackTyped
  <2>2. /\ NoPile(taken) /\ WinsInOrder(room, taken)
        /\ taken.hands =
             [room.hands EXCEPT ![loser] = room.hands[loser] \cup room.stack]
        /\ taken.seats = room.seats
    BY <1>1, <1>2
       DEF WellTyped, Room, PickUpStack, ClearRound, NoPile, WinsInOrder
  <2>3. room.hands \in [User -> SUBSET Card]
    BY <1>1 DEF WellTyped, Room
  <2> HIDE DEF taken
  <2> QED BY <1>2, <2>1, <2>2, <2>3
<1> HIDE DEF taken
<1>4. /\ KeepsTable(taken, judged) /\ SamePile(taken, judged)
      /\ WinsInOrder(taken, judged)
  <2> DEFINE void == [taken EXCEPT !.pending = NoOne]
  <2>1. /\ KeepsTable(taken, void) /\ SamePile(taken, void)
        /\ WinsInOrder(taken, void)
    <3>1. NoOne \in User \cup {NoOne}
      OBVIOUS
    <3> QED BY <1>3, <3>1, PendingKeeps
            DEF WellTyped, Room, SamePile, WinsInOrder
  <2> HIDE DEF void
  <2>2. /\ KeepsTable(taken, ConfirmPendingFinish(taken))
        /\ SamePile(taken, ConfirmPendingFinish(taken))
        /\ WinsInOrder(taken, ConfirmPendingFinish(taken))
    BY <1>3, ConfirmPendingFinishKeeps, ConfirmPendingFinishPile,
       ConfirmPendingFinishWins
  <2>3. /\ KeepsTable(taken, taken) /\ SamePile(taken, taken)
        /\ WinsInOrder(taken, taken)
    BY <1>3 DEF KeepsTable, SameTable, SamePile, WinsInOrder
  <2> QED BY <2>1, <2>2, <2>3 DEF JudgeFinish, void
<1> HIDE DEF judged
<1>5. starter \in User \cup {NoOne}
  BY <1>2, <1>4, NextPlayerIsUser DEF KeepsTable
<1> HIDE DEF starter
<1>6. /\ KeepsTable(judged, moved) /\ SamePile(judged, moved)
      /\ WinsInOrder(judged, moved)
  BY <1>4, <1>5, SetCurrentTurnKeeps, SetCurrentTurnPile, SetCurrentTurnWins
     DEF KeepsTable, SameTable, SamePile, WinsInOrder
<1> HIDE DEF moved
<1>7. /\ KeepsTable(moved, t) /\ SamePile(moved, t) /\ WinsInOrder(moved, t)
  BY <1>6, MaybeEndGameKeeps, MaybeEndGamePile, MaybeEndGameWins DEF KeepsTable
<1> HIDE DEF t
<1>8. WinsOnce(room, t)
  BY <1>3, <1>4, <1>6, <1>7, InOrderTwice, InOrderOnce
<1>9. /\ t.hands = taken.hands /\ t.seats = taken.seats /\ NoPile(t)
  BY <1>3, <1>4, <1>6, <1>7 DEF KeepsTable, SameTable, SamePile, NoPile
<1> QED BY <1>1, <1>2, <1>3, <1>8, <1>9

\* A restart changes neither cards nor pile, and the finish it may confirm is
\* the pending one.
LEMMA RestartMoves ==
  ASSUME TypeOK, Restart
  PROVE  /\ WinsInOrder(room, room') /\ SamePile(room, room')
         /\ room'.hands = room.hands
<1> DEFINE s == IF room.pending # NoOne /\ room.topPlay # NoPlay
                     /\ ~PendingFinishIsTopPlay(room)
                THEN ConfirmPendingFinish(room) ELSE room
           t == [s EXCEPT !.online = {}]
<1>1. WellTyped(room) /\ room' = t
  BY DEF Restart, TypeOK
<1>2. KeepsTable(room, s) /\ SamePile(room, s) /\ WinsInOrder(room, s)
  BY <1>1, ConfirmPendingFinishKeeps, ConfirmPendingFinishPile,
     ConfirmPendingFinishWins
     DEF KeepsTable, SameTable, SamePile, WinsInOrder
<1> HIDE DEF s
<1>3. SamePile(s, t) /\ t.hands = s.hands /\ WinsInOrder(s, t)
  BY <1>2 DEF KeepsTable, WellTyped, Room, SamePile, WinsInOrder
<1> HIDE DEF t
<1> QED BY <1>1, <1>2, <1>3, InOrderTwice DEF KeepsTable, SameTable, SamePile

\* Steps that leave the match as it is, or are none of a match.
LEMMA QuietMoves ==
  ASSUME TypeOK, NEW p \in User,
         Reconnect(p) \/ Disconnect(p) \/ ReturnToLobby(p)
  PROVE  /\ room'.winners = room.winners /\ SamePile(room, room')
         /\ room'.hands = room.hands
<1>1. CASE Reconnect(p)
  BY <1>1 DEF TypeOK, WellTyped, Room, Reconnect, SamePile
<1>2. CASE Disconnect(p)
  BY <1>2 DEF TypeOK, WellTyped, Room, Disconnect, SamePile
<1>3. CASE ReturnToLobby(p)
  BY <1>3 DEF TypeOK, WellTyped, Room, ReturnToLobby, SamePile
<1> QED BY <1>1, <1>2, <1>3

LEMMA NoMatchStep ==
  ASSUME TypeOK, NEW p \in User, NEW decks, NEW winners,
         \/ ResetToLobby(p) \/ StartGame(p)
         \/ Seat(p, decks, winners) \/ SetConfig(p, decks, winners)
  PROVE  ~MatchStep
<1>1. CASE ResetToLobby(p)
  <2>1. room'.phase = "lobby"
    BY <1>1 DEF TypeOK, WellTyped, Room, ResetToLobby, ClearRound, SetCurrentTurn
  <2> QED BY <2>1 DEF MatchStep
<1>2. CASE ~ResetToLobby(p)
  BY <1>2 DEF MatchStep, StartGame, Seat, SetConfig
<1> QED BY <1>1, <1>2

LEMMA SkipMoves ==
  ASSUME TypeOK, NEW p \in User, room' = ApplySkip(room, p)
  PROVE  /\ WinsInOrder(room, room') /\ room'.hands = room.hands
         /\ KeepsPile(room, room')
<1>1. WellTyped(room)
  BY DEF TypeOK
<1>2. KeepsTable(room, ApplySkip(room, p))
  BY <1>1, ApplySkipKeeps
<1> QED BY <1>1, <1>2, ApplySkipPile, ApplySkipWins DEF KeepsTable, SameTable

LEMMA StepWins ==
  ASSUME TypeOK, [Next]_room, MatchStep
  PROVE  WinsOnce(room, room')
<1>1. ASSUME NEW p \in User, Reconnect(p) \/ Disconnect(p) \/ ReturnToLobby(p)
      PROVE  WinsOnce(room, room')
  BY <1>1, QuietMoves DEF WinsOnce
<1>2. ASSUME NEW p \in User, LeaveRoom(p) PROVE WinsOnce(room, room')
  BY <1>2, LeaveRoomWins, InOrderOnce
<1>3. ASSUME NEW p \in User, ResetToLobby(p) \/ StartGame(p)
      PROVE  WinsOnce(room, room')
  BY <1>3, NoMatchStep
<1>4. ASSUME NEW p \in User, Challenge(p) PROVE WinsOnce(room, room')
  BY <1>4, ChallengeMoves
<1>5. ASSUME NEW p \in User, Skip(p) PROVE WinsOnce(room, room')
  BY <1>5, SkipMoves, InOrderOnce DEF Skip
<1>6. ASSUME NEW p \in User, NEW decks \in ConfigDecks,
             NEW winners \in ConfigWinners,
             Seat(p, decks, winners) \/ SetConfig(p, decks, winners)
      PROVE  WinsOnce(room, room')
  BY <1>6, NoMatchStep
<1>7. ASSUME NEW p \in User, NEW cards \in SUBSET room.hands[p],
             NEW claims \in PlayableClaims(room, Cardinality(cards)),
             PlayCards(p, cards, claims)
      PROVE  WinsOnce(room, room')
  BY <1>7, PlayCardsWins
<1>8. ASSUME Restart PROVE WinsOnce(room, room')
  BY <1>8, RestartMoves, InOrderOnce
<1>9. ASSUME TurnTimerExpired PROVE WinsOnce(room, room')
  <2>1. room.turn \in User /\ room' = ApplySkip(room, room.turn)
    BY <1>9 DEF TurnTimerExpired, TypeOK, WellTyped, Room
  <2> QED BY <2>1, SkipMoves, InOrderOnce
<1>10. CASE UNCHANGED room
  BY <1>10 DEF WinsOnce
<1> QED BY <1>1, <1>2, <1>3, <1>4, <1>5, <1>6, <1>7, <1>8, <1>9, <1>10
        DEF Next

\* Nobody wins in the step that empties their hand: in every match the
\* finishing order grows by one player at a time, and only by the player who
\* was pending before the step, through burns, covering plays, failed
\* challenges, departures and restarts.
THEOREM WinsConfirmed == Spec => WinsAreConfirmedLater
<1>1. TypeOK /\ [Next]_room
        => [MatchStep =>
              \/ room'.winners = room.winners
              \/ /\ room.pending # NoOne
                 /\ room'.winners = Append(room.winners, room.pending)]_room
  BY StepWins DEF WinsOnce
<1> QED BY <1>1, TypeCorrect, PTL DEF Spec, WinsAreConfirmedLater

----------------------------------------------------------------------------
(* The cards. *)

\* What a hand gains is the whole stack, and nobody else's hand changes.
GainsTheStack(s, t) ==
  \A p \in User : ~(t.hands[p] \subseteq s.hands[p]) =>
    /\ t.hands[p] = s.hands[p] \cup s.stack
    /\ t.stack = {} /\ t.stackCount = 0
    /\ \A q \in User \ {p} : t.hands[q] = s.hands[q]

\* A play takes its cards from one hand, puts them on the stack and nowhere
\* else.
LEMMA PlayCardsMoves ==
  ASSUME TypeOK, NEW p \in User, NEW cards \in SUBSET room.hands[p],
         NEW claims \in PlayableClaims(room, Cardinality(cards)),
         PlayCards(p, cards, claims)
  PROVE  /\ cards # {}
         /\ room'.hands = [room.hands EXCEPT ![p] = @ \ cards]
         /\ room'.stack = room.stack \cup cards
         /\ room'.topPlay.cards = cards /\ room'.topPlay.claims = claims
<1> DEFINE placed == PlaceCards(room, p, cards, claims)
           settled == SettleFinishes(placed, p, PendingFinishIsTopPlay(room))
           t == IF settled.phase = "playing"
                THEN SetCurrentTurn(settled, GetNextPlayerID(settled, p))
                ELSE settled
<1>1. /\ WellTyped(room) /\ cards # {} /\ room' = t
      /\ p \in Seated(room)
  BY DEF TypeOK, PlayCards, OnTurn, CanAct, IsController
<1>2. /\ WellTyped(placed)
      /\ placed.hands = [room.hands EXCEPT ![p] = @ \ cards]
      /\ placed.stack = room.stack \cup cards
      /\ placed.topPlay = [player |-> p, cards |-> cards, claims |-> claims]
  <2>1. WellTyped(placed)
    BY <1>1, PlaceCardsTyped
  <2>2. /\ placed.hands = [room.hands EXCEPT ![p] = room.hands[p] \ cards]
        /\ placed.stack = room.stack \cup cards
        /\ placed.topPlay = [player |-> p, cards |-> cards, claims |-> claims]
    BY <1>1 DEF WellTyped, Room, PlaceCards
  <2>3. room.hands \in [User -> SUBSET Card]
    BY <1>1 DEF WellTyped, Room
  <2> HIDE DEF placed
  <2> QED BY <2>1, <2>2, <2>3
<1> HIDE DEF placed
<1>3. KeepsTable(placed, settled) /\ SamePile(placed, settled)
  BY <1>2, SettleFinishesKeeps, SettleFinishesPile
<1> HIDE DEF settled
<1>4. SamePile(settled, t) /\ t.hands = settled.hands
  <2> DEFINE moved == SetCurrentTurn(settled, GetNextPlayerID(settled, p))
  <2>1. KeepsTable(settled, moved) /\ SamePile(settled, moved)
    BY <1>3, NextPlayerIsUser, SetCurrentTurnKeeps, SetCurrentTurnPile
       DEF KeepsTable
  <2> HIDE DEF moved
  <2> QED BY <2>1 DEF moved, KeepsTable, SameTable, SamePile
<1> HIDE DEF t
<1>5. t.topPlay = [player |-> p, cards |-> cards, claims |-> claims]
  BY <1>2, <1>3, <1>4 DEF SamePile
<1>6. t.topPlay.cards = cards /\ t.topPlay.claims = claims
  BY <1>5
<1> QED BY <1>1, <1>2, <1>3, <1>4, <1>6 DEF KeepsTable, SameTable, SamePile

LEMMA SameHandsGain ==
  ASSUME NEW s, NEW t, t.hands = s.hands
  PROVE  GainsTheStack(s, t)
BY DEF GainsTheStack

LEMMA ChallengeGains ==
  ASSUME TypeOK, NEW p \in User, Challenge(p)
  PROVE  GainsTheStack(room, room')
<1> DEFINE loser == IF IsClaimBluff(room.topPlay.cards, room.topPlay.claims)
                    THEN room.topPlay.player ELSE p
<1>1. /\ loser \in User /\ NoPile(room')
      /\ room'.hands = [room.hands EXCEPT ![loser] = @ \cup room.stack]
  BY ChallengeMoves
<1>2. room.hands \in [User -> SUBSET Card]
  BY DEF TypeOK, WellTyped, Room
<1> HIDE DEF loser
<1> QED BY <1>1, <1>2 DEF NoPile, GainsTheStack

LEMMA StepGains ==
  ASSUME TypeOK, [Next]_room, MatchStep
  PROVE  GainsTheStack(room, room')
<1>0. room.hands \in [User -> SUBSET Card]
  BY DEF TypeOK, WellTyped, Room
<1>1. ASSUME NEW p \in User, Reconnect(p) \/ Disconnect(p) \/ ReturnToLobby(p)
      PROVE  GainsTheStack(room, room')
  BY <1>1, QuietMoves, SameHandsGain
<1>2. ASSUME NEW p \in User, LeaveRoom(p) PROVE GainsTheStack(room, room')
  <2>1. room'.hands = [room.hands EXCEPT ![p] = {}]
    BY <1>2, LeaveMoves
  <2> QED BY <1>0, <2>1 DEF GainsTheStack
<1>3. ASSUME NEW p \in User, ResetToLobby(p) \/ StartGame(p)
      PROVE  GainsTheStack(room, room')
  BY <1>3, NoMatchStep
<1>4. ASSUME NEW p \in User, Challenge(p) PROVE GainsTheStack(room, room')
  BY <1>4, ChallengeGains
<1>5. ASSUME NEW p \in User, Skip(p) PROVE GainsTheStack(room, room')
  BY <1>5, SkipMoves, SameHandsGain DEF Skip
<1>6. ASSUME NEW p \in User, NEW decks \in ConfigDecks,
             NEW winners \in ConfigWinners,
             Seat(p, decks, winners) \/ SetConfig(p, decks, winners)
      PROVE  GainsTheStack(room, room')
  BY <1>6, NoMatchStep
<1>7. ASSUME NEW p \in User, NEW cards \in SUBSET room.hands[p],
             NEW claims \in PlayableClaims(room, Cardinality(cards)),
             PlayCards(p, cards, claims)
      PROVE  GainsTheStack(room, room')
  <2>1. room'.hands = [room.hands EXCEPT ![p] = @ \ cards]
    BY <1>7, PlayCardsMoves
  <2> QED BY <1>0, <2>1 DEF GainsTheStack
<1>8. ASSUME Restart PROVE GainsTheStack(room, room')
  BY <1>8, RestartMoves, SameHandsGain
<1>9. ASSUME TurnTimerExpired PROVE GainsTheStack(room, room')
  <2>1. room.turn \in User /\ room' = ApplySkip(room, room.turn)
    BY <1>9 DEF TurnTimerExpired, TypeOK, WellTyped, Room
  <2> QED BY <2>1, SkipMoves, SameHandsGain
<1>10. CASE UNCHANGED room
  BY <1>10, SameHandsGain
<1> QED BY <1>1, <1>2, <1>3, <1>4, <1>5, <1>6, <1>7, <1>8, <1>9, <1>10
        DEF Next

\* Cards never go from hand to hand nor come from nowhere: within a match a
\* hand gains cards only by taking the whole stack, and nobody else's hand
\* changes in that step.
THEOREM CardsMove == Spec => CardsMoveByTheStack
<1>1. TypeOK /\ [Next]_room
        => [MatchStep =>
              \A p \in User : ~(room'.hands[p] \subseteq room.hands[p]) =>
                /\ room'.hands[p] = room.hands[p] \cup room.stack
                /\ room'.stack = {} /\ room'.stackCount = 0
                /\ \A q \in User \ {p} : room'.hands[q] = room.hands[q]]_room
  BY StepGains DEF GainsTheStack
<1> QED BY <1>1, TypeCorrect, PTL DEF Spec, CardsMoveByTheStack

----------------------------------------------------------------------------
(* The burn. *)

\* A skip, or the clock, burns the stack only as the last skip missing.
LEMMA SkipBurns ==
  ASSUME NEW s, InPlay(s), s.stackCount = 0 <=> s.topPlay = NoPlay,
         NEW p, p = s.turn, NEW u, u = ApplySkip(s, p), u.stack # s.stack
  PROVE  Rotation(s) \subseteq Range(s.skips) \cup {p}
<1>1. WellTyped(s) /\ p \in Rotation(s) /\ p \in User
  BY TableOfRoom DEF InPlay, Running, Rotation
<1>2. CASE s.topPlay = NoPlay
  <2> DEFINE bare == [s EXCEPT !.skips = <<>>]
             idle == SetCurrentTurn(bare, GetNextPlayerID(s, p))
  <2>1. u = MaybeEndGame(idle)
    BY <1>2 DEF ApplySkip
  <2>2. WellTyped(bare) /\ SamePile(s, bare)
    BY <1>1, NoSkipsKeeps DEF KeepsTable, WellTyped, Room, SamePile
  <2> HIDE DEF bare
  <2>3. WellTyped(idle) /\ SamePile(bare, idle)
    BY <1>1, <2>2, NextPlayerIsUser, SetCurrentTurnKeeps, SetCurrentTurnPile
       DEF KeepsTable
  <2> HIDE DEF idle
  <2>4. SamePile(idle, MaybeEndGame(idle))
    BY <2>3, MaybeEndGamePile
  <2> QED BY <2>1, <2>2, <2>3, <2>4 DEF SamePile
<1>3. CASE s.topPlay # NoPlay
  <2> DEFINE t == RecordSkip(s, p)
             passed == SetCurrentTurn(t, GetNextPlayerID(t, p))
  <2>1. u = MaybeEndGame(IF SkipRequirementsMet(t) THEN ResolveAllPass(t, p)
                         ELSE passed)
    BY <1>1, <1>3 DEF ApplySkip
  <2>2. /\ Running(t) /\ PendingOnTop(t) /\ Finishers(t) /\ SameRotation(s, t)
        /\ Range(t.skips) = Range(s.skips) \cup {p}
    BY SkipRecorded
  <2>3. SamePile(s, t)
    BY <1>1 DEF WellTyped, Room, SamePile, RecordSkip
  <2> HIDE DEF t
  <2>4. Rotation(t) = Rotation(s) /\ WellTyped(t)
    BY <2>2, RotationIsSame DEF Running
  <2>5. CASE SkipRequirementsMet(t)
    <3>1. RequiredSkippers(t) \subseteq Range(t.skips)
      BY <2>5 DEF SkipRequirementsMet
    <3> QED BY <2>2, <2>4, <3>1, SkippersAreRotation
  <2>6. CASE ~SkipRequirementsMet(t)
    <3>1. WellTyped(passed) /\ SamePile(t, passed)
      BY <1>1, <2>4, NextPlayerIsUser, SetCurrentTurnKeeps, SetCurrentTurnPile
         DEF KeepsTable
    <3> HIDE DEF passed
    <3>2. SamePile(passed, MaybeEndGame(passed))
      BY <3>1, MaybeEndGamePile
    <3> QED BY <2>1, <2>3, <2>6, <3>1, <3>2 DEF SamePile
  <2> QED BY <2>5, <2>6
<1> QED BY <1>2, <1>3

\* A departure burns the stack only as the skip of the player on turn.
LEMMA LeaveBurns ==
  ASSUME TypeOK, Cards, Sound(room), NEW p \in User, LeaveRoom(p),
         room.phase = "playing", room'.phase = "playing",
         room'.stack # room.stack
  PROVE  Rotation(room) \subseteq Range(room.skips) \cup {room.turn}
<1> DEFINE passed == IF room.phase = "playing" /\ room.turn = p
                     THEN ApplySkip(room, p) ELSE room
           gone == RemoveSeat(passed, p)
           settled == IF gone.phase = "playing"
                      THEN MaybeEndGame(ReconcileSkipProgression(gone))
                      ELSE gone
           cleared == ClearPlayerRuntime(settled, p)
           t == TransferHost(cleared, p)
<1>1. WellTyped(room) /\ p \in Seated(room) /\ room' = t
  BY DEF TypeOK, LeaveRoom, IsController
<1>2. /\ WellTyped(passed) /\ WellTyped(gone)
      /\ WellTyped(settled) /\ WellTyped(cleared)
  BY <1>1, LeaveChain
<1>3. p \in Seated(passed)
  BY <1>1, ApplySkipKeeps DEF KeepsTable, SameTable, Seated
<1>4. /\ InPlay(room)
      /\ room.stackCount = 0 <=> room.topPlay = NoPlay
  BY DEF Sound, Over, InLobby, Cards, PileCounted
<1>5. \/ Over(passed)
      \/ InPlay(passed) /\ passed.turn # p
  BY <1>4, ApplySkipSound DEF InPlay, Running
<1>6. passed.stack # room.stack => room.turn = p /\ passed = ApplySkip(room, p)
  OBVIOUS
<1> HIDE DEF passed
<1>7. t.phase = settled.phase /\ t.stack = settled.stack
  BY <1>2, ClearPlayerRuntimeLeaves, TransferHostLeaves
<1>8. gone.phase = passed.phase /\ gone.stack = passed.stack
  BY <1>2, <1>3, RemoveSeatLeaves
<1>9. ~Over(passed)
  BY <1>1, <1>7, <1>8 DEF Over
<1>10. ReconcileSkipProgression(gone) = gone
  BY <1>3, <1>5, <1>9, NothingToReconcile
<1>11. settled.stack = passed.stack
  BY <1>2, <1>8, <1>10, MaybeEndGamePile DEF SamePile
<1>12. passed.stack # room.stack
  BY <1>1, <1>7, <1>11
<1> QED BY <1>4, <1>6, <1>12, SkipBurns

Burnt ==
  /\ MatchStep /\ room'.phase = "playing"
  /\ room.stack # {} /\ room'.stack = {}
  /\ room'.hands = [p \in User |-> IF p \in Seated(room')
                                   THEN room.hands[p] ELSE {}]

AllSkipped ==
  Rotation(room) \cap Seated(room') \subseteq Range(room.skips) \cup {room.turn}

LEMMA SkipStepBurns ==
  ASSUME TypeOK, Cards, Sound(room), Burnt, NEW p \in User, p = room.turn,
         room' = ApplySkip(room, p)
  PROVE  AllSkipped
<1>1. room.phase = "playing" /\ room'.stack # room.stack
  BY DEF Burnt, MatchStep
<1>2. /\ InPlay(room)
      /\ room.stackCount = 0 <=> room.topPlay = NoPlay
  BY <1>1 DEF Sound, Over, InLobby, Cards, PileCounted
<1> QED BY <1>1, <1>2, SkipBurns DEF AllSkipped

LEMMA StepBurns ==
  ASSUME TypeOK, Cards, Sound(room), [Next]_room, Burnt
  PROVE  AllSkipped
<1>0. /\ MatchStep /\ room.phase = "playing" /\ room'.phase = "playing"
      /\ room'.stack # room.stack /\ room.stack # {}
  BY DEF Burnt, MatchStep
<1>1. ASSUME NEW p \in User, Reconnect(p) \/ Disconnect(p) \/ ReturnToLobby(p)
      PROVE  AllSkipped
  BY <1>0, <1>1, QuietMoves DEF SamePile
<1>2. ASSUME NEW p \in User, LeaveRoom(p) PROVE AllSkipped
  BY <1>0, <1>2, LeaveBurns DEF AllSkipped
<1>3. ASSUME NEW p \in User, ResetToLobby(p) \/ StartGame(p) PROVE AllSkipped
  BY <1>0, <1>3, NoMatchStep
<1>4. ASSUME NEW p \in User, Challenge(p) PROVE AllSkipped
  <2> DEFINE loser == IF IsClaimBluff(room.topPlay.cards, room.topPlay.claims)
                      THEN room.topPlay.player ELSE p
  <2>1. /\ loser \in Seated(room) /\ loser \in User
        /\ room'.seats = room.seats
        /\ room'.hands = [room.hands EXCEPT ![loser] = @ \cup room.stack]
    BY <1>4, ChallengeMoves
  <2> HIDE DEF loser
  <2>2. room.hands \in [User -> SUBSET Card]
    BY DEF TypeOK, WellTyped, Room
  <2>3. loser \in Seated(room')
    BY <2>1 DEF Seated
  <2>4. room'.hands[loser] = room.hands[loser]
    BY <2>1, <2>3 DEF Burnt
  <2>5. room.hands[loser] \cap room.stack = {}
    BY <2>1 DEF Cards, Custody
  <2> QED BY <1>0, <2>1, <2>2, <2>4, <2>5
<1>5. ASSUME NEW p \in User, Skip(p) PROVE AllSkipped
  BY <1>5, SkipStepBurns DEF Skip, OnTurn
<1>6. ASSUME NEW p \in User, NEW decks \in ConfigDecks,
             NEW winners \in ConfigWinners,
             Seat(p, decks, winners) \/ SetConfig(p, decks, winners)
      PROVE  AllSkipped
  BY <1>0, <1>6, NoMatchStep
<1>7. ASSUME NEW p \in User, NEW cards \in SUBSET room.hands[p],
             NEW claims \in PlayableClaims(room, Cardinality(cards)),
             PlayCards(p, cards, claims)
      PROVE  AllSkipped
  BY <1>7, PlayCardsMoves DEF Burnt
<1>8. ASSUME Restart PROVE AllSkipped
  BY <1>0, <1>8, RestartMoves DEF SamePile
<1>9. ASSUME TurnTimerExpired PROVE AllSkipped
  <2>1. room.turn \in User /\ room' = ApplySkip(room, room.turn)
    BY <1>9 DEF TurnTimerExpired, TypeOK, WellTyped, Room
  <2> QED BY <2>1, SkipStepBurns
<1>10. CASE UNCHANGED room
  BY <1>0, <1>10
<1> QED BY <1>1, <1>2, <1>3, <1>4, <1>5, <1>6, <1>7, <1>8, <1>9, <1>10
        DEF Next

\* The stack burns only when everybody still in rotation has skipped since the
\* last play: no departure, restart, confirmation or clock makes it burn
\* earlier.
THEOREM BurnsAfterAllSkips == Spec => BurnNeedsAllSkips
<1>1. TypeOK /\ Cards /\ Sound(room) /\ [Next]_room
        => [(/\ MatchStep /\ room'.phase = "playing"
             /\ room.stack # {} /\ room'.stack = {}
             /\ room'.hands = [p \in User |-> IF p \in Seated(room')
                                              THEN room.hands[p] ELSE {}])
            => Rotation(room) \cap Seated(room')
                 \subseteq Range(room.skips) \cup {room.turn}]_room
  BY StepBurns DEF Burnt, AllSkipped
<1> QED BY <1>1, SoundIsKept, PTL DEF Spec, BurnNeedsAllSkips

----------------------------------------------------------------------------
(* The verdict. *)

\* The sum of the counts of one group is its count.
LEMMA FoldOfOne ==
  ASSUME NEW claims, NEW i, claims[i].count \in Nat
  PROVE  FoldSet(LAMBDA j, sum : sum + claims[j].count, 0, {i})
           = claims[i].count
<1> DEFINE pick(S) == CHOOSE x \in S : TRUE
           body(g) == [S \in SUBSET {i} |->
                         IF S = {} THEN 0
                         ELSE g[S \ {pick(S)}] + claims[pick(S)].count]
           h == [S \in SUBSET {i} |-> IF S = {} THEN 0 ELSE claims[i].count]
           iter == CHOOSE g : g = body(g)
<1>1. \A S \in SUBSET {i} :
         S # {} => S = {i} /\ pick(S) = i /\ S \ {pick(S)} = {}
  OBVIOUS
<1>2. h = body(h)
  <2>1. ASSUME NEW S \in SUBSET {i}, S # {}
        PROVE  h[S \ {pick(S)}] + claims[pick(S)].count = claims[i].count
    <3>1. S \ {pick(S)} = {} /\ pick(S) = i
      BY <1>1, <2>1
    <3>2. h[{}] = 0
      OBVIOUS
    <3> HIDE DEF h, pick
    <3> QED BY <3>1, <3>2
  <2> HIDE DEF pick
  <2> QED BY <2>1
<1>3. iter = body(iter)
  BY <1>2
<1>4. iter[{i}] = claims[i].count
  <2> HIDE DEF iter
  <2>1. iter[{}] = 0
    BY <1>3
  <2>2. iter[{i}] = iter[{i} \ {pick({i})}] + claims[pick({i})].count
    BY <1>3
  <2>3. pick({i}) = i /\ {i} \ {i} = {}
    BY <1>1
  <2> HIDE DEF pick
  <2> QED BY <2>1, <2>2, <2>3
<1>5. FoldSet(LAMBDA j, sum : sum + claims[j].count, 0, {i}) = iter[{i}]
  BY DEF FoldSet, MapThenFoldSet
<1> QED BY <1>4, <1>5

LEMMA TotalOfOne ==
  ASSUME NEW claims, NEW i, DOMAIN claims = {i}, claims[i].count \in Nat
  PROVE  ClaimTotal(claims) = claims[i].count
<1>1. FoldSet(LAMBDA j, sum : sum + claims[j].count, 0, {i}) = claims[i].count
  BY FoldOfOne
<1> QED BY <1>1 DEF ClaimTotal

\* A declaration that can lie on the table: groups of different ranks that
\* together declare as many cards as were played.
Declared(play) ==
  /\ play.cards # {} /\ play.claims # <<>>
  /\ \A i, j \in DOMAIN play.claims :
        play.claims[i].rank = play.claims[j].rank => i = j
  /\ ClaimTotal(play.claims) = Cardinality(play.cards)

TopIsDeclared(s) == s.topPlay # NoPlay => Declared(s.topPlay)

\* The server's verdict is the rule: what IsClaimBluff calls a bluff is a play
\* whose cards cannot be laid out in the declared groups.
LEMMA VerdictIsRight ==
  ASSUME NEW play \in TopPlay, Declared(play)
  PROVE  IsClaimBluff(play.cards, play.claims) <=> ~IsHonest(play)
<1> DEFINE cards == play.cards
           claims == play.claims
           OfRank(r) == {c \in cards : CardRank(c) = r}
<1>1. /\ cards \in SUBSET Card /\ claims \in Seq(ClaimGroup)
      /\ cards # {} /\ claims # <<>>
      /\ \A i, j \in DOMAIN claims : claims[i].rank = claims[j].rank => i = j
      /\ ClaimTotal(claims) = Cardinality(cards)
  BY DEF TopPlay, Declared
<1> HIDE DEF cards, claims
<1>2. \A i \in DOMAIN claims : claims[i].count \in Nat \ {0}
  <2>1. \A i \in DOMAIN claims : claims[i] \in ClaimGroup
    BY <1>1
  <2> QED BY <2>1 DEF ClaimGroup
<1>3. \A i \in DOMAIN claims :
         ClaimedCount(claims, claims[i].rank) = claims[i].count
  <2> SUFFICES ASSUME NEW i \in DOMAIN claims
               PROVE  ClaimedCount(claims, claims[i].rank) = claims[i].count
    OBVIOUS
  <2>1. {j \in DOMAIN claims : claims[j].rank = claims[i].rank} = {i}
    BY <1>1
  <2>2. FoldSet(LAMBDA j, sum : sum + claims[j].count, 0, {i})
          = claims[i].count
    BY <1>2, FoldOfOne
  <2> QED BY <2>1, <2>2 DEF ClaimedCount
<1>4. IsClaimBluff(cards, claims)
        <=> \/ {CardRank(c) : c \in cards} # ClaimedRanks(claims)
            \/ \E i \in DOMAIN claims :
                  Cardinality(OfRank(claims[i].rank)) # claims[i].count
  <2>1. (\E r \in ClaimedRanks(claims) :
            ActualCount(cards, r) # ClaimedCount(claims, r))
          <=> \E i \in DOMAIN claims :
                ActualCount(cards, claims[i].rank)
                  # ClaimedCount(claims, claims[i].rank)
    BY Zenon DEF ClaimedRanks
  <2>2. \A i \in DOMAIN claims :
           ActualCount(cards, claims[i].rank) = Cardinality(OfRank(claims[i].rank))
    BY DEF ActualCount
  <2> HIDE DEF OfRank
  <2> QED BY <1>1, <1>3, <2>1, <2>2 DEF IsClaimBluff
<1>5. ASSUME ~IsClaimBluff(cards, claims) PROVE IsHonest(play)
  <2> DEFINE group == [c \in cards |->
                         CHOOSE i \in DOMAIN claims : claims[i].rank = CardRank(c)]
  <2>1. \A c \in cards : \E i \in DOMAIN claims : claims[i].rank = CardRank(c)
    BY <1>4, <1>5 DEF ClaimedRanks
  <2>2. \A c \in cards :
           group[c] \in DOMAIN claims /\ claims[group[c]].rank = CardRank(c)
    BY <2>1
  <2>3. group \in [cards -> DOMAIN claims]
    BY <2>2
  <2> HIDE DEF group
  <2>4. \A i \in DOMAIN claims : {c \in cards : group[c] = i} = OfRank(claims[i].rank)
    BY <1>1, <2>2
  <2>5. \A i \in DOMAIN claims :
           Cardinality({c \in cards : group[c] = i}) = claims[i].count
    BY <1>4, <1>5, <2>4
  <2> QED BY <2>2, <2>3, <2>5 DEF IsHonest, cards, claims
<1>6. ASSUME IsHonest(play) PROVE ~IsClaimBluff(cards, claims)
  <2>1. PICK group \in [cards -> DOMAIN claims] :
          /\ \A c \in cards : CardRank(c) = claims[group[c]].rank
          /\ \A i \in DOMAIN claims :
                Cardinality({c \in cards : group[c] = i}) = claims[i].count
    BY <1>6 DEF IsHonest, cards, claims
  <2>2. \A i \in DOMAIN claims : {c \in cards : group[c] = i} = OfRank(claims[i].rank)
    BY <1>1, <2>1
  <2>3. \A i \in DOMAIN claims :
           Cardinality(OfRank(claims[i].rank)) = claims[i].count
    BY <2>1, <2>2
  <2>4. \A i \in DOMAIN claims : OfRank(claims[i].rank) # {}
    BY <1>2, <2>3, FS_EmptySet
  <2>5. {CardRank(c) : c \in cards} = ClaimedRanks(claims)
    <3>1. \A c \in cards : CardRank(c) \in ClaimedRanks(claims)
      BY <2>1 DEF ClaimedRanks
    <3>2. \A i \in DOMAIN claims : claims[i].rank \in {CardRank(c) : c \in cards}
      BY <2>4
    <3> QED BY <3>1, <3>2 DEF ClaimedRanks
  <2> QED BY <1>4, <2>3, <2>5
<1> QED BY <1>5, <1>6 DEF cards, claims

LEMMA PlayableClaimsDeclare ==
  ASSUME NEW cards \in SUBSET Card, cards # {},
         NEW claims \in PlayableClaims(room, Cardinality(cards)),
         NEW play, play.cards = cards, play.claims = claims
  PROVE  Declared(play)
<1> DEFINE n == Cardinality(cards)
<1>1. CASE claims \in OpeningClaims(n)
  <2>1. ValidOpeningClaims(claims, n)
    BY <1>1 DEF OpeningClaims
  <2>2. claims # <<>>
    BY <2>1 DEF ValidOpeningClaims
  <2> QED BY <2>1, <2>2 DEF ValidOpeningClaims, Declared
<1>2. CASE claims = <<[rank |-> room.claimedRank, count |-> n]>>
  <2>1. n \in Nat
    BY CardsAreFinite
  <2> HIDE DEF n
  <2>2. /\ DOMAIN claims = {1} /\ claims[1].count = n /\ claims # <<>>
    BY <1>2
  <2>3. ClaimTotal(claims) = n
    BY <2>1, <2>2, TotalOfOne
  <2> QED BY <2>2, <2>3 DEF Declared, n
<1> QED BY <1>1, <1>2 DEF PlayableClaims

LEMMA PileStaysDeclared ==
  ASSUME NEW s, TopIsDeclared(s), NEW t, KeepsPile(s, t)
  PROVE  TopIsDeclared(t)
BY DEF KeepsPile, SamePile, NoPile, TopIsDeclared

LEMMA PlayCardsDeclared ==
  ASSUME TypeOK, NEW p \in User, NEW cards \in SUBSET room.hands[p],
         NEW claims \in PlayableClaims(room, Cardinality(cards)),
         PlayCards(p, cards, claims)
  PROVE  TopIsDeclared(room')
<1>1. cards \in SUBSET Card
  BY DEF TypeOK, WellTyped, Room
<1>2. /\ cards # {}
      /\ room'.topPlay.cards = cards /\ room'.topPlay.claims = claims
  BY PlayCardsMoves
<1> QED BY <1>1, <1>2, PlayableClaimsDeclare DEF TopIsDeclared

LEMMA StepDeclared ==
  ASSUME TypeOK, TopIsDeclared(room), [Next]_room
  PROVE  TopIsDeclared(room')
<1>1. ASSUME NEW p \in User, Reconnect(p) \/ Disconnect(p) \/ ReturnToLobby(p)
      PROVE  TopIsDeclared(room')
  BY <1>1, QuietMoves DEF SamePile, TopIsDeclared
<1>2. ASSUME NEW p \in User, LeaveRoom(p) PROVE TopIsDeclared(room')
  BY <1>2, LeaveMoves, PileStaysDeclared
<1>3. ASSUME NEW p \in User, ResetToLobby(p) PROVE TopIsDeclared(room')
  <2>1. room'.topPlay = NoPlay
    BY <1>3 DEF TypeOK, WellTyped, Room, ResetToLobby, ClearRound, SetCurrentTurn
  <2> QED BY <2>1 DEF TopIsDeclared
<1>4. ASSUME NEW p \in User, StartGame(p) PROVE TopIsDeclared(room')
  <2>1. room'.topPlay = NoPlay
    BY <1>4 DEF TypeOK, WellTyped, Room, StartGame, ClearRound, SetCurrentTurn
  <2> QED BY <2>1 DEF TopIsDeclared
<1>5. ASSUME NEW p \in User, Challenge(p) PROVE TopIsDeclared(room')
  BY <1>5, ChallengeMoves DEF NoPile, TopIsDeclared
<1>6. ASSUME NEW p \in User, Skip(p) PROVE TopIsDeclared(room')
  BY <1>6, SkipMoves, PileStaysDeclared DEF Skip
<1>7. ASSUME NEW p \in User, NEW decks \in ConfigDecks,
             NEW winners \in ConfigWinners,
             Seat(p, decks, winners) \/ SetConfig(p, decks, winners)
      PROVE  TopIsDeclared(room')
  <2>1. room'.topPlay = room.topPlay
    BY <1>7 DEF TypeOK, WellTyped, Room, Seat, SetConfig
  <2> QED BY <2>1 DEF TopIsDeclared
<1>8. ASSUME NEW p \in User, NEW cards \in SUBSET room.hands[p],
             NEW claims \in PlayableClaims(room, Cardinality(cards)),
             PlayCards(p, cards, claims)
      PROVE  TopIsDeclared(room')
  BY <1>8, PlayCardsDeclared
<1>9. ASSUME Restart PROVE TopIsDeclared(room')
  BY <1>9, RestartMoves DEF SamePile, TopIsDeclared
<1>10. ASSUME TurnTimerExpired PROVE TopIsDeclared(room')
  <2>1. room.turn \in User /\ room' = ApplySkip(room, room.turn)
    BY <1>10 DEF TurnTimerExpired, TypeOK, WellTyped, Room
  <2> QED BY <2>1, SkipMoves, PileStaysDeclared
<1>11. CASE UNCHANGED room
  BY <1>11 DEF TopIsDeclared
<1> QED BY <1>1, <1>2, <1>3, <1>4, <1>5, <1>6, <1>7, <1>8, <1>9, <1>10,
           <1>11 DEF Next

\* In a match only the loser of a challenge gains cards.
LEMMA OnlyLosersGain ==
  ASSUME TypeOK, [Next]_room, MatchStep,
         NEW p \in User, ~(room'.hands[p] \subseteq room.hands[p])
  PROVE  \E q \in User : Challenge(q)
<1>0. room.hands \in [User -> SUBSET Card]
  BY DEF TypeOK, WellTyped, Room
<1>1. ASSUME NEW q \in User, Reconnect(q) \/ Disconnect(q) \/ ReturnToLobby(q)
      PROVE  FALSE
  BY <1>1, QuietMoves
<1>2. ASSUME NEW q \in User, LeaveRoom(q) PROVE FALSE
  <2>1. room'.hands = [room.hands EXCEPT ![q] = {}]
    BY <1>2, LeaveMoves
  <2> QED BY <1>0, <2>1
<1>3. ASSUME NEW q \in User, ResetToLobby(q) \/ StartGame(q) PROVE FALSE
  BY <1>3, NoMatchStep
<1>4. ASSUME NEW q \in User, Skip(q) PROVE FALSE
  BY <1>4, SkipMoves DEF Skip
<1>5. ASSUME NEW q \in User, NEW decks \in ConfigDecks,
             NEW winners \in ConfigWinners,
             Seat(q, decks, winners) \/ SetConfig(q, decks, winners)
      PROVE  FALSE
  BY <1>5, NoMatchStep
<1>6. ASSUME NEW q \in User, NEW cards \in SUBSET room.hands[q],
             NEW claims \in PlayableClaims(room, Cardinality(cards)),
             PlayCards(q, cards, claims)
      PROVE  FALSE
  <2>1. room'.hands = [room.hands EXCEPT ![q] = @ \ cards]
    BY <1>6, PlayCardsMoves
  <2> QED BY <1>0, <2>1
<1>7. ASSUME Restart PROVE FALSE
  BY <1>7, RestartMoves
<1>8. ASSUME TurnTimerExpired PROVE FALSE
  <2>1. room.turn \in User /\ room' = ApplySkip(room, room.turn)
    BY <1>8 DEF TurnTimerExpired, TypeOK, WellTyped, Room
  <2> QED BY <2>1, SkipMoves
<1>9. CASE UNCHANGED room
  BY <1>9
<1> QED BY <1>1, <1>2, <1>3, <1>4, <1>5, <1>6, <1>7, <1>8, <1>9 DEF Next

LEMMA StepPays ==
  ASSUME TypeOK, TopIsDeclared(room), [Next]_room, MatchStep,
         NEW p \in User, ~(room'.hands[p] \subseteq room.hands[p])
  PROVE  IF IsHonest(room.topPlay) THEN p = room.turn
                                   ELSE p = room.topPlay.player
<1>1. PICK q \in User : Challenge(q)
  BY OnlyLosersGain
<1> DEFINE loser == IF IsClaimBluff(room.topPlay.cards, room.topPlay.claims)
                    THEN room.topPlay.player ELSE q
<1>2. q = room.turn /\ room.topPlay # NoPlay
  BY <1>1 DEF Challenge, OnTurn
<1>3. room.topPlay \in TopPlay /\ room.hands \in [User -> SUBSET Card]
  BY <1>2 DEF TypeOK, WellTyped, Room
<1>4. IsClaimBluff(room.topPlay.cards, room.topPlay.claims)
        <=> ~IsHonest(room.topPlay)
  BY <1>2, <1>3, VerdictIsRight DEF TopIsDeclared
<1>5. room'.hands = [room.hands EXCEPT ![loser] = @ \cup room.stack]
  BY <1>1, ChallengeMoves
<1>6. p = loser
  <2> HIDE DEF loser
  <2> QED BY <1>3, <1>5
<1> QED BY <1>2, <1>4, <1>6

\* A challenge costs the right player: in every match the maker of the top
\* play gains cards only if its cards cannot be laid out as declared, and the
\* challenger, who is on turn, only if they can.
THEOREM ChallengesCostTheLiar == Spec => LiarsPay
<1>1. Init => TopIsDeclared(room)
  BY DEF Init, NewRoom, TopIsDeclared
<1>2. TypeOK /\ TopIsDeclared(room) /\ [Next]_room => TopIsDeclared(room)'
  BY StepDeclared DEF TopIsDeclared
<1>3. TypeOK /\ TopIsDeclared(room) /\ [Next]_room
        => [MatchStep =>
              \A p \in User : ~(room'.hands[p] \subseteq room.hands[p]) =>
                IF IsHonest(room.topPlay) THEN p = room.turn
                                          ELSE p = room.topPlay.player]_room
  BY StepPays
<1> QED BY <1>1, <1>2, <1>3, TypeCorrect, PTL DEF Spec, LiarsPay
=============================================================================
