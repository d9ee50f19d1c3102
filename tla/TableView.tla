----------------------------- MODULE TableView -----------------------------
(* The table as one player sees it: the room actor of Match with the events  *)
(* its handlers send (room.go), the pipe to that player's tab, the reducer   *)
(* that keeps the tab's copy (onMessage of state/gameStore.ts) and the moves *)
(* the page offers on that copy (ActionBar.tsx, Lobby.tsx, GameRoom.tsx).    *)
(*                                                                           *)
(* Me has one device, so it always controls, and does not leave; how the tab *)
(* got its connection is the subject of Session.  The other players move     *)
(* through the actions of Match.  A field the server leaves out of an event  *)
(* when it is empty (omitempty) is the empty value here, and the reducer     *)
(* does with it what the code does with a missing field.                     *)
EXTENDS Match

CONSTANTS
    Me,              \* the player whose tab this is
    Capacity,        \* events a pipe holds; the server drops what does not fit
    MaxBacklog,      \* bound: the room goes on while at most so many wait
    MaxSeq,          \* bound: sequence numbers
    MaxMoves,        \* bound: commands Me gives
    MaxLosses        \* bound: lost connections

ASSUME MeIsUser == Me \in User
ASSUME PlayersAssumption == IsFiniteSet(User)
ASSUME BoundsAssumption == Capacity \in Nat /\ MaxMoves \in Nat

NoMove == [id |-> 0]

VARIABLES
    seq,       \* the room's sequence number
    applied,   \* the room's memory of Me's commands: the sequence of each, or 0
    linked,    \* Me's connection is attached to the room
    down, up,  \* events on their way to the tab, commands on theirs to the room
    tab,       \* the store; drawn is history: it got a game_state since it joined
    losses,
    dropped    \* history: an event did not fit since the tab last joined
vars == <<room, seq, applied, linked, down, up, tab, losses, dropped>>

Others   == User \ {Me}
Commands == 1..MaxMoves
Kinds    == {"start", "return", "play", "challenge", "skip"}

\* The part of gameState the table is drawn from, and what the room makes of it.
Shown(s) ==
    [phase |-> s.phase, seats |-> s.seats, away |-> Seated(s) \ s.online,
     won |-> s.done, host |-> s.host, counts |-> s.handCount,
     stackCount |-> s.stackCount, rank |-> s.claimedRank, turn |-> s.turn,
     top |-> IF s.topPlay = NoPlay THEN NoOne ELSE s.topPlay.player,
     winners |-> s.winners, finishing |-> s.pending, returned |-> s.ready]

-----------------------------------------------------------------------------
(* What the handlers send. *)

RoomState(s, n) ==
    [type |-> "room_state", seq |-> n, phase |-> s.phase, seats |-> s.seats,
     away |-> Seated(s) \ s.online, won |-> s.done, host |-> s.host,
     counts |-> s.handCount]
GameState(s, n) ==
    [type |-> "game_state", seq |-> n, game |-> Shown(s), hand |-> s.hands[Me],
     role |-> IF Me \in s.done THEN "winner_spectator" ELSE "active"]
Snapshot(s, n)  == <<RoomState(s, n), GameState(s, n)>>

\* What confirmPendingFinish and resolveAllPass announce between two states.
Wins(s, t, n)   == IF Len(t.winners) > Len(s.winners)
                   THEN <<[type |-> "player_won", seq |-> n, winners |-> t.winners,
                           over |-> t.phase = "finished"]>>
                   ELSE <<>>
Burned(s, t, n) == IF s.stackCount > 0 /\ t.stackCount = 0
                   THEN <<[type |-> "stack_burned", seq |-> n]>> ELSE <<>>
Passed(s, t, n) == Wins(s, t, n) \o Burned(s, t, n)

Accepted(id, n) == <<[type |-> "action_accepted", id |-> id, seq |-> n]>>
Rejected(id)    == <<[type |-> "action_rejected", id |-> id], [type |-> "error", id |-> id]>>

\* A full pipe drops what is sent to it.
Deliver(pipe, events) ==
    LET all == pipe \o events
    IN  SubSeq(all, 1, Min({Len(all), Capacity}))
Send(events) ==
    /\ down' = IF linked THEN Deliver(down, events) ELSE down
    /\ dropped' = (dropped \/ (linked /\ Len(down \o events) > Capacity))

\* A handler that changes the room by k and then sends.
Advance(k, events) == seq' = seq + k /\ Send(events)

-----------------------------------------------------------------------------
(* The other players, and the clock. *)

Busy == Len(down) > MaxBacklog \/ seq >= MaxSeq
Elsewhere == UNCHANGED <<applied, linked, up, tab, losses>>

OtherStarts(p) ==
    /\ StartGame(p)
    /\ Advance(1, <<GameState(room', seq + 1)>>)
OtherReturns(p) ==
    /\ ReturnToLobby(p)
    /\ IF p \in room.ready THEN UNCHANGED <<seq, down, dropped>>
       ELSE Advance(1, <<GameState(room', seq + 1)>>)
OtherPlays(p) ==
    /\ \E cards \in SUBSET room.hands[p] :
         \E claims \in PlayableClaims(room, Cardinality(cards)) : PlayCards(p, cards, claims)
    /\ Advance(1, Wins(room, room', seq + 1) \o <<GameState(room', seq + 1)>>)
OtherChallenges(p) ==
    /\ Challenge(p)
    /\ Advance(1, Wins(room, room', seq + 1)
                    \o <<[type |-> "challenge_result", seq |-> seq + 1],
                         GameState(room', seq + 1)>>)
OtherSkips(p) ==
    /\ Skip(p)
    /\ Advance(1, Passed(room, room', seq + 1) \o <<GameState(room', seq + 1)>>)
\* A player on turn is skipped first, under a sequence number of its own.
OtherLeaves(p) ==
    /\ LeaveRoom(p)
    /\ LET onTurn == room.phase = "playing" /\ room.turn = p
           passed == IF onTurn THEN ApplySkip(room, p) ELSE room
           last   == IF onTurn THEN seq + 2 ELSE seq + 1
       IN  Advance(last - seq,
             Passed(room, passed, seq + 1) \o Passed(passed, room', last)
               \o IF room'.phase = "lobby" THEN <<RoomState(room', last)>>
                                           ELSE <<GameState(room', last)>>)
OtherDrops(p) ==
    /\ Disconnect(p)
    /\ Advance(1, <<[type |-> "player_disconnected", seq |-> seq + 1, player |-> p]>>
                    \o IF room.phase = "lobby" THEN <<RoomState(room', seq + 1)>> ELSE <<>>)
OtherIsBack(p) ==
    /\ p \notin room.online
    /\ Reconnect(p)
    /\ Advance(1, <<[type |-> "player_reconnected", seq |-> seq + 1, player |-> p]>>)
ClockSkips ==
    /\ TurnTimerExpired
    /\ Advance(1, Passed(room, room', seq + 1) \o <<GameState(room', seq + 1)>>)

-----------------------------------------------------------------------------
(* Me's commands in the room. *)

\* Faulty variant: expectedSeq is not compared.
AnySeq(m) == TRUE
Current(m) == m.seq = seq

Accepts(m) ==
    CASE m.kind = "start"     -> /\ RequireHostController(Me)
                                 /\ Len(room.seats) >= 2
                                 /\ room.phase \in {"lobby", "finished"}
                                 /\ room.phase = "finished" => ResultsLobbyReady
                                 /\ Len(room.seats) <= Cardinality(Face) * room.deckCount
                                 /\ room.locked => room.winnerCount \in 1..(Len(room.seats) - 1)
      [] m.kind = "return"    -> IsController(Me) /\ room.phase = "finished"
      [] m.kind = "play"      -> /\ OnTurn(Me) /\ Current(m)
                                 /\ m.cards \subseteq room.hands[Me]
                                 /\ IF room.stackCount = 0
                                    THEN ValidOpeningClaims(m.claims, Cardinality(m.cards))
                                    ELSE m.claims = <<>>
      [] m.kind = "challenge" -> /\ OnTurn(Me) /\ Current(m)
                                 /\ room.stackCount # 0 /\ room.topPlay # NoPlay
                                 /\ room.topPlay.player # Me
                                 /\ room.topPlay.player \in ActivePlayers(room)
      [] m.kind = "skip"      -> OnTurn(Me) /\ Current(m)

\* The branches of the game handlers that return without any answer.
Ignores(m) ==
    \/ m.kind \in {"play", "challenge", "skip"} /\ room.phase # "playing"
    \/ m.kind = "skip" /\ CanAct(Me) /\ room.turn # Me

Carry(m) ==
    CASE m.kind = "start"     -> StartGame(Me)
      [] m.kind = "return"    -> ReturnToLobby(Me)
      [] m.kind = "play"      -> PlayCards(Me, m.cards,
                                   IF m.claims # <<>> THEN m.claims
                                   ELSE <<[rank |-> room.claimedRank,
                                           count |-> Cardinality(m.cards)]>>)
      [] m.kind = "challenge" -> Challenge(Me)
      [] m.kind = "skip"      -> Skip(Me)

\* What a handler broadcasts before it acknowledges.
Before(m, n) ==
    CASE m.kind = "play"      -> Wins(room, room', n)
      [] m.kind = "challenge" -> Wins(room, room', n) \o <<[type |-> "challenge_result", seq |-> n]>>
      [] m.kind = "skip"      -> Passed(room, room', n)
      [] OTHER                -> <<>>

Apply(m) ==
    /\ Accepts(m) /\ Carry(m)
    /\ LET again == m.kind = "return" /\ Me \in room.ready
           n     == IF again THEN seq ELSE seq + 1
       IN  /\ applied' = [applied EXCEPT ![m.id] = n]
           /\ Advance(n - seq, Before(m, n) \o Accepted(m.id, n)
                                 \o IF again THEN <<>> ELSE <<GameState(room', n)>>)

\* Faulty variant: the room does not know a command it has carried out.
NeverSeen(m) == FALSE
Seen(m) == applied[m.id] # 0

\* replayDuplicate: the stored sequence number, and the state of now.
Replay(m) == Advance(0, Accepted(m.id, applied[m.id]) \o Snapshot(room, seq))

HandleCommand ==
    /\ up # <<>> /\ Len(down) <= MaxBacklog
    /\ up' = Tail(up)
    /\ LET m == Head(up)
       IN  IF m.kind = "sync"
           THEN Advance(0, Snapshot(room, seq)) /\ UNCHANGED <<room, applied>>
           ELSE IF Seen(m)
           THEN Replay(m) /\ UNCHANGED <<room, applied>>
           ELSE IF Ignores(m) THEN UNCHANGED <<room, seq, down, dropped, applied>>
           ELSE IF Accepts(m) THEN Apply(m)
           ELSE Advance(0, Rejected(m.id)) /\ UNCHANGED <<room, applied>>
    /\ UNCHANGED <<linked, tab, losses>>

-----------------------------------------------------------------------------
(* state/gameStore.ts: the reducer. *)

\* room_state: what it does not mention stays as it was.
MergeRoomState(g, e) ==
    [g EXCEPT !.phase = e.phase, !.seats = e.seats, !.away = e.away, !.won = e.won,
              !.host = e.host, !.counts = e.counts]

\* Faulty variant: an empty stack falls back on the old one too.
MergeKeepingStack(g, e) ==
    LET f == e.game
    IN  [f EXCEPT !.stackCount = IF f.stackCount = 0 THEN g.stackCount ELSE f.stackCount,
                  !.top = IF f.top = NoOne THEN g.top ELSE f.top,
                  !.winners = IF f.winners = <<>> THEN g.winners ELSE f.winners,
                  !.returned = IF f.returned = {} THEN g.returned ELSE f.returned]

\* game_state: an empty top play, winner list or results lobby is not in the
\* event, and the old value stays.
MergeGameState(g, e) ==
    LET f == e.game
    IN  [f EXCEPT !.top = IF f.top = NoOne THEN g.top ELSE f.top,
                  !.winners = IF f.winners = <<>> THEN g.winners ELSE f.winners,
                  !.returned = IF f.returned = {} THEN g.returned ELSE f.returned]

Release(t, e) == IF t.pending # NoMove /\ t.pending.id = e.id
                 THEN [t EXCEPT !.pending = NoMove] ELSE t

Reduce(t, e) ==
    CASE e.type = "error"           -> [Release(t, e) EXCEPT !.status = "CONNECTED"]
      [] e.type = "action_rejected" -> [Release(t, e) EXCEPT !.status = "CONNECTED"]
      [] e.type = "action_accepted" -> [Release(t, e) EXCEPT !.lastSeq = e.seq]
      [] e.type = "ack"             -> [t EXCEPT !.lastSeq = e.seq]
      [] e.type = "room_state"      -> [t EXCEPT !.lastSeq = e.seq, !.status = "CONNECTED",
                                                 !.game = MergeRoomState(t.game, e)]
      [] e.type = "game_state"      -> [t EXCEPT !.lastSeq = e.seq, !.status = "CONNECTED",
                                                 !.game = MergeGameState(t.game, e),
                                                 !.hand = e.hand, !.role = e.role,
                                                 !.drawn = TRUE]
      [] e.type = "player_won"      -> [t EXCEPT !.lastSeq = e.seq,
                                                 !.game.winners = e.winners,
                                                 !.game.phase = IF e.over THEN "finished"
                                                                ELSE t.game.phase]
      [] e.type = "player_disconnected" ->
                                       [t EXCEPT !.lastSeq = e.seq,
                                                 !.game.away = t.game.away \cup {e.player}]
      [] e.type = "player_reconnected"  ->
                                       [t EXCEPT !.lastSeq = e.seq,
                                                 !.game.away = t.game.away \ {e.player}]
      [] OTHER                      -> [t EXCEPT !.lastSeq = e.seq]

\* The events that carry a field seq.
Numbered == {"room_state", "game_state", "player_won", "challenge_result",
             "stack_burned", "player_disconnected", "player_reconnected"}
Gap(e) == e.type \in Numbered /\ tab.lastSeq > 0 /\ e.seq > tab.lastSeq + 1

\* One event; a gap before it asks for a snapshot first.
Receive ==
    /\ down # <<>>
    /\ LET e == Head(down)
           t == IF Gap(e) THEN [tab EXCEPT !.status = "SYNCING"] ELSE tab
       IN  /\ tab' = Reduce(t, e)
           /\ up' = IF Gap(e) THEN Append(up, [kind |-> "sync"]) ELSE up
    /\ down' = Tail(down)
    /\ UNCHANGED <<room, seq, applied, linked, losses, dropped>>

-----------------------------------------------------------------------------
(* What the page offers. *)

Free == tab.status = "CONNECTED" /\ tab.pending = NoMove /\ tab.sent < MaxMoves

NextId == tab.sent + 1
Give(m) ==
    /\ tab' = [tab EXCEPT !.sent = m.id, !.pending = m]
    /\ up' = Append(up, m)
    /\ UNCHANGED <<room, seq, applied, linked, down, losses, dropped>>

\* ActionBar is shown on one's turn; its moves carry the last sequence number,
\* and here also the table they were chosen on, and whether the tab then had a
\* game_state, and every event, since it joined.
MyTurn == tab.game.phase = "playing" /\ tab.game.turn = Me /\ tab.role = "active"
Move(kind) == [id |-> NextId, kind |-> kind, seq |-> tab.lastSeq, cards |-> {}, claims |-> <<>>,
               top |-> tab.game.top, stackCount |-> tab.game.stackCount,
               whole |-> tab.drawn /\ ~dropped]

ClickPlay ==
    /\ Free /\ MyTurn
    /\ \E cards \in SUBSET tab.hand \ {{}} :
         \E claims \in IF tab.game.stackCount = 0
                       THEN OpeningClaims(Cardinality(cards)) ELSE {<<>>} :
           Give([Move("play") EXCEPT !.cards = cards, !.claims = claims])
CanCallout == Free /\ MyTurn /\ tab.game.top \notin {NoOne, Me}
ClickCallout == CanCallout /\ Give(Move("challenge"))
ClickSkip == Free /\ MyTurn /\ Give(Move("skip"))

HasReturned  == tab.game.phase = "finished" /\ Me \in tab.game.returned
LobbyShown   == tab.game.phase = "lobby" \/ HasReturned
VerdictShown == tab.game.phase = "finished" /\ ~HasReturned
Missing      == (Range(tab.game.seats) \ tab.game.away) \ tab.game.returned

ClickStart ==
    /\ Free /\ LobbyShown
    /\ tab.game.host = Me
    /\ Len(tab.game.seats) >= 2
    /\ HasReturned => Missing = {}
    /\ Give([id |-> NextId, kind |-> "start"])
ClickReturn == Free /\ VerdictShown /\ Give([id |-> NextId, kind |-> "return"])

-----------------------------------------------------------------------------
(* Losing the connection and coming back; what happens between is the        *)
(* subject of Session.                                                       *)

Lose ==
    /\ linked /\ ~Busy /\ losses < MaxLosses
    /\ Disconnect(Me)
    /\ seq' = seq + 1
    /\ linked' = FALSE /\ down' = <<>> /\ up' = <<>>
    /\ tab' = [tab EXCEPT !.status = "RECONNECTING"]
    /\ losses' = losses + 1
    /\ UNCHANGED <<applied, dropped>>

\* Faulty variant: the joiner hears of the return and gets no snapshot.
Unprimed(n) == <<[type |-> "ack", seq |-> n],
                 [type |-> "player_reconnected", seq |-> n, player |-> Me]>>
Welcome(n) == <<[type |-> "ack", seq |-> n],
                [type |-> "player_reconnected", seq |-> n, player |-> Me]>>
              \o Snapshot(room', n)

\* The unanswered command follows the join on the new connection.
Rejoin ==
    /\ ~linked
    /\ Reconnect(Me)
    /\ seq' = seq + 1
    /\ linked' = TRUE /\ down' = Deliver(<<>>, Welcome(seq + 1))
    /\ dropped' = (Len(Welcome(seq + 1)) > Capacity)
    /\ up' = IF tab.pending = NoMove THEN <<>> ELSE <<tab.pending>>
    /\ tab' = [tab EXCEPT !.status = "CONNECTED", !.drawn = FALSE]
    /\ UNCHANGED <<applied, losses>>

-----------------------------------------------------------------------------

\* Everybody has joined the lobby and the tab has seen the last of them do so.
TableInit ==
    /\ \E order \in SetToSeqs(User) :
         room = [NewRoom EXCEPT !.seats = order, !.online = User, !.host = Head(order)]
    /\ seq = 1
    /\ applied = [id \in Commands |-> 0]
    /\ linked = TRUE /\ down = <<>> /\ up = <<>>
    /\ tab = [game |-> Shown(room), hand |-> {}, role |-> "none", lastSeq |-> 1,
              status |-> "CONNECTED", pending |-> NoMove, sent |-> 0, drawn |-> TRUE]
    /\ losses = 0 /\ dropped = FALSE

RoomStep ==
    /\ ~Busy
    /\ \/ \E p \in Others : \/ OtherStarts(p) \/ OtherReturns(p) \/ OtherPlays(p)
                            \/ OtherChallenges(p) \/ OtherSkips(p) \/ OtherLeaves(p)
                            \/ OtherDrops(p) \/ OtherIsBack(p)
       \/ ClockSkips
    /\ Elsewhere
Click == ClickPlay \/ ClickCallout \/ ClickSkip \/ ClickStart \/ ClickReturn

TableNext == RoomStep \/ HandleCommand \/ Receive \/ Click \/ Lose \/ Rejoin
TableSpec == TableInit /\ [][TableNext]_vars

Fairness == WF_vars(Receive) /\ WF_vars(HandleCommand) /\ WF_vars(Rejoin)
FairTable == TableSpec /\ Fairness

-----------------------------------------------------------------------------
(* Properties. *)

Quiet == down = <<>> /\ linked /\ tab.status = "CONNECTED"

\* Whatever happened in whatever order, when nothing is under way the tab shows
\* the room as it is: the players, and in a match its own hand, the counts, the
\* rank, whose turn it is and whose finish is pending; unless the pipe was full
\* meanwhile, for what a full pipe drops is not made up for.
ViewAgrees ==
    Quiet /\ ~dropped =>
      LET g == tab.game IN LET s == Shown(room) IN
      /\ <<g.phase, g.seats, g.away, g.won, g.host>>
           = <<s.phase, s.seats, s.away, s.won, s.host>>
      /\ s.phase # "lobby" =>
           /\ <<g.counts, g.stackCount, g.rank, g.turn, g.finishing>>
                = <<s.counts, s.stackCount, s.rank, s.turn, s.finishing>>
           /\ tab.hand = room.hands[Me]

\* The sequence number is taken over from the events that come before the
\* picture they belong to, so the room's check of it says that the picture is
\* right only if nothing is missing from it: a play or a challenge that the room
\* carries out was chosen on the pile as it is, with the same cards on it, of the
\* same player, provided the tab had a game_state, and every event, since it
\* joined.  Between the welcome and its game_state, or after a drop, it may not
\* be.  And whatever is sent again, a command is carried out at most once, and
\* only while the tab waits for it.
OnThePile(m) ==
    m.kind \in {"play", "challenge"} /\ m.whole =>
      /\ m.stackCount = room.stackCount
      /\ room.stackCount # 0 => m.top = room.topPlay.player
MovesMeetTheirPile ==
    [][\A id \in Commands : applied'[id] # applied[id] =>
         /\ OnThePile(Head(up))
         /\ applied[id] = 0 /\ tab.pending # NoMove /\ tab.pending.id = id]_vars

\* The tab's picture ends up right and stays so, over a lost connection too.
ViewSettles == <>[](Quiet /\ ViewAgrees)

=============================================================================
