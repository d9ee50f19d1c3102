---------------------------- MODULE TableProofs ----------------------------
(* Proofs about TableView, for any number of players, any deck, pipes of any *)
(* capacity and any number of commands and lost connections: the picture a   *)
(* tab has drawn of the room, and the pile a move is chosen on.              *)
EXTENDS TableView, MoveProofs

(* What the tab draws, and the events it draws it from. *)
Somebody == User \cup {NoOne}
Phases == {"lobby", "playing", "finished"}
Game ==
  [phase : Phases, seats : Seq(User), away : SUBSET User, won : SUBSET User,
   host : Somebody, counts : [User -> Nat], stackCount : Nat,
   rank : Rank \cup {NoRank}, turn : Somebody, top : Somebody,
   winners : Seq(User), finishing : Somebody, returned : SUBSET User]
Picture == [game : Game, hand : SUBSET Card, drawn : BOOLEAN]

Refusal  == [type : {"action_rejected", "error"}, id : Nat]
Approval == [type : {"action_accepted"}, id : Nat, seq : Nat]
Notice   == [type : {"ack", "stack_burned", "challenge_result"}, seq : Nat]
RoomNews == [type : {"room_state"}, seq : Nat, phase : Phases, seats : Seq(User),
             away : SUBSET User, won : SUBSET User, host : Somebody,
             counts : [User -> Nat]]
GameNews == [type : {"game_state"}, seq : Nat, game : Game, hand : SUBSET Card,
             role : {"winner_spectator", "active"}]
WinNews  == [type : {"player_won"}, seq : Nat, winners : Seq(User), over : BOOLEAN]
Presence == [type : {"player_disconnected", "player_reconnected"}, seq : Nat,
             player : User]
Numbering == Approval \cup Notice \cup RoomNews \cup GameNews \cup WinNews \cup Presence
Event == Refusal \cup Numbering

\* The events whose number the tab takes over, and what it makes of its picture.
Numbers(e) == e.type \notin {"action_rejected", "error"}
NextGame(g, e) ==
  IF e.type = "room_state" THEN MergeRoomState(g, e)
  ELSE IF e.type = "game_state" THEN MergeGameState(g, e)
  ELSE IF e.type = "player_won"
       THEN [g EXCEPT !.winners = e.winners,
                      !.phase = IF e.over THEN "finished" ELSE g.phase]
  ELSE IF e.type = "player_disconnected" THEN [g EXCEPT !.away = g.away \cup {e.player}]
  ELSE IF e.type = "player_reconnected" THEN [g EXCEPT !.away = g.away \ {e.player}]
  ELSE g
Draw(v, e) ==
  [game |-> NextGame(v.game, e),
   hand |-> IF e.type = "game_state" THEN e.hand ELSE v.hand,
   drawn |-> v.drawn \/ e.type = "game_state"]

LEMMA DrawnPicture ==
  ASSUME NEW v \in Picture, NEW e \in Event
  PROVE  /\ Draw(v, e) \in Picture
         /\ e.type \notin {"room_state", "game_state"} =>
              /\ Draw(v, e).game.stackCount = v.game.stackCount
              /\ Draw(v, e).game.turn = v.game.turn
              /\ Draw(v, e).game.top = v.game.top
              /\ Draw(v, e).drawn = v.drawn
<1>1. v.game \in Game /\ v.hand \in SUBSET Card /\ v.drawn \in BOOLEAN
  BY DEF Picture
<1>2. CASE e.type = "room_state"
  <2>1. e \in RoomNews
    BY <1>2 DEF Event, Numbering, Refusal, Approval, Notice, GameNews, WinNews, Presence
  <2>2. MergeRoomState(v.game, e) \in Game
    BY <1>1, <2>1 DEF MergeRoomState, Game, RoomNews
  <2> QED BY <1>1, <1>2, <2>2 DEF Draw, NextGame, Picture
<1>3. CASE e.type = "game_state"
  <2>1. e \in GameNews
    BY <1>3 DEF Event, Numbering, Refusal, Approval, Notice, RoomNews, WinNews, Presence
  <2>2. e.game \in Game /\ e.hand \in SUBSET Card
    BY <2>1 DEF GameNews
  <2>3. MergeGameState(v.game, e) \in Game
    BY <1>1, <2>2 DEF MergeGameState, Game
  <2> QED BY <1>1, <1>3, <2>2, <2>3 DEF Draw, NextGame, Picture
<1>4. CASE e.type = "player_won"
  <2>1. e.winners \in Seq(User)
    BY <1>4 DEF Event, Numbering, Refusal, Approval, Notice, RoomNews, GameNews, WinNews, Presence
  <2>2. NextGame(v.game, e) \in Game
    BY <1>1, <1>4, <2>1 DEF NextGame, Game, Phases
  <2> QED BY <1>1, <1>4, <2>2 DEF Draw, NextGame, Picture, Game
<1>5. CASE e.type \in {"player_disconnected", "player_reconnected"}
  <2>1. e.player \in User
    BY <1>5 DEF Event, Numbering, Refusal, Approval, Notice, RoomNews, GameNews, WinNews, Presence
  <2>2. NextGame(v.game, e) \in Game
    BY <1>1, <1>5, <2>1 DEF NextGame, Game
  <2> QED BY <1>1, <1>5, <2>2 DEF Draw, NextGame, Picture, Game
<1>6. CASE e.type \notin {"room_state", "game_state", "player_won",
                          "player_disconnected", "player_reconnected"}
  BY <1>1, <1>6 DEF Draw, NextGame, Picture
<1> QED BY <1>2, <1>3, <1>4, <1>5, <1>6

----------------------------------------------------------------------------
(* A series of events takes one picture to another. *)

\* A play or a challenge of Me chosen on this picture is on the pile of the
\* room, or is refused: on an empty pile there is nothing to follow or doubt.
PileFits(v, r) ==
  v.drawn /\ v.game.turn = Me /\ r.phase = "playing" /\ r.turn = Me =>
    \/ r.stackCount = 0
    \/ v.game.stackCount = r.stackCount /\ v.game.top = r.topPlay.player

\* The events es take the picture v to w, and every picture on the way that
\* carries the number n fits the pile of r.
Runs(v, es, w, n, r) ==
  \E T \in [0..Len(es) -> Picture] :
    /\ T[0] = v /\ T[Len(es)] = w
    /\ \A i \in 1..Len(es) :
         /\ T[i] = Draw(T[i - 1], es[i])
         /\ Numbers(es[i]) /\ es[i].seq = n => PileFits(T[i], r)

LEMMA RunsNone ==
  ASSUME NEW v \in Picture, NEW n, NEW r
  PROVE  Runs(v, <<>>, v, n, r)
<1> DEFINE T == [i \in 0..0 |-> v]
<1>1. T \in [0..Len(<<>>) -> Picture] /\ T[0] = v /\ T[Len(<<>>)] = v
  OBVIOUS
<1>2. \A i \in 1..Len(<<>>) : FALSE
  OBVIOUS
<1> HIDE DEF T
<1> QED BY <1>1, <1>2 DEF Runs

LEMMA RunsNowhere ==
  ASSUME NEW v, NEW w, NEW n, NEW r, Runs(v, <<>>, w, n, r)
  PROVE  w = v
BY DEF Runs

LEMMA RunsOne ==
  ASSUME NEW v \in Picture, NEW e \in Event, NEW n, NEW r,
         Numbers(e) /\ e.seq = n => PileFits(Draw(v, e), r)
  PROVE  Runs(v, <<e>>, Draw(v, e), n, r)
<1> DEFINE T == [i \in 0..1 |-> IF i = 0 THEN v ELSE Draw(v, e)]
<1>1. Draw(v, e) \in Picture
  BY DrawnPicture
<1>2. Len(<<e>>) = 1 /\ <<e>>[1] = e
  OBVIOUS
<1>3. T \in [0..Len(<<e>>) -> Picture] /\ T[0] = v /\ T[1] = Draw(v, e)
  BY <1>1, <1>2
<1> HIDE DEF T
<1>4. ASSUME NEW i \in 1..Len(<<e>>) PROVE i = 1
  BY <1>2
<1> QED BY <1>2, <1>3, <1>4 DEF Runs

LEMMA RunsOn ==
  ASSUME NEW v, NEW w, NEW x, NEW p \in Seq(Event), NEW q \in Seq(Event),
         NEW n, NEW r, Runs(v, p, w, n, r), Runs(w, q, x, n, r)
  PROVE  Runs(v, p \o q, x, n, r)
<1> DEFINE a == Len(p)
           b == Len(q)
           pq == p \o q
<1>1. PICK S \in [0..Len(p) -> Picture] :
        /\ S[0] = v /\ S[Len(p)] = w
        /\ \A i \in 1..Len(p) :
             /\ S[i] = Draw(S[i - 1], p[i])
             /\ Numbers(p[i]) /\ p[i].seq = n => PileFits(S[i], r)
  BY DEF Runs
<1>2. PICK T \in [0..Len(q) -> Picture] :
        /\ T[0] = w /\ T[Len(q)] = x
        /\ \A i \in 1..Len(q) :
             /\ T[i] = Draw(T[i - 1], q[i])
             /\ Numbers(q[i]) /\ q[i].seq = n => PileFits(T[i], r)
  BY DEF Runs
<1> DEFINE U == [i \in 0..(a + b) |-> IF i <= a THEN S[i] ELSE T[i - a]]
<1>3. /\ a \in Nat /\ b \in Nat /\ Len(pq) = a + b
      /\ \A i \in 1..(a + b) : pq[i] = IF i <= a THEN p[i] ELSE q[i - a]
  OBVIOUS
<1>4. U \in [0..(a + b) -> Picture]
  BY <1>3
<1>5. U[0] = v /\ U[a + b] = x
  <2>1. U[0] = S[0]
    BY <1>3
  <2>2. CASE b = 0
    <3>1. U[a + b] = S[a] /\ T[0] = x
      BY <1>2, <1>3, <2>2
    <3> HIDE DEF U
    <3> QED BY <1>1, <1>2, <2>1, <3>1
  <2>3. CASE b # 0
    <3>1. a + b > a /\ a + b \in 0..(a + b) /\ a + b - a = b
      BY <1>3, <2>3
    <3>2. U[a + b] = T[b]
      BY <1>3, <3>1
    <3> HIDE DEF U
    <3> QED BY <1>1, <1>2, <2>1, <3>2
  <2> QED BY <2>2, <2>3
<1>6. ASSUME NEW i \in 1..(a + b)
      PROVE  /\ U[i] = Draw(U[i - 1], pq[i])
             /\ Numbers(pq[i]) /\ pq[i].seq = n => PileFits(U[i], r)
  <2>1. CASE i <= a
    <3>1. i \in 1..Len(p) /\ U[i] = S[i] /\ U[i - 1] = S[i - 1] /\ pq[i] = p[i]
      BY <1>3, <2>1
    <3> HIDE DEF U, pq
    <3> QED BY <1>1, <3>1
  <2>2. CASE i > a
    <3>1. i - a \in 1..Len(q) /\ U[i] = T[i - a] /\ pq[i] = q[i - a]
      BY <1>3, <2>2
    <3>2. U[i - 1] = T[i - a - 1]
      <4>1. CASE i - 1 = a
        <5>1. U[i - 1] = S[a] /\ i - a - 1 = 0
          BY <1>3, <4>1
        <5> QED BY <1>1, <1>2, <5>1
      <4>2. CASE i - 1 > a
        BY <1>3, <4>2
      <4> HIDE DEF U, a, b, pq
      <4>3. a \in Nat /\ i \in Int /\ i > a
        BY <1>3, <2>2
      <4>4. i - 1 = a \/ i - 1 > a
        BY <4>3
      <4> QED BY <4>1, <4>2, <4>4
    <3>3. /\ T[i - a] = Draw(T[i - a - 1], q[i - a])
          /\ Numbers(q[i - a]) /\ q[i - a].seq = n => PileFits(T[i - a], r)
      BY <1>2, <3>1
    <3> HIDE DEF U, pq
    <3> QED BY <3>1, <3>2, <3>3
  <2> QED BY <1>3, <2>1, <2>2
<1> HIDE DEF U, a, b
<1>7. /\ U \in [0..Len(pq) -> Picture]
      /\ U[0] = v /\ U[Len(pq)] = x
      /\ \A i \in 1..Len(pq) :
           /\ U[i] = Draw(U[i - 1], pq[i])
           /\ Numbers(pq[i]) /\ pq[i].seq = n => PileFits(U[i], r)
  BY <1>3, <1>4, <1>5, <1>6
<1> HIDE DEF pq
<1>8. Runs(v, pq, x, n, r)
  BY <1>7 DEF Runs
<1> QED BY <1>8 DEF pq

LEMMA RunsTail ==
  ASSUME NEW v, NEW w, NEW p \in Seq(Event), p # <<>>,
         NEW n, NEW r, Runs(v, p, w, n, r)
  PROVE  /\ Runs(Draw(v, Head(p)), Tail(p), w, n, r)
         /\ Numbers(Head(p)) /\ Head(p).seq = n => PileFits(Draw(v, Head(p)), r)
<1>1. PICK S \in [0..Len(p) -> Picture] :
        /\ S[0] = v /\ S[Len(p)] = w
        /\ \A i \in 1..Len(p) :
             /\ S[i] = Draw(S[i - 1], p[i])
             /\ Numbers(p[i]) /\ p[i].seq = n => PileFits(S[i], r)
  BY DEF Runs
<1> DEFINE T == [i \in 0..Len(Tail(p)) |-> S[i + 1]]
<1>2. /\ Len(p) \in Nat /\ Len(p) > 0 /\ Len(Tail(p)) = Len(p) - 1
      /\ Head(p) = p[1]
      /\ \A i \in 1..Len(Tail(p)) : Tail(p)[i] = p[i + 1]
  OBVIOUS
<1>3. /\ S[1] = Draw(v, Head(p))
      /\ Numbers(Head(p)) /\ Head(p).seq = n => PileFits(S[1], r)
  <2>1. 1 \in 1..Len(p) /\ 1 - 1 = 0
    BY <1>2
  <2>2. S[1] = Draw(S[1 - 1], p[1])
    BY <1>1, <2>1
  <2>3. Numbers(p[1]) /\ p[1].seq = n => PileFits(S[1], r)
    BY <1>1, <2>1
  <2> QED BY <1>1, <1>2, <2>1, <2>2, <2>3
<1>4. T \in [0..Len(Tail(p)) -> Picture] /\ T[0] = S[1] /\ T[Len(Tail(p))] = w
  BY <1>1, <1>2
<1>5. ASSUME NEW i \in 1..Len(Tail(p))
      PROVE  /\ T[i] = Draw(T[i - 1], Tail(p)[i])
             /\ Numbers(Tail(p)[i]) /\ Tail(p)[i].seq = n => PileFits(T[i], r)
  <2>1. /\ i + 1 \in 1..Len(p) /\ T[i] = S[i + 1] /\ T[i - 1] = S[i]
        /\ Tail(p)[i] = p[i + 1] /\ (i + 1) - 1 = i
    BY <1>2
  <2>2. S[i + 1] = Draw(S[(i + 1) - 1], p[i + 1])
    BY <1>1, <2>1
  <2>3. Numbers(p[i + 1]) /\ p[i + 1].seq = n => PileFits(S[i + 1], r)
    BY <1>1, <2>1
  <2> HIDE DEF T
  <2> QED BY <2>1, <2>2, <2>3
<1> HIDE DEF T
<1>6. Runs(S[1], Tail(p), w, n, r)
  BY <1>4, <1>5 DEF Runs
<1> QED BY <1>3, <1>6

\* Events numbered below what the room has come to say nothing of its pile.
LEMMA RunsLater ==
  ASSUME NEW v, NEW w, NEW p \in Seq(Event), NEW n \in Nat, NEW m \in Nat, n < m,
         NEW r, NEW t, Runs(v, p, w, n, r),
         \A i \in 1..Len(p) : Numbers(p[i]) => p[i].seq \in Nat /\ p[i].seq <= n
  PROVE  Runs(v, p, w, m, t)
<1>1. PICK S \in [0..Len(p) -> Picture] :
        /\ S[0] = v /\ S[Len(p)] = w
        /\ \A i \in 1..Len(p) : S[i] = Draw(S[i - 1], p[i])
  BY DEF Runs
<1>2. \A i \in 1..Len(p) : ~(Numbers(p[i]) /\ p[i].seq = m)
  OBVIOUS
<1> QED BY <1>1, <1>2 DEF Runs

----------------------------------------------------------------------------
(* What the events of a handler do to a picture. *)

\* The rooms that the handlers leave behind.
Good(s) == WellTyped(s) /\ s.ready \subseteq Seated(s) /\ PileCounted(s)

UpTo(es, n) == \A i \in 1..Len(es) : Numbers(es[i]) => es[i].seq <= n

\* The picture shows the room: what ViewAgrees asks for, and the top player.
Agrees(v, s) ==
  /\ v.game.phase = s.phase /\ v.game.seats = s.seats
  /\ v.game.away = Seated(s) \ s.online
  /\ v.game.won = s.done /\ v.game.host = s.host
  /\ s.phase # "lobby" =>
       /\ v.game.counts = s.handCount /\ v.game.stackCount = s.stackCount
       /\ v.game.rank = s.claimedRank /\ v.game.turn = s.turn
       /\ v.game.finishing = s.pending /\ v.hand = s.hands[Me]
       /\ s.stackCount # 0 => v.game.top = s.topPlay.player

\* Events that leave the pile as it is drawn.
Harmless(es, n, r) ==
  /\ es \in Seq(Event) /\ UpTo(es, n)
  /\ \A v \in Picture : PileFits(v, r) =>
       \E w \in Picture : Runs(v, es, w, n, r) /\ PileFits(w, r)

\* Events that take a picture of the room s to one of the room t.
Carries(es, s, n, t) ==
  /\ es \in Seq(Event) /\ UpTo(es, n)
  /\ \A v \in Picture : Agrees(v, s) =>
       \E w \in Picture : Runs(v, es, w, n, t) /\ Agrees(w, t)

LEMMA AgreesFits ==
  ASSUME NEW v, NEW s, Agrees(v, s)
  PROVE  PileFits(v, s)
BY DEF Agrees, PileFits

LEMMA UpToBoth ==
  ASSUME NEW p \in Seq(Event), NEW q \in Seq(Event), NEW n, UpTo(p, n), UpTo(q, n)
  PROVE  p \o q \in Seq(Event) /\ UpTo(p \o q, n)
<1> DEFINE pq == p \o q
<1>1. /\ pq \in Seq(Event) /\ Len(pq) = Len(p) + Len(q)
      /\ \A i \in 1..Len(pq) : pq[i] = IF i <= Len(p) THEN p[i] ELSE q[i - Len(p)]
  OBVIOUS
<1>2. ASSUME NEW i \in 1..Len(pq), Numbers(pq[i]) PROVE pq[i].seq <= n
  <2>1. CASE i <= Len(p)
    <3>1. i \in 1..Len(p) /\ pq[i] = p[i]
      BY <1>1, <2>1
    <3> HIDE DEF pq
    <3> QED BY <1>2, <3>1 DEF UpTo
  <2>2. CASE i > Len(p)
    <3>1. i - Len(p) \in 1..Len(q) /\ pq[i] = q[i - Len(p)]
      BY <1>1, <2>2
    <3> HIDE DEF pq
    <3> QED BY <1>2, <3>1 DEF UpTo
  <2> QED BY <1>1, <2>1, <2>2
<1> HIDE DEF pq
<1>3. pq \in Seq(Event) /\ UpTo(pq, n)
  BY <1>1, <1>2 DEF UpTo
<1> QED BY <1>3 DEF pq

LEMMA HarmlessNone ==
  ASSUME NEW n, NEW r
  PROVE  Harmless(<<>>, n, r)
<1>1. <<>> \in Seq(Event) /\ UpTo(<<>>, n)
  BY DEF UpTo
<1> QED BY <1>1, RunsNone DEF Harmless

LEMMA HarmlessOne ==
  ASSUME NEW e \in Event, e.type \notin {"room_state", "game_state"},
         NEW n, Numbers(e) => e.seq <= n, NEW r
  PROVE  Harmless(<<e>>, n, r)
<1>1. <<e>> \in Seq(Event) /\ UpTo(<<e>>, n)
  BY DEF UpTo
<1>2. ASSUME NEW v \in Picture, PileFits(v, r)
      PROVE  \E w \in Picture : Runs(v, <<e>>, w, n, r) /\ PileFits(w, r)
  <2>1. Draw(v, e) \in Picture /\ PileFits(Draw(v, e), r)
    BY <1>2, DrawnPicture DEF PileFits
  <2>2. Runs(v, <<e>>, Draw(v, e), n, r)
    BY <2>1, RunsOne
  <2> QED BY <2>1, <2>2
<1> QED BY <1>1, <1>2 DEF Harmless

LEMMA HarmlessOn ==
  ASSUME NEW p, NEW q, NEW n, NEW r, Harmless(p, n, r), Harmless(q, n, r)
  PROVE  Harmless(p \o q, n, r)
<1>1. p \o q \in Seq(Event) /\ UpTo(p \o q, n)
  BY UpToBoth DEF Harmless
<1>2. ASSUME NEW v \in Picture, PileFits(v, r)
      PROVE  \E w \in Picture : Runs(v, p \o q, w, n, r) /\ PileFits(w, r)
  <2>1. PICK w \in Picture : Runs(v, p, w, n, r) /\ PileFits(w, r)
    BY <1>2 DEF Harmless
  <2>2. PICK x \in Picture : Runs(w, q, x, n, r) /\ PileFits(x, r)
    BY <2>1 DEF Harmless
  <2>3. p \in Seq(Event) /\ q \in Seq(Event)
    BY DEF Harmless
  <2>4. Runs(v, p \o q, x, n, r)
    BY <2>1, <2>2, <2>3, RunsOn
  <2> QED BY <2>2, <2>4
<1> QED BY <1>1, <1>2 DEF Harmless

LEMMA WinsHarmless ==
  ASSUME NEW s, NEW t, WellTyped(t), NEW k \in Nat, NEW n \in Nat, k <= n, NEW r
  PROVE  Harmless(Wins(s, t, k), n, r)
<1> DEFINE e == [type |-> "player_won", seq |-> k, winners |-> t.winners,
                 over |-> t.phase = "finished"]
<1>1. t.winners \in Seq(User)
  BY DEF WellTyped, Room
<1>2. e \in Event /\ e.type = "player_won" /\ e.seq = k
  BY <1>1 DEF Event, Numbering, WinNews
<1>3. Wins(s, t, k) = <<e>> \/ Wins(s, t, k) = <<>>
  BY DEF Wins
<1> HIDE DEF e
<1> QED BY <1>2, <1>3, HarmlessNone, HarmlessOne

LEMMA PassedHarmless ==
  ASSUME NEW s, NEW t, WellTyped(t), NEW k \in Nat, NEW n \in Nat, k <= n, NEW r
  PROVE  Harmless(Passed(s, t, k), n, r)
<1> DEFINE e == [type |-> "stack_burned", seq |-> k]
<1>1. e \in Event /\ e.type = "stack_burned" /\ e.seq = k
  BY DEF Event, Numbering, Notice
<1>2. Burned(s, t, k) = <<e>> \/ Burned(s, t, k) = <<>>
  BY DEF Burned
<1> HIDE DEF e
<1>3. Harmless(Burned(s, t, k), n, r)
  BY <1>1, <1>2, HarmlessNone, HarmlessOne
<1> QED BY <1>3, WinsHarmless, HarmlessOn DEF Passed

LEMMA NoticeHarmless ==
  ASSUME NEW type \in {"ack", "stack_burned", "challenge_result"},
         NEW k \in Nat, NEW n \in Nat, k <= n, NEW r
  PROVE  Harmless(<<[type |-> type, seq |-> k]>>, n, r)
<1> DEFINE e == [type |-> type, seq |-> k]
<1>1. e \in Event /\ e.type = type /\ e.seq = k
  BY DEF Event, Numbering, Notice
<1> HIDE DEF e
<1>2. Harmless(<<e>>, n, r)
  BY <1>1, HarmlessOne
<1> QED BY <1>2 DEF e

LEMMA AcceptedHarmless ==
  ASSUME NEW id \in Nat, NEW k \in Nat, NEW n \in Nat, k <= n, NEW r
  PROVE  Harmless(Accepted(id, k), n, r)
<1> DEFINE e == [type |-> "action_accepted", id |-> id, seq |-> k]
<1>1. e \in Event /\ e.type = "action_accepted" /\ e.seq = k
  BY DEF Event, Numbering, Approval
<1> HIDE DEF e
<1>2. Harmless(<<e>>, n, r)
  BY <1>1, HarmlessOne
<1> QED BY <1>2 DEF e, Accepted

LEMMA RejectedHarmless ==
  ASSUME NEW id \in Nat, NEW n, NEW r
  PROVE  Harmless(Rejected(id), n, r)
<1> DEFINE d == [type |-> "action_rejected", id |-> id]
           e == [type |-> "error", id |-> id]
<1>1. /\ d \in Event /\ d.type = "action_rejected" /\ ~Numbers(d)
      /\ e \in Event /\ e.type = "error" /\ ~Numbers(e)
  BY DEF Event, Refusal, Numbers
<1>2. Rejected(id) = <<d>> \o <<e>>
  BY DEF Rejected
<1> HIDE DEF d, e
<1>3. Harmless(<<d>>, n, r) /\ Harmless(<<e>>, n, r)
  BY <1>1, HarmlessOne
<1> QED BY <1>2, <1>3, HarmlessOn

LEMMA ShownGame ==
  ASSUME NEW s, Good(s)
  PROVE  Shown(s) \in Game
<1>1. s \in Room /\ Seated(s) \subseteq User
  BY TableOfRoom DEF Good, WellTyped
<1>2. s.topPlay # NoPlay => s.topPlay.player \in User
  BY <1>1 DEF Room, TopPlay
<1> QED BY <1>1, <1>2 DEF Good, Shown, Game, Phases, Somebody, Room

LEMMA GameStateDraws ==
  ASSUME NEW s, Good(s), NEW n \in Nat
  PROVE  /\ GameState(s, n) \in Event /\ GameState(s, n).seq = n
         /\ \A v \in Picture : Agrees(Draw(v, GameState(s, n)), s)
<1> DEFINE e == GameState(s, n)
<1>1. Shown(s) \in Game
  BY ShownGame
<1>2. s.hands[Me] \in SUBSET Card
  BY MeIsUser DEF Good, WellTyped, Room
<1>3. /\ e.type = "game_state" /\ e.game = Shown(s) /\ e.hand = s.hands[Me]
      /\ e.seq = n /\ e \in Event
  BY <1>1, <1>2 DEF GameState, Event, Numbering, GameNews
<1> HIDE DEF e
<1>4. ASSUME NEW v \in Picture PROVE Agrees(Draw(v, e), s)
  <2> DEFINE f == Shown(s)
             g == MergeGameState(v.game, e)
  <2>1. Draw(v, e).game = g /\ Draw(v, e).hand = s.hands[Me]
    BY <1>3 DEF Draw, NextGame
  <2>2. /\ f.phase = s.phase /\ f.seats = s.seats /\ f.away = Seated(s) \ s.online
        /\ f.won = s.done /\ f.host = s.host /\ f.counts = s.handCount
        /\ f.stackCount = s.stackCount /\ f.rank = s.claimedRank
        /\ f.turn = s.turn /\ f.finishing = s.pending
        /\ f.top = IF s.topPlay = NoPlay THEN NoOne ELSE s.topPlay.player
    BY DEF Shown
  <2>3. f \in Game
    BY <1>1
  <2> HIDE DEF f
  <2>4. /\ g.phase = f.phase /\ g.seats = f.seats /\ g.away = f.away
        /\ g.won = f.won /\ g.host = f.host /\ g.counts = f.counts
        /\ g.stackCount = f.stackCount /\ g.rank = f.rank
        /\ g.turn = f.turn /\ g.finishing = f.finishing
        /\ g.top = IF f.top = NoOne THEN v.game.top ELSE f.top
    BY <1>3, <2>3 DEF MergeGameState, Game, f
  <2>5. s.stackCount # 0 => s.topPlay # NoPlay /\ s.topPlay.player # NoOne
    <3>1. s.stackCount # 0 => s.topPlay # NoPlay
      BY DEF Good, PileCounted
    <3>2. s.topPlay \in TopPlay \cup {NoPlay}
      BY DEF Good, WellTyped, Room
    <3> QED BY <3>1, <3>2, IdentityAssumption DEF TopPlay
  <2> HIDE DEF g
  <2> QED BY <2>1, <2>2, <2>4, <2>5 DEF Agrees
<1> QED BY <1>3, <1>4 DEF e

LEMMA RoomStateDraws ==
  ASSUME NEW s, Good(s), NEW n \in Nat
  PROVE  /\ RoomState(s, n) \in Event /\ RoomState(s, n).seq = n
         /\ \A v \in Picture :
              /\ Draw(v, RoomState(s, n)).drawn = v.drawn
              /\ s.phase = "lobby" \/ Agrees(v, s) => Agrees(Draw(v, RoomState(s, n)), s)
<1> DEFINE e == RoomState(s, n)
<1>1. s \in Room /\ Seated(s) \subseteq User
  BY TableOfRoom DEF Good, WellTyped
<1>2. /\ e.type = "room_state" /\ e.phase = s.phase /\ e.seats = s.seats
      /\ e.away = Seated(s) \ s.online /\ e.won = s.done /\ e.host = s.host
      /\ e.counts = s.handCount /\ e.seq = n
  BY DEF RoomState
<1>3. e \in Event
  BY <1>1 DEF RoomState, Event, Numbering, RoomNews, Room, Phases, Somebody
<1> HIDE DEF e
<1>4. ASSUME NEW v \in Picture
      PROVE  /\ Draw(v, e).drawn = v.drawn
             /\ s.phase = "lobby" \/ Agrees(v, s) => Agrees(Draw(v, e), s)
  <2> DEFINE g == MergeRoomState(v.game, e)
  <2>1. Draw(v, e).game = g /\ Draw(v, e).hand = v.hand
    BY <1>2 DEF Draw, NextGame
  <2>2. v.drawn \in BOOLEAN /\ v.game \in Game
    BY DEF Picture
  <2>3. Draw(v, e).drawn = v.drawn
    BY <1>2, <2>2 DEF Draw
  <2>4. /\ g.phase = s.phase /\ g.seats = s.seats /\ g.away = Seated(s) \ s.online
        /\ g.won = s.done /\ g.host = s.host /\ g.counts = s.handCount
        /\ g.stackCount = v.game.stackCount /\ g.rank = v.game.rank
        /\ g.turn = v.game.turn /\ g.finishing = v.game.finishing
        /\ g.top = v.game.top
    BY <1>2, <2>2 DEF MergeRoomState, Game
  <2> HIDE DEF g
  <2> QED BY <2>1, <2>3, <2>4 DEF Agrees
<1> QED BY <1>2, <1>3, <1>4 DEF e
----------------------------------------------------------------------------
(* What a step of the room and the events of its handler do to a picture     *)
(* that showed the room.                                                     *)

\* When Me is on turn after the step, the pile is empty, or Me was on turn
\* before it and the pile is what it was, or another player was.
PileGoesOn(s, t) ==
  t.phase = "playing" /\ t.turn = Me =>
    \/ t.stackCount = 0
    \/ s.phase = "playing" /\ s.turn # Me
    \/ s.phase = "playing" /\ t.stackCount = s.stackCount /\ t.topPlay = s.topPlay

LEMMA PileAhead ==
  ASSUME NEW v, NEW s, NEW t, Agrees(v, s), PileGoesOn(s, t)
  PROVE  PileFits(v, t)
BY DEF Agrees, PileGoesOn, PileFits

\* A handler that ends with game_state.
LEMMA CarriesState ==
  ASSUME NEW s, NEW t, Good(t), NEW n \in Nat, PileGoesOn(s, t),
         NEW es, Harmless(es, n, t)
  PROVE  Carries(es \o <<GameState(t, n)>>, s, n, t)
<1> DEFINE e == GameState(t, n)
<1>1. /\ e \in Event /\ e.seq = n
      /\ \A v \in Picture : Agrees(Draw(v, e), t)
  BY GameStateDraws
<1> HIDE DEF e
<1>2. <<e>> \in Seq(Event) /\ UpTo(<<e>>, n)
  BY <1>1 DEF UpTo
<1>3. es \o <<e>> \in Seq(Event) /\ UpTo(es \o <<e>>, n)
  BY <1>2, UpToBoth DEF Harmless
<1>4. ASSUME NEW v \in Picture, Agrees(v, s)
      PROVE  \E w \in Picture : Runs(v, es \o <<e>>, w, n, t) /\ Agrees(w, t)
  <2>1. PICK x \in Picture : Runs(v, es, x, n, t) /\ PileFits(x, t)
    BY <1>4, PileAhead DEF Harmless
  <2>2. Draw(x, e) \in Picture /\ Agrees(Draw(x, e), t) /\ PileFits(Draw(x, e), t)
    BY <1>1, DrawnPicture, AgreesFits
  <2>3. Runs(x, <<e>>, Draw(x, e), n, t)
    BY <1>1, <2>2, RunsOne
  <2>4. Runs(v, es \o <<e>>, Draw(x, e), n, t)
    BY <1>2, <2>1, <2>3, RunsOn DEF Harmless
  <2> QED BY <2>2, <2>4
<1>5. Carries(es \o <<e>>, s, n, t)
  BY <1>3, <1>4 DEF Carries
<1> QED BY <1>5 DEF e

LEMMA CarriesStateAlone ==
  ASSUME NEW s, NEW t, Good(t), NEW n \in Nat, PileGoesOn(s, t)
  PROVE  Carries(<<GameState(t, n)>>, s, n, t)
<1>1. Carries(<<>> \o <<GameState(t, n)>>, s, n, t)
  BY HarmlessNone, CarriesState
<1>2. <<>> \o <<GameState(t, n)>> = <<GameState(t, n)>>
  OBVIOUS
<1> QED BY <1>1, <1>2

\* A handler of the lobby that ends with room_state.
LEMMA CarriesLobby ==
  ASSUME NEW s, NEW t, Good(t), t.phase = "lobby", NEW n \in Nat,
         NEW es, Harmless(es, n, t)
  PROVE  Carries(es \o <<RoomState(t, n)>>, s, n, t)
<1> DEFINE e == RoomState(t, n)
<1>1. /\ e \in Event /\ e.seq = n
      /\ \A v \in Picture : Agrees(Draw(v, e), t)
  BY RoomStateDraws
<1> HIDE DEF e
<1>2. <<e>> \in Seq(Event) /\ UpTo(<<e>>, n)
  BY <1>1 DEF UpTo
<1>3. es \o <<e>> \in Seq(Event) /\ UpTo(es \o <<e>>, n)
  BY <1>2, UpToBoth DEF Harmless
<1>4. ASSUME NEW v \in Picture, Agrees(v, s)
      PROVE  \E w \in Picture : Runs(v, es \o <<e>>, w, n, t) /\ Agrees(w, t)
  <2>1. PICK x \in Picture : Runs(v, es, x, n, t)
    BY <1>4 DEF Harmless, PileFits
  <2>2. Draw(x, e) \in Picture /\ Agrees(Draw(x, e), t) /\ PileFits(Draw(x, e), t)
    BY <1>1, DrawnPicture, AgreesFits
  <2>3. Runs(x, <<e>>, Draw(x, e), n, t)
    BY <1>1, <2>2, RunsOne
  <2>4. Runs(v, es \o <<e>>, Draw(x, e), n, t)
    BY <1>2, <2>1, <2>3, RunsOn DEF Harmless
  <2> QED BY <2>2, <2>4
<1>5. Carries(es \o <<e>>, s, n, t)
  BY <1>3, <1>4 DEF Carries
<1> QED BY <1>5 DEF e

\* One event after which the picture shows the room.
LEMMA CarriesOne ==
  ASSUME NEW s, NEW t, NEW n \in Nat, NEW e \in Event, Numbers(e) => e.seq <= n,
         \A v \in Picture : Agrees(v, s) => Agrees(Draw(v, e), t)
  PROVE  Carries(<<e>>, s, n, t)
<1>1. <<e>> \in Seq(Event) /\ UpTo(<<e>>, n)
  BY DEF UpTo
<1>2. ASSUME NEW v \in Picture, Agrees(v, s)
      PROVE  \E w \in Picture : Runs(v, <<e>>, w, n, t) /\ Agrees(w, t)
  <2>1. Draw(v, e) \in Picture /\ Agrees(Draw(v, e), t) /\ PileFits(Draw(v, e), t)
    BY <1>2, DrawnPicture, AgreesFits
  <2>2. Runs(v, <<e>>, Draw(v, e), n, t)
    BY <2>1, RunsOne
  <2> QED BY <2>1, <2>2
<1> QED BY <1>1, <1>2 DEF Carries

LEMMA CarriesNone ==
  ASSUME NEW s, NEW n
  PROVE  Carries(<<>>, s, n, s)
<1>1. <<>> \in Seq(Event) /\ UpTo(<<>>, n)
  BY DEF UpTo
<1> QED BY <1>1, RunsNone DEF Carries

\* While the room stays as it is.
LEMMA CarriesOn ==
  ASSUME NEW s, NEW n, NEW p, NEW q, Carries(p, s, n, s), Carries(q, s, n, s)
  PROVE  Carries(p \o q, s, n, s)
<1>1. p \o q \in Seq(Event) /\ UpTo(p \o q, n)
  BY UpToBoth DEF Carries
<1>2. ASSUME NEW v \in Picture, Agrees(v, s)
      PROVE  \E w \in Picture : Runs(v, p \o q, w, n, s) /\ Agrees(w, s)
  <2>1. PICK w \in Picture : Runs(v, p, w, n, s) /\ Agrees(w, s)
    BY <1>2 DEF Carries
  <2>2. PICK x \in Picture : Runs(w, q, x, n, s) /\ Agrees(x, s)
    BY <2>1 DEF Carries
  <2>3. p \in Seq(Event) /\ q \in Seq(Event)
    BY DEF Carries
  <2>4. Runs(v, p \o q, x, n, s)
    BY <2>1, <2>2, <2>3, RunsOn
  <2> QED BY <2>2, <2>4
<1> QED BY <1>1, <1>2 DEF Carries

LEMMA SnapshotCarries ==
  ASSUME NEW s, Good(s), NEW n \in Nat
  PROVE  Carries(Snapshot(s, n), s, n, s)
<1>1. Carries(<<RoomState(s, n)>>, s, n, s)
  BY RoomStateDraws, CarriesOne
<1>2. Carries(<<GameState(s, n)>>, s, n, s)
  BY CarriesStateAlone DEF PileGoesOn
<1>3. Snapshot(s, n) = <<RoomState(s, n)>> \o <<GameState(s, n)>>
  BY DEF Snapshot
<1> QED BY <1>1, <1>2, <1>3, CarriesOn

LEMMA SilentDraws ==
  ASSUME NEW v \in Picture, NEW e \in Event,
         e.type \in {"action_rejected", "error", "action_accepted", "ack"}
  PROVE  Draw(v, e) = v
<1>1. v = [game |-> v.game, hand |-> v.hand, drawn |-> v.drawn] /\ v.drawn \in BOOLEAN
  BY DEF Picture
<1>2. NextGame(v.game, e) = v.game
  BY DEF NextGame
<1> QED BY <1>1, <1>2 DEF Draw

LEMMA AcceptedCarries ==
  ASSUME NEW s, NEW id \in Nat, NEW k \in Nat, NEW n \in Nat, k <= n
  PROVE  Carries(Accepted(id, k), s, n, s)
<1> DEFINE e == [type |-> "action_accepted", id |-> id, seq |-> k]
<1>1. e \in Event /\ e.type = "action_accepted" /\ e.seq = k
  BY DEF Event, Numbering, Approval
<1> HIDE DEF e
<1>2. Carries(<<e>>, s, n, s)
  BY <1>1, SilentDraws, CarriesOne
<1> QED BY <1>2 DEF e, Accepted

LEMMA RejectedCarries ==
  ASSUME NEW s, NEW id \in Nat, NEW n \in Nat
  PROVE  Carries(Rejected(id), s, n, s)
<1> DEFINE d == [type |-> "action_rejected", id |-> id]
           e == [type |-> "error", id |-> id]
<1>1. /\ d \in Event /\ d.type = "action_rejected" /\ ~Numbers(d)
      /\ e \in Event /\ e.type = "error" /\ ~Numbers(e)
  BY DEF Event, Refusal, Numbers
<1>2. Rejected(id) = <<d>> \o <<e>>
  BY DEF Rejected
<1> HIDE DEF d, e
<1>3. Carries(<<d>>, s, n, s) /\ Carries(<<e>>, s, n, s)
  BY <1>1, SilentDraws, CarriesOne
<1> QED BY <1>2, <1>3, CarriesOn

\* A player who comes or goes.
PresenceEvent(type, n, p) == [type |-> type, seq |-> n, player |-> p]

LEMMA PresenceDraws ==
  ASSUME NEW type \in {"player_disconnected", "player_reconnected"},
         NEW n \in Nat, NEW p \in User, NEW v \in Picture
  PROVE  /\ PresenceEvent(type, n, p) \in Event
         /\ PresenceEvent(type, n, p).type = type
         /\ PresenceEvent(type, n, p).seq = n
         /\ LET w == Draw(v, PresenceEvent(type, n, p)) IN
              /\ w.game = [v.game EXCEPT !.away =
                             IF type = "player_disconnected" THEN v.game.away \cup {p}
                             ELSE v.game.away \ {p}]
              /\ w.hand = v.hand /\ w.drawn = v.drawn
<1> DEFINE e == PresenceEvent(type, n, p)
<1>1. e.type = type /\ e.seq = n /\ e.player = p
  BY DEF PresenceEvent
<1>2. e \in Event
  BY DEF PresenceEvent, Event, Numbering, Presence
<1> HIDE DEF e
<1>3. v.drawn \in BOOLEAN
  BY DEF Picture
<1>4. Draw(v, e).game = [v.game EXCEPT !.away =
                           IF type = "player_disconnected" THEN v.game.away \cup {p}
                           ELSE v.game.away \ {p}]
  BY <1>1 DEF Draw, NextGame
<1>5. Draw(v, e).hand = v.hand /\ Draw(v, e).drawn = v.drawn
  BY <1>1, <1>3 DEF Draw
<1> QED BY <1>1, <1>2, <1>4, <1>5 DEF e

LEMMA PresenceAgrees ==
  ASSUME NEW v \in Picture, NEW s, NEW t, NEW away, NEW w,
         w.game = [v.game EXCEPT !.away = away], w.hand = v.hand,
         away = Seated(t) \ t.online, Agrees(v, s),
         t.phase = s.phase, t.seats = s.seats, t.done = s.done, t.host = s.host,
         t.handCount = s.handCount, t.stackCount = s.stackCount,
         t.claimedRank = s.claimedRank, t.turn = s.turn, t.pending = s.pending,
         t.hands = s.hands, t.topPlay = s.topPlay
  PROVE  Agrees(w, t)
<1>1. v.game \in Game
  BY DEF Picture
<1> DEFINE g == [v.game EXCEPT !.away = away]
<1>2. /\ g.phase = v.game.phase /\ g.seats = v.game.seats /\ g.away = away
      /\ g.won = v.game.won /\ g.host = v.game.host /\ g.counts = v.game.counts
      /\ g.stackCount = v.game.stackCount /\ g.rank = v.game.rank
      /\ g.turn = v.game.turn /\ g.finishing = v.game.finishing
      /\ g.top = v.game.top
  BY <1>1 DEF Game
<1> HIDE DEF g
<1>3. w.game = g
  BY DEF g
<1> QED BY <1>2, <1>3 DEF Agrees
----------------------------------------------------------------------------
(* The steps of the room, one by one, and what their handlers send. *)

RoomOK == TypeOK /\ Cards /\ Sound(room)

LEMMA RoomIsGood ==
  ASSUME RoomOK
  PROVE  Good(room) /\ room \in Room
BY DEF RoomOK, TypeOK, Cards, Good, WellTyped

LEMMA RoomGoesOn ==
  ASSUME RoomOK, [Next]_room
  PROVE  RoomOK' /\ Good(room')
<1>1. TypeOK' /\ Cards' /\ Sound(room')
  BY StepTypeOK, StepCards, StepSound DEF RoomOK
<1>2. RoomOK'
  BY <1>1 DEF RoomOK, Sound, InPlay, Over, InLobby
<1>3. Good(room')
  BY <1>1 DEF TypeOK, Cards, Good, PileCounted
<1> QED BY <1>2, <1>3

LEMMA StartGamePile ==
  ASSUME RoomOK, NEW p \in User, StartGame(p)
  PROVE  PileGoesOn(room, room')
<1> DEFINE dealt(owner, opener) ==
             [SetCurrentTurn(ClearRound(room), opener) EXCEPT
               !.phase = "playing", !.locked = TRUE, !.ready = {},
               !.winnerCount = IF room.locked THEN @
                               ELSE ClampWinners(@, Len(room.seats)),
               !.winners = <<>>, !.done = {}, !.pending = NoOne,
               !.hands = [q \in User |-> DealtTo(owner, q)],
               !.handCount = [q \in User |-> Cardinality(DealtTo(owner, q))],
               !.result = NoResult]
<1>0. PICK owner \in Deals(room) :
        \E opener \in Openers(room, owner) : room' = dealt(owner, opener)
  BY DEF StartGame
<1>1. PICK opener : room' = dealt(owner, opener)
  BY <1>0
<1> DEFINE c == ClearRound(room)
<1>2. WellTyped(c) /\ NoPile(c)
  BY ClearRoundKeeps, ClearRoundPile DEF RoomOK, TypeOK, KeepsTable
<1> HIDE DEF c
<1>3. room'.stackCount = c.stackCount
  BY <1>1, <1>2 DEF WellTyped, Room, SetCurrentTurn, c
<1> QED BY <1>2, <1>3 DEF NoPile, PileGoesOn

LEMMA ReturnPile ==
  ASSUME RoomOK, NEW p \in User, ReturnToLobby(p)
  PROVE  PileGoesOn(room, room')
<1>1. room'.phase = "finished"
  BY RoomIsGood DEF ReturnToLobby, Room
<1> QED BY <1>1 DEF PileGoesOn

\* A play of Me passes the turn on; after one of another player the tab has
\* not been offering Me a move.
LEMMA PlayPile ==
  ASSUME RoomOK, NEW p \in User, NEW cards \in SUBSET room.hands[p],
         NEW claims \in PlayableClaims(room, Cardinality(cards)),
         PlayCards(p, cards, claims)
  PROVE  PileGoesOn(room, room')
<1>1. room.phase = "playing" /\ room.turn = p
  BY DEF PlayCards, OnTurn
<1>2. room'.phase = "playing" => room'.turn # p
  BY PlayCardsSound DEF RoomOK
<1> QED BY <1>1, <1>2 DEF PileGoesOn

LEMMA ChallengePile ==
  ASSUME RoomOK, NEW p \in User, Challenge(p)
  PROVE  PileGoesOn(room, room')
<1> DEFINE loser == IF IsClaimBluff(room.topPlay.cards, room.topPlay.claims)
                    THEN room.topPlay.player ELSE p
<1>1. NoPile(room')
  BY ChallengeMoves DEF RoomOK
<1> QED BY <1>1 DEF NoPile, PileGoesOn

LEMMA SkipPile ==
  ASSUME RoomOK, NEW p \in User, room.phase = "playing", room' = ApplySkip(room, p)
  PROVE  PileGoesOn(room, room')
<1>1. KeepsPile(room, room')
  BY SkipMoves DEF RoomOK
<1> QED BY <1>1 DEF KeepsPile, SamePile, NoPile, PileGoesOn

LEMMA LeavePile ==
  ASSUME RoomOK, NEW p \in User, LeaveRoom(p)
  PROVE  /\ PileGoesOn(room, room')
         /\ WellTyped(IF room.phase = "playing" /\ room.turn = p
                      THEN ApplySkip(room, p) ELSE room)
<1> DEFINE passed == IF room.phase = "playing" /\ room.turn = p
                     THEN ApplySkip(room, p) ELSE room
           gone == RemoveSeat(passed, p)
           settled == IF gone.phase = "playing"
                      THEN MaybeEndGame(ReconcileSkipProgression(gone))
                      ELSE gone
           cleared == ClearPlayerRuntime(settled, p)
           t == TransferHost(cleared, p)
<1>1. WellTyped(room) /\ p \in Seated(room) /\ room' = t
  BY DEF RoomOK, TypeOK, LeaveRoom, IsController
<1>2. WellTyped(passed) /\ WellTyped(cleared) /\ Goes(room, cleared)
  BY <1>1, LeaveChain
<1>3. t.phase = cleared.phase
  BY <1>2, TransferHostLeaves
<1> HIDE DEF cleared
<1>4. Goes(room, room')
  BY <1>1, <1>2, <1>3 DEF Goes
<1>5. KeepsPile(room, room')
  BY LeaveMoves DEF RoomOK
<1>6. PileGoesOn(room, room')
  BY <1>4, <1>5 DEF Goes, KeepsPile, SamePile, NoPile, PileGoesOn
<1> QED BY <1>2, <1>6

\* What the coming or going of a player leaves as it was.
LEMMA PresenceKeeps ==
  ASSUME RoomOK, NEW p \in User, Disconnect(p) \/ Reconnect(p)
  PROVE  /\ room'.phase = room.phase /\ room'.seats = room.seats
         /\ room'.done = room.done /\ room'.handCount = room.handCount
         /\ room'.stackCount = room.stackCount
         /\ room'.claimedRank = room.claimedRank /\ room'.turn = room.turn
         /\ room'.pending = room.pending /\ room'.hands = room.hands
         /\ room'.topPlay = room.topPlay
         /\ room.phase # "lobby" \/ Reconnect(p) => room'.host = room.host
         /\ room'.online = IF Reconnect(p) THEN room.online \cup {p}
                           ELSE room.online \ {p}
<1>1. room \in Room
  BY RoomIsGood
<1>2. CASE Reconnect(p)
  BY <1>1, <1>2 DEF Room, Reconnect
<1>3. CASE Disconnect(p) /\ ~Reconnect(p)
  <2> DEFINE s == [room EXCEPT !.online = room.online \ {p}]
  <2>1. /\ s.phase = room.phase /\ s.host = room.host
        /\ room' = IF s.phase = "lobby" /\ s.host = p
                   THEN [s EXCEPT !.host = FirstOnline(s, p)] ELSE s
    BY <1>1, <1>3 DEF Room, Disconnect
  <2>2. s \in [phase : {"lobby", "playing", "finished"},
         seats : {room.seats}, online : {room.online \ {p}}, host : {room.host},
         deckCount : {room.deckCount}, winnerCount : {room.winnerCount}, locked : {room.locked},
         hands : {room.hands}, handCount : {room.handCount},
         done : {room.done}, winners : {room.winners}, pending : {room.pending},
         stack : {room.stack}, stackCount : {room.stackCount},
         claimedRank : {room.claimedRank}, topPlay : {room.topPlay},
         turn : {room.turn}, skips : {room.skips}, ready : {room.ready},
         result : {room.result}]
    BY <1>1 DEF Room
  <2> HIDE DEF s
  <2> QED BY <1>3, <2>1, <2>2
<1> QED BY <1>2, <1>3
----------------------------------------------------------------------------
(* What the handlers of the other players and the clock send. *)

Answers(e) == e.type \in {"action_accepted", "action_rejected", "error"}

\* All the answers among the events are to commands of ids.
Speaks(es, ids) == \A i \in 1..Len(es) : Answers(es[i]) => es[i].id \in ids

LEMMA SpeaksBoth ==
  ASSUME NEW p \in Seq(Event), NEW q \in Seq(Event), NEW ids,
         Speaks(p, ids), Speaks(q, ids)
  PROVE  Speaks(p \o q, ids)
<1> DEFINE pq == p \o q
<1>1. /\ Len(pq) = Len(p) + Len(q)
      /\ \A i \in 1..Len(pq) : pq[i] = IF i <= Len(p) THEN p[i] ELSE q[i - Len(p)]
  OBVIOUS
<1>2. ASSUME NEW i \in 1..Len(pq), Answers(pq[i]) PROVE pq[i].id \in ids
  <2>1. CASE i <= Len(p)
    <3>1. i \in 1..Len(p) /\ pq[i] = p[i]
      BY <1>1, <2>1
    <3> HIDE DEF pq
    <3> QED BY <1>2, <3>1 DEF Speaks
  <2>2. CASE i > Len(p)
    <3>1. i - Len(p) \in 1..Len(q) /\ pq[i] = q[i - Len(p)]
      BY <1>1, <2>2
    <3> HIDE DEF pq
    <3> QED BY <1>2, <3>1 DEF Speaks
  <2> QED BY <1>1, <2>1, <2>2
<1> HIDE DEF pq
<1>3. Speaks(pq, ids)
  BY <1>1, <1>2 DEF Speaks
<1> QED BY <1>3 DEF pq

\* What is broadcast answers nobody.
LEMMA BroadcastsSpeak ==
  ASSUME NEW s, NEW t, NEW n, NEW ids
  PROVE  /\ Speaks(<<>>, ids) /\ Speaks(Wins(s, t, n), ids)
         /\ Speaks(Burned(s, t, n), ids)
         /\ Speaks(<<GameState(t, n)>>, ids) /\ Speaks(<<RoomState(t, n)>>, ids)
<1>1. Speaks(<<>>, ids)
  BY DEF Speaks
<1>2. Speaks(Wins(s, t, n), ids)
  BY DEF Speaks, Answers, Wins
<1>3. Speaks(Burned(s, t, n), ids)
  BY DEF Speaks, Answers, Burned
<1>4. Speaks(<<GameState(t, n)>>, ids) /\ Speaks(<<RoomState(t, n)>>, ids)
  BY DEF Speaks, Answers, GameState, RoomState
<1> QED BY <1>1, <1>2, <1>3, <1>4

LEMMA NewsSpeak ==
  ASSUME NEW type \in {"ack", "challenge_result", "player_disconnected",
                       "player_reconnected"},
         NEW n, NEW p, NEW ids
  PROVE  /\ Speaks(<<[type |-> type, seq |-> n]>>, ids)
         /\ Speaks(<<PresenceEvent(type, n, p)>>, ids)
BY DEF Speaks, Answers, PresenceEvent

LEMMA PassedSpeaks ==
  ASSUME NEW s, NEW t, WellTyped(t), NEW n \in Nat, NEW ids
  PROVE  Speaks(Passed(s, t, n), ids)
<1>1. Wins(s, t, n) \in Seq(Event)
  <2>1. Harmless(Wins(s, t, n), n, s)
    BY WinsHarmless
  <2> QED BY <2>1 DEF Harmless
<1>2. Burned(s, t, n) \in Seq(Event)
  <2>1. Harmless(<<[type |-> "stack_burned", seq |-> n]>>, n, s)
    BY NoticeHarmless
  <2>2. <<[type |-> "stack_burned", seq |-> n]>> \in Seq(Event)
    BY <2>1 DEF Harmless
  <2> QED BY <2>2 DEF Burned
<1> QED BY <1>1, <1>2, BroadcastsSpeak, SpeaksBoth DEF Passed

\* The step of the room and its events: numbers go up with every change, and
\* the events take a picture of the room before to one of the room after.
Announces(es, ids) ==
  /\ seq' \in Nat /\ seq <= seq' /\ (seq' = seq => room' = room)
  /\ Send(es) /\ Carries(es, room, seq', room') /\ Speaks(es, ids)

\* A handler that numbers its step and ends with game_state.
LEMMA EndsWithState ==
  ASSUME Good(room'), NEW n \in Nat, seq \in Nat, seq < n, seq' = n,
         PileGoesOn(room, room'),
         NEW es, Harmless(es, n, room'), NEW ids, Speaks(es, ids),
         Send(es \o <<GameState(room', n)>>)
  PROVE  Announces(es \o <<GameState(room', n)>>, ids)
<1> DEFINE e == GameState(room', n)
<1>1. Carries(es \o <<e>>, room, n, room')
  BY CarriesState
<1>2. e \in Event
  BY GameStateDraws
<1>3. es \in Seq(Event) /\ Speaks(<<e>>, ids)
  BY BroadcastsSpeak DEF Harmless
<1> HIDE DEF e
<1>4. <<e>> \in Seq(Event)
  BY <1>2
<1>5. Speaks(es \o <<e>>, ids)
  BY <1>3, <1>4, SpeaksBoth
<1>6. Announces(es \o <<e>>, ids)
  BY <1>1, <1>5 DEF Announces, e
<1> QED BY <1>6 DEF e

\* A handler that does nothing but end with game_state.
LEMMA OnlyState ==
  ASSUME Good(room'), NEW n \in Nat, seq \in Nat, seq < n, seq' = n,
         PileGoesOn(room, room'), NEW ids, Send(<<GameState(room', n)>>)
  PROVE  Announces(<<GameState(room', n)>>, ids)
<1>1. <<>> \o <<GameState(room', n)>> = <<GameState(room', n)>>
  OBVIOUS
<1>2. Harmless(<<>>, n, room')
  BY HarmlessNone
<1>3. Speaks(<<>>, ids)
  BY BroadcastsSpeak
<1> QED BY <1>1, <1>2, <1>3, EndsWithState

Told(ids) ==
  \/ UNCHANGED <<room, seq, down, dropped>>
  \/ \E es : Announces(es, ids)

LEMMA OtherStartsTold ==
  ASSUME RoomOK, seq \in Nat, NEW p \in User, OtherStarts(p)
  PROVE  [Next]_room /\ Told({})
<1>1. [Next]_room
  BY DEF OtherStarts, Next
<1>2. Good(room') /\ PileGoesOn(room, room')
  BY <1>1, RoomGoesOn, StartGamePile DEF OtherStarts
<1>3. seq' = seq + 1 /\ Send(<<GameState(room', seq + 1)>>)
  BY DEF OtherStarts, Advance
<1>4. Announces(<<GameState(room', seq + 1)>>, {})
  BY <1>2, <1>3, OnlyState
<1> QED BY <1>1, <1>4 DEF Told

LEMMA OtherReturnsTold ==
  ASSUME RoomOK, seq \in Nat, NEW p \in User, OtherReturns(p)
  PROVE  [Next]_room /\ Told({})
<1>1. [Next]_room
  BY DEF OtherReturns, Next
<1>2. CASE p \in room.ready
  <2>1. room' = [room EXCEPT !.ready = room.ready \cup {p}]
    BY DEF OtherReturns, ReturnToLobby
  <2>2. room.ready \cup {p} = room.ready /\ room \in Room
    BY <1>2, RoomIsGood
  <2>3. room' = room
    BY <2>1, <2>2 DEF Room
  <2> QED BY <1>1, <1>2, <2>3 DEF Told, OtherReturns
<1>3. CASE p \notin room.ready
  <2>1. Good(room') /\ PileGoesOn(room, room')
    BY <1>1, RoomGoesOn, ReturnPile DEF OtherReturns
  <2>2. seq' = seq + 1 /\ Send(<<GameState(room', seq + 1)>>)
    BY <1>3 DEF OtherReturns, Advance
  <2>3. Announces(<<GameState(room', seq + 1)>>, {})
    BY <2>1, <2>2, OnlyState
  <2> QED BY <1>1, <2>3 DEF Told
<1> QED BY <1>2, <1>3

LEMMA OtherPlaysTold ==
  ASSUME RoomOK, seq \in Nat, NEW p \in User, OtherPlays(p)
  PROVE  [Next]_room /\ Told({})
<1> DEFINE n == seq + 1
           w == Wins(room, room', n)
<1>1. PICK cards \in SUBSET room.hands[p] :
        \E claims \in PlayableClaims(room, Cardinality(cards)) : PlayCards(p, cards, claims)
  BY DEF OtherPlays
<1>2. PICK claims \in PlayableClaims(room, Cardinality(cards)) : PlayCards(p, cards, claims)
  BY <1>1
<1>3. [Next]_room
  BY <1>2 DEF Next
<1>4. Good(room') /\ PileGoesOn(room, room')
  BY <1>2, <1>3, RoomGoesOn, PlayPile
<1>5. n \in Nat /\ seq < n /\ seq' = n /\ Send(w \o <<GameState(room', n)>>)
  BY DEF OtherPlays, Advance
<1>6. Harmless(w, n, room') /\ Speaks(w, {})
  <2>1. n \in Nat /\ n <= n
    OBVIOUS
  <2> QED BY <1>4, <2>1, WinsHarmless, BroadcastsSpeak DEF Good
<1> HIDE DEF n, w
<1>7. Announces(w \o <<GameState(room', n)>>, {})
  BY <1>4, <1>5, <1>6, EndsWithState
<1> QED BY <1>3, <1>7 DEF Told

LEMMA PairIsConcat ==
  ASSUME NEW S, NEW a \in S, NEW b \in S
  PROVE  <<a, b>> = <<a>> \o <<b>>
<1> DEFINE t == <<a>> \o <<b>>
<1>1. t \in Seq(S) /\ Len(t) = 2 /\ t[1] = a /\ t[2] = b
  OBVIOUS
<1>2. <<a, b>> \in Seq(S) /\ Len(<<a, b>>) = 2 /\ <<a, b>>[1] = a /\ <<a, b>>[2] = b
  OBVIOUS
<1> HIDE DEF t
<1>3. <<a, b>> = t
  BY <1>1, <1>2, SeqEqual
<1> QED BY <1>3 DEF t

LEMMA OtherChallengesTold ==
  ASSUME RoomOK, seq \in Nat, NEW p \in User, OtherChallenges(p)
  PROVE  [Next]_room /\ Told({})
<1> DEFINE n == seq + 1
           w == Wins(room, room', n)
           c == [type |-> "challenge_result", seq |-> n]
           g == GameState(room', n)
<1>1. [Next]_room
  BY DEF OtherChallenges, Next
<1>2. Good(room') /\ PileGoesOn(room, room')
  BY <1>1, RoomGoesOn, ChallengePile DEF OtherChallenges
<1>3. n \in Nat /\ seq < n /\ seq' = n /\ n <= n /\ Send(w \o <<c, g>>)
  BY DEF OtherChallenges, Advance
<1>4. Harmless(w, n, room') /\ Speaks(w, {})
  BY <1>2, <1>3, WinsHarmless, BroadcastsSpeak DEF Good
<1>5. Harmless(<<c>>, n, room') /\ Speaks(<<c>>, {})
  BY <1>3, NoticeHarmless, NewsSpeak
<1>6. w \o <<c, g>> = (w \o <<c>>) \o <<g>>
  <2>1. w \in Seq(Event) /\ <<c>> \in Seq(Event)
    BY <1>4, <1>5 DEF Harmless
  <2>2. g \in Event
    BY <1>2, <1>3, GameStateDraws
  <2> HIDE DEF w, c, g
  <2>3. <<g>> \in Seq(Event)
    BY <2>2
  <2>4. <<c, g>> = <<c>> \o <<g>>
    <3>1. c \in Event
      BY <2>1
    <3> QED BY <2>2, <3>1, PairIsConcat
  <2> QED BY <2>1, <2>3, <2>4, ConcatAssociative
<1> HIDE DEF n, w, c
<1>7. Harmless(w \o <<c>>, n, room')
  BY <1>4, <1>5, HarmlessOn
<1>8. Speaks(w \o <<c>>, {})
  BY <1>4, <1>5, SpeaksBoth DEF Harmless
<1>9. Announces((w \o <<c>>) \o <<GameState(room', n)>>, {})
  BY <1>2, <1>3, <1>6, <1>7, <1>8, EndsWithState
<1> QED BY <1>1, <1>9 DEF Told

LEMMA SkippedTold ==
  ASSUME RoomOK, seq \in Nat, NEW p \in User, [Next]_room,
         room.phase = "playing", room' = ApplySkip(room, p),
         Advance(1, Passed(room, room', seq + 1) \o <<GameState(room', seq + 1)>>)
  PROVE  Told({})
<1> DEFINE n == seq + 1
           w == Passed(room, room', n)
<1>1. Good(room') /\ PileGoesOn(room, room')
  BY RoomGoesOn, SkipPile
<1>2. n \in Nat /\ seq < n /\ seq' = n /\ n <= n /\ Send(w \o <<GameState(room', n)>>)
  BY DEF Advance
<1>3. Harmless(w, n, room') /\ Speaks(w, {})
  BY <1>1, <1>2, PassedHarmless, PassedSpeaks DEF Good
<1> HIDE DEF n, w
<1>4. Announces(w \o <<GameState(room', n)>>, {})
  BY <1>1, <1>2, <1>3, EndsWithState
<1> QED BY <1>4 DEF Told

LEMMA OtherSkipsTold ==
  ASSUME RoomOK, seq \in Nat, NEW p \in User, OtherSkips(p)
  PROVE  [Next]_room /\ Told({})
<1>1. [Next]_room
  BY DEF OtherSkips, Next
<1>2. room.phase = "playing" /\ room' = ApplySkip(room, p)
  BY DEF OtherSkips, Skip, OnTurn
<1> QED BY <1>1, <1>2, SkippedTold DEF OtherSkips

LEMMA ClockSkipsTold ==
  ASSUME RoomOK, seq \in Nat, ClockSkips
  PROVE  [Next]_room /\ Told({})
<1>1. [Next]_room
  BY DEF ClockSkips, Next
<1>2. room.phase = "playing" /\ room' = ApplySkip(room, room.turn) /\ room.turn \in User
  BY RoomIsGood DEF ClockSkips, TurnTimerExpired, Room
<1> QED BY <1>1, <1>2, SkippedTold DEF ClockSkips

LEMMA OtherLeavesTold ==
  ASSUME RoomOK, seq \in Nat, NEW p \in User, OtherLeaves(p)
  PROVE  [Next]_room /\ Told({})
<1>1. [Next]_room
  BY DEF OtherLeaves, Next
<1>2. Good(room') /\ PileGoesOn(room, room')
  BY <1>1, RoomGoesOn, LeavePile DEF OtherLeaves
<1>3. PICK passed, last :
        /\ WellTyped(passed)
        /\ last \in Nat /\ seq + 1 <= last /\ seq' = seq + (last - seq)
        /\ Send(Passed(room, passed, seq + 1) \o Passed(passed, room', last)
                  \o IF room'.phase = "lobby" THEN <<RoomState(room', last)>>
                                              ELSE <<GameState(room', last)>>)
  <2> DEFINE onTurn == room.phase = "playing" /\ room.turn = p
             passed == IF onTurn THEN ApplySkip(room, p) ELSE room
             last   == IF onTurn THEN seq + 2 ELSE seq + 1
  <2>1. WellTyped(passed)
    BY LeavePile DEF OtherLeaves
  <2>2. last \in Nat /\ seq + 1 <= last
    OBVIOUS
  <2>3. /\ seq' = seq + (last - seq)
        /\ Send(Passed(room, passed, seq + 1) \o Passed(passed, room', last)
                  \o IF room'.phase = "lobby" THEN <<RoomState(room', last)>>
                                              ELSE <<GameState(room', last)>>)
    BY DEF OtherLeaves, Advance
  <2> HIDE DEF passed, last
  <2> QED BY <2>1, <2>2, <2>3
<1> DEFINE v == Passed(room, passed, seq + 1)
           w == Passed(passed, room', last)
<1>4. /\ last \in Nat /\ seq < last /\ seq' = last /\ last <= last
      /\ seq + 1 \in Nat /\ seq + 1 <= last
  BY <1>3
<1>5. Harmless(v, last, room') /\ Speaks(v, {})
  BY <1>3, <1>4, PassedHarmless, PassedSpeaks
<1>6. Harmless(w, last, room') /\ Speaks(w, {})
  BY <1>2, <1>4, PassedHarmless, PassedSpeaks DEF Good
<1>7. Send((v \o w) \o IF room'.phase = "lobby" THEN <<RoomState(room', last)>>
                                                ELSE <<GameState(room', last)>>)
  BY <1>3
<1> HIDE DEF v, w
<1>8. Harmless(v \o w, last, room') /\ Speaks(v \o w, {})
  BY <1>5, <1>6, HarmlessOn, SpeaksBoth DEF Harmless
<1> DEFINE vw == v \o w
<1> HIDE DEF vw
<1>9. /\ Harmless(vw, last, room') /\ Speaks(vw, {})
      /\ Send(vw \o IF room'.phase = "lobby" THEN <<RoomState(room', last)>>
                                             ELSE <<GameState(room', last)>>)
  BY <1>7, <1>8 DEF vw
<1>10. CASE room'.phase # "lobby"
  <2>1. Send(vw \o <<GameState(room', last)>>)
    BY <1>9, <1>10
  <2>2. Announces(vw \o <<GameState(room', last)>>, {})
    BY <1>2, <1>4, <1>9, <2>1, EndsWithState
  <2> QED BY <1>1, <2>2 DEF Told
<1>11. CASE room'.phase = "lobby"
  <2> DEFINE e == RoomState(room', last)
  <2>1. Send(vw \o <<e>>)
    BY <1>9, <1>11
  <2>2. Carries(vw \o <<e>>, room, last, room')
    BY <1>2, <1>4, <1>9, <1>11, CarriesLobby
  <2>3. e \in Event /\ Speaks(<<e>>, {})
    BY <1>2, <1>4, RoomStateDraws, BroadcastsSpeak
  <2> HIDE DEF e
  <2>4. Speaks(vw \o <<e>>, {})
    <3>1. <<e>> \in Seq(Event) /\ vw \in Seq(Event)
      BY <1>9, <2>3 DEF Harmless
    <3> QED BY <1>9, <2>3, <3>1, SpeaksBoth
  <2>5. Announces(vw \o <<e>>, {})
    BY <1>4, <2>1, <2>2, <2>4 DEF Announces
  <2> QED BY <1>1, <2>5 DEF Told
<1> QED BY <1>10, <1>11

LEMMA PresenceTyped ==
  ASSUME NEW type \in {"player_disconnected", "player_reconnected"},
         NEW n \in Nat, NEW p \in User
  PROVE  /\ PresenceEvent(type, n, p) \in Event
         /\ PresenceEvent(type, n, p).type = type
         /\ PresenceEvent(type, n, p).seq = n
BY DEF PresenceEvent, Event, Numbering, Presence

LEMMA OtherDropsTold ==
  ASSUME RoomOK, seq \in Nat, NEW p \in User, OtherDrops(p)
  PROVE  [Next]_room /\ Told({})
<1> DEFINE n == seq + 1
           e == PresenceEvent("player_disconnected", n, p)
<1>1. [Next]_room
  BY DEF OtherDrops, Next
<1>2. Good(room') /\ n \in Nat /\ seq < n /\ n <= n
  BY <1>1, RoomGoesOn
<1>3. /\ seq' = n
      /\ Send(<<e>> \o IF room.phase = "lobby" THEN <<RoomState(room', n)>> ELSE <<>>)
  BY DEF OtherDrops, Advance, PresenceEvent
<1>4. /\ e \in Event /\ e.type = "player_disconnected" /\ e.seq = n
      /\ Speaks(<<e>>, {})
  <2>2. e \in Event /\ e.type = "player_disconnected" /\ e.seq = n
    BY <1>2, PresenceTyped
  <2>3. Speaks(<<e>>, {})
    BY NewsSpeak
  <2> QED BY <2>2, <2>3
<1>5. CASE room.phase = "lobby"
  <2>1. room'.phase = "lobby"
    BY <1>5, PresenceKeeps DEF OtherDrops
  <2>2. Harmless(<<e>>, n, room')
    <3> HIDE DEF e
    <3> QED BY <1>2, <1>4, HarmlessOne
  <2> DEFINE f == RoomState(room', n)
  <2>3. Carries(<<e>> \o <<f>>, room, n, room')
    BY <1>2, <2>1, <2>2, CarriesLobby
  <2>4. f \in Event /\ Speaks(<<f>>, {})
    BY <1>2, RoomStateDraws, BroadcastsSpeak
  <2>5. Send(<<e>> \o <<f>>)
    BY <1>3, <1>5
  <2> HIDE DEF e, f
  <2>6. Speaks(<<e>> \o <<f>>, {})
    <3>1. <<e>> \in Seq(Event) /\ <<f>> \in Seq(Event)
      BY <1>4, <2>4
    <3> QED BY <1>4, <2>4, <3>1, SpeaksBoth
  <2>7. Announces(<<e>> \o <<f>>, {})
    BY <1>2, <1>3, <2>3, <2>5, <2>6 DEF Announces
  <2> QED BY <1>1, <2>7 DEF Told
<1>6. CASE room.phase # "lobby"
  <2>1. ASSUME NEW v \in Picture, Agrees(v, room) PROVE Agrees(Draw(v, e), room')
    <3>1. /\ Draw(v, e).game = [v.game EXCEPT !.away = v.game.away \cup {p}]
          /\ Draw(v, e).hand = v.hand
      BY <1>2, PresenceDraws
    <3>2. /\ room'.seats = room.seats /\ room'.online = room.online \ {p}
          /\ room'.host = room.host /\ p \in Seated(room) /\ p \in room.online
          /\ room.online \subseteq Seated(room)
      <4>1. Disconnect(p) /\ p \in room.online /\ p \in Seated(room)
        BY DEF OtherDrops, Disconnect
      <4>2. ~Reconnect(p) \/ room.online \cup {p} = room.online \ {p}
        BY <1>6, <4>1, RoomIsGood DEF Reconnect, Disconnect, Room
      <4> QED BY <1>6, <4>1, <4>2, PresenceKeeps DEF RoomOK, TypeOK, WellTyped
    <3>3. v.game.away \cup {p} = Seated(room') \ room'.online
      BY <2>1, <3>2 DEF Agrees, Seated
    <3>4. Disconnect(p)
      BY DEF OtherDrops
    <3> DEFINE w == Draw(v, e)
               away == v.game.away \cup {p}
    <3>5. /\ w.game = [v.game EXCEPT !.away = away] /\ w.hand = v.hand
          /\ away = Seated(room') \ room'.online
      BY <3>1, <3>3
    <3> HIDE DEF w, away
    <3>6. /\ room'.phase = room.phase /\ room'.seats = room.seats
          /\ room'.done = room.done /\ room'.handCount = room.handCount
          /\ room'.stackCount = room.stackCount
          /\ room'.claimedRank = room.claimedRank /\ room'.turn = room.turn
          /\ room'.pending = room.pending /\ room'.hands = room.hands
          /\ room'.topPlay = room.topPlay /\ room'.host = room.host
      BY <1>6, <3>4, PresenceKeeps
    <3>7. Agrees(w, room')
      BY <2>1, <3>5, <3>6, PresenceAgrees
    <3> QED BY <3>7 DEF w
  <2>2. Send(<<e>>)
    <3>1. <<e>> \o <<>> = <<e>>
      <4> HIDE DEF e
      <4> QED BY <1>4
    <3> QED BY <1>3, <1>6, <3>1
  <2> HIDE DEF e
  <2>3. Carries(<<e>>, room, n, room')
    BY <1>2, <1>4, <2>1, CarriesOne
  <2>4. Announces(<<e>>, {})
    BY <1>2, <1>3, <1>4, <2>2, <2>3 DEF Announces
  <2> QED BY <1>1, <2>4 DEF Told
<1> QED BY <1>5, <1>6

\* The picture follows a player who comes back.
LEMMA BackAgrees ==
  ASSUME RoomOK, NEW p \in User, Reconnect(p), NEW n \in Nat,
         NEW v \in Picture, Agrees(v, room)
  PROVE  Agrees(Draw(v, PresenceEvent("player_reconnected", n, p)), room')
<1> DEFINE e == PresenceEvent("player_reconnected", n, p)
           w == Draw(v, e)
           away == v.game.away \ {p}
<1>1. w.game = [v.game EXCEPT !.away = away] /\ w.hand = v.hand
  BY PresenceDraws
<1>2. /\ room'.phase = room.phase /\ room'.seats = room.seats
      /\ room'.done = room.done /\ room'.handCount = room.handCount
      /\ room'.stackCount = room.stackCount
      /\ room'.claimedRank = room.claimedRank /\ room'.turn = room.turn
      /\ room'.pending = room.pending /\ room'.hands = room.hands
      /\ room'.topPlay = room.topPlay /\ room'.host = room.host
      /\ room'.online = room.online \cup {p}
  BY PresenceKeeps
<1>3. away = Seated(room') \ room'.online
  BY <1>2 DEF Agrees, Seated
<1> HIDE DEF w, away
<1>4. Agrees(w, room')
  BY <1>1, <1>2, <1>3, PresenceAgrees
<1> QED BY <1>4 DEF w, e

LEMMA OtherIsBackTold ==
  ASSUME RoomOK, seq \in Nat, NEW p \in User, OtherIsBack(p)
  PROVE  [Next]_room /\ Told({})
<1> DEFINE n == seq + 1
           e == PresenceEvent("player_reconnected", n, p)
<1>1. [Next]_room
  BY DEF OtherIsBack, Next
<1>2. n \in Nat /\ seq < n /\ n <= n
  OBVIOUS
<1>3. seq' = n /\ Send(<<e>>)
  BY DEF OtherIsBack, Advance, PresenceEvent
<1>4. e \in Event /\ e.seq = n /\ Speaks(<<e>>, {})
  <2>1. e \in Event /\ e.seq = n
    BY <1>2, PresenceTyped
  <2>2. Speaks(<<e>>, {})
    BY NewsSpeak
  <2> QED BY <2>1, <2>2
<1>5. ASSUME NEW v \in Picture, Agrees(v, room) PROVE Agrees(Draw(v, e), room')
  BY <1>2, <1>5, BackAgrees DEF OtherIsBack
<1> HIDE DEF e
<1>6. Carries(<<e>>, room, n, room')
  BY <1>2, <1>4, <1>5, CarriesOne
<1>7. Announces(<<e>>, {})
  BY <1>2, <1>3, <1>4, <1>6 DEF Announces
<1> QED BY <1>1, <1>7 DEF Told

LEMMA RoomStepTold ==
  ASSUME RoomOK, seq \in Nat, RoomStep
  PROVE  [Next]_room /\ Told({}) /\ Elsewhere
<1>1. ASSUME NEW p \in Others,
             \/ OtherStarts(p) \/ OtherReturns(p) \/ OtherPlays(p)
             \/ OtherChallenges(p) \/ OtherSkips(p) \/ OtherLeaves(p)
             \/ OtherDrops(p) \/ OtherIsBack(p)
      PROVE  [Next]_room /\ Told({})
  <2>1. p \in User
    BY DEF Others
  <2> QED BY <1>1, <2>1, OtherStartsTold, OtherReturnsTold, OtherPlaysTold,
            OtherChallengesTold, OtherSkipsTold, OtherLeavesTold,
            OtherDropsTold, OtherIsBackTold
<1>2. ASSUME ClockSkips PROVE [Next]_room /\ Told({})
  BY <1>2, ClockSkipsTold
<1> QED BY <1>1, <1>2 DEF RoomStep
----------------------------------------------------------------------------
(* Commands of Me, and what the room does with one. *)

Declarations == {<<>>} \cup UNION {OpeningClaims(k) : k \in Nat}
PlainMove == [id : Commands, kind : {"start", "return"}]
PileMove == [id : Commands, kind : {"play", "challenge", "skip"}, seq : Nat,
             cards : SUBSET Card, claims : Declarations, top : Somebody,
             stackCount : Nat, whole : BOOLEAN]

\* A declaration was composed on an empty pile, for the cards of the play.
ClaimsFit(m) ==
  m.claims # <<>> => m.stackCount = 0 /\ m.claims \in OpeningClaims(Cardinality(m.cards))

Moves == PlainMove \cup {m \in PileMove : ClaimsFit(m)}

LEMMA MoveTyped ==
  ASSUME NEW m \in Moves
  PROVE  /\ m.id \in Commands /\ m.id \in Nat /\ m.id > 0 /\ m.kind \in Kinds
         /\ m.kind \in {"play", "challenge", "skip"} => m \in PileMove /\ ClaimsFit(m)
         /\ m # NoMove
<1>1. m.id \in Commands
  BY DEF Moves, PlainMove, PileMove
<1>2. m.id \in Nat /\ m.id > 0
  BY <1>1, BoundsAssumption DEF Commands
<1>3. m # NoMove
  BY <1>2 DEF NoMove
<1>4. m.kind \in Kinds
  BY DEF Moves, PlainMove, PileMove, Kinds
<1>5. m.kind \in {"play", "challenge", "skip"} => m \in PileMove /\ ClaimsFit(m)
  BY DEF Moves, PlainMove
<1> QED BY <1>1, <1>2, <1>3, <1>4, <1>5

\* What a play that is accepted declares is playable.
LEMMA AcceptedPlay ==
  ASSUME RoomOK, NEW m \in Moves, m.kind = "play", Accepts(m), Carry(m)
  PROVE  /\ m.cards \in SUBSET room.hands[Me]
         /\ \E claims \in PlayableClaims(room, Cardinality(m.cards)) :
              PlayCards(Me, m.cards, claims)
<1> DEFINE n == Cardinality(m.cards)
           follow == <<[rank |-> room.claimedRank, count |-> n]>>
<1>1. /\ m.cards \subseteq room.hands[Me]
      /\ IF room.stackCount = 0 THEN ValidOpeningClaims(m.claims, n)
         ELSE m.claims = <<>>
  BY DEF Accepts
<1>2. PlayCards(Me, m.cards, IF m.claims # <<>> THEN m.claims ELSE follow)
  BY DEF Carry
<1>3. CASE room.stackCount = 0
  <2>1. m.claims # <<>>
    BY <1>1, <1>3 DEF ValidOpeningClaims
  <2>2. m.claims \in OpeningClaims(n)
    BY <2>1, MoveTyped DEF ClaimsFit
  <2>3. m.claims \in PlayableClaims(room, n)
    BY <1>3, <2>2 DEF PlayableClaims
  <2> QED BY <1>1, <1>2, <2>1, <2>3
<1>4. CASE room.stackCount # 0
  <2>1. room.claimedRank # NoRank
    BY <1>4, RoomIsGood DEF Good, PileCounted
  <2>2. follow \in PlayableClaims(room, n)
    BY <1>4, <2>1 DEF PlayableClaims
  <2>3. m.claims = <<>>
    BY <1>1, <1>4
  <2> QED BY <1>1, <1>2, <2>2, <2>3
<1> QED BY <1>3, <1>4

LEMMA CarriedSteps ==
  ASSUME RoomOK, NEW m \in Moves, Accepts(m), Carry(m)
  PROVE  [Next]_room /\ Good(room') /\ PileGoesOn(room, room')
<1>0. /\ m.kind \in Kinds /\ Me \in User
  BY MoveTyped, MeIsUser
<1>1. CASE m.kind = "start"
  <2>1. StartGame(Me)
    BY <1>1 DEF Carry
  <2>2. [Next]_room
    BY <1>0, <2>1 DEF Next
  <2> QED BY <1>0, <2>1, <2>2, RoomGoesOn, StartGamePile
<1>2. CASE m.kind = "return"
  <2>1. ReturnToLobby(Me)
    BY <1>2 DEF Carry
  <2>2. [Next]_room
    BY <1>0, <2>1 DEF Next
  <2> QED BY <1>0, <2>1, <2>2, RoomGoesOn, ReturnPile
<1>3. CASE m.kind = "play"
  <2>1. PICK claims \in PlayableClaims(room, Cardinality(m.cards)) :
          PlayCards(Me, m.cards, claims)
    BY <1>3, AcceptedPlay
  <2>2. m.cards \in SUBSET room.hands[Me]
    BY <1>3, AcceptedPlay
  <2>3. [Next]_room
    BY <1>0, <2>1, <2>2 DEF Next
  <2> QED BY <1>0, <2>1, <2>2, <2>3, RoomGoesOn, PlayPile
<1>4. CASE m.kind = "challenge"
  <2>1. Challenge(Me)
    BY <1>4 DEF Carry
  <2>2. [Next]_room
    BY <1>0, <2>1 DEF Next
  <2> QED BY <1>0, <2>1, <2>2, RoomGoesOn, ChallengePile
<1>5. CASE m.kind = "skip"
  <2>1. Skip(Me) /\ room.phase = "playing" /\ room' = ApplySkip(room, Me)
    BY <1>5 DEF Carry, Skip, OnTurn
  <2>2. [Next]_room
    BY <1>0, <2>1 DEF Next
  <2> QED BY <1>0, <2>1, <2>2, RoomGoesOn, SkipPile
<1> QED BY <1>0, <1>1, <1>2, <1>3, <1>4, <1>5 DEF Kinds

LEMMA BeforeHarmless ==
  ASSUME Good(room'), NEW m \in Moves, NEW n \in Nat, NEW ids
  PROVE  Harmless(Before(m, n), n, room') /\ Speaks(Before(m, n), ids)
<1>0. m.kind \in Kinds /\ n <= n /\ WellTyped(room')
  BY MoveTyped DEF Good
<1> DEFINE w == Wins(room, room', n)
           c == [type |-> "challenge_result", seq |-> n]
<1>1. Harmless(w, n, room') /\ Speaks(w, ids)
  BY <1>0, WinsHarmless, BroadcastsSpeak
<1>2. Harmless(<<c>>, n, room') /\ Speaks(<<c>>, ids)
  BY <1>0, NoticeHarmless, NewsSpeak
<1>3. CASE m.kind \in {"start", "return"}
  <2>1. Before(m, n) = <<>>
    BY <1>3 DEF Before
  <2> QED BY <2>1, HarmlessNone, BroadcastsSpeak
<1>4. CASE m.kind = "play"
  <2>1. Before(m, n) = w
    BY <1>4 DEF Before
  <2> QED BY <1>1, <2>1
<1>5. CASE m.kind = "challenge"
  <2>1. Before(m, n) = w \o <<c>>
    BY <1>5 DEF Before
  <2> HIDE DEF w, c
  <2>2. w \in Seq(Event) /\ <<c>> \in Seq(Event)
    BY <1>1, <1>2 DEF Harmless
  <2>3. Harmless(w \o <<c>>, n, room')
    BY <1>1, <1>2, HarmlessOn
  <2>4. Speaks(w \o <<c>>, ids)
    BY <1>1, <1>2, <2>2, SpeaksBoth
  <2> QED BY <2>1, <2>3, <2>4
<1>6. CASE m.kind = "skip"
  <2>1. Before(m, n) = Passed(room, room', n)
    BY <1>6 DEF Before
  <2> QED BY <1>0, <2>1, PassedHarmless, PassedSpeaks
<1> QED BY <1>0, <1>3, <1>4, <1>5, <1>6 DEF Kinds

LEMMA AnswersSpeak ==
  ASSUME NEW id \in Nat, NEW n
  PROVE  Speaks(Accepted(id, n), {id}) /\ Speaks(Rejected(id), {id})
<1>1. Speaks(Accepted(id, n), {id})
  BY DEF Speaks, Accepted
<1>2. Speaks(Rejected(id), {id})
  BY DEF Speaks, Rejected
<1> QED BY <1>1, <1>2

LEMMA AppliedTold ==
  ASSUME RoomOK, seq \in Nat, NEW m \in Moves, Apply(m)
  PROVE  /\ [Next]_room
         /\ applied' = [applied EXCEPT ![m.id] = seq']
         /\ \E es : Announces(es, {m.id})
<1> DEFINE again == m.kind = "return" /\ Me \in room.ready
           n == IF again THEN seq ELSE seq + 1
           b == Before(m, n)
           a == Accepted(m.id, n)
<1>1. [Next]_room /\ Good(room') /\ PileGoesOn(room, room')
  BY CarriedSteps DEF Apply
<1>2. /\ applied' = [applied EXCEPT ![m.id] = n]
      /\ seq' = seq + (n - seq)
      /\ Send(b \o a \o IF again THEN <<>> ELSE <<GameState(room', n)>>)
  BY DEF Apply, Advance
<1>3. n \in Nat /\ seq' = n /\ n <= n
  BY <1>2
<1>4. m.id \in Nat /\ m.kind \in Kinds
  BY MoveTyped
<1>5. Harmless(b, n, room') /\ Speaks(b, {m.id})
  BY <1>1, <1>3, BeforeHarmless
<1>6. Harmless(a, n, room') /\ Speaks(a, {m.id})
  BY <1>3, <1>4, AcceptedHarmless, AnswersSpeak
<1>7. CASE ~again
  <2>1. n = seq + 1 /\ Send((b \o a) \o <<GameState(room', n)>>)
    BY <1>2, <1>7
  <2> HIDE DEF n, a, b
  <2>2. Harmless(b \o a, n, room')
    BY <1>5, <1>6, HarmlessOn
  <2>3. Speaks(b \o a, {m.id})
    BY <1>5, <1>6, SpeaksBoth DEF Harmless
  <2>4. seq < n
    BY <2>1
  <2>5. Announces((b \o a) \o <<GameState(room', n)>>, {m.id})
    BY <1>1, <1>3, <2>1, <2>2, <2>3, <2>4, EndsWithState
  <2> QED BY <1>1, <1>2, <1>3, <2>5
<1>8. CASE again
  <2>1. room' = room
    <3>1. room' = [room EXCEPT !.ready = room.ready \cup {Me}]
      BY <1>8 DEF Apply, Carry, ReturnToLobby
    <3>2. room.ready \cup {Me} = room.ready /\ room \in Room
      BY <1>8, RoomIsGood
    <3> QED BY <3>1, <3>2 DEF Room
  <2>2. b = <<>> /\ n = seq
    BY <1>8 DEF Before
  <2>3. Send(b \o a \o <<>>)
    BY <1>2, <1>8
  <2> HIDE DEF n, a, b
  <2>4. a \in Seq(Event)
    BY <1>6 DEF Harmless
  <2>5. b \o a \o <<>> = a
    BY <2>2, <2>4, ConcatEmptySeq
  <2>6. Carries(a, room, n, room)
    BY <1>3, <1>4, AcceptedCarries DEF a
  <2>7. Announces(a, {m.id})
    BY <1>3, <1>6, <2>1, <2>2, <2>3, <2>5, <2>6 DEF Announces
  <2> QED BY <1>1, <1>2, <1>3, <2>7
<1> QED BY <1>7, <1>8

\* What is sent when the room stays as it is.
LEMMA StaysTold ==
  ASSUME seq \in Nat, NEW es, NEW ids, Advance(0, es), UNCHANGED room,
         Carries(es, room, seq, room), Speaks(es, ids)
  PROVE  Announces(es, ids)
BY DEF Advance, Announces

LEMMA SnapshotTold ==
  ASSUME RoomOK, seq \in Nat, Advance(0, Snapshot(room, seq)), UNCHANGED room
  PROVE  Announces(Snapshot(room, seq), {})
<1>1. Carries(Snapshot(room, seq), room, seq, room)
  BY RoomIsGood, SnapshotCarries
<1>2. Speaks(Snapshot(room, seq), {})
  BY DEF Speaks, Answers, Snapshot, RoomState, GameState
<1> QED BY <1>1, <1>2, StaysTold

LEMMA ReplayTold ==
  ASSUME RoomOK, seq \in Nat, NEW m \in Moves, applied[m.id] \in Nat,
         applied[m.id] <= seq, Replay(m), UNCHANGED room
  PROVE  Announces(Accepted(m.id, applied[m.id]) \o Snapshot(room, seq), {m.id})
<1> DEFINE a == Accepted(m.id, applied[m.id])
           s == Snapshot(room, seq)
<1>1. m.id \in Nat
  BY MoveTyped
<1>2. Carries(s, room, seq, room) /\ Carries(a, room, seq, room)
  BY <1>1, RoomIsGood, SnapshotCarries, AcceptedCarries
<1>3. Speaks(s, {m.id}) /\ Speaks(a, {m.id})
  <2>1. Speaks(s, {m.id})
    BY DEF Speaks, Answers, Snapshot, RoomState, GameState
  <2> QED BY <1>1, <2>1, AnswersSpeak
<1>4. Advance(0, a \o s)
  BY DEF Replay
<1> HIDE DEF a, s
<1>5. a \in Seq(Event) /\ s \in Seq(Event)
  BY <1>2 DEF Carries
<1>6. Carries(a \o s, room, seq, room) /\ Speaks(a \o s, {m.id})
  BY <1>2, <1>3, <1>5, CarriesOn, SpeaksBoth
<1>7. Announces(a \o s, {m.id})
  BY <1>4, <1>6, StaysTold
<1> QED BY <1>7 DEF a, s

LEMMA RejectedTold ==
  ASSUME seq \in Nat, NEW m \in Moves, Advance(0, Rejected(m.id)), UNCHANGED room
  PROVE  Announces(Rejected(m.id), {m.id})
<1>1. m.id \in Nat
  BY MoveTyped
<1> QED BY <1>1, RejectedCarries, AnswersSpeak, StaysTold
----------------------------------------------------------------------------
(* The reducer. *)

Statuses == {"CONNECTED", "SYNCING", "RECONNECTING"}
Tab == [game : Game, hand : SUBSET Card, role : {"none", "active", "winner_spectator"},
        lastSeq : Nat, status : Statuses, pending : Moves \cup {NoMove},
        sent : Nat, drawn : BOOLEAN]
ViewOf(t) == [game |-> t.game, hand |-> t.hand, drawn |-> t.drawn]

LEMMA ViewIsPicture ==
  ASSUME NEW t \in Tab
  PROVE  ViewOf(t) \in Picture
BY DEF Tab, ViewOf, Picture

\* The tab t after the event e: the picture is drawn, the number taken over,
\* and a command that is answered is released.
Reduced(t, e, u) ==
  /\ u \in Tab /\ ViewOf(u) = Draw(ViewOf(t), e)
  /\ u.lastSeq = IF Numbers(e) THEN e.seq ELSE t.lastSeq
  /\ u.sent = t.sent
  /\ u.pending = IF Answers(e) /\ t.pending # NoMove /\ t.pending.id = e.id
                 THEN NoMove ELSE t.pending

LEMMA Released ==
  ASSUME NEW t \in Tab, NEW e
  PROVE  LET u == Release(t, e) IN
           /\ u \in Tab /\ ViewOf(u) = ViewOf(t) /\ u.lastSeq = t.lastSeq
           /\ u.sent = t.sent /\ u.status = t.status
           /\ u.pending = IF t.pending # NoMove /\ t.pending.id = e.id
                          THEN NoMove ELSE t.pending
<1>1. CASE t.pending # NoMove /\ t.pending.id = e.id
  <2> DEFINE u == [t EXCEPT !.pending = NoMove]
  <2>1. /\ u \in Tab /\ u.game = t.game /\ u.hand = t.hand /\ u.drawn = t.drawn
        /\ u.lastSeq = t.lastSeq /\ u.sent = t.sent /\ u.status = t.status
        /\ u.pending = NoMove
    BY DEF Tab
  <2>2. Release(t, e) = u
    BY <1>1 DEF Release
  <2> HIDE DEF u
  <2> QED BY <1>1, <2>1, <2>2 DEF ViewOf
<1>2. CASE ~(t.pending # NoMove /\ t.pending.id = e.id)
  <2>1. Release(t, e) = t
    BY <1>2 DEF Release
  <2> QED BY <1>2, <2>1
<1> QED BY <1>1, <1>2

LEMMA ReduceRefusal ==
  ASSUME NEW t \in Tab, NEW e \in Event, e.type \in {"action_rejected", "error"}
  PROVE  Reduced(t, e, Reduce(t, e))
<1> DEFINE r == Release(t, e)
           u == [r EXCEPT !.status = "CONNECTED"]
<1>1. Reduce(t, e) = u
  BY DEF Reduce
<1>2. /\ r \in Tab /\ ViewOf(r) = ViewOf(t) /\ r.lastSeq = t.lastSeq /\ r.sent = t.sent
      /\ r.pending = IF t.pending # NoMove /\ t.pending.id = e.id THEN NoMove ELSE t.pending
  BY Released
<1> HIDE DEF r
<1>3. /\ u \in Tab /\ u.game = r.game /\ u.hand = r.hand /\ u.drawn = r.drawn
      /\ u.lastSeq = r.lastSeq /\ u.sent = r.sent /\ u.pending = r.pending
  BY <1>2 DEF Tab, Statuses
<1> HIDE DEF u
<1>4. ViewOf(u) = ViewOf(t)
  BY <1>2, <1>3 DEF ViewOf
<1>5. Draw(ViewOf(t), e) = ViewOf(t)
  BY ViewIsPicture, SilentDraws
<1> QED BY <1>1, <1>2, <1>3, <1>4, <1>5 DEF Reduced, Numbers, Answers

LEMMA ReduceApproval ==
  ASSUME NEW t \in Tab, NEW e \in Event, e.type = "action_accepted"
  PROVE  Reduced(t, e, Reduce(t, e))
<1> DEFINE r == Release(t, e)
           u == [r EXCEPT !.lastSeq = e.seq]
<1>0. e.seq \in Nat
  BY DEF Event, Numbering, Refusal, Approval, Notice, RoomNews, GameNews, WinNews, Presence
<1>1. Reduce(t, e) = u
  BY DEF Reduce
<1>2. /\ r \in Tab /\ ViewOf(r) = ViewOf(t) /\ r.sent = t.sent
      /\ r.pending = IF t.pending # NoMove /\ t.pending.id = e.id THEN NoMove ELSE t.pending
  BY Released
<1> HIDE DEF r
<1>3. /\ u \in Tab /\ u.game = r.game /\ u.hand = r.hand /\ u.drawn = r.drawn
      /\ u.lastSeq = e.seq /\ u.sent = r.sent /\ u.pending = r.pending
  BY <1>0, <1>2 DEF Tab
<1> HIDE DEF u
<1>4. ViewOf(u) = ViewOf(t)
  BY <1>2, <1>3 DEF ViewOf
<1>5. Draw(ViewOf(t), e) = ViewOf(t)
  BY ViewIsPicture, SilentDraws
<1> QED BY <1>1, <1>2, <1>3, <1>4, <1>5 DEF Reduced, Numbers, Answers

LEMMA ReduceNews ==
  ASSUME NEW t \in Tab, NEW e \in Event,
         e.type \notin {"action_rejected", "error", "action_accepted"}
  PROVE  Reduced(t, e, Reduce(t, e))
<1> DEFINE v == ViewOf(t)
           u == Reduce(t, e)
<1>0. e.seq \in Nat
  BY DEF Event, Numbering, Refusal, Approval, Notice, RoomNews, GameNews, WinNews, Presence
<1>1. /\ v \in Picture /\ v.game = t.game /\ v.hand = t.hand /\ v.drawn = t.drawn
      /\ t.drawn \in BOOLEAN /\ t.game \in Game
  BY ViewIsPicture DEF ViewOf, Tab
<1> DEFINE h == IF e.type = "game_state" THEN e.hand ELSE t.hand
<1>2. NextGame(t.game, e) \in Game /\ h \in SUBSET Card
  <2>1. Draw(v, e) \in Picture
    BY <1>1, DrawnPicture
  <2> QED BY <1>1, <2>1 DEF Draw, Picture
<1>3. ASSUME u \in Tab, u.game = NextGame(t.game, e), u.hand = h,
             u.drawn = (t.drawn \/ e.type = "game_state"),
             u.lastSeq = e.seq, u.sent = t.sent, u.pending = t.pending
      PROVE  Reduced(t, e, u)
  <2>1. ViewOf(u) = Draw(v, e)
    BY <1>1, <1>3 DEF ViewOf, Draw
  <2> QED BY <1>3, <2>1 DEF Reduced, Numbers, Answers
<1>4. CASE e.type = "room_state"
  <2>1. u = [t EXCEPT !.lastSeq = e.seq, !.status = "CONNECTED",
                      !.game = MergeRoomState(t.game, e)]
    BY <1>4 DEF Reduce
  <2>2. NextGame(t.game, e) = MergeRoomState(t.game, e)
    BY <1>4 DEF NextGame
  <2> HIDE DEF u
  <2>3. u \in Tab
    BY <1>0, <1>1, <1>2, <1>4, <2>1, <2>2 DEF Tab, Statuses
  <2>4. /\ u.game = NextGame(t.game, e) /\ u.hand = h
        /\ u.drawn = (t.drawn \/ e.type = "game_state")
        /\ u.lastSeq = e.seq /\ u.sent = t.sent /\ u.pending = t.pending
    BY <1>1, <1>4, <2>1, <2>2 DEF Tab
  <2> QED BY <1>3, <2>3, <2>4 DEF u
<1>5. CASE e.type = "game_state"
  <2>1. u = [t EXCEPT !.lastSeq = e.seq, !.status = "CONNECTED",
                      !.game = MergeGameState(t.game, e),
                      !.hand = e.hand, !.role = e.role, !.drawn = TRUE]
    BY <1>5 DEF Reduce
  <2>2. NextGame(t.game, e) = MergeGameState(t.game, e)
    BY <1>5 DEF NextGame
  <2>3. e.role \in {"winner_spectator", "active"}
    BY <1>5 DEF Event, Numbering, Refusal, Approval, Notice, RoomNews, GameNews, WinNews, Presence
  <2> HIDE DEF u
  <2>4. u \in Tab
    BY <1>0, <1>1, <1>2, <1>5, <2>1, <2>2, <2>3 DEF Tab, Statuses
  <2>5. /\ u.game = NextGame(t.game, e) /\ u.hand = h
        /\ u.drawn = (t.drawn \/ e.type = "game_state")
        /\ u.lastSeq = e.seq /\ u.sent = t.sent /\ u.pending = t.pending
    BY <1>1, <1>5, <2>1, <2>2, <2>3 DEF Tab
  <2> QED BY <1>3, <2>4, <2>5 DEF u
<1>6. CASE e.type = "player_won"
  <2> DEFINE g == [t.game EXCEPT !.winners = e.winners,
                                 !.phase = IF e.over THEN "finished" ELSE t.game.phase]
  <2>1. u = [t EXCEPT !.lastSeq = e.seq, !.game.winners = e.winners,
                      !.game.phase = IF e.over THEN "finished" ELSE t.game.phase]
    BY <1>6 DEF Reduce
  <2>2. u = [t EXCEPT !.lastSeq = e.seq, !.game = g]
    BY <1>1, <2>1 DEF Tab, Game
  <2>3. NextGame(t.game, e) = g
    BY <1>6 DEF NextGame
  <2> HIDE DEF u, g
  <2>4. u \in Tab
    BY <1>0, <1>1, <1>2, <1>6, <2>2, <2>3 DEF Tab, Statuses
  <2>5. /\ u.game = NextGame(t.game, e) /\ u.hand = h
        /\ u.drawn = (t.drawn \/ e.type = "game_state")
        /\ u.lastSeq = e.seq /\ u.sent = t.sent /\ u.pending = t.pending
    BY <1>1, <1>6, <2>2, <2>3 DEF Tab
  <2> QED BY <1>3, <2>4, <2>5 DEF u
<1>7. CASE e.type \in {"player_disconnected", "player_reconnected"}
  <2> DEFINE a == IF e.type = "player_disconnected" THEN t.game.away \cup {e.player}
                  ELSE t.game.away \ {e.player}
             g == [t.game EXCEPT !.away = a]
  <2>1. u = [t EXCEPT !.lastSeq = e.seq, !.game.away = a]
    BY <1>7 DEF Reduce
  <2>2. u = [t EXCEPT !.lastSeq = e.seq, !.game = g]
    BY <1>1, <2>1 DEF Tab, Game
  <2>3. NextGame(t.game, e) = g
    BY <1>7 DEF NextGame
  <2> HIDE DEF u, g
  <2>4. u \in Tab
    BY <1>0, <1>1, <1>2, <1>7, <2>2, <2>3 DEF Tab, Statuses
  <2>5. /\ u.game = NextGame(t.game, e) /\ u.hand = h
        /\ u.drawn = (t.drawn \/ e.type = "game_state")
        /\ u.lastSeq = e.seq /\ u.sent = t.sent /\ u.pending = t.pending
    BY <1>1, <1>7, <2>2, <2>3 DEF Tab
  <2> QED BY <1>3, <2>4, <2>5 DEF u
<1>8. CASE e.type \notin {"room_state", "game_state", "player_won",
                          "player_disconnected", "player_reconnected"}
  <2>1. u = [t EXCEPT !.lastSeq = e.seq]
    BY <1>8 DEF Reduce
  <2>2. NextGame(t.game, e) = t.game
    BY <1>8 DEF NextGame
  <2> HIDE DEF u
  <2>3. u \in Tab
    BY <1>0, <1>1, <1>2, <1>8, <2>1, <2>2 DEF Tab, Statuses
  <2>4. /\ u.game = NextGame(t.game, e) /\ u.hand = h
        /\ u.drawn = (t.drawn \/ e.type = "game_state")
        /\ u.lastSeq = e.seq /\ u.sent = t.sent /\ u.pending = t.pending
    BY <1>1, <1>8, <2>1, <2>2 DEF Tab
  <2> QED BY <1>3, <2>3, <2>4 DEF u
<1> QED BY <1>4, <1>5, <1>6, <1>7, <1>8

LEMMA ReduceReduces ==
  ASSUME NEW t \in Tab, NEW e \in Event
  PROVE  Reduced(t, e, Reduce(t, e))
<1>1. \/ e.type \in {"action_rejected", "error"}
      \/ e.type = "action_accepted"
      \/ e.type \notin {"action_rejected", "error", "action_accepted"}
  OBVIOUS
<1> QED BY <1>1, ReduceRefusal, ReduceApproval, ReduceNews
----------------------------------------------------------------------------
(* The pipe to the tab. *)

LEMMA EventNumbered ==
  ASSUME NEW e \in Event
  PROVE  Numbers(e) => e.seq \in Nat
BY DEF Event, Numbering, Refusal, Approval, Notice, RoomNews, GameNews, WinNews, Presence, Numbers

LEMMA UpToMore ==
  ASSUME NEW es \in Seq(Event), NEW n \in Nat, NEW m \in Nat, n <= m, UpTo(es, n)
  PROVE  UpTo(es, m)
<1>1. ASSUME NEW i \in 1..Len(es), Numbers(es[i]) PROVE es[i].seq <= m
  <2>1. es[i] \in Event /\ es[i].seq <= n
    BY <1>1 DEF UpTo
  <2>2. es[i].seq \in Nat
    BY <1>1, <2>1, EventNumbered
  <2> QED BY <2>1, <2>2
<1> QED BY <1>1 DEF UpTo

\* What is delivered is the start of what was there and what was sent.
LEMMA Delivered ==
  ASSUME NEW p \in Seq(Event), NEW q \in Seq(Event)
  PROVE  LET d == Deliver(p, q) IN
           /\ d \in Seq(Event)
           /\ \A j \in 1..Len(d) :
                \/ \E k \in 1..Len(p) : d[j] = p[k]
                \/ \E k \in 1..Len(q) : d[j] = q[k]
           /\ ~(Len(p \o q) > Capacity) => d = p \o q
<1> DEFINE all == p \o q
           k == Min({Len(all), Capacity})
           d == SubSeq(all, 1, k)
<1>1. /\ all \in Seq(Event) /\ Len(all) = Len(p) + Len(q)
      /\ \A i \in 1..Len(all) : all[i] = IF i <= Len(p) THEN p[i] ELSE q[i - Len(p)]
  OBVIOUS
<1>2. Len(all) \in Nat /\ Len(p) \in Nat /\ Len(q) \in Nat
  BY <1>1
<1>3. /\ k \in {Len(all), Capacity} /\ k <= Len(all) /\ k <= Capacity
  <2>1. {Len(all), Capacity} \in SUBSET Nat
    BY <1>2, BoundsAssumption
  <2> HIDE DEF all
  <2> QED BY <2>1, MinIsMember
<1>4. k \in Nat /\ k <= Len(all)
  BY <1>2, <1>3, BoundsAssumption
<1>5. ~(Len(all) > Capacity) => k = Len(all)
  BY <1>2, <1>3, BoundsAssumption
<1>6. Deliver(p, q) = d
  BY DEF Deliver
<1>7. \A i \in 1..Len(all) :
        \/ \E j \in 1..Len(p) : all[i] = p[j]
        \/ \E j \in 1..Len(q) : all[i] = q[j]
  <2> TAKE i \in 1..Len(all)
  <2>1. CASE i <= Len(p)
    <3>1. i \in 1..Len(p) /\ all[i] = p[i]
      BY <1>1, <2>1
    <3> QED BY <3>1
  <2>2. CASE i > Len(p)
    <3>1. i - Len(p) \in 1..Len(q) /\ all[i] = q[i - Len(p)]
      BY <1>1, <1>2, <2>2
    <3> QED BY <3>1
  <2> QED BY <1>1, <1>2, <2>1, <2>2
<1> HIDE DEF all, k
<1>8. d \in Seq(Event) /\ Len(d) = k /\ \A j \in 1..k : d[j] = all[j]
  BY <1>1, <1>2, <1>4
<1>9. k = Len(all) => d = all
  BY <1>1, <1>2, <1>8
<1> HIDE DEF d
<1>10. \A j \in 1..Len(d) : j \in 1..Len(all) /\ d[j] = all[j]
  BY <1>2, <1>4, <1>8
<1>11. ~(Len(p \o q) > Capacity) => d = p \o q
  BY <1>5, <1>9 DEF all
<1> QED BY <1>6, <1>7, <1>8, <1>10, <1>11

\* What a picture shows at the end of the pipe.
Follows(v, es, n, r) ==
  \E w \in Picture : Runs(v, es, w, n, r) /\ Agrees(w, r)

LEMMA FollowsOn ==
  ASSUME NEW v, NEW p \in Seq(Event), NEW n \in Nat, UpTo(p, n), NEW r,
         Follows(v, p, n, r), NEW q, NEW m \in Nat, n <= m, NEW t,
         m = n => t = r, Carries(q, r, m, t)
  PROVE  Follows(v, p \o q, m, t)
<1>1. PICK w \in Picture : Runs(v, p, w, n, r) /\ Agrees(w, r)
  BY DEF Follows
<1>2. PICK x \in Picture : Runs(w, q, x, m, t) /\ Agrees(x, t)
  BY <1>1 DEF Carries
<1>3. Runs(v, p, w, m, t)
  <2>1. CASE n = m
    BY <1>1, <2>1
  <2>2. CASE n < m
    <3>1. \A i \in 1..Len(p) : Numbers(p[i]) => p[i].seq \in Nat /\ p[i].seq <= n
      <4>1. \A i \in 1..Len(p) : p[i] \in Event
        OBVIOUS
      <4> QED BY <4>1, EventNumbered DEF UpTo
    <3> QED BY <1>1, <2>2, <3>1, RunsLater
  <2> QED BY <2>1, <2>2
<1>4. q \in Seq(Event)
  BY DEF Carries
<1>5. Runs(v, p \o q, x, m, t)
  BY <1>2, <1>3, <1>4, RunsOn
<1> QED BY <1>2, <1>5 DEF Follows

LEMMA FollowsHere ==
  ASSUME NEW v, NEW n, NEW r, Follows(v, <<>>, n, r)
  PROVE  Agrees(v, r)
BY RunsNowhere DEF Follows

----------------------------------------------------------------------------
(* The invariant. *)

Sync == [kind |-> "sync"]

\* The types; no number is ahead of the room's; without a connection nothing is
\* under way and the tab says so.
Linking ==
  /\ seq \in Nat /\ linked \in BOOLEAN /\ dropped \in BOOLEAN
  /\ applied \in [Commands -> Nat]
  /\ \A id \in Commands : applied[id] <= seq
  /\ down \in Seq(Event) /\ UpTo(down, seq)
  /\ up \in Seq(Moves \cup {Sync})
  /\ tab \in Tab /\ tab.lastSeq <= seq
  /\ ~linked => down = <<>> /\ up = <<>> /\ tab.status # "CONNECTED"

\* The events under way take the tab's picture to one that shows the room; with
\* the room's number the tab shows the pile as it is, before the last of them.
Following ==
  linked /\ ~dropped =>
    /\ Follows(ViewOf(tab), down, seq, room)
    /\ tab.lastSeq = seq => PileFits(ViewOf(tab), room)

\* The same of the move that waits for its answer.
MoveFits(m, r) ==
  m.whole /\ r.phase = "playing" /\ r.turn = Me =>
    \/ r.stackCount = 0
    \/ m.stackCount = r.stackCount /\ m.top = r.topPlay.player
Waiting(m) ==
  m.kind \in {"play", "challenge", "skip"} =>
    m.seq <= seq /\ (m.seq = seq => MoveFits(m, room))

\* The one command that may be under way is the one the tab waits for, and its
\* answer is not under way then.
Mailing ==
  /\ tab.pending # NoMove => tab.pending.id <= tab.sent
  /\ \A j \in 1..Len(down) : Answers(down[j]) => down[j].id <= tab.sent
  /\ \A i \in 1..Len(up) : up[i] # Sync =>
       /\ up[i] = tab.pending
       /\ \A j \in 1..Len(up) : up[j] # Sync => i = j
       /\ \A j \in 1..Len(down) : Answers(down[j]) => down[j].id # tab.pending.id

TableInv ==
  /\ RoomOK /\ Linking /\ Following
  /\ tab.pending # NoMove => Waiting(tab.pending)
  /\ Mailing
----------------------------------------------------------------------------
(* Steps in which a handler sends something. *)

LEMMA AnnouncedArrives ==
  ASSUME TableInv, NEW es, NEW ids, Announces(es, ids), linked' = linked, tab' = tab
  PROVE  /\ seq' \in Nat /\ seq <= seq' /\ dropped' \in BOOLEAN
         /\ down' \in Seq(Event) /\ UpTo(down', seq')
         /\ ~linked => down' = <<>>
         /\ \A j \in 1..Len(down') :
              \/ \E k \in 1..Len(down) : down'[j] = down[k]
              \/ linked /\ (Answers(down'[j]) => down'[j].id \in ids)
         /\ linked /\ ~dropped' => ~dropped /\ down' = down \o es
<1>1. /\ seq \in Nat /\ linked \in BOOLEAN /\ dropped \in BOOLEAN
      /\ down \in Seq(Event) /\ UpTo(down, seq) /\ (~linked => down = <<>>)
  BY DEF TableInv, Linking
<1>2. /\ seq' \in Nat /\ seq <= seq' /\ Send(es) /\ es \in Seq(Event)
      /\ UpTo(es, seq') /\ Speaks(es, ids)
  BY DEF Announces, Carries
<1>3. CASE ~linked
  BY <1>1, <1>2, <1>3 DEF Send, UpTo
<1>4. CASE linked
  <2>1. down' = Deliver(down, es) /\ dropped' = (dropped \/ Len(down \o es) > Capacity)
    BY <1>1, <1>2, <1>4 DEF Send
  <2>2. /\ down' \in Seq(Event)
        /\ \A j \in 1..Len(down') :
             \/ \E k \in 1..Len(down) : down'[j] = down[k]
             \/ \E k \in 1..Len(es) : down'[j] = es[k]
        /\ ~(Len(down \o es) > Capacity) => down' = down \o es
    BY <1>1, <1>2, <2>1, Delivered
  <2>3. UpTo(down, seq')
    BY <1>1, <1>2, UpToMore
  <2>4. UpTo(down', seq')
    BY <1>2, <2>2, <2>3 DEF UpTo
  <2>5. ASSUME NEW j \in 1..Len(down')
        PROVE  \/ \E k \in 1..Len(down) : down'[j] = down[k]
               \/ linked /\ (Answers(down'[j]) => down'[j].id \in ids)
    BY <1>2, <1>4, <2>2 DEF Speaks
  <2>6. dropped' \in BOOLEAN /\ (~dropped' => ~dropped /\ down' = down \o es)
    BY <1>1, <2>1, <2>2
  <2> QED BY <1>2, <1>4, <2>2, <2>4, <2>5, <2>6
<1> QED BY <1>3, <1>4

LEMMA AnnouncedFollows ==
  ASSUME TableInv, NEW es, NEW ids, Announces(es, ids), linked' = linked, tab' = tab
  PROVE  Following'
<1> SUFFICES ASSUME linked, ~dropped'
             PROVE  /\ Follows(ViewOf(tab), down', seq', room')
                    /\ tab.lastSeq = seq' => PileFits(ViewOf(tab), room')
  BY DEF Following, Follows, ViewOf, PileFits
<1>1. ~dropped /\ down' = down \o es /\ seq' \in Nat /\ seq <= seq'
  BY AnnouncedArrives
<1>2. /\ Follows(ViewOf(tab), down, seq, room)
      /\ tab.lastSeq = seq => PileFits(ViewOf(tab), room)
      /\ seq \in Nat /\ down \in Seq(Event) /\ UpTo(down, seq)
      /\ tab.lastSeq \in Nat /\ tab.lastSeq <= seq
  BY <1>1 DEF TableInv, Linking, Following, Tab
<1>3. Carries(es, room, seq', room') /\ (seq' = seq => room' = room)
  BY DEF Announces
<1>4. Follows(ViewOf(tab), down \o es, seq', room')
  BY <1>1, <1>2, <1>3, FollowsOn
<1>5. tab.lastSeq = seq' => PileFits(ViewOf(tab), room')
  BY <1>1, <1>2, <1>3
<1> QED BY <1>1, <1>4, <1>5

LEMMA WaitingOn ==
  ASSUME TableInv, seq' \in Nat, seq <= seq', seq' = seq => room' = room,
         NEW m \in Moves, Waiting(m)
  PROVE  Waiting(m)'
<1> SUFFICES ASSUME m.kind \in {"play", "challenge", "skip"}
             PROVE  m.seq <= seq' /\ (m.seq = seq' => MoveFits(m, room'))
  BY DEF Waiting, MoveFits
<1>1. m.seq \in Nat /\ seq \in Nat
  BY MoveTyped DEF PileMove, TableInv, Linking
<1>2. m.seq <= seq /\ (m.seq = seq => MoveFits(m, room))
  BY DEF Waiting
<1> QED BY <1>1, <1>2

LEMMA RoomStepKeeps ==
  ASSUME TableInv, RoomStep
  PROVE  TableInv'
<1>0. RoomOK /\ Linking /\ Mailing /\ (tab.pending # NoMove => Waiting(tab.pending))
  BY DEF TableInv
<1>1. /\ [Next]_room /\ Told({}) /\ linked' = linked /\ tab' = tab /\ up' = up
      /\ applied' = applied
  BY <1>0, RoomStepTold DEF Linking, Elsewhere
<1>2. RoomOK'
  BY <1>0, <1>1, RoomGoesOn
<1>3. CASE UNCHANGED <<room, seq, down, dropped>>
  BY <1>1, <1>2, <1>3 DEF TableInv, Linking, Following, Waiting, Mailing, Follows,
     MoveFits, PileFits, ViewOf, UpTo
<1>4. ASSUME NEW es, Announces(es, {}) PROVE TableInv'
  <2>1. /\ seq' \in Nat /\ seq <= seq' /\ dropped' \in BOOLEAN
        /\ down' \in Seq(Event) /\ UpTo(down', seq')
        /\ ~linked => down' = <<>>
        /\ \A j \in 1..Len(down') : Answers(down'[j]) =>
             \E k \in 1..Len(down) : down'[j] = down[k]
    BY <1>1, <1>4, AnnouncedArrives
  <2>2. Following'
    BY <1>1, <1>4, AnnouncedFollows
  <2>3. tab'.pending # NoMove => Waiting(tab.pending)'
    <3> SUFFICES ASSUME tab.pending # NoMove PROVE Waiting(tab.pending)'
      BY <1>1
    <3>1. tab.pending \in Moves
      BY <1>0 DEF Linking, Tab
    <3>2. seq' = seq => room' = room
      BY <1>4 DEF Announces
    <3> DEFINE m == tab.pending
    <3>3. PICK n : n = m /\ n \in Moves /\ Waiting(n)
      BY <1>0, <3>1
    <3>4. Waiting(n)'
      BY <2>1, <3>2, <3>3, WaitingOn
    <3>5. tab'.pending = n
      BY <1>1, <3>3
    <3> HIDE DEF m
    <3> QED BY <3>4, <3>5 DEF Waiting, MoveFits
  <2>4. Linking'
    <3>1. \A id \in Commands : applied[id] \in Nat /\ applied[id] <= seq
      BY <1>0 DEF Linking
    <3>2. tab.lastSeq \in Nat /\ seq \in Nat
      BY <1>0 DEF Linking, Tab
    <3>3. \A id \in Commands : applied[id] <= seq'
      BY <2>1, <3>1, <3>2
    <3>4. tab.lastSeq <= seq'
      BY <1>0, <2>1, <3>2 DEF Linking
    <3> QED BY <1>0, <1>1, <2>1, <3>3, <3>4 DEF Linking, UpTo
  <2>5. Mailing'
    BY <1>0, <1>1, <2>1 DEF Mailing
  <2> QED BY <1>2, <2>2, <2>3, <2>4, <2>5 DEF TableInv
<1> QED BY <1>1, <1>3, <1>4 DEF Told

LEMMA HandledTold ==
  ASSUME TableInv, HandleCommand, NEW m, m = Head(up)
  PROVE  /\ linked /\ [Next]_room
         /\ Told(IF m = Sync THEN {} ELSE {m.id})
         /\ \/ applied' = applied /\ room' = room
            \/ m # Sync /\ applied' = [applied EXCEPT ![m.id] = seq']
<1>0. /\ RoomOK /\ seq \in Nat /\ up \in Seq(Moves \cup {Sync}) /\ up # <<>> /\ linked
      /\ \A id \in Commands : applied[id] \in Nat /\ applied[id] <= seq
  BY DEF TableInv, Linking, HandleCommand
<1>1. m \in Moves \cup {Sync}
  BY <1>0
<1>2. CASE m = Sync
  <2>1. m.kind = "sync"
    BY <1>2 DEF Sync
  <2>2. Advance(0, Snapshot(room, seq)) /\ UNCHANGED <<room, applied>>
    BY <2>1 DEF HandleCommand
  <2>3. Announces(Snapshot(room, seq), {})
    BY <1>0, <2>2, SnapshotTold
  <2> QED BY <1>0, <1>2, <2>2, <2>3 DEF Told
<1>3. CASE m # Sync
  <2>1. m \in Moves /\ m.kind # "sync" /\ m.id \in Commands
    BY <1>1, <1>3, MoveTyped DEF Kinds
  <2>2. \/ Seen(m) /\ Replay(m) /\ UNCHANGED <<room, applied>>
        \/ UNCHANGED <<room, seq, down, dropped, applied>>
        \/ Apply(m)
        \/ Advance(0, Rejected(m.id)) /\ UNCHANGED <<room, applied>>
    BY <2>1 DEF HandleCommand
  <2>3. ASSUME Replay(m), UNCHANGED <<room, applied>>
        PROVE  \E es : Announces(es, {m.id})
    BY <1>0, <2>1, <2>3, ReplayTold
  <2>4. ASSUME Advance(0, Rejected(m.id)), UNCHANGED room
        PROVE  \E es : Announces(es, {m.id})
    BY <1>0, <2>1, <2>4, RejectedTold
  <2>5. CASE Apply(m)
    BY <1>0, <1>3, <2>1, <2>5, AppliedTold DEF Told
  <2>6. CASE ~Apply(m)
    <3>1. UNCHANGED <<room, applied>>
      BY <2>2, <2>6
    <3>2. Told({m.id})
      BY <2>2, <2>3, <2>4, <2>6 DEF Told
    <3> QED BY <1>0, <1>3, <3>1, <3>2
  <2> QED BY <2>5, <2>6
<1> QED BY <1>2, <1>3

LEMMA HandleCommandKeeps ==
  ASSUME TableInv, HandleCommand
  PROVE  TableInv'
<1>0. /\ RoomOK /\ Linking /\ Mailing /\ (tab.pending # NoMove => Waiting(tab.pending))
      /\ seq \in Nat /\ up \in Seq(Moves \cup {Sync}) /\ up # <<>> /\ linked
      /\ linked' = linked /\ tab' = tab /\ up' = Tail(up)
      /\ \A id \in Commands : applied[id] \in Nat /\ applied[id] <= seq
      /\ tab.pending \in Moves \cup {NoMove} /\ tab.lastSeq \in Nat /\ tab.lastSeq <= seq
  BY DEF TableInv, Linking, HandleCommand, Tab
<1>1. PICK m : m = Head(up)
  OBVIOUS
<1>2. /\ m \in Moves \cup {Sync} /\ m = up[1] /\ 1 \in 1..Len(up)
      /\ up' \in Seq(Moves \cup {Sync}) /\ Len(up') = Len(up) - 1
      /\ \A i \in 1..Len(up') : i + 1 \in 1..Len(up) /\ up'[i] = up[i + 1]
  BY <1>0, <1>1
<1> DEFINE ids == IF m = Sync THEN {} ELSE {m.id}
<1>3. /\ [Next]_room /\ Told(ids)
      /\ \/ applied' = applied /\ room' = room
         \/ m # Sync /\ applied' = [applied EXCEPT ![m.id] = seq']
  BY <1>1, HandledTold
<1>4. RoomOK'
  BY <1>0, <1>3, RoomGoesOn
<1>5. m # Sync => m \in Moves /\ m.id \in Commands /\ m = tab.pending /\ m.id <= tab.sent
  <2>1. m # Sync => m \in Moves /\ m.id \in Commands /\ m # NoMove
    BY <1>2, MoveTyped
  <2>2. m # Sync => m = tab.pending
    BY <1>0, <1>2 DEF Mailing
  <2> QED BY <1>0, <2>1, <2>2 DEF Mailing
\* What both kinds of handling leave to show.
<1>6. ASSUME seq' \in Nat, seq <= seq', dropped' \in BOOLEAN,
             down' \in Seq(Event), UpTo(down', seq'), Following',
             seq' = seq => room' = room,
             \A j \in 1..Len(down') :
               \/ \E k \in 1..Len(down) : down'[j] = down[k]
               \/ Answers(down'[j]) => down'[j].id \in ids
      PROVE  TableInv'
  <2>1. applied' \in [Commands -> Nat] /\ \A id \in Commands : applied'[id] <= seq'
    <3>1. \A id \in Commands : applied[id] <= seq'
      BY <1>0, <1>6
    <3>2. applied \in [Commands -> Nat]
      BY <1>0 DEF Linking
    <3> QED BY <1>3, <1>5, <1>6, <3>1, <3>2
  <2>2. tab.lastSeq <= seq'
    BY <1>0, <1>6
  <2>3. Linking'
    BY <1>0, <1>2, <1>6, <2>1, <2>2 DEF Linking, UpTo
  <2>4. tab'.pending # NoMove => Waiting(tab.pending)'
    <3> SUFFICES ASSUME tab.pending # NoMove PROVE Waiting(tab.pending)'
      BY <1>0
    <3>1. PICK n : n = tab.pending /\ n \in Moves /\ Waiting(n)
      BY <1>0
    <3>2. Waiting(n)'
      BY <1>6, <3>1, WaitingOn
    <3>3. tab'.pending = n
      BY <1>0, <3>1
    <3> QED BY <3>2, <3>3 DEF Waiting, MoveFits
  <2>5. Mailing'
    <3>1. ASSUME NEW j \in 1..Len(down'), Answers(down'[j])
          PROVE  down'[j].id <= tab.sent
      BY <1>0, <1>5, <1>6, <3>1 DEF Mailing
    <3>2. ASSUME NEW i \in 1..Len(up'), up'[i] # Sync
          PROVE  /\ m = Sync /\ up'[i] = tab.pending
                 /\ \A j \in 1..Len(up') : up'[j] # Sync => i = j
      <4>1. i + 1 \in 1..Len(up) /\ up[i + 1] = up'[i]
        BY <1>2
      <4>2. m = Sync
        <5>1. m # Sync => 1 = i + 1
          BY <1>0, <1>2, <3>2, <4>1 DEF Mailing
        <5> QED BY <5>1
      <4>3. up'[i] = tab.pending
        BY <1>0, <3>2, <4>1 DEF Mailing
      <4>4. ASSUME NEW j \in 1..Len(up'), up'[j] # Sync PROVE i = j
        <5>1. j + 1 \in 1..Len(up) /\ up[j + 1] = up'[j]
          BY <1>2
        <5>2. i + 1 = j + 1
          BY <1>0, <3>2, <4>1, <4>4, <5>1 DEF Mailing
        <5> QED BY <5>2
      <4> QED BY <4>2, <4>3, <4>4
    <3>3. ASSUME NEW i \in 1..Len(up'), up'[i] # Sync,
                 NEW j \in 1..Len(down'), Answers(down'[j])
          PROVE  down'[j].id # tab.pending.id
      <4>1. m = Sync /\ i + 1 \in 1..Len(up) /\ up[i + 1] = up'[i]
        BY <1>2, <3>2, <3>3
      <4>2. \E k \in 1..Len(down) : down'[j] = down[k]
        BY <1>6, <3>3, <4>1
      <4> QED BY <1>0, <3>3, <4>1, <4>2 DEF Mailing
    <3>4. tab'.pending # NoMove => tab'.pending.id <= tab'.sent
      BY <1>0 DEF Mailing
    <3> QED BY <1>0, <3>1, <3>2, <3>3, <3>4 DEF Mailing
  <2> QED BY <1>4, <1>6, <2>3, <2>4, <2>5 DEF TableInv
<1>7. CASE UNCHANGED <<room, seq, down, dropped>>
  <2>1. Following'
    BY <1>0, <1>7 DEF TableInv, Following, Follows, PileFits, ViewOf
  <2>2. down' = down /\ seq' = seq /\ dropped' = dropped /\ seq <= seq
    BY <1>0, <1>7
  <2>3. /\ dropped' \in BOOLEAN /\ down' \in Seq(Event) /\ UpTo(down', seq')
        /\ \A j \in 1..Len(down') : \E k \in 1..Len(down) : down'[j] = down[k]
    BY <1>0, <2>2 DEF Linking
  <2> HIDE DEF ids
  <2> QED BY <1>0, <1>6, <1>7, <2>1, <2>2, <2>3
<1>8. ASSUME NEW es, Announces(es, ids) PROVE TableInv'
  <2>1. Following'
    BY <1>0, <1>8, AnnouncedFollows
  <2>2. /\ seq' \in Nat /\ seq <= seq' /\ dropped' \in BOOLEAN
        /\ down' \in Seq(Event) /\ UpTo(down', seq')
        /\ \A j \in 1..Len(down') :
             \/ \E k \in 1..Len(down) : down'[j] = down[k]
             \/ linked /\ (Answers(down'[j]) => down'[j].id \in ids)
    BY <1>0, <1>8, AnnouncedArrives
  <2>3. seq' = seq => room' = room
    BY <1>8 DEF Announces
  <2> HIDE DEF ids
  <2> QED BY <1>6, <2>1, <2>2, <2>3
<1> QED BY <1>3, <1>7, <1>8 DEF Told
----------------------------------------------------------------------------
(* Steps of the tab. *)

LEMMA ReceiveKeeps ==
  ASSUME TableInv, Receive
  PROVE  TableInv'
<1>0. /\ RoomOK /\ Linking /\ Mailing /\ Following
      /\ seq \in Nat /\ down \in Seq(Event) /\ down # <<>> /\ UpTo(down, seq) /\ linked
      /\ up \in Seq(Moves \cup {Sync}) /\ tab \in Tab
      /\ tab.pending \in Moves \cup {NoMove} /\ tab.lastSeq \in Nat /\ tab.lastSeq <= seq
      /\ room' = room /\ seq' = seq /\ applied' = applied /\ linked' = linked
      /\ dropped' = dropped /\ down' = Tail(down)
  BY DEF TableInv, Linking, Receive, Tab
<1>1. PICK e : e = Head(down)
  OBVIOUS
<1>2. /\ e \in Event /\ e = down[1] /\ 1 \in 1..Len(down)
      /\ down' \in Seq(Event) /\ Len(down') = Len(down) - 1
      /\ \A i \in 1..Len(down') : i + 1 \in 1..Len(down) /\ down'[i] = down[i + 1]
  BY <1>0, <1>1
<1>3. PICK t : /\ t = IF Gap(e) THEN [tab EXCEPT !.status = "SYNCING"] ELSE tab
               /\ tab' = Reduce(t, e)
               /\ up' = IF Gap(e) THEN Append(up, Sync) ELSE up
  BY <1>1 DEF Receive, Sync
<1>4. /\ t \in Tab /\ ViewOf(t) = ViewOf(tab) /\ t.lastSeq = tab.lastSeq
      /\ t.pending = tab.pending /\ t.sent = tab.sent
  <2> DEFINE s == [tab EXCEPT !.status = "SYNCING"]
  <2>1. /\ s \in Tab /\ s.game = tab.game /\ s.hand = tab.hand /\ s.drawn = tab.drawn
        /\ s.lastSeq = tab.lastSeq /\ s.pending = tab.pending /\ s.sent = tab.sent
    BY <1>0 DEF Tab, Statuses
  <2> HIDE DEF s
  <2>2. t = s \/ t = tab
    BY <1>3 DEF s
  <2> QED BY <1>0, <2>1, <2>2 DEF ViewOf
<1>5. Reduced(t, e, tab')
  BY <1>2, <1>3, <1>4, ReduceReduces
<1>6. /\ tab' \in Tab /\ ViewOf(tab') = Draw(ViewOf(tab), e)
      /\ tab'.lastSeq = (IF Numbers(e) THEN e.seq ELSE tab.lastSeq)
      /\ tab'.sent = tab.sent
      /\ tab'.pending = (IF Answers(e) /\ tab.pending # NoMove /\ tab.pending.id = e.id
                         THEN NoMove ELSE tab.pending)
  BY <1>4, <1>5 DEF Reduced
<1>7. RoomOK'
  BY <1>0 DEF RoomOK, TypeOK, Cards, Custody, HandsCounted, PileCounted, Sound, WellTyped,
     InPlay, Over, InLobby
<1>8. Linking'
  <2>1. tab'.lastSeq <= seq
    BY <1>0, <1>2, <1>6 DEF UpTo
  <2>2. UpTo(down', seq)
    BY <1>0, <1>2 DEF UpTo
  <2>3. up' \in Seq(Moves \cup {Sync})
    BY <1>0, <1>3
  <2> QED BY <1>0, <1>2, <1>6, <2>1, <2>2, <2>3 DEF Linking, UpTo
<1>9. Following'
  <2> SUFFICES ASSUME ~dropped
               PROVE  /\ Follows(Draw(ViewOf(tab), e), Tail(down), seq, room)
                      /\ tab'.lastSeq = seq => PileFits(Draw(ViewOf(tab), e), room)
    BY <1>0, <1>6 DEF Following
  <2>1. /\ Follows(ViewOf(tab), down, seq, room)
        /\ tab.lastSeq = seq => PileFits(ViewOf(tab), room)
    BY <1>0 DEF Following
  <2>2. /\ Follows(Draw(ViewOf(tab), e), Tail(down), seq, room)
        /\ Numbers(e) /\ e.seq = seq => PileFits(Draw(ViewOf(tab), e), room)
    BY <1>0, <1>1, <2>1, RunsTail DEF Follows
  <2>3. CASE Numbers(e)
    BY <1>6, <2>2, <2>3
  <2>4. CASE ~Numbers(e)
    <3>1. Draw(ViewOf(tab), e) = ViewOf(tab)
      BY <1>0, <1>2, <2>4, ViewIsPicture, SilentDraws DEF Numbers
    <3> QED BY <1>6, <2>1, <2>2, <2>4, <3>1
  <2> QED BY <2>3, <2>4
<1>10. tab'.pending # NoMove => Waiting(tab.pending)'
  <2>1. tab'.pending # NoMove => tab'.pending = tab.pending /\ Waiting(tab.pending)
    BY <1>6 DEF TableInv
  <2> QED BY <1>0, <2>1 DEF Waiting, MoveFits
<1>11. Mailing'
  <2>1. tab'.pending # NoMove => tab'.pending.id <= tab'.sent
    BY <1>0, <1>6 DEF Mailing
  <2>2. \A j \in 1..Len(down') : Answers(down'[j]) => down'[j].id <= tab'.sent
    BY <1>0, <1>2, <1>6 DEF Mailing
  <2>3. ASSUME NEW i \in 1..Len(up'), up'[i] # Sync
        PROVE  i \in 1..Len(up) /\ up'[i] = up[i]
    BY <1>0, <1>3, <2>3
  <2>4. ASSUME NEW i \in 1..Len(up'), up'[i] # Sync
        PROVE  /\ up'[i] = tab'.pending
               /\ \A j \in 1..Len(up') : up'[j] # Sync => i = j
               /\ \A j \in 1..Len(down') : Answers(down'[j]) => down'[j].id # tab'.pending.id
    <3>1. /\ i \in 1..Len(up) /\ up'[i] = up[i] /\ up[i] # Sync
      BY <2>3, <2>4
    <3>2. /\ up[i] = tab.pending
          /\ \A j \in 1..Len(up) : up[j] # Sync => i = j
          /\ \A j \in 1..Len(down) : Answers(down[j]) => down[j].id # tab.pending.id
      BY <1>0, <3>1 DEF Mailing
    <3>3. tab'.pending = tab.pending
      BY <1>2, <1>6, <3>2
    <3> QED BY <1>2, <2>3, <3>1, <3>2, <3>3
  <2> QED BY <2>1, <2>2, <2>4 DEF Mailing
<1> QED BY <1>7, <1>8, <1>9, <1>10, <1>11 DEF TableInv

\* Giving a command that fits what the tab shows.
LEMMA GiveKeeps ==
  ASSUME TableInv, Free, NEW m \in Moves, m.id = NextId, Waiting(m), Give(m)
  PROVE  TableInv'
<1>0. /\ RoomOK /\ Linking /\ Mailing /\ Following
      /\ up \in Seq(Moves \cup {Sync}) /\ tab \in Tab /\ tab.pending = NoMove
      /\ tab.sent \in Nat /\ m.id = tab.sent + 1 /\ linked
      /\ room' = room /\ seq' = seq /\ applied' = applied /\ linked' = linked
      /\ dropped' = dropped /\ down' = down /\ up' = Append(up, m)
      /\ tab' = [tab EXCEPT !.sent = m.id, !.pending = m]
  BY DEF TableInv, Linking, Free, NextId, Give, Tab
<1>1. /\ tab' \in Tab /\ tab'.game = tab.game /\ tab'.hand = tab.hand
      /\ tab'.drawn = tab.drawn /\ tab'.lastSeq = tab.lastSeq
      /\ tab'.status = tab.status /\ tab'.pending = m /\ tab'.sent = tab.sent + 1
  <2>1. m.id \in Nat /\ m \in Moves \cup {NoMove}
    BY MoveTyped
  <2>2. tab' = [tab EXCEPT !.sent = m.id, !.pending = m] /\ tab \in Tab
    BY <1>0
  <2>3. tab' \in Tab
    BY <2>1, <2>2 DEF Tab
  <2>4. /\ tab'.game = tab.game /\ tab'.hand = tab.hand
        /\ tab'.drawn = tab.drawn /\ tab'.lastSeq = tab.lastSeq
        /\ tab'.status = tab.status /\ tab'.pending = m /\ tab'.sent = m.id
    BY <2>2 DEF Tab
  <2> QED BY <1>0, <2>3, <2>4
<1>2. RoomOK'
  BY <1>0 DEF RoomOK, TypeOK, Cards, Custody, HandsCounted, PileCounted, Sound, WellTyped,
     InPlay, Over, InLobby
<1>3. Linking'
  BY <1>0, <1>1 DEF Linking, UpTo
<1>4. Following'
  BY <1>0, <1>1 DEF Following, ViewOf
<1>5. Waiting(tab.pending)'
  BY <1>0, <1>1 DEF Waiting, MoveFits
<1>6. ASSUME NEW i \in 1..Len(up), up[i] # Sync PROVE FALSE
  <2>1. up[i] \in Moves /\ up[i] = NoMove
    BY <1>0, <1>6 DEF Mailing
  <2> QED BY <2>1, MoveTyped
<1>7. /\ m # Sync
      /\ \A i \in 1..Len(up') : up'[i] # Sync => i = Len(up) + 1 /\ up'[i] = m
  <2>1. \A i \in 1..Len(up') :
          \/ i = Len(up) + 1 /\ up'[i] = m
          \/ i \in 1..Len(up) /\ up'[i] = up[i]
    <3>1. up \in Seq(Moves \cup {Sync}) /\ up' = Append(up, m)
      BY <1>0
    <3>2. /\ Len(up) \in Nat /\ Len(up') = Len(up) + 1 /\ up'[Len(up) + 1] = m
          /\ \A i \in 1..Len(up) : up'[i] = up[i]
      BY <3>1
    <3> QED BY <3>2
  <2>2. m # Sync
    BY MoveTyped DEF Kinds, Sync
  <2> QED BY <1>6, <2>1, <2>2
<1>8. \A j \in 1..Len(down') : Answers(down'[j]) =>
        down'[j].id <= tab'.sent /\ down'[j].id # m.id
  <2> TAKE j \in 1..Len(down')
  <2>1. down[j] \in Event
    BY <1>0 DEF Linking
  <2>2. Answers(down[j]) => down[j].id \in Nat /\ down[j].id <= tab.sent
    BY <1>0, <2>1 DEF Mailing, Answers, Event, Numbering, Refusal, Approval, Notice,
       RoomNews, GameNews, WinNews, Presence
  <2> QED BY <1>0, <1>1, <2>2
<1>9. Mailing'
  BY <1>0, <1>1, <1>7, <1>8 DEF Mailing
<1> QED BY <1>1, <1>2, <1>3, <1>4, <1>5, <1>9 DEF TableInv

\* What is chosen on the table, with the tab's number, fits the pile.
LEMMA ChosenWaits ==
  ASSUME TableInv, Free, MyTurn, NEW m, m.seq = tab.lastSeq,
         m.top = tab.game.top, m.stackCount = tab.game.stackCount,
         m.whole = (tab.drawn /\ ~dropped)
  PROVE  Waiting(m)
<1>1. tab.lastSeq <= seq /\ linked /\ tab.game.turn = Me
  BY DEF TableInv, Linking, Free, MyTurn
<1>2. ASSUME tab.lastSeq = seq, tab.drawn, ~dropped
      PROVE  MoveFits(m, room)
  <2>1. PileFits(ViewOf(tab), room)
    BY <1>1, <1>2 DEF TableInv, Following
  <2> QED BY <1>1, <1>2, <2>1 DEF PileFits, MoveFits, ViewOf
<1> QED BY <1>1, <1>2 DEF Waiting, MoveFits

LEMMA NextIdIsCommand ==
  ASSUME TableInv, Free
  PROVE  NextId \in Commands
BY BoundsAssumption DEF TableInv, Linking, Tab, Free, NextId, Commands

LEMMA MoveIsPileMove ==
  ASSUME TableInv, Free, NEW kind \in {"play", "challenge", "skip"}
  PROVE  /\ Move(kind) \in PileMove /\ Move(kind).id = NextId
         /\ Move(kind).kind = kind /\ Move(kind).seq = tab.lastSeq
         /\ Move(kind).top = tab.game.top
         /\ Move(kind).stackCount = tab.game.stackCount
         /\ Move(kind).whole = (tab.drawn /\ ~dropped)
         /\ Move(kind).claims = <<>>
<1>1. /\ tab.lastSeq \in Nat /\ tab.game.top \in Somebody /\ tab.game.stackCount \in Nat
      /\ tab.drawn \in BOOLEAN /\ dropped \in BOOLEAN /\ NextId \in Commands
  BY NextIdIsCommand DEF TableInv, Linking, Tab, Game
<1> QED BY <1>1 DEF Move, PileMove, Declarations

LEMMA ClickKeeps ==
  ASSUME TableInv, Click
  PROVE  TableInv'
<1>1. CASE ClickPlay
  <2>1. PICK cards \in SUBSET tab.hand \ {{}} :
          \E claims \in IF tab.game.stackCount = 0
                        THEN OpeningClaims(Cardinality(cards)) ELSE {<<>>} :
            Give([Move("play") EXCEPT !.cards = cards, !.claims = claims])
    BY <1>1 DEF ClickPlay
  <2>2. PICK claims \in IF tab.game.stackCount = 0
                        THEN OpeningClaims(Cardinality(cards)) ELSE {<<>>} :
          Give([Move("play") EXCEPT !.cards = cards, !.claims = claims])
    BY <2>1
  <2>3. PICK b : b = Move("play")
    OBVIOUS
  <2>4. PICK m : m = [b EXCEPT !.cards = cards, !.claims = claims]
    OBVIOUS
  <2>5. Free /\ MyTurn /\ Give(m)
    BY <1>1, <2>2, <2>3, <2>4 DEF ClickPlay
  <2>6. /\ b \in PileMove /\ b.id = NextId /\ b.kind = "play" /\ b.seq = tab.lastSeq
        /\ b.top = tab.game.top /\ b.stackCount = tab.game.stackCount
        /\ b.whole = (tab.drawn /\ ~dropped)
    BY <2>3, <2>5, MoveIsPileMove
  <2>7. cards \in SUBSET Card /\ Cardinality(cards) \in Nat
    <3>1. cards \in SUBSET Card
      BY <2>1 DEF TableInv, Linking, Tab
    <3> QED BY <3>1, CardsAreFinite, FS_CardinalityType
  <2>8. claims \in Declarations
    BY <2>2, <2>7 DEF Declarations
  <2>9. /\ m \in PileMove /\ m.id = b.id /\ m.seq = b.seq /\ m.top = b.top
        /\ m.stackCount = b.stackCount /\ m.whole = b.whole
        /\ m.cards = cards /\ m.claims = claims
    BY <2>4, <2>6, <2>7, <2>8 DEF PileMove
  <2>10. ClaimsFit(m)
    BY <2>2, <2>6, <2>9 DEF ClaimsFit
  <2>11. m \in Moves
    BY <2>9, <2>10 DEF Moves
  <2>12. Waiting(m)
    BY <2>5, <2>6, <2>9, ChosenWaits
  <2> QED BY <2>5, <2>6, <2>9, <2>11, <2>12, GiveKeeps
<1>2. CASE ClickCallout \/ ClickSkip
  <2>1. PICK kind \in {"challenge", "skip"} : Free /\ MyTurn /\ Give(Move(kind))
    BY <1>2 DEF ClickCallout, CanCallout, ClickSkip
  <2>2. PICK m : m = Move(kind)
    OBVIOUS
  <2>3. /\ m \in PileMove /\ m.id = NextId /\ m.seq = tab.lastSeq
        /\ m.top = tab.game.top /\ m.stackCount = tab.game.stackCount
        /\ m.whole = (tab.drawn /\ ~dropped) /\ m.claims = <<>>
    BY <2>1, <2>2, MoveIsPileMove
  <2>4. m \in Moves
    BY <2>3 DEF Moves, ClaimsFit
  <2>5. Waiting(m)
    BY <2>1, <2>3, ChosenWaits
  <2> QED BY <2>1, <2>2, <2>3, <2>4, <2>5, GiveKeeps
<1>3. CASE ClickStart \/ ClickReturn
  <2>1. PICK kind \in {"start", "return"} : Free /\ Give([id |-> NextId, kind |-> kind])
    BY <1>3 DEF ClickStart, ClickReturn
  <2>2. PICK m : m = [id |-> NextId, kind |-> kind]
    OBVIOUS
  <2>3. m \in Moves /\ m.id = NextId
    BY <2>1, <2>2, NextIdIsCommand DEF Moves, PlainMove
  <2>4. Waiting(m)
    BY <2>1, <2>2 DEF Waiting
  <2> QED BY <2>1, <2>2, <2>3, <2>4, GiveKeeps
<1> QED BY <1>1, <1>2, <1>3 DEF Click
----------------------------------------------------------------------------
(* Losing the connection and coming back. *)

\* A pending command stays a waiting one when the tab keeps it.
LEMMA PendingWaits ==
  ASSUME TableInv, seq' \in Nat, seq <= seq', seq' = seq => room' = room,
         tab'.pending = tab.pending, tab.pending # NoMove
  PROVE  Waiting(tab.pending)'
<1>1. PICK n : n = tab.pending /\ n \in Moves /\ Waiting(n)
  BY DEF TableInv, Linking, Tab
<1>2. Waiting(n)'
  BY <1>1, WaitingOn
<1>3. tab'.pending = n
  BY <1>1
<1> QED BY <1>2, <1>3 DEF Waiting, MoveFits

LEMMA LoseKeeps ==
  ASSUME TableInv, Lose
  PROVE  TableInv'
<1>0. /\ RoomOK /\ Linking /\ Mailing /\ seq \in Nat /\ seq' = seq + 1
      /\ linked' = FALSE /\ down' = <<>> /\ up' = <<>> /\ applied' = applied
      /\ dropped' = dropped /\ tab \in Tab /\ tab.lastSeq \in Nat /\ tab.lastSeq <= seq
      /\ tab' = [tab EXCEPT !.status = "RECONNECTING"] /\ Disconnect(Me)
  BY DEF TableInv, Linking, Tab, Lose
<1>1. RoomOK'
  <2>1. [Next]_room
    BY <1>0, MeIsUser DEF Next
  <2> QED BY <1>0, <2>1, RoomGoesOn
<1>2. /\ tab' \in Tab /\ tab'.lastSeq = tab.lastSeq /\ tab'.sent = tab.sent
      /\ tab'.pending = tab.pending /\ tab'.status = "RECONNECTING"
  BY <1>0 DEF Tab, Statuses
<1>3. Linking'
  <2>1. /\ applied \in [Commands -> Nat] /\ dropped \in BOOLEAN
        /\ \A id \in Commands : applied[id] <= seq
    BY <1>0 DEF Linking
  <2>2. \A id \in Commands : applied[id] <= seq + 1
    BY <1>0, <2>1
  <2>3. tab.lastSeq <= seq + 1
    BY <1>0
  <2>4. /\ down' \in Seq(Event) /\ up' \in Seq(Moves \cup {Sync})
        /\ \A i \in 1..Len(down') : FALSE
    BY <1>0
  <2>5. linked' \in BOOLEAN
    BY <1>0, Zenon
  <2>6. seq' \in Nat /\ tab'.status # "CONNECTED"
    BY <1>0, <1>2
  <2> QED BY <1>0, <1>2, <2>1, <2>2, <2>3, <2>4, <2>5, <2>6 DEF Linking, UpTo
<1>4. Following'
  BY <1>0 DEF Following
<1>5. tab'.pending # NoMove => Waiting(tab.pending)'
  BY <1>0, <1>2, PendingWaits
<1>6. Mailing'
  BY <1>0, <1>2 DEF Mailing
<1> QED BY <1>1, <1>3, <1>4, <1>5, <1>6 DEF TableInv

\* The snapshot of the welcome draws the picture anew.
LEMMA WelcomeFollows ==
  ASSUME NEW n \in Nat, Good(room')
  PROVE  /\ Welcome(n) \in Seq(Event) /\ UpTo(Welcome(n), n)
         /\ Speaks(Welcome(n), {})
         /\ \A v \in Picture : ~v.drawn => Follows(v, Welcome(n), n, room')
<1> DEFINE a == [type |-> "ack", seq |-> n]
           b == PresenceEvent("player_reconnected", n, Me)
           c == RoomState(room', n)
           d == GameState(room', n)
<1>1. /\ a \in Event /\ a.type = "ack" /\ a.seq = n
      /\ \A v \in Picture : Draw(v, a) = v
  <2>1. a \in Event /\ a.type = "ack" /\ a.seq = n
    BY DEF Event, Numbering, Notice
  <2> HIDE DEF a
  <2> QED BY <2>1, SilentDraws
<1>2. /\ b \in Event /\ b.seq = n
      /\ \A v \in Picture : Draw(v, b).drawn = v.drawn
  <2>1. b \in Event /\ b.seq = n
    BY MeIsUser DEF PresenceEvent, Event, Numbering, Presence
  <2>2. b.type = "player_reconnected"
    BY DEF PresenceEvent
  <2> HIDE DEF b
  <2>3. \A v \in Picture : Draw(v, b).drawn = v.drawn
    BY <2>2 DEF Draw, Picture
  <2> QED BY <2>1, <2>3
<1>3. /\ c \in Event /\ c.seq = n
      /\ \A v \in Picture : Draw(v, c).drawn = v.drawn
  BY RoomStateDraws
<1>4. /\ d \in Event /\ d.seq = n
      /\ \A v \in Picture : Agrees(Draw(v, d), room')
  BY GameStateDraws
<1>5. Speaks(<<a>>, {}) /\ Speaks(<<b>>, {}) /\ Speaks(<<c>>, {}) /\ Speaks(<<d>>, {})
  BY NewsSpeak, BroadcastsSpeak
<1>6. Welcome(n) = ((<<a>> \o <<b>>) \o <<c>>) \o <<d>>
  BY DEF Welcome, Snapshot, PresenceEvent
<1> HIDE DEF a, b, c, d
<1>7. /\ <<a>> \in Seq(Event) /\ UpTo(<<a>>, n) /\ <<b>> \in Seq(Event) /\ UpTo(<<b>>, n)
      /\ <<c>> \in Seq(Event) /\ UpTo(<<c>>, n) /\ <<d>> \in Seq(Event) /\ UpTo(<<d>>, n)
  BY <1>1, <1>2, <1>3, <1>4 DEF UpTo
<1>8. /\ <<a>> \o <<b>> \in Seq(Event) /\ UpTo(<<a>> \o <<b>>, n)
      /\ Speaks(<<a>> \o <<b>>, {})
  BY <1>5, <1>7, UpToBoth, SpeaksBoth
<1>9. /\ (<<a>> \o <<b>>) \o <<c>> \in Seq(Event)
      /\ UpTo((<<a>> \o <<b>>) \o <<c>>, n) /\ Speaks((<<a>> \o <<b>>) \o <<c>>, {})
  BY <1>5, <1>7, <1>8, UpToBoth, SpeaksBoth
<1>10. /\ Welcome(n) \in Seq(Event) /\ UpTo(Welcome(n), n)
       /\ Speaks(Welcome(n), {})
  <2>1. PICK p : p = (<<a>> \o <<b>>) \o <<c>>
    OBVIOUS
  <2>2. p \in Seq(Event) /\ UpTo(p, n) /\ Speaks(p, {}) /\ Welcome(n) = p \o <<d>>
    BY <1>6, <1>9, <2>1
  <2>3. p \o <<d>> \in Seq(Event) /\ UpTo(p \o <<d>>, n)
    BY <1>7, <2>2, UpToBoth
  <2>4. Speaks(p \o <<d>>, {})
    BY <1>5, <1>7, <2>2, SpeaksBoth
  <2> QED BY <2>2, <2>3, <2>4
<1>11. ASSUME NEW v \in Picture, ~v.drawn
       PROVE  Follows(v, Welcome(n), n, room')
  <2>1. PICK w : w = Draw(v, b)
    OBVIOUS
  <2>2. PICK x : x = Draw(w, c)
    OBVIOUS
  <2>3. PICK y : y = Draw(x, d)
    OBVIOUS
  <2>4. /\ w \in Picture /\ ~w.drawn /\ x \in Picture /\ ~x.drawn /\ y \in Picture
        /\ Agrees(y, room')
    <3>1. w \in Picture /\ ~w.drawn
      BY <1>2, <1>11, <2>1, DrawnPicture
    <3>2. x \in Picture /\ ~x.drawn
      BY <1>3, <2>2, <3>1, DrawnPicture
    <3>3. y \in Picture /\ Agrees(y, room')
      BY <1>4, <2>3, <3>2, DrawnPicture
    <3> QED BY <3>1, <3>2, <3>3
  <2>5. /\ PileFits(v, room') /\ PileFits(w, room') /\ PileFits(x, room')
        /\ PileFits(y, room')
    <3>1. PileFits(y, room')
      BY <2>4, AgreesFits
    <3> QED BY <1>11, <2>4, <3>1 DEF PileFits
  <2>6. Runs(v, <<a>>, v, n, room')
    BY <1>1, <2>5, RunsOne
  <2>7. Runs(v, <<b>>, w, n, room')
    BY <1>2, <2>1, <2>5, RunsOne
  <2>8. Runs(w, <<c>>, x, n, room')
    BY <1>3, <2>2, <2>4, <2>5, RunsOne
  <2>9. Runs(x, <<d>>, y, n, room')
    BY <1>4, <2>3, <2>4, <2>5, RunsOne
  <2>10. Runs(v, <<a>> \o <<b>>, w, n, room')
    BY <1>7, <2>6, <2>7, RunsOn
  <2>11. Runs(v, (<<a>> \o <<b>>) \o <<c>>, x, n, room')
    BY <1>7, <1>8, <2>8, <2>10, RunsOn
  <2>12. Runs(v, Welcome(n), y, n, room')
    BY <1>6, <1>7, <1>9, <2>9, <2>11, RunsOn
  <2> QED BY <2>4, <2>12 DEF Follows
<1> QED BY <1>10, <1>11

LEMMA RejoinKeeps ==
  ASSUME TableInv, Rejoin
  PROVE  TableInv'
<1>0. /\ RoomOK /\ Linking /\ Mailing /\ seq \in Nat /\ seq' = seq + 1
      /\ linked' = TRUE /\ applied' = applied
      /\ down' = Deliver(<<>>, Welcome(seq + 1))
      /\ dropped' = (Len(Welcome(seq + 1)) > Capacity)
      /\ up' = IF tab.pending = NoMove THEN <<>> ELSE <<tab.pending>>
      /\ tab \in Tab /\ tab.lastSeq \in Nat /\ tab.lastSeq <= seq
      /\ tab.pending \in Moves \cup {NoMove}
      /\ tab' = [tab EXCEPT !.status = "CONNECTED", !.drawn = FALSE] /\ Reconnect(Me)
      /\ down = <<>>
  BY DEF TableInv, Linking, Tab, Rejoin
<1>1. RoomOK' /\ Good(room')
  <2>1. [Next]_room
    BY <1>0, MeIsUser DEF Next
  <2> QED BY <1>0, <2>1, RoomGoesOn
<1>2. /\ tab' \in Tab /\ tab'.game = tab.game /\ tab'.hand = tab.hand /\ ~tab'.drawn
      /\ tab'.lastSeq = tab.lastSeq /\ tab'.sent = tab.sent
      /\ tab'.pending = tab.pending
  <2>1. "CONNECTED" \in Statuses /\ FALSE \in BOOLEAN
    BY DEF Statuses
  <2>2. tab' = [tab EXCEPT !.status = "CONNECTED", !.drawn = FALSE] /\ tab \in Tab
    BY <1>0
  <2>3. /\ tab' \in Tab /\ tab'.game = tab.game /\ tab'.hand = tab.hand
        /\ tab'.drawn = FALSE /\ tab'.lastSeq = tab.lastSeq
        /\ tab'.sent = tab.sent /\ tab'.pending = tab.pending
    BY <2>1, <2>2 DEF Tab
  <2> QED BY <2>3
<1>3. PICK n : n = seq + 1 /\ n \in Nat
  BY <1>0
<1>4. PICK q : /\ q = Welcome(n) /\ q \in Seq(Event) /\ UpTo(q, n) /\ Speaks(q, {})
               /\ \A v \in Picture : ~v.drawn => Follows(v, q, n, room')
  BY <1>1, <1>3, WelcomeFollows
<1>5. /\ down' \in Seq(Event)
      /\ \A j \in 1..Len(down') : \E k \in 1..Len(q) : down'[j] = q[k]
      /\ ~dropped' => down' = q
  <2>1. PICK e : e = <<>> /\ e \in Seq(Event) /\ e \o q = q
    <3>1. <<>> \in Seq(Event)
      OBVIOUS
    <3>2. <<>> \o q = q
      BY <1>4, ConcatEmptySeq
    <3> QED BY <3>1, <3>2
  <2>2. down' = Deliver(e, q) /\ dropped' = (Len(e \o q) > Capacity)
    BY <1>0, <1>3, <1>4, <2>1
  <2>3. LET d == Deliver(e, q) IN
          /\ d \in Seq(Event)
          /\ \A j \in 1..Len(d) :
               \/ \E k \in 1..Len(e) : d[j] = e[k]
               \/ \E k \in 1..Len(q) : d[j] = q[k]
          /\ ~(Len(e \o q) > Capacity) => d = e \o q
    BY <1>4, <2>1, Delivered
  <2>4. \A k \in 1..Len(e) : FALSE
    BY <2>1
  <2> QED BY <2>1, <2>2, <2>3, <2>4
<1>6. Linking'
  <2>1. /\ applied \in [Commands -> Nat]
        /\ \A id \in Commands : applied[id] <= seq
    BY <1>0 DEF Linking
  <2>2. \A id \in Commands : applied[id] <= seq + 1
    BY <1>0, <2>1
  <2>3. tab.lastSeq <= seq + 1
    BY <1>0
  <2>4. UpTo(down', seq')
    BY <1>0, <1>3, <1>4, <1>5 DEF UpTo
  <2>5. up' \in Seq(Moves \cup {Sync})
    <3>1. CASE tab.pending = NoMove
      BY <1>0, <3>1
    <3>2. CASE tab.pending # NoMove
      <4>1. PICK m : m = tab.pending /\ m \in Moves \cup {Sync}
        BY <1>0, <3>2
      <4>2. up' = <<m>>
        BY <1>0, <3>2, <4>1
      <4> QED BY <4>1, <4>2
    <3> QED BY <3>1, <3>2
  <2>6. dropped' \in BOOLEAN
    BY <1>0
  <2> QED BY <1>0, <1>2, <1>5, <2>1, <2>2, <2>3, <2>4, <2>5, <2>6 DEF Linking, UpTo
<1>7. Following'
  <2>1. ViewOf(tab') \in Picture /\ ~ViewOf(tab').drawn
    BY <1>2, ViewIsPicture DEF ViewOf
  <2>2. PileFits(ViewOf(tab'), room')
    BY <2>1 DEF PileFits
  <2>3. ~dropped' => Follows(ViewOf(tab'), down', seq', room')
    BY <1>0, <1>3, <1>4, <1>5, <2>1
  <2> QED BY <2>2, <2>3 DEF Following
<1>8. tab'.pending # NoMove => Waiting(tab.pending)'
  BY <1>0, <1>2, PendingWaits
<1>9. Mailing'
  <2>1. tab'.pending # NoMove => tab'.pending.id <= tab'.sent
    BY <1>0, <1>2 DEF Mailing
  <2>2. \A j \in 1..Len(down') : ~Answers(down'[j])
    BY <1>4, <1>5 DEF Speaks
  <2>3. \A i \in 1..Len(up') : i = 1 /\ up'[i] = tab'.pending
    BY <1>0, <1>2
  <2> QED BY <2>1, <2>2, <2>3 DEF Mailing
<1> QED BY <1>1, <1>6, <1>7, <1>8, <1>9 DEF TableInv
----------------------------------------------------------------------------
(* The invariant holds, and what follows from it. *)

LEMMA FirstTable ==
  ASSUME NEW order \in SetToSeqs(User)
  PROVE  /\ order \in Seq(User) /\ order # <<>> /\ Head(order) \in User
         /\ IsInjectiveSeq(order) /\ Range(order) = User
<1> DEFINE n == Cardinality(User)
<1>1. n \in Nat /\ n # 0
  BY PlayersAssumption, MeIsUser, FS_CardinalityType, FS_EmptySet
<1>2. IsFiniteSet(1..n) /\ Cardinality(1..n) = n
  BY <1>1, FS_Interval
<1>3. order \in [1..n -> User] /\ \A i, j \in 1..n : i # j => order[i] # order[j]
  BY DEF SetToSeqs
<1>4. order \in Seq(User) /\ Len(order) = n
  BY <1>1, <1>3
<1>5. order # <<>> /\ Head(order) \in User
  BY <1>1, <1>4
<1>6. order \in Injection(1..n, User)
  BY <1>3 DEF Injection, IsInjective
<1>7. order \in Surjection(1..n, User)
  BY <1>2, <1>6, PlayersAssumption, FS_Injection
<1>8. Range(order) = User
  BY <1>3, <1>7 DEF Surjection, Range
<1> QED BY <1>3, <1>4, <1>5, <1>8 DEF IsInjectiveSeq

LEMMA InitTableInv == TableInit => TableInv
<1> SUFFICES ASSUME TableInit PROVE TableInv
  OBVIOUS
<1>1. PICK order \in SetToSeqs(User) :
        room = [NewRoom EXCEPT !.seats = order, !.online = User, !.host = Head(order)]
  BY DEF TableInit
<1>2. /\ order \in Seq(User) /\ Head(order) \in User
      /\ IsInjectiveSeq(order) /\ Range(order) = User
  BY FirstTable
<1>3. /\ room.phase = "lobby" /\ room.seats = order /\ room.online = User
      /\ room.host = Head(order) /\ room.done = {} /\ room.ready = {}
      /\ room.winners = <<>> /\ room.pending = NoOne /\ room.turn = NoOne
      /\ room.result = NoResult
      /\ room.hands = [p \in User |-> {}] /\ room.handCount = [p \in User |-> 0]
      /\ NoPile(room)
  BY <1>1 DEF NewRoom, NoPile
<1>4. room \in Room
  <2>1. /\ <<>> \in Seq(User)
        /\ 1 \in 1..MaxDecks /\ 1 \in Nat \ {0} /\ 0 \in Nat
        /\ [p \in User |-> {}] \in [User -> SUBSET Card]
        /\ [p \in User |-> 0] \in [User -> Nat]
    BY DEF MaxDecks
  <2>2. NewRoom \in Room
    BY <2>1, Zenon DEF NewRoom, Room
  <2>3. PICK b, h : /\ b = NewRoom /\ b \in Room /\ h = Head(order)
                    /\ h \in User \cup {NoOne}
    BY <1>2, <2>2
  <2>4. room = [b EXCEPT !.seats = order, !.online = User, !.host = h]
    BY <1>1, <2>3
  <2>5. order \in Seq(User) /\ User \in SUBSET User
    BY <1>2
  <2> QED BY <2>3, <2>4, <2>5 DEF Room
<1>5. TypeOK
  BY <1>2, <1>3, <1>4 DEF TypeOK, WellTyped, Seated
<1>6. Cards
  <2>1. Custody(room)
    BY <1>3 DEF Custody, NoPile
  <2>2. HandsCounted(room)
    BY <1>3, FS_EmptySet DEF HandsCounted
  <2> QED BY <1>3, <2>1, <2>2, NoPileCounted DEF Cards
<1>7. Sound(room)
  BY <1>3, <1>5 DEF Sound, InLobby, TypeOK
<1>8. RoomOK
  BY <1>5, <1>6, <1>7 DEF RoomOK
<1>9. /\ seq = 1 /\ applied = [id \in Commands |-> 0] /\ linked = TRUE /\ dropped = FALSE
      /\ down = <<>> /\ up = <<>>
      /\ tab = [game |-> Shown(room), hand |-> {}, role |-> "none", lastSeq |-> 1,
                status |-> "CONNECTED", pending |-> NoMove, sent |-> 0, drawn |-> TRUE]
  BY DEF TableInit
<1>10. /\ tab.game = Shown(room) /\ tab.pending = NoMove /\ tab.lastSeq = 1
       /\ tab.sent = 0
  BY <1>9
<1>11. tab \in Tab
  <2>1. Shown(room) \in Game
    BY <1>8, RoomIsGood, ShownGame
  <2> QED BY <1>9, <2>1 DEF Tab, Statuses
<1>12. Linking
  <2>1. down \in Seq(Event) /\ up \in Seq(Moves \cup {Sync}) /\ UpTo(down, seq)
    BY <1>9 DEF UpTo
  <2>2. seq \in Nat /\ applied \in [Commands -> Nat] /\ tab.lastSeq <= seq
        /\ \A id \in Commands : applied[id] <= seq
    BY <1>9, <1>10
  <2>3. linked \in BOOLEAN /\ dropped \in BOOLEAN /\ linked
    BY <1>9, Zenon
  <2> QED BY <1>11, <2>1, <2>2, <2>3 DEF Linking
<1>13. Following
  <2>1. ViewOf(tab) \in Picture /\ ViewOf(tab).game = Shown(room)
    BY <1>10, <1>11, ViewIsPicture DEF ViewOf
  <2>2. Agrees(ViewOf(tab), room)
    BY <1>3, <2>1 DEF Agrees, Shown
  <2>3. Runs(ViewOf(tab), <<>>, ViewOf(tab), seq, room)
    BY <2>1, RunsNone
  <2> QED BY <1>9, <2>1, <2>2, <2>3, AgreesFits DEF Following, Follows
<1>14. Mailing
  BY <1>9, <1>10 DEF Mailing
<1> QED BY <1>8, <1>10, <1>12, <1>13, <1>14 DEF TableInv

LEMMA StepTableInv == TableInv /\ [TableNext]_vars => TableInv'
<1> SUFFICES ASSUME TableInv, [TableNext]_vars PROVE TableInv'
  OBVIOUS
<1>1. CASE RoomStep
  BY <1>1, RoomStepKeeps
<1>2. CASE HandleCommand
  BY <1>2, HandleCommandKeeps
<1>3. CASE Receive
  BY <1>3, ReceiveKeeps
<1>4. CASE Click
  BY <1>4, ClickKeeps
<1>5. CASE Lose
  BY <1>5, LoseKeeps
<1>6. CASE Rejoin
  BY <1>6, RejoinKeeps
<1>7. CASE UNCHANGED vars
  <2>1. RoomOK'
    BY <1>7 DEF vars, TableInv, RoomOK, TypeOK, Cards, Custody, HandsCounted, PileCounted,
       Sound, WellTyped, InPlay, Over, InLobby
  <2>2. Linking' /\ Following' /\ Mailing'
    BY <1>7 DEF vars, TableInv, Linking, Following, Mailing, Follows, UpTo
  <2>3. tab'.pending # NoMove => Waiting(tab.pending)'
    BY <1>7 DEF vars, TableInv, Waiting, MoveFits
  <2> QED BY <2>1, <2>2, <2>3 DEF TableInv
<1> QED BY <1>1, <1>2, <1>3, <1>4, <1>5, <1>6, <1>7 DEF TableNext

LEMMA TableInvHolds == TableSpec => []TableInv
BY InitTableInv, StepTableInv, PTL DEF TableSpec

\* When nothing is under way and nothing was dropped, the tab shows the room:
\* the sequence of events that any interleaving of the other players, the clock,
\* the tab's own commands, repeated commands and rejoins leaves has drawn it.
THEOREM ViewIsRight == TableSpec => []ViewAgrees
<1>1. TableInv => ViewAgrees
  <2> SUFFICES ASSUME TableInv, Quiet, ~dropped
               PROVE  LET g == tab.game IN LET s == Shown(room) IN
                      /\ <<g.phase, g.seats, g.away, g.won, g.host>>
                           = <<s.phase, s.seats, s.away, s.won, s.host>>
                      /\ s.phase # "lobby" =>
                           /\ <<g.counts, g.stackCount, g.rank, g.turn, g.finishing>>
                                = <<s.counts, s.stackCount, s.rank, s.turn, s.finishing>>
                           /\ tab.hand = room.hands[Me]
    BY DEF ViewAgrees
  <2>1. Follows(ViewOf(tab), <<>>, seq, room)
    BY DEF TableInv, Following, Quiet
  <2>2. Agrees(ViewOf(tab), room)
    BY <2>1, FollowsHere
  <2> QED BY <2>2 DEF Agrees, ViewOf, Shown
<1> QED BY <1>1, TableInvHolds, PTL

\* A command that the room carries out is the one the tab waits for, and was
\* not carried out before; a play or a challenge chosen with a whole picture
\* fits the pile.
LEMMA AppliedFits ==
  ASSUME TableInv, HandleCommand, NEW id \in Commands, applied'[id] # applied[id]
  PROVE  /\ OnThePile(Head(up))
         /\ applied[id] = 0 /\ tab.pending # NoMove /\ tab.pending.id = id
<1>1. PICK m : m = Head(up)
  OBVIOUS
<1>2. /\ RoomOK /\ Mailing /\ up \in Seq(Moves \cup {Sync}) /\ up # <<>>
      /\ applied \in [Commands -> Nat]
  BY DEF TableInv, Linking, HandleCommand
<1>3. m \in Moves \cup {Sync} /\ m = up[1] /\ 1 \in 1..Len(up)
  BY <1>1, <1>2
<1>4. m # Sync /\ applied' = [applied EXCEPT ![m.id] = seq']
  BY <1>1, HandledTold
<1>5. m \in Moves /\ m.id \in Commands /\ m # NoMove
  BY <1>3, <1>4, MoveTyped
<1>6. id = m.id
  BY <1>2, <1>4, <1>5
<1>7. m.kind # "sync" /\ ~Seen(m) /\ Accepts(m)
  <2>1. m.kind # "sync"
    BY <1>5, MoveTyped DEF Kinds
  <2> QED BY <1>1, <2>1 DEF HandleCommand
<1>8. applied[id] = 0
  BY <1>6, <1>7 DEF Seen
<1>9. m = tab.pending /\ Waiting(m)
  <2>1. m = tab.pending
    BY <1>2, <1>3, <1>4 DEF Mailing
  <2> QED BY <1>5, <2>1 DEF TableInv
<1>10. ASSUME m.kind \in {"play", "challenge"}, m.whole
       PROVE  /\ m.stackCount = room.stackCount
              /\ room.stackCount # 0 => m.top = room.topPlay.player
  <2>1. room.phase = "playing" /\ room.turn = Me /\ m.seq = seq
    BY <1>7, <1>10 DEF Accepts, OnTurn, Current
  <2>2. \/ room.stackCount = 0
        \/ m.stackCount = room.stackCount /\ m.top = room.topPlay.player
    BY <1>9, <1>10, <2>1 DEF Waiting, MoveFits
  <2>3. room.stackCount = 0 => m.stackCount = 0
    <3> SUFFICES ASSUME room.stackCount = 0 PROVE m.stackCount = 0
      OBVIOUS
    <3>1. m.kind = "play"
      BY <1>7, <1>10 DEF Accepts
    <3>2. m.claims # <<>>
      BY <1>7, <3>1 DEF Accepts, ValidOpeningClaims
    <3> QED BY <1>5, <3>1, <3>2, MoveTyped DEF ClaimsFit
  <2> QED BY <2>2, <2>3
<1> QED BY <1>1, <1>5, <1>6, <1>8, <1>9, <1>10 DEF OnThePile

\* The room carries out a play or a challenge on the pile it was chosen on, when
\* the tab had the whole picture; and any command at most once, while awaited.
THEOREM MovesMeet == TableSpec => MovesMeetTheirPile
<1>1. TableInv /\ [TableNext]_vars =>
        [\A id \in Commands : applied'[id] # applied[id] =>
           /\ OnThePile(Head(up))
           /\ applied[id] = 0 /\ tab.pending # NoMove /\ tab.pending.id = id]_vars
  <2> SUFFICES ASSUME TableInv, [TableNext]_vars,
                      NEW id \in Commands, applied'[id] # applied[id]
               PROVE  /\ OnThePile(Head(up))
                      /\ applied[id] = 0 /\ tab.pending # NoMove /\ tab.pending.id = id
    OBVIOUS
  <2>1. HandleCommand
    BY DEF TableNext, vars, RoomStep, Elsewhere, Receive, Click, ClickPlay, ClickCallout,
       ClickSkip, ClickStart, ClickReturn, Give, Lose, Rejoin
  <2> QED BY <2>1, AppliedFits
<1> QED BY <1>1, TableInvHolds, PTL DEF TableSpec, MovesMeetTheirPile

LEMMA StepIsOfTheRoom == TableInv /\ [TableNext]_vars => [Next]_room
<1> SUFFICES ASSUME TableInv, [TableNext]_vars PROVE [Next]_room
  OBVIOUS
<1>1. CASE RoomStep
  BY <1>1, RoomStepTold DEF TableInv, Linking
<1>2. CASE HandleCommand
  BY <1>2, HandledTold
<1>3. CASE Lose \/ Rejoin
  BY <1>3, MeIsUser DEF Lose, Rejoin, Next
<1>4. CASE Receive \/ Click \/ UNCHANGED vars
  BY <1>4 DEF Receive, Click, ClickPlay, ClickCallout, ClickSkip, ClickStart, ClickReturn,
     Give, vars
<1> QED BY <1>1, <1>2, <1>3, <1>4 DEF TableNext

\* The room behind the tab is that of Match: with the sequence check, the answers
\* and the stored results of repeated commands around its handlers, each step is
\* one of Match's or leaves the room alone, so what holds of the cards and of the
\* turn there holds here.
THEOREM TableIsAMatch ==
  TableSpec => /\ [][Next]_room
               /\ [](TypeOK /\ CardCustody /\ CountsAgree /\ TurnIsPlayable)
<1>1. TableInv => TypeOK /\ CardCustody /\ CountsAgree /\ TurnIsPlayable
  BY DEF TableInv, RoomOK, Cards, Custody, HandsCounted, PileCounted, CardCustody,
     CountsAgree, Sound, InPlay, Running, Over, InLobby, TurnIsPlayable
<1> QED BY <1>1, StepIsOfTheRoom, TableInvHolds, PTL DEF TableSpec
=============================================================================
