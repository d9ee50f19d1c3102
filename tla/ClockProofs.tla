---------------------------- MODULE ClockProofs ----------------------------
(***************************************************************************)
(* Theorems about TurnClock for every number of users, every length of a   *)
(* turn and of the cushion, and every size of the inbox: a countdown that  *)
(* is shown is real, and nobody who was present for their whole turn is    *)
(* skipped before it is over.                                              *)
(***************************************************************************)
EXTENDS TurnClock, SequenceTheorems, TLAPS

----------------------------------------------------------------------------
(* The inbox. *)

InboxTyped(q) == q \in Seq(Message) /\ Len(q) <= InboxSize

\* r is q with something behind it, of which only m may be fresh.
Follows(q, r, m) ==
  /\ InboxTyped(r) /\ Len(q) <= Len(r)
  /\ \A i \in 1..Len(q) : r[i] = q[i]
  /\ \A i \in 1..Len(r) : i <= Len(q) \/ r[i] = m \/ ~r[i].fresh

LEMMA MessagesTyped ==
  ASSUME NEW p \in User
  PROVE  /\ Expired(p) \in Message
         /\ \A kind \in {"join", "gone", "act", "leave"} :
              /\ From(kind, p) \in Message
              /\ From(kind, p).kind = kind
              /\ ~From(kind, p).fresh
         /\ Expired(p).kind = "expired" /\ Expired(p).player = p
         /\ Expired(p).fresh
BY DEF Expired, From, Message

LEMMA AppendFollows ==
  ASSUME NEW q, InboxTyped(q), Len(q) < InboxSize, NEW m \in Message
  PROVE  /\ Follows(q, Append(q, m), m)
         /\ Append(q, m)[Len(q) + 1] = m
         /\ Len(Append(q, m)) = Len(q) + 1
BY ClockAssumption DEF InboxTyped, Follows

LEMMA SameFollows ==
  ASSUME NEW q, InboxTyped(q), NEW m
  PROVE  Follows(q, q, m)
BY DEF InboxTyped, Follows

LEMMA TailTyped ==
  ASSUME NEW q, InboxTyped(q), q # <<>>
  PROVE  /\ InboxTyped(Tail(q)) /\ Len(Tail(q)) < InboxSize
         /\ Len(Tail(q)) = Len(q) - 1
         /\ \A i \in 1..Len(Tail(q)) : Tail(q)[i] = q[i + 1]
         /\ Head(q) = q[1] /\ Head(q) \in Message
<1>1. Len(q) \in Nat \ {0}
  BY DEF InboxTyped
<1> QED
  BY <1>1, ClockAssumption DEF InboxTyped

LEMMA OutdatedTyped ==
  ASSUME NEW q, InboxTyped(q)
  PROVE  /\ InboxTyped(Outdated(q)) /\ Len(Outdated(q)) = Len(q)
         /\ \A i \in 1..Len(q) : ~Outdated(q)[i].fresh
<1>1. DOMAIN q = 1..Len(q) /\ Len(q) \in Nat
  BY DEF InboxTyped
<1>2. ASSUME NEW i \in 1..Len(q)
      PROVE  /\ Outdated(q)[i] \in Message
             /\ ~Outdated(q)[i].fresh
  <2>1. q[i] \in Message
    BY <1>1 DEF InboxTyped
  <2>2. Outdated(q)[i] = [q[i] EXCEPT !.fresh = FALSE]
    BY <1>1 DEF Outdated
  <2> QED
    BY <2>1, <2>2 DEF Message
<1>3. Outdated(q) \in [1..Len(q) -> Message]
  BY <1>1, <1>2 DEF Outdated
<1>4. Outdated(q) \in Seq(Message)
  BY <1>1, <1>3
<1>5. Len(Outdated(q)) = Len(q)
  BY <1>1, <1>3, <1>4
<1> QED
  BY <1>2, <1>4, <1>5 DEF InboxTyped

LEMMA PostsFollow ==
  ASSUME NEW q, InboxTyped(q), Len(q) < InboxSize,
         NEW m \in Message, online \subseteq User, NEW r \in Posts(q, m)
  PROVE  Follows(q, r, m)
<1>1. CASE r = Append(q, m)
  BY <1>1, AppendFollows
<1>2. CASE r # Append(q, m)
  <2>1. PICK kind \in {"act", "leave"}, p \in Joined : r = Append(q, From(kind, p))
    BY <1>2 DEF Posts
  <2>2. p \in User
    BY <2>1 DEF Joined
  <2>3. From(kind, p) \in Message /\ ~From(kind, p).fresh
    BY <2>2, MessagesTyped
  <2>4. Follows(q, r, From(kind, p))
    BY <2>1, <2>3, AppendFollows
  <2> QED
    BY <2>3, <2>4 DEF Follows
<1> QED
  BY <1>1, <1>2

\* What the inbox is after a turn begins; connected is who may answer for it.
LEMMA TurnBegins ==
  ASSUME NEW p, NEW connected, connected \subseteq User,
         p \in User \cup {NoOne},
         NEW q, InboxTyped(q), Len(q) < InboxSize, online \subseteq User,
         SetCurrentTurn(p, connected, q)
  PROVE  /\ InboxTyped(inbox')
         /\ p \in connected =>
              \A i \in 1..Len(inbox') : ~inbox'[i].fresh
<1>1. /\ InboxTyped(Outdated(q)) /\ Len(Outdated(q)) = Len(q)
      /\ \A i \in 1..Len(q) : ~Outdated(q)[i].fresh
  BY OutdatedTyped
<1>2. CASE p # NoOne /\ p \notin connected /\ connected # {}
  <2>1. Expired(p) \in Message
    BY <1>2, MessagesTyped
  <2>2. inbox' \in Posts(Outdated(q), Expired(p))
    BY <1>2 DEF SetCurrentTurn
  <2>3. Follows(Outdated(q), inbox', Expired(p))
    BY <1>1, <2>1, <2>2, PostsFollow
  <2> QED
    BY <1>2, <2>3 DEF Follows
<1>3. CASE ~(p # NoOne /\ p \notin connected /\ connected # {})
  <2>1. inbox' = Outdated(q)
    BY <1>3 DEF SetCurrentTurn
  <2> QED
    BY <1>1, <2>1
<1> QED
  BY <1>2, <1>3

LEMMA SuccessorsSeated ==
  ASSUME NEW s, NEW next \in Successors(s)
  PROVE  next \in s \cup {NoOne}
BY DEF Successors

LEMMA OutdatedFired ==
  ASSUME NEW events, events \subseteq Message,
         \A e \in events : e.kind = "expired"
  PROVE  /\ OutdatedSet(events) \subseteq Message
         /\ \A e \in OutdatedSet(events) : e.kind = "expired" /\ ~e.fresh
BY DEF OutdatedSet, Message

----------------------------------------------------------------------------
(* Type correctness. *)

LEMMA SetCurrentTurnTyped ==
  ASSUME TypeOK,
         NEW p, NEW connected, connected \subseteq User,
         p \in seats' \cup {NoOne}, seats' \subseteq seats,
         NEW q, InboxTyped(q), Len(q) < InboxSize,
         linked' = linked, online' \subseteq seats',
         SetCurrentTurn(p, connected, q)
  PROVE  TypeOK'
<1>1. seats \subseteq User /\ online \subseteq User /\ NoOne \notin connected
  BY ClockAssumption DEF TypeOK
<1>2. InboxTyped(inbox')
  BY <1>1, TurnBegins
<1>3. /\ fired' \subseteq Message
      /\ \A e \in fired' : e.kind = "expired"
  BY OutdatedFired DEF TypeOK, SetCurrentTurn
<1>4. /\ left' \in 0..TurnDuration
      /\ {shown', cushioned', armed', flip', steady'} \subseteq BOOLEAN
  <2>1. left' \in {left, TurnDuration}
    BY DEF SetCurrentTurn
  <2>2. left' \in 0..TurnDuration
    BY <2>1, ClockAssumption DEF TypeOK
  <2>3. cushioned' \in {cushioned, FALSE}
    BY DEF SetCurrentTurn
  <2>4. cushioned' \in BOOLEAN /\ flip' \in BOOLEAN
    BY <2>3 DEF TypeOK, SetCurrentTurn
  <2>5. shown' \in BOOLEAN /\ armed' \in BOOLEAN /\ steady' \in BOOLEAN
    <3>1. (p \in connected) \in BOOLEAN
      OBVIOUS
    <3> QED
      BY <3>1, Zenon DEF SetCurrentTurn
  <2> QED
    BY <2>2, <2>4, <2>5
<1>5. turn' = p /\ (armed' => turn' # NoOne)
  BY <1>1 DEF SetCurrentTurn
<1> QED
  BY <1>1, <1>2, <1>3, <1>4, <1>5 DEF TypeOK, InboxTyped

LEMMA MarkReconnectedTyped ==
  ASSUME TypeOK, NEW p \in seats, NEW q, InboxTyped(q), Len(q) < InboxSize,
         MarkReconnected(p, q)
  PROVE  /\ InboxTyped(inbox') /\ turn' = turn
         /\ left' \in 0..TurnDuration
         /\ {shown', cushioned', armed', flip', steady'} \subseteq BOOLEAN
         /\ armed' => turn # NoOne
<1>1. online \subseteq User /\ p # NoOne
  BY ClockAssumption DEF TypeOK
<1>2. CASE turn = p /\ CushionDue
  <2>1. /\ left' = ReconnectCushion /\ inbox' = q
        /\ cushioned' = TRUE /\ armed' = TRUE /\ shown' = TRUE
        /\ UNCHANGED <<turn, flip, steady>>
    BY <1>2 DEF MarkReconnected
  <2>2. left' \in 0..TurnDuration
    BY <2>1, ClockAssumption
  <2>3. {shown', cushioned', armed', flip', steady'} \subseteq BOOLEAN
    BY <2>1 DEF TypeOK
  <2> QED
    BY <1>1, <1>2, <2>1, <2>2, <2>3
<1>3. CASE ~(turn = p /\ CushionDue)
  <2>1. UNCHANGED clock
    BY <1>3 DEF MarkReconnected
  <2>2. CASE turn \notin online \cup {p, NoOne}
    <3>1. Expired(turn) \in Message
      BY <2>2, MessagesTyped DEF TypeOK
    <3>2. inbox' \in Posts(q, Expired(turn))
      BY <1>3, <2>2 DEF MarkReconnected
    <3>3. InboxTyped(inbox')
      BY <1>1, <3>1, <3>2, PostsFollow DEF Follows
    <3> QED
      BY <2>1, <3>3 DEF TypeOK, clock
  <2>3. CASE turn \in online \cup {p, NoOne}
    <3>1. inbox' = q
      BY <1>3, <2>3 DEF MarkReconnected
    <3> QED
      BY <2>1, <3>1 DEF TypeOK, clock
  <2> QED
    BY <2>2, <2>3
<1> QED
  BY <1>2, <1>3

LEMMA LeaveRoomTyped ==
  ASSUME TypeOK, NEW p \in User, NEW q, InboxTyped(q), Len(q) < InboxSize,
         LeaveRoom(p, q)
  PROVE  TypeOK'
<1>1. /\ seats' = seats \ {p} /\ online' = online \ {p} /\ linked' = linked
      /\ online \subseteq User /\ online' \subseteq seats'
  BY DEF LeaveRoom, Depart, TypeOK
<1>2. ASSUME NEW next \in Successors(seats \ {p}),
             NEW connected \in {online, online \ {p}},
             SetCurrentTurn(next, connected, q)
      PROVE  TypeOK'
  <2>1. next \in seats' \cup {NoOne}
    BY <1>1, SuccessorsSeated
  <2>2. connected \subseteq User /\ seats' \subseteq seats
    BY <1>1, <1>2
  <2> QED
    BY <1>1, <1>2, <2>1, <2>2, SetCurrentTurnTyped
<1>3. ASSUME turn # p, inbox' = q, UNCHANGED <<clock, fired>>
      PROVE  TypeOK'
  BY <1>1, <1>3 DEF TypeOK, clock, InboxTyped
<1> QED
  BY <1>2, <1>3 DEF LeaveRoom

LEMMA HandleMessageTyped ==
  ASSUME TypeOK, HandleMessage
  PROVE  TypeOK'
<1> DEFINE m == Head(inbox)
           p == m.player
           q == Tail(inbox)
<1>1. InboxTyped(inbox) /\ inbox # <<>>
  BY DEF TypeOK, InboxTyped, HandleMessage
<1>2. m \in Message /\ InboxTyped(q) /\ Len(q) < InboxSize
  BY <1>1, TailTyped
<1>3. p \in User
  BY <1>2 DEF Message
<1>4. \/ Rejoin(p, q) \/ JoinOrRefuse(p, q) \/ MarkDisconnected(p, q)
      \/ Ignore(q) \/ StartGame(p, q) \/ Move(p, q) \/ LeaveRoom(p, q)
      \/ TurnTimerExpired(m, q)
  BY DEF HandleMessage
<1> HIDE DEF m, p, q
<1>5. CASE Rejoin(p, q)
  <2>1. p \in seats /\ online' = online \cup {p}
        /\ UNCHANGED <<seats, linked, fired>> /\ MarkReconnected(p, q)
    BY <1>5 DEF Rejoin
  <2>2. /\ InboxTyped(inbox') /\ turn' = turn
        /\ left' \in 0..TurnDuration
        /\ {shown', cushioned', armed', flip', steady'} \subseteq BOOLEAN
        /\ armed' => turn # NoOne
    BY <1>2, <2>1, MarkReconnectedTyped
  <2> QED
    BY <2>1, <2>2 DEF TypeOK, InboxTyped
<1>6. CASE JoinOrRefuse(p, q)
  BY <1>2, <1>3, <1>6 DEF JoinOrRefuse, TypeOK, clock, InboxTyped
<1>7. CASE MarkDisconnected(p, q)
  BY <1>2, <1>7 DEF MarkDisconnected, TypeOK, InboxTyped
<1>8. CASE Ignore(q)
  BY <1>2, <1>8 DEF Ignore, TypeOK, clock, InboxTyped
<1>9. ASSUME NEW next \in seats \cup {NoOne}, SetCurrentTurn(next, online, q),
             UNCHANGED <<seats, linked, online>>
      PROVE  TypeOK'
  <2>1. online \subseteq User /\ online' \subseteq seats' /\ seats' = seats
    BY <1>9 DEF TypeOK
  <2> QED
    BY <1>2, <1>9, <2>1, SetCurrentTurnTyped
<1>10. CASE StartGame(p, q)
  BY <1>9, <1>10 DEF StartGame
<1>11. CASE Move(p, q)
  BY <1>9, <1>11, SuccessorsSeated DEF Move
<1>12. CASE LeaveRoom(p, q)
  BY <1>2, <1>3, <1>12, LeaveRoomTyped
<1>13. CASE TurnTimerExpired(m, q)
  BY <1>9, <1>13, SuccessorsSeated DEF TurnTimerExpired
<1> QED
  BY <1>4, <1>5, <1>6, <1>7, <1>8, <1>10, <1>11, <1>12, <1>13

LEMMA ClockInit == Init => TypeOK
<1>1. <<>> \in Seq(Message) /\ Len(<<>>) = 0
  OBVIOUS
<1>2. 0 \in 0..TurnDuration /\ 0 <= InboxSize
  BY ClockAssumption
<1> QED
  BY <1>1, <1>2 DEF Init, TypeOK

LEMMA SendTyped ==
  ASSUME TypeOK, NEW m \in Message, Send(m)
  PROVE  /\ InboxTyped(inbox')
         /\ Follows(inbox, inbox', m) /\ inbox'[Len(inbox) + 1] = m
         /\ Len(inbox') = Len(inbox) + 1
<1>1. InboxTyped(inbox) /\ Len(inbox) < InboxSize /\ inbox' = Append(inbox, m)
  BY DEF TypeOK, InboxTyped, Send, HasSpace
<1> QED
  BY <1>1, AppendFollows DEF Follows

LEMMA ClockStep == TypeOK /\ [Next]_vars => TypeOK'
<1> SUFFICES ASSUME TypeOK, [Next]_vars PROVE TypeOK'
  OBVIOUS
<1>1. ASSUME NEW p \in User, Connect(p) PROVE TypeOK'
  <2>1. InboxTyped(inbox')
    BY <1>1, MessagesTyped, SendTyped DEF Connect
  <2> QED
    BY <1>1, <2>1 DEF Connect, TypeOK, clock, InboxTyped
<1>2. ASSUME NEW p \in User, Hangup(p) PROVE TypeOK'
  <2>1. InboxTyped(inbox')
    BY <1>2, MessagesTyped, SendTyped DEF Hangup, TypeOK, InboxTyped
  <2> QED
    BY <1>2, <2>1 DEF Hangup, TypeOK, clock, InboxTyped
<1>3. ASSUME NEW p \in User, NEW kind \in {"act", "leave"}, Ask(p, kind)
      PROVE  TypeOK'
  <2>1. From(kind, p) \in Message
    BY MessagesTyped
  <2>2. InboxTyped(inbox')
    BY <1>3, <2>1, SendTyped DEF Ask
  <2> QED
    BY <1>3, <2>2 DEF Ask, TypeOK, clock, InboxTyped
<1>4. CASE Tick
  BY <1>4, ClockAssumption DEF Tick, TypeOK
<1>5. CASE TimerFires
  <2>1. turn \in User
    BY <1>5 DEF TimerFires, TypeOK
  <2>2. Expired(turn) \in Message /\ Expired(turn).kind = "expired"
    BY <2>1, MessagesTyped
  <2> QED
    BY <1>5, <2>2 DEF TimerFires, TypeOK
<1>6. CASE Deliver
  <2>1. PICK e \in fired : Send(e) /\ fired' = fired \ {e}
                           /\ UNCHANGED <<seats, linked, online, clock>>
    BY <1>6 DEF Deliver
  <2>2. InboxTyped(inbox')
    BY <2>1, SendTyped DEF TypeOK
  <2> QED
    BY <2>1, <2>2 DEF TypeOK, clock, InboxTyped
<1>7. CASE HandleMessage
  BY <1>7, HandleMessageTyped
<1>8. CASE Restart
  <2>1. InboxTyped(inbox')
    <3>1. turn # NoOne => Expired(turn) \in Message
      BY MessagesTyped DEF TypeOK
    <3> QED
      BY <1>8, <3>1, ClockAssumption DEF Restart, InboxTyped
  <2> QED
    BY <1>8, <2>1 DEF Restart, TypeOK, InboxTyped
<1>9. CASE UNCHANGED vars
  BY <1>9 DEF vars, clock, TypeOK
<1> QED
  BY <1>1, <1>2, <1>3, <1>4, <1>5, <1>6, <1>7, <1>8, <1>9 DEF Next

\* Type correctness: whatever sessions, timers and restarts do in whatever
\* order, only seated users are online or on turn, a timer runs only in a turn,
\* and the inbox keeps to its capacity.
THEOREM ClockTypes == Spec => []TypeOK
BY ClockInit, ClockStep, PTL DEF Spec

----------------------------------------------------------------------------
(* A countdown that is shown is real. *)

\* The expiries on their way are still on their way.
KeepsExpiries ==
  /\ turn' = turn
  /\ \A e \in fired :
       \/ e \in fired'
       \/ \E i \in 1..Len(inbox') : inbox'[i] = e
  /\ \A i \in 1..Len(inbox) :
       inbox[i].kind = "expired" /\ IsCurrent(inbox[i]) =>
         \E j \in 1..Len(inbox') : inbox'[j] = inbox[i]

LEMMA ExpiriesKept ==
  ASSUME TypeOK, TypeOK', KeepsExpiries, armed => HasClock', HasClock
  PROVE  HasClock'
<1>1. DOMAIN inbox = 1..Len(inbox) /\ DOMAIN inbox' = 1..Len(inbox')
  BY DEF TypeOK
<1>2. ASSUME NEW e \in fired, IsCurrent(e)
      PROVE  HasClock'
  <2>1. e.kind = "expired" /\ e.fresh /\ turn' = e.player
    BY <1>2 DEF TypeOK, KeepsExpiries, IsCurrent
  <2> QED
    BY <1>1, <2>1 DEF KeepsExpiries, HasClock, IsCurrent
<1>3. ASSUME NEW i \in 1..Len(inbox), inbox[i].kind = "expired",
             IsCurrent(inbox[i])
      PROVE  HasClock'
  <2>1. PICK j \in 1..Len(inbox') : inbox'[j] = inbox[i]
    BY <1>3 DEF KeepsExpiries
  <2>2. inbox'[j].kind = "expired" /\ inbox'[j].fresh
        /\ turn' = inbox'[j].player
    BY <1>3, <2>1 DEF KeepsExpiries, IsCurrent
  <2> QED
    BY <1>1, <2>2 DEF HasClock, IsCurrent
<1> QED
  BY <1>1, <1>2, <1>3 DEF HasClock

LEMMA SendKeepsExpiries ==
  ASSUME TypeOK, NEW m \in Message, Send(m) \/ inbox' = inbox,
         UNCHANGED <<clock, fired>>
  PROVE  KeepsExpiries
<1>1. Len(inbox) \in Nat
  BY DEF TypeOK
<1>2. CASE Send(m)
  <2>1. Follows(inbox, inbox', m)
    BY <1>2, SendTyped
  <2> QED
    BY <1>1, <2>1 DEF KeepsExpiries, Follows, InboxTyped, clock
<1>3. CASE inbox' = inbox
  BY <1>3 DEF KeepsExpiries, clock
<1> QED
  BY <1>2, <1>3

\* A message that is not a current expiry is taken, and others may follow.
LEMMA TakingKeepsExpiries ==
  ASSUME TypeOK, inbox # <<>>,
         ~(Head(inbox).kind = "expired" /\ IsCurrent(Head(inbox))),
         NEW m, Follows(Tail(inbox), inbox', m), turn' = turn, fired' = fired
  PROVE  KeepsExpiries
<1>1. InboxTyped(inbox) /\ Len(inbox) \in Nat
  BY DEF TypeOK, InboxTyped
<1>2. /\ Len(Tail(inbox)) = Len(inbox) - 1 /\ Head(inbox) = inbox[1]
      /\ \A i \in 1..Len(Tail(inbox)) : Tail(inbox)[i] = inbox[i + 1]
  BY <1>1, TailTyped
<1>3. ASSUME NEW i \in 1..Len(inbox), inbox[i].kind = "expired",
             IsCurrent(inbox[i])
      PROVE  \E j \in 1..Len(inbox') : inbox'[j] = inbox[i]
  <2>1. i # 1
    BY <1>2, <1>3
  <2> DEFINE j == i - 1
  <2>2. j \in 1..Len(Tail(inbox)) /\ j + 1 = i
    BY <1>1, <1>2, <2>1
  <2> HIDE DEF j
  <2>3. Tail(inbox)[j] = inbox[i]
    BY <1>2, <2>2
  <2>4. inbox'[j] = inbox[i] /\ Len(Tail(inbox)) <= Len(inbox')
    BY <2>2, <2>3 DEF Follows
  <2>5. Len(inbox') \in Nat
    BY DEF Follows, InboxTyped
  <2>6. j \in 1..Len(inbox')
    BY <1>1, <1>2, <2>2, <2>4, <2>5
  <2> QED
    BY <2>4, <2>6
<1> QED
  BY <1>3 DEF KeepsExpiries

LEMMA ExpiryInInbox ==
  ASSUME TypeOK', turn' \in User,
         \E i \in 1..Len(inbox') : inbox'[i] = Expired(turn')
  PROVE  HasClock'
<1>1. DOMAIN inbox' = 1..Len(inbox')
  BY DEF TypeOK
<1> QED
  BY <1>1, MessagesTyped DEF HasClock, IsCurrent

\* A turn that begins with a countdown begins with a running timer.
LEMMA TurnBeginsReal ==
  ASSUME NEW p, NEW connected, NEW q, SetCurrentTurn(p, connected, q)
  PROVE  ShownCountdownIsReal'
BY DEF SetCurrentTurn, ShownCountdownIsReal, HasClock

LEMMA RealKept ==
  ASSUME TypeOK, TypeOK', ShownCountdownIsReal, KeepsExpiries,
         shown' = shown, armed => HasClock'
  PROVE  ShownCountdownIsReal'
BY ExpiriesKept DEF ShownCountdownIsReal, KeepsExpiries

LEMMA HandleMessageReal ==
  ASSUME TypeOK, TypeOK', ShownCountdownIsReal, HandleMessage
  PROVE  ShownCountdownIsReal'
<1> DEFINE m == Head(inbox)
           p == m.player
           q == Tail(inbox)
<1>1. InboxTyped(inbox) /\ inbox # <<>>
  BY DEF TypeOK, InboxTyped, HandleMessage
<1>2. m \in Message /\ InboxTyped(q) /\ Len(q) < InboxSize
  BY <1>1, TailTyped
<1>3. \/ /\ ~(m.kind = "expired" /\ IsCurrent(m))
         /\ \/ Rejoin(p, q) \/ JoinOrRefuse(p, q) \/ MarkDisconnected(p, q)
            \/ Ignore(q) \/ LeaveRoom(p, q)
      \/ StartGame(p, q) \/ Move(p, q) \/ TurnTimerExpired(m, q)
  BY DEF HandleMessage
<1>4. ASSUME ~(m.kind = "expired" /\ IsCurrent(m)),
             NEW n, Follows(q, inbox', n), turn' = turn, fired' = fired,
             shown' = shown, armed' = armed
      PROVE  ShownCountdownIsReal'
  <2>1. KeepsExpiries
    BY <1>1, <1>4, TakingKeepsExpiries
  <2> QED
    BY <1>4, <2>1, RealKept DEF HasClock
<1>5. Follows(q, q, m)
  BY <1>2, SameFollows
<1> HIDE DEF m, p, q
<1>6. ASSUME Rejoin(p, q), ~(m.kind = "expired" /\ IsCurrent(m))
      PROVE  ShownCountdownIsReal'
  <2>1. MarkReconnected(p, q) /\ fired' = fired /\ online \subseteq User
    BY <1>6 DEF Rejoin, TypeOK
  <2>2. CASE turn = p /\ CushionDue
    <3>1. armed'
      BY <2>1, <2>2 DEF MarkReconnected
    <3> QED
      BY <3>1 DEF ShownCountdownIsReal, HasClock
  <2>3. CASE ~(turn = p /\ CushionDue)
    <3>1. UNCHANGED clock
      BY <2>1, <2>3 DEF MarkReconnected
    <3>2. CASE turn \notin online \cup {p, NoOne}
      <4>1. Expired(turn) \in Message
        BY <3>2, MessagesTyped DEF TypeOK
      <4>2. Follows(q, inbox', Expired(turn))
        BY <1>2, <2>1, <2>3, <3>2, <4>1, PostsFollow DEF MarkReconnected
      <4> QED
        BY <1>4, <1>6, <2>1, <3>1, <4>2 DEF clock
    <3>3. CASE turn \in online \cup {p, NoOne}
      <4>1. inbox' = q
        BY <2>1, <2>3, <3>3 DEF MarkReconnected
      <4> QED
        BY <1>4, <1>5, <1>6, <2>1, <3>1, <4>1 DEF clock
    <3> QED
      BY <3>2, <3>3
  <2> QED
    BY <2>2, <2>3
<1>7. ASSUME ~(m.kind = "expired" /\ IsCurrent(m)), inbox' = q,
             turn' = turn, fired' = fired, shown' = shown, armed' = armed
      PROVE  ShownCountdownIsReal'
  BY <1>4, <1>5, <1>7
<1>8. ASSUME ~(m.kind = "expired" /\ IsCurrent(m)),
             JoinOrRefuse(p, q) \/ MarkDisconnected(p, q) \/ Ignore(q)
      PROVE  ShownCountdownIsReal'
  BY <1>7, <1>8 DEF JoinOrRefuse, MarkDisconnected, Ignore, clock
<1>9. ASSUME ~(m.kind = "expired" /\ IsCurrent(m)), LeaveRoom(p, q)
      PROVE  ShownCountdownIsReal'
  BY <1>7, <1>9, TurnBeginsReal DEF LeaveRoom, clock
<1>10. CASE StartGame(p, q)
  BY <1>10, TurnBeginsReal DEF StartGame
<1>11. CASE Move(p, q)
  BY <1>11, TurnBeginsReal DEF Move
<1>12. CASE TurnTimerExpired(m, q)
  BY <1>12, TurnBeginsReal DEF TurnTimerExpired
<1> QED
  BY <1>3, <1>6, <1>8, <1>9, <1>10, <1>11, <1>12

LEMMA StepReal ==
  TypeOK /\ TypeOK' /\ ShownCountdownIsReal /\ [Next]_vars
    => ShownCountdownIsReal'
<1> SUFFICES ASSUME TypeOK, TypeOK', ShownCountdownIsReal, [Next]_vars
             PROVE  ShownCountdownIsReal'
  OBVIOUS
<1>1. ASSUME NEW m \in Message, Send(m) \/ inbox' = inbox,
             UNCHANGED <<clock, fired>>
      PROVE  ShownCountdownIsReal'
  BY <1>1, SendKeepsExpiries, RealKept DEF clock, HasClock
<1>2. ASSUME NEW p \in User,
             \/ Connect(p) \/ Hangup(p)
             \/ \E kind \in {"act", "leave"} : Ask(p, kind)
      PROVE  ShownCountdownIsReal'
  <2>1. \A kind \in {"join", "gone", "act", "leave"} :
          From(kind, p) \in Message
    BY MessagesTyped
  <2> QED
    BY <1>1, <1>2, <2>1 DEF Connect, Hangup, Ask
<1>3. CASE Tick
  <2>1. KeepsExpiries
    BY <1>3 DEF Tick, KeepsExpiries
  <2> QED
    BY <1>3, <2>1, RealKept DEF Tick, HasClock
<1>4. CASE TimerFires
  <2>1. turn \in User /\ turn' = turn /\ Expired(turn) \in fired'
    BY <1>4 DEF TimerFires, TypeOK
  <2>2. IsCurrent(Expired(turn))'
    BY <2>1, MessagesTyped DEF IsCurrent, Expired
  <2> QED
    BY <2>1, <2>2 DEF ShownCountdownIsReal, HasClock, IsCurrent
<1>5. CASE Deliver
  <2>1. PICK e \in fired : Send(e) /\ fired' = fired \ {e}
                           /\ UNCHANGED <<seats, linked, online, clock>>
    BY <1>5 DEF Deliver
  <2>2. e \in Message /\ Len(inbox) \in Nat
    BY DEF TypeOK
  <2>3. /\ Follows(inbox, inbox', e) /\ inbox'[Len(inbox) + 1] = e
        /\ Len(inbox') = Len(inbox) + 1
    BY <2>1, <2>2, SendTyped
  <2>4. Len(inbox) + 1 \in 1..Len(inbox')
    BY <2>2, <2>3
  <2>5. \E i \in 1..Len(inbox') : inbox'[i] = e
    BY <2>3, <2>4
  <2>6. \A i \in 1..Len(inbox) : i \in 1..Len(inbox') /\ inbox'[i] = inbox[i]
    BY <2>2, <2>3 DEF Follows
  <2>7. turn' = turn /\ shown' = shown /\ armed' = armed
    BY <2>1 DEF clock
  <2>8. KeepsExpiries
    BY <2>1, <2>5, <2>6, <2>7 DEF KeepsExpiries
  <2> QED
    BY <2>7, <2>8, RealKept DEF HasClock
<1>6. CASE HandleMessage
  BY <1>6, HandleMessageReal
<1>7. CASE Restart
  <2>1. CASE turn # NoOne /\ left = 0
    <3>1. turn' = turn /\ turn \in User /\ inbox' = <<Expired(turn)>>
      BY <1>7, <2>1 DEF Restart, TypeOK
    <3>2. 1 \in 1..Len(inbox') /\ inbox'[1] = Expired(turn')
      BY <3>1
    <3> QED
      BY <3>1, <3>2, ExpiryInInbox DEF ShownCountdownIsReal
  <2>2. CASE turn # NoOne /\ left # 0
    <3>1. left > 0
      BY <2>2, ClockAssumption DEF TypeOK
    <3>2. armed' = (turn # NoOne /\ left > 0)
      BY <1>7 DEF Restart
    <3>3. armed'
      BY <2>2, <3>1, <3>2
    <3> QED
      BY <3>3 DEF ShownCountdownIsReal, HasClock
  <2>3. CASE turn = NoOne
    BY <1>7, <2>3 DEF Restart, ShownCountdownIsReal
  <2> QED
    BY <2>1, <2>2, <2>3
<1>8. CASE UNCHANGED vars
  <2>1. KeepsExpiries
    BY <1>8 DEF vars, clock, KeepsExpiries
  <2> QED
    BY <1>8, <2>1, RealKept DEF vars, clock, HasClock
<1> QED
  BY <1>2, <1>3, <1>4, <1>5, <1>6, <1>7, <1>8 DEF Next

\* A countdown that clients are shown is real: through disconnects, cushions,
\* leaves, full inboxes and restarts there is a running timer behind it or an
\* expiry on its way.  The invariant is inductive together with the types.
THEOREM CountdownIsReal == Spec => []ShownCountdownIsReal
<1>1. Init => ShownCountdownIsReal
  BY DEF Init, ShownCountdownIsReal
<1> QED
  BY <1>1, ClockTypes, StepReal, PTL DEF Spec

----------------------------------------------------------------------------
(* Nobody who is present is skipped before the time is up. *)

\* The player on turn who was never away is online, and an expiry for them
\* exists only once the time is up, unless a cushion was granted.
Unhurried ==
  steady =>
    /\ turn \in online
    /\ ~cushioned =>
         /\ \A e \in fired : e.fresh => left = 0
         /\ \A i \in 1..Len(inbox) : inbox[i].fresh => left = 0

LEMMA TurnBeginsUnhurried ==
  ASSUME TypeOK,
         NEW p, NEW connected, connected \subseteq User,
         p \in User \cup {NoOne}, p \in connected => p \in online',
         NEW q, InboxTyped(q), Len(q) < InboxSize,
         SetCurrentTurn(p, connected, q)
  PROVE  Unhurried'
<1>1. online \subseteq User
  BY DEF TypeOK
<1>2. p \in connected => \A i \in 1..Len(inbox') : ~inbox'[i].fresh
  BY <1>1, TurnBegins
<1>3. \A e \in fired' : ~e.fresh
  BY OutdatedFired DEF TypeOK, SetCurrentTurn
<1>4. turn' = p /\ steady' = (p \in connected)
  BY DEF SetCurrentTurn
<1> QED
  BY <1>2, <1>3, <1>4 DEF Unhurried

\* Messages come and go, and a fresh expiry is among them only for a player
\* who is away.
LEMMA UnhurriedKept ==
  ASSUME TypeOK, Unhurried, UNCHANGED <<turn, left, cushioned>>,
         steady' => steady /\ turn \in online',
         steady => \A e \in fired' : e.fresh => e \in fired \/ left = 0,
         steady => \A i \in 1..Len(inbox') :
                     \/ \E j \in 1..Len(inbox) : inbox'[i] = inbox[j]
                     \/ inbox'[i] \in fired
                     \/ ~inbox'[i].fresh
  PROVE  Unhurried'
BY DEF Unhurried

LEMMA SendUnhurried ==
  ASSUME TypeOK, Unhurried, NEW m \in Message, ~m.fresh \/ m \in fired,
         Send(m) \/ inbox' = inbox,
         fired' \subseteq fired, UNCHANGED <<online, clock>>
  PROVE  Unhurried'
<1>1. Len(inbox) \in Nat
  BY DEF TypeOK
<1>2. ASSUME NEW i \in 1..Len(inbox')
      PROVE  \/ \E j \in 1..Len(inbox) : inbox'[i] = inbox[j]
             \/ inbox'[i] \in fired
             \/ ~inbox'[i].fresh
  <2>1. CASE inbox' = inbox
    BY <2>1
  <2>2. CASE Send(m)
    <3>1. Follows(inbox, inbox', m)
      BY <2>2, SendTyped
    <3>2. CASE i <= Len(inbox)
      BY <1>1, <3>1, <3>2 DEF Follows
    <3>3. CASE ~(i <= Len(inbox))
      BY <1>2, <3>1, <3>3 DEF Follows
    <3> QED
      BY <3>2, <3>3
  <2> QED
    BY <2>1, <2>2
<1>3. UNCHANGED <<turn, left, cushioned, steady>>
  BY DEF clock
<1>4. steady => turn \in online'
  BY DEF Unhurried
<1> QED
  BY <1>2, <1>3, <1>4, UnhurriedKept

LEMMA HandleMessageUnhurried ==
  ASSUME TypeOK, Unhurried, HandleMessage
  PROVE  Unhurried'
<1> DEFINE m == Head(inbox)
           p == m.player
           q == Tail(inbox)
<1>1. InboxTyped(inbox) /\ inbox # <<>> /\ Len(inbox) \in Nat
  BY DEF TypeOK, InboxTyped, HandleMessage
<1>2. /\ m \in Message /\ InboxTyped(q) /\ Len(q) < InboxSize
      /\ Len(q) = Len(inbox) - 1
      /\ \A i \in 1..Len(q) : q[i] = inbox[i + 1]
  BY <1>1, TailTyped
<1>3. p \in User
  BY <1>2 DEF Message
<1>4. \/ Rejoin(p, q) \/ JoinOrRefuse(p, q) \/ MarkDisconnected(p, q)
      \/ Ignore(q) \/ StartGame(p, q) \/ Move(p, q) \/ LeaveRoom(p, q)
      \/ TurnTimerExpired(m, q)
  BY DEF HandleMessage
<1> HIDE DEF m, p, q
<1>5. \A i \in 1..Len(q) : i + 1 \in 1..Len(inbox) /\ q[i] = inbox[i + 1]
  BY <1>1, <1>2
<1>6. ASSUME inbox' = q, fired' = fired, UNCHANGED <<turn, left, cushioned>>,
             steady' => steady /\ turn \in online'
      PROVE  Unhurried'
  <2>1. \A i \in 1..Len(inbox') :
          \E j \in 1..Len(inbox) : inbox'[i] = inbox[j]
    BY <1>5, <1>6
  <2> QED
    BY <1>6, <2>1, UnhurriedKept
<1>7. steady => turn \in online /\ turn # NoOne
  BY ClockAssumption DEF Unhurried, TypeOK
<1>8. CASE Rejoin(p, q)
  <2>1. /\ MarkReconnected(p, q) /\ fired' = fired
        /\ online' = online \cup {p}
    BY <1>8 DEF Rejoin
  <2>2. CASE turn = p /\ CushionDue
    <3>1. cushioned' /\ turn' = turn /\ steady' = steady
      BY <2>1, <2>2 DEF MarkReconnected
    <3> QED
      BY <1>7, <2>1, <3>1 DEF Unhurried
  <2>3. CASE ~(turn = p /\ CushionDue)
    <3>1. UNCHANGED clock
      BY <2>1, <2>3 DEF MarkReconnected
    <3>2. CASE steady
      <4>1. inbox' = q
        BY <1>7, <2>1, <2>3, <3>2 DEF MarkReconnected
      <4> QED
        BY <1>6, <1>7, <2>1, <3>1, <4>1 DEF clock
    <3>3. CASE ~steady
      BY <3>1, <3>3 DEF clock, Unhurried
    <3> QED
      BY <3>2, <3>3
  <2> QED
    BY <2>2, <2>3
<1>9. CASE JoinOrRefuse(p, q)
  <2>1. online \subseteq online' /\ inbox' = q /\ UNCHANGED <<clock, fired>>
    BY <1>9 DEF JoinOrRefuse
  <2> QED
    BY <1>6, <1>7, <2>1 DEF clock
<1>10. CASE MarkDisconnected(p, q)
  <2>1. /\ online' = online \ {p} /\ inbox' = q /\ fired' = fired
        /\ steady' = (steady /\ p # turn)
        /\ UNCHANGED <<turn, left, cushioned>>
    BY <1>10 DEF MarkDisconnected
  <2> QED
    BY <1>6, <1>7, <2>1
<1>11. CASE Ignore(q)
  BY <1>6, <1>7, <1>11 DEF Ignore, clock
<1>12. ASSUME NEW next \in seats \cup {NoOne}, SetCurrentTurn(next, online, q),
              UNCHANGED <<seats, linked, online>>
       PROVE  Unhurried'
  <2>1. online \subseteq User /\ next \in User \cup {NoOne}
    BY DEF TypeOK
  <2> QED
    BY <1>2, <1>12, <2>1, TurnBeginsUnhurried
<1>13. CASE StartGame(p, q)
  BY <1>12, <1>13 DEF StartGame
<1>14. CASE Move(p, q)
  BY <1>12, <1>14, SuccessorsSeated DEF Move
<1>15. CASE LeaveRoom(p, q)
  <2>1. online' = online \ {p} /\ online \subseteq User /\ seats \subseteq User
    BY <1>15 DEF LeaveRoom, Depart, TypeOK
  <2>2. ASSUME NEW next \in Successors(seats \ {p}),
               NEW connected \in {online, online \ {p}},
               SetCurrentTurn(next, connected, q)
        PROVE  Unhurried'
    <3>1. next \in (seats \ {p}) \cup {NoOne}
      BY SuccessorsSeated
    <3>2. next \in User \cup {NoOne} /\ next # p
      BY <1>3, <2>1, <3>1, ClockAssumption
    <3>3. connected \subseteq User /\ (next \in connected => next \in online')
      BY <2>1, <2>2, <3>2
    <3> QED
      BY <1>2, <2>2, <3>2, <3>3, TurnBeginsUnhurried
  <2>3. ASSUME turn # p, inbox' = q, UNCHANGED <<clock, fired>>
        PROVE  Unhurried'
    BY <1>6, <1>7, <2>1, <2>3 DEF clock
  <2> QED
    BY <1>15, <2>2, <2>3 DEF LeaveRoom
<1>16. CASE TurnTimerExpired(m, q)
  BY <1>12, <1>16, SuccessorsSeated DEF TurnTimerExpired
<1> QED
  BY <1>4, <1>8, <1>9, <1>10, <1>11, <1>13, <1>14, <1>15, <1>16

LEMMA StepUnhurried == TypeOK /\ Unhurried /\ [Next]_vars => Unhurried'
<1> SUFFICES ASSUME TypeOK, Unhurried, [Next]_vars PROVE Unhurried'
  OBVIOUS
<1>1. ASSUME NEW p \in User,
             \/ Connect(p) \/ Hangup(p)
             \/ \E kind \in {"act", "leave"} : Ask(p, kind)
      PROVE  Unhurried'
  <2>1. \A kind \in {"join", "gone", "act", "leave"} :
          From(kind, p) \in Message /\ ~From(kind, p).fresh
    BY MessagesTyped
  <2> QED
    BY <1>1, <2>1, SendUnhurried DEF Connect, Hangup, Ask
<1>2. CASE Tick
  <2>1. left # 0 /\ UNCHANGED <<turn, online, cushioned, steady, fired, inbox>>
    BY <1>2, ClockAssumption DEF Tick, TypeOK
  <2> QED
    BY <2>1 DEF Unhurried
<1>3. CASE TimerFires
  BY <1>3 DEF TimerFires, Unhurried
<1>4. CASE Deliver
  <2>1. PICK e \in fired : Send(e) /\ fired' = fired \ {e}
                           /\ UNCHANGED <<seats, linked, online, clock>>
    BY <1>4 DEF Deliver
  <2> QED
    BY <2>1, SendUnhurried DEF TypeOK
<1>5. CASE HandleMessage
  BY <1>5, HandleMessageUnhurried
<1>6. CASE Restart
  BY <1>6 DEF Restart, Unhurried
<1>7. CASE UNCHANGED vars
  BY <1>7 DEF vars, clock, Unhurried
<1> QED
  BY <1>1, <1>2, <1>3, <1>4, <1>5, <1>6, <1>7 DEF Next

\* Only the handler of messages begins a turn.
LEMMA TurnsBegin ==
  ASSUME TypeOK, [Next]_vars, flip' # flip
  PROVE  HandleMessage
BY DEF Next, vars, clock, Connect, Hangup, Ask, Tick, TimerFires, Deliver,
       Restart

LEMMA ExpiriesAreDue ==
  ASSUME TypeOK, Unhurried, [Next]_vars, steady, ~cushioned, flip' # flip,
         inbox # <<>>, Head(inbox).kind = "expired"
  PROVE  left = 0
<1> DEFINE m == Head(inbox)
<1>1. TurnTimerExpired(m, Tail(inbox)) \/ Ignore(Tail(inbox))
  BY TurnsBegin DEF HandleMessage
<1>2. m.fresh
  BY <1>1 DEF Ignore, clock, TurnTimerExpired, IsCurrent
<1>3. m = inbox[1] /\ 1 \in 1..Len(inbox)
  <2>1. inbox \in Seq(Message)
    BY DEF TypeOK
  <2> QED
    BY <2>1
<1> QED
  BY <1>2, <1>3 DEF Unhurried

\* A player who was connected for the whole turn, and was given no cushion in
\* it, is skipped by the clock only when the time is up, whatever expiries of
\* earlier turns, disconnects and restarts came before.
THEOREM TimeIsKept == Spec => PresentPlayersKeepTheirTime
<1>1. Init => Unhurried
  BY DEF Init, Unhurried
<1>2. TypeOK /\ Unhurried /\ [Next]_vars
        => [(/\ steady /\ ~cushioned /\ flip' # flip
             /\ inbox # <<>> /\ Head(inbox).kind = "expired")
            => left = 0]_vars
  BY ExpiriesAreDue
<1> QED
  BY <1>1, <1>2, ClockTypes, StepUnhurried, PTL
     DEF Spec, PresentPlayersKeepTheirTime
=============================================================================
