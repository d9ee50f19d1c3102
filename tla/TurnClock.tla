----------------------------- MODULE TurnClock -----------------------------
(***************************************************************************)
(* The turn clock of a room actor (internal/room/room.go): the timer       *)
(* armed for every turn, the expiry messages it leaves in the inbox, and   *)
(* what disconnects, reconnects, leaves and restarts do to both.           *)
(*                                                                         *)
(* Sessions and timers put messages into the bounded inbox; the actor      *)
(* handles its head.  Which seat is next on turn is left open here (Match  *)
(* says which): a move, a skip or an expiry passes the turn to any seat or *)
(* ends the match, and no turn means lobby or results.  A user has one     *)
(* device.  A turn begins when setCurrentTurn raises the turn generation;  *)
(* an expiry is fresh while no turn began since it was made, which is when *)
(* its generation is the current one.                                      *)
(***************************************************************************)
EXTENDS Integers, Sequences, FiniteSets

CONSTANTS
  User,
  NoOne,              \* nobody's turn
  TurnDuration,       \* a turn, in ticks; 45 seconds in the code
  ReconnectCushion,   \* the least time a reconnecting player gets; 10 seconds
  InboxSize           \* capacity of the inbox; 128 in the code

ASSUME ClockAssumption ==
  /\ NoOne \notin User
  /\ ReconnectCushion \in Nat \ {0} /\ TurnDuration \in Nat
  /\ ReconnectCushion < TurnDuration
  /\ InboxSize \in Nat \ {0}

VARIABLES
  seats,       \* users with a seat
  linked,      \* users with a live session
  online,      \* seated users the actor believes connected
  turn,        \* the player on turn
  left,        \* ticks until turnDeadline, which outlives its turn
  shown,       \* clients are shown a deadline
  cushioned,   \* cushionApplied
  armed,       \* turnTimer is running; it ends together with left
  fired,       \* expiries whose timer fired and whose send waits for space
  inbox,
  flip,        \* history: the turn generation, modulo 2
  steady       \* history: the player on turn was never away in this turn

clock == <<turn, left, shown, cushioned, armed, flip, steady>>
vars == <<seats, linked, online, clock, fired, inbox>>

Message == [kind : {"join", "gone", "act", "leave", "expired"},
            player : User, fresh : BOOLEAN]

From(kind, p) == [kind |-> kind, player |-> p, fresh |-> FALSE]
Expired(p) == [kind |-> "expired", player |-> p, fresh |-> TRUE]

Init ==
  /\ seats = User /\ linked = {} /\ online = {}
  /\ turn = NoOne /\ left = 0
  /\ shown = FALSE /\ cushioned = FALSE /\ armed = FALSE
  /\ fired = {} /\ inbox = <<>>
  /\ flip = FALSE /\ steady = FALSE

----------------------------------------------------------------------------
(* Sessions, time and timers. *)

HasSpace == Len(inbox) < InboxSize
Send(m) == HasSpace /\ inbox' = Append(inbox, m)

Connect(p) ==
  /\ p \notin linked
  /\ linked' = linked \cup {p}
  /\ Send(From("join", p))
  /\ UNCHANGED <<seats, online, clock, fired>>

\* The last message of a session is given up when the inbox stays full.
Hangup(p) ==
  /\ p \in linked
  /\ linked' = linked \ {p}
  /\ Send(From("gone", p)) \/ (~HasSpace /\ inbox' = inbox)
  /\ UNCHANGED <<seats, online, clock, fired>>

\* Sessions that sit in the room: one that joins waits for the answer.
Joined == {p \in linked \cap online :
             \A i \in DOMAIN inbox : inbox[i] # From("join", p)}

\* A player asks to start a match or to move, or leaves the room.
Ask(p, kind) ==
  /\ p \in Joined
  /\ Send(From(kind, p))
  /\ UNCHANGED <<seats, linked, online, clock, fired>>

Tick ==
  /\ left > 0
  /\ left' = left - 1
  /\ UNCHANGED <<seats, linked, online, turn, shown, cushioned, armed, flip,
                 steady, fired, inbox>>

TimerFires ==
  /\ armed /\ left = 0
  /\ armed' = FALSE
  /\ fired' = fired \cup {Expired(turn)}
  /\ UNCHANGED <<seats, linked, online, turn, left, shown, cushioned, flip,
                 steady, inbox>>

\* Faulty variant: a fired timer gives up when the inbox is full.
DeliverOrDrop ==
  \E e \in fired :
    /\ inbox' = IF HasSpace THEN Append(inbox, e) ELSE inbox
    /\ fired' = fired \ {e}
    /\ UNCHANGED <<seats, linked, online, clock>>

\* A fired timer waits for space in the inbox.
Deliver ==
  \E e \in fired :
    /\ Send(e)
    /\ fired' = fired \ {e}
    /\ UNCHANGED <<seats, linked, online, clock>>

----------------------------------------------------------------------------
(* The actor. *)

Outdated(q) == [i \in DOMAIN q |-> [q[i] EXCEPT !.fresh = FALSE]]
OutdatedSet(events) == {[e EXCEPT !.fresh = FALSE] : e \in events}

\* The actor's own send never waits.  While it handles a message, the request
\* of a session may take the last free place first; then the send is dropped.
Posts(q, m) ==
  {Append(q, m)} \cup
  {Append(q, From(kind, p)) : kind \in {"act", "leave"},
     p \in IF Len(q) + 1 = InboxSize THEN Joined ELSE {}}

\* Faulty variant: the generation is not raised, so nothing is outdated.
SetTurnSameGeneration(p, connected, q) ==
  /\ turn' = p /\ flip' = ~flip
  /\ shown' = (p \in connected) /\ armed' = (p \in connected)
  /\ steady' = (p \in connected)
  /\ IF p \in connected THEN left' = TurnDuration /\ cushioned' = FALSE
                        ELSE UNCHANGED <<left, cushioned>>
  /\ inbox' \in IF p # NoOne /\ p \notin connected /\ connected # {}
                THEN Posts(q, Expired(p)) ELSE {q}
  /\ fired' = fired

\* A turn begins, or nobody is on turn any more.  connected is who the actor
\* believes connected, q what is left of the inbox.
SetCurrentTurn(p, connected, q) ==
  /\ turn' = p /\ flip' = ~flip
  /\ shown' = (p \in connected) /\ armed' = (p \in connected)
  /\ steady' = (p \in connected)
  /\ IF p \in connected THEN left' = TurnDuration /\ cushioned' = FALSE
                        ELSE UNCHANGED <<left, cushioned>>
  /\ inbox' \in IF p # NoOne /\ p \notin connected /\ connected # {}
                THEN Posts(Outdated(q), Expired(p)) ELSE {Outdated(q)}
  /\ fired' = OutdatedSet(fired)

\* The match goes on with any seat, or ends; one seat alone cannot go on.
Successors(s) == IF Cardinality(s) < 2 THEN {NoOne} ELSE s \cup {NoOne}

\* Faulty variant: every reconnect may be given the cushion.
CushionAlwaysDue == left < ReconnectCushion

\* The cushion is due once per turn, when less than it is left.
CushionDue == left < ReconnectCushion /\ ~cushioned

MarkReconnected(p, q) ==
  \/ /\ turn = p /\ CushionDue
     /\ left' = ReconnectCushion
     /\ cushioned' = TRUE /\ armed' = TRUE /\ shown' = TRUE
     /\ inbox' = q
     /\ UNCHANGED <<turn, flip, steady>>
  \/ /\ ~(turn = p /\ CushionDue)
     /\ inbox' \in IF turn \notin online \cup {p, NoOne}
                   THEN Posts(q, Expired(turn)) ELSE {q}
     /\ UNCHANGED clock

Rejoin(p, q) ==
  /\ p \in seats
  /\ online' = online \cup {p}
  /\ MarkReconnected(p, q)
  /\ UNCHANGED <<seats, linked, fired>>

\* A user without a seat gets one in the lobby and is refused elsewhere.
JoinOrRefuse(p, q) ==
  /\ p \notin seats
  /\ \/ turn = NoOne /\ seats' = seats \cup {p} /\ online' = online \cup {p}
     \/ UNCHANGED <<seats, online>>
  /\ inbox' = q
  /\ UNCHANGED <<linked, clock, fired>>

MarkDisconnected(p, q) ==
  /\ online' = online \ {p}
  /\ steady' = (steady /\ p # turn)
  /\ inbox' = q
  /\ UNCHANGED <<seats, linked, turn, left, shown, cushioned, armed, flip,
                 fired>>

\* A request may be stale or against the rules; then nothing happens.
Ignore(q) == inbox' = q /\ UNCHANGED <<seats, linked, online, clock, fired>>

StartGame(p, q) ==
  /\ p \in online /\ turn = NoOne /\ Cardinality(seats) >= 2
  /\ \E opener \in seats : SetCurrentTurn(opener, online, q)
  /\ UNCHANGED <<seats, linked, online>>

\* The player on turn plays, challenges or skips.
Move(p, q) ==
  /\ p \in online /\ turn = p
  /\ \E next \in Successors(seats) : SetCurrentTurn(next, online, q)
  /\ UNCHANGED <<seats, linked, online>>

\* Faulty variant: a leaver is still counted as connected.
DepartStillOnline(p) == seats' = seats \ {p} /\ online' = online

Depart(p) == seats' = seats \ {p} /\ online' = online \ {p}

\* A leaver on turn passes it on while still counted as connected; their
\* leaving may also complete a burn or end the match, which moves the turn
\* once they are gone.
LeaveRoom(p, q) ==
  /\ p \in online
  /\ Depart(p)
  /\ \/ /\ turn = p
        /\ \E next \in Successors(seats \ {p}) :
             \E connected \in {online, online \ {p}} :
               SetCurrentTurn(next, connected, q)
     \/ /\ turn \notin {p, NoOne}
        /\ \E next \in Successors(seats \ {p}) :
             SetCurrentTurn(next, online \ {p}, q)
     \/ /\ turn # p
        /\ turn = NoOne \/ Cardinality(seats \ {p}) >= 2
        /\ inbox' = q /\ UNCHANGED <<clock, fired>>
  /\ UNCHANGED linked

IsCurrent(e) == e.fresh /\ turn = e.player

\* The player on turn is skipped, so the turn is never theirs again at once
\* (SkipPassesTheTurn of Match).
TurnTimerExpired(e, q) ==
  /\ IsCurrent(e)
  /\ \E next \in Successors(seats) \ {e.player} :
       SetCurrentTurn(next, online, q)
  /\ UNCHANGED <<seats, linked, online>>

HandleMessage ==
  /\ inbox # <<>>
  /\ LET m == Head(inbox)
         p == m.player
         q == Tail(inbox)
     IN  \/ m.kind = "join" /\ (Rejoin(p, q) \/ JoinOrRefuse(p, q))
         \/ m.kind = "gone" /\ p \in online /\ MarkDisconnected(p, q)
         \/ m.kind = "gone" /\ p \notin online /\ Ignore(q)
         \/ m.kind = "act" /\ (StartGame(p, q) \/ Move(p, q))
         \/ m.kind = "act" /\ Ignore(q)
         \/ m.kind = "leave" /\ LeaveRoom(p, q)
         \/ m.kind = "leave" /\ p \notin online /\ Ignore(q)
         \/ m.kind = "expired" /\ TurnTimerExpired(m, q)
         \/ m.kind = "expired" /\ ~IsCurrent(m) /\ Ignore(q)

\* The process stops: sessions, inbox and timers are gone, and the restored
\* room arms the clock for what was left or queues the expiry at once.
Restart ==
  /\ linked' = {} /\ online' = {} /\ fired' = {}
  /\ armed' = (turn # NoOne /\ left > 0)
  /\ inbox' = IF turn # NoOne /\ left = 0 THEN <<Expired(turn)>> ELSE <<>>
  /\ steady' = FALSE
  /\ UNCHANGED <<seats, turn, left, shown, cushioned, flip>>

Next ==
  \/ \E p \in User : \/ Connect(p) \/ Hangup(p)
                     \/ \E kind \in {"act", "leave"} : Ask(p, kind)
  \/ Tick \/ TimerFires \/ Deliver \/ HandleMessage \/ Restart

\* Time passes, a due timer fires, the actor runs, and a blocked send gets
\* its turn among the senders of the inbox.  Users owe nothing.
Fairness ==
  /\ WF_vars(Tick) /\ WF_vars(TimerFires)
  /\ WF_vars(HandleMessage) /\ SF_vars(Deliver)

Spec == Init /\ [][Next]_vars /\ Fairness

----------------------------------------------------------------------------
(* Properties. *)

\* Type invariant: only seated users are online or on turn, a timer runs only
\* in a turn, and every expiry that waits is for a turn that was begun.
TypeOK ==
  /\ seats \subseteq User /\ linked \subseteq User /\ online \subseteq seats
  /\ turn \in seats \cup {NoOne}
  /\ left \in 0..TurnDuration
  /\ {shown, cushioned, armed, flip, steady} \subseteq BOOLEAN
  /\ armed => turn # NoOne
  /\ fired \subseteq Message /\ \A e \in fired : e.kind = "expired"
  /\ inbox \in Seq(Message) /\ Len(inbox) <= InboxSize

\* Something will end the current turn without anybody's help.
HasClock ==
  \/ armed
  \/ \E e \in fired : IsCurrent(e)
  \/ \E i \in DOMAIN inbox : inbox[i].kind = "expired" /\ IsCurrent(inbox[i])

\* A countdown that clients are shown is real: behind it is a running timer or
\* an expiry on its way, through disconnects, cushions, leaves and restarts.
ShownCountdownIsReal == turn # NoOne /\ shown => HasClock

\* A player who was connected for the whole turn, and was given no cushion in
\* it, is skipped by the clock only when the time is up: no expiry of an
\* earlier turn and nobody's reconnect cuts the turn of a present player short.
PresentPlayersKeepTheirTime ==
  [][(/\ steady /\ ~cushioned /\ flip' # flip
      /\ inbox # <<>> /\ Head(inbox).kind = "expired")
     => left = 0]_vars

\* A turn whose clock is running ends, however often its player disconnects
\* and comes back and however often the process restarts.
ClockedTurnsEnd ==
  \A b \in BOOLEAN :
    (turn # NoOne /\ flip = b /\ HasClock) ~> (turn = NoOne \/ flip # b)

----------------------------------------------------------------------------
(* What the README says of the clock and the code does not do. *)

\* README: reconnecting players get a cushion of ten seconds.  While a cushion
\* granted in this turn is left, the clock does not skip its player.
CushionIsHonoured ==
  [][(/\ inbox # <<>> /\ Head(inbox).kind = "expired"
      /\ flip' # flip /\ turn \in online)
     => ~(cushioned /\ shown /\ left > 0)]_vars

\* README: the table clock runs continuously, so that nobody stalls the table.
\* As long as anybody is connected, the current turn has a clock.
TableClockRuns == turn # NoOne /\ online # {} => HasClock
=============================================================================
