------------------------------ MODULE Session ------------------------------
(* One browser tab and the server sessions behind it: how a tab gets into a  *)
(* room, keeps its place over lost connections, and gets a reliable command  *)
(* applied (ws/socket.ts, the session part of state/gameStore.ts, the room   *)
(* entry of GameRoom.tsx and Home.tsx; transport/websocket.go, idempotency   *)
(* and membership of room.go on the other side).                             *)
(*                                                                           *)
(* The tab is one record, c.  Its event handlers are functions on records,   *)
(* since a handler calls others; an action is one turn of the event loop     *)
(* with the React effects that run at its end.  What is shown of the game    *)
(* inside the room is the subject of TableView.                              *)
EXTENDS Naturals, Sequences, FiniteSets, SequencesExt

CONSTANTS
    Rooms, Invited,        \* room codes; those of rooms that exist already
    Sockets,               \* slots for WebSocket objects and their sessions
    Guests, Accounts,      \* guest identities; registered users the visitor may
                           \* be, with NoUser for a visitor who has no account
    NoRoom, NoUser, NoSocket, Home, Idle,
    MaxMoves,              \* times the visitor joins, creates or goes home
    MaxCommands,           \* reliable commands a tab may issue
    MaxFaults,             \* lost connections, failed requests, reloads
    MaxQueue,              \* messages in a pipe or in the queue
    TabHides,              \* the tab may be hidden and shown again
    RequestsFail,          \* ticket requests of somebody known and guest requests may fail
    LateCloses             \* whether the browser reports the close of a socket the
                           \* page closed after the next is made: a set of answers

ASSUME InvitedAreRooms == Invited \subseteq Rooms
ASSUME MaxCommandsIsNat == MaxCommands \in Nat
ASSUME Distinct == /\ NoUser \notin Guests /\ NoRoom \notin Rooms /\ Home \notin Rooms
                   /\ NoSocket \notin Sockets

VARIABLES
    c,        \* the tab: storage, store, page, socket module, its sockets; its
              \* plain is history: see ShownRoomIsJoined
    room,     \* the rooms, as far as membership and commands go
    minted,   \* guests created so far
    moves,    \* visitor's moves so far
    faults,   \* faults so far
    given,    \* history: the room each command was given in, as the store has it
    runs      \* history: how often each room applied each command
vars == <<c, room, minted, moves, faults, given, runs>>

Users    == Guests \cup Accounts \cup {NoUser}
Commands == 1..MaxCommands

NewLink == [browser |-> "none", server |-> FALSE, user |-> NoUser, joined |-> NoRoom,
            up |-> <<>>, down |-> <<>>]

\* The elements of q at the positions in I, in their order.  (SelectSeq takes an
\* operator, and nothing could be proved of it.)
Picked(q, I) ==
    [k \in 1..Cardinality(I) |->
       q[CHOOSE i \in I : Cardinality({j \in I : j < i}) = k - 1]]

-----------------------------------------------------------------------------
(* ws/socket.ts *)

Join(r)     == [type |-> "join", room |-> r]
IsJoin(m)   == m.type = "join"
Reliable(m) == m.type \in {"act", "leave"}

Usable(d, s)  == s # NoSocket /\ d.link[s].browser = "open"
Attached(d)   == d.socket # NoSocket /\ d.link[d.socket].browser \in {"connecting", "open"}
Transmit(d, m) == [d EXCEPT !.link[d.socket].up = Append(@, m)]

SendEvent(d, m) ==
    LET e == IF Reliable(m) THEN [d EXCEPT !.unresolved = Append(@, m)] ELSE d
    IN  IF Usable(e, e.socket) THEN Transmit(e, m) ELSE [e EXCEPT !.queue = Append(@, m)]

\* Takes connectLock and asks for a ticket, with the cookie of this moment.
ConnectSocket(d) ==
    IF Attached(d) \/ d.ticket # Idle THEN d
    ELSE [d EXCEPT !.status = "CONNECTING", !.ticket = d.cookie]

DisconnectSocket(d) ==
    LET e == [d EXCEPT !.timer = NoRoom]
    IN  IF e.socket = NoSocket THEN e
        ELSE [e EXCEPT !.link[e.socket].browser = IF @ = "none" THEN @ ELSE "closing",
                       !.socket = NoSocket]

ResolveReliable(d, id) ==
    [d EXCEPT !.unresolved = RemoveFirstMatch(@, LAMBDA m : m.id = id)]

\* Faulty variant: every unanswered command is forgotten with the connection.
ForgetUnanswered(d) == [d EXCEPT !.unresolved = <<>>]
QueueReliableForRetry(d) ==
    LET missing == {i \in DOMAIN d.unresolved : d.unresolved[i] \notin Range(d.queue)}
    IN  [d EXCEPT !.queue = @ \o Picked(d.unresolved, missing)]

\* The latest join goes first, the others are dropped.
JoinFirst(q) ==
    LET joins == {i \in DOMAIN q : IsJoin(q[i])}
    IN  IF joins = {} THEN q ELSE <<q[Max(joins)]>> \o Picked(q, DOMAIN q \ joins)

\* The queue is emptied into whatever socket the module variable holds.
FlushQueue(d) ==
    LET e == [d EXCEPT !.queue = <<>>]
    IN  IF Usable(d, d.socket)
        THEN [e EXCEPT !.link[d.socket].up = @ \o JoinFirst(d.queue)] ELSE e

\* A link with the given ends; nothing is kept of one that has none.
Half(l, browser, server) ==
    IF browser = "none" /\ ~server THEN NewLink
    ELSE [l EXCEPT !.browser = browser, !.server = server,
                   !.down = IF browser = "none" THEN <<>> ELSE @,
                   !.up = IF server THEN @ ELSE <<>>,
                   !.joined = IF server THEN @ ELSE NoRoom]

Opened(d, s) ==
    FlushQueue([d EXCEPT !.link[s].browser = "open", !.link[s].server = TRUE,
                         !.connected = TRUE, !.status = "CONNECTED", !.timer = NoRoom])

Closed(d, s) ==
    LET e == QueueReliableForRetry([d EXCEPT !.link[s] = Half(@, "none", @.server),
                                             !.connected = FALSE, !.socket = NoSocket])
    IN  IF d.stored = NoRoom THEN [e EXCEPT !.status = "OFFLINE"]
        ELSE [e EXCEPT !.status = "RECONNECTING", !.timer = d.stored,
                       !.stray = IF d.timer = NoRoom THEN @ ELSE @ \cup {d.timer}]

-----------------------------------------------------------------------------
(* state/gameStore.ts and the pages *)

ResetSession(d) ==
    [d EXCEPT !.stored = NoRoom, !.roomCode = NoRoom, !.shown = FALSE,
              !.failed = FALSE, !.pending = 0]

\* joinRoom and createRoom until ensureGuest is answered (room NoRoom: create).
StartEntry(d, r) ==
    [d EXCEPT !.entries = Append(@, [room |-> r, step |-> "guest",
                                     fresh |-> r = NoRoom \/ d.stored # r])]

\* The rest of joinRoom and createRoom.
EntryEvent(r) == IF r = NoRoom THEN [type |-> "create", room |-> NoRoom] ELSE Join(r)
EnterSend(d, r) == SendEvent(d, EntryEvent(r))

\* GameRoom's effect that joins the room of its address once.
AutoJoin(d) ==
    IF d.page = Home \/ d.attempted THEN d
    ELSE IF d.connected /\ d.shown /\ d.roomCode = d.page THEN [d EXCEPT !.attempted = TRUE]
    ELSE IF d.stored = d.page \/ d.session # NoUser \/ d.alias
         THEN StartEntry([d EXCEPT !.attempted = TRUE], d.page)
    ELSE d

Mount(d, p) == [d EXCEPT !.page = p, !.asking = p # Home \/ d.account # NoUser, !.session = NoUser,
                         !.attempted = FALSE, !.alias = FALSE]
EnterHome(d)    == ResetSession(DisconnectSocket(Mount(d, Home)))
EnterRoom(d, r) == AutoJoin(Mount(d, r))

\* Home follows the store into a room.
Follow(d) ==
    IF d.page = Home /\ d.shown /\ d.roomCode # NoRoom THEN EnterRoom(d, d.roomCode)
    ELSE AutoJoin(d)

\* GameRoom goes home when the room it had tried to join is gone.
Bounce(d) ==
    IF d.page # Home /\ d.attempted /\ d.roomCode = NoRoom /\ ~d.shown
    THEN EnterHome(d) ELSE d

Settle(d, id) == [d EXCEPT !.pending = IF @ = id THEN 0 ELSE @]

OnMessage(d, e) ==
    CASE e.type = "ack"      -> [d EXCEPT !.stored = e.room, !.roomCode = e.room]
      [] e.type = "state"    -> Follow([d EXCEPT !.shown = TRUE, !.status = "CONNECTED",
                                                 !.roomCode = IF @ = NoRoom THEN d.stored ELSE @])
      [] e.type = "accepted" -> ResolveReliable(Settle(d, e.id), e.id)
      [] e.type \in {"rejected", "error"} ->
             ResolveReliable(Settle([d EXCEPT !.failed = TRUE], e.id), e.id)
      [] e.type = "left"     ->
             Bounce([ResetSession(DisconnectSocket(d))
                        EXCEPT !.clearing = d.cookie \in Guests])
      [] OTHER               -> d

-----------------------------------------------------------------------------
(* The tab *)

NewRoom(alive) == [live |-> alive, playing |-> FALSE, seats |-> {}, applied |-> {}, conns |-> {},
                   controller |-> [u \in Users |-> NoSocket]]

LoadPage(d, p) ==
    LET e == [account |-> d.account, late |-> d.late, plain |-> d.plain, page |-> p,
              asking |-> TRUE, session |-> NoUser, attempted |-> FALSE,
              alias |-> FALSE, stored |-> d.stored, cookie |-> d.cookie, clearing |-> FALSE,
              roomCode |-> d.stored, shown |-> FALSE, connected |-> FALSE,
              status |-> "OFFLINE", failed |-> FALSE, pending |-> 0, queue |-> <<>>,
              unresolved |-> <<>>, socket |-> NoSocket, ticket |-> Idle, timer |-> NoRoom,
              stray |-> {}, entries |-> <<>>,
              link |-> [s \in Sockets |-> Half(d.link[s], "none", d.link[s].server)]]
    IN  IF p = Home THEN EnterHome(e) ELSE EnterRoom(e, p)

Init ==
    /\ \E p \in Invited \cup {Home}, a \in Accounts, late \in LateCloses :
          c = LoadPage([account |-> a, late |-> late, plain |-> TRUE, stored |-> NoRoom, cookie |-> a,
                        link |-> [s \in Sockets |-> NewLink]], p)
    /\ room = [r \in Rooms |-> NewRoom(r \in Invited)]
    /\ minted = {} /\ moves = 0 /\ faults = 0
    /\ given = [i \in Commands |-> Idle]
    /\ runs = [i \in Commands |-> [r \in Rooms |-> 0]]

Quiet  == UNCHANGED <<room, minted, moves, faults, given, runs>>
Move   == moves < MaxMoves /\ moves' = moves + 1 /\ UNCHANGED <<room, minted, faults, given, runs>>
Fault  == faults < MaxFaults /\ faults' = faults + 1
Spare(d) == d.entries = <<>> /\ Len(d.queue) < MaxQueue

\* Nothing of an earlier room is left on the page or under way.
AtRest == /\ ~c.shown /\ c.stored = NoRoom /\ c.roomCode = NoRoom /\ c.timer = NoRoom /\ c.stray = {}
          /\ c.entries = <<>> /\ c.queue = <<>>
          /\ c.socket # NoSocket => /\ c.link[c.socket].up = <<>> /\ c.link[c.socket].down = <<>>
                                    /\ c.link[c.socket].joined = NoRoom

\* Home: the code is entered, joinRoom is called and the page changes at once.
JoinFromHome(r) ==
    /\ c.page = Home /\ Spare(c)
    /\ c' = EnterRoom(StartEntry([c EXCEPT !.plain = AtRest], r), r)
    /\ Move

CreateFromHome ==
    /\ c.page = Home /\ Spare(c)
    /\ c' = StartEntry([c EXCEPT !.plain = AtRest], NoRoom)
    /\ Move

\* GameRoom asks for a name when nothing else identifies the visitor.
TypeAlias ==
    /\ c.page # Home /\ Len(c.entries) < 2 /\ Len(c.queue) < MaxQueue
    /\ c.stored # c.page /\ c.session = NoUser /\ ~c.alias /\ ~c.shown
    /\ c' = AutoJoin([c EXCEPT !.alias = TRUE])
    /\ Quiet

\* The guest request of joinRoom or createRoom is answered.
GuestReady(i) ==
    LET e    == c.entries[i]
        mint == c.cookie = NoUser \/ (e.fresh /\ c.cookie \in Guests)
        rest == [c EXCEPT !.entries = RemoveAt(@, i), !.failed = FALSE,
                          !.stored = IF e.fresh THEN NoRoom ELSE @,
                          !.roomCode = e.room,
                          !.shown = IF e.fresh THEN FALSE ELSE @]
        Go(d) == LET f == ConnectSocket(d)
                 IN  IF f.ticket = Idle THEN EnterSend(f, e.room)
                     ELSE [f EXCEPT !.entries = Append(@, [e EXCEPT !.step = "socket"])]
    IN  /\ e.step = "guest"
        /\ IF mint
           THEN \E g \in Guests \ minted :
                   minted' = minted \cup {g} /\ c' = Go([rest EXCEPT !.cookie = g])
           ELSE minted' = minted /\ c' = Go(rest)
        /\ UNCHANGED <<room, moves, faults, given, runs>>

\* The guest request fails: ensureGuest throws, and nothing is stored or sent.
GuestFails(i) ==
    /\ c.entries[i].step = "guest"
    /\ RequestsFail /\ Fault
    /\ c' = [c EXCEPT !.entries = RemoveAt(@, i)]
    /\ UNCHANGED <<room, minted, moves, given, runs>>

\* useSession is answered; Home connects a registered visitor and starts afresh,
\* and has nothing to do for a guest.
SessionArrives ==
    /\ c.asking
    /\ LET d == [c EXCEPT !.asking = FALSE]
       IN  c' = IF d.page # Home THEN AutoJoin([d EXCEPT !.session = d.cookie])
                ELSE ResetSession(ConnectSocket(d))
    /\ Quiet

Waiting(d) == {i \in DOMAIN d.entries : d.entries[i].step = "socket"}
\* connectLock is released: everybody who waited for it sends.
Released(d) ==
    LET e == [d EXCEPT !.ticket = Idle, !.entries = Picked(@, DOMAIN @ \ Waiting(d))]
        waiters == Picked(d.entries, Waiting(d))
        events == [i \in DOMAIN waiters |-> EntryEvent(waiters[i].room)]
    IN  IF Usable(e, e.socket) THEN [e EXCEPT !.link[e.socket].up = @ \o events]
        ELSE [e EXCEPT !.queue = @ \o events]

Closing == \E s \in Sockets : c.link[s].browser = "closing"
TicketArrives ==
    /\ c.ticket \notin {Idle, NoUser}
    /\ \E s \in Sockets :
          /\ c.link[s].browser = "none" /\ ~c.link[s].server
          /\ c.late \/ ~Closing
          /\ c' = Released([c EXCEPT !.socket = s,
                             !.link[s] = [NewLink EXCEPT !.browser = "connecting",
                                                         !.user = c.ticket]])
    /\ Quiet

\* No cookie, or the request failed: offline, and nothing is scheduled.
TicketRefused ==
    /\ c.ticket # Idle
    /\ IF c.ticket = NoUser THEN faults' = faults ELSE RequestsFail /\ Fault
    /\ c' = Released([c EXCEPT !.status = "OFFLINE"])
    /\ UNCHANGED <<room, minted, moves, given, runs>>

Open(s) ==
    /\ c.link[s].browser = "connecting"
    /\ c' = Opened(c, s)
    /\ Quiet

\* The connection is lost, or was never made.
Lose(s) ==
    /\ c.link[s].browser \in {"connecting", "open"}
    /\ Fault
    /\ c' = Closed(c, s)
    /\ UNCHANGED <<room, minted, moves, given, runs>>

\* The close event of a socket the page itself has closed.
CloseEvent(s) ==
    /\ c.link[s].browser = "closing"
    /\ c' = Closed(c, s)
    /\ Quiet

\* Faulty variant: the timer connects but does not join.
ReconnectBare(r) ==
    /\ r \in {c.timer} \cup c.stray
    /\ c' = ConnectSocket([c EXCEPT !.timer = IF @ = r THEN NoRoom ELSE @, !.stray = @ \ {r}])
    /\ Quiet
ReconnectTimer(r) ==
    /\ r \in {c.timer} \cup c.stray /\ Len(c.queue) < MaxQueue
    /\ c' = ConnectSocket([c EXCEPT !.queue = Append(@, Join(r)),
                                    !.timer = IF @ = r THEN NoRoom ELSE @,
                                    !.stray = @ \ {r}])
    /\ Quiet

\* The visibilitychange handler.
TabVisible ==
    /\ TabHides /\ Fault
    /\ ~Usable(c, c.socket) /\ c.stored # NoRoom
    /\ c' = ConnectSocket([c EXCEPT !.plain = @ /\ (Attached(c) \/ c.ticket # Idle)])
    /\ UNCHANGED <<room, minted, moves, given, runs>>

Reload ==
    /\ Fault
    /\ c' = LoadPage(c, c.page)
    /\ UNCHANGED <<room, minted, moves, given, runs>>

Given == {i \in Commands : given[i] # Idle}
NextCommand == CHOOSE i \in Commands \ Given : \A j \in Commands : j < i => j \in Given

\* The store's commands but those of Configure: connected, nothing pending.
\* "act" is any command but leave whose handler answers in all its branches;
\* those that fall silent are in TableView.
Command(type) ==
    /\ c.page # Home /\ c.shown /\ c.status = "CONNECTED" /\ c.pending = 0
    /\ Given # Commands
    /\ Len(c.unresolved) < MaxQueue
    /\ c' = SendEvent([c EXCEPT !.pending = NextCommand, !.failed = FALSE],
                      [type |-> type, id |-> NextCommand])
    /\ given' = [given EXCEPT ![NextCommand] = c.roomCode]
    /\ UNCHANGED <<room, minted, moves, faults, runs>>

\* setConfig and resetToLobby ask neither whether the tab is connected nor
\* whether something is pending: the lobby's effect and its selects send a
\* setting over the command that was waited for.
Configure ==
    /\ c.page # Home /\ c.shown
    /\ Given # Commands
    /\ Len(c.unresolved) < MaxQueue /\ Len(c.queue) < MaxQueue
    /\ c' = SendEvent([c EXCEPT !.pending = NextCommand, !.failed = FALSE],
                      [type |-> "act", id |-> NextCommand])
    /\ given' = [given EXCEPT ![NextCommand] = c.roomCode]
    /\ UNCHANGED <<room, minted, moves, faults, runs>>

\* "Leave" while not connected, the error page's button, or the browser's back.
GoHome ==
    /\ c.page # Home
    /\ c' = EnterHome(c)
    /\ Move

ClearGuestArrives ==
    /\ c.clearing
    /\ c' = [c EXCEPT !.clearing = FALSE, !.cookie = NoUser]
    /\ Quiet

Receive(s) ==
    /\ c.link[s].browser = "open" /\ c.link[s].down # <<>>
    /\ c' = OnMessage([c EXCEPT !.link[s].down = Tail(@)], Head(c.link[s].down))
    /\ Quiet

-----------------------------------------------------------------------------
(* The server: one session per socket, and the rooms *)

\* Faulty variant: applied commands are not remembered.
ForgetApplied(rm, id) == rm
Remember(rm, id) == [rm EXCEPT !.applied = @ \cup {id}]

\* attachConn: the newest connection of a user controls the seat.
AttachConn(rm, s, u) == [rm EXCEPT !.conns = @ \cup {s}, !.controller[u] = s]

\* A player of the room, old or new.
Seat(rm, s, u) == [AttachConn(rm, s, u) EXCEPT !.seats = @ \cup {u}]

\* clearPlayerRuntime and the removal of the seat; an empty room is destroyed.
Unseat(rm, u) ==
    LET rest == [rm EXCEPT !.seats = @ \ {u}, !.controller[u] = NoSocket,
                           !.conns = {s \in @ : c.link[s].user # u}]
    IN  rest

\* handleInternalLeave: the seat stays, another device may take over.
Detach(rm, s, u) ==
    LET others == {t \in rm.conns \ {s} : c.link[t].user = u}
    IN  [rm EXCEPT !.conns = @ \ {s},
                   !.controller[u] = IF @ # s THEN @
                                     ELSE IF others = {} THEN NoSocket
                                     ELSE CHOOSE t \in others : TRUE]

Reply(s, evs) == c.link[s].down \o (IF c.link[s].browser = "open" THEN evs ELSE <<>>)
Answer(s, evs, r) ==
    c' = [c EXCEPT !.link[s].up = Tail(@), !.link[s].down = Reply(s, evs), !.link[s].joined = r]
Error(id)    == <<[type |-> "error", id |-> id]>>
Welcome(r)   == <<[type |-> "ack", room |-> r], [type |-> "state"]>>
Accepted(id) == <<[type |-> "accepted", id |-> id]>>
Live         == {r \in Rooms : room[r].live}
Serving(s)   == c.link[s].server /\ c.link[s].up # <<>>

\* Seats are only given in the lobby; a seat that is held is found again.
Admits(rm, u) == rm.live /\ (u \in rm.seats \/ ~rm.playing)

HandleJoin(s) ==
    LET l == c.link[s]
        r == Head(l.up).room
    IN  /\ Serving(s) /\ Head(l.up).type = "join"
        /\ IF l.joined = NoRoom /\ Admits(room[r], l.user)
           THEN /\ room' = [room EXCEPT ![r] = Seat(@, s, l.user)]
                /\ Answer(s, Welcome(r), r)
           ELSE /\ Answer(s, Error(0), l.joined)
                /\ room' = room
        /\ UNCHANGED <<minted, moves, faults, given, runs>>

HandleCreate(s) ==
    LET l == c.link[s]
    IN  /\ Serving(s) /\ Head(l.up).type = "create"
        /\ IF l.joined = NoRoom
           THEN \E r \in Rooms :
                  /\ ~room[r].live /\ room[r].applied = {}
                  /\ room' = [room EXCEPT ![r] = Seat(NewRoom(TRUE), s, l.user)]
                  /\ Answer(s, Welcome(r), r)
           ELSE /\ Answer(s, Error(0), l.joined)
                /\ room' = room
        /\ UNCHANGED <<minted, moves, faults, given, runs>>

\* A command without a room, or with one that is gone.
RefuseCommand(s) ==
    LET l == c.link[s]
    IN  /\ Serving(s) /\ Reliable(Head(l.up))
        /\ l.joined \notin Live
        /\ Answer(s, Error(Head(l.up).id), l.joined)
        /\ UNCHANGED <<room, minted, moves, faults, given, runs>>

\* A command the room has already applied, or does not accept.
ReplayOrReject(s) ==
    LET l  == c.link[s]
        id == Head(l.up).id
        rm == room[l.joined]
    IN  /\ Serving(s) /\ Reliable(Head(l.up)) /\ l.joined \in Live
        /\ Answer(s, IF s \notin rm.conns THEN <<>>
                     ELSE IF id \in rm.applied THEN Accepted(id)
                     ELSE <<[type |-> "rejected", id |-> id]>>, l.joined)
        /\ UNCHANGED <<room, minted, moves, faults, given, runs>>

\* Faulty variant: duplicates are not recognised.
AppliesAny(rm, s, u, id) == u \in rm.seats /\ rm.controller[u] = s
Applies(rm, s, u, id) ==
    id \notin rm.applied /\ u \in rm.seats /\ rm.controller[u] = s

ApplyAct(s) ==
    LET l  == c.link[s]
        id == Head(l.up).id
    IN  /\ Serving(s) /\ Head(l.up).type = "act" /\ l.joined \in Live
        /\ Applies(room[l.joined], s, l.user, id)
        /\ room' = [room EXCEPT ![l.joined] = Remember(@, id)]
        /\ runs' = [runs EXCEPT ![id][l.joined] = @ + 1]
        /\ Answer(s, Accepted(id), l.joined)
        /\ UNCHANGED <<minted, moves, faults, given>>

\* The code of a destroyed room is random and not drawn again here; what was
\* applied in it marks it as used.
\* handleLeaveRoom: room_left goes out, the connection is dropped from the
\* room, and the action_accepted that follows finds no connection.
ApplyLeave(s) ==
    LET l    == c.link[s]
        id   == Head(l.up).id
        rest == Remember(Unseat(room[l.joined], l.user), id)
    IN  /\ Serving(s) /\ Head(l.up).type = "leave" /\ l.joined \in Live
        /\ Applies(room[l.joined], s, l.user, id)
        /\ room' = [room EXCEPT ![l.joined] =
                      IF rest.seats = {} /\ l.joined \notin Invited
                      THEN [NewRoom(FALSE) EXCEPT !.applied = rest.applied] ELSE rest]
        /\ runs' = [runs EXCEPT ![id][l.joined] = @ + 1]
        /\ Answer(s, <<[type |-> "left"]>>, l.joined)
        /\ UNCHANGED <<minted, moves, faults, given>>

\* The session ends once its socket is closing or gone; what it had not read
\* is lost.
SessionEnds(s) ==
    LET l == c.link[s]
    IN  /\ l.server /\ l.browser \in {"none", "closing"}
        /\ c' = [c EXCEPT !.link[s] = Half(@, @.browser, FALSE)]
        /\ room' = IF l.joined = NoRoom \/ s \notin room[l.joined].conns THEN room
                   ELSE [room EXCEPT ![l.joined] = Detach(@, s, l.user)]
        /\ UNCHANGED <<minted, moves, faults, given, runs>>

GameStarts(r) ==
    /\ room[r].live /\ ~room[r].playing /\ r \in Invited
    /\ room' = [room EXCEPT ![r].playing = TRUE]
    /\ UNCHANGED <<c, minted, moves, faults, given, runs>>

-----------------------------------------------------------------------------
Visitor == \/ \E r \in Rooms : JoinFromHome(r)
           \/ CreateFromHome \/ TypeAlias \/ GoHome
           \/ Command("act") \/ Command("leave") \/ Configure
Faulty  == \/ \E s \in Sockets : Lose(s)
           \/ TabVisible \/ Reload \/ \E i \in DOMAIN c.entries : GuestFails(i)
Entering == \E i \in DOMAIN c.entries : GuestReady(i)
Timers  == \E r \in Rooms : ReconnectTimer(r)
Browser(s) == Open(s) \/ CloseEvent(s) \/ Receive(s)
Server(s)  == \/ HandleJoin(s) \/ HandleCreate(s) \/ RefuseCommand(s)
              \/ ReplayOrReject(s) \/ ApplyAct(s) \/ ApplyLeave(s)

Next == \/ Visitor \/ Faulty \/ Entering \/ Timers
        \/ SessionArrives \/ TicketArrives \/ TicketRefused \/ ClearGuestArrives
        \/ \E s \in Sockets : Browser(s) \/ Server(s) \/ SessionEnds(s)
        \/ \E r \in Rooms : GameStarts(r)

Spec == Init /\ [][Next]_vars

\* Requests are answered, events are delivered, timers fire, the server reads
\* what it is sent; the visitor owes nothing and faults need not happen.
Fairness ==
    /\ WF_vars(Entering) /\ WF_vars(Timers)
    /\ WF_vars(SessionArrives) /\ WF_vars(ClearGuestArrives)
    /\ WF_vars(TicketArrives) /\ WF_vars(TicketRefused /\ c.ticket = NoUser)
    /\ \A s \in Sockets : WF_vars(Browser(s)) /\ WF_vars(Server(s)) /\ WF_vars(SessionEnds(s))
FairSpec == Spec /\ Fairness

-----------------------------------------------------------------------------
(* Properties. *)

\* However often a command is sent again, over whatever connections, the room
\* it was given in applies it at most once (replayDuplicate, commitAction).
AppliedOnce == \A i \in Commands, r \in Rooms : runs[i][r] <= 1

\* A command the visitor still waits for is not forgotten: it is kept for the
\* next connection until it is answered (pendingReliableEvents).
PendingIsKept == c.pending # 0 => \E i \in DOMAIN c.unresolved : c.unresolved[i].id = c.pending

\* A tab that shows a room as connected, with nothing under way, is in that
\* room for the server too: its events will reach it and its commands apply.
\* Three things break it: a browser that reports closes late, a return to the tab
\* that connects without a join (both ws/socket.ts:184), and a room entered while
\* something of an earlier one is left (ws/socket.ts:83, state/gameStore.ts:84).
\* c.plain says that since the last room entered from the home page with nothing
\* left of an earlier one the last two have not happened.
Settled == /\ c.entries = <<>> /\ c.queue = <<>> /\ c.ticket = Idle
           /\ \A s \in Sockets : c.link[s].up = <<>> /\ c.link[s].down = <<>>
ShownRoomIsJoined ==
    (~c.late /\ c.plain /\ c.page # Home /\ c.shown /\ c.status = "CONNECTED" /\ ~c.failed /\ Settled)
        => Usable(c, c.socket) /\ c.link[c.socket].joined = c.page

\* A lost connection is made up for: whoever is in a room and loses it gets
\* back or learns why not.
Back == c.stored = NoRoom \/ c.failed \/ (Usable(c, c.socket) /\ c.link[c.socket].joined = c.stored)
LossIsMadeUpFor == []<>Back

\* To its visitor the tab, its connections and the room together are a
\* Delivery: retries, replays and lost answers do not show.
TotalRuns(i) == MapThenSumSet(LAMBDA r : runs[i][r], Rooms)
Promised == INSTANCE Delivery WITH None <- 0, asked <- Given, waiting <- c.pending,
                                   count <- [i \in Commands |-> TotalRuns(i)]
CommandsAreDelivered == Promised!Spec
=============================================================================
