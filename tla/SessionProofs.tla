--------------------------- MODULE SessionProofs ---------------------------
(* Theorems about Session for every number of rooms, sockets, guests and     *)
(* commands, and every bound on faults: a command is applied at most once,   *)
(* one the visitor waits for is kept until it is answered, and the room a    *)
(* settled tab shows is the one its connection is in.                        *)
EXTENDS Session, SequenceTheorems, FiniteSetTheorems, WellFoundedInduction, TLAPS

-----------------------------------------------------------------------------
(* Applied at most once. *)

\* The only field of a room that matters here.
HasApplied(rm) == "applied" \in DOMAIN rm

\* A command that was applied is remembered by the room that applied it, also
\* when the seat, the connection or the whole room is gone.
RunsAreRemembered ==
    /\ room = [r \in Rooms |-> room[r]] /\ \A r \in Rooms : HasApplied(room[r])
    /\ runs \in [Commands -> [Rooms -> {0, 1}]]
    /\ \A i \in Commands, r \in Rooms : runs[i][r] = 1 => i \in room[r].applied

\* What a room remembers is not touched by the handlers of connections.
LEMMA SeatKeeps ==
    ASSUME NEW rm, HasApplied(rm), NEW s, NEW u
    PROVE  HasApplied(Seat(rm, s, u)) /\ Seat(rm, s, u).applied = rm.applied
<1> DEFINE t == AttachConn(rm, s, u)
<1>1. HasApplied(t) /\ t.applied = rm.applied
  BY DEF HasApplied, AttachConn
<1> HIDE DEF t
<1>2. /\ HasApplied([t EXCEPT !.seats = @ \cup {u}])
      /\ [t EXCEPT !.seats = @ \cup {u}].applied = t.applied
  BY <1>1 DEF HasApplied
<1> QED  BY <1>1, <1>2 DEF t, Seat

LEMMA UnseatKeeps ==
    ASSUME NEW rm, HasApplied(rm), NEW u
    PROVE  HasApplied(Unseat(rm, u)) /\ Unseat(rm, u).applied = rm.applied
BY DEF HasApplied, Unseat

LEMMA DetachKeeps ==
    ASSUME NEW rm, HasApplied(rm), NEW s, NEW u
    PROVE  HasApplied(Detach(rm, s, u)) /\ Detach(rm, s, u).applied = rm.applied
BY DEF HasApplied, Detach

LEMMA PlayingKeeps ==
    ASSUME NEW rm, HasApplied(rm)
    PROVE  /\ HasApplied([rm EXCEPT !.playing = TRUE])
           /\ [rm EXCEPT !.playing = TRUE].applied = rm.applied
BY DEF HasApplied

LEMMA RememberAdds ==
    ASSUME NEW rm, HasApplied(rm), NEW id
    PROVE  HasApplied(Remember(rm, id)) /\ Remember(rm, id).applied = rm.applied \cup {id}
BY DEF HasApplied, Remember

LEMMA NewRoomApplied ==
    ASSUME NEW alive, NEW applied
    PROVE  /\ HasApplied(NewRoom(alive)) /\ NewRoom(alive).applied = {}
           /\ HasApplied([NewRoom(alive) EXCEPT !.applied = applied])
           /\ [NewRoom(alive) EXCEPT !.applied = applied].applied = applied
BY DEF HasApplied, NewRoom

\* One room changes, and forgets nothing; no command is applied.
LEMMA OneRoomRemembers ==
    ASSUME RunsAreRemembered, NEW r \in Rooms, NEW rm, HasApplied(rm),
           room[r].applied \subseteq rm.applied,
           room' = [room EXCEPT ![r] = rm], runs' = runs
    PROVE  RunsAreRemembered'
<1>1. \A q \in Rooms : room'[q] = IF q = r THEN rm ELSE room[q]
  BY DEF RunsAreRemembered
<1>2. room' = [q \in Rooms |-> room'[q]]
  BY DEF RunsAreRemembered
<1> QED  BY <1>1, <1>2 DEF RunsAreRemembered

\* A command is applied by a room that does not remember it, and then does.
LEMMA ApplyRemembers ==
    ASSUME RunsAreRemembered, NEW r \in Rooms, NEW rm, HasApplied(rm), NEW id,
           id \notin room[r].applied, rm.applied = room[r].applied \cup {id},
           room' = [room EXCEPT ![r] = rm],
           runs' = [runs EXCEPT ![id][r] = @ + 1]
    PROVE  RunsAreRemembered'
<1>1. \A q \in Rooms : room'[q] = IF q = r THEN rm ELSE room[q]
  BY DEF RunsAreRemembered
<1>2. room' = [q \in Rooms |-> room'[q]]
  BY DEF RunsAreRemembered
<1>3. CASE id \in Commands
  <2>1. runs[id][r] = 0
    BY <1>3 DEF RunsAreRemembered
  <2>2. runs' = [runs EXCEPT ![id] = [runs[id] EXCEPT ![r] = 1]]
    BY <1>3, <2>1 DEF RunsAreRemembered
  <2>3. runs[id] \in [Rooms -> {0, 1}]
    BY <1>3 DEF RunsAreRemembered
  <2>4. [runs[id] EXCEPT ![r] = 1] \in [Rooms -> {0, 1}]
    BY <2>3
  <2>5. runs' \in [Commands -> [Rooms -> {0, 1}]]
    BY <2>2, <2>4 DEF RunsAreRemembered
  <2>6. \A i \in Commands, q \in Rooms :
            runs'[i][q] = IF i = id /\ q = r THEN 1 ELSE runs[i][q]
    BY <1>3, <2>2, <2>3 DEF RunsAreRemembered
  <2> QED  BY <1>1, <1>2, <2>5, <2>6 DEF RunsAreRemembered
<1>4. CASE id \notin Commands
  <2>1. runs' = runs
    BY <1>4 DEF RunsAreRemembered
  <2> QED  BY <1>1, <1>2, <2>1 DEF RunsAreRemembered
<1> QED  BY <1>3, <1>4

LEMMA ServerRemembers ==
    ASSUME RunsAreRemembered, NEW s \in Sockets,
           Server(s) \/ SessionEnds(s) \/ \E r \in Rooms : GameStarts(r)
    PROVE  RunsAreRemembered'
<1> DEFINE l == c.link[s]
<1>1. ASSUME UNCHANGED <<room, runs>> PROVE RunsAreRemembered'
  BY <1>1 DEF RunsAreRemembered
<1>2. \A r \in Rooms : HasApplied(room[r])
  BY DEF RunsAreRemembered
<1>3. ASSUME NEW r, r \in Rooms => FALSE, NEW rm,
             room' = [room EXCEPT ![r] = rm], runs' = runs
      PROVE  RunsAreRemembered'
  <2>1. room = [q \in Rooms |-> room[q]]
    BY DEF RunsAreRemembered
  <2>2. room' = room
    BY <1>3, <2>1
  <2> QED  BY <1>1, <1>3, <2>2
<1>4. CASE HandleJoin(s)
  <2> DEFINE r == Head(l.up).room
             rm == Seat(room[r], s, l.user)
  <2>1. runs' = runs /\ (room' = room \/ room' = [room EXCEPT ![r] = rm])
    BY <1>4 DEF HandleJoin
  <2>2. ASSUME r \in Rooms PROVE HasApplied(rm) /\ rm.applied = room[r].applied
    <3>1. HasApplied(room[r])
      BY <1>2, <2>2
    <3> QED  BY <3>1, SeatKeeps
  <2> HIDE DEF r, rm
  <2> QED  BY <1>1, <1>3, <2>1, <2>2, OneRoomRemembers
<1>5. CASE HandleCreate(s)
  <2>1. ASSUME NEW r \in Rooms, room[r].applied = {}, runs' = runs,
               room' = [room EXCEPT ![r] = Seat(NewRoom(TRUE), s, l.user)]
        PROVE  RunsAreRemembered'
    <3>1. HasApplied(Seat(NewRoom(TRUE), s, l.user))
      BY NewRoomApplied, SeatKeeps
    <3> QED  BY <2>1, <3>1, OneRoomRemembers
  <2> QED  BY <1>1, <1>5, <2>1 DEF HandleCreate
<1>6. CASE RefuseCommand(s) \/ ReplayOrReject(s)
  BY <1>1, <1>6 DEF RefuseCommand, ReplayOrReject
<1>7. ASSUME ApplyAct(s) \/ ApplyLeave(s)
      PROVE  l.joined \in Rooms /\ Head(l.up).id \notin room[l.joined].applied
  BY <1>7 DEF ApplyAct, ApplyLeave, Live, Applies
<1>8. CASE ApplyAct(s)
  <2> DEFINE r == l.joined
             id == Head(l.up).id
  <2>1. /\ room' = [room EXCEPT ![r] = Remember(room[r], id)]
        /\ runs' = [runs EXCEPT ![id][r] = @ + 1]
    BY <1>8 DEF ApplyAct
  <2>2. r \in Rooms /\ id \notin room[r].applied
    BY <1>7, <1>8
  <2> HIDE DEF r, id
  <2>3. /\ HasApplied(Remember(room[r], id))
        /\ Remember(room[r], id).applied = room[r].applied \cup {id}
    BY <1>2, <2>2, RememberAdds
  <2> QED  BY <2>1, <2>2, <2>3, ApplyRemembers
<1>9. CASE ApplyLeave(s)
  <2> DEFINE r == l.joined
             id == Head(l.up).id
             rest == Remember(Unseat(room[r], l.user), id)
             rm == IF rest.seats = {} /\ r \notin Invited
                   THEN [NewRoom(FALSE) EXCEPT !.applied = rest.applied] ELSE rest
  <2>1. /\ room' = [room EXCEPT ![r] = rm]
        /\ runs' = [runs EXCEPT ![id][r] = @ + 1]
    BY <1>9 DEF ApplyLeave
  <2>2. r \in Rooms /\ id \notin room[r].applied
    BY <1>7, <1>9
  <2>3. HasApplied(rest) /\ rest.applied = room[r].applied \cup {id}
    <3> DEFINE gone == Unseat(room[r], l.user)
    <3>1. HasApplied(room[r])
      BY <1>2, <2>2
    <3>2. HasApplied(gone) /\ gone.applied = room[r].applied
      BY <3>1, UnseatKeeps
    <3> HIDE DEF gone
    <3>3. HasApplied(Remember(gone, id)) /\ Remember(gone, id).applied = gone.applied \cup {id}
      BY <3>2, RememberAdds, Zenon
    <3> QED  BY <3>2, <3>3 DEF gone
  <2> HIDE DEF r, id, rest
  <2>4. HasApplied(rm) /\ rm.applied = room[r].applied \cup {id}
    BY <2>3, NewRoomApplied
  <2> HIDE DEF rm
  <2> QED  BY <2>1, <2>2, <2>4, ApplyRemembers
<1>10. CASE SessionEnds(s)
  <2> DEFINE r == l.joined
             rm == Detach(room[r], s, l.user)
  <2>1. runs' = runs /\ (room' = room \/ room' = [room EXCEPT ![r] = rm])
    BY <1>10 DEF SessionEnds
  <2>2. ASSUME r \in Rooms PROVE HasApplied(rm) /\ rm.applied = room[r].applied
    <3>1. HasApplied(room[r])
      BY <1>2, <2>2
    <3> QED  BY <3>1, DetachKeeps
  <2> HIDE DEF r, rm
  <2> QED  BY <1>1, <1>3, <2>1, <2>2, OneRoomRemembers
<1>11. ASSUME NEW r \in Rooms, GameStarts(r) PROVE RunsAreRemembered'
  <2> DEFINE rm == [room[r] EXCEPT !.playing = TRUE]
  <2>1. room' = [room EXCEPT ![r] = rm] /\ runs' = runs
    BY <1>11 DEF GameStarts
  <2>2. HasApplied(rm) /\ rm.applied = room[r].applied
    BY <1>2, PlayingKeeps
  <2> HIDE DEF rm
  <2> QED  BY <2>1, <2>2, OneRoomRemembers
<1> QED  BY <1>4, <1>5, <1>6, <1>8, <1>9, <1>10, <1>11 DEF Server

LEMMA StepRemembers == RunsAreRemembered /\ [Next]_vars => RunsAreRemembered'
<1> SUFFICES ASSUME RunsAreRemembered, [Next]_vars PROVE RunsAreRemembered'
  OBVIOUS
<1>1. ASSUME UNCHANGED <<room, runs>> PROVE RunsAreRemembered'
  BY <1>1 DEF RunsAreRemembered
<1>2. CASE Visitor
  BY <1>1, <1>2 DEF Visitor, JoinFromHome, CreateFromHome, TypeAlias, GoHome, Command,
                   Configure, Move, Quiet
<1>3. CASE Faulty
  BY <1>1, <1>3 DEF Faulty, Lose, TabVisible, Reload, GuestFails
<1>4. CASE Entering \/ Timers \/ SessionArrives \/ TicketArrives \/ TicketRefused
           \/ ClearGuestArrives
  BY <1>1, <1>4 DEF Entering, GuestReady, Timers, ReconnectTimer, SessionArrives,
                   TicketArrives, TicketRefused, ClearGuestArrives, Quiet
<1>5. ASSUME NEW s \in Sockets, Browser(s) PROVE RunsAreRemembered'
  BY <1>1, <1>5 DEF Browser, Open, CloseEvent, Receive, Quiet
<1>6. ASSUME NEW s \in Sockets,
             Server(s) \/ SessionEnds(s) \/ \E r \in Rooms : GameStarts(r)
      PROVE  RunsAreRemembered'
  BY <1>6, ServerRemembers
<1>7. ASSUME NEW r \in Rooms, GameStarts(r) PROVE RunsAreRemembered'
  <2> DEFINE rm == [room[r] EXCEPT !.playing = TRUE]
  <2>1. room' = [room EXCEPT ![r] = rm] /\ runs' = runs
    BY <1>7 DEF GameStarts
  <2>2. HasApplied(room[r])
    BY DEF RunsAreRemembered
  <2>3. HasApplied(rm) /\ rm.applied = room[r].applied
    BY <2>2, PlayingKeeps
  <2> HIDE DEF rm
  <2> QED  BY <2>1, <2>3, OneRoomRemembers
<1>8. CASE UNCHANGED vars
  BY <1>1, <1>8 DEF vars
<1> QED  BY <1>2, <1>3, <1>4, <1>5, <1>6, <1>7, <1>8 DEF Next

LEMMA InitRemembers == Init => RunsAreRemembered
<1> SUFFICES ASSUME Init PROVE RunsAreRemembered
  OBVIOUS
<1>1. room = [r \in Rooms |-> NewRoom(r \in Invited)]
  BY DEF Init
<1>2. \A r \in Rooms : HasApplied(room[r])
  BY <1>1, NewRoomApplied
<1>3. runs = [i \in Commands |-> [r \in Rooms |-> 0]]
  BY DEF Init
<1> QED  BY <1>1, <1>2, <1>3 DEF RunsAreRemembered

\* However often a command is sent again, over whatever connections and after
\* whatever faults, no room applies it twice: a room remembers what it applied
\* even when its last player has left.
THEOREM NeverTwice == Spec => []AppliedOnce
<1>1. RunsAreRemembered => AppliedOnce
  BY DEF RunsAreRemembered, AppliedOnce
<1> QED  BY <1>1, InitRemembers, StepRemembers, PTL DEF Spec

-----------------------------------------------------------------------------
(* Kept until it is answered. *)

\* The fields of a tab that matter here.
HasCommands(d) == {"pending", "unresolved"} \subseteq DOMAIN d

\* e follows d without touching what is unanswered; nobody may wait any more.
Forgets(d, e) == /\ HasCommands(e) /\ e.unresolved = d.unresolved
                 /\ e.pending = d.pending \/ e.pending = 0

Orders == [type : {"act", "leave"}, id : Commands]

\* What is waited for is among what is unanswered.
KeepsPending(d) ==
    /\ HasCommands(d) /\ d.unresolved \in Seq(Orders)
    /\ d.pending # 0 => \E i \in DOMAIN d.unresolved : d.unresolved[i].id = d.pending

CommandsAreKept == KeepsPending(c)

LEMMA ForgetsIsSafe ==
    ASSUME NEW d, NEW e, KeepsPending(d), Forgets(d, e)
    PROVE  KeepsPending(e)
BY DEF KeepsPending, Forgets

LEMMA ForgetsIsTransitive ==
    ASSUME NEW d, NEW e, NEW f, Forgets(d, e), Forgets(e, f)
    PROVE  Forgets(d, f)
BY DEF Forgets

\* The socket module.

LEMMA ConnectForgets ==
    ASSUME NEW d, HasCommands(d)
    PROVE  Forgets(d, ConnectSocket(d))
BY DEF HasCommands, Forgets, ConnectSocket

LEMMA DisconnectForgets ==
    ASSUME NEW d, HasCommands(d)
    PROVE  Forgets(d, DisconnectSocket(d))
BY DEF HasCommands, Forgets, DisconnectSocket

LEMMA FlushForgets ==
    ASSUME NEW d, HasCommands(d)
    PROVE  Forgets(d, FlushQueue(d))
BY DEF HasCommands, Forgets, FlushQueue

LEMMA OpenedForgets ==
    ASSUME NEW d, HasCommands(d), NEW s
    PROVE  Forgets(d, Opened(d, s))
<1> DEFINE e == [d EXCEPT !.link[s].browser = "open", !.link[s].server = TRUE,
                          !.connected = TRUE, !.status = "CONNECTED", !.timer = NoRoom]
<1>1. Forgets(d, e)
  BY DEF HasCommands, Forgets
<1> HIDE DEF e
<1>2. Forgets(e, FlushQueue(e))
  BY <1>1, FlushForgets DEF Forgets
<1>3. Opened(d, s) = FlushQueue(e)
  BY DEF Opened, e
<1> QED  BY <1>1, <1>2, <1>3, ForgetsIsTransitive

LEMMA ClosedForgets ==
    ASSUME NEW d, HasCommands(d), NEW s
    PROVE  Forgets(d, Closed(d, s))
<1> DEFINE e == [d EXCEPT !.link[s] = Half(d.link[s], "none", d.link[s].server),
                          !.connected = FALSE, !.socket = NoSocket]
           f == QueueReliableForRetry(e)
<1>1. Forgets(d, e)
  BY DEF HasCommands, Forgets
<1>2. f = QueueReliableForRetry([d EXCEPT !.link[s] = Half(@, "none", @.server),
                                          !.connected = FALSE, !.socket = NoSocket])
  OBVIOUS
<1> HIDE DEF e
<1>3. Forgets(e, f)
  BY <1>1 DEF HasCommands, Forgets, QueueReliableForRetry
<1>4. Forgets(d, f)
  BY <1>1, <1>3, ForgetsIsTransitive
<1> HIDE DEF f
<1>5. CASE d.stored = NoRoom
  <2>1. Closed(d, s) = [f EXCEPT !.status = "OFFLINE"]
    BY <1>2, <1>5 DEF Closed
  <2> QED  BY <1>4, <2>1 DEF HasCommands, Forgets
<1>6. CASE d.stored # NoRoom
  <2>1. Closed(d, s) = [f EXCEPT !.status = "RECONNECTING", !.timer = d.stored,
                          !.stray = IF d.timer = NoRoom THEN @ ELSE @ \cup {d.timer}]
    BY <1>2, <1>6 DEF Closed
  <2> QED  BY <1>4, <2>1 DEF HasCommands, Forgets
<1> QED  BY <1>5, <1>6

\* What is sent besides reliable commands.
LEMMA SendForgets ==
    ASSUME NEW d, HasCommands(d), NEW m, ~Reliable(m)
    PROVE  Forgets(d, SendEvent(d, m))
BY DEF HasCommands, Forgets, SendEvent, Transmit

LEMMA EnterSendForgets ==
    ASSUME NEW d, HasCommands(d), NEW r
    PROVE  Forgets(d, EnterSend(d, r))
<1>1. ~Reliable(EntryEvent(r))
  BY DEF Reliable, EntryEvent, Join
<1> QED  BY <1>1, SendForgets DEF EnterSend

LEMMA ReleasedForgets ==
    ASSUME NEW d, HasCommands(d)
    PROVE  Forgets(d, Released(d))
<1> DEFINE e == [d EXCEPT !.ticket = Idle,
                          !.entries = Picked(@, DOMAIN @ \ Waiting(d))]
           waiters == Picked(d.entries, Waiting(d))
           events == [i \in DOMAIN waiters |-> EntryEvent(waiters[i].room)]
<1>1. Forgets(d, e)
  BY DEF HasCommands, Forgets
<1>2. Released(d) = IF Usable(e, e.socket) THEN [e EXCEPT !.link[e.socket].up = @ \o events]
                    ELSE [e EXCEPT !.queue = @ \o events]
  BY DEF Released
<1> HIDE DEF e, events
<1>3. Forgets(e, Released(d))
  BY <1>1, <1>2 DEF HasCommands, Forgets
<1> QED  BY <1>1, <1>3, ForgetsIsTransitive

\* The store and the pages.

LEMMA ResetForgets ==
    ASSUME NEW d, HasCommands(d)
    PROVE  Forgets(d, ResetSession(d))
BY DEF HasCommands, Forgets, ResetSession

LEMMA StartEntryForgets ==
    ASSUME NEW d, HasCommands(d), NEW r
    PROVE  Forgets(d, StartEntry(d, r))
BY DEF HasCommands, Forgets, StartEntry

LEMMA MountForgets ==
    ASSUME NEW d, HasCommands(d), NEW p
    PROVE  Forgets(d, Mount(d, p))
BY DEF HasCommands, Forgets, Mount

LEMMA AutoJoinForgets ==
    ASSUME NEW d, HasCommands(d)
    PROVE  Forgets(d, AutoJoin(d))
<1> DEFINE e == [d EXCEPT !.attempted = TRUE]
<1>1. Forgets(d, e) /\ Forgets(d, d)
  BY DEF HasCommands, Forgets
<1> HIDE DEF e
<1>2. Forgets(e, StartEntry(e, d.page))
  BY <1>1, StartEntryForgets DEF Forgets
<1>3. AutoJoin(d) \in {d, e, StartEntry(e, d.page)}
  BY DEF AutoJoin, e
<1> QED  BY <1>1, <1>2, <1>3, ForgetsIsTransitive

LEMMA EnterHomeForgets ==
    ASSUME NEW d, HasCommands(d)
    PROVE  Forgets(d, EnterHome(d))
<1> DEFINE e == Mount(d, Home)
           f == DisconnectSocket(e)
<1>1. Forgets(d, e)
  BY MountForgets
<1> HIDE DEF e
<1>2. Forgets(e, f)
  BY <1>1, DisconnectForgets DEF Forgets
<1> HIDE DEF f
<1>3. Forgets(f, ResetSession(f))
  BY <1>2, ResetForgets DEF Forgets
<1> QED  BY <1>1, <1>2, <1>3, ForgetsIsTransitive DEF e, f, EnterHome

LEMMA EnterRoomForgets ==
    ASSUME NEW d, HasCommands(d), NEW r
    PROVE  Forgets(d, EnterRoom(d, r))
<1> DEFINE e == Mount(d, r)
<1>1. Forgets(d, e)
  BY MountForgets
<1> HIDE DEF e
<1>2. Forgets(e, AutoJoin(e))
  BY <1>1, AutoJoinForgets DEF Forgets
<1> QED  BY <1>1, <1>2, ForgetsIsTransitive DEF e, EnterRoom

LEMMA FollowForgets ==
    ASSUME NEW d, HasCommands(d)
    PROVE  Forgets(d, Follow(d)) /\ Forgets(d, Bounce(d))
<1>1. Forgets(d, d)
  BY DEF Forgets
<1> QED  BY <1>1, EnterRoomForgets, EnterHomeForgets, AutoJoinForgets DEF Follow, Bounce

LEMMA LoadPageKeeps ==
    ASSUME NEW d, NEW p
    PROVE  KeepsPending(LoadPage(d, p))
<1> DEFINE e == [account |-> d.account, late |-> d.late, plain |-> d.plain, page |-> p,
              asking |-> TRUE, session |-> NoUser, attempted |-> FALSE,
              alias |-> FALSE, stored |-> d.stored, cookie |-> d.cookie, clearing |-> FALSE,
              roomCode |-> d.stored, shown |-> FALSE, connected |-> FALSE,
              status |-> "OFFLINE", failed |-> FALSE, pending |-> 0, queue |-> <<>>,
              unresolved |-> <<>>, socket |-> NoSocket, ticket |-> Idle, timer |-> NoRoom,
              stray |-> {}, entries |-> <<>>,
              link |-> [s \in Sockets |-> Half(d.link[s], "none", d.link[s].server)]]
<1>1. HasCommands(e) /\ e.pending = 0 /\ e.unresolved = <<>>
  BY DEF HasCommands
<1>2. LoadPage(d, p) = IF p = Home THEN EnterHome(e) ELSE EnterRoom(e, p)
  BY DEF LoadPage
<1> HIDE DEF e
<1>3. KeepsPending(e)
  BY <1>1 DEF KeepsPending
<1> QED  BY <1>1, <1>2, <1>3, EnterHomeForgets, EnterRoomForgets, ForgetsIsSafe

\* Commands.

\* The least element of a set of numbers.
LEMMA MinIsLeast ==
    ASSUME NEW S \in SUBSET Nat, S # {}
    PROVE  \E m \in S : \A k \in S : m <= k
<1>1. PICK m \in S : \A k \in S : ~(<<k, m>> \in OpToRel(<, Nat))
  BY NatLessThanWellFounded, WFMin
<1>2. ASSUME NEW k \in S, k < m PROVE FALSE
  <2>1. <<k, m>> \in {ss \in Nat \X Nat : ss[1] < ss[2]}
    BY <1>2
  <2> QED  BY <1>1, <2>1 DEF OpToRel
<1> QED  BY <1>2

LEMMA MinIsMember ==
    ASSUME NEW S \in SUBSET Nat, S # {}
    PROVE  Min(S) \in S
BY MinIsLeast DEF Min

LEMMA NextIsCommand ==
    ASSUME Given # Commands
    PROVE  NextCommand \in Commands \ Given
<1> DEFINE Free == Commands \ Given
<1>1. Free \in SUBSET Nat /\ Free # {}
  BY MaxCommandsIsNat DEF Commands, Given
<1>2. PICK m \in Free : \A k \in Free : m <= k
  BY <1>1, MinIsLeast
<1>3. \A j \in Commands : j < m => j \in Given
  BY <1>2, MaxCommandsIsNat DEF Commands
<1> QED  BY <1>2, <1>3 DEF NextCommand

LEMMA SendKeeps ==
    ASSUME NEW d, HasCommands(d), d.unresolved \in Seq(Orders),
           NEW m \in Orders, d.pending = m.id
    PROVE  KeepsPending(SendEvent(d, m))
<1> DEFINE e == [d EXCEPT !.unresolved = Append(d.unresolved, m)]
<1>1. /\ HasCommands(e) /\ e.pending = m.id
      /\ e.unresolved = Append(d.unresolved, m)
  BY DEF HasCommands
<1>2. SendEvent(d, m) = IF Usable(e, e.socket) THEN Transmit(e, m)
                        ELSE [e EXCEPT !.queue = Append(@, m)]
  BY DEF SendEvent, Reliable, Orders
<1> HIDE DEF e
<1>3. Forgets(e, SendEvent(d, m))
  BY <1>1, <1>2 DEF HasCommands, Forgets, Transmit
<1>4. /\ e.unresolved \in Seq(Orders)
      /\ Len(e.unresolved) \in DOMAIN e.unresolved
      /\ e.unresolved[Len(e.unresolved)] = m
  BY <1>1, AppendProperties
<1>5. KeepsPending(e)
  BY <1>1, <1>4 DEF KeepsPending
<1> QED  BY <1>3, <1>5, ForgetsIsSafe

\* What is left of a sequence without the element at some index.
LEMMA RemoveAtShifts ==
    ASSUME NEW S, NEW q \in Seq(S), NEW n \in 1..Len(q)
    PROVE  /\ RemoveAt(q, n) \in Seq(S) /\ Len(RemoveAt(q, n)) = Len(q) - 1
           /\ \A k \in 1..(Len(q) - 1) :
                  RemoveAt(q, n)[k] = IF k < n THEN q[k] ELSE q[k + 1]
<1> DEFINE head == SubSeq(q, 1, n - 1)
           tail == SubSeq(q, n + 1, Len(q))
<1>1. Len(q) \in Nat /\ \A k \in 1..Len(q) : q[k] \in S
  BY LenProperties, ElementOfSeq
<1>2. /\ head \in Seq(S) /\ Len(head) = n - 1
      /\ \A k \in 1..(n - 1) : head[k] = q[k]
  <2>1. /\ head \in Seq(S)
        /\ Len(head) = IF 1 <= n - 1 THEN (n - 1) - 1 + 1 ELSE 0
        /\ \A k \in 1..((n - 1) - 1 + 1) : head[k] = q[1 + k - 1]
    BY <1>1, SubSeqProperties
  <2> HIDE DEF head
  <2> QED  BY <1>1, <2>1
<1>3. /\ tail \in Seq(S) /\ Len(tail) = Len(q) - n
      /\ \A k \in 1..(Len(q) - n) : tail[k] = q[n + k]
  <2>1. /\ tail \in Seq(S)
        /\ Len(tail) = IF n + 1 <= Len(q) THEN Len(q) - (n + 1) + 1 ELSE 0
        /\ \A k \in 1..(Len(q) - (n + 1) + 1) : tail[k] = q[(n + 1) + k - 1]
    BY <1>1, SubSeqProperties
  <2> HIDE DEF tail
  <2>2. \A k \in 1..(Len(q) - n) : tail[k] = q[n + k]
    <3> TAKE k \in 1..(Len(q) - n)
    <3>1. k \in 1..(Len(q) - (n + 1) + 1) /\ (n + 1) + k - 1 = n + k
      BY <1>1
    <3> QED  BY <2>1, <3>1
  <2> QED  BY <1>1, <2>1, <2>2
<1>4. RemoveAt(q, n) = head \o tail
  BY DEF RemoveAt
<1> HIDE DEF head, tail
<1> DEFINE rest == RemoveAt(q, n)
<1>5. /\ rest \in Seq(S) /\ Len(rest) = Len(head) + Len(tail)
      /\ \A k \in 1..Len(rest) : rest[k] = IF k <= Len(head) THEN head[k] ELSE tail[k - Len(head)]
  BY <1>2, <1>3, <1>4, ConcatProperties
<1> HIDE DEF rest
<1>6. ASSUME NEW k \in 1..(Len(q) - 1) PROVE rest[k] = IF k < n THEN q[k] ELSE q[k + 1]
  <2>1. rest[k] = IF k <= n - 1 THEN head[k] ELSE tail[k - (n - 1)]
    BY <1>1, <1>2, <1>3, <1>5
  <2>2. CASE k < n
    BY <1>1, <1>2, <2>1, <2>2
  <2>3. CASE k >= n
    <3>1. k - (n - 1) \in 1..(Len(q) - n) /\ n + (k - (n - 1)) = k + 1
      BY <1>1, <2>3
    <3>2. tail[k - (n - 1)] = q[k + 1]
      BY <1>3, <3>1
    <3> QED  BY <1>1, <2>1, <2>3, <3>2
  <2> QED  BY <1>1, <2>2, <2>3
<1> QED  BY <1>1, <1>2, <1>3, <1>5, <1>6 DEF rest

\* The commands left when one is answered.
Without(q, id) == RemoveFirstMatch(q, LAMBDA m : m.id = id)

LEMMA WithoutRemovesOne ==
    ASSUME NEW q \in Seq(Orders), NEW id
    PROVE  \/ Without(q, id) = q
           \/ \E n \in 1..Len(q) : q[n].id = id /\ Without(q, id) = RemoveAt(q, n)
<1> DEFINE hits == {k \in 1..Len(q) : q[k].id = id}
<1>1. CASE hits = {}
  BY <1>1 DEF Without, RemoveFirstMatch
<1>2. CASE hits # {}
  <2>1. Without(q, id) = RemoveAt(q, Min(hits))
    BY <1>2 DEF Without, RemoveFirstMatch, SelectInSeq
  <2>2. hits \in SUBSET Nat
    BY LenProperties
  <2>3. Min(hits) \in hits
    BY <1>2, <2>2, MinIsMember
  <2> QED  BY <2>1, <2>3
<1> QED  BY <1>1, <1>2

\* An answer removes the command it answers and no other.
LEMMA WithoutKeepsOthers ==
    ASSUME NEW q \in Seq(Orders), NEW id
    PROVE  /\ Without(q, id) \in Seq(Orders)
           /\ \A i \in DOMAIN q : q[i].id # id =>
                 \E j \in DOMAIN Without(q, id) : Without(q, id)[j].id = q[i].id
<1>1. CASE Without(q, id) = q
  BY <1>1
<1>2. CASE Without(q, id) # q
  <2>1. PICK n \in 1..Len(q) : q[n].id = id /\ Without(q, id) = RemoveAt(q, n)
    BY <1>2, WithoutRemovesOne
  <2> DEFINE rest == RemoveAt(q, n)
  <2>2. /\ rest \in Seq(Orders) /\ Len(rest) = Len(q) - 1
        /\ \A k \in 1..(Len(q) - 1) : rest[k] = IF k < n THEN q[k] ELSE q[k + 1]
    BY RemoveAtShifts
  <2>3. DOMAIN q = 1..Len(q) /\ Len(q) \in Nat /\ DOMAIN rest = 1..(Len(q) - 1)
    BY <2>2, LenProperties
  <2> HIDE DEF rest
  <2>4. ASSUME NEW i \in DOMAIN q, q[i].id # id
        PROVE  \E j \in DOMAIN rest : rest[j].id = q[i].id
    <3>1. i \in 1..Len(q) /\ i # n
      BY <2>1, <2>3, <2>4
    <3>2. CASE i < n
      <4>1. i \in 1..(Len(q) - 1) /\ rest[i] = q[i]
        BY <2>2, <2>3, <3>1, <3>2
      <4> QED  BY <2>3, <4>1
    <3>3. CASE i > n
      <4>1. i - 1 \in 1..(Len(q) - 1) /\ ~(i - 1 < n) /\ (i - 1) + 1 = i
        BY <2>3, <3>1, <3>3
      <4>2. rest[i - 1] = q[i]
        BY <2>2, <4>1
      <4> QED  BY <2>3, <4>1, <4>2
    <3> QED  BY <2>3, <3>1, <3>2, <3>3
  <2> QED  BY <2>1, <2>2, <2>4 DEF rest
<1> QED  BY <1>1, <1>2

LEMMA AnswerKeeps ==
    ASSUME NEW d, KeepsPending(d), NEW id
    PROVE  KeepsPending(ResolveReliable(Settle(d, id), id))
<1> DEFINE e == Settle(d, id)
           q == d.unresolved
           rest == Without(q, id)
           f == [e EXCEPT !.unresolved = rest]
<1>1. /\ HasCommands(e) /\ e.unresolved = q
      /\ e.pending = IF d.pending = id THEN 0 ELSE d.pending
  BY DEF KeepsPending, HasCommands, Settle
<1>2. ResolveReliable(e, id) = f
  <2> HIDE DEF e
  <2> QED  BY <1>1 DEF ResolveReliable, Without
<1>3. q \in Seq(Orders)
  BY DEF KeepsPending
<1>4. rest \in Seq(Orders)
  BY <1>3, WithoutKeepsOthers
<1> HIDE DEF e, q, rest
<1>5. /\ HasCommands(f) /\ f.unresolved = rest
      /\ f.pending = IF d.pending = id THEN 0 ELSE d.pending
  BY <1>1 DEF HasCommands
<1> HIDE DEF f
<1>6. ASSUME f.pending # 0 PROVE \E j \in DOMAIN rest : rest[j].id = f.pending
  <2>1. f.pending = d.pending /\ d.pending # id /\ d.pending # 0
    BY <1>5, <1>6
  <2>2. PICK i \in DOMAIN q : q[i].id = d.pending
    BY <2>1 DEF KeepsPending, q
  <2> QED  BY <1>3, <2>1, <2>2, WithoutKeepsOthers DEF rest
<1>7. KeepsPending(f)
  BY <1>4, <1>5, <1>6 DEF KeepsPending
<1> QED  BY <1>2, <1>7 DEF e

LEMMA LeftForgets ==
    ASSUME NEW d, HasCommands(d)
    PROVE  Forgets(d, Bounce([ResetSession(DisconnectSocket(d))
                                 EXCEPT !.clearing = d.cookie \in Guests]))
<1> DEFINE e == DisconnectSocket(d)
           f == ResetSession(e)
           g == [f EXCEPT !.clearing = d.cookie \in Guests]
<1>1. Forgets(d, e)
  BY DisconnectForgets
<1> HIDE DEF e
<1>2. Forgets(e, f)
  BY <1>1, ResetForgets DEF Forgets
<1> HIDE DEF f
<1>3. Forgets(f, g)
  BY <1>2 DEF HasCommands, Forgets
<1> HIDE DEF g
<1>4. Forgets(g, Bounce(g))
  BY <1>3, FollowForgets DEF Forgets
<1>5. Forgets(d, Bounce(g))
  BY <1>1, <1>2, <1>3, <1>4, ForgetsIsTransitive
<1> QED  BY <1>5 DEF e, f, g

LEMMA MessageKeeps ==
    ASSUME NEW d, KeepsPending(d), NEW e
    PROVE  KeepsPending(OnMessage(d, e))
<1>0. HasCommands(d)
  BY DEF KeepsPending
<1>1. CASE e.type = "ack"
  <2>1. OnMessage(d, e) = [d EXCEPT !.stored = e.room, !.roomCode = e.room]
    BY <1>1 DEF OnMessage
  <2>2. Forgets(d, OnMessage(d, e))
    BY <1>0, <2>1 DEF HasCommands, Forgets
  <2> QED  BY <2>2, ForgetsIsSafe
<1>2. CASE e.type = "state"
  <2> DEFINE f == [d EXCEPT !.shown = TRUE, !.status = "CONNECTED",
                            !.roomCode = IF @ = NoRoom THEN d.stored ELSE @]
  <2>1. OnMessage(d, e) = Follow(f)
    BY <1>2 DEF OnMessage
  <2>2. Forgets(d, f)
    BY <1>0 DEF HasCommands, Forgets
  <2> HIDE DEF f
  <2>3. Forgets(f, Follow(f))
    BY <2>2, FollowForgets DEF Forgets
  <2> QED  BY <2>1, <2>2, <2>3, ForgetsIsTransitive, ForgetsIsSafe
<1>3. CASE e.type = "accepted"
  <2>1. OnMessage(d, e) = ResolveReliable(Settle(d, e.id), e.id)
    BY <1>3 DEF OnMessage
  <2> QED  BY <2>1, AnswerKeeps
<1>4. CASE e.type \in {"rejected", "error"}
  <2> DEFINE f == [d EXCEPT !.failed = TRUE]
  <2>1. OnMessage(d, e) = ResolveReliable(Settle(f, e.id), e.id)
    BY <1>4 DEF OnMessage
  <2>2. Forgets(d, f)
    BY <1>0 DEF HasCommands, Forgets
  <2> HIDE DEF f
  <2>3. KeepsPending(f)
    BY <2>2, ForgetsIsSafe
  <2> QED  BY <2>1, <2>3, AnswerKeeps
<1>5. CASE e.type = "left"
  <2>1. OnMessage(d, e) = Bounce([ResetSession(DisconnectSocket(d))
                                     EXCEPT !.clearing = d.cookie \in Guests])
    BY <1>5 DEF OnMessage
  <2> QED  BY <1>0, <2>1, LeftForgets, ForgetsIsSafe
<1>6. CASE e.type \notin {"ack", "state", "accepted", "rejected", "error", "left"}
  <2>1. OnMessage(d, e) = d
    BY <1>6 DEF OnMessage
  <2> QED  BY <2>1
<1> QED  BY <1>1, <1>2, <1>3, <1>4, <1>5, <1>6

LEMMA GuestReadyKeeps ==
    ASSUME KeepsPending(c), NEW i, GuestReady(i)
    PROVE  KeepsPending(c')
<1> DEFINE e    == c.entries[i]
           rest == [c EXCEPT !.entries = RemoveAt(@, i), !.failed = FALSE,
                             !.stored = IF e.fresh THEN NoRoom ELSE @,
                             !.roomCode = e.room,
                             !.shown = IF e.fresh THEN FALSE ELSE @]
           Go(d) == LET f == ConnectSocket(d)
                    IN  IF f.ticket = Idle THEN EnterSend(f, e.room)
                        ELSE [f EXCEPT !.entries = Append(@, [e EXCEPT !.step = "socket"])]
<1>1. ASSUME NEW d, HasCommands(d) PROVE Forgets(d, Go(d))
  <2> DEFINE f == ConnectSocket(d)
  <2>1. Forgets(d, f)
    BY <1>1, ConnectForgets
  <2>2. Go(d) = IF f.ticket = Idle THEN EnterSend(f, e.room)
                ELSE [f EXCEPT !.entries = Append(@, [e EXCEPT !.step = "socket"])]
    OBVIOUS
  <2> HIDE DEF f, Go
  <2>3. Forgets(f, EnterSend(f, e.room))
    BY <2>1, EnterSendForgets DEF Forgets
  <2>4. Forgets(f, [f EXCEPT !.entries = Append(@, [e EXCEPT !.step = "socket"])])
    BY <2>1 DEF HasCommands, Forgets
  <2> QED  BY <2>1, <2>2, <2>3, <2>4, ForgetsIsTransitive
<1>2. Forgets(c, rest)
  BY DEF KeepsPending, HasCommands, Forgets
<1>3. c' = Go(rest) \/ \E g \in Guests : c' = Go([rest EXCEPT !.cookie = g])
  BY DEF GuestReady
<1> HIDE DEF rest, Go
<1>4. CASE c' = Go(rest)
  <2>1. Forgets(rest, Go(rest))
    BY <1>1, <1>2 DEF Forgets
  <2> QED  BY <1>2, <1>4, <2>1, ForgetsIsTransitive, ForgetsIsSafe
<1>5. ASSUME NEW g, c' = Go([rest EXCEPT !.cookie = g]) PROVE KeepsPending(c')
  <2> DEFINE f == [rest EXCEPT !.cookie = g]
  <2>1. Forgets(rest, f)
    BY <1>2 DEF HasCommands, Forgets
  <2>2. c' = Go(f)
    BY <1>5
  <2> HIDE DEF f
  <2>3. Forgets(f, Go(f))
    BY <1>1, <2>1 DEF Forgets
  <2> QED  BY <1>2, <2>1, <2>2, <2>3, ForgetsIsTransitive, ForgetsIsSafe
<1> QED  BY <1>3, <1>4, <1>5

\* A command is given, whatever is pending.
Gives(type) ==
    /\ c' = SendEvent([c EXCEPT !.pending = NextCommand, !.failed = FALSE],
                      [type |-> type, id |-> NextCommand])
    /\ Given # Commands

LEMMA CommandGives ==
    /\ \A type : Command(type) => Gives(type)
    /\ Configure => Gives("act")
BY DEF Command, Configure, Gives

LEMMA CommandKeeps ==
    ASSUME KeepsPending(c), NEW type \in {"act", "leave"}, Gives(type)
    PROVE  KeepsPending(c')
<1> DEFINE m == [type |-> type, id |-> NextCommand]
           d == [c EXCEPT !.pending = NextCommand, !.failed = FALSE]
<1>1. c' = SendEvent(d, m) /\ Given # Commands
  BY DEF Gives
<1>2. m \in Orders /\ m.id = NextCommand
  BY <1>1, NextIsCommand DEF Orders
<1>3. HasCommands(d) /\ d.unresolved = c.unresolved /\ d.pending = NextCommand
  BY DEF KeepsPending, HasCommands
<1> HIDE DEF m, d
<1>4. d.unresolved \in Seq(Orders)
  BY <1>3 DEF KeepsPending
<1> QED  BY <1>1, <1>2, <1>3, <1>4, SendKeeps

\* A handler of the tab.
LEMMA TabKeeps ==
    ASSUME KeepsPending(c), NEW s,
           Visitor \/ Faulty \/ Entering \/ Timers \/ SessionArrives \/ TicketArrives
           \/ TicketRefused \/ ClearGuestArrives \/ Browser(s)
    PROVE  KeepsPending(c')
<1>0. HasCommands(c)
  BY DEF KeepsPending
<1>1. ASSUME NEW r, JoinFromHome(r) PROVE KeepsPending(c')
  <2> DEFINE d == [c EXCEPT !.plain = AtRest]
             e == StartEntry(d, r)
  <2>1. Forgets(c, d)
    BY <1>0 DEF HasCommands, Forgets
  <2>2. c' = EnterRoom(e, r)
    BY <1>1 DEF JoinFromHome
  <2> HIDE DEF d
  <2>4. Forgets(d, e)
    BY <2>1, StartEntryForgets DEF Forgets
  <2>5. Forgets(c, e)
    BY <2>1, <2>4, ForgetsIsTransitive
  <2> HIDE DEF e
  <2>3. Forgets(e, c')
    BY <2>2, <2>5, EnterRoomForgets DEF Forgets
  <2> QED  BY <2>3, <2>5, ForgetsIsTransitive, ForgetsIsSafe
<1>2. CASE CreateFromHome
  <2> DEFINE d == [c EXCEPT !.plain = AtRest]
  <2>1. Forgets(c, d) /\ c' = StartEntry(d, NoRoom)
    BY <1>0, <1>2 DEF CreateFromHome, HasCommands, Forgets
  <2> HIDE DEF d
  <2>2. Forgets(d, c')
    BY <2>1, StartEntryForgets DEF Forgets
  <2> QED  BY <2>1, <2>2, ForgetsIsTransitive, ForgetsIsSafe
<1>3. CASE TypeAlias
  <2> DEFINE e == [c EXCEPT !.alias = TRUE]
  <2>1. Forgets(c, e) /\ c' = AutoJoin(e)
    BY <1>0, <1>3 DEF TypeAlias, HasCommands, Forgets
  <2> HIDE DEF e
  <2>2. Forgets(e, c')
    BY <2>1, AutoJoinForgets DEF Forgets
  <2> QED  BY <2>1, <2>2, ForgetsIsTransitive, ForgetsIsSafe
<1>4. CASE GoHome
  BY <1>0, <1>4, EnterHomeForgets, ForgetsIsSafe DEF GoHome
<1>5. CASE Command("act") \/ Command("leave") \/ Configure
  BY <1>5, CommandGives, CommandKeeps
<1>6. ASSUME NEW t, Lose(t) \/ CloseEvent(t) PROVE KeepsPending(c')
  <2>1. c' = Closed(c, t)
    BY <1>6 DEF Lose, CloseEvent
  <2> QED  BY <1>0, <2>1, ClosedForgets, ForgetsIsSafe
<1>7. CASE TabVisible
  <2> DEFINE d == [c EXCEPT !.plain = @ /\ (Attached(c) \/ c.ticket # Idle)]
  <2>1. Forgets(c, d) /\ c' = ConnectSocket(d)
    BY <1>0, <1>7 DEF TabVisible, HasCommands, Forgets
  <2> HIDE DEF d
  <2>2. Forgets(d, c')
    BY <2>1, ConnectForgets DEF Forgets
  <2> QED  BY <2>1, <2>2, ForgetsIsTransitive, ForgetsIsSafe
<1>8. CASE Reload
  BY <1>8, LoadPageKeeps DEF Reload
<1>9. CASE Entering
  BY <1>9, GuestReadyKeeps DEF Entering
<1>10. ASSUME NEW r, ReconnectTimer(r) PROVE KeepsPending(c')
  <2> DEFINE e == [c EXCEPT !.queue = Append(@, Join(r)),
                            !.timer = IF @ = r THEN NoRoom ELSE @,
                            !.stray = @ \ {r}]
  <2>1. Forgets(c, e) /\ c' = ConnectSocket(e)
    BY <1>0, <1>10 DEF ReconnectTimer, HasCommands, Forgets
  <2> HIDE DEF e
  <2>2. Forgets(e, c')
    BY <2>1, ConnectForgets DEF Forgets
  <2> QED  BY <2>1, <2>2, ForgetsIsTransitive, ForgetsIsSafe
<1>11. CASE SessionArrives
  <2> DEFINE d == [c EXCEPT !.asking = FALSE]
             e == [d EXCEPT !.session = d.cookie]
             f == ConnectSocket(d)
  <2>1. Forgets(c, d)
    BY <1>0 DEF HasCommands, Forgets
  <2>2. c' = IF d.page # Home THEN AutoJoin(e) ELSE ResetSession(f)
    BY <1>11 DEF SessionArrives
  <2> HIDE DEF d
  <2>3. Forgets(d, e) /\ Forgets(d, f)
    BY <2>1, ConnectForgets DEF HasCommands, Forgets
  <2> HIDE DEF e, f
  <2>4. Forgets(e, AutoJoin(e)) /\ Forgets(f, ResetSession(f))
    BY <2>3, AutoJoinForgets, ResetForgets DEF Forgets
  <2>5. Forgets(d, AutoJoin(e)) /\ Forgets(d, ResetSession(f))
    BY <2>3, <2>4, ForgetsIsTransitive
  <2>6. Forgets(c, c')
    BY <2>1, <2>2, <2>5, ForgetsIsTransitive
  <2> QED  BY <2>6, ForgetsIsSafe
<1>12. CASE TicketArrives
  <2>1. PICK t \in Sockets : c' = Released([c EXCEPT !.socket = t,
                             !.link[t] = [NewLink EXCEPT !.browser = "connecting",
                                                         !.user = c.ticket]])
    BY <1>12 DEF TicketArrives
  <2> DEFINE e == [c EXCEPT !.socket = t,
                             !.link[t] = [NewLink EXCEPT !.browser = "connecting",
                                                         !.user = c.ticket]]
  <2>2. Forgets(c, e)
    BY <1>0 DEF HasCommands, Forgets
  <2>3. c' = Released(e)
    BY <2>1
  <2> HIDE DEF e
  <2>4. Forgets(e, c')
    BY <2>2, <2>3, ReleasedForgets DEF Forgets
  <2> QED  BY <2>2, <2>4, ForgetsIsTransitive, ForgetsIsSafe
<1>13. CASE TicketRefused
  <2> DEFINE e == [c EXCEPT !.status = "OFFLINE"]
  <2>1. Forgets(c, e) /\ c' = Released(e)
    BY <1>0, <1>13 DEF TicketRefused, HasCommands, Forgets
  <2> HIDE DEF e
  <2>2. Forgets(e, c')
    BY <2>1, ReleasedForgets DEF Forgets
  <2> QED  BY <2>1, <2>2, ForgetsIsTransitive, ForgetsIsSafe
<1>14. CASE ClearGuestArrives
  <2>1. Forgets(c, c')
    BY <1>0, <1>14 DEF ClearGuestArrives, HasCommands, Forgets
  <2> QED  BY <2>1, ForgetsIsSafe
<1>15. CASE Open(s)
  BY <1>0, <1>15, OpenedForgets, ForgetsIsSafe DEF Open
<1>16. CASE Receive(s)
  <2> DEFINE e == [c EXCEPT !.link[s].down = Tail(@)]
  <2>1. Forgets(c, e) /\ c' = OnMessage(e, Head(c.link[s].down))
    BY <1>0, <1>16 DEF Receive, HasCommands, Forgets
  <2> HIDE DEF e
  <2> QED  BY <2>1, ForgetsIsSafe, MessageKeeps
<1>17. ASSUME NEW i, GuestFails(i) PROVE KeepsPending(c')
  <2>1. Forgets(c, c')
    BY <1>0, <1>17 DEF GuestFails, HasCommands, Forgets
  <2> QED  BY <2>1, ForgetsIsSafe
<1> QED  BY <1>1, <1>2, <1>3, <1>4, <1>5, <1>6, <1>7, <1>8, <1>9, <1>10, <1>11, <1>12,
            <1>13, <1>14, <1>15, <1>16, <1>17 DEF Visitor, Faulty, Timers, Browser

\* The server only touches the pipes.
LEMMA ServerKeeps ==
    ASSUME KeepsPending(c), NEW s \in Sockets, Server(s) \/ SessionEnds(s)
    PROVE  KeepsPending(c')
<1>0. HasCommands(c)
  BY DEF KeepsPending
<1>1. ASSUME NEW evs, NEW r, Answer(s, evs, r) PROVE KeepsPending(c')
  <2>1. Forgets(c, c')
    BY <1>0, <1>1 DEF Answer, HasCommands, Forgets
  <2> QED  BY <2>1, ForgetsIsSafe
<1>2. CASE HandleJoin(s) \/ HandleCreate(s) \/ RefuseCommand(s)
  BY <1>1, <1>2 DEF HandleJoin, HandleCreate, RefuseCommand
<1>3. CASE ReplayOrReject(s)
  BY <1>1, <1>3 DEF ReplayOrReject
<1>4. CASE ApplyAct(s) \/ ApplyLeave(s)
  BY <1>1, <1>4 DEF ApplyAct, ApplyLeave
<1>5. CASE SessionEnds(s)
  <2>1. Forgets(c, c')
    BY <1>0, <1>5 DEF SessionEnds, HasCommands, Forgets
  <2> QED  BY <2>1, ForgetsIsSafe
<1> QED  BY <1>2, <1>3, <1>4, <1>5 DEF Server

\* What is unanswered is kept: the invariant, which the next section needs too.
LEMMA CommandsStay == Spec => []CommandsAreKept
<1>1. Init => CommandsAreKept
  BY LoadPageKeeps DEF Init, CommandsAreKept
<1>2. CommandsAreKept /\ [Next]_vars => CommandsAreKept'
  <2> SUFFICES ASSUME KeepsPending(c), [Next]_vars PROVE KeepsPending(c')
    BY DEF CommandsAreKept
  <2>1. CASE UNCHANGED c
    BY <2>1
  <2>2. ASSUME NEW r, GameStarts(r) PROVE KeepsPending(c')
    BY <2>2, <2>1 DEF GameStarts
  <2>3. ASSUME NEW s, Browser(s) PROVE KeepsPending(c')
    BY <2>3, TabKeeps
  <2>4. ASSUME NEW s \in Sockets, Server(s) \/ SessionEnds(s) PROVE KeepsPending(c')
    BY <2>4, ServerKeeps
  <2>5. CASE Visitor \/ Faulty \/ Entering \/ Timers \/ SessionArrives \/ TicketArrives
             \/ TicketRefused \/ ClearGuestArrives
    BY <2>5, TabKeeps
  <2>6. CASE Next
    BY <2>2, <2>3, <2>4, <2>5, <2>6 DEF Next
  <2> QED  BY <2>1, <2>6 DEF vars
<1> QED  BY <1>1, <1>2, PTL DEF Spec

\* Whatever connections are made and lost in between, what a visitor waits for
\* stays among the commands sent again with the next connection: nothing but
\* the answer takes it out.
THEOREM NeverForgotten == Spec => []PendingIsKept
<1>1. CommandsAreKept => PendingIsKept
  BY DEF CommandsAreKept, KeepsPending, PendingIsKept
<1> QED  BY <1>1, CommandsStay, PTL

-----------------------------------------------------------------------------
(* The elements a sequence keeps (Picked). *)

\* Every rank below the size of a set of numbers is the rank of an element.
LEMMA RanksAreTaken ==
    ASSUME NEW I \in SUBSET Nat, IsFiniteSet(I), NEW k \in 1..Cardinality(I)
    PROVE  \E i \in I : Cardinality({j \in I : j < i}) = k - 1
<1> DEFINE Below(i) == {j \in I : j < i}
           Free == {n \in 0..(Cardinality(I) - 1) : \A i \in I : Cardinality(Below(i)) # n}
<1>0. /\ Cardinality(I) \in Nat /\ Cardinality({}) = 0
      /\ \A S \in SUBSET I : /\ IsFiniteSet(S) /\ Cardinality(S) \in Nat
                             /\ Cardinality(S) <= Cardinality(I)
  BY FS_CardinalityType, FS_Subset, FS_EmptySet
<1>1. ASSUME Free # {} PROVE FALSE
  <2>1. Free \in SUBSET Nat
    BY <1>0
  <2>2. PICK n \in Free : \A m \in Free : n <= m
    BY <1>1, <2>1, MinIsLeast
  <2>3. n \in Nat /\ n < Cardinality(I) /\ \A i \in I : Cardinality(Below(i)) # n
    BY <1>0, <2>2
  <2>4. CASE n = 0
    <3>1. I # {}
      BY <1>0, <2>3
    <3>2. PICK i \in I : \A j \in I : i <= j
      BY <3>1, MinIsLeast
    <3>3. Below(i) = {}
      <4>1. ASSUME NEW j \in I, j < i PROVE FALSE
        <5>1. i \in Nat /\ j \in Nat /\ i <= j
          BY <3>2
        <5> QED  BY <4>1, <5>1
      <4> QED  BY <4>1
    <3> QED  BY <1>0, <2>3, <2>4, <3>3
  <2>5. CASE n # 0
    <3>1. n - 1 \in 0..(Cardinality(I) - 1) /\ ~(n <= n - 1)
      BY <1>0, <2>3, <2>5
    <3>2. n - 1 \notin Free
      BY <2>2, <3>1
    <3>3. PICK i \in I : Cardinality(Below(i)) = n - 1
      BY <3>1, <3>2
    <3> DEFINE upTo == Below(i) \cup {i}
               rest == I \ upTo
    <3>4. Below(i) \in SUBSET I /\ i \notin Below(i) /\ upTo \in SUBSET I
      OBVIOUS
    <3>5. Cardinality(upTo) = n
      <4> DEFINE B == Below(i)
      <4>1. IsFiniteSet(B) /\ i \notin B /\ upTo = B \cup {i} /\ Cardinality(B) = n - 1
        BY <1>0, <3>3, <3>4
      <4> HIDE DEF B
      <4>2. Cardinality(B \cup {i}) = Cardinality(B) + 1
        BY <4>1, FS_AddElement
      <4> QED  BY <2>3, <4>1, <4>2
    <3>6. rest # {} /\ rest \in SUBSET Nat
      <4>1. upTo # I
        BY <2>3, <3>5
      <4> QED  BY <3>4, <4>1
    <3>7. PICK m \in rest : \A j \in rest : m <= j
      BY <3>6, MinIsLeast
    <3>8. m \in I /\ Below(m) = upTo
      <4>1. m \in I /\ ~(m < i) /\ m # i
        BY <3>7
      <4>2. ASSUME NEW j \in I, j < m PROVE j \in upTo
        BY <3>7, <4>1, <4>2
      <4>3. ASSUME NEW j \in upTo PROVE j \in Below(m)
        BY <3>4, <4>1, <4>3
      <4> QED  BY <4>1, <4>2, <4>3
    <3> QED  BY <2>3, <3>5, <3>8
  <2> QED  BY <2>4, <2>5
<1>2. k - 1 \in 0..(Cardinality(I) - 1)
  BY <1>0
<1> QED  BY <1>1, <1>2

\* What Picked takes are elements of the sequence, one for each position.
LEMMA PickedIsPart ==
    ASSUME NEW S, NEW q \in Seq(S), NEW I \in SUBSET (DOMAIN q)
    PROVE  /\ Picked(q, I) \in Seq(S) /\ Len(Picked(q, I)) = Cardinality(I)
           /\ DOMAIN Picked(q, I) = 1..Cardinality(I) /\ Cardinality(I) \in Nat
           /\ IsFiniteSet(I)
           /\ \A k \in 1..Cardinality(I) : \E i \in I : Picked(q, I)[k] = q[i]
<1> DEFINE At(k) == CHOOSE i \in I : Cardinality({j \in I : j < i}) = k - 1
<1>1. /\ DOMAIN q = 1..Len(q) /\ Len(q) \in Nat /\ \A i \in 1..Len(q) : q[i] \in S
  BY LenProperties, ElementOfSeq
<1>2. I \in SUBSET Nat /\ IsFiniteSet(I) /\ Cardinality(I) \in Nat
  <2>1. IsFiniteSet(1..Len(q)) /\ I \in SUBSET (1..Len(q))
    BY <1>1, FS_Interval
  <2>2. IsFiniteSet(I)
    BY <2>1, FS_Subset
  <2> QED  BY <2>1, <2>2, FS_CardinalityType
<1>3. ASSUME NEW k \in 1..Cardinality(I) PROVE At(k) \in I
  BY <1>2, RanksAreTaken
<1>4. Picked(q, I) = [k \in 1..Cardinality(I) |-> q[At(k)]]
  BY DEF Picked
<1> HIDE DEF At
<1>5. Picked(q, I) \in [1..Cardinality(I) -> S]
  BY <1>1, <1>3, <1>4
<1>6. Picked(q, I) \in Seq(S) /\ Len(Picked(q, I)) = Cardinality(I)
  BY <1>2, <1>5, SeqDef, LenProperties
<1> QED  BY <1>2, <1>3, <1>4, <1>6

\* Nothing is lost: something is taken where there is something to take.
LEMMA PickedSome ==
    ASSUME NEW S, NEW q \in Seq(S), NEW I \in SUBSET (DOMAIN q)
    PROVE  Picked(q, I) = <<>> <=> I = {}
<1>1. IsFiniteSet(I) /\ (Cardinality(I) = 0 <=> I = {})
  BY PickedIsPart, FS_EmptySet
<1>2. Picked(q, I) \in Seq(S) /\ Len(Picked(q, I)) = Cardinality(I)
  BY PickedIsPart
<1> QED  BY <1>1, <1>2, EmptySeq

\* The latest join is one of the joins.
LEMMA MaxIsMember ==
    ASSUME NEW n \in Nat, NEW S \in SUBSET (1..n), S # {}
    PROVE  Max(S) \in S
<1> DEFINE T == {n - x : x \in S}
<1>1. T \in SUBSET Nat /\ T # {}
  <2>1. ASSUME NEW x \in S PROVE n - x \in Nat
    <3>1. x \in 1..n
      OBVIOUS
    <3> QED  BY <3>1
  <2> QED  BY <2>1
<1>2. PICK m \in T : \A k \in T : m <= k
  BY <1>1, MinIsLeast
<1>3. PICK x \in S : m = n - x
  BY <1>2
<1>4. \A y \in S : x >= y
  <2> TAKE y \in S
  <2>1. n - y \in T
    OBVIOUS
  <2>2. m <= n - y
    BY <1>2, <2>1
  <2>3. x \in 1..n /\ y \in 1..n
    OBVIOUS
  <2> QED  BY <1>3, <2>2, <2>3
<1> QED  BY <1>4 DEF Max

-----------------------------------------------------------------------------
(* The shown room is the joined one: the invariant.
   One socket at most is the tab's, and a tab that shows a room as connected
   has it open.  All that the tab holds of a room, on the page, in storage, in
   timers, in entries, in the queue and in the pipes, is of one room t, which is
   NoRoom until one is created.  And while a room is shown without a session in
   it something is still under way: the join, or the error that answers it. *)

\* What may be in a pipe, in the queue or among the entries of a tab of room t.
Ids          == Commands \cup {0}
Sendable(t)  == Orders \cup {EntryEvent(t)}
Sends        == Orders \cup {EntryEvent(r) : r \in Rooms \cup {NoRoom}}
Entries(t)   == [room : {t}, step : {"guest", "socket"}, fresh : BOOLEAN]
Errors       == [type : {"error"}, id : Ids]
Events(t)    == [type : {"ack"}, room : {t}] \cup [type : {"state", "left"}]
                \cup [type : {"accepted", "rejected", "error"}, id : Ids]

\* The fields that matter here, and the record that has them.
TabFields == {"late", "plain", "page", "stored", "roomCode", "timer", "stray", "entries",
              "queue", "socket", "ticket", "status", "shown", "failed", "link"}
LinkFields == {"browser", "server", "user", "joined", "up", "down"}
HasLinks(link) == DOMAIN link = Sockets /\ \A s \in Sockets : LinkFields \subseteq DOMAIN link[s]
HasTab(d) == TabFields \subseteq DOMAIN d /\ HasLinks(d.link)

\* Only the socket of the module is connecting or open, and while there is one
\* no other closes and no ticket is asked for; one that connects is untouched.
OneSocket(d) ==
    /\ \A s \in Sockets : d.link[s].browser \in {"connecting", "open"} => s = d.socket
    /\ d.socket # NoSocket =>
          /\ d.socket \in Sockets /\ d.ticket = Idle
          /\ d.link[d.socket].browser \in {"connecting", "open"}
          /\ \A s \in Sockets : d.link[s].browser # "closing"
          /\ d.link[d.socket].browser = "connecting" =>
                /\ ~d.link[d.socket].server /\ d.link[d.socket].joined = NoRoom
                /\ d.link[d.socket].up = <<>> /\ d.link[d.socket].down = <<>>
StatusFits(d) == d.status = "CONNECTED" /\ d.shown => Usable(d, d.socket)

\* Outside of a room only joins of t are sent and only errors come back.
LinkFits(l, t) ==
    /\ l.joined \in {NoRoom, t} /\ l.up \in Seq(Sends)
    /\ l.joined = NoRoom => l.up \in Seq(Sendable(t)) /\ l.down \in Seq(Errors)
    /\ l.joined # NoRoom => l.down \in Seq(Events(t))

\* A room is created once: the create event is an entry, in the queue or in the pipe.
OneCreate(d) ==
    /\ Len(d.entries) <= 1
    /\ d.entries # <<>> => /\ d.queue \in Seq(Orders)
                           /\ d.socket # NoSocket => d.link[d.socket].up \in Seq(Orders)
    /\ d.queue \in Seq(Orders) \/ (d.socket # NoSocket => d.link[d.socket].up \in Seq(Orders))

\* All the tab holds is of room t, or of none.
OneRoom(d, t) ==
    /\ t \in Rooms \cup {NoRoom}
    /\ d.page # Home => d.page = t /\ t # NoRoom
    /\ {d.stored, d.roomCode, d.timer} \subseteq {NoRoom, t} /\ d.stray \subseteq {t} \ {NoRoom}
    /\ d.entries \in Seq(Entries(t)) /\ d.queue \in Seq(Sendable(t))
    /\ d.socket # NoSocket => LinkFits(d.link[d.socket], t)
    /\ t = NoRoom => OneCreate(d)

Busy(d) == \/ Waiting(d) # {} \/ d.queue # <<>>
           \/ d.socket # NoSocket /\ (d.link[d.socket].up # <<>> \/ d.link[d.socket].down # <<>>)

\* Who shows a room without a session in it has something under way.
JoinIsDue(d) ==
    d.shown /\ ~d.failed /\ (d.ticket # Idle \/ (d.socket # NoSocket /\ d.link[d.socket].joined = NoRoom))
        => Busy(d)

-----------------------------------------------------------------------------
(* Field by field. *)

\* What a handler leaves alone, by groups of fields.
SameSession(d, e) == e.late = d.late /\ e.plain = d.plain
SameRooms(d, e) == e.stored = d.stored /\ e.roomCode = d.roomCode /\ e.timer = d.timer /\ e.stray = d.stray
SameStatus(d, e) == e.status = d.status /\ e.shown = d.shown /\ e.failed = d.failed
SameSockets(d, e) == e.socket = d.socket /\ e.ticket = d.ticket /\ e.link = d.link

\* e is d but for the page, the entries and what the session does not use.
Same(d, e) == /\ HasTab(e) /\ SameSession(d, e) /\ SameRooms(d, e) /\ SameStatus(d, e)
              /\ SameSockets(d, e) /\ e.queue = d.queue

\* e is d on another page, which may enter its room.
Browses(d, e) ==
    /\ Same(d, e)
    /\ \/ e.entries = d.entries
       \/ e.page # Home /\ \E x \in Entries(e.page) : e.entries = Append(d.entries, x)

\* The pages and their effects only browse.
LEMMA MountDoes ==
    ASSUME NEW d, HasTab(d), NEW p
    PROVE  Same(d, Mount(d, p)) /\ Mount(d, p).page = p /\ Mount(d, p).entries = d.entries
BY DEF HasTab, TabFields, Same, SameSession, SameRooms, SameStatus, SameSockets, Mount

LEMMA StartEntryDoes ==
    ASSUME NEW d, HasTab(d), NEW r
    PROVE  /\ Same(d, StartEntry(d, r)) /\ StartEntry(d, r).page = d.page
           /\ \E x \in Entries(r) : StartEntry(d, r).entries = Append(d.entries, x)
<1> DEFINE x == [room |-> r, step |-> "guest", fresh |-> r = NoRoom \/ d.stored # r]
<1>1. x \in Entries(r)
  BY DEF Entries
<1>2. StartEntry(d, r) = [d EXCEPT !.entries = Append(@, x)]
  BY DEF StartEntry
<1> HIDE DEF x
<1>3. StartEntry(d, r).entries = Append(d.entries, x)
  BY <1>2 DEF HasTab, TabFields
<1>4. Same(d, StartEntry(d, r)) /\ StartEntry(d, r).page = d.page
  BY <1>2 DEF HasTab, TabFields, Same, SameSession, SameRooms, SameStatus, SameSockets
<1> QED  BY <1>1, <1>3, <1>4

\* One after the other.
LEMMA SameIsTransitive ==
    ASSUME NEW d, NEW e, NEW f, Same(d, e), Same(e, f)
    PROVE  Same(d, f)
BY DEF Same, SameSession, SameRooms, SameStatus, SameSockets

LEMMA AutoJoinDoes ==
    ASSUME NEW d, HasTab(d)
    PROVE  Browses(d, AutoJoin(d)) /\ AutoJoin(d).page = d.page
<1> DEFINE e == [d EXCEPT !.attempted = TRUE]
           f == StartEntry(e, d.page)
<1>1. Same(d, e) /\ e.page = d.page /\ e.entries = d.entries
  BY DEF HasTab, TabFields, Same, SameSession, SameRooms, SameStatus, SameSockets
<1>2. Same(d, d)
  BY DEF Same, SameSession, SameRooms, SameStatus, SameSockets
<1>3. AutoJoin(d) \in {d, e} \/ (d.page # Home /\ AutoJoin(d) = f)
  BY DEF AutoJoin
<1> HIDE DEF e
<1>4. /\ Same(e, f) /\ f.page = e.page
      /\ \E x \in Entries(d.page) : f.entries = Append(e.entries, x)
  BY <1>1, StartEntryDoes DEF Same
<1>5. Same(d, f)
  BY <1>1, <1>4, SameIsTransitive
<1> HIDE DEF f
<1> QED  BY <1>1, <1>2, <1>3, <1>4, <1>5 DEF Browses

LEMMA EnterRoomDoes ==
    ASSUME NEW d, HasTab(d), NEW r
    PROVE  Browses(d, EnterRoom(d, r)) /\ EnterRoom(d, r).page = r
<1> DEFINE e == Mount(d, r)
           f == AutoJoin(e)
<1>1. Same(d, e) /\ e.page = r /\ e.entries = d.entries
  BY MountDoes
<1> HIDE DEF e
<1>2. Browses(e, f) /\ f.page = e.page
  BY <1>1, AutoJoinDoes DEF Same
<1>3. EnterRoom(d, r) = f
  BY DEF EnterRoom, e
<1> HIDE DEF f
<1>4. Same(d, f)
  BY <1>1, <1>2, SameIsTransitive DEF Browses
<1> QED  BY <1>1, <1>2, <1>3, <1>4 DEF Browses

LEMMA FollowDoes ==
    ASSUME NEW d, HasTab(d)
    PROVE  /\ Browses(d, Follow(d))
           /\ Follow(d).page = d.page \/ (d.roomCode # NoRoom /\ Follow(d).page = d.roomCode)
BY EnterRoomDoes, AutoJoinDoes DEF Follow

\* e is d with nothing left of a room but what is under way, and no socket.
Leaves(d, e) ==
    /\ HasTab(e) /\ SameSession(d, e) /\ e.status = d.status /\ e.ticket = d.ticket
    /\ e.stray = d.stray /\ e.entries = d.entries /\ e.queue = d.queue
    /\ e.socket = NoSocket /\ e.timer = NoRoom /\ e.stored = NoRoom /\ e.roomCode = NoRoom
    /\ e.shown = FALSE
    /\ OneSocket(d) => OneSocket(e)

\* Without a socket, what is queued stays.
LEMMA DisconnectDoes ==
    ASSUME NEW d, HasTab(d)
    PROVE  LET e == DisconnectSocket(d)
           IN  /\ HasTab(e) /\ SameSession(d, e) /\ e.status = d.status /\ e.ticket = d.ticket
               /\ e.stray = d.stray /\ e.entries = d.entries /\ e.queue = d.queue
               /\ e.page = d.page /\ e.socket = NoSocket /\ e.timer = NoRoom
               /\ OneSocket(d) => OneSocket(e)
<1> DEFINE f == [d EXCEPT !.timer = NoRoom]
           g == [f EXCEPT !.link[f.socket].browser = IF @ = "none" THEN @ ELSE "closing",
                          !.socket = NoSocket]
           e == DisconnectSocket(d)
<1>1. /\ HasTab(f) /\ SameSession(d, f) /\ f.status = d.status /\ f.ticket = d.ticket
      /\ f.stray = d.stray /\ f.entries = d.entries /\ f.queue = d.queue
      /\ f.page = d.page /\ f.socket = d.socket /\ f.timer = NoRoom /\ f.link = d.link
  BY DEF HasTab, TabFields, SameSession
<1>2. e = IF f.socket = NoSocket THEN f ELSE g
  BY DEF DisconnectSocket
<1> HIDE DEF f, e
<1> DEFINE s == f.socket
           b == IF f.link[s].browser = "none" THEN "none" ELSE "closing"
           link == [f.link EXCEPT ![s] = [f.link[s] EXCEPT !.browser = b]]
<1>3. HasLinks(link) /\ \A u \in Sockets : link[u].browser =
                           IF u = s THEN b ELSE f.link[u].browser
  BY <1>1 DEF HasTab, HasLinks, LinkFields
<1>4. /\ TabFields \subseteq DOMAIN g /\ SameSession(f, g)
      /\ g.status = f.status /\ g.ticket = f.ticket
      /\ g.stray = f.stray /\ g.entries = f.entries /\ g.queue = f.queue
      /\ g.page = f.page /\ g.socket = NoSocket /\ g.timer = NoRoom /\ g.link = link
  BY <1>1 DEF HasTab, TabFields, SameSession
<1> HIDE DEF g, link
<1>5. HasTab(g)
  BY <1>3, <1>4 DEF HasTab
<1>6. OneSocket(d) => OneSocket(f)
  BY <1>1 DEF OneSocket
<1>7. OneSocket(f) => OneSocket(g)
  BY <1>3, <1>4 DEF OneSocket
<1> QED  BY <1>1, <1>2, <1>4, <1>5, <1>6, <1>7 DEF SameSession, e

-----------------------------------------------------------------------------
(* What the handlers of the tab change. *)

\* The store forgets the room.
LEMMA ResetDoes ==
    ASSUME NEW d, HasTab(d)
    PROVE  LET e == ResetSession(d)
           IN  /\ HasTab(e) /\ SameSession(d, e) /\ SameSockets(d, e) /\ e.status = d.status
               /\ e.timer = d.timer /\ e.stray = d.stray /\ e.entries = d.entries
               /\ e.queue = d.queue /\ e.page = d.page
               /\ e.stored = NoRoom /\ e.roomCode = NoRoom /\ e.shown = FALSE
BY DEF HasTab, TabFields, SameSession, SameSockets, ResetSession

\* Closing the socket and resetting the store, in this order.
LEMMA DisconnectAndReset ==
    ASSUME NEW d, HasTab(d)
    PROVE  LET f == ResetSession(DisconnectSocket(d))
           IN  Leaves(d, f) /\ f.page = d.page
<1> DEFINE e == DisconnectSocket(d)
           f == ResetSession(e)
<1>1. /\ HasTab(e) /\ SameSession(d, e) /\ e.status = d.status /\ e.ticket = d.ticket
      /\ e.stray = d.stray /\ e.entries = d.entries /\ e.queue = d.queue
      /\ e.page = d.page /\ e.socket = NoSocket /\ e.timer = NoRoom
      /\ OneSocket(d) => OneSocket(e)
  BY DisconnectDoes
<1> HIDE DEF e
<1>2. /\ HasTab(f) /\ SameSession(e, f) /\ SameSockets(e, f) /\ f.status = e.status
      /\ f.timer = e.timer /\ f.stray = e.stray /\ f.entries = e.entries
      /\ f.queue = e.queue /\ f.page = e.page
      /\ f.stored = NoRoom /\ f.roomCode = NoRoom /\ f.shown = FALSE
  BY <1>1, ResetDoes
<1> HIDE DEF f
<1>3. OneSocket(e) => OneSocket(f)
  BY <1>2 DEF OneSocket, SameSockets
<1>4. Leaves(d, f) /\ f.page = d.page
  BY <1>1, <1>2, <1>3 DEF Leaves, SameSession, SameSockets
<1> QED  BY <1>4 DEF e, f

\* A page change before, a page change after: the tab has left all the same.
LEMMA LeavesOnce ==
    ASSUME NEW d, NEW e, NEW f, Same(d, e), e.entries = d.entries, Leaves(e, f)
    PROVE  Leaves(d, f)
<1>1. OneSocket(d) => OneSocket(e)
  BY DEF Same, SameSockets, OneSocket
<1> QED  BY <1>1 DEF Leaves, Same, SameSession, SameRooms, SameStatus, SameSockets

\* The home page leaves the room.
LEMMA EnterHomeDoes ==
    ASSUME NEW d, HasTab(d)
    PROVE  Leaves(d, EnterHome(d)) /\ EnterHome(d).page = Home
<1> DEFINE e == Mount(d, Home)
           f == ResetSession(DisconnectSocket(e))
<1>1. Same(d, e) /\ e.page = Home /\ e.entries = d.entries
  BY MountDoes
<1>2. EnterHome(d) = f
  BY DEF EnterHome
<1> HIDE DEF e
<1>3. Leaves(e, f) /\ f.page = e.page
  BY <1>1, DisconnectAndReset DEF Same
<1> HIDE DEF f
<1> QED  BY <1>1, <1>2, <1>3, LeavesOnce

\* Leaving twice is leaving.
LEMMA LeavesIsTransitive ==
    ASSUME NEW d, NEW e, NEW f, Leaves(d, e), Leaves(e, f)
    PROVE  Leaves(d, f)
BY DEF Leaves, SameSession

\* The answer to a leave: the tab leaves the room and may go home.
LEMMA LeftDoes ==
    ASSUME NEW d, HasTab(d)
    PROVE  LET e == Bounce([ResetSession(DisconnectSocket(d))
                              EXCEPT !.clearing = d.cookie \in Guests])
           IN  Leaves(d, e) /\ e.page \in {d.page, Home}
<1> DEFINE f == ResetSession(DisconnectSocket(d))
           g == [f EXCEPT !.clearing = d.cookie \in Guests]
           e == Bounce(g)
<1>1. Leaves(d, f) /\ f.page = d.page
  BY DisconnectAndReset
<1> HIDE DEF f
<1>2. Same(f, g) /\ g.entries = f.entries /\ g.page = f.page
  BY <1>1 DEF Leaves, HasTab, TabFields, Same, SameSession, SameRooms, SameStatus, SameSockets
<1> HIDE DEF g
<1>3. Leaves(d, g)
  <2>1. OneSocket(f) => OneSocket(g)
    BY <1>2 DEF Same, SameSockets, OneSocket
  <2> QED  BY <1>1, <1>2, <2>1 DEF Leaves, Same, SameSession, SameRooms, SameStatus, SameSockets
<1>4. e = g \/ e = EnterHome(g)
  BY DEF Bounce
<1> HIDE DEF e
<1>5. Leaves(g, EnterHome(g)) /\ EnterHome(g).page = Home
  BY <1>3, EnterHomeDoes DEF Leaves
<1>6. Leaves(d, e) /\ e.page \in {d.page, Home}
  BY <1>1, <1>2, <1>3, <1>4, <1>5, LeavesIsTransitive
<1> QED  BY <1>6 DEF e, f, g

\* The room, what is queued and what is shown stay as they are.
KeepsRest(d, e) == /\ HasTab(e) /\ SameSession(d, e) /\ SameRooms(d, e)
                   /\ e.page = d.page /\ e.shown = d.shown /\ e.failed = d.failed

\* A ticket is asked for, or nothing happens.
LEMMA ConnectDoes ==
    ASSUME NEW d, HasTab(d)
    PROVE  LET e == ConnectSocket(d)
           IN  /\ KeepsRest(d, e) /\ e.entries = d.entries /\ e.queue = d.queue
               /\ e.socket = d.socket /\ e.link = d.link
               /\ \/ e.status = d.status /\ e.ticket = d.ticket
                  \/ ~Attached(d) /\ d.ticket = Idle /\ e.status = "CONNECTING"
<1> DEFINE f == [d EXCEPT !.status = "CONNECTING", !.ticket = d.cookie]
<1>1. KeepsRest(d, d)
  BY DEF KeepsRest, SameSession, SameRooms
<1>2. /\ KeepsRest(d, f) /\ f.entries = d.entries /\ f.queue = d.queue
      /\ f.socket = d.socket /\ f.link = d.link /\ f.status = "CONNECTING"
  BY DEF HasTab, TabFields, KeepsRest, SameSession, SameRooms
<1>3. ConnectSocket(d) = IF Attached(d) \/ d.ticket # Idle THEN d ELSE f
  BY DEF ConnectSocket
<1> HIDE DEF f
<1> QED  BY <1>1, <1>2, <1>3

\* A ticket is only asked for without a socket.
LEMMA ConnectIsSound ==
    ASSUME NEW d, HasTab(d), OneSocket(d), StatusFits(d)
    PROVE  OneSocket(ConnectSocket(d)) /\ StatusFits(ConnectSocket(d))
<1> DEFINE e == ConnectSocket(d)
<1>1. /\ KeepsRest(d, e) /\ e.socket = d.socket /\ e.link = d.link
      /\ \/ e.status = d.status /\ e.ticket = d.ticket
         \/ ~Attached(d) /\ d.ticket = Idle /\ e.status = "CONNECTING"
  BY ConnectDoes
<1> HIDE DEF e
<1>2. OneSocket(e)
  BY <1>1 DEF OneSocket, Attached
<1>3. StatusFits(e)
  BY <1>1 DEF StatusFits, Usable, KeepsRest
<1> QED  BY <1>2, <1>3 DEF e

\* Only what is sent over socket s changes, to q.
SendsOnly(link, s, q, next) ==
    /\ HasLinks(next)
    /\ \A u \in Sockets :
          /\ next[u].browser = link[u].browser /\ next[u].server = link[u].server
          /\ next[u].joined = link[u].joined /\ next[u].down = link[u].down
          /\ next[u].up = IF u = s THEN q ELSE link[u].up

\* A pipe is written, and nothing else.
LEMMA SendsOnlyThat ==
    ASSUME NEW link, HasLinks(link), NEW s, NEW q
    PROVE  SendsOnly(link, s, q, [link EXCEPT ![s].up = q])
BY DEF HasLinks, LinkFields, SendsOnly

\* e is d when m is sent, or queued.
Sent(d, e, m) ==
    /\ KeepsRest(d, e) /\ e.status = d.status /\ e.entries = d.entries
    /\ e.socket = d.socket /\ e.ticket = d.ticket
    /\ IF Usable(d, d.socket)
       THEN /\ e.queue = d.queue
            /\ SendsOnly(d.link, d.socket, Append(d.link[d.socket].up, m), e.link)
       ELSE e.queue = Append(d.queue, m) /\ e.link = d.link

\* SendEvent sends or queues its message.
LEMMA SendDoes ==
    ASSUME NEW d, HasTab(d), NEW m
    PROVE  Sent(d, SendEvent(d, m), m)
<1> DEFINE f == [d EXCEPT !.unresolved = Append(@, m)]
<1>1. ASSUME NEW g, Same(d, g), g.entries = d.entries, g.page = d.page,
             NEW e, e = IF Usable(g, g.socket) THEN Transmit(g, m)
                        ELSE [g EXCEPT !.queue = Append(@, m)]
      PROVE  Sent(d, e, m)
  <2> DEFINE link == [g.link EXCEPT ![g.socket].up = Append(@, m)]
             a == [g EXCEPT !.link = link]
             b == [g EXCEPT !.queue = Append(@, m)]
  <2>1. SendsOnly(d.link, d.socket, Append(d.link[d.socket].up, m), link)
    <3>1. HasLinks(g.link) /\ g.link = d.link /\ g.socket = d.socket
      BY <1>1 DEF Same, SameSockets, HasTab
    <3> QED  BY <3>1, SendsOnlyThat
  <2>2. Transmit(g, m) = a
    BY DEF Transmit
  <2>3. Usable(g, g.socket) <=> Usable(d, d.socket)
    BY <1>1 DEF Usable, Same, SameSockets
  <2>4. e = IF Usable(d, d.socket) THEN a ELSE b
    BY <1>1, <2>2, <2>3
  <2> HIDE DEF link
  <2>5. /\ TabFields \subseteq DOMAIN a /\ SameSession(d, a) /\ SameRooms(d, a) /\ SameStatus(d, a)
        /\ a.link = link /\ a.socket = d.socket /\ a.ticket = d.ticket
        /\ a.queue = d.queue /\ a.entries = d.entries /\ a.page = d.page
    BY <1>1 DEF HasTab, TabFields, Same, SameSession, SameRooms, SameStatus, SameSockets
  <2>6. /\ TabFields \subseteq DOMAIN b /\ SameSession(d, b) /\ SameRooms(d, b) /\ SameStatus(d, b)
        /\ SameSockets(d, b) /\ b.entries = d.entries /\ b.page = d.page
        /\ b.queue = Append(d.queue, m)
    BY <1>1 DEF HasTab, TabFields, Same, SameSession, SameRooms, SameStatus, SameSockets
  <2>7. HasLinks(d.link) /\ HasLinks(link)
    BY <2>1 DEF HasTab, SendsOnly
  <2> HIDE DEF a, b
  <2>8. CASE Usable(d, d.socket)
    BY <2>1, <2>4, <2>5, <2>7, <2>8 DEF Sent, HasTab, KeepsRest, SameStatus
  <2>9. CASE ~Usable(d, d.socket)
    BY <2>4, <2>6, <2>7, <2>9 DEF Sent, HasTab, KeepsRest, SameStatus, SameSockets
  <2> QED  BY <2>8, <2>9
<1>2. Same(d, d)
  BY DEF Same, SameSession, SameRooms, SameStatus, SameSockets
<1>3. Same(d, f) /\ f.entries = d.entries /\ f.page = d.page
  BY DEF HasTab, TabFields, Same, SameSession, SameRooms, SameStatus, SameSockets
<1>4. SendEvent(d, m) = LET g == IF Reliable(m) THEN f ELSE d
                        IN  IF Usable(g, g.socket) THEN Transmit(g, m)
                            ELSE [g EXCEPT !.queue = Append(@, m)]
  BY DEF SendEvent
<1> HIDE DEF f
<1>5. CASE Reliable(m)
  BY <1>1, <1>3, <1>4, <1>5
<1>6. CASE ~Reliable(m)
  BY <1>1, <1>2, <1>4, <1>6
<1> QED  BY <1>5, <1>6

\* The queue with its join first holds nothing new, and something if it did.
LEMMA JoinFirstIsPart ==
    ASSUME NEW S, NEW q \in Seq(S)
    PROVE  JoinFirst(q) \in Seq(S) /\ (JoinFirst(q) = <<>> <=> q = <<>>)
<1> DEFINE joins == {i \in DOMAIN q : IsJoin(q[i])}
           rest == Picked(q, DOMAIN q \ joins)
           first == <<q[Max(joins)]>>
<1>1. JoinFirst(q) = IF joins = {} THEN q ELSE first \o rest
  BY DEF JoinFirst
<1>2. CASE joins = {}
  BY <1>1, <1>2
<1>3. CASE joins # {}
  <2>1. DOMAIN q = 1..Len(q) /\ Len(q) \in Nat /\ \A i \in 1..Len(q) : q[i] \in S
    BY LenProperties, ElementOfSeq
  <2>2. Max(joins) \in joins
    <3>1. joins \in SUBSET (1..Len(q))
      BY <2>1
    <3> HIDE DEF joins
    <3> QED  BY <1>3, <2>1, <3>1, MaxIsMember
  <2>3. first \in Seq(S) /\ Len(first) = 1
    BY <2>1, <2>2
  <2>4. rest \in Seq(S)
    BY PickedIsPart
  <2> HIDE DEF first, rest
  <2>5. first \o rest \in Seq(S) /\ Len(first \o rest) = 1 + Len(rest) /\ Len(rest) \in Nat
    BY <2>3, <2>4, ConcatProperties, LenProperties
  <2>6. first \o rest # <<>> /\ q # <<>>
    BY <1>3, <2>1, <2>5
  <2> QED  BY <1>1, <1>3, <2>5, <2>6
<1> QED  BY <1>2, <1>3

\* The fields of a link are there whatever happens to its ends.
LEMMA HalfDoes ==
    ASSUME NEW l, LinkFields \subseteq DOMAIN l, NEW browser, NEW server
    PROVE  LinkFields \subseteq DOMAIN Half(l, browser, server) /\ Half(l, browser, server).browser = browser
BY DEF LinkFields, Half, NewLink

\* e is d when its socket s has opened.
WasOpened(d, e, s) ==
    /\ HasTab(e) /\ SameSession(d, e) /\ e.page = d.page /\ e.stored = d.stored
    /\ e.roomCode = d.roomCode /\ e.stray = d.stray /\ e.entries = d.entries
    /\ e.ticket = d.ticket /\ e.shown = d.shown /\ e.failed = d.failed
    /\ e.socket = d.socket /\ e.status = "CONNECTED" /\ e.timer = NoRoom
    /\ d.socket = s =>
          /\ e.queue = <<>>
          /\ \A u \in Sockets \ {s} : e.link[u] = d.link[u]
          /\ e.link[s].browser = "open" /\ e.link[s].joined = d.link[s].joined
          /\ e.link[s].down = d.link[s].down
          /\ e.link[s].up = d.link[s].up \o JoinFirst(d.queue)

\* The opening of a socket empties the queue into it.
LEMMA OpenedDoes ==
    ASSUME NEW d, HasTab(d), NEW s \in Sockets
    PROVE  WasOpened(d, Opened(d, s), s)
<1> DEFINE f == [d EXCEPT !.link[s].browser = "open", !.link[s].server = TRUE,
                          !.connected = TRUE, !.status = "CONNECTED", !.timer = NoRoom]
           l == [d.link[s] EXCEPT !.browser = "open", !.server = TRUE]
           g == [f EXCEPT !.queue = <<>>]
           link == [g.link EXCEPT ![f.socket].up = @ \o JoinFirst(f.queue)]
           h == [g EXCEPT !.link = link]
           e == Opened(d, s)
<1>1. e = IF Usable(f, f.socket) THEN h ELSE g
  BY DEF Opened, FlushQueue
<1>2. LinkFields \subseteq DOMAIN l /\ l.browser = "open" /\ l.up = d.link[s].up
      /\ l.joined = d.link[s].joined /\ l.down = d.link[s].down
  BY DEF HasTab, HasLinks, LinkFields
<1>3. f.link = [d.link EXCEPT ![s] = l]
  BY DEF HasTab, HasLinks, TabFields
<1>4. /\ TabFields \subseteq DOMAIN f /\ SameSession(d, f) /\ f.page = d.page /\ f.stored = d.stored
      /\ f.roomCode = d.roomCode /\ f.stray = d.stray /\ f.entries = d.entries
      /\ f.ticket = d.ticket /\ f.shown = d.shown /\ f.failed = d.failed
      /\ f.socket = d.socket /\ f.status = "CONNECTED" /\ f.timer = NoRoom /\ f.queue = d.queue
  BY DEF HasTab, TabFields, SameSession
<1> HIDE DEF l, f
<1>5. HasLinks(f.link) /\ f.link[s] = l /\ \A u \in Sockets \ {s} : f.link[u] = d.link[u]
  BY <1>2, <1>3 DEF HasTab, HasLinks
<1>6. /\ TabFields \subseteq DOMAIN g /\ SameSession(f, g) /\ SameRooms(f, g) /\ g.page = f.page
      /\ g.entries = f.entries /\ SameStatus(f, g) /\ SameSockets(f, g) /\ g.queue = <<>>
  BY <1>4 DEF TabFields, SameSession, SameRooms, SameStatus, SameSockets
<1> HIDE DEF g
<1>7. SendsOnly(f.link, f.socket, f.link[f.socket].up \o JoinFirst(f.queue), link)
      /\ \A u \in Sockets \ {f.socket} : link[u] = f.link[u]
  <2>1. g.link = f.link /\ HasLinks(f.link)
    BY <1>5, <1>6 DEF SameSockets
  <2> QED  BY <2>1, SendsOnlyThat DEF HasLinks
<1> HIDE DEF link
<1>8. /\ TabFields \subseteq DOMAIN h /\ SameSession(f, h) /\ SameRooms(f, h) /\ h.page = f.page
      /\ h.entries = f.entries /\ SameStatus(f, h) /\ h.ticket = f.ticket
      /\ h.socket = f.socket /\ h.link = link /\ h.queue = <<>>
  BY <1>6 DEF TabFields, SameSession, SameRooms, SameStatus, SameSockets
<1> HIDE DEF h, e
<1>9. HasTab(g) /\ HasTab(h)
  BY <1>5, <1>6, <1>7, <1>8 DEF HasTab, SendsOnly, SameSockets
<1>10. ASSUME d.socket = s
       PROVE  /\ \A u \in Sockets \ {s} : e.link[u] = d.link[u]
              /\ e.link[s].browser = "open" /\ e.link[s].joined = d.link[s].joined
              /\ e.link[s].down = d.link[s].down
              /\ e.link[s].up = d.link[s].up \o JoinFirst(d.queue)
  <2>1. Usable(f, f.socket)
    BY <1>2, <1>4, <1>5, <1>10, Distinct DEF Usable
  <2>2. e.link = link /\ f.socket = s /\ f.link[s] = l /\ f.queue = d.queue
    BY <1>1, <1>4, <1>5, <1>8, <1>10, <2>1
  <2>3. \A u \in Sockets \ {s} : e.link[u] = d.link[u]
    BY <1>5, <1>7, <2>2
  <2>4. /\ e.link[s].browser = l.browser /\ e.link[s].joined = l.joined
        /\ e.link[s].down = l.down /\ e.link[s].up = l.up \o JoinFirst(d.queue)
    BY <1>7, <2>2 DEF SendsOnly
  <2> QED  BY <1>2, <2>3, <2>4
<1>11. /\ HasTab(e) /\ SameSession(d, e) /\ e.page = d.page /\ e.stored = d.stored
       /\ e.roomCode = d.roomCode /\ e.stray = d.stray /\ e.entries = d.entries
       /\ e.ticket = d.ticket /\ e.shown = d.shown /\ e.failed = d.failed
       /\ e.socket = d.socket /\ e.status = "CONNECTED" /\ e.timer = NoRoom /\ e.queue = <<>>
  BY <1>1, <1>4, <1>6, <1>8, <1>9 DEF SameSession, SameRooms, SameStatus, SameSockets
<1>12. WasOpened(d, e, s)
  BY <1>10, <1>11 DEF WasOpened
<1> QED  BY <1>12 DEF e

\* e is d without its socket, when link s has closed.
WasClosed(d, e, s) ==
    /\ HasTab(e) /\ SameSession(d, e) /\ e.page = d.page /\ e.stored = d.stored
    /\ e.roomCode = d.roomCode /\ e.entries = d.entries
    /\ e.ticket = d.ticket /\ e.shown = d.shown /\ e.failed = d.failed
    /\ e.socket = NoSocket /\ e.status # "CONNECTED"
    /\ \E q \in Seq(Orders) : e.queue = d.queue \o q
    /\ e.timer \in {d.timer, d.stored} /\ e.stray \subseteq d.stray \cup ({d.timer} \ {NoRoom})
    /\ e.link[s].browser = "none" /\ \A u \in Sockets \ {s} : e.link[u] = d.link[u]

\* What was unanswered joins the queue when a socket closes.
LEMMA ClosedDoes ==
    ASSUME NEW d, HasTab(d), HasCommands(d), d.unresolved \in Seq(Orders), NEW s \in Sockets
    PROVE  WasClosed(d, Closed(d, s), s)
<1> DEFINE half == Half(d.link[s], "none", d.link[s].server)
           f == [d EXCEPT !.link[s] = half, !.connected = FALSE, !.socket = NoSocket]
           q == Picked(f.unresolved, {i \in DOMAIN f.unresolved : f.unresolved[i] \notin Range(f.queue)})
           g == [f EXCEPT !.queue = f.queue \o q]
           h == [g EXCEPT !.status = "OFFLINE"]
           k == [g EXCEPT !.status = "RECONNECTING", !.timer = d.stored,
                          !.stray = IF d.timer = NoRoom THEN g.stray ELSE g.stray \cup {d.timer}]
           e == Closed(d, s)
<1>1. e = IF d.stored = NoRoom THEN h ELSE k
  BY DEF Closed, QueueReliableForRetry
<1>2. LinkFields \subseteq DOMAIN half /\ half.browser = "none"
  BY HalfDoes DEF HasTab, HasLinks
<1> HIDE DEF half
<1>3. /\ TabFields \subseteq DOMAIN f /\ SameSession(d, f) /\ SameRooms(d, f) /\ f.page = d.page
      /\ f.entries = d.entries /\ SameStatus(d, f) /\ f.ticket = d.ticket /\ f.socket = NoSocket
      /\ f.queue = d.queue /\ f.link = [d.link EXCEPT ![s] = half]
  BY DEF HasTab, TabFields, SameSession, SameRooms, SameStatus
<1>4. f.unresolved = d.unresolved
  BY DEF HasCommands
<1> HIDE DEF f
<1>5. HasTab(f) /\ f.link[s].browser = "none" /\ \A u \in Sockets \ {s} : f.link[u] = d.link[u]
  BY <1>2, <1>3 DEF HasTab, HasLinks
<1>6. q \in Seq(Orders)
  BY <1>4, PickedIsPart
<1> HIDE DEF q
<1>7. /\ HasTab(g) /\ SameSession(f, g) /\ SameRooms(f, g) /\ g.page = f.page
      /\ g.entries = f.entries /\ SameStatus(f, g) /\ SameSockets(f, g) /\ g.queue = f.queue \o q
  BY <1>5 DEF HasTab, TabFields, SameSession, SameRooms, SameStatus, SameSockets
<1> HIDE DEF g
<1>8. /\ HasTab(h) /\ SameSession(g, h) /\ SameRooms(g, h) /\ h.page = g.page
      /\ h.entries = g.entries /\ h.shown = g.shown /\ h.failed = g.failed /\ SameSockets(g, h)
      /\ h.queue = g.queue /\ h.status = "OFFLINE"
  BY <1>7 DEF HasTab, TabFields, SameSession, SameRooms, SameSockets
<1>9. /\ HasTab(k) /\ SameSession(g, k) /\ k.page = g.page /\ k.stored = g.stored
      /\ k.roomCode = g.roomCode /\ k.timer = d.stored
      /\ k.stray = (IF d.timer = NoRoom THEN g.stray ELSE g.stray \cup {d.timer})
      /\ k.entries = g.entries /\ k.shown = g.shown /\ k.failed = g.failed /\ SameSockets(g, k)
      /\ k.queue = g.queue /\ k.status = "RECONNECTING"
  BY <1>7 DEF HasTab, TabFields, SameSession, SameSockets
<1> HIDE DEF h, k, e
<1>10. /\ HasTab(g) /\ SameSession(d, g) /\ SameRooms(d, g) /\ g.page = d.page
       /\ g.entries = d.entries /\ SameStatus(d, g) /\ g.ticket = d.ticket
       /\ g.socket = NoSocket /\ g.queue = d.queue \o q
       /\ g.link[s].browser = "none" /\ \A u \in Sockets \ {s} : g.link[u] = d.link[u]
  BY <1>3, <1>5, <1>7 DEF SameSession, SameRooms, SameStatus, SameSockets
<1>11. /\ HasTab(e) /\ SameSession(g, e) /\ e.page = g.page /\ e.stored = g.stored
       /\ e.roomCode = g.roomCode /\ e.entries = g.entries /\ e.shown = g.shown
       /\ e.failed = g.failed /\ SameSockets(g, e) /\ e.queue = g.queue
       /\ e.status # "CONNECTED" /\ e.timer \in {g.timer, d.stored}
       /\ e.stray \subseteq g.stray \cup ({d.timer} \ {NoRoom})
  BY <1>1, <1>8, <1>9 DEF SameRooms
<1>12. WasClosed(d, e, s)
  BY <1>6, <1>10, <1>11 DEF WasClosed, SameSession, SameRooms, SameStatus, SameSockets
<1> QED  BY <1>12 DEF e

\* The events of those who waited for the ticket.
Late(d) == LET waiters == Picked(d.entries, Waiting(d))
           IN  [i \in DOMAIN waiters |-> EntryEvent(waiters[i].room)]

\* e is d when the ticket is there or refused.
WasReleased(d, e) ==
    /\ HasTab(e) /\ SameSession(d, e) /\ SameRooms(d, e) /\ SameStatus(d, e)
    /\ e.page = d.page /\ e.socket = d.socket /\ e.ticket = Idle
    /\ e.entries = Picked(d.entries, DOMAIN d.entries \ Waiting(d))
    /\ ~Usable(d, d.socket) => e.link = d.link /\ e.queue = d.queue \o Late(d)

\* Who waited for the ticket sends or queues.
LEMMA ReleasedDoes ==
    ASSUME NEW d, HasTab(d)
    PROVE  WasReleased(d, Released(d))
<1> DEFINE f == [d EXCEPT !.ticket = Idle,
                          !.entries = Picked(@, DOMAIN @ \ Waiting(d))]
           link == [f.link EXCEPT ![f.socket].up = @ \o Late(d)]
           g == [f EXCEPT !.link = link]
           h == [f EXCEPT !.queue = @ \o Late(d)]
           e == Released(d)
<1>1. e = IF Usable(f, f.socket) THEN g ELSE h
  BY DEF Released, Late
<1>2. /\ TabFields \subseteq DOMAIN f /\ SameSession(d, f) /\ SameRooms(d, f) /\ SameStatus(d, f)
      /\ f.page = d.page /\ f.socket = d.socket /\ f.ticket = Idle /\ f.link = d.link
      /\ f.queue = d.queue /\ f.entries = Picked(d.entries, DOMAIN d.entries \ Waiting(d))
  BY DEF HasTab, TabFields, SameSession, SameRooms, SameStatus
<1> HIDE DEF f
<1>3. SendsOnly(d.link, d.socket, d.link[d.socket].up \o Late(d), link)
  <2>1. HasLinks(f.link) /\ f.link = d.link /\ f.socket = d.socket
    BY <1>2 DEF HasTab
  <2> QED  BY <2>1, SendsOnlyThat
<1> HIDE DEF link
<1>4. /\ TabFields \subseteq DOMAIN g /\ SameSession(f, g) /\ SameRooms(f, g) /\ SameStatus(f, g)
      /\ g.page = f.page /\ g.socket = f.socket /\ g.ticket = f.ticket /\ g.link = link
      /\ g.entries = f.entries
  BY <1>2 DEF TabFields, SameSession, SameRooms, SameStatus
<1>5. /\ TabFields \subseteq DOMAIN h /\ SameSession(f, h) /\ SameRooms(f, h) /\ SameStatus(f, h)
      /\ h.page = f.page /\ SameSockets(f, h)
      /\ h.entries = f.entries /\ h.queue = f.queue \o Late(d)
  BY <1>2 DEF TabFields, SameSession, SameRooms, SameStatus, SameSockets
<1>6. HasLinks(link) /\ HasLinks(d.link) /\ (Usable(f, f.socket) <=> Usable(d, d.socket))
  BY <1>2, <1>3 DEF SendsOnly, HasTab, Usable
<1> HIDE DEF g, h, e
<1>7. CASE Usable(d, d.socket)
  <2>1. WasReleased(d, e)
    BY <1>1, <1>2, <1>4, <1>6, <1>7
       DEF WasReleased, HasTab, SameSession, SameRooms, SameStatus
  <2> QED  BY <2>1 DEF e
<1>8. CASE ~Usable(d, d.socket)
  <2>1. WasReleased(d, e)
    BY <1>1, <1>2, <1>5, <1>6, <1>8
       DEF WasReleased, HasTab, SameSession, SameRooms, SameStatus, SameSockets
  <2> QED  BY <2>1 DEF e
<1> QED  BY <1>7, <1>8

\* Nobody is lost: who waited has an event, who did not is still an entry.
LEMMA ReleasedParts ==
    ASSUME NEW t, NEW d, d.entries \in Seq(Entries(t)),
           NEW rest, rest = Picked(d.entries, DOMAIN d.entries \ Waiting(d))
    PROVE  /\ rest \in Seq(Entries(t)) /\ Late(d) \in Seq({EntryEvent(t)})
           /\ Waiting(d) # {} => Late(d) # <<>>
           /\ Len(d.entries) <= 1 => Len(rest) <= 1 /\ (rest = <<>> \/ Late(d) = <<>>)
           /\ d.entries = <<>> => rest = <<>> /\ Late(d) = <<>>
<1> DEFINE q == d.entries
           W == Waiting(d)
           waiters == Picked(q, W)
           C == Cardinality(DOMAIN q)
<1>1. W \in SUBSET (DOMAIN q) /\ DOMAIN q = 1..Len(q) /\ Len(q) \in Nat
  BY LenProperties DEF Waiting
<1> HIDE DEF W
<1>2. /\ waiters \in Seq(Entries(t)) /\ Len(waiters) = Cardinality(W) /\ DOMAIN waiters = 1..Cardinality(W)
      /\ Cardinality(W) \in Nat /\ (waiters = <<>> <=> W = {})
  BY <1>1, PickedIsPart, PickedSome
<1>3. /\ rest \in Seq(Entries(t)) /\ Len(rest) = Cardinality(DOMAIN q \ W)
      /\ rest = <<>> <=> DOMAIN q \ W = {}
  <2>1. DOMAIN q \ W \in SUBSET (DOMAIN q) /\ rest = Picked(q, DOMAIN q \ W)
    BY DEF W
  <2> QED  BY <2>1, PickedIsPart, PickedSome
<1>4. IsFiniteSet(DOMAIN q) /\ Cardinality(DOMAIN q) = Len(q)
  BY <1>1, FS_Interval
<1>5. Cardinality(DOMAIN q \ W) <= Len(q)
  <2>1. DOMAIN q \ W \in SUBSET (DOMAIN q)
    OBVIOUS
  <2> QED  BY <1>4, <2>1, FS_Subset
<1>6. \A i \in DOMAIN waiters : waiters[i].room = t
  <2>1. \A i \in 1..Len(waiters) : waiters[i] \in Entries(t)
    BY <1>2, ElementOfSeq
  <2> QED  BY <1>2, <2>1 DEF Entries
<1>7. Late(d) = [i \in DOMAIN waiters |-> EntryEvent(waiters[i].room)]
  BY DEF Late, W
<1> HIDE DEF waiters
<1>8. Late(d) \in [1..Cardinality(W) -> {EntryEvent(t)}]
  BY <1>2, <1>6, <1>7
<1>9. Late(d) \in Seq({EntryEvent(t)}) /\ Len(Late(d)) = Cardinality(W)
  BY <1>2, <1>8, SeqDef, LenProperties
<1>10. Late(d) = <<>> <=> W = {}
  BY <1>2, <1>9, EmptySeq
<1>11. q # <<>> => DOMAIN q # {}
  BY <1>1, EmptySeq
<1>12. q = <<>> => DOMAIN q = {}
  BY <1>1
<1>13. Len(q) <= 1 => W = {} \/ DOMAIN q \ W = {}
  <2>1. Len(q) <= 1 => DOMAIN q \subseteq {1}
    BY <1>1
  <2> QED  BY <1>1, <2>1
<1> HIDE DEF q
<1>14. Len(rest) <= Len(q)
  BY <1>3, <1>5
<1>15. Len(rest) \in Nat
  BY <1>3, LenProperties
<1>16. Waiting(d) # {} => Late(d) # <<>>
  BY <1>10 DEF W
<1> QED  BY <1>1, <1>3, <1>9, <1>10, <1>11, <1>12, <1>13, <1>14, <1>15, <1>16 DEF q

\* A page that was loaded in one of the places a tab can be in.
Loaded(d, e, p) ==
    /\ HasTab(e) /\ SameSession(d, e) /\ e.page = p /\ OneSocket(e)
    /\ e.socket = NoSocket /\ e.ticket = Idle /\ e.shown = FALSE
    /\ e.queue = <<>> /\ e.timer = NoRoom /\ e.stray = {}
    /\ {e.stored, e.roomCode} \subseteq {d.stored, NoRoom}
    /\ e.entries = <<>> \/ (p # Home /\ \E x \in Entries(p) : e.entries = <<x>>)

\* A page that is loaded has no socket, no queue and no timer.
LEMMA LoadPageDoes ==
    ASSUME NEW d, NEW p, HasLinks(d.link)
    PROVE  Loaded(d, LoadPage(d, p), p)
<1> DEFINE link == [s \in Sockets |-> Half(d.link[s], "none", d.link[s].server)]
           e == [account |-> d.account, late |-> d.late, plain |-> d.plain, page |-> p,
              asking |-> TRUE, session |-> NoUser, attempted |-> FALSE,
              alias |-> FALSE, stored |-> d.stored, cookie |-> d.cookie, clearing |-> FALSE,
              roomCode |-> d.stored, shown |-> FALSE, connected |-> FALSE,
              status |-> "OFFLINE", failed |-> FALSE, pending |-> 0, queue |-> <<>>,
              unresolved |-> <<>>, socket |-> NoSocket, ticket |-> Idle, timer |-> NoRoom,
              stray |-> {}, entries |-> <<>>, link |-> link]
           f == LoadPage(d, p)
<1>1. HasLinks(link) /\ \A s \in Sockets : link[s].browser = "none"
  BY HalfDoes DEF HasLinks
<1>2. f = IF p = Home THEN EnterHome(e) ELSE EnterRoom(e, p)
  BY DEF LoadPage
<1> HIDE DEF link
<1>3. /\ HasTab(e) /\ SameSession(d, e) /\ e.page = p
      /\ e.socket = NoSocket /\ e.ticket = Idle /\ e.shown = FALSE
      /\ e.queue = <<>> /\ e.timer = NoRoom /\ e.stray = {} /\ e.link = link
      /\ e.stored = d.stored /\ e.roomCode = d.stored /\ e.entries = <<>>
  BY <1>1 DEF HasTab, TabFields, SameSession
<1> HIDE DEF e, f
<1>4. OneSocket(e)
  BY <1>1, <1>3 DEF OneSocket
<1>5. CASE p = Home
  <2>1. Leaves(e, f) /\ f.page = Home
    BY <1>2, <1>3, <1>5, EnterHomeDoes
  <2>2. Loaded(d, f, p)
    BY <1>3, <1>4, <1>5, <2>1 DEF Loaded, Leaves, SameSession
  <2> QED  BY <2>2 DEF f
<1>6. CASE p # Home
  <2>1. Browses(e, f) /\ f.page = p
    BY <1>2, <1>3, <1>6, EnterRoomDoes
  <2>2. OneSocket(f)
    BY <1>4, <2>1 DEF OneSocket, Browses, Same, SameSockets
  <2>3. f.entries = <<>> \/ \E x \in Entries(p) : f.entries = <<x>>
    <3>1. f.entries = <<>> \/ \E x \in Entries(p) : f.entries = Append(<<>>, x)
      BY <1>3, <2>1 DEF Browses
    <3>2. \A x : Append(<<>>, x) = <<x>>
      OBVIOUS
    <3> QED  BY <3>1, <3>2
  <2>4. Loaded(d, f, p)
    BY <1>3, <1>6, <2>1, <2>2, <2>3
       DEF Loaded, Browses, Same, SameSession, SameRooms, SameStatus, SameSockets
  <2> QED  BY <2>4 DEF f
<1> QED  BY <1>5, <1>6

-----------------------------------------------------------------------------
(* The steps of the tab keep the invariant. *)

\* The invariant of the tab.
Sound(d) ==
    /\ HasTab(d)
    /\ ~d.late => /\ OneSocket(d) /\ StatusFits(d)
                  /\ d.plain => JoinIsDue(d) /\ \E t : OneRoom(d, t)

\* Something that was appended is there.
LEMMA AppendIsSome ==
    ASSUME NEW S, NEW q \in Seq(S), NEW x
    PROVE  Append(q, x) # <<>>
<1>1. q \in Seq(S \cup {x})
  BY SeqMonotonic
<1>2. Append(q, x) \in Seq(S \cup {x}) /\ Len(Append(q, x)) = Len(q) + 1 /\ Len(q) \in Nat
  BY <1>1, AppendProperties, LenProperties
<1> QED  BY <1>2, EmptySeq

\* Commands may be sent in any room.
LEMMA OrdersAreSent ==
    ASSUME NEW t \in Rooms \cup {NoRoom}
    PROVE  /\ Orders \subseteq Sendable(t) /\ Sendable(t) \subseteq Sends
           /\ Seq(Orders) \subseteq Seq(Sendable(t)) /\ Seq(Sendable(t)) \subseteq Seq(Sends)
<1>1. Orders \subseteq Sendable(t) /\ Sendable(t) \subseteq Sends
  BY DEF Sendable, Sends
<1> HIDE DEF Orders, Sendable, Sends
<1> QED  BY <1>1, SeqMonotonic

\* The page and the entries change; the page only to the room of the tab.
LEMMA BrowseIsSound ==
    ASSUME NEW d, NEW e, Sound(d), Browses(d, e),
           e.page \in {d.page, Home} \/ (e.page = d.roomCode /\ d.roomCode # NoRoom)
    PROVE  Sound(e)
<1>1. HasTab(e) /\ e.late = d.late /\ e.plain = d.plain
  BY DEF Browses, Same, SameSession
<1>2. ASSUME ~d.late PROVE OneSocket(e) /\ StatusFits(e)
  BY <1>2 DEF Sound, Browses, Same, SameSockets, SameStatus, OneSocket, StatusFits, Usable
<1>3. ASSUME ~d.late, d.plain PROVE JoinIsDue(e) /\ \E t : OneRoom(e, t)
  <2>1. JoinIsDue(d)
    BY <1>3 DEF Sound
  <2>2. PICK t : OneRoom(d, t)
    BY <1>3 DEF Sound
  <2>3. e.page # Home => e.page = t /\ t # NoRoom
    BY <2>2 DEF OneRoom
  <2>4. CASE e.entries = d.entries
    <3>1. JoinIsDue(e)
      BY <2>1, <2>4 DEF Browses, Same, SameSockets, SameStatus, JoinIsDue, Busy, Waiting
    <3>2. OneRoom(e, t)
      BY <2>2, <2>3, <2>4 DEF Browses, Same, SameSockets, SameRooms, OneRoom, OneCreate
    <3> QED  BY <3>1, <3>2
  <2>5. CASE e.entries # d.entries
    <3>1. PICK x \in Entries(t) : e.entries = Append(d.entries, x)
      BY <2>3, <2>5 DEF Browses
    <3>2. d.entries \in Seq(Entries(t)) /\ t # NoRoom
      BY <2>2, <2>3, <2>5 DEF OneRoom, Browses
    <3>3. e.entries \in Seq(Entries(t)) /\ e.entries # <<>>
      BY <3>1, <3>2, AppendProperties, AppendIsSome
    <3>4. JoinIsDue(e)
      <4>1. Waiting(d) \subseteq Waiting(e)
        <5>1. /\ Len(e.entries) = Len(d.entries) + 1 /\ Len(d.entries) \in Nat
              /\ \A i \in 1..Len(d.entries) : e.entries[i] = d.entries[i]
              /\ DOMAIN d.entries = 1..Len(d.entries) /\ DOMAIN e.entries = 1..Len(e.entries)
          BY <3>1, <3>2, <3>3, AppendProperties, LenProperties
        <5> QED  BY <5>1 DEF Waiting
      <4> QED  BY <2>1, <4>1 DEF Browses, Same, SameSockets, SameStatus, JoinIsDue, Busy
    <3>5. OneRoom(e, t)
      BY <2>2, <2>3, <3>2, <3>3 DEF Browses, Same, SameSockets, SameRooms, OneRoom
    <3> QED  BY <3>4, <3>5
  <2> QED  BY <2>4, <2>5
<1> QED  BY <1>1, <1>2, <1>3 DEF Sound

\* A tab that leaves its room shows none.
LEMMA LeavesIsSound ==
    ASSUME NEW d, NEW e, Leaves(d, e), e.page \in {d.page, Home},
           ~d.late => OneSocket(d), ~d.late /\ d.plain => \E t : OneRoom(d, t)
    PROVE  Sound(e)
<1>1. HasTab(e) /\ e.late = d.late /\ e.plain = d.plain /\ StatusFits(e) /\ JoinIsDue(e)
  BY DEF Leaves, SameSession, StatusFits, JoinIsDue
<1>2. ~d.late => OneSocket(e)
  BY DEF Leaves
<1>3. ASSUME ~d.late, d.plain PROVE \E t : OneRoom(e, t)
  <2>1. PICK t : OneRoom(d, t)
    BY <1>3
  <2>2. OneRoom(e, t)
    BY <2>1 DEF Leaves, OneRoom, OneCreate
  <2> QED  BY <2>2
<1> QED  BY <1>1, <1>2, <1>3 DEF Sound

\* A page that is loaded shows nothing yet.
LEMMA LoadedIsSound ==
    ASSUME NEW d, NEW e, NEW p, Loaded(d, e, p),
           ~d.late /\ d.plain =>
             \E t \in Rooms \cup {NoRoom} : (p # Home => p = t /\ t # NoRoom) /\ d.stored \in {NoRoom, t}
    PROVE  Sound(e)
<1>1. HasTab(e) /\ e.late = d.late /\ e.plain = d.plain /\ StatusFits(e) /\ JoinIsDue(e)
      /\ OneSocket(e)
  BY DEF Loaded, SameSession, StatusFits, JoinIsDue
<1>2. ASSUME ~d.late, d.plain PROVE \E t : OneRoom(e, t)
  <2>1. PICK t \in Rooms \cup {NoRoom} : (p # Home => p = t /\ t # NoRoom) /\ d.stored \in {NoRoom, t}
    BY <1>2
  <2>2. e.entries \in Seq(Entries(t)) /\ Len(e.entries) <= 1
    <3>1. CASE e.entries = <<>>
      BY <3>1
    <3>2. CASE e.entries # <<>>
      <4>1. PICK x \in Entries(t) : e.entries = <<x>>
        BY <2>1, <3>2 DEF Loaded
      <4> QED  BY <4>1
    <3> QED  BY <3>1, <3>2
  <2>3. \A S : <<>> \in Seq(S)
    OBVIOUS
  <2>4. OneRoom(e, t)
    BY <2>1, <2>2, <2>3 DEF Loaded, OneRoom, OneCreate
  <2> QED  BY <2>4
<1> QED  BY <1>1, <1>2 DEF Sound

\* A message of the room goes out, or into the queue.
LEMMA SentFits ==
    ASSUME NEW d, NEW e, NEW t, NEW m \in Sendable(t), OneSocket(d), OneRoom(d, t), Sent(d, e, m),
           t = NoRoom /\ m \notin Orders =>
              /\ d.entries = <<>> /\ d.queue \in Seq(Orders)
              /\ d.socket # NoSocket => d.link[d.socket].up \in Seq(Orders)
    PROVE  OneSocket(e) /\ OneRoom(e, t) /\ Busy(e)
<1> DEFINE s == d.socket
<1>1. /\ t \in Rooms \cup {NoRoom} /\ m \in Sends /\ d.queue \in Seq(Sendable(t))
      /\ s # NoSocket => LinkFits(d.link[s], t) /\ s \in Sockets
  BY OrdersAreSent DEF OneRoom, OneSocket
<1>2. /\ e.socket = s /\ e.page = d.page /\ e.stored = d.stored /\ e.roomCode = d.roomCode
      /\ e.timer = d.timer /\ e.stray = d.stray /\ e.entries = d.entries /\ e.ticket = d.ticket
  BY DEF Sent, KeepsRest, SameRooms
<1>3. CASE Usable(d, s)
  <2> DEFINE l == d.link[s]
             k == e.link[s]
  <2>1. s # NoSocket /\ s \in Sockets /\ l.browser = "open" /\ LinkFits(l, t)
    BY <1>1, <1>3 DEF Usable
  <2>2. e.queue = d.queue /\ SendsOnly(d.link, s, Append(l.up, m), e.link)
    BY <1>3 DEF Sent
  <2>3. k.browser = l.browser /\ k.joined = l.joined /\ k.down = l.down /\ k.up = Append(l.up, m)
    BY <2>1, <2>2 DEF SendsOnly
  <2>4. OneSocket(e)
    BY <1>2, <2>1, <2>2 DEF OneSocket, SendsOnly
  <2>5. l.up \in Seq(Sends) /\ k.up \in Seq(Sends) /\ k.up # <<>>
    BY <1>1, <2>1, <2>3, AppendProperties, AppendIsSome DEF LinkFits
  <2>6. l.up \in Seq(Sendable(t)) => k.up \in Seq(Sendable(t))
    BY <2>3, AppendProperties
  <2>7. m \in Orders /\ l.up \in Seq(Orders) => k.up \in Seq(Orders)
    BY <2>3, AppendProperties
  <2>8. LinkFits(k, t)
    BY <2>1, <2>3, <2>5, <2>6 DEF LinkFits
  <2> HIDE DEF l, k, s
  <2>9. t = NoRoom => OneCreate(e)
    <3>1. ASSUME t = NoRoom, m \in Orders PROVE OneCreate(e)
      BY <1>2, <2>1, <2>2, <2>7, <3>1 DEF OneCreate, OneRoom, s, l, k
    <3>2. ASSUME t = NoRoom, m \notin Orders PROVE OneCreate(e)
      BY <1>2, <2>1, <2>2, <3>2 DEF OneCreate, OneRoom, s, l, k
    <3> QED  BY <3>1, <3>2
  <2>10. OneRoom(e, t)
    BY <1>2, <2>2, <2>8, <2>9 DEF OneRoom, s, k
  <2> QED  BY <1>2, <2>1, <2>4, <2>5, <2>10 DEF Busy, k
<1>4. CASE ~Usable(d, s)
  <2>1. e.queue = Append(d.queue, m) /\ e.link = d.link
    BY <1>4 DEF Sent
  <2>2. e.queue \in Seq(Sendable(t)) /\ e.queue # <<>>
    BY <1>1, <2>1, AppendProperties, AppendIsSome
  <2>3. m \in Orders /\ d.queue \in Seq(Orders) => e.queue \in Seq(Orders)
    BY <2>1, AppendProperties
  <2>4. OneSocket(e)
    BY <1>2, <2>1 DEF OneSocket
  <2>5. t = NoRoom => OneCreate(e)
    <3>1. ASSUME t = NoRoom, m \in Orders PROVE OneCreate(e)
      BY <1>2, <2>1, <2>3, <3>1 DEF OneCreate, OneRoom
    <3>2. ASSUME t = NoRoom, m \notin Orders PROVE OneCreate(e)
      BY <1>2, <2>1, <3>2 DEF OneCreate, OneRoom
    <3> QED  BY <3>1, <3>2
  <2>6. OneRoom(e, t)
    BY <1>2, <2>1, <2>2, <2>5 DEF OneRoom
  <2> QED  BY <2>2, <2>4, <2>6 DEF Busy
<1> QED  BY <1>3, <1>4

\* A message changes no socket.
LEMMA SentIsSound ==
    ASSUME NEW d, NEW e, NEW m, OneSocket(d), StatusFits(d), Sent(d, e, m)
    PROVE  OneSocket(e) /\ StatusFits(e)
<1>1. e.socket = d.socket /\ e.ticket = d.ticket /\ e.status = d.status /\ e.shown = d.shown
  BY DEF Sent, KeepsRest
<1>2. CASE Usable(d, d.socket)
  <2>1. SendsOnly(d.link, d.socket, Append(d.link[d.socket].up, m), e.link)
    BY <1>2 DEF Sent
  <2>2. d.socket # NoSocket /\ d.link[d.socket].browser = "open" /\ d.socket \in Sockets
    BY <1>2 DEF Usable, OneSocket
  <2>3. OneSocket(e)
    BY <1>1, <2>1, <2>2 DEF OneSocket, SendsOnly
  <2>4. StatusFits(e)
    BY <1>1, <2>1, <2>2 DEF StatusFits, Usable, SendsOnly
  <2> QED  BY <2>3, <2>4
<1>3. CASE ~Usable(d, d.socket)
  <2>1. e.link = d.link
    BY <1>3 DEF Sent
  <2> QED  BY <1>1, <2>1 DEF OneSocket, StatusFits, Usable
<1> QED  BY <1>2, <1>3

\* A command is given: it goes out, or waits for the next connection.
LEMMA CommandIsSound ==
    ASSUME Sound(c), NEW type \in {"act", "leave"}, Gives(type)
    PROVE  Sound(c')
<1> DEFINE m == [type |-> type, id |-> NextCommand]
           d == [c EXCEPT !.pending = NextCommand, !.failed = FALSE]
<1>1. c' = SendEvent(d, m) /\ Given # Commands
  BY DEF Gives
<1>2. m \in Orders
  BY <1>1, NextIsCommand DEF Orders
<1>3. /\ HasTab(d) /\ SameSession(c, d) /\ SameRooms(c, d) /\ SameSockets(c, d)
      /\ d.page = c.page /\ d.status = c.status /\ d.shown = c.shown
      /\ d.entries = c.entries /\ d.queue = c.queue
  BY DEF Sound, HasTab, TabFields, SameSession, SameRooms, SameSockets
<1> HIDE DEF m, d
<1>4. Sent(d, c', m)
  BY <1>1, <1>3, SendDoes
<1>5. HasTab(c') /\ c'.late = c.late /\ c'.plain = c.plain
  BY <1>3, <1>4 DEF Sent, KeepsRest, SameSession
<1>6. ASSUME ~c.late PROVE OneSocket(c') /\ StatusFits(c')
  <2>1. OneSocket(d) /\ StatusFits(d)
    BY <1>3, <1>6 DEF Sound, OneSocket, StatusFits, Usable, SameSockets
  <2> QED  BY <1>4, <2>1, SentIsSound
<1>7. ASSUME ~c.late, c.plain PROVE JoinIsDue(c') /\ \E t : OneRoom(c', t)
  <2>1. PICK t : OneRoom(c, t)
    BY <1>7 DEF Sound
  <2>2. OneRoom(d, t) /\ OneSocket(d)
    BY <1>3, <1>7, <2>1 DEF Sound, OneRoom, OneCreate, OneSocket, SameRooms, SameSockets
  <2>3. m \in Sendable(t)
    BY <1>2 DEF Sendable
  <2>4. OneRoom(c', t) /\ Busy(c')
    BY <1>2, <1>4, <2>2, <2>3, SentFits
  <2> QED  BY <2>4 DEF JoinIsDue
<1> QED  BY <1>5, <1>6, <1>7 DEF Sound

\* A room is entered from the home page: at rest, it is the room of the tab from
\* now on, and the entry is on its way.
LEMMA EntryIsSound ==
    ASSUME Sound(c), NEW r \in Rooms \cup {NoRoom}, NEW d, NEW e,
           HasTab(e), d.late = c.late, d.plain = AtRest, SameRooms(c, d), SameStatus(c, d),
           SameSockets(c, d), d.queue = c.queue, d.entries = c.entries,
           SameSession(d, e), SameRooms(d, e), SameStatus(d, e), SameSockets(d, e),
           e.queue = d.queue, e.page # Home => e.page = r /\ r # NoRoom,
           NEW x \in Entries(r), \/ e.entries = Append(d.entries, x)
                                 \/ r # NoRoom /\ \E y \in Entries(r) :
                                       e.entries = Append(Append(d.entries, x), y)
    PROVE  Sound(e)
<1>1. e.late = c.late /\ e.plain = AtRest
  BY DEF SameSession
<1>2. ASSUME ~c.late PROVE OneSocket(e) /\ StatusFits(e)
  BY <1>2 DEF Sound, OneSocket, StatusFits, Usable, SameSockets, SameStatus
<1>3. ASSUME ~c.late, AtRest PROVE JoinIsDue(e) /\ OneRoom(e, r)
  <2>1. e.queue = <<>> /\ d.entries = <<>>
    BY <1>3 DEF AtRest
  <2>2. d.entries \in Seq(Entries(r))
    BY <2>1
  <2>3. Append(d.entries, x) \in Seq(Entries(r)) /\ Append(d.entries, x) # <<>>
        /\ Len(Append(d.entries, x)) = 1
    BY <2>1, <2>2, AppendProperties, AppendIsSome
  <2>4. /\ e.entries \in Seq(Entries(r)) /\ e.entries # <<>>
        /\ r = NoRoom => Len(e.entries) = 1
    <3> DEFINE q == Append(d.entries, x)
    <3>1. e.entries = q \/ (r # NoRoom /\ \E y \in Entries(r) : e.entries = Append(q, y))
      OBVIOUS
    <3>2. q \in Seq(Entries(r)) /\ q # <<>> /\ Len(q) = 1
      BY <2>3
    <3> HIDE DEF q
    <3>3. CASE e.entries = q
      BY <3>2, <3>3
    <3>4. CASE e.entries # q
      <4>1. PICK y \in Entries(r) : e.entries = Append(q, y)
        BY <3>1, <3>4
      <4>2. Append(q, y) \in Seq(Entries(r)) /\ Append(q, y) # <<>>
        BY <3>2, AppendProperties, AppendIsSome
      <4> QED  BY <3>1, <3>4, <4>1, <4>2
    <3> QED  BY <3>3, <3>4
  <2>5. e.socket # NoSocket => /\ e.link[e.socket].up = <<>> /\ e.link[e.socket].down = <<>>
                               /\ e.link[e.socket].joined = NoRoom
    BY <1>3 DEF AtRest, SameSockets
  <2>6. \A S : <<>> \in Seq(S)
    OBVIOUS
  <2>7. e.socket # NoSocket => LinkFits(e.link[e.socket], r)
    BY <2>5, <2>6 DEF LinkFits
  <2>8. r = NoRoom => OneCreate(e)
    <3>1. e.queue \in Seq(Orders)
      BY <2>1, <2>6
    <3>2. e.socket # NoSocket => e.link[e.socket].up \in Seq(Orders)
      BY <2>5, <2>6
    <3>3. r = NoRoom => Len(e.entries) <= 1
      BY <2>4
    <3> QED  BY <3>1, <3>2, <3>3, Zenon DEF OneCreate
  <2>9. e.stored = NoRoom /\ e.roomCode = NoRoom /\ e.timer = NoRoom /\ e.stray = {}
    BY <1>3 DEF AtRest, SameRooms
  <2>10. OneRoom(e, r)
    BY <2>1, <2>4, <2>6, <2>7, <2>8, <2>9 DEF OneRoom
  <2>11. ~e.shown
    BY <1>3 DEF AtRest, SameStatus
  <2> QED  BY <2>10, <2>11 DEF JoinIsDue
<1> QED  BY <1>1, <1>2, <1>3 DEF Sound

\* Home, with a code: at rest the tab becomes one of that room.
LEMMA JoinFromHomeIsSound ==
    ASSUME Sound(c), NEW r \in Rooms, JoinFromHome(r)
    PROVE  Sound(c')
<1> DEFINE d == [c EXCEPT !.plain = AtRest]
           e == StartEntry(d, r)
<1>1. c' = EnterRoom(e, r)
  BY DEF JoinFromHome
<1>2. /\ HasTab(d) /\ d.late = c.late /\ d.plain = AtRest /\ SameRooms(c, d) /\ SameStatus(c, d)
      /\ SameSockets(c, d) /\ d.queue = c.queue /\ d.entries = c.entries
  BY DEF Sound, HasTab, TabFields, SameRooms, SameStatus, SameSockets
<1> HIDE DEF d
<1>3. Same(d, e) /\ \E x \in Entries(r) : e.entries = Append(d.entries, x)
  BY <1>2, StartEntryDoes
<1>4. PICK x \in Entries(r) : e.entries = Append(d.entries, x)
  BY <1>3
<1> HIDE DEF e
<1>5. Browses(e, c') /\ c'.page = r
  BY <1>1, <1>3, EnterRoomDoes DEF Same
<1>6. Same(d, c')
  BY <1>3, <1>5, SameIsTransitive DEF Browses
<1>7. r # NoRoom /\ r \in Rooms \cup {NoRoom}
  BY Distinct
<1>8. \/ c'.entries = Append(d.entries, x)
      \/ \E y \in Entries(r) : c'.entries = Append(Append(d.entries, x), y)
  BY <1>4, <1>5 DEF Browses
<1> QED  BY <1>2, <1>5, <1>6, <1>7, <1>8, EntryIsSound DEF Same

\* Home, for a new room: at rest the tab has none yet.
LEMMA CreateFromHomeIsSound ==
    ASSUME Sound(c), CreateFromHome
    PROVE  Sound(c')
<1> DEFINE d == [c EXCEPT !.plain = AtRest]
<1>1. c' = StartEntry(d, NoRoom) /\ c.page = Home
  BY DEF CreateFromHome
<1>2. /\ HasTab(d) /\ d.late = c.late /\ d.plain = AtRest /\ SameRooms(c, d) /\ SameStatus(c, d)
      /\ SameSockets(c, d) /\ d.queue = c.queue /\ d.entries = c.entries /\ d.page = c.page
  BY DEF Sound, HasTab, TabFields, SameRooms, SameStatus, SameSockets
<1> HIDE DEF d
<1>3. /\ Same(d, c') /\ c'.page = d.page
      /\ \E x \in Entries(NoRoom) : c'.entries = Append(d.entries, x)
  BY <1>1, <1>2, StartEntryDoes
<1>4. PICK x \in Entries(NoRoom) : c'.entries = Append(d.entries, x)
  BY <1>3
<1> QED  BY <1>1, <1>2, <1>3, <1>4, EntryIsSound DEF Same

\* Nothing of the session changes.
LEMMA SameIsSound ==
    ASSUME NEW d, NEW e, Sound(d), Same(d, e), e.page = d.page, e.entries = d.entries
    PROVE  Sound(e)
BY BrowseIsSound DEF Browses

\* The alias lets GameRoom join its room.
LEMMA TypeAliasIsSound ==
    ASSUME Sound(c), TypeAlias
    PROVE  Sound(c')
<1> DEFINE e == [c EXCEPT !.alias = TRUE]
<1>1. c' = AutoJoin(e)
  BY DEF TypeAlias
<1>2. Same(c, e) /\ e.page = c.page /\ e.entries = c.entries
  BY DEF Sound, HasTab, TabFields, Same, SameSession, SameRooms, SameStatus, SameSockets
<1> HIDE DEF e
<1>3. Sound(e)
  BY <1>2, SameIsSound
<1>4. Browses(e, c') /\ c'.page = e.page
  BY <1>1, <1>3, AutoJoinDoes DEF Sound
<1> QED  BY <1>3, <1>4, BrowseIsSound

\* Home shows no room.
LEMMA GoHomeIsSound ==
    ASSUME Sound(c), GoHome
    PROVE  Sound(c')
<1>1. Leaves(c, c') /\ c'.page = Home
  BY EnterHomeDoes DEF Sound, GoHome
<1> QED  BY <1>1, LeavesIsSound DEF Sound

\* The guest's cookie is not part of the invariant.
LEMMA ClearGuestIsSound ==
    ASSUME Sound(c), ClearGuestArrives
    PROVE  Sound(c')
<1>1. c' = [c EXCEPT !.clearing = FALSE, !.cookie = NoUser]
  BY DEF ClearGuestArrives
<1>2. Same(c, c') /\ c'.page = c.page /\ c'.entries = c.entries
  BY <1>1 DEF Sound, HasTab, TabFields, Same, SameSession, SameRooms, SameStatus, SameSockets
<1> QED  BY <1>2, SameIsSound

\* After a reload nothing is shown and one room at most is stored.
LEMMA ReloadIsSound ==
    ASSUME Sound(c), Reload
    PROVE  Sound(c')
<1>1. Loaded(c, c', c.page)
  BY LoadPageDoes DEF Sound, HasTab, Reload
<1>2. ASSUME ~c.late, c.plain
      PROVE  \E t \in Rooms \cup {NoRoom} : (c.page # Home => c.page = t /\ t # NoRoom) /\ c.stored \in {NoRoom, t}
  <2>1. PICK t : OneRoom(c, t)
    BY <1>2 DEF Sound
  <2> QED  BY <2>1 DEF OneRoom
<1> QED  BY <1>1, <1>2, LoadedIsSound

\* What a connection that is asked for changes of a tab.
LEMMA ConnectFits ==
    ASSUME NEW d, HasTab(d), NEW t, OneRoom(d, t)
    PROVE  OneRoom(ConnectSocket(d), t)
<1> DEFINE e == ConnectSocket(d)
<1>1. /\ KeepsRest(d, e) /\ e.entries = d.entries /\ e.queue = d.queue
      /\ e.socket = d.socket /\ e.link = d.link
  BY ConnectDoes
<1> HIDE DEF e
<1>2. OneRoom(e, t)
  BY <1>1 DEF OneRoom, OneCreate, KeepsRest, SameRooms
<1> QED  BY <1>2 DEF e

\* A return to the tab asks for a connection without a join, which ends c.plain,
\* or finds one on its way.
LEMMA TabVisibleIsSound ==
    ASSUME Sound(c), TabVisible
    PROVE  Sound(c')
<1> DEFINE d == [c EXCEPT !.plain = @ /\ (Attached(c) \/ c.ticket # Idle)]
           asked == Attached(c) \/ c.ticket # Idle
<1>1. c' = ConnectSocket(d)
  BY DEF TabVisible
<1>2. /\ HasTab(d) /\ d.late = c.late /\ (d.plain <=> c.plain /\ asked)
      /\ SameRooms(c, d) /\ SameStatus(c, d)
      /\ SameSockets(c, d) /\ d.queue = c.queue /\ d.entries = c.entries /\ d.page = c.page
  BY DEF Sound, HasTab, TabFields, SameRooms, SameStatus, SameSockets
<1> HIDE DEF d
<1>3. /\ KeepsRest(d, c') /\ c'.entries = d.entries /\ c'.queue = d.queue
      /\ c'.socket = d.socket /\ c'.link = d.link
  BY <1>1, <1>2, ConnectDoes
<1>4. ASSUME ~c.late PROVE OneSocket(c') /\ StatusFits(c')
  <2>1. OneSocket(d) /\ StatusFits(d)
    BY <1>2, <1>4 DEF Sound, OneSocket, StatusFits, Usable, SameSockets, SameStatus
  <2> QED  BY <1>1, <1>2, <2>1, ConnectIsSound
<1>5. ASSUME ~c.late, c.plain, asked PROVE JoinIsDue(c') /\ \E t : OneRoom(c', t)
  <2>1. c' = d
    BY <1>1, <1>2, <1>5 DEF ConnectSocket, Attached, SameSockets
  <2>2. JoinIsDue(c) /\ \E t : OneRoom(c, t)
    BY <1>5 DEF Sound
  <2>3. JoinIsDue(d)
    BY <1>2, <2>2 DEF JoinIsDue, Busy, SameStatus, SameSockets, Waiting
  <2>4. \E t : OneRoom(d, t)
    BY <1>2, <2>2 DEF OneRoom, OneCreate, SameRooms, SameSockets
  <2> QED  BY <2>1, <2>3, <2>4
<1> QED  BY <1>2, <1>3, <1>4, <1>5 DEF Sound, KeepsRest, SameSession

\* The timer queues the join and connects.
LEMMA ReconnectIsSound ==
    ASSUME Sound(c), NEW r \in Rooms, ReconnectTimer(r)
    PROVE  Sound(c')
<1> DEFINE d == [c EXCEPT !.queue = Append(@, Join(r)),
                          !.timer = IF @ = r THEN NoRoom ELSE @,
                          !.stray = @ \ {r}]
<1>1. c' = ConnectSocket(d) /\ r \in {c.timer} \cup c.stray
  BY DEF ReconnectTimer
<1>2. /\ HasTab(d) /\ SameSession(c, d) /\ SameStatus(c, d) /\ SameSockets(c, d)
      /\ d.queue = Append(c.queue, Join(r)) /\ d.entries = c.entries /\ d.page = c.page
      /\ d.stored = c.stored /\ d.roomCode = c.roomCode
      /\ d.timer \in {NoRoom, c.timer} /\ d.stray \subseteq c.stray
  BY DEF Sound, HasTab, TabFields, SameSession, SameStatus, SameSockets
<1> HIDE DEF d
<1>3. /\ KeepsRest(d, c') /\ c'.entries = d.entries /\ c'.queue = d.queue
      /\ c'.socket = d.socket /\ c'.link = d.link
  BY <1>1, <1>2, ConnectDoes
<1>4. ASSUME ~c.late PROVE OneSocket(c') /\ StatusFits(c')
  <2>1. OneSocket(d) /\ StatusFits(d)
    BY <1>2, <1>4 DEF Sound, OneSocket, StatusFits, Usable, SameSockets, SameStatus
  <2> QED  BY <1>1, <1>2, <2>1, ConnectIsSound
<1>5. ASSUME ~c.late, c.plain PROVE JoinIsDue(c') /\ \E t : OneRoom(c', t)
  <2>1. PICK t : OneRoom(c, t)
    BY <1>5 DEF Sound
  <2>2. r = t /\ t # NoRoom
    BY <1>1, <2>1, Distinct DEF OneRoom
  <2>3. Join(r) \in Sendable(t)
    BY <2>2 DEF Sendable, EntryEvent
  <2>4. d.queue \in Seq(Sendable(t)) /\ d.queue # <<>>
    BY <1>2, <2>1, <2>3, AppendProperties, AppendIsSome DEF OneRoom
  <2>5. OneRoom(d, t)
    BY <1>2, <2>1, <2>2, <2>4 DEF OneRoom, SameSockets
  <2>6. OneRoom(c', t)
    BY <1>1, <1>2, <2>5, ConnectFits
  <2>7. JoinIsDue(c')
    BY <1>3, <2>4 DEF JoinIsDue, Busy, Waiting
  <2> QED  BY <2>6, <2>7
<1> QED  BY <1>2, <1>3, <1>4, <1>5 DEF Sound, KeepsRest, SameSession

\* Home connects and forgets, a room page may join.
LEMMA SessionArrivesIsSound ==
    ASSUME Sound(c), SessionArrives
    PROVE  Sound(c')
<1> DEFINE d == [c EXCEPT !.asking = FALSE]
           e == [d EXCEPT !.session = d.cookie]
           f == ConnectSocket(d)
<1>1. c' = IF d.page # Home THEN AutoJoin(e) ELSE ResetSession(f)
  BY DEF SessionArrives
<1>2. Same(c, d) /\ d.page = c.page /\ d.entries = c.entries
  BY DEF Sound, HasTab, TabFields, Same, SameSession, SameRooms, SameStatus, SameSockets
<1> HIDE DEF d
<1>3. Sound(d)
  BY <1>2, SameIsSound
<1>4. Same(d, e) /\ e.page = d.page /\ e.entries = d.entries
  BY <1>3 DEF Sound, HasTab, TabFields, Same, SameSession, SameRooms, SameStatus, SameSockets
<1> HIDE DEF e
<1>5. Sound(e)
  BY <1>3, <1>4, SameIsSound
<1>6. CASE d.page # Home
  <2>1. Browses(e, c') /\ c'.page = e.page
    BY <1>1, <1>5, <1>6, AutoJoinDoes DEF Sound
  <2> QED  BY <1>5, <2>1, BrowseIsSound
<1>7. CASE d.page = Home
  <2>1. /\ KeepsRest(d, f) /\ f.entries = d.entries /\ f.queue = d.queue
        /\ f.socket = d.socket /\ f.link = d.link
    BY <1>3, ConnectDoes DEF Sound
  <2>2. ~d.late => OneSocket(f)
    BY <1>3, ConnectIsSound DEF Sound
  <2>3. ASSUME NEW t, OneRoom(d, t) PROVE OneRoom(f, t)
    BY <1>3, <2>3, ConnectFits DEF Sound
  <2> HIDE DEF f
  <2>4. /\ HasTab(c') /\ SameSession(f, c') /\ SameSockets(f, c')
        /\ c'.timer = f.timer /\ c'.stray = f.stray /\ c'.entries = f.entries
        /\ c'.queue = f.queue /\ c'.page = f.page
        /\ c'.stored = NoRoom /\ c'.roomCode = NoRoom /\ c'.shown = FALSE
    BY <1>1, <1>7, <2>1, ResetDoes DEF KeepsRest
  <2>5. StatusFits(c') /\ JoinIsDue(c')
    BY <2>4 DEF StatusFits, JoinIsDue
  <2>6. ~d.late => OneSocket(c')
    BY <2>2, <2>4 DEF OneSocket, SameSockets
  <2>7. ASSUME NEW t, OneRoom(f, t) PROVE OneRoom(c', t)
    BY <2>4, <2>7 DEF OneRoom, OneCreate, SameSockets
  <2> QED  BY <1>3, <2>1, <2>3, <2>4, <2>5, <2>6, <2>7 DEF Sound, KeepsRest, SameSession
<1> QED  BY <1>6, <1>7

\* The guest is there: the entry goes on, and is on its way as a message, in the
\* queue, or as one that waits for the ticket.
LEMMA GuestReadyIsSound ==
    ASSUME Sound(c), NEW i \in DOMAIN c.entries, GuestReady(i)
    PROVE  Sound(c')
<1> DEFINE e    == c.entries[i]
           rest == [c EXCEPT !.entries = RemoveAt(@, i), !.failed = FALSE,
                             !.stored = IF e.fresh THEN NoRoom ELSE @,
                             !.roomCode = e.room,
                             !.shown = IF e.fresh THEN FALSE ELSE @]
           w    == [e EXCEPT !.step = "socket"]
           m    == EntryEvent(e.room)
           Go(d) == LET f == ConnectSocket(d)
                    IN  IF f.ticket = Idle THEN EnterSend(f, e.room)
                        ELSE [f EXCEPT !.entries = Append(@, w)]
           On(d) == /\ HasTab(d) /\ SameSession(c, d) /\ SameSockets(c, d) /\ d.page = c.page
                    /\ d.timer = c.timer /\ d.stray = c.stray /\ d.queue = c.queue
                    /\ d.entries = RemoveAt(c.entries, i) /\ d.status = c.status
                    /\ d.stored \in {c.stored, NoRoom} /\ d.roomCode = e.room
                    /\ d.shown => c.shown
<1>1. \E d : On(d) /\ c' = Go(d)
  <2>1. On(rest)
    BY DEF Sound, HasTab, TabFields, SameSession, SameSockets
  <2>2. c' = Go(rest) \/ \E g : c' = Go([rest EXCEPT !.cookie = g])
    BY DEF GuestReady
  <2> HIDE DEF rest, Go
  <2>3. \A g : On([rest EXCEPT !.cookie = g])
    <3> TAKE g
    <3> QED  BY <2>1 DEF HasTab, TabFields, SameSession, SameSockets
  <2> HIDE DEF On
  <2> QED  BY <2>1, <2>2, <2>3
<1>2. PICK d : On(d) /\ c' = Go(d)
  BY <1>1
<1> DEFINE f == ConnectSocket(d)
<1>3. /\ KeepsRest(d, f) /\ f.entries = d.entries /\ f.queue = d.queue
      /\ f.socket = d.socket /\ f.link = d.link
  BY <1>2, ConnectDoes
<1>4. ~c.late => OneSocket(f) /\ StatusFits(f)
  <2>1. ~c.late => OneSocket(d) /\ StatusFits(d)
    BY <1>2 DEF Sound, OneSocket, StatusFits, Usable, SameSockets
  <2> QED  BY <1>2, <2>1, ConnectIsSound
<1>5. c' = IF f.ticket = Idle THEN SendEvent(f, m) ELSE [f EXCEPT !.entries = Append(@, w)]
  BY <1>2 DEF EnterSend
<1>6. /\ f.late = c.late /\ f.plain = c.plain /\ f.page = c.page /\ f.timer = c.timer
      /\ f.stray = c.stray /\ f.queue = c.queue /\ f.socket = c.socket /\ f.link = c.link
      /\ f.entries = RemoveAt(c.entries, i)
      /\ f.stored \in {c.stored, NoRoom} /\ f.roomCode = e.room
  BY <1>2, <1>3 DEF KeepsRest, SameSession, SameRooms, SameSockets
<1> HIDE DEF rest, f, On, Go, w, m
<1>7. ASSUME NEW t, OneRoom(c, t)
      PROVE  /\ t \in Rooms \cup {NoRoom} /\ e.room = t /\ m = EntryEvent(t) /\ w \in Entries(t)
             /\ f.entries \in Seq(Entries(t)) /\ OneRoom(f, t)
             /\ t = NoRoom => /\ f.entries = <<>> /\ f.queue \in Seq(Orders)
                              /\ f.socket # NoSocket => f.link[f.socket].up \in Seq(Orders)
  <2>1. /\ c.entries \in Seq(Entries(t)) /\ t \in Rooms \cup {NoRoom}
        /\ t = NoRoom => OneCreate(c)
    BY <1>7 DEF OneRoom
  <2>2. i \in 1..Len(c.entries) /\ Len(c.entries) \in Nat /\ c.entries # <<>>
    BY <2>1, LenProperties
  <2>3. e \in Entries(t) /\ e.room = t
    <3>1. e \in Entries(t)
      BY <2>1, <2>2, ElementOfSeq
    <3> QED  BY <3>1 DEF Entries
  <2>4. w \in Entries(t) /\ m = EntryEvent(t)
    BY <2>3 DEF Entries, w, m
  <2>5. f.entries \in Seq(Entries(t)) /\ Len(f.entries) = Len(c.entries) - 1
    BY <1>6, <2>1, <2>2, RemoveAtShifts
  <2>6. ASSUME t = NoRoom
        PROVE  /\ f.entries = <<>> /\ f.queue \in Seq(Orders) /\ OneCreate(f)
               /\ f.socket # NoSocket => f.link[f.socket].up \in Seq(Orders)
    <3>1. OneCreate(c)
      BY <2>1, <2>6
    <3>2. Len(f.entries) = 0
      <4>1. Len(c.entries) <= 1
        BY <3>1 DEF OneCreate
      <4>2. \A n \in Nat : n <= 1 /\ i \in 1..n => n - 1 = 0
        OBVIOUS
      <4> QED  BY <2>2, <2>5, <4>1, <4>2, Zenon
    <3>3. f.entries = <<>>
      BY <2>5, <3>2, EmptySeq
    <3>4. /\ f.queue \in Seq(Orders)
          /\ f.socket # NoSocket => f.link[f.socket].up \in Seq(Orders)
      BY <1>6, <2>2, <3>1 DEF OneCreate
    <3> QED  BY <3>2, <3>3, <3>4 DEF OneCreate
  <2>7. OneRoom(f, t)
    BY <1>6, <1>7, <2>3, <2>5, <2>6 DEF OneRoom
  <2> QED  BY <2>1, <2>3, <2>4, <2>5, <2>6, <2>7
<1>8. CASE f.ticket = Idle
  <2>1. Sent(f, c', m)
    BY <1>3, <1>5, <1>8, SendDoes DEF KeepsRest
  <2>2. HasTab(c') /\ c'.late = c.late /\ c'.plain = c.plain
    BY <1>6, <2>1 DEF Sent, KeepsRest, SameSession
  <2>3. ~c.late => OneSocket(c') /\ StatusFits(c')
    BY <1>4, <2>1, SentIsSound
  <2>4. ASSUME ~c.late, c.plain PROVE JoinIsDue(c') /\ \E t : OneRoom(c', t)
    <3>1. PICK t : OneRoom(c, t)
      BY <2>4 DEF Sound
    <3>2. m \in Sendable(t)
      BY <1>7, <3>1 DEF Sendable
    <3>3. OneRoom(c', t) /\ Busy(c')
      BY <1>4, <1>7, <2>1, <2>4, <3>1, <3>2, SentFits
    <3> QED  BY <3>3 DEF JoinIsDue
  <2> QED  BY <2>2, <2>3, <2>4 DEF Sound
<1>9. CASE f.ticket # Idle
  <2>1. c' = [f EXCEPT !.entries = Append(@, w)]
    BY <1>5, <1>9
  <2>2. Same(f, c') /\ c'.page = f.page /\ c'.entries = Append(f.entries, w)
    BY <1>3, <2>1 DEF KeepsRest, HasTab, TabFields, Same, SameSession, SameRooms, SameStatus, SameSockets
  <2>3. HasTab(c') /\ c'.late = c.late /\ c'.plain = c.plain
    BY <1>6, <2>2 DEF Same, SameSession
  <2>4. ~c.late => OneSocket(c') /\ StatusFits(c')
    BY <1>4, <2>2 DEF OneSocket, StatusFits, Usable, Same, SameStatus, SameSockets
  <2>5. ASSUME ~c.late, c.plain PROVE JoinIsDue(c') /\ \E t : OneRoom(c', t)
    <3>1. PICK t : OneRoom(c, t)
      BY <2>5 DEF Sound
    <3>2. /\ w \in Entries(t) /\ f.entries \in Seq(Entries(t)) /\ OneRoom(f, t)
          /\ t = NoRoom => /\ f.entries = <<>> /\ f.queue \in Seq(Orders)
                           /\ f.socket # NoSocket => f.link[f.socket].up \in Seq(Orders)
      BY <1>7, <3>1
    <3>3. /\ c'.entries \in Seq(Entries(t)) /\ c'.entries # <<>>
          /\ Len(c'.entries) = Len(f.entries) + 1
      BY <2>2, <3>2, AppendProperties, AppendIsSome
    <3>4. t = NoRoom => OneCreate(c')
      BY <2>2, <3>2, <3>3 DEF OneCreate, Same, SameSockets
    <3>5. OneRoom(c', t)
      BY <2>2, <3>2, <3>3, <3>4 DEF OneRoom, Same, SameRooms, SameSockets
    <3>6. Waiting(c') # {}
      <4>1. /\ Len(f.entries) + 1 \in DOMAIN c'.entries
            /\ c'.entries[Len(f.entries) + 1] = w
        BY <2>2, <3>2, <3>3, AppendProperties, LenProperties
      <4>2. w.step = "socket"
        <5>1. c.entries \in Seq(Entries(t)) /\ i \in 1..Len(c.entries)
          BY <3>1, LenProperties DEF OneRoom
        <5>2. e \in Entries(t)
          BY <5>1, ElementOfSeq
        <5> QED  BY <5>2 DEF w, Entries
      <4> QED  BY <4>1, <4>2 DEF Waiting
    <3> QED  BY <3>5, <3>6 DEF JoinIsDue, Busy
  <2> QED  BY <2>3, <2>4, <2>5 DEF Sound
<1> QED  BY <1>8, <1>9

\* An entry that has sent nothing yet is given up: whatever is under way still is.
LEMMA GuestFailsIsSound ==
    ASSUME Sound(c), NEW i \in DOMAIN c.entries, GuestFails(i)
    PROVE  Sound(c')
<1>1. /\ c.entries[i].step = "guest" /\ c'.entries = RemoveAt(c.entries, i)
      /\ HasTab(c') /\ c'.page = c.page /\ c'.queue = c.queue
      /\ SameSession(c, c') /\ SameRooms(c, c') /\ SameStatus(c, c') /\ SameSockets(c, c')
  BY DEF GuestFails, Sound, HasTab, TabFields, SameSession, SameRooms, SameStatus, SameSockets
<1>2. ~c.late => OneSocket(c') /\ StatusFits(c')
  BY <1>1 DEF Sound, OneSocket, StatusFits, Usable, SameStatus, SameSockets
<1>3. ASSUME ~c.late, c.plain PROVE JoinIsDue(c') /\ \E t : OneRoom(c', t)
  <2>1. PICK t : OneRoom(c, t)
    BY <1>3 DEF Sound
  <2>2. c.entries \in Seq(Entries(t)) /\ (t = NoRoom => OneCreate(c))
    BY <2>1 DEF OneRoom
  <2>3. i \in 1..Len(c.entries) /\ Len(c.entries) \in Nat /\ DOMAIN c.entries = 1..Len(c.entries)
    BY <2>2, LenProperties
  <2>4. /\ c'.entries \in Seq(Entries(t)) /\ Len(c'.entries) = Len(c.entries) - 1
        /\ \A k \in 1..(Len(c.entries) - 1) :
              c'.entries[k] = IF k < i THEN c.entries[k] ELSE c.entries[k + 1]
    BY <1>1, <2>2, <2>3, RemoveAtShifts
  <2>5. ASSUME NEW k \in Waiting(c) PROVE Waiting(c') # {}
    <3>1. DOMAIN c'.entries = 1..(Len(c.entries) - 1)
      BY <2>4, LenProperties
    <3>2. k # i /\ k \in 1..Len(c.entries) /\ c.entries[k].step = "socket"
      BY <1>1, <2>3 DEF Waiting
    <3>3. CASE k < i
      <4>1. k \in 1..(Len(c.entries) - 1)
        BY <2>3, <3>2, <3>3
      <4> QED  BY <2>4, <3>1, <3>2, <3>3, <4>1 DEF Waiting
    <3>4. CASE k > i
      <4>1. k - 1 \in 1..(Len(c.entries) - 1) /\ ~(k - 1 < i) /\ (k - 1) + 1 = k
        BY <2>3, <3>2, <3>4
      <4> QED  BY <2>4, <3>1, <3>2, <4>1 DEF Waiting
    <3> QED  BY <2>3, <3>2, <3>3, <3>4
  <2>6. JoinIsDue(c')
    BY <1>1, <1>3, <2>5 DEF Sound, JoinIsDue, Busy, SameStatus, SameSockets
  <2>7. t = NoRoom => OneCreate(c')
    <3>1. ASSUME t = NoRoom PROVE OneCreate(c')
      <4>1. Len(c.entries) <= 1
        BY <2>2, <3>1 DEF OneCreate
      <4>2. \A n \in Nat : n <= 1 /\ i \in 1..n => n - 1 = 0
        OBVIOUS
      <4>3. Len(c'.entries) = 0
        BY <2>3, <2>4, <4>1, <4>2, Zenon
      <4>4. c'.entries = <<>>
        BY <2>4, <4>3, EmptySeq
      <4> QED  BY <1>1, <2>2, <3>1, <4>3, <4>4 DEF OneCreate, SameSockets
    <3> QED  BY <3>1
  <2>8. OneRoom(c', t)
    BY <1>1, <2>1, <2>4, <2>7 DEF OneRoom, SameRooms, SameSockets
  <2> QED  BY <2>6, <2>8
<1> QED  BY <1>1, <1>2, <1>3 DEF Sound, SameSession

\* Two sequences after each other hold the elements of both.
LEMMA ConcatIsSome ==
    ASSUME NEW S, NEW q \in Seq(S), NEW p \in Seq(S)
    PROVE  q \o p \in Seq(S) /\ (q \o p = <<>> <=> q = <<>> /\ p = <<>>)
<1>1. q \o p \in Seq(S) /\ Len(q \o p) = Len(q) + Len(p) /\ Len(q) \in Nat /\ Len(p) \in Nat
  BY ConcatProperties, LenProperties
<1>2. Len(q \o p) = 0 <=> Len(q) = 0 /\ Len(p) = 0
  BY <1>1
<1> QED  BY <1>1, <1>2, EmptySeq

\* A connection is lost, or its close is reported: the tab is without a socket,
\* and what has not been answered joins the queue.
LEMMA ClosedIsSound ==
    ASSUME Sound(c), NEW s \in Sockets, WasClosed(c, c', s),
           c.link[s].browser \in {"connecting", "open", "closing"}
    PROVE  Sound(c')
<1>1. /\ HasTab(c') /\ c'.late = c.late /\ c'.plain = c.plain /\ c'.page = c.page
      /\ c'.entries = c.entries /\ c'.ticket = c.ticket /\ c'.shown = c.shown
      /\ c'.failed = c.failed /\ c'.socket = NoSocket /\ c'.status # "CONNECTED"
  BY DEF WasClosed, SameSession
<1>2. PICK q \in Seq(Orders) : c'.queue = c.queue \o q
  BY DEF WasClosed
<1>3. ASSUME ~c.late PROVE OneSocket(c') /\ StatusFits(c')
  <2>1. OneSocket(c)
    BY <1>3 DEF Sound
  <2>2. c.socket = s \/ c.socket = NoSocket
    BY <2>1 DEF OneSocket
  <2>3. ASSUME NEW u \in Sockets, c'.link[u].browser \in {"connecting", "open"} PROVE FALSE
    <3>1. u # s /\ c'.link[u] = c.link[u]
      BY <2>3 DEF WasClosed
    <3>2. u = c.socket
      BY <2>1, <2>3, <3>1 DEF OneSocket
    <3> QED  BY <2>2, <3>1, <3>2, Distinct
  <2> QED  BY <1>1, <2>3 DEF OneSocket, StatusFits
<1>4. ASSUME ~c.late, c.plain PROVE JoinIsDue(c') /\ \E t : OneRoom(c', t)
  <2>1. OneSocket(c) /\ JoinIsDue(c)
    BY <1>4 DEF Sound
  <2>2. PICK t : OneRoom(c, t)
    BY <1>4 DEF Sound
  <2>3. t \in Rooms \cup {NoRoom} /\ c.queue \in Seq(Sendable(t))
    BY <2>2 DEF OneRoom
  <2>4. q \in Seq(Sendable(t))
    BY <2>3, OrdersAreSent
  <2>5. c'.queue \in Seq(Sendable(t)) /\ (c.queue # <<>> => c'.queue # <<>>)
    BY <1>2, <2>3, <2>4, ConcatIsSome
  <2>6. c.queue \in Seq(Orders) => c'.queue \in Seq(Orders)
    BY <1>2, ConcatIsSome
  <2>7. JoinIsDue(c')
    <3>1. c.ticket # Idle => c.socket = NoSocket
      BY <2>1 DEF OneSocket
    <3> QED  BY <1>1, <2>1, <2>5, <3>1 DEF JoinIsDue, Busy, Waiting
  <2>8. {c'.stored, c'.roomCode, c'.timer} \subseteq {NoRoom, t} /\ c'.stray \subseteq {t} \ {NoRoom}
    BY <2>2 DEF OneRoom, WasClosed
  <2>9. t = NoRoom => OneCreate(c')
    BY <1>1, <2>2, <2>6 DEF OneRoom, OneCreate
  <2>10. OneRoom(c', t)
    BY <1>1, <2>2, <2>5, <2>8, <2>9 DEF OneRoom
  <2> QED  BY <2>7, <2>10
<1> QED  BY <1>1, <1>3, <1>4 DEF Sound

\* A socket is lost or its close is reported.
LEMMA CloseIsSound ==
    ASSUME Sound(c), KeepsPending(c), NEW s \in Sockets, Lose(s) \/ CloseEvent(s)
    PROVE  Sound(c')
<1>1. c' = Closed(c, s) /\ c.link[s].browser \in {"connecting", "open", "closing"}
  BY DEF Lose, CloseEvent
<1>2. HasCommands(c) /\ c.unresolved \in Seq(Orders)
  BY DEF KeepsPending
<1>3. WasClosed(c, c', s)
  BY <1>1, <1>2, ClosedDoes DEF Sound
<1> QED  BY <1>1, <1>3, ClosedIsSound

\* The socket opens and the queue goes out, with the join it holds.
LEMMA OpenIsSound ==
    ASSUME Sound(c), NEW s \in Sockets, Open(s)
    PROVE  Sound(c')
<1>1. WasOpened(c, c', s) /\ c.link[s].browser = "connecting"
  BY OpenedDoes DEF Sound, Open
<1>2. /\ HasTab(c') /\ c'.late = c.late /\ c'.plain = c.plain /\ c'.page = c.page
      /\ c'.stored = c.stored /\ c'.roomCode = c.roomCode /\ c'.stray = c.stray
      /\ c'.entries = c.entries /\ c'.ticket = c.ticket /\ c'.shown = c.shown
      /\ c'.failed = c.failed /\ c'.socket = c.socket /\ c'.timer = NoRoom
  BY <1>1 DEF WasOpened, SameSession
<1>3. ASSUME ~c.late
      PROVE  /\ c.socket = s /\ s # NoSocket /\ c'.queue = <<>>
             /\ \A u \in Sockets \ {s} : c'.link[u] = c.link[u]
             /\ c'.link[s].browser = "open" /\ c'.link[s].joined = NoRoom
             /\ c'.link[s].down = <<>> /\ c.link[s].down = <<>> /\ c.link[s].up = <<>>
             /\ c.link[s].joined = NoRoom
             /\ c'.link[s].up = <<>> \o JoinFirst(c.queue)
  <2>1. OneSocket(c)
    BY <1>3 DEF Sound
  <2>2. c.socket = s /\ s # NoSocket
    BY <1>1, <2>1, Distinct DEF OneSocket
  <2> QED  BY <1>1, <2>1, <2>2 DEF OneSocket, WasOpened
<1>4. ASSUME ~c.late PROVE OneSocket(c') /\ StatusFits(c')
  <2>1. OneSocket(c)
    BY <1>4 DEF Sound
  <2>2. OneSocket(c')
    BY <1>2, <1>3, <1>4, <2>1 DEF OneSocket
  <2> QED  BY <1>2, <1>3, <1>4, <2>2 DEF StatusFits, Usable
<1>5. ASSUME ~c.late, c.plain PROVE JoinIsDue(c') /\ \E t : OneRoom(c', t)
  <2>1. JoinIsDue(c)
    BY <1>5 DEF Sound
  <2>2. PICK t : OneRoom(c, t)
    BY <1>5 DEF Sound
  <2>3. t \in Rooms \cup {NoRoom} /\ c.queue \in Seq(Sendable(t))
    BY <2>2 DEF OneRoom
  <2>4. /\ JoinFirst(c.queue) \in Seq(Sendable(t)) /\ (JoinFirst(c.queue) = <<>> <=> c.queue = <<>>)
        /\ c.queue \in Seq(Orders) => JoinFirst(c.queue) \in Seq(Orders)
    BY <2>3, JoinFirstIsPart
  <2>5. c'.link[s].up = JoinFirst(c.queue)
    <3>1. \A S : \A p \in Seq(S) : <<>> \o p = p
      OBVIOUS
    <3> QED  BY <1>3, <1>5, <2>4, <3>1
  <2>6. JoinIsDue(c')
    BY <1>2, <1>3, <1>5, <2>1, <2>4, <2>5 DEF JoinIsDue, Busy, Waiting
  <2>7. \A S : <<>> \in Seq(S)
    OBVIOUS
  <2>8. LinkFits(c'.link[s], t)
    <3>1. c'.link[s].up \in Seq(Sends)
      BY <2>3, <2>4, <2>5, OrdersAreSent
    <3> QED  BY <1>3, <1>5, <2>4, <2>5, <2>7, <3>1 DEF LinkFits
  <2>9. t = NoRoom => OneCreate(c')
    BY <1>2, <1>3, <1>5, <2>2, <2>4, <2>5, <2>7 DEF OneRoom, OneCreate
  <2>10. OneRoom(c', t)
    BY <1>2, <1>3, <1>5, <2>2, <2>7, <2>8, <2>9 DEF OneRoom
  <2> QED  BY <2>6, <2>10
<1> QED  BY <1>2, <1>4, <1>5 DEF Sound

\* A tab whose ticket is answered, before those who waited for it go on.
Awaits(d) ==
    /\ \A s \in Sockets : d.link[s].browser \in {"connecting", "open"} => s = d.socket
    /\ d.socket # NoSocket =>
          /\ d.socket \in Sockets /\ d.link[d.socket].browser = "connecting"
          /\ \A s \in Sockets : d.link[s].browser # "closing"
          /\ ~d.link[d.socket].server /\ d.link[d.socket].joined = NoRoom
          /\ d.link[d.socket].up = <<>> /\ d.link[d.socket].down = <<>>
    /\ d.status = "CONNECTED" => ~d.shown

\* The entries that waited become messages in the queue; none is lost.
LEMMA ReleasedIsSound ==
    ASSUME NEW d, NEW e, WasReleased(d, e), ~d.late => Awaits(d),
           ~d.late /\ d.plain => /\ d.shown /\ ~d.failed => Waiting(d) # {} \/ d.queue # <<>>
                                 /\ \E t : OneRoom(d, t)
    PROVE  Sound(e)
<1>1. /\ HasTab(e) /\ e.late = d.late /\ e.plain = d.plain /\ e.page = d.page
      /\ e.status = d.status /\ e.shown = d.shown /\ e.failed = d.failed
      /\ e.stored = d.stored /\ e.roomCode = d.roomCode /\ e.timer = d.timer /\ e.stray = d.stray
      /\ e.socket = d.socket /\ e.ticket = Idle
      /\ e.entries = Picked(d.entries, DOMAIN d.entries \ Waiting(d))
  BY DEF WasReleased, SameSession, SameRooms, SameStatus
<1>2. ASSUME ~d.late PROVE e.link = d.link /\ e.queue = d.queue \o Late(d)
  <2>1. ~Usable(d, d.socket)
    BY <1>2 DEF Awaits, Usable
  <2> QED  BY <2>1 DEF WasReleased
<1>3. ASSUME ~d.late PROVE OneSocket(e) /\ StatusFits(e)
  BY <1>1, <1>2, <1>3 DEF Awaits, OneSocket, StatusFits
<1>4. ASSUME ~d.late, d.plain PROVE JoinIsDue(e) /\ \E t : OneRoom(e, t)
  <2>1. PICK t : OneRoom(d, t)
    BY <1>4
  <2>2. t \in Rooms \cup {NoRoom} /\ d.entries \in Seq(Entries(t)) /\ d.queue \in Seq(Sendable(t))
    BY <2>1 DEF OneRoom
  <2>3. /\ e.entries \in Seq(Entries(t)) /\ Late(d) \in Seq({EntryEvent(t)})
        /\ Waiting(d) # {} => Late(d) # <<>>
        /\ Len(d.entries) <= 1 => Len(e.entries) <= 1 /\ (e.entries = <<>> \/ Late(d) = <<>>)
        /\ d.entries = <<>> => e.entries = <<>> /\ Late(d) = <<>>
    BY <1>1, <2>2, ReleasedParts
  <2>4. Late(d) \in Seq(Sendable(t))
    <3>1. {EntryEvent(t)} \subseteq Sendable(t)
      BY DEF Sendable
    <3> QED  BY <2>3, <3>1, SeqMonotonic
  <2>5. e.queue \in Seq(Sendable(t)) /\ (e.queue = <<>> <=> d.queue = <<>> /\ Late(d) = <<>>)
    <3>1. /\ d.queue \o Late(d) \in Seq(Sendable(t))
          /\ d.queue \o Late(d) = <<>> <=> d.queue = <<>> /\ Late(d) = <<>>
      <4> HIDE DEF Late, Sendable
      <4> QED  BY <2>2, <2>4, ConcatIsSome
    <3> QED  BY <1>2, <1>4, <3>1
  <2>6. JoinIsDue(e)
    BY <1>1, <1>4, <2>3, <2>5 DEF JoinIsDue, Busy
  <2>7. ASSUME t = NoRoom PROVE OneCreate(e)
    <3>1. OneCreate(d)
      BY <2>1, <2>7 DEF OneRoom
    <3>2. Len(e.entries) <= 1 /\ (e.entries = <<>> \/ Late(d) = <<>>)
      BY <2>3, <3>1 DEF OneCreate
    <3>3. e.entries # <<>> => e.queue \in Seq(Orders)
      <4>1. ASSUME e.entries # <<>> PROVE e.queue = d.queue
        <5>1. Late(d) = <<>>
          BY <3>2, <4>1
        <5>2. \A S : \A p \in Seq(S) : p \o <<>> = p
          OBVIOUS
        <5> QED  BY <1>2, <1>4, <2>2, <5>1, <5>2
      <4>2. ASSUME e.entries # <<>> PROVE d.queue \in Seq(Orders)
        BY <2>3, <3>1, <4>2 DEF OneCreate
      <4> QED  BY <4>1, <4>2
    <3>4. e.socket # NoSocket => e.link[e.socket].up \in Seq(Orders)
      <4>1. \A S : <<>> \in Seq(S)
        OBVIOUS
      <4> QED  BY <1>1, <1>2, <1>4, <4>1 DEF Awaits
    <3> QED  BY <3>2, <3>3, <3>4 DEF OneCreate
  <2>8. OneRoom(e, t)
    BY <1>1, <1>2, <1>4, <2>1, <2>3, <2>5, <2>7 DEF OneRoom
  <2> QED  BY <2>6, <2>8
<1> QED  BY <1>1, <1>3, <1>4 DEF Sound

\* The ticket is there: no other socket is left, since none closes late.
LEMMA TicketArrivesIsSound ==
    ASSUME Sound(c), TicketArrives
    PROVE  Sound(c')
<1>1. PICK s \in Sockets :
         /\ c.late \/ ~Closing
         /\ c' = Released([c EXCEPT !.socket = s,
                             !.link[s] = [NewLink EXCEPT !.browser = "connecting",
                                                         !.user = c.ticket]])
  BY DEF TicketArrives
<1> DEFINE l == [NewLink EXCEPT !.browser = "connecting", !.user = c.ticket]
           d == [c EXCEPT !.socket = s, !.link[s] = l]
<1>2. /\ LinkFields \subseteq DOMAIN l /\ l.browser = "connecting" /\ l.server = FALSE
      /\ l.joined = NoRoom /\ l.up = <<>> /\ l.down = <<>>
  BY DEF LinkFields, NewLink
<1> HIDE DEF l
<1>3. /\ TabFields \subseteq DOMAIN d /\ SameSession(c, d) /\ SameRooms(c, d) /\ SameStatus(c, d)
      /\ d.page = c.page /\ d.entries = c.entries /\ d.queue = c.queue /\ d.socket = s
      /\ d.link = [c.link EXCEPT ![s] = l]
  BY DEF Sound, HasTab, TabFields, SameSession, SameRooms, SameStatus
<1>4. c' = Released(d) /\ c.ticket # Idle
  BY <1>1 DEF l, TicketArrives
<1> HIDE DEF d
<1>5. d.link[s] = l /\ \A u \in Sockets \ {s} : d.link[u] = c.link[u]
  BY <1>3 DEF Sound, HasTab, HasLinks
<1>6. HasTab(d)
  BY <1>2, <1>3, <1>5 DEF Sound, HasTab, HasLinks
<1>7. WasReleased(d, c')
  BY <1>4, <1>6, ReleasedDoes
<1>8. ASSUME ~c.late PROVE c.socket = NoSocket /\ Awaits(d)
  <2>1. OneSocket(c) /\ StatusFits(c)
    BY <1>8 DEF Sound
  <2>2. c.socket = NoSocket
    BY <1>4, <2>1 DEF OneSocket
  <2>3. \A u \in Sockets \ {s} : d.link[u].browser \notin {"connecting", "open", "closing"}
    BY <1>1, <1>5, <1>8, <2>1, <2>2, Distinct DEF OneSocket, Closing
  <2>4. ~(c.status = "CONNECTED" /\ c.shown)
    BY <2>1, <2>2 DEF StatusFits, Usable
  <2> QED  BY <1>2, <1>3, <1>5, <2>2, <2>3, <2>4 DEF Awaits, SameStatus
<1>9. ASSUME ~c.late, c.plain
      PROVE  (c.shown /\ ~c.failed => Waiting(c) # {} \/ c.queue # <<>>) /\ \E t : OneRoom(d, t)
  <2>1. JoinIsDue(c)
    BY <1>9 DEF Sound
  <2>2. PICK t : OneRoom(c, t)
    BY <1>9 DEF Sound
  <2>3. \A S : <<>> \in Seq(S)
    OBVIOUS
  <2>4. LinkFits(d.link[s], t)
    BY <1>2, <1>5, <2>3 DEF LinkFits
  <2>5. t = NoRoom => OneCreate(d)
    BY <1>2, <1>3, <1>5, <2>2, <2>3 DEF OneRoom, OneCreate
  <2>6. OneRoom(d, t)
    BY <1>3, <2>2, <2>4, <2>5 DEF OneRoom, SameRooms
  <2> QED  BY <1>4, <1>8, <1>9, <2>1, <2>6 DEF JoinIsDue, Busy
<1> QED  BY <1>3, <1>7, <1>8, <1>9, ReleasedIsSound DEF SameSession, SameStatus, Waiting

\* No ticket: offline, with the messages queued.
LEMMA TicketRefusedIsSound ==
    ASSUME Sound(c), TicketRefused
    PROVE  Sound(c')
<1> DEFINE d == [c EXCEPT !.status = "OFFLINE"]
<1>1. c' = Released(d) /\ c.ticket # Idle
  BY DEF TicketRefused
<1>2. /\ HasTab(d) /\ SameSession(c, d) /\ SameRooms(c, d) /\ SameSockets(c, d)
      /\ d.page = c.page /\ d.entries = c.entries /\ d.queue = c.queue
      /\ d.shown = c.shown /\ d.failed = c.failed /\ d.status = "OFFLINE"
  BY DEF Sound, HasTab, TabFields, SameSession, SameRooms, SameSockets
<1> HIDE DEF d
<1>3. WasReleased(d, c')
  BY <1>1, <1>2, ReleasedDoes
<1>4. ASSUME ~c.late PROVE c.socket = NoSocket /\ Awaits(d)
  <2>1. OneSocket(c)
    BY <1>4 DEF Sound
  <2> QED  BY <1>1, <1>2, <2>1 DEF OneSocket, Awaits, SameSockets
<1>5. ASSUME ~c.late, c.plain
      PROVE  (c.shown /\ ~c.failed => Waiting(c) # {} \/ c.queue # <<>>) /\ \E t : OneRoom(d, t)
  <2>1. JoinIsDue(c)
    BY <1>5 DEF Sound
  <2>2. PICK t : OneRoom(c, t)
    BY <1>5 DEF Sound
  <2>3. OneRoom(d, t)
    BY <1>2, <2>2 DEF OneRoom, OneCreate, SameRooms, SameSockets
  <2> QED  BY <1>1, <1>4, <1>5, <2>1, <2>3 DEF JoinIsDue, Busy
<1> QED  BY <1>2, <1>3, <1>4, <1>5, ReleasedIsSound DEF SameSession, Waiting

-----------------------------------------------------------------------------
(* The server and the answers. *)

\* Only link s changes, and not what the browser knows of it.
LinkOnly(d, e, s) ==
    /\ HasTab(e) /\ SameSession(d, e) /\ SameRooms(d, e) /\ SameStatus(d, e)
    /\ e.page = d.page /\ e.entries = d.entries /\ e.queue = d.queue
    /\ e.socket = d.socket /\ e.ticket = d.ticket
    /\ e.link[s].browser = d.link[s].browser
    /\ \A u \in Sockets \ {s} : e.link[u] = d.link[u]

\* What the pipes hold does not matter to the socket.
LEMMA LinkKeeps ==
    ASSUME NEW d, NEW e, NEW s \in Sockets, LinkOnly(d, e, s), OneSocket(d), StatusFits(d),
           d.link[s].browser # "connecting"
    PROVE  OneSocket(e) /\ StatusFits(e)
<1>1. /\ e.socket = d.socket /\ e.ticket = d.ticket /\ e.status = d.status /\ e.shown = d.shown
      /\ \A u \in Sockets : e.link[u].browser = d.link[u].browser
      /\ \A u \in Sockets \ {s} : e.link[u] = d.link[u]
  BY DEF LinkOnly, SameStatus
<1>2. d.socket # NoSocket => d.socket \in Sockets
  BY DEF OneSocket
<1>3. OneSocket(e)
  BY <1>1, <1>2 DEF OneSocket
<1>4. StatusFits(e)
  BY <1>1, <1>2 DEF StatusFits, Usable
<1> QED  BY <1>3, <1>4

\* It is another socket than that of the tab.
LEMMA OtherKeeps ==
    ASSUME NEW d, NEW e, NEW s \in Sockets, LinkOnly(d, e, s), OneSocket(d), d.socket # s
    PROVE  /\ JoinIsDue(d) => JoinIsDue(e)
           /\ \A t : OneRoom(d, t) => OneRoom(e, t)
<1>1. /\ e.stored = d.stored /\ e.roomCode = d.roomCode /\ e.timer = d.timer /\ e.stray = d.stray
      /\ e.socket = d.socket /\ e.ticket = d.ticket /\ e.shown = d.shown /\ e.failed = d.failed
      /\ e.page = d.page /\ e.entries = d.entries /\ e.queue = d.queue
      /\ d.socket # NoSocket => e.link[d.socket] = d.link[d.socket]
  BY DEF LinkOnly, SameRooms, SameStatus, OneSocket
<1>2. JoinIsDue(d) => JoinIsDue(e)
  BY <1>1 DEF JoinIsDue, Busy, Waiting
<1>3. ASSUME NEW t, OneRoom(d, t) PROVE OneRoom(e, t)
  BY <1>1, <1>3 DEF OneRoom, OneCreate
<1> QED  BY <1>2, <1>3

\* The end of a session; the socket of the tab is not affected.
LEMMA SessionEndsIsSound ==
    ASSUME Sound(c), NEW s \in Sockets, SessionEnds(s)
    PROVE  Sound(c')
<1> DEFINE k == Half(c.link[s], c.link[s].browser, FALSE)
<1>1. c' = [c EXCEPT !.link[s] = k] /\ c.link[s].browser \in {"none", "closing"}
  BY DEF SessionEnds
<1>2. LinkFields \subseteq DOMAIN k /\ k.browser = c.link[s].browser
  BY HalfDoes DEF Sound, HasTab, HasLinks
<1> HIDE DEF k
<1>3. LinkOnly(c, c', s)
  <2>1. c'.link = [c.link EXCEPT ![s] = k]
    BY <1>1 DEF Sound, HasTab, TabFields
  <2>2. /\ HasLinks(c'.link) /\ c'.link[s].browser = c.link[s].browser
        /\ \A u \in Sockets \ {s} : c'.link[u] = c.link[u]
    BY <1>2, <2>1 DEF Sound, HasTab, HasLinks
  <2>3. /\ TabFields \subseteq DOMAIN c' /\ SameSession(c, c') /\ SameRooms(c, c') /\ SameStatus(c, c')
        /\ c'.page = c.page /\ c'.entries = c.entries /\ c'.queue = c.queue
        /\ c'.socket = c.socket /\ c'.ticket = c.ticket
    BY <1>1 DEF Sound, HasTab, TabFields, SameSession, SameRooms, SameStatus
  <2> QED  BY <2>2, <2>3 DEF LinkOnly, HasTab
<1>4. ~c.late => c.socket # s
  BY <1>1, Distinct DEF Sound, OneSocket
<1>5. ~c.late => OneSocket(c') /\ StatusFits(c')
  BY <1>1, <1>3, LinkKeeps DEF Sound
<1>6. ~c.late /\ c.plain => JoinIsDue(c') /\ \E t : OneRoom(c', t)
  BY <1>3, <1>4, OtherKeeps DEF Sound
<1> QED  BY <1>3, <1>5, <1>6 DEF Sound, LinkOnly, SameSession

\* The server has read a message of link s and answers it.
LEMMA AnswerDoes ==
    ASSUME Sound(c), NEW s \in Sockets, NEW evs, NEW r, Answer(s, evs, r)
    PROVE  /\ LinkOnly(c, c', s) /\ c'.link[s].joined = r
           /\ c'.link[s].up = Tail(c.link[s].up)
           /\ c.link[s].browser = "open" => c'.link[s].down = c.link[s].down \o evs
<1> DEFINE k == [c.link[s] EXCEPT !.up = Tail(@), !.down = Reply(s, evs), !.joined = r]
<1>1. /\ LinkFields \subseteq DOMAIN k /\ k.browser = c.link[s].browser
      /\ k.joined = r /\ k.up = Tail(c.link[s].up) /\ k.down = Reply(s, evs)
  BY DEF Sound, HasTab, HasLinks, LinkFields
<1>2. c'.link = [c.link EXCEPT ![s] = k]
  BY DEF Sound, HasTab, HasLinks, TabFields, Answer
<1>3. /\ TabFields \subseteq DOMAIN c' /\ SameSession(c, c') /\ SameRooms(c, c') /\ SameStatus(c, c')
      /\ c'.page = c.page /\ c'.entries = c.entries /\ c'.queue = c.queue
      /\ c'.socket = c.socket /\ c'.ticket = c.ticket
  BY DEF Answer, Sound, HasTab, TabFields, SameSession, SameRooms, SameStatus
<1> HIDE DEF k
<1>4. /\ HasLinks(c'.link) /\ c'.link[s] = k
      /\ \A u \in Sockets \ {s} : c'.link[u] = c.link[u]
  BY <1>1, <1>2 DEF Sound, HasTab, HasLinks
<1>5. LinkOnly(c, c', s)
  BY <1>1, <1>3, <1>4 DEF LinkOnly, HasTab
<1> QED  BY <1>1, <1>4, <1>5 DEF Reply

\* The first element and the others.
LEMMA TailIsPart ==
    ASSUME NEW S, NEW q \in Seq(S), q # <<>>
    PROVE  Head(q) \in S /\ Tail(q) \in Seq(S)
BY HeadTailProperties

\* Whatever the server answers, only the socket of the tab has to be looked at.
LEMMA AnswerIsSound ==
    ASSUME Sound(c), NEW s \in Sockets, Serving(s), NEW evs, NEW r, Answer(s, evs, r),
           ASSUME NEW t, ~c.late, c.plain, s = c.socket, c.link[s].browser = "open", OneRoom(c, t),
                  LinkFits(c.link[s], t), Head(c.link[s].up) \in Sends
           PROVE  JoinIsDue(c') /\ \E u : OneRoom(c', u)
    PROVE  Sound(c')
<1>1. LinkOnly(c, c', s)
  BY AnswerDoes
<1>2. ~c.late /\ s = c.socket => c.link[s].browser = "open"
  BY Distinct DEF Sound, OneSocket, Serving
<1>3. ASSUME ~c.late PROVE OneSocket(c') /\ StatusFits(c')
  <2>1. OneSocket(c) /\ StatusFits(c)
    BY <1>3 DEF Sound
  <2>2. c.link[s].browser # "connecting"
    BY <1>2, <1>3, <2>1 DEF OneSocket
  <2> QED  BY <1>1, <2>1, <2>2, LinkKeeps
<1>4. ASSUME ~c.late, c.plain PROVE JoinIsDue(c') /\ \E u : OneRoom(c', u)
  <2>1. OneSocket(c) /\ JoinIsDue(c)
    BY <1>4 DEF Sound
  <2>2. PICK t : OneRoom(c, t)
    BY <1>4 DEF Sound
  <2>3. CASE s # c.socket
    BY <1>1, <2>1, <2>2, <2>3, OtherKeeps
  <2>4. CASE s = c.socket
    <3>1. LinkFits(c.link[s], t)
      BY <2>2, <2>4, Distinct DEF OneRoom
    <3>2. Head(c.link[s].up) \in Sends
      <4>1. c.link[s].up \in Seq(Sends) /\ c.link[s].up # <<>>
        BY <3>1 DEF LinkFits, Serving
      <4> QED  BY <4>1, TailIsPart
    <3> QED  BY <1>2, <1>4, <2>2, <2>4, <3>1, <3>2
  <2> QED  BY <2>3, <2>4
<1> QED  BY <1>1, <1>3, <1>4 DEF Sound, LinkOnly, SameSession

\* An error may come in a room and outside.
LEMMA ErrorsAreEvents ==
    ASSUME NEW t
    PROVE  Errors \subseteq Events(t) /\ Seq(Errors) \subseteq Seq(Events(t))
<1>1. Errors \subseteq Events(t)
  BY DEF Errors, Events
<1> QED  BY <1>1, SeqMonotonic

\* An answer that leaves the session in its room, or outside of any.
LEMMA StayIsSound ==
    ASSUME Sound(c), NEW s \in Sockets, Serving(s), NEW evs, Answer(s, evs, c.link[s].joined),
           c.link[s].joined = NoRoom =>
              (Head(c.link[s].up) \in Sends => evs \in Seq(Errors) /\ evs # <<>>),
           c.link[s].joined # NoRoom =>
              (Head(c.link[s].up) \in Sends => \A t : evs \in Seq(Events(t)))
    PROVE  Sound(c')
<1> DEFINE l == c.link[s]
           k == c'.link[s]
<1>1. /\ LinkOnly(c, c', s) /\ k.joined = l.joined /\ k.up = Tail(l.up)
      /\ l.browser = "open" => k.down = l.down \o evs
  BY AnswerDoes
<1>2. ASSUME NEW t, ~c.late, c.plain, s = c.socket, l.browser = "open", OneRoom(c, t),
             LinkFits(l, t), Head(l.up) \in Sends
      PROVE  JoinIsDue(c') /\ \E u : OneRoom(c', u)
  <2>0. l.up # <<>> /\ k.down = l.down \o evs /\ t \in Rooms \cup {NoRoom}
    BY <1>1, <1>2 DEF Serving, OneRoom
  <2>1. l.joined = NoRoom => evs \in Seq(Errors) /\ evs # <<>> /\ l.down \in Seq(Errors)
    BY <1>2 DEF LinkFits
  <2>2. l.joined = NoRoom => k.down \in Seq(Errors) /\ k.down # <<>>
    BY <2>0, <2>1, ConcatIsSome
  <2>3. l.joined # NoRoom => evs \in Seq(Events(t)) /\ l.down \in Seq(Events(t))
    BY <1>2 DEF LinkFits
  <2>4. l.joined # NoRoom => k.down \in Seq(Events(t))
    BY <2>0, <2>3, ConcatIsSome
  <2>5. \A S : l.up \in Seq(S) => k.up \in Seq(S)
    BY <1>1, <2>0, TailIsPart
  <2>6. LinkFits(k, t)
    BY <1>1, <1>2, <2>2, <2>4, <2>5 DEF LinkFits
  <2>7. /\ c'.stored = c.stored /\ c'.roomCode = c.roomCode /\ c'.timer = c.timer
        /\ c'.stray = c.stray /\ c'.socket = c.socket /\ c'.ticket = c.ticket
        /\ c'.page = c.page /\ c'.entries = c.entries /\ c'.queue = c.queue
    BY <1>1 DEF LinkOnly, SameRooms
  <2>8. JoinIsDue(c')
    <3>1. c.ticket = Idle /\ s # NoSocket
      BY <1>2, Distinct DEF Sound, OneSocket
    <3> QED  BY <1>1, <1>2, <2>2, <2>7, <3>1 DEF JoinIsDue, Busy, Waiting
  <2>9. t = NoRoom => OneCreate(c')
    BY <1>2, <2>5, <2>7 DEF OneRoom, OneCreate
  <2>10. OneRoom(c', t)
    BY <1>2, <2>6, <2>7, <2>9 DEF OneRoom
  <2> QED  BY <2>8, <2>10
<1> QED  BY <1>2, AnswerIsSound

\* The session enters room r: the room of the tab, which it is from now on if
\* it had none.
LEMMA EnteredIsSound ==
    ASSUME Sound(c), NEW s \in Sockets, Serving(s), NEW r, Answer(s, Welcome(r), r),
           c.link[s].joined = NoRoom,
           \/ Head(c.link[s].up).type = "create" /\ r \in Rooms
           \/ Head(c.link[s].up).type = "join" /\ r = Head(c.link[s].up).room
    PROVE  Sound(c')
<1> DEFINE l == c.link[s]
           k == c'.link[s]
           m == Head(l.up)
<1>1. /\ LinkOnly(c, c', s) /\ k.joined = r /\ k.up = Tail(l.up)
      /\ l.browser = "open" => k.down = l.down \o Welcome(r)
  BY AnswerDoes
<1>2. ASSUME NEW t, ~c.late, c.plain, s = c.socket, l.browser = "open", OneRoom(c, t),
             LinkFits(l, t), m \in Sends
      PROVE  JoinIsDue(c') /\ \E u : OneRoom(c', u)
  <2>1. /\ l.up \in Seq(Sendable(t)) /\ l.down \in Seq(Errors) /\ l.up \in Seq(Sends)
        /\ l.up # <<>> /\ k.down = l.down \o Welcome(r) /\ t \in Rooms \cup {NoRoom}
    BY <1>1, <1>2 DEF LinkFits, Serving, OneRoom
  <2>2. m \in Sendable(t) /\ k.up \in Seq(Sends)
    BY <1>1, <2>1, TailIsPart
  <2>3. m = EntryEvent(t) /\ m \notin Orders
    <3>1. m.type \in {"create", "join"}
      OBVIOUS
    <3>2. m \notin Orders
      BY <3>1 DEF Orders
    <3> QED  BY <2>2, <3>2 DEF Sendable
  <2>4. r \in Rooms /\ r # NoRoom /\ (t = r \/ t = NoRoom)
    <3>1. r \in Rooms /\ (t = r \/ t = NoRoom)
      BY <2>1, <2>3 DEF EntryEvent, Join
    <3> QED  BY <3>1, Distinct
  <2>5. /\ c'.stored = c.stored /\ c'.roomCode = c.roomCode /\ c'.timer = c.timer
        /\ c'.stray = c.stray /\ c'.socket = c.socket /\ c'.ticket = c.ticket
        /\ c'.page = c.page /\ c'.entries = c.entries /\ c'.queue = c.queue
    BY <1>1 DEF LinkOnly, SameRooms
  <2>6. c.entries \in Seq(Entries(r)) /\ c.queue \in Seq(Sendable(r))
    <3>1. CASE t = r
      BY <1>2, <3>1 DEF OneRoom
    <3>2. CASE t = NoRoom
      <4>1. OneCreate(c)
        BY <1>2, <3>2 DEF OneRoom
      <4>2. l.up \notin Seq(Orders)
        BY <2>1, <2>3, TailIsPart
      <4>3. c.entries = <<>> /\ c.queue \in Seq(Orders)
        BY <1>2, <2>1, <4>1, <4>2, Distinct DEF OneCreate
      <4>4. \A S : <<>> \in Seq(S)
        OBVIOUS
      <4>5. Seq(Orders) \subseteq Seq(Sendable(r))
        BY <2>4, OrdersAreSent
      <4> QED  BY <4>3, <4>4, <4>5
    <3> QED  BY <2>4, <3>1, <3>2
  <2>7. LinkFits(k, r)
    <3>1. l.down \in Seq(Events(r)) /\ Welcome(r) \in Seq(Events(r))
      <4>1. l.down \in Seq(Events(r))
        BY <2>1, ErrorsAreEvents
      <4>2. [type |-> "ack", room |-> r] \in Events(r) /\ [type |-> "state"] \in Events(r)
        BY DEF Events
      <4>3. \A x, y \in Events(r) : <<x, y>> \in Seq(Events(r))
        OBVIOUS
      <4> QED  BY <4>1, <4>2, <4>3 DEF Welcome
    <3>2. k.down \in Seq(Events(r))
      BY <2>1, <3>1, ConcatIsSome
    <3> QED  BY <1>1, <2>2, <2>4, <3>2 DEF LinkFits
  <2>8. JoinIsDue(c')
    <3>1. c.ticket = Idle
      BY <1>2, Distinct DEF Sound, OneSocket
    <3> QED  BY <1>1, <1>2, <2>4, <2>5, <3>1 DEF JoinIsDue
  <2>9. {c.stored, c.roomCode, c.timer} \subseteq {NoRoom, r} /\ c.stray \subseteq {r} \ {NoRoom}
        /\ (c.page # Home => c.page = r)
    BY <1>2, <2>4 DEF OneRoom
  <2>10. OneRoom(c', r)
    BY <1>2, <2>4, <2>5, <2>6, <2>7, <2>9 DEF OneRoom
  <2> QED  BY <2>8, <2>10
<1> QED  BY <1>2, AnswerIsSound

\* The error is one event, not none: who is refused hears of it.
LEMMA ErrorIsEvent ==
    ASSUME NEW id \in Ids
    PROVE  Error(id) \in Seq(Errors) /\ Error(id) # <<>> /\ \A t : Error(id) \in Seq(Events(t))
<1>1. [type |-> "error", id |-> id] \in Errors
  BY DEF Errors
<1>2. \A x \in Errors : <<x>> \in Seq(Errors) /\ <<x>> # <<>>
  OBVIOUS
<1> QED  BY <1>1, <1>2, ErrorsAreEvents DEF Error

\* A command that was sent has a number.
LEMMA ReliableHasId ==
    ASSUME NEW m \in Sends, Reliable(m)
    PROVE  m.id \in Commands /\ m.id \in Ids
<1>1. m \in Orders
  BY DEF Sends, Reliable, EntryEvent, Join
<1> QED  BY <1>1 DEF Orders, Ids

\* One step of the server.
LEMMA ServerIsSound ==
    ASSUME Sound(c), NEW s \in Sockets, Server(s)
    PROVE  Sound(c')
<1> DEFINE l == c.link[s]
           m == Head(l.up)
<1>0. 0 \in Ids
  BY DEF Ids
<1>1. ASSUME Serving(s), Answer(s, Error(0), l.joined) PROVE Sound(c')
  BY <1>0, <1>1, ErrorIsEvent, StayIsSound
<1>2. CASE HandleJoin(s)
  <2>1. Serving(s) /\ m.type = "join"
    BY <1>2 DEF HandleJoin
  <2>2. CASE Answer(s, Error(0), l.joined)
    BY <1>1, <2>1, <2>2
  <2>3. CASE ~Answer(s, Error(0), l.joined)
    <3> DEFINE r == m.room
    <3>1. l.joined = NoRoom /\ Answer(s, Welcome(r), r)
      BY <1>2, <2>3 DEF HandleJoin
    <3> QED  BY <2>1, <3>1, EnteredIsSound
  <2> QED  BY <2>2, <2>3
<1>3. CASE HandleCreate(s)
  <2>1. Serving(s) /\ m.type = "create"
    BY <1>3 DEF HandleCreate
  <2>2. CASE Answer(s, Error(0), l.joined)
    BY <1>1, <2>1, <2>2
  <2>3. CASE ~Answer(s, Error(0), l.joined)
    <3>1. l.joined = NoRoom /\ \E r \in Rooms : Answer(s, Welcome(r), r)
      BY <1>3, <2>3 DEF HandleCreate
    <3> QED  BY <2>1, <3>1, EnteredIsSound
  <2> QED  BY <2>2, <2>3
<1>4. CASE RefuseCommand(s)
  <2>1. Serving(s) /\ Reliable(m) /\ Answer(s, Error(m.id), l.joined)
    BY <1>4 DEF RefuseCommand
  <2> QED  BY <2>1, ReliableHasId, ErrorIsEvent, StayIsSound
<1>5. CASE ReplayOrReject(s) \/ ApplyAct(s) \/ ApplyLeave(s)
  <2>1. /\ Serving(s) /\ Reliable(m) /\ l.joined \in Live
        /\ \/ Answer(s, <<>>, l.joined)
           \/ Answer(s, Accepted(m.id), l.joined)
           \/ Answer(s, <<[type |-> "rejected", id |-> m.id]>>, l.joined)
           \/ Answer(s, <<[type |-> "left"]>>, l.joined)
    <3>1. CASE ReplayOrReject(s)
      BY <3>1 DEF ReplayOrReject
    <3>2. CASE ApplyAct(s)
      BY <3>2 DEF ApplyAct, Reliable
    <3>3. CASE ApplyLeave(s)
      BY <3>3 DEF ApplyLeave, Reliable
    <3> QED  BY <1>5, <3>1, <3>2, <3>3
  <2>2. l.joined # NoRoom
    BY <2>1, Distinct DEF Live
  <2>3. ASSUME m \in Sends, NEW t
        PROVE  /\ <<>> \in Seq(Events(t)) /\ Accepted(m.id) \in Seq(Events(t))
               /\ <<[type |-> "rejected", id |-> m.id]>> \in Seq(Events(t))
               /\ <<[type |-> "left"]>> \in Seq(Events(t))
    <3>1. m.id \in Ids
      BY <2>1, <2>3, ReliableHasId
    <3>2. /\ [type |-> "accepted", id |-> m.id] \in Events(t)
          /\ [type |-> "rejected", id |-> m.id] \in Events(t)
          /\ [type |-> "left"] \in Events(t)
      BY <3>1 DEF Events
    <3>3. <<>> \in Seq(Events(t)) /\ \A x \in Events(t) : <<x>> \in Seq(Events(t))
      OBVIOUS
    <3> QED  BY <3>2, <3>3 DEF Accepted
  <2> QED  BY <2>1, <2>2, <2>3, StayIsSound
<1> QED  BY <1>2, <1>3, <1>4, <1>5 DEF Server

\* What the answer to a command changes is not part of the session.
LEMMA AnswerSettles ==
    ASSUME NEW d, HasTab(d), NEW id
    PROVE  LET e == ResolveReliable(Settle(d, id), id)
           IN  Same(d, e) /\ e.page = d.page /\ e.entries = d.entries
<1> DEFINE f == Settle(d, id)
           e == ResolveReliable(f, id)
<1>1. Same(d, f) /\ f.page = d.page /\ f.entries = d.entries
  BY DEF HasTab, TabFields, Same, SameSession, SameRooms, SameStatus, SameSockets, Settle
<1> HIDE DEF f
<1>2. Same(f, e) /\ e.page = f.page /\ e.entries = f.entries
  BY <1>1 DEF HasTab, TabFields, Same, SameSession, SameRooms, SameStatus, SameSockets, ResolveReliable
<1> HIDE DEF e
<1>3. Same(d, e)
  BY <1>1, <1>2, SameIsTransitive
<1> QED  BY <1>1, <1>2, <1>3 DEF e, f

\* The tab reads m on its socket: d is the tab without m in the pipe.
Read(d, m) ==
    /\ HasTab(d)
    /\ ~d.late =>
          /\ OneSocket(d) /\ StatusFits(d) /\ Usable(d, d.socket)
          /\ d.plain => \E t : /\ OneRoom(d, t)
                               /\ IF d.link[d.socket].joined = NoRoom
                                  THEN m \in Errors ELSE m \in Events(t)

\* A message the browser delivers is one the server may have sent.
LEMMA ReceiveReads ==
    ASSUME Sound(c), NEW s \in Sockets, Receive(s)
    PROVE  \E d, m : Read(d, m) /\ c' = OnMessage(d, m)
<1> DEFINE m == Head(c.link[s].down)
           k == [c.link[s] EXCEPT !.down = Tail(@)]
           d == [c EXCEPT !.link[s].down = Tail(@)]
<1>1. c' = OnMessage(d, m) /\ c.link[s].browser = "open" /\ c.link[s].down # <<>>
  BY DEF Receive
<1>2. /\ LinkFields \subseteq DOMAIN k /\ k.browser = c.link[s].browser /\ k.up = c.link[s].up
      /\ k.joined = c.link[s].joined /\ k.down = Tail(c.link[s].down)
  BY DEF Sound, HasTab, HasLinks, LinkFields
<1>3. /\ TabFields \subseteq DOMAIN d /\ SameSession(c, d) /\ SameRooms(c, d) /\ SameStatus(c, d)
      /\ d.page = c.page /\ d.entries = c.entries /\ d.queue = c.queue
      /\ d.socket = c.socket /\ d.ticket = c.ticket /\ d.link = [c.link EXCEPT ![s] = k]
  BY DEF Sound, HasTab, HasLinks, TabFields, SameSession, SameRooms, SameStatus
<1> HIDE DEF d, k
<1>4. /\ HasLinks(d.link) /\ d.link[s] = k
      /\ \A u \in Sockets \ {s} : d.link[u] = c.link[u]
  BY <1>2, <1>3 DEF Sound, HasTab, HasLinks
<1>5. LinkOnly(c, d, s)
  BY <1>2, <1>3, <1>4 DEF LinkOnly, HasTab
<1>6. ASSUME ~c.late
      PROVE  OneSocket(d) /\ StatusFits(d) /\ Usable(d, d.socket) /\ c.socket = s
  <2>1. OneSocket(c) /\ StatusFits(c)
    BY <1>6 DEF Sound
  <2>2. c.socket = s /\ s # NoSocket
    BY <1>1, <2>1, Distinct DEF OneSocket
  <2> QED  BY <1>1, <1>2, <1>3, <1>4, <1>5, <2>1, <2>2, LinkKeeps DEF Usable
<1>7. ASSUME ~c.late, c.plain
      PROVE  \E t : /\ OneRoom(d, t)
                    /\ IF d.link[d.socket].joined = NoRoom
                       THEN m \in Errors ELSE m \in Events(t)
  <2>1. PICK t : OneRoom(c, t)
    BY <1>7 DEF Sound
  <2>2. LinkFits(c.link[s], t) /\ c.socket = s
    BY <1>6, <1>7, <2>1, Distinct DEF OneRoom
  <2>3. \A S : c.link[s].down \in Seq(S) => m \in S /\ k.down \in Seq(S)
    BY <1>1, <1>2, TailIsPart
  <2>4. LinkFits(k, t)
    BY <1>2, <2>2, <2>3 DEF LinkFits
  <2>5. t = NoRoom => OneCreate(d)
    BY <1>2, <1>3, <1>4, <2>1, <2>2 DEF OneRoom, OneCreate
  <2>6. OneRoom(d, t)
    BY <1>3, <1>4, <2>1, <2>2, <2>4, <2>5 DEF OneRoom, SameRooms
  <2>7. IF k.joined = NoRoom THEN m \in Errors ELSE m \in Events(t)
    BY <1>2, <2>2, <2>3 DEF LinkFits
  <2> QED  BY <1>3, <1>4, <2>2, <2>6, <2>7
<1>8. Read(d, m)
  BY <1>3, <1>5, <1>6, <1>7 DEF Read, LinkOnly, SameSession
<1> QED  BY <1>1, <1>8

\* The tab that has read a message changes some of its session.
LEMMA ReadIsSound ==
    ASSUME NEW d, NEW m, Read(d, m), NEW e, HasTab(e), SameSession(d, e), SameSockets(d, e),
           e.page = d.page, e.timer = d.timer, e.stray = d.stray, e.entries = d.entries,
           e.queue = d.queue,
           ASSUME NEW t, ~d.late, d.plain, OneRoom(d, t),
                  d.link[d.socket].joined # NoRoom => m \in Events(t),
                  d.link[d.socket].joined = NoRoom => m \in Errors
           PROVE  /\ {e.stored, e.roomCode} \subseteq {NoRoom, t}
                  /\ d.link[d.socket].joined = NoRoom => e.failed
    PROVE  Sound(e)
<1>1. ASSUME ~d.late PROVE OneSocket(e) /\ StatusFits(e)
  BY <1>1 DEF Read, OneSocket, StatusFits, Usable, SameSockets
<1>2. ASSUME ~d.late, d.plain PROVE JoinIsDue(e) /\ \E t : OneRoom(e, t)
  <2>1. PICK t : /\ OneRoom(d, t)
                 /\ IF d.link[d.socket].joined = NoRoom
                    THEN m \in Errors ELSE m \in Events(t)
    BY <1>2 DEF Read
  <2>2. /\ {e.stored, e.roomCode} \subseteq {NoRoom, t}
        /\ d.link[d.socket].joined = NoRoom => e.failed
    BY <1>2, <2>1
  <2>3. d.ticket = Idle
    BY <1>2 DEF Read, Usable, OneSocket
  <2>4. JoinIsDue(e)
    BY <2>2, <2>3 DEF JoinIsDue, SameSockets
  <2>5. t = NoRoom => OneCreate(e)
    BY <2>1 DEF OneRoom, OneCreate, SameSockets
  <2>6. OneRoom(e, t)
    BY <2>1, <2>2, <2>5 DEF OneRoom, SameSockets
  <2> QED  BY <2>4, <2>6
<1> QED  BY <1>1, <1>2 DEF Sound, SameSession

\* Each message the tab can read.
LEMMA ReceiveIsSound ==
    ASSUME Sound(c), NEW s \in Sockets, Receive(s)
    PROVE  Sound(c')
<1>1. PICK d, m : Read(d, m) /\ c' = OnMessage(d, m)
  BY ReceiveReads
<1>2. HasTab(d)
  BY <1>1 DEF Read
<1>3. CASE m.type = "ack"
  <2>1. c' = [d EXCEPT !.stored = m.room, !.roomCode = m.room]
    BY <1>1, <1>3 DEF OnMessage
  <2>2. /\ HasTab(c') /\ SameSession(d, c') /\ SameSockets(d, c') /\ c'.page = d.page
        /\ c'.timer = d.timer /\ c'.stray = d.stray /\ c'.entries = d.entries
        /\ c'.queue = d.queue /\ c'.stored = m.room /\ c'.roomCode = m.room
    BY <1>2, <2>1 DEF HasTab, TabFields, SameSession, SameSockets
  <2>3. m \notin Errors /\ \A t : m \in Events(t) => m.room = t
    BY <1>3 DEF Errors, Events
  <2> QED  BY <1>1, <2>2, <2>3, ReadIsSound
<1>4. CASE m.type = "state"
  <2> DEFINE e == [d EXCEPT !.shown = TRUE, !.status = "CONNECTED",
                            !.roomCode = IF @ = NoRoom THEN d.stored ELSE @]
  <2>1. c' = Follow(e)
    BY <1>1, <1>4 DEF OnMessage
  <2>2. /\ HasTab(e) /\ SameSession(d, e) /\ SameSockets(d, e) /\ e.page = d.page
        /\ e.timer = d.timer /\ e.stray = d.stray /\ e.entries = d.entries
        /\ e.queue = d.queue /\ e.stored = d.stored /\ e.roomCode \in {d.roomCode, d.stored}
    BY <1>2 DEF HasTab, TabFields, SameSession, SameSockets
  <2> HIDE DEF e
  <2>3. m \notin Errors
    BY <1>4 DEF Errors
  <2>4. \A t : OneRoom(d, t) => {e.stored, e.roomCode} \subseteq {NoRoom, t}
    BY <2>2 DEF OneRoom
  <2>5. Sound(e)
    BY <1>1, <2>2, <2>3, <2>4, ReadIsSound
  <2>6. /\ Browses(e, c')
        /\ c'.page = e.page \/ (e.roomCode # NoRoom /\ c'.page = e.roomCode)
    BY <2>1, <2>2, FollowDoes
  <2> QED  BY <2>5, <2>6, BrowseIsSound
<1>5. CASE m.type = "accepted"
  <2>1. c' = ResolveReliable(Settle(d, m.id), m.id)
    BY <1>1, <1>5 DEF OnMessage
  <2>2. Same(d, c') /\ c'.page = d.page /\ c'.entries = d.entries
    BY <1>2, <2>1, AnswerSettles
  <2>3. m \notin Errors
    BY <1>5 DEF Errors
  <2>4. \A t : OneRoom(d, t) => {c'.stored, c'.roomCode} \subseteq {NoRoom, t}
    BY <2>2 DEF OneRoom, Same, SameRooms
  <2> QED  BY <1>1, <2>2, <2>3, <2>4, ReadIsSound DEF Same, SameRooms
<1>6. CASE m.type \in {"rejected", "error"}
  <2> DEFINE e == [d EXCEPT !.failed = TRUE]
  <2>1. c' = ResolveReliable(Settle(e, m.id), m.id)
    BY <1>1, <1>6 DEF OnMessage
  <2>2. /\ HasTab(e) /\ SameSession(d, e) /\ SameSockets(d, e) /\ SameRooms(d, e) /\ e.page = d.page
        /\ e.entries = d.entries /\ e.queue = d.queue /\ e.failed = TRUE
    BY <1>2 DEF HasTab, TabFields, SameSession, SameSockets, SameRooms
  <2> HIDE DEF e
  <2>3. Same(e, c') /\ c'.page = e.page /\ c'.entries = e.entries
    BY <2>1, <2>2, AnswerSettles
  <2>4. \A t : OneRoom(d, t) => {e.stored, e.roomCode} \subseteq {NoRoom, t}
    BY <2>2 DEF OneRoom, SameRooms
  <2>5. Sound(e)
    BY <1>1, <2>2, <2>4, ReadIsSound DEF SameRooms
  <2> QED  BY <2>3, <2>5, SameIsSound
<1>7. CASE m.type = "left"
  <2>1. c' = Bounce([ResetSession(DisconnectSocket(d)) EXCEPT !.clearing = d.cookie \in Guests])
    BY <1>1, <1>7 DEF OnMessage
  <2>2. Leaves(d, c') /\ c'.page \in {d.page, Home}
    BY <1>2, <2>1, LeftDoes
  <2> QED  BY <1>1, <2>2, LeavesIsSound DEF Read
<1>8. CASE m.type \notin {"ack", "state", "accepted", "rejected", "error", "left"}
  <2>1. c' = d
    BY <1>1, <1>8 DEF OnMessage
  <2>2. m \notin Errors /\ \A t : m \notin Events(t)
    BY <1>8 DEF Errors, Events
  <2>3. d.late \/ ~d.plain
    BY <1>1, <2>2 DEF Read
  <2> QED  BY <1>1, <2>1, <2>3 DEF Sound, Read
<1> QED  BY <1>3, <1>4, <1>5, <1>6, <1>7, <1>8

\* The first page.
LEMMA InitIsSound == Init => Sound(c)
<1> SUFFICES ASSUME Init PROVE Sound(c)
  OBVIOUS
<1>1. PICK p \in Invited \cup {Home}, a \in Accounts, late \in LateCloses :
         c = LoadPage([account |-> a, late |-> late, plain |-> TRUE, stored |-> NoRoom, cookie |-> a,
                       link |-> [s \in Sockets |-> NewLink]], p)
  BY DEF Init
<1> DEFINE d == [account |-> a, late |-> late, plain |-> TRUE, stored |-> NoRoom, cookie |-> a,
                 link |-> [s \in Sockets |-> NewLink]]
<1>2. HasLinks(d.link)
  BY DEF HasLinks, LinkFields, NewLink
<1>3. Loaded(d, c, p)
  BY <1>1, <1>2, LoadPageDoes
<1>4. \E t \in Rooms \cup {NoRoom} : (p # Home => p = t /\ t # NoRoom) /\ d.stored \in {NoRoom, t}
  BY InvitedAreRooms, Distinct
<1> QED  BY <1>3, <1>4, LoadedIsSound

\* A tab that shows a room as connected, with nothing under way, is in that room
\* for the server too, but for the three exceptions of ShownRoomIsJoined.
THEOREM RoomIsJoined == Spec => []ShownRoomIsJoined
<1>1. Init => Sound(c)
  BY InitIsSound
<1>2. Sound(c) /\ CommandsAreKept /\ [Next]_vars => Sound(c)'
  <2> SUFFICES ASSUME Sound(c), KeepsPending(c), [Next]_vars PROVE Sound(c')
    BY DEF CommandsAreKept
  <2>1. CASE UNCHANGED c
    BY <2>1
  <2>2. CASE Visitor
    BY <2>2, JoinFromHomeIsSound, CreateFromHomeIsSound, TypeAliasIsSound, GoHomeIsSound,
       CommandGives, CommandIsSound DEF Visitor
  <2>3. CASE Faulty
    BY <2>3, CloseIsSound, TabVisibleIsSound, ReloadIsSound, GuestFailsIsSound DEF Faulty
  <2>4. CASE Entering
    BY <2>4, GuestReadyIsSound DEF Entering
  <2>5. CASE Timers
    BY <2>5, ReconnectIsSound DEF Timers
  <2>6. CASE SessionArrives \/ TicketArrives \/ TicketRefused \/ ClearGuestArrives
    BY <2>6, SessionArrivesIsSound, TicketArrivesIsSound, TicketRefusedIsSound, ClearGuestIsSound
  <2>7. ASSUME NEW s \in Sockets, Browser(s) \/ Server(s) \/ SessionEnds(s) PROVE Sound(c')
    BY <2>7, OpenIsSound, CloseIsSound, ReceiveIsSound, ServerIsSound, SessionEndsIsSound DEF Browser
  <2>8. ASSUME NEW r \in Rooms, GameStarts(r) PROVE Sound(c')
    BY <2>1, <2>8 DEF GameStarts
  <2>9. CASE Next
    BY <2>2, <2>3, <2>4, <2>5, <2>6, <2>7, <2>8, <2>9 DEF Next
  <2> QED  BY <2>1, <2>9 DEF vars
<1>3. Sound(c) => ShownRoomIsJoined
  <2> SUFFICES ASSUME Sound(c), ~c.late, c.plain, c.page # Home, c.shown, c.status = "CONNECTED",
                      ~c.failed, Settled
               PROVE  Usable(c, c.socket) /\ c.link[c.socket].joined = c.page
    BY DEF ShownRoomIsJoined
  <2>1. OneSocket(c) /\ JoinIsDue(c) /\ Usable(c, c.socket)
    BY DEF Sound, StatusFits
  <2>2. PICK t : OneRoom(c, t)
    BY DEF Sound
  <2>3. c.socket # NoSocket /\ c.socket \in Sockets
    BY <2>1 DEF Usable, OneSocket
  <2>4. ~Busy(c)
    BY <2>3 DEF Settled, Busy, Waiting
  <2>5. c.link[c.socket].joined # NoRoom
    BY <2>1, <2>3, <2>4 DEF JoinIsDue
  <2>6. c.link[c.socket].joined \in {NoRoom, t} /\ c.page = t
    BY <2>2, <2>3 DEF OneRoom, LinkFits
  <2> QED  BY <2>1, <2>5, <2>6
<1>4. Spec => []CommandsAreKept
  BY CommandsStay
<1> QED  BY <1>1, <1>2, <1>3, <1>4, PTL DEF Spec
=============================================================================
