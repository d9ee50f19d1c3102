# Chal Jhootha: TLA+ models and proofs

Chal Jhootha is a bluffing card game. A Go server runs every room as an actor
that handles one inbox message at a time; browsers talk to it over a WebSocket;
Redis and PostgreSQL hold what survives a restart. This directory holds TLA+
models of that system, TLC runs over small instances of them, and theorems about
them checked by TLAPS.

Paths below are relative to the repository. `internal/` stands for
`chal-jhootha-server/internal/`, `web/` for `chal-jhootha-web/src/`.

    tlc -config match3.cfg MCMatch        # model-check a run
    tlapm MatchProofs.tla                 # check the proofs of a module

## 1. Inventory

### The parts and how they interact

    browser ──WebSocket──> session ──inbox (128)──> room actor <──inbox── timers
      ^                       ^                        │  │
      └──── events ───────────┴────── emitters ────────┘  │ snapshot after every change
                                                          v
                        SQL store <──worker── manager ──> Redis runtime

| Component | State it keeps | Operations | Hard behaviour | What makes it correct |
|---|---|---|---|---|
| Game rules (`internal/rules`) | none | opening declarations, bluff detection, rotation, match end, lobby limits, shuffle and deal | wrap-around of the rotation, players without a seat, nobody left in rotation | the next player can act; a bluff is exactly a play that is not what it declares |
| Room actor, game engine (`internal/room/room.go`) | seats, host, configuration, phase, hands, stack, top play, turn, skips, winners, pending finish, results lobby | join, leave, disconnect, configure, start, play, challenge, skip, burn, finish, reset, return, destroy | several bookkeeping structures for the same cards and players, updated in one handler along many paths; leaves at any moment | cards are conserved; the turn is always with somebody who can act; wins are confirmed as the rules say; nothing leaks from one match to the next |
| Room actor, turn clock (`setCurrentTurn`, `markReconnected`) | timer, turn generation, deadline, cushion flag, expiry messages in the inbox | arm, fire, enqueue, cushion, expire, restore | timers race with moves; the actor sends to its own bounded inbox; reconnects during an expiry | an expiry only ends the turn it was made for; a shown countdown is real; a turn ends |
| Room actor, devices | connections of a seat, the controlling one | attach, promote, supersede, drop | old and new sessions of a user overlap; a leave message may be dropped; a join may time out | a seat counts as connected exactly while a device is behind it; one controller |
| Room actor, idempotency (`idempotency.go`) | the last 256 request ids, the sequence number | replay, reject a stale command | retries after a lost answer, window overflow, restart | an action is applied at most once |
| Snapshot and restore (`snapshot.go`) | the persisted image of a room | persist, restore | a restart in mid-turn; older snapshots | a restored room goes on where the last one stopped |
| Room manager and worker (`manager.go`) | live rooms, write queue, user-room mapping, tombstones, completed matches | create, get, delete, restore, flush, expire | queue entries taken out and written later; code reuse; failed writes put back | nothing deleted comes back; nothing acknowledged is lost |
| Redis runtime (`internal/live`) | snapshots by sequence, lease, presence, invitations | save if newer, delete, claim, take | several writers; keys that expire apart | an older snapshot never replaces a newer one; an invitation is used once |
| SQL store (`internal/store`) | rooms, user_rooms, matches, accounts, friendships | upserts guarded by sequence, conditional updates | partial failure, crossing requests | as for the manager; a friendship is agreed by both |
| WebSocket transport (`internal/transport`) | session, joined room, rate limit | join and wait, forward, hang up | 3 s join timeout, 100 ms leave timeout | no session outlives its place in the room |
| Authentication, profiles, friends, invites (`internal/auth`) | accounts, sessions, tickets, friendships | HTTP requests | simultaneous requests of two users or two devices | as for the stores |
| Web socket client (`web/ws/socket.ts`) | socket, queue, unanswered commands, reconnect timer | connect, send, retry, resolve | old sockets that close after the new one opened; timers and tickets that overlap | a command is kept until it is answered and applied once; a room that is shown is joined |
| Web game store (`web/state/gameStore.ts`) | the tab's picture of the room, the pending action | reduce events, enter, leave | omitted fields, gaps, answers before their state | the picture converges to the room; a move meets the pile it was chosen on |
| Composing a move (`ActionBar`, `OpeningDeclaration`, `GameRoom`, `shared/rules.ts`) | selection, declaration, the command under way | select, declare, play | the hand and the turn change under the selection | what is sent is what the room accepts |
| Card flights (`GameRoom`, `CardFlightLayer`) | concealed cards, flights, the pending pick-up | fly, land, cancel | two events that belong together come apart | no card of the hand stays concealed |
| Profile pages (`Profile`, `PublicProfile`), bell (`Navbar`) | lists, search, dossier, invitations | ask, answer, remove, look up, poll | answers in any order, optimistic changes | a page at rest shows what it was told |
| Voice (`web/voice/voice.ts`, `handleVoice`) | members, peer connections, microphone, announcements kept for the next connection | join, offer, answer, leave | signals cross; the page goes while the browser asks; a leave that finds no connection or no control | nobody is heard who has no controls |
| Process wiring, metrics, logging | | | none | not modelled |

The session sends every request to the inbox and waits for a place in it; timers
do the same from their own goroutine. The actor alone changes the room, answers
through the emitter of the sending session, broadcasts a state per viewer, and
hands a snapshot to the manager, which writes Redis at once and SQL later.

`PROJECT.json` lists every component with its status, and under `hazards` the
places where the code is exposed to something a test would hardly reach, with the
properties that cover each or the reason why none does; section 5 has more.

### Which module models what

| Component | Modules |
|---|---|
| Game rules | `Rules` |
| Game engine of the room actor, restore | `Match` (`MatchProofs`, `TurnProofs`, `MoveProofs`) |
| Turn clock of the room actor, sessions as its clients | `TurnClock` (`ClockProofs`) |
| One tab, its connections and sessions, devices of a seat, idempotency | `Session`, which implements `Delivery` (`SessionProofs`) |
| Events of the handlers, reducer, `expectedSeq` | `TableView`, which extends `Match` (`TableProofs`) |
| Manager, worker, Redis, Postgres, crash and restore | `Persistence`, which implements `Ledger` (`LedgerProofs`) |
| Putting a move together | `Composer`, which extends `Match` |
| Card flights | `Flights` |
| Voice | `Voice` |
| Friendships and the pages that show them | `Friends` |
| Player search, dossier of a player | `Search`, `Dossier` |
| Invitations and the bell | `Invites` |
| The pages together, one component in each behaviour | `Pages` (`PagesProofs`) |

`MCMatch`, `MCTurnClock`, `MCSession`, `MCTableView`, `MCPersistence` and
`MCPages` give the constants their values for TLC.

The components meet in three ways, and the models follow them. `TableView` and
`Composer` are compositions: they extend `Match`, and every step of the room in
them is an action of `Match`. `Session` and `TableView` split the connection
between tab and room: `Session` says how a tab is connected and that a command
is delivered, whatever the command is; `TableView` takes a tab that is connected
or not and says what commands and events mean. `Match` and `Persistence` split
the actor: `Match` has the content of a room and restarts it from a snapshot of
its present state; `Persistence` reduces the content to a sequence number, seats
and an end, and says which snapshot a restart finds.

## 2. The modules and the code

Operators whose comment begins with "Faulty variant" are not used by any
specification. They are wrong versions of the operator that follows them and
document which mistake each property catches.

### `Rules` (`internal/rules/rules.go`, `deck.go`)

One operator per function the room calls. A card is a face and the deck it comes from, a face
has a rank; how many ranks and faces there are is a constant, so is the size of a
full opening group (4 in the code, `GroupSize`). `Deals` is the set of results
the shuffle and the round-robin deal can have, `Openers` the players who may
then open: the holder of an ace of spades, or anybody when the remainder of the
deck took it. Table arguments are records, so the rules apply to any state that
has the fields they read.

### `Match` (`internal/room/room.go`, `restoreRoom` in `snapshot.go`)

The variable `room` is the actor's record. The methods that handlers share are
functions from record to record with the names of the code: `SetCurrentTurn`,
`ClearRound`, `ConfirmPendingFinish`, `ResolveAllPass`, `ReconcileSkipProgression`,
`ApplySkip`, `MaybeEndGame`, ... An action is a whole handler: `LeaveRoom`, for
instance, applies the skip of a leaver on turn, removes the seat, reconciles the
skips, ends the match if it must, clears the hand and hands the room to another
host, in the order of `handleLeaveRoom`.

| Field | Code |
|---|---|
| `seats`, `online`, `done`, `handCount` | `State.Players` and its `IsDisconnected` (negated), `IsWinner`, `HandCount` |
| `hands`, `stack` | `playerHands`, `stack` |
| `stackCount`, `claimedRank`, `turn` | `StackCount`, `ClaimedRank`, `CurrentTurnPlayerID` of `State` |
| `topPlay` | `State.TopPlay`; its cards are the last `CardCount` cards of the stack |
| `pending`, `winners`, `winnerCount`, `locked` | `PendingFinishID`, `Winners`, `WinnerCount`, `WinnerCountLocked` of `State` |
| `skips`, `ready` | `consecutiveSkipPlayerIDs`, `resultsLobby` |
| `result` | what `recordCompletedMatch` hands to the manager |

A command that the handler rejects changes nothing and is not an action here;
stale and refused commands are in `TableView`. Left out: the destruction of the
room (`Persistence`), per-player statistics, `lastAction`, `roundOpenerId`,
names and avatars, none of which any modelled decision reads.

### `TurnClock` (the clock of `room.go`, restore in `snapshot.go`, sessions in `transport/websocket.go`)

The inbox is a bounded sequence of messages; sessions and fired timers append to
it when there is space, and the actor handles its head. A fired timer that finds
no space stays in `fired` and waits, as the goroutine blocked in its channel send
does. The actor's own sends (`select` with `default` in `setCurrentTurn` and
`markReconnected`) are dropped when there is no space; since a session can take
the last place while the actor is in the middle of a handler, `Posts` gives both
outcomes.

Abstractions and why they are sound:

- The generation is not a number: an expiry is `fresh` until the next turn
  begins, which is when the code would compare its generation and find it equal.
- The deadline and the timer share the countdown `left`: `setCurrentTurn` and
  `markReconnected` set both to the same instant.
- Which seat follows is left open. That an expiry never gives the turn to the
  same player is taken from `SkipPassesTheTurn`, an invariant of `Match`.
- A leave may set the turn twice within one handler; what the first call queued
  is outdated by the second, so only the second is modelled.
- A request of the player on turn may be refused (stale, or against the rules).
- Two identical waiting expiries count as one: the second would be ignored.
- A user has one device and a session waits for its join to be answered.
- Requests that arrive while the actor is in a handler commute with it, except
  for the last place in the inbox, which is why only that case is in `Posts`.
- A restart finds the snapshot of the current state. All sessions, timers and
  inbox messages are gone; the timer is armed for the rest of the turn or, when
  that is over, an expiry is queued, as `restoreRoom` does.

Two variables are history: `flip` is the parity of the generation and `steady`
says that the player on turn was connected for all of it.

### `Session` and `Delivery` (`web/ws/socket.ts`, `gameStore.ts`, `GameRoom.tsx`, `Home.tsx`; `transport/websocket.go`, `idempotency.go`, membership in `room.go`)

One visitor and one tab: a record `c` with what the tab keeps (stored room,
cookie, queue, unanswered commands, timers, ticket under way, sockets) and the
rooms as far as membership and commands go. The functions of `socket.ts` are
functions on the record, an action is one turn of the event loop with the React
effects at its end: `Opened` flushes the queue, `Closed` puts the unanswered
commands back and starts the timer, `ReconnectTimer` queues a join and connects,
`TicketArrives` makes the socket. A timer that is replaced without being stopped
is in `stray`. A socket has two ends which close apart, so that several sessions
of one user overlap in a room, which is where `AttachConn` and `Detach` choose
the controlling one. A reload keeps what session storage and cookies keep.

The store gives most commands only when connected with nothing pending (`Command`).
`setConfig` and `resetToLobby` ask for neither (`Configure`): the effect of
`Lobby.tsx:49` sends the configuration whenever it changes, over whatever action is
pending, and the tab then waits for the later command while the earlier one is still
sent and applied. A guest request may fail, after which nothing is sent
(`GuestFails`), and so may a ticket (`TicketRefused`); `RequestsFail` says whether they do.

`Delivery` is the promise to the visitor: a command is applied at most once,
after it was asked for, and the wait for it ends, by its answer or because the visitor
gave another command over it (`Overtake`). `CommandsAreDelivered` is its
specification, with `asked`, `waiting` and `count` mapped to the commands given,
the pending action of the store and the number of times rooms applied each.

Abstractions: the window of 256 request ids never fills; the 3 s and 100 ms
timeouts of the server are not there; the code of a destroyed room is not drawn
again; whether a browser reports the close of a socket before or after the next
one is made is a constant set (`LateCloses`), since browsers differ. One field of the
tab is history: `plain` says that since the last room the visitor entered from the home
page with nothing left of an earlier one (`AtRest`) there was neither another entry
from there nor a return to the tab that connects without a join.

### `TableView` (events in `room.go`; `onMessage` of `gameStore.ts`; `ActionBar.tsx`, `Lobby.tsx`)

The room of `Match`, a bounded pipe to one player's tab and the tab's picture.
Each handler sends what the code sends, in its order and with the sequence
number the code gives it; a pipe that is full drops the rest (`Deliver`). `Reduce`
is the reducer, event by event, with the fields that `omitempty` leaves out
keeping their old value. The tab's commands carry `expectedSeq`, and as history
the pile they were chosen on and whether the tab then knew the whole table
(`drawn`): whether it had a `game_state` since it joined and no event since was
dropped. A lost connection forgets both pipes, and the
unanswered command follows the join on the new one.

### `Persistence` and `Ledger` (`internal/room/manager.go`, `internal/live/runtime.go`, `internal/store/store.go`)

A step is a critical section of `persistMu` or a call of a store, so whatever the
code does between two of them can be overtaken. The worker's loop is split into
`Wake`, `Take`, the three saves, `Retry` and `Requeue`; a deletion into the mark
(`Mark`: tombstone, removal from the registry and the queue), `DropSql` and `DropRedis`; a
restore into `Boot` and one `RestoreRoom` per snapshot. `Commit` is what every
handler ends with: persist and then answer, whatever became of the save.

The queues, the tombstones and the retries are per code, but one worker drains them all
and one token wakes it, so rooms meet there. The last attempt at a save (`Retry`) and
putting it back (`Requeue`) are two critical sections. A room deleted in between
has its tombstone when `Requeue` looks, which then puts nothing back and leaves no token
(`manager.go:266`), while the drain ends all the same: whatever else is queued waits for
the next change of any room. The history variable `cut` says that the last drain ended
like this.

`Ledger` is the promise: each store keeps ever later states of an open room and
nothing of a shut one, and a room that is nowhere stays nowhere. Its variables
are mapped to the registry and to the sequence numbers in Redis and Postgres.

Abstractions: `ClearUserRoom` does not fail; what is accepted while the room is
being deleted is not counted as accepted; the list of request ids is not part of
the snapshot in the code either; a graceful stop is a crash after the queue has
been emptied.

### The pages: `Voice`, `Composer`, `Flights`, `Friends`, `Search`, `Dossier`, `Invites`

- **`Voice`**: the `RoomVoice` object behind a player's controls, with its
  handlers cut at every `await`, the relay in the actor, and WebRTC as far as
  `voice.ts` relies on it (signalling states, rollback, audio once an offer and
  its answer meet). `link` says how the page stands with the room: the device that has
  control (`heard`), one that another device has superseded (`unheard`: it is sent what
  is relayed, and what it sends is refused, `room.go:1558`), a connection lost and not
  noticed, or none. `Takes` is the relay's decision: control, not finished, and no more
  players at the table than voice is for (`room.go:1564`), except for a leave. A page without
  a connection keeps its announcements for the next one (`outbox`), as `sendEvent` does,
  and its offers and answers are lost; a lost connection takes what was sent on it along, and a
  speaker the room finds gone is dropped from the members without a word
  (`room.go:994`). A connection between two browsers may fail at any time, and whoever has a
  microphone then offers anew.
- **`Composer`**: selection, declaration panel and buttons, re-rendered by the
  steps of `Match`. The client's own copy of the rules (`GroupCounts`,
  `IsValidOpening`) is translated separately from `Rules`, so that the property
  compares the two.
- **`Flights`**: the states of `GameRoom.tsx` that decide what flies and what is
  concealed, fed by messages of an environment of two players. A message names who
  is back in the results lobby, or leaves the field out when nobody is, and the page
  then keeps the list it has (`NewView`, `gameStore.ts:351`); so after a rematch the lobby
  takes the place of the table at the end of the match, without a click. It relies on
  framer-motion not animating what is there when the layer mounts
  (`AnimatePresence initial={false}`).
- **`Friends`**: the rows of `friendships` with the conditions of the SQL
  statements, three pages of two users with their optimistic changes. Asking again
  after a refusal is two steps, the SELECT that finds the row declined (`FindDeclined`)
  and the UPDATE that names it by its id alone (`AskAgain`, `store.go:533-549`), and
  the row may change in between. The list of recent opponents is left out.
- **`Search`**, **`Dossier`**: lookups under way, whose answers come in any order,
  and the friend request that writes its result over what is shown.
- **`Invites`**: invitations, the index of a player and their expiries, the three
  requests and the bell on two devices. Reading the index and the invitations in it is one
  step, as is taking an invitation and removing it from the index.

`Pages` puts an instance of each beside the others, with constants of its own, and
states their properties; `MCPages` gives the constants their values.

## 3. The runs

All bounds are constants of the configurations or of the instances in `Pages`.
Only `pages` has a state constraint, explained below.

| Run | Instance | States | Result |
|---|---|---|---|
| `match_three_players` (`match3.cfg`) | 3 users, 3 seats, 1 deck of 4 faces (2 ranks), groups of 2, targets 0 (unset) and 2 | 597,761 | holds |
| `match_rule6` | 3 users, 3 faces | | violated, section 5 |
| `match_rematch` | 3 users, 3 faces | | violated, section 5 |
| `turn_clock` (`clock3.cfg`) | 3 users, turn of 3 ticks, cushion of 2, inbox of 2 | 2,156,982 | holds |
| `turn_clock_ends` (`clock_live.cfg`) | 2 users, the same clock, liveness | 348,348 | holds |
| `clock_cushion` | 2 users | | violated, section 5 |
| `clock_stalls` | 2 users, inbox of 10 | | violated, section 5 |
| `session` | 2 rooms, 2 sockets, 2 guests or an account, 1 command, 2 faults, 1 move between pages | 3,228,447 | holds |
| `session_delivery` | 1 room, 2 sockets, 1 account, 2 commands, 1 fault; liveness and refinement | 19,243 | holds |
| `table` | 2 players, 4 faces, pipe of 4, 6 sequence numbers, 2 commands of the tab, 1 lost connection | 1,172,996 | holds |
| `ledger` | 2 rooms, 1 user, 2 tries, 3 steps, 2 failed saves; with one of the rooms also 1 failed Redis call, 1 failed deletion, 1 crash | 1,504,660 | holds |
| `pages` | one component in each behaviour, section below | 5,072,954 | holds |

**`match_three_players`.** Three players are the least with a bystander: somebody
who is neither the maker of a play nor on turn, whose skip counts towards a burn,
who may leave in between, and who makes the difference between "the next player"
and "everybody". With four cards among two or three players a hand has one or two,
so that last cards, pending finishes, covering plays and challenged finishes are
what the run is made of, and plays of several cards, openings that declare two
ranks and piles of several plays occur. Users join, lose their device, come back and
leave in every phase, the server restarts at any moment, and rematches start from
the results lobby. It shows that the turn is always with somebody who can act and
really passes on when it is skipped (`TurnIsPlayable`, `SkipPassesTheTurn`), that
finishes are confirmed late, once and for the right player (`FinishIsAccounted`,
`WinsAreConfirmedLater`, `WinnersAgree`), that burns need every player's skip
(`BurnNeedsAllSkips`), that host and lobby stay in order (`HostIsSeated`,
`LobbyIsClean`), that cards and counts agree through leaves and burns
(`CardCustody`, `CountsAgree`), that cards move only by way of the stack and the
whole stack to one player (`CardsMoveByTheStack`), and that the player who was
wrong pays (`LiarsPay`). There a play is compared with `IsHonest`, a definition
independent of the one the code uses: its cards can be laid out in the declared
groups.

Users are interchangeable (the seating order is part of the state), so they are a
symmetry set. The four suits and up to three decks differ only in their number;
deck ids matter to the identity of a card alone, which the theorems cover for any
number of decks.

**`turn_clock`.** A turn of three ticks and a cushion of two have an instant
before the cushion is due, one at which it is, and the end; an inbox of two can
be full while a timer has fired, and holds an expiry behind a request and a
request behind an expiry. It shows that a countdown clients are shown always has
a running timer or a valid expiry behind it (`ShownCountdownIsReal`) and that the
clock never cuts short a player who was present all the time
(`PresentPlayersKeepTheirTime`).

**`turn_clock_ends`.** A turn that has a clock ends (`ClockedTurnsEnd`), however
often its player hangs up and comes back, because the cushion is given once a
turn. Two users suffice: the player on turn and somebody else to pass it to.

**`session`.** Two sockets are what it takes for an old connection to close after
the new one opened; two rooms for a tab to be in a room other than the one it last
joined; two faults for a connection or a request to be lost while an earlier loss is
being made up for, or a hidden tab to come back in between; late close events come in
addition. One move is an entry from the home page or the way back to it, beside the
entries of the room page's own; more of them, and more commands, are for the theorems,
which bound neither.
It shows that a command is applied once in its room (`AppliedOnce`), is kept as
long as the visitor waits for it (`PendingIsKept`), and that a tab at rest that
shows a room as connected is in it (`ShownRoomIsJoined`). The last has three exceptions,
which the code does not provide for, so the statement names them:

- a browser that reports the close of a socket after the next one is made
  (`socket.ts:118` clears the variable that holds the new one);
- a return to a hidden tab whose connection is lost before the timer has fired
  (`socket.ts:184` connects, nothing queues a join, and the opened socket stops the
  timer): the tab is connected with the old room on the screen and in none for the
  server, which the visitor learns from the next command, when it is refused;
- a room entered from the home page while a connection, a message or an entry of an
  earlier one is left (`socket.ts:83`, `gameStore.ts:84`): the tab shows one room and
  is joined to the other. It takes two moves; the theorem bounds none.

Sockets and guests are symmetric.

**`session_delivery`.** The same module under fairness, without the two things
that leave a tab idle for good: requests that fail (socket.ts:65) and late closes.
It shows the refinement of `Delivery`, fairness included (`CommandsAreDelivered`),
and that a lost connection is made up for (`LossIsMadeUpFor`). Of the two commands each
may be a configuration that overtakes the other. The visitor does not go home
(`MaxMoves = 0`), for a second entry under way can leave the tab without a stored
room, and one fault is what the refinement needs: a second loss while the first
is being made up for lets a command reach the room before the join, which answers
it with an error and the tab gives it up.

**`table`.** Two players and six sequence numbers let a match start, have plays
and a challenge, and end, and two commands let one be sent again while another is
refused as stale; a pipe of four overflows in the middle of the events of one
handler, and is drained before the room goes on when two wait. A lost connection
comes at every point. It shows that the picture agrees with the room when nothing
is under way and nothing was dropped (`ViewAgrees`), that a play or a challenge
meets the pile it was chosen on and that a command sent again counts once
(`MovesMeetTheirPile`), and that the picture ends up right (`ViewSettles`).

`expectedSeq` ("Concurrency guard", `chal-jhootha-web/shared/src/schema.ts:47`) does less than its
name says: the reducer takes the number over from any event (`gameStore.ts:282`), also
from the `joined` that precedes the `game_state` of a rejoin, and from events
behind a gap. A move chosen in between carries a number the room accepts and was
chosen on an older pile. So `MovesMeetTheirPile` speaks of moves that were chosen
by a tab that had a `game_state`, and every event, since it joined (`whole`). A larger instance
(eight sequence numbers, two events waiting; 16.3 million states) holds as well.

**`ledger`.** Rooms meet in the worker: one drain and one token serve all of them. So
the run has two rooms with a code each, in two scopes (`Scopes`). In the first only one room
is opened, and every kind of failure comes at every point: two tries and two failed
saves, which let a save be given up and put back while a newer one waits, one failed Redis call,
one half deletion and one crash. In the second both rooms are opened, the second of which is
joined and no more, and saves fail: what is queued of one waits while the save of the other
is given up, put back, or dropped because it was deleted just then. Every
bound is on failures and on steps of the actors. Shown are the refinement of
`Ledger` (`KeepsALedger`), that nothing accepted is lost (`AcceptedSurvives`), that
Postgres catches up (`StoreCatchesUp`) and that a finished match is recorded
(`MatchesAreRecorded`). The last two promise nothing after a crash, which takes the queue
along, nor after a drain that was cut short (`cut`) until the next one.

**`pages`.** The components of the pages share no state, so one run has one of
them in each behaviour (`part`), while the variables of the others stay at `Off`.
The instances: voice for two players, who are alike (`AlikeSpeakers`), may show their controls
three times in all and lose a connection or control once; a composer with groups of two, and a
second one with groups of one in which a hand can hold more cards than can be declared (over two
matches); flights of four cards over two matches with one dropped message; three pages of two
users, who ask three times; three changes of the searched text; four changes of the dossier's
address; two invitations on two devices. The constraint `Explored` leaves out executions in
which too much comes together:

- of voice, offers, controls shown and breaks are five in all;
- of a friends page, answers, removals and failures are two in all, and a third request is
  made only while another is about to be written over a declined row;
- of the bell, polls, failures and changes are two in all;
- of the flights, the first match has one deal, since its cards are alike until then, more
  than four moves need nothing dropped and nothing done in haste, and the sixth is one of a
  rematch.

Behaviours may end, because every operation is bounded; hence no deadlock check,
as in `session`, `session_delivery` and `ledger`.

## 4. Fairness

Liveness is asked of four modules. Users owe nothing in any of them: no fairness
is assumed of joins, moves, clicks, hang-ups, crashes or lost connections.

`TurnClock`:

- `WF(Tick)` and `WF(TimerFires)`: time passes and the Go runtime runs due timers;
- `WF(HandleMessage)`: the actor's goroutine is scheduled, and its loop takes the
  next message whenever there is one;
- `SF(Deliver)`: senders blocked on a Go channel are served in the order in which
  they blocked, so a waiting timer gets its place although sessions compete for
  it again and again; weak fairness would not do, since the inbox is full in
  between. A process that restarts for ever restores the same deadline each time,
  which is why a turn ends even then.

`Session`: HTTP requests are answered (`Entering`, `SessionArrives`,
`ClearGuestArrives`, `TicketArrives`, the refusal of a ticket to somebody
unknown), browser timers fire (`Timers`), and for each socket the browser
delivers its events (`Browser`), the server reads what it was sent (`Server`) and
notices that a connection is gone (`SessionEnds`), by TCP or by its ping.

`TableView`: events are received, commands handled, and a lost connection comes
back (`Receive`, `HandleCommand`, `Rejoin`); the last is what
`LossIsMadeUpFor` shows of `Session`.

`Persistence`: goroutines that can go on do (`TrackUserRoom`, `StopActor`,
`Deletion`, `Worker`, `Restart`: an orchestrator starts the process again).
Calls fail only as often as the bounds say, which is how "the database comes back"
is expressed.

## 5. Where code and documents differ

Shown by a run each:

- **`match_rule6`.** README.md:57 confirms a win when the last cards survive the
  turn of the next player. In the code the next player's skip leaves the finish
  pending; a covering play, a failed challenge or a skip of everybody confirms it.
- **`match_rematch`.** The results lobby enables the start button with two seats.
  When one of three players leaves after a match with two winners, the locked
  target of two no longer fits, `handleStartGame` refuses, and neither the target
  nor the phase can be changed and nobody can join: the room can never start again.
- **`clock_cushion`.** README.md:54 promises ten seconds to a reconnecting
  player. `markReconnected` grants them without raising the generation, so an
  expiry of the same turn that already waits in the inbox skips the player in the
  next step.
- **`clock_stalls`.** README.md:53 says the clock runs continuously. When a turn
  passes to a disconnected player while nobody is connected, `setCurrentTurn`
  queues nothing and keeps the deadline of an earlier turn; if the player comes
  back while that old deadline is more than the cushion away, `markReconnected`
  arms nothing either, and the turn has no clock. The run has an inbox of ten, so
  that this, and not a full inbox, is what it finds.

Other statements one might make of the code that it does not satisfy. Each came
up while a property was being stated; the property that stands excludes it, and
says so in its comment or in the hazards of `PROJECT.json`:

| Where | What |
|---|---|
| `manager.go:258` | The worker takes a user-room mapping out of the queue and writes it later; a deliberate leave in between clears the store first and the mapping reappears (the comment at `manager.go:109` says it cannot). |
| `manager.go:290` | A failed mapping is put back over a newer one. |
| `manager.go:266` | A save given up of a room deleted just then is put back by nobody, and leaves no token while the drain ends; what other rooms have queued waits until the next change of any room. |
| `manager.go:142` | An action whose Redis save failed is accepted, and neither saved nor queued; a crash loses it. |
| `manager.go:169`, `:469` | A match that waits in memory for Postgres is lost by a crash when the rooms come from Redis, which are restored with `record = false`. |
| `manager.go:541` | A code drawn again has no tombstone, so the old actor, if it still runs, writes over the new room. |
| `manager.go:576` | A deletion ignores failures; after a crash what is left of the room brings it back. |
| `room.go:1058` | Who joins between the last leave and the destruction sits in a room that vanishes. |
| `room.go:1452` | A skip out of turn gets no answer, and the tab waits for it. |
| `room.go:372` | What a full outbound queue drops is noticed only through a gap in the sequence numbers, which an answer may have closed. |
| `websocket.go:169`, `:319` | A dropped leave, or a join answered too late, leaves a seat connected with no device. |
| `socket.ts:29` | `room_left` does not resolve the leave it answers, which is sent again in the next room of the tab. |
| `socket.ts:65` | A refused ticket leaves the tab offline with nothing scheduled. |
| `socket.ts:184` | A tab that becomes visible connects without a join; with late close events the room is shown and not joined. |
| `gameStore.ts:84` | Two entries under way make two guests; the seat of the first stays behind. |
| `gameStore.ts:140`, `:126` | `setConfig` and `resetToLobby` overwrite the pending action whatever it is; the visitor no longer waits for the earlier one, which is still carried out. |
| `gameStore.ts:342`, `:351` | The top play of an emptied stack, and an emptied results lobby, stay in the tab's picture; with the list of the last match the lobby replaces the table at the end of a rematch, cards in flight or not. |
| `store.go:533-549` | Asking again after a refusal writes "pending" over whatever the row has become since it was read, an acceptance included. |
| `voice.ts:35` | Hiding the controls while the browser asks for the microphone leaves a microphone open that nothing closes. It is not heard. |
| `room.go:1558`, `socket.ts:157` | A leave from a device that has lost control is refused, and one sent on a dying connection is lost; the player stays a member and the others keep the line. |
| `voice.ts:115` | An offer that arrives before the own microphone is answered without a track, and not repeated. |
| `GameRoom.tsx:303`, `:418` | A state rendered before its challenge result flies nothing; a lobby that takes the place of the table while cards fly, by a click or by itself, conceals them until the next match. |
| `Profile.tsx:249` | A removal that fails puts back the list of when it was tried. |
| `Profile.tsx:174`, `:210`; `PublicProfile.tsx:44` | An overtaken answer, or the success of an older request, is shown of another player. |
| `Navbar.tsx:29` | A poll answered before an invitation was pushed removes it from the bell until the next poll. |
| `profile.go:360` | An acceptance that is refused has used the invitation up. |

## 6. The proofs

TLAPS checks, for every value of the constants that satisfies the assumptions:

| Theorem | Module | Says |
|---|---|---|
| `TypeCorrect` | `MatchProofs` | `Spec => []TypeOK` |
| `CardsInCustody` | `MatchProofs` | `Spec => []CardCustody`: no card is ever in two places |
| `CountsAreRight` | `MatchProofs` | `Spec => []CountsAgree`: the counts clients see are right |
| `HostSeated` | `MatchProofs` | `Spec => []HostIsSeated`: a room with players has one of them as host |
| `LobbyClean` | `MatchProofs` | `Spec => []LobbyIsClean`: the lobby carries nothing over from a match |
| `TurnPlayable` | `TurnProofs` | `Spec => []TurnIsPlayable`: in a match somebody who can act is on turn |
| `SkipPasses` | `TurnProofs` | `Spec => []SkipPassesTheTurn`: a skip moves the turn, no skip is counted that a play made void |
| `FinishAccounted` | `TurnProofs` | `Spec => []FinishIsAccounted`: an empty hand is confirmed or on top of the stack |
| `WinnersRight` | `TurnProofs` | `Spec => []WinnersAgree`: order, flags, target and recorded result agree |
| `WinsConfirmed` | `MoveProofs` | `Spec => WinsAreConfirmedLater`: only who was pending before the step wins in it |
| `CardsMove` | `MoveProofs` | `Spec => CardsMoveByTheStack`: a hand gains the whole stack or nothing |
| `BurnsAfterAllSkips` | `MoveProofs` | `Spec => BurnNeedsAllSkips`: the stack burns only when everybody in rotation has skipped |
| `ChallengesCostTheLiar` | `MoveProofs` | `Spec => LiarsPay`: the bluff test of the code is that of `IsHonest` |
| `TableIsAMatch` | `TableProofs` | `TableSpec => [][Next]_room /\ []` of `TypeOK`, `CardCustody`, `CountsAgree` and `TurnIsPlayable`: with pipes, tab and lost connections the room is still that of `Match` |
| `ViewIsRight` | `TableProofs` | `TableSpec => []ViewAgrees`: with nothing under way and nothing dropped, the tab shows the room |
| `MovesMeet` | `TableProofs` | `TableSpec => MovesMeetTheirPile`: a move meets the pile it was chosen on, and counts once |
| `ClockTypes` | `ClockProofs` | `Spec => []TypeOK` of `TurnClock` |
| `CountdownIsReal` | `ClockProofs` | `Spec => []ShownCountdownIsReal`: behind a countdown there is a clock |
| `TimeIsKept` | `ClockProofs` | `Spec => PresentPlayersKeepTheirTime`: no expiry is early for who was there all the time |
| `NeverTwice` | `SessionProofs` | `Spec => []AppliedOnce`: a command is applied at most once in a room |
| `NeverForgotten` | `SessionProofs` | `Spec => []PendingIsKept`: what is waited for will be sent again |
| `RoomIsJoined` | `SessionProofs` | `Spec => []ShownRoomIsJoined`: a settled tab is in the room it shows |
| `LedgerTypes` | `LedgerProofs` | `Spec => []TypeOK` of `Persistence` |
| `LedgerKept` | `LedgerProofs` | `~Recycle => (Spec => KeepsALedger)`: the refinement of `Ledger` |
| `AcceptedKept` | `LedgerProofs` | `~Recycle => (Spec => []AcceptedSurvives)`: what was accepted is in the room |
| `FriendsByAgreement` | `PagesProofs` | `Spec => []FriendsAgreed`: nobody is made a friend alone |
| `ListsSettle` | `PagesProofs` | `Spec => []ListSettles`: a page at rest lists what it was told |
| `SearchAnswers` | `PagesProofs` | `Spec => []SearchAnswersTheText`: the answer shown is that of the text |
| `DossierOfAddress` | `PagesProofs` | `Spec => []RecordIsOfHandle`: the dossier shown is that of the address |
| `InvitesAnsweredOnce` | `PagesProofs` | `Spec => []InviteAnsweredOnce`: one answer to an invitation is carried out |
| `LivingIsFound` | `PagesProofs` | `Spec => []InvitesAreFound`: the next poll brings every living invitation |
| `VoiceEnds` | `PagesProofs` | `Spec => []VoiceEndsWithItsControls`: nobody is heard who has no controls and microphone, and leavers are forgotten |
| `HandIsBrought` | `PagesProofs` | `Spec => []FlightsBringTheHand`: the pick-ups shown are those of the game, and in the end every card is shown and can be chosen |
| `DeclarationsHaveGroups` | `PagesProofs` | `Spec => []DeclarationsFit`: a declaration has a group for exactly the cards it is made for |

Assumptions of `Match`: the absent player is no user; ranks and faces of a deck
are finite, every face has a rank and the ace of spades is one of them; a full
group is not empty; the configurations clients ask for are natural numbers; "no
rank", "no play" and "no result" are none. Nothing bounds users, decks or hands,
and nothing is assumed of who asks for what. Of `TableView`: the tab belongs to a
user, there are finitely many users, and a pipe's capacity and the number of
commands are numbers; a pipe of any capacity, of none even, will do. Assumptions of `TurnClock`: the
cushion is shorter than a turn, neither it nor the inbox is empty, and nobody is no
user. Assumptions of `Session`: the visitor is invited to rooms, the bound on commands
is a number, and the names for "no user", "no room", "no socket" and the home page are
no users, no rooms and no sockets. Assumptions of `Persistence`: every actor has a code, the bounds are
numbers and there is at least one try, `None` is nothing else. Rooms, codes and users may be any sets. Assumptions of `Pages`: the
texts that are somebody's handle, nobody's or too short are different texts, none of
them is the mark for "none", every page belongs to a user, and the cards of the game
are finitely many. No theorem needs a
bound of the runs to be small, or to be a number where it is not named here.

*The room.* `TypeOK` is inductive as it stands: the record has its type, no user
has two seats, and only seated users are online, finished or back in the results
lobby. Every helper is a function on records, so `MatchProofs` proves once, for
any well-typed record, that a helper of a turn keeps it well typed and touches
neither seats nor hands (`KeepsTable`); a handler is then a chain of such steps.
Arithmetic on seats is needed in `NextPlayerHasSeat` (the rotation never leaves
the table) and `RemovedSeat` (removing a seat keeps the others, once each) only.

`CardCustody` is not inductive alone: that a play adds its cards to a stack that
does not hold them, and that the count of the stack is the sum, need the hands to
be disjoint from the stack *and* the counts to agree, and a challenge is accepted
by the public count while it moves the private cards. `MatchProofs` therefore
carries one invariant, `Cards`, the conjunction of custody and counts, next to
`TypeOK`. A helper of a turn either leaves the pile as it is or clears all four
fields that describe it (`KeepsPile`), so handlers fall in three groups: those
that move no card (`NoCardMoves`), those that end with empty hands or new ones,
and those that move cards between a hand and the stack. In the last group
(play, challenge, leave) the move is proved for the record in the middle of the
handler, and `CardsSettle` carries it to its end. A leave is the one handler that
breaks the invariant half way: the public count is zero while the hand is still
there, until `ClearPlayerRuntime`.

*The lobby.* `HostIsSeated` and `LobbyIsClean` each need little beside `TypeOK`:
a leaving host hands over to the first remaining seat, and a step ends in the
lobby only from the lobby or by a reset. What has to be shown is that no helper
of a turn ever produces a lobby, nor marks anybody in one.

*The rotation.* `GetNextPlayerID` looks for the nearest seat in rotation, counted
modulo the table. `TurnProofs` compares seats by their distance around the
table (`Ahead`) and proves two facts that the turn rests on: a nonempty set of
players in rotation that is closed under "next" is the whole rotation
(`GoingRound`), and when somebody gets up, "next" is what it was, but for the
player before them, whose next becomes theirs (`NextWithout`).

*The turn.* None of the four properties of `TurnProofs` is inductive, nor are the
four together. The invariant is `Sound`: the room is in play, over or in the
lobby (`InPlay`, `Over`, `InLobby`), and in play it adds to them `SkipsFit`: from
a player whose skip counts, "next" leads to another of them or to the player on
turn. With it,

- a skip that does not burn the stack moves the turn to somebody who has not
  skipped: were the next player one who has, the skippers would be closed under
  "next", so everybody would have skipped (`GoingRound`) and the stack would burn;
- a departure keeps `SkipsFit` (`NextWithout`), and the player on turn is in
  rotation and has not skipped, so `ReconcileSkipProgression` never finds the
  requirements met after a leave: the burn it guards against is unreachable;
- a pending finish is always the top play (`PendingOnTop`), so those who must skip
  are exactly the rotation, and a restart has nothing to confirm;
- a finish is confirmed with at least two players active before, so one remains or
  the match ends (`EndOrGo`), and a match that ends by a leave has nobody seated
  and pending, or that player and the one on turn would both be active.

`StartGameSound` also needs that with no more players than cards everybody is
dealt some (`EverybodyHasCards`); `VerdictSound`, that a stack with a count holds
cards (from `Cards`), so the loser of a challenge has some.

*The moves.* The action properties of `Match` need no invariant of their own but
what the step starts from. `CardsMoveByTheStack` and `WinsAreConfirmedLater` follow
from `TypeOK` by going through the handlers: a helper of a turn keeps the hands and
appends at most the pending player. `BurnNeedsAllSkips` needs `Sound` and `Cards`:
that a departure never completes a round of skips is the fact about
`ReconcileSkipProgression` above. `LiarsPay` compares two definitions of honesty.
The code counts, per rank, the cards of the play and the declared groups
(`IsClaimBluff`); `IsHonest` asks for a layout of the cards into groups. They agree
because a declaration on the table is well formed (`TopIsDeclared`, the invariant):
its groups have different ranks and add up to the number of cards. So a layout, if
there is one, puts every card into the one group of its rank.

*The tab's picture.* `ViewAgrees` speaks of the state in which nothing is under
way, so its invariant has to say what the events under way will make of the picture.
`TableInv` has five parts, and TLC checked it on all states of the `table` run before it was
proved:

- `RoomOK`: the invariants of `Match` that the handlers rely on, from the theorems of
  `MatchProofs` and `TurnProofs`;
- `Linking`: types; no number in a pipe, a picture or a command is ahead of the
  room's; without a connection nothing is under way;
- `Following`: if nothing was dropped, reducing the picture by the events under way,
  in their order, gives one that shows the room; and a picture whose number is already
  the room's shows its pile, for the events that still come do not touch it;
- `Waiting`: the command that waits is not ahead of the room either, and if it has the
  room's number and it is the tab's turn, its pile is the room's;
- `Mailing`: only the command the tab waits for is under way, and not at the same time as
  its answer.

The step for a handler has the same form each time (`OtherPlaysTold`,
`ChallengePile`, ...): what it sends takes any picture of the room before to one of the
room after, field by field, including the fields that `omitempty` leaves out and the
reducer keeps. That needs facts of the room, such as that a pile without a count has no
top play that a tab could call out. That an event in the middle
of a handler's events, which carries the handler's number already, cannot lend a move a
number it should not have is the second half of `Following`. That a command is carried out once follows
from `Mailing` and the room's list of request ids.

*The clock.* `ShownCountdownIsReal` is inductive together with `TypeOK`. What has
to be shown is that nothing but the expiry itself takes away what is behind the
countdown (`KeepsExpiries`): `setCurrentTurn` shows a countdown only to a connected player,
whose timer it arms; a cushion arms it again; a fired timer waits for its place in the
inbox as long as it takes; and whatever the actor takes from the inbox or appends to
it leaves an expiry that counts where it was. `PresentPlayersKeepTheirTime`
rests on `Unhurried`: of a player who was there for the whole turn and was given
no cushion, an expiry of this turn exists only with the time at zero. A new turn
makes it true, since every older message and every older timer is outdated by it and
an expiry it queues at once is that of an absent player.

*The commands.* `AppliedOnce` rests on `RunsAreRemembered`: what a room applied is
in its list of request ids, which outlives seats, connections and the room's last
player; so a copy that arrives on any connection is answered and not applied.
`PendingIsKept` is kept by every function of `socket.ts` for one of two reasons: it
leaves the unanswered commands alone (`Forgets`), or it is the answer, after which
nobody waits; the theorem goes through them function by function. A configuration that
overtakes the pending action is kept like any other command, and the one it
overtook stays among the unanswered ones too.

`ShownRoomIsJoined` speaks of a tab with nothing under way, so its invariant (`Sound`)
says what may be under way. The socket of the module is the only one that connects or
is open, and while there is one no other closes and no ticket is asked for
(`OneSocket`): that is where late closes are excluded. A tab that shows a room as
connected has its socket open (`StatusFits`). All that the tab holds of a room, on the
page, in storage, in the timers, the entries, the queue and the pipes, is of one room,
which is none until the server has created it (`OneRoom`); before that the create event
is an entry, in the queue or in the pipe, and only once, so that no second room is made
(`OneCreate`). And whoever shows a room without a session in it has something under
way (`JoinIsDue`): an entry, a queued join, a join in the pipe, or the error that
answers it, after which the tab no longer counts as settled. The last two are kept as
long as `plain` holds; a return to the tab breaks `JoinIsDue`, a second room `OneRoom`.
That the queue is reordered (`JoinFirst`) and that entries are split by who waited for
the ticket (`Released`) is covered by lemmas on `Picked`.

*The ledger.* A step of `Persistence` maps to a step of `Ledger` only in states
that can be reached, so the refinement rests on the invariant `LedgerInv`:

- `SnapshotsFit`: what waits in the queue, in the worker's hands or in a store is
  a snapshot of an actor of that code, and no newer than it, which is why a save
  of an open room never goes backwards;
- `CodesAreUsed`: whatever is known of a code was drawn, so a code that is drawn
  for the first time is known nowhere;
- `WritersAreKnown`: whoever may still write of a code is its registered actor or
  the code has a tombstone;
- `DeletionIsMarked`: a deletion under way has its tombstone, set before the first
  store is cleared;
- `StartIsQuiet`: while the server is down or restores, no queue, job or actor of
  the last process is left;
- `RestoringIsStored`: what a restore has still to build is what a store has.

With `Recycle` false the tombstone is never taken away, which `WritersAreKnown`
needs; with it the theorem is false, as section 5 says of `manager.go:541`.

`AcceptedSurvives` adds `SurvivalInv`, of states in which no call of Redis and no
deletion has failed: Redis is never behind what was accepted (`AcceptedIsKept`);
what waits for Postgres or has arrived there is in Redis too, for a deletion clears
Postgres first, and so is what the worker is saving, unless its code has a tombstone
(`RedisIsFirst`); hence whatever a restart has still to build is what Redis has
(`RestoringIsRedis`). A failed call breaks this at once, as section 5 says of
`manager.go:142` and `manager.go:576`.

*The pages.* `FriendsByAgreement` and `ListsSettle` share an invariant. Of the rows:
a friendship that stands has two who agreed, and one that is open the one who asked
(`RowsAreAgreed`), which the conditions of the three SQL statements keep, whatever
state a page was in when it sent its request. Of a page: as long as it shows
something ahead of an answer, the request or the reload that follows it is under way
(`HubsAreToldOf`). `SearchAnswers` rests on `LastIsOfText`: once the timer has
run out, the last lookup is of the text; when it was answered without overtaking an
older one, nothing else is under way, so its answer stays. `DossierOfAddress`: the
page listens to at most one lookup, the one of the address. The invitations
(`StoreIsIndexed`) need that the expiry of the index counts from the invitation made
last, so an index expires only when everything in it has; that an answer is carried
out once needs only that what was taken is gone (`TakenIsGone`).

*Voice.* That somebody is heard is a fact about two browsers, so the invariant says
what each may have been told. Whoever has told a player that audio comes under the
number of an offer, and still uses that number, has a microphone (`ClaimsAreBacked`):
a connection carries the microphone only while there is one, and when the controls go
the connections go. A number could come into use again by an offer that arrives late;
it does not, for an offer is on its way once, and nothing is said about it before it
is taken (`OffersComeOnce`). For the second half, behind all that a player without
controls or microphone has told, in whatever pipe, there is their leave
there is their leave (`LeavesFollow`): so with the pipes empty nothing of it is believed
any more. The leave may still wait in their own outbox, of which it is then the last entry
(`LeftAreNoMembers`); when it is sent, the room relays it to everybody who has a connection.
A page without one is sent nothing and, once it has noticed, has closed its controls and
with them its lines to other browsers (`LinksTyped`); until then nothing is asked of it. The exceptions are in the statement: a player who has
finished, of whom the room takes no leave; a microphone granted after the controls had
gone; and a last leave that was lost with its connection or refused for want of control
(`unsaid`).

*The flights.* The page learns of a pick-up by comparing two messages, so the
invariant of `HandIsBrought` says what the messages under way amount to: taken in
their order they lead, one step of the game at a time, from what the page has (what it
shows, how many results it has seen, whether a state is still owed to it, which list of
a results lobby it has kept) to what the room has (`MessagesLead`); a message that was dropped loosens this, and then only the
results are counted. The pick-ups shown are a prefix of those of the game, and the one
that waits for its state is the next, with the size of the pile that is shown
(`PickUpFits`). Unless the page was hasty or a message was dropped, every frame has a
flight for each of its cards, a card that is concealed is in a frame or on a flight
that will land, and a page that leaves the table has neither (`FlightsFit`). That cards
are counted needs them to be finitely many, and nothing else of them.

*The declaration.* The page keeps the selection and the ranks apart, and the room
changes under both. `FormFits` says that a declaration is on the page only while the
player may open and is connected, and that it has the groups of the cards that are
selected and in the hand. Every step keeps these cards or takes the declaration away:
the hand is locked, an answer or a lost connection hides the bar, no other player has a
turn, a new match comes after the end of the old one; and when the clock skips the
opener, who may be on turn again at once, no hand changes. `SentFits` is needed for the
room's answer to be one of the three moves. The two sizes of groups have the same steps
and nearly the same text.

*Only model-checked.* Liveness, and with it `ViewSettles` and the refinement of
`Delivery`, whose fairness is half of what it says, is beyond the prover. So is what rests on an
induction over a sum: that the counts of a composed play add up
(`ComposedPlaysAreLegal`, by the fold `ClaimTotal`).

## 7. Not modelled

- Two timeouts of the transport (a join answered after three seconds, a leave
  that finds the inbox full for 100 ms; `TurnClock` has the latter as an outcome),
  the rate limit and heartbeats.
- The window of 256 request ids at its limit: with fewer commands than places it
  never forgets; and it is not part of a snapshot, so after a restart only
  `expectedSeq` guards the game's moves.
- Several server processes: the lease of a room and presence in Redis.
- Old rows in Postgres (`PruneExpired`), and the derivation of a skip list from
  snapshots of an older release.
- Accounts, passwords, handles, pictures, statistics and recent opponents: single
  requests that meet no game state.
- Reactions: relayed with a limit, no game state.
- What the remaining components of the user interface draw, logging, metrics,
  process wiring: no behaviour of their own beyond what section 5 names.
- Shuffling is any deal that can result, its randomness is not a subject here.
