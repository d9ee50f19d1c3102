---------------------------- MODULE Persistence ----------------------------
(***************************************************************************)
(* The room manager and its write-behind worker.  A room actor saves every *)
(* state in Redis and queues it for Postgres; one worker empties the queue *)
(* with retries.  Destroying a room leaves a tombstone, and a restart      *)
(* builds the rooms from Redis or, when it has none, from Postgres.        *)
(*                                                                         *)
(* A critical section of persistMu, and a call of a store, is one step;    *)
(* between two of them every other goroutine may run.  The content of a    *)
(* room is reduced to its sequence number, who sits in it and whether its  *)
(* match is over.                                                          *)
(***************************************************************************)
EXTENDS Naturals, FiniteSets

CONSTANTS Rooms,      \* the actors that are ever started
          Codes,      \* the codes rooms go by
          CodeOf,     \* the code of each actor
          Users,      \* registered users
          None,
          Retries,    \* persistRetries, 5 in the code
          MaxSeq,     \* bound: the steps of one actor
          Scopes,     \* bound: how far behaviours go, see InScope
          Recycle     \* whether the code of a destroyed room may be drawn again

ASSUME CodeOfIsCode == CodeOf \in [Rooms -> Codes]
ASSUME BoundsAreNumbers ==
    /\ Retries \in Nat \ {0}
    /\ MaxSeq \in Nat
    /\ Recycle \in BOOLEAN
VARIABLES
    phase,      \* of the server: "down", "fromRedis" or "fromSql" while it
                \* restores, then "serving"
    restoring,  \* what Restore has still to build: a set of snapshots
    used,       \* the codes drawn so far
    registered, \* rooms: the actor of each code, None for none
    alive,      \* the actors that run, those told to close included
    room,       \* the state of each actor
    ending,     \* the actors whose destroyFn goroutine has not begun
    deleting,   \* the deletion that holds m.mu: its code and its next store
    tracking,   \* joins answered, their TrackUserRoom call still to come
    tombs,      \* deletedRooms
    pendingRooms, pendingMatches, pendingUsers, \* the queues
    notified,   \* whether persistNotify holds a token
    job,        \* what the worker has taken out, and which attempt comes next
    cut,        \* whether the last drain ended at a tombstone (a history variable)
    redis,      \* Redis: the snapshot of each code
    sqlRooms, sqlUsers, sqlMatches, \* Postgres: rooms, user_rooms, matches
    accepted,   \* the last step of each actor a player was told is accepted
    finished,   \* the actors whose match was ever played to its end
    faults,     \* the calls that failed so far, by kind
    crashes     \* the crashes so far

server == <<phase, restoring, used, registered, crashes>>
actors == <<alive, room, ending, accepted, finished>>
queues == <<pendingRooms, pendingMatches, pendingUsers, notified>>
worker == <<job, cut>>
sql    == <<sqlRooms, sqlUsers, sqlMatches>>
vars   == <<server, actors, deleting, tracking, tombs, queues, worker, redis, sql, faults>>

Snapshots == [room : Rooms, seq : 0..MaxSeq, seats : SUBSET Users, over : BOOLEAN]
ASSUME NoneIsNothing == None \notin Rooms \cup Snapshots

Mappings  == [user : Users, code : Codes]
Idle      == [kind |-> "idle"]
Ready     == [kind |-> "ready"]

NewRoom   == [seq |-> 0, seats |-> {}, over |-> FALSE]

Init ==
    /\ phase = "serving" /\ restoring = {} /\ used = {} /\ crashes = 0
    /\ registered = [c \in Codes |-> None]
    /\ alive = {} /\ ending = {} /\ finished = {}
    /\ room = [r \in Rooms |-> NewRoom]
    /\ accepted = [r \in Rooms |-> 0]
    /\ deleting = None /\ tracking = {} /\ tombs = {}
    /\ pendingRooms = [c \in Codes |-> None]
    /\ pendingMatches = {}
    /\ pendingUsers = [u \in Users |-> None]
    /\ notified = FALSE
    /\ job = Idle /\ cut = FALSE
    /\ redis = [c \in Codes |-> None]
    /\ sqlRooms = [c \in Codes |-> None]
    /\ sqlUsers = [u \in Users |-> None]
    /\ sqlMatches = {}
    /\ faults = [save |-> 0, live |-> 0, drop |-> 0]

\* A bound of the run: the codes drawn, the steps taken under each of them, the
\* failures of saves, calls of Redis and deletions, and the crashes are within
\* those of one of the scopes.
InScope(drawn, states, failed, stops) ==
    \E scope \in Scopes :
        /\ drawn \subseteq DOMAIN scope.steps
        /\ \A r \in Rooms : CodeOf[r] \in drawn => states[r].seq <= scope.steps[CodeOf[r]]
        /\ \A kind \in DOMAIN failed : failed[kind] <= scope.faults[kind]
        /\ stops <= scope.crashes

\* The script of SaveSnapshot, the WHERE of SaveRoom and the queue of
\* persistRoom: a snapshot replaces one that is not newer.
Newer(old, new) ==
    IF old # None /\ new.seq < old.seq THEN old ELSE new

\* Faulty variant: the failed snapshot replaces whatever came meanwhile.
PutOver(current, failed) == failed

\* requeueSnapshot: what came meanwhile wins unless it is older.
PutBack(current, failed) ==
    IF current = None \/ failed.seq > current.seq THEN failed ELSE current

Fail(kind) ==
    /\ faults' = [faults EXCEPT ![kind] = @ + 1]
    /\ InScope(used, room, faults', crashes)

\* marshalSnapshot of an actor in the given state, and back.
Snapshot(r, state) == [room |-> r, seq |-> state.seq, seats |-> state.seats, over |-> state.over]
StateOf(s) == [seq |-> s.seq, seats |-> s.seats, over |-> s.over]

(***************************************************************************)
(* Actors                                                                  *)
(***************************************************************************)
\* Faulty variant: the deletion is not looked at before Redis is written.
PersistAnyway(r, state, match) ==
    LET c == CodeOf[r] IN
    /\ room' = [room EXCEPT ![r] = state]
    /\ redis' = [redis EXCEPT ![c] = Newer(@, Snapshot(r, state))]
    /\ pendingRooms' = [pendingRooms EXCEPT ![c] = Newer(@, Snapshot(r, state))]
    /\ notified' = TRUE
    /\ UNCHANGED faults

\* persistRoom, once the actor is in the given state: nothing for a code
\* with a tombstone, and no place in the queue without Redis.  The worker has
\* a match to save as well if one is queued in the same handler.
Persist(r, state, match) ==
    LET c == CodeOf[r]
        s == Snapshot(r, state)
    IN  /\ room' = [room EXCEPT ![r] = state]
        /\ \/ /\ c \in tombs
              /\ notified' = (notified \/ match)
              /\ UNCHANGED <<redis, pendingRooms, faults>>
           \/ /\ c \notin tombs
              /\ redis' = [redis EXCEPT ![c] = Newer(@, s)]
              /\ pendingRooms' = [pendingRooms EXCEPT ![c] = Newer(@, s)]
              /\ notified' = TRUE
              /\ UNCHANGED faults
           \/ /\ c \notin tombs
              /\ Fail("live")
              /\ notified' = (notified \/ match)
              /\ UNCHANGED <<redis, pendingRooms>>

\* commitAction: action_accepted goes out whatever became of the save.  What
\* is accepted while the room is being deleted does not count.
Commit(r, state, match) ==
    /\ state.seq <= MaxSeq
    /\ Persist(r, state, match)
    /\ InScope(used, room', faults', crashes)
    /\ accepted' = IF CodeOf[r] \in tombs THEN accepted
                   ELSE [accepted EXCEPT ![r] = state.seq]

\* GetOrCreateRoom for a code generateRoomCode found free.
Create(r) ==
    LET c == CodeOf[r] IN
    /\ phase = "serving" /\ deleting = None
    /\ r \notin alive /\ room[r] = NewRoom
    /\ registered[c] = None
    /\ c \in used => Recycle
    /\ used' = used \cup {c} /\ InScope(used', room, faults, crashes)
    /\ tombs' = tombs \ {c}
    /\ registered' = [registered EXCEPT ![c] = r]
    /\ alive' = alive \cup {r}
    /\ UNCHANGED <<phase, restoring, crashes, room, ending, accepted, finished,
                   deleting, tracking, queues, worker, redis, sql, faults>>

\* A join from a session that has got hold of the actor: TrackUserRoom
\* follows the reply.
Join(u, r) ==
    LET s == room[r] IN
    /\ phase = "serving" /\ r \in alive
    /\ u \notin s.seats /\ ~s.over
    /\ Commit(r, [s EXCEPT !.seq = @ + 1, !.seats = @ \cup {u}], FALSE)
    /\ tracking' = tracking \cup {[user |-> u, code |-> CodeOf[r]]}
    /\ UNCHANGED <<server, alive, ending, finished, deleting, tombs,
                   pendingMatches, pendingUsers, worker, sql>>

TrackUserRoom(m) ==
    /\ m \in tracking
    /\ tracking' = tracking \ {m}
    /\ IF m.code \in tombs
       THEN UNCHANGED <<pendingUsers, notified>>
       ELSE /\ pendingUsers' = [pendingUsers EXCEPT ![m.user] = m.code]
            /\ notified' = TRUE
    /\ UNCHANGED <<server, actors, deleting, tombs, pendingRooms, pendingMatches,
                   worker, redis, sql, faults>>

\* A command or a timer that changes the room.
Act(r) ==
    /\ r \in alive /\ room[r].seats # {}
    /\ Commit(r, [room[r] EXCEPT !.seq = @ + 1], FALSE)
    /\ UNCHANGED <<server, alive, ending, finished, deleting, tracking, tombs,
                   pendingMatches, pendingUsers, worker, sql>>

\* maybeEndGame: the match is queued for Postgres before the room is saved.
Finish(r) ==
    /\ r \in alive /\ room[r].seats # {} /\ ~room[r].over
    /\ Commit(r, [room[r] EXCEPT !.seq = @ + 1, !.over = TRUE], TRUE)
    /\ finished' = finished \cup {r}
    /\ pendingMatches' = pendingMatches \cup {r}
    /\ UNCHANGED <<server, alive, ending, deleting, tracking, tombs,
                   pendingUsers, worker, sql>>

\* ClearUserRoom: the queued mapping and the stored one go together.
ClearUserRoom(u) ==
    /\ pendingUsers' = [pendingUsers EXCEPT ![u] = None]
    /\ sqlUsers' = [sqlUsers EXCEPT ![u] = None]

\* handleLeaveRoom, of a session that is done with its join.  The last to
\* leave has the room destroyed by a goroutine of its own.
Leave(u, r) ==
    LET left == room[r].seats \ {u} IN
    /\ r \in alive /\ u \in room[r].seats
    /\ \A m \in tracking : m.user # u
    /\ Commit(r, [room[r] EXCEPT !.seq = @ + 1, !.seats = left], FALSE)
    /\ ClearUserRoom(u)
    /\ ending' = IF left = {} THEN ending \cup {r} ELSE ending
    /\ UNCHANGED <<server, alive, finished, deleting, tracking, tombs,
                   pendingMatches, worker, sqlRooms, sqlMatches>>

\* handleDestroyRoom: the host closes the lobby.
Destroy(r) ==
    /\ r \in alive /\ room[r].seats # {} /\ ~room[r].over
    /\ Commit(r, [room[r] EXCEPT !.seq = @ + 1], FALSE)
    /\ ending' = ending \cup {r}
    /\ UNCHANGED <<server, alive, finished, deleting, tracking, tombs,
                   pendingMatches, pendingUsers, worker, sql>>

\* The actor sees that its CloseReq is closed; until then it may prefer its
\* inbox.
StopActor(r) ==
    /\ r \in alive /\ registered[CodeOf[r]] # r
    /\ alive' = alive \ {r}
    /\ UNCHANGED <<server, room, ending, accepted, finished, deleting, tracking,
                   tombs, queues, worker, redis, sql, faults>>

(***************************************************************************)
(* Deletion, under m.mu from its first step to its last                    *)
(***************************************************************************)
\* markRoomDeleted, and the actor told to close.
Mark(c) ==
    /\ deleting = None
    /\ deleting' = [code |-> c, next |-> "sql"]
    /\ tombs' = tombs \cup {c}
    /\ registered' = [registered EXCEPT ![c] = None]
    /\ pendingRooms' = [pendingRooms EXCEPT ![c] = None]
    /\ pendingUsers' = [u \in Users |-> IF pendingUsers[u] = c THEN None ELSE pendingUsers[u]]
    /\ UNCHANGED <<phase, restoring, used, crashes, alive, room, accepted, finished,
                   tracking, pendingMatches, notified, worker, redis, sql, faults>>

\* DeleteRoom, for whatever actor has the code by then.
DeleteRoom(r) ==
    /\ phase = "serving"
    /\ r \in ending /\ registered[CodeOf[r]] # None
    /\ ending' = ending \ {r}
    /\ Mark(CodeOf[r])

\* destroyFn finds no such room.
DeleteNothing(r) ==
    /\ r \in ending /\ registered[CodeOf[r]] = None /\ deleting = None
    /\ ending' = ending \ {r}
    /\ UNCHANGED <<server, alive, room, accepted, finished, deleting, tracking,
                   tombs, queues, worker, redis, sql, faults>>

\* cleanupOldRooms: nothing has come to the room for idleTTL.
Expire(r) ==
    /\ phase = "serving"
    /\ registered[CodeOf[r]] = r
    /\ Mark(CodeOf[r])
    /\ UNCHANGED ending

\* store.DeleteRoom takes the mappings to the room along; its error is ignored.
DropSql ==
    /\ deleting # None /\ deleting.next = "sql"
    /\ deleting' = [deleting EXCEPT !.next = "redis"]
    /\ LET c == deleting.code IN
       \/ /\ sqlRooms' = [sqlRooms EXCEPT ![c] = None]
          /\ sqlUsers' = [u \in Users |-> IF sqlUsers[u] = c THEN None ELSE sqlUsers[u]]
          /\ UNCHANGED faults
       \/ /\ Fail("drop")
          /\ UNCHANGED <<sqlRooms, sqlUsers>>
    /\ UNCHANGED <<server, actors, tracking, tombs, queues, worker, redis, sqlMatches>>

\* live.DeleteRoom; then m.mu is released.
DropRedis ==
    /\ deleting # None /\ deleting.next = "redis"
    /\ deleting' = None
    /\ \/ /\ redis' = [redis EXCEPT ![deleting.code] = None]
          /\ UNCHANGED faults
       \/ /\ Fail("drop")
          /\ UNCHANGED redis
    /\ UNCHANGED <<server, actors, tracking, tombs, queues, worker, sql>>

(***************************************************************************)
(* The worker                                                              *)
(***************************************************************************)
Wake ==
    /\ phase = "serving" /\ job = Idle /\ notified
    /\ notified' = FALSE
    /\ job' = Ready
    /\ cut' = FALSE
    /\ UNCHANGED <<server, actors, deleting, tracking, tombs, pendingRooms,
                   pendingMatches, pendingUsers, redis, sql, faults>>

NothingPending ==
    /\ \A c \in Codes : pendingRooms[c] = None
    /\ pendingMatches = {}
    /\ \A u \in Users : pendingUsers[u] = None

\* takePendingPersistence: rooms first, then matches, then mappings.
Take ==
    /\ job = Ready
    /\ \/ \E c \in Codes :
            /\ pendingRooms[c] # None
            /\ job' = [kind |-> "room", code |-> c, what |-> pendingRooms[c], tries |-> 1]
            /\ pendingRooms' = [pendingRooms EXCEPT ![c] = None]
            /\ UNCHANGED <<pendingMatches, pendingUsers>>
       \/ /\ \A c \in Codes : pendingRooms[c] = None
          /\ \E r \in pendingMatches :
                /\ job' = [kind |-> "match", what |-> r, tries |-> 1]
                /\ pendingMatches' = pendingMatches \ {r}
          /\ UNCHANGED <<pendingRooms, pendingUsers>>
       \/ /\ \A c \in Codes : pendingRooms[c] = None
          /\ pendingMatches = {}
          /\ \E u \in Users :
                /\ pendingUsers[u] # None
                /\ job' = [kind |-> "user", code |-> pendingUsers[u], what |-> u, tries |-> 1]
                /\ pendingUsers' = [pendingUsers EXCEPT ![u] = None]
          /\ UNCHANGED <<pendingRooms, pendingMatches>>
       \/ /\ NothingPending
          /\ job' = Idle
          /\ UNCHANGED <<pendingRooms, pendingMatches, pendingUsers>>
    /\ UNCHANGED <<server, actors, deleting, tracking, tombs, notified, cut, redis, sql, faults>>

\* An attempt to save: the drain has got hold of this and has not given it up.
Attempts(kind) == job.kind = kind /\ job.tries <= Retries

\* Faulty variant: the tombstone was read when the snapshot was taken out.
SaveRoomAnyway ==
    /\ Attempts("room")
    /\ job' = Ready
    /\ sqlRooms' = [sqlRooms EXCEPT ![job.code] = Newer(@, job.what)]
    /\ UNCHANGED <<server, actors, deleting, tracking, tombs, queues, cut, redis, sqlUsers,
                   sqlMatches, faults>>

\* saveSnapshotWithRetry: the tombstone is read under the lock of the write.
SaveRoom ==
    /\ Attempts("room")
    /\ job' = Ready
    /\ sqlRooms' = IF job.code \in tombs THEN sqlRooms
                   ELSE [sqlRooms EXCEPT ![job.code] = Newer(@, job.what)]
    /\ UNCHANGED <<server, actors, deleting, tracking, tombs, queues, cut, redis, sqlUsers,
                   sqlMatches, faults>>

SaveMatch ==
    /\ Attempts("match")
    /\ job' = Ready
    /\ sqlMatches' = sqlMatches \cup {job.what}
    /\ UNCHANGED <<server, actors, deleting, tracking, tombs, queues, cut, redis, sqlRooms,
                   sqlUsers, faults>>

\* user_rooms refers to rooms: the row of the room has to be there.
SaveUserRoom ==
    /\ Attempts("user")
    /\ job.code \in tombs \/ sqlRooms[job.code] # None
    /\ job' = Ready
    /\ sqlUsers' = IF job.code \in tombs THEN sqlUsers
                   ELSE [sqlUsers EXCEPT ![job.what] = job.code]
    /\ UNCHANGED <<server, actors, deleting, tracking, tombs, queues, cut, redis, sqlRooms,
                   sqlMatches, faults>>

\* A call of Postgres that fails, of bad luck or for want of the room's row.
SaveFails ==
    /\ job.kind \in {"room", "match", "user"}
    /\ job.kind # "match" => job.code \notin tombs
    /\ IF job.kind = "user" /\ sqlRooms[job.code] = None
       THEN UNCHANGED faults
       ELSE Fail("save")

\* Faulty variant: one attempt more than persistRetries.
RetryAgain ==
    /\ SaveFails
    /\ job.tries <= Retries + 1
    /\ job' = [job EXCEPT !.tries = @ + 1]
    /\ UNCHANGED <<server, actors, deleting, tracking, tombs, queues, cut, redis, sql>>

\* After the last attempt nothing is tried again: the lock is free, and what
\* could not be saved is put back in a step of its own.
Retry ==
    /\ SaveFails
    /\ job.tries <= Retries
    /\ job' = [job EXCEPT !.tries = @ + 1]
    /\ UNCHANGED <<server, actors, deleting, tracking, tombs, queues, cut, redis, sql>>

GivenUp == job.kind \in {"room", "match", "user"} /\ job.tries > Retries

\* Faulty variant: a match that could not be saved is dropped.
RequeueNoMatch ==
    /\ GivenUp
    /\ job' = Idle
    /\ \/ /\ job.kind # "match" /\ job.code \in tombs
          /\ cut' = TRUE
          /\ UNCHANGED queues
       \/ /\ job.kind # "match" /\ job.code \notin tombs
          /\ pendingRooms' =
                IF job.kind = "room"
                THEN [pendingRooms EXCEPT ![job.code] = PutBack(@, job.what)]
                ELSE pendingRooms
          /\ pendingUsers' =
                IF job.kind = "user"
                THEN [pendingUsers EXCEPT ![job.what] = job.code]
                ELSE pendingUsers
          /\ notified' = TRUE
          /\ UNCHANGED <<pendingMatches, cut>>
       \/ /\ job.kind = "match"
          /\ notified' = TRUE
          /\ UNCHANGED <<pendingRooms, pendingMatches, pendingUsers, cut>>
    /\ UNCHANGED <<server, actors, deleting, tracking, tombs, redis, sql, faults>>

\* requeueSnapshot, requeueMatch and requeueUserRoom; the drain ends either
\* way.  Of a room deleted since its last attempt nothing is put back, and then
\* nobody is told of what else waits in the queues.
Requeue ==
    /\ GivenUp
    /\ job' = Idle
    /\ \/ /\ job.kind # "match" /\ job.code \in tombs
          /\ cut' = TRUE
          /\ UNCHANGED queues
       \/ /\ job.kind = "room" /\ job.code \notin tombs
          /\ pendingRooms' = [pendingRooms EXCEPT ![job.code] = PutBack(@, job.what)]
          /\ notified' = TRUE
          /\ UNCHANGED <<pendingMatches, pendingUsers, cut>>
       \/ /\ job.kind = "user" /\ job.code \notin tombs
          /\ pendingUsers' = [pendingUsers EXCEPT ![job.what] = job.code]
          /\ notified' = TRUE
          /\ UNCHANGED <<pendingRooms, pendingMatches, cut>>
       \/ /\ job.kind = "match"
          /\ pendingMatches' = pendingMatches \cup {job.what}
          /\ notified' = TRUE
          /\ UNCHANGED <<pendingRooms, pendingUsers, cut>>
    /\ UNCHANGED <<server, actors, deleting, tracking, tombs, redis, sql, faults>>

(***************************************************************************)
(* Crash and restart                                                       *)
(***************************************************************************)
Crash ==
    /\ phase # "down"
    /\ crashes' = crashes + 1 /\ InScope(used, room, faults, crashes')
    /\ phase' = "down" /\ restoring' = {}
    /\ registered' = [c \in Codes |-> None]
    /\ alive' = {} /\ ending' = {} /\ deleting' = None /\ tracking' = {} /\ tombs' = {}
    /\ pendingRooms' = [c \in Codes |-> None]
    /\ pendingMatches' = {}
    /\ pendingUsers' = [u \in Users |-> None]
    /\ notified' = FALSE
    /\ job' = Idle /\ cut' = FALSE
    /\ UNCHANGED <<used, room, accepted, finished, redis, sql, faults>>

Stored(store) == {store[c] : c \in Codes} \ {None}

\* Faulty variant: Postgres is asked first.
BootFromSql ==
    /\ phase = "down"
    /\ phase' = IF Stored(sqlRooms) # {} THEN "fromSql" ELSE "fromRedis"
    /\ restoring' = IF Stored(sqlRooms) # {} THEN Stored(sqlRooms) ELSE Stored(redis)
    /\ UNCHANGED <<used, registered, crashes, actors, deleting, tracking, tombs, queues,
                   worker, redis, sql, faults>>

\* Restore reads Redis, and Postgres when Redis fails or has no room.
Boot ==
    /\ phase = "down"
    /\ \/ /\ Stored(redis) # {}
          /\ phase' = "fromRedis" /\ restoring' = Stored(redis)
          /\ UNCHANGED faults
       \/ /\ IF Stored(redis) = {} THEN UNCHANGED faults ELSE Fail("live")
          /\ phase' = "fromSql" /\ restoring' = Stored(sqlRooms)
    /\ UNCHANGED <<used, registered, crashes, actors, deleting, tracking, tombs, queues,
                   worker, redis, sql>>

\* restoreRoom saves the room when it had to mark somebody as disconnected.
\* Rooms out of Postgres are put into Redis and their matches queued again.
RestoreRoom(s) ==
    LET c == CodeOf[s.room]
        again == phase = "fromSql" /\ s.over
    IN  /\ s \in restoring
        /\ restoring' = restoring \ {s}
        /\ registered' = [registered EXCEPT ![c] = s.room]
        /\ alive' = alive \cup {s.room}
        /\ room' = [room EXCEPT ![s.room] = StateOf(s)]
        /\ redis' = [redis EXCEPT ![c] = Newer(@, s)]
        /\ pendingMatches' = IF again THEN pendingMatches \cup {s.room} ELSE pendingMatches
        /\ \E queued \in BOOLEAN :
              /\ queued => s.seats # {}
              /\ pendingRooms' = IF queued THEN [pendingRooms EXCEPT ![c] = s] ELSE pendingRooms
              /\ notified' = (notified \/ queued \/ again)
        /\ UNCHANGED <<phase, used, crashes, ending, accepted, finished, deleting,
                       tracking, tombs, pendingUsers, worker, sql, faults>>

\* The worker and the listener are started once all rooms are restored.
Serve ==
    /\ phase \in {"fromRedis", "fromSql"} /\ restoring = {}
    /\ phase' = "serving"
    /\ UNCHANGED <<restoring, used, registered, crashes, actors, deleting, tracking, tombs,
                   queues, worker, redis, sql, faults>>

Worker == Wake \/ Take \/ SaveRoom \/ SaveMatch \/ SaveUserRoom \/ Retry \/ Requeue

Deletion == \/ \E r \in Rooms : DeleteRoom(r) \/ DeleteNothing(r)
            \/ DropSql
            \/ DropRedis

Restart == Boot \/ (\E s \in restoring : RestoreRoom(s)) \/ Serve

Next ==
    \/ \E r \in Rooms : \/ Create(r) \/ Act(r) \/ Finish(r) \/ Destroy(r)
                        \/ StopActor(r) \/ Expire(r)
                        \/ \E u \in Users : Join(u, r) \/ Leave(u, r)
    \/ \E m \in tracking : TrackUserRoom(m)
    \/ Deletion
    \/ Worker
    \/ Crash
    \/ Restart

\* Goroutines that can go on do; nobody has to play, and calls fail only as
\* often as the bounds say.
Fairness ==
    /\ WF_vars(\E m \in tracking : TrackUserRoom(m))
    /\ WF_vars(\E r \in Rooms : StopActor(r))
    /\ WF_vars(Deletion)
    /\ WF_vars(Worker)
    /\ WF_vars(Restart)

Spec == Init /\ [][Next]_vars

FairSpec == Spec /\ Fairness

-----------------------------------------------------------------------------
Jobs ==
    {Idle, Ready}
        \cup [kind : {"room"}, code : Codes, what : Snapshots, tries : 1..(Retries + 1)]
        \cup [kind : {"match"}, what : Rooms, tries : 1..(Retries + 1)]
        \cup [kind : {"user"}, code : Codes, what : Users, tries : 1..(Retries + 1)]

\* Every variable has the shape of the field, queue or table it stands for.
TypeOK ==
    /\ phase \in {"down", "fromRedis", "fromSql", "serving"}
    /\ restoring \subseteq Snapshots /\ used \subseteq Codes /\ crashes \in Nat
    /\ registered \in [Codes -> Rooms \cup {None}]
    /\ alive \subseteq Rooms /\ ending \subseteq Rooms /\ finished \subseteq Rooms
    /\ room \in [Rooms -> [seq : 0..MaxSeq, seats : SUBSET Users, over : BOOLEAN]]
    /\ accepted \in [Rooms -> 0..MaxSeq]
    /\ deleting \in [code : Codes, next : {"sql", "redis"}] \cup {None}
    /\ tracking \subseteq Mappings
    /\ tombs \subseteq Codes
    /\ pendingRooms \in [Codes -> Snapshots \cup {None}]
    /\ pendingMatches \subseteq Rooms
    /\ pendingUsers \in [Users -> Codes \cup {None}]
    /\ notified \in BOOLEAN
    /\ job \in Jobs /\ cut \in BOOLEAN
    /\ redis \in [Codes -> Snapshots \cup {None}]
    /\ sqlRooms \in [Codes -> Snapshots \cup {None}]
    /\ sqlUsers \in [Users -> Codes \cup {None}]
    /\ sqlMatches \subseteq Rooms
    /\ faults \in [{"save", "live", "drop"} -> Nat]

\* Both stores seen as the ledger of Ledger: a code never drawn counts as
\* open, a store without a row of it as having its state 0.
SeqIn(store) == [c \in Codes |-> IF store[c] = None THEN 0 ELSE store[c].seq]

L == INSTANCE Ledger WITH
        Stores <- {"redis", "sql"},
        Seqs   <- 0..MaxSeq,
        open   <- {c \in Codes : c \notin used \/ registered[c] # None},
        kept   <- [s \in {"redis", "sql"} |->
                      IF s = "redis" THEN SeqIn(redis) ELSE SeqIn(sqlRooms)]

\* Redis and Postgres keep ever later states of a room as long as it is open
\* and none once it is destroyed, however the write-behind worker, its
\* retries, the deletion, crashes and restarts interleave.
KeepsALedger == L!Spec

\* What a player was told is accepted is still in the room after any number of
\* restarts, if no call of Redis and no deletion has failed: an action is accepted
\* even when its save is not, and what is left of a half deleted room comes back.
AcceptedSurvives ==
    faults["live"] = 0 /\ faults["drop"] = 0 =>
        \A r \in Rooms : registered[CodeOf[r]] = r => accepted[r] <= room[r].seq

\* Once the rooms are left alone Postgres has of each what Redis has: no
\* snapshot stays in the queue and none is lost when a save is given up and put
\* back.  A crash takes the queue along, and a restart need not fill it again.
\* A drain that gave up the save of a room deleted just then ends without a
\* token for the rest of the queues; until the next one nothing is promised.
StoreCatchesUp ==
    <>[](crashes = 0 /\ ~cut =>
            \A c \in Codes : registered[c] # None => sqlRooms[c] = redis[c])

\* A match played to its end is recorded in Postgres in the end, through failed
\* saves and whatever becomes of its room, unless the server crashes or the
\* last drain was cut short as above.
MatchesAreRecorded ==
    <>[](crashes = 0 /\ ~cut => finished \subseteq sqlMatches)
=============================================================================
