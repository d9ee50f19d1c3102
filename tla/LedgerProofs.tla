---------------------------- MODULE LedgerProofs ----------------------------
(***************************************************************************)
(* Proofs about Persistence: type correctness, and that Redis and Postgres *)
(* implement the ledger when no code is drawn twice.                       *)
(***************************************************************************)
EXTENDS Persistence, TLAPS

RoomStates == [seq : 0..MaxSeq, seats : SUBSET Users, over : BOOLEAN]

LEMMA SnapshotType ==
    ASSUME NEW r \in Rooms, NEW s \in RoomStates
    PROVE  Snapshot(r, s) \in Snapshots
BY DEF Snapshot, Snapshots, RoomStates

LEMMA StateType ==
    ASSUME NEW s \in Snapshots
    PROVE  StateOf(s) \in RoomStates
BY DEF StateOf, Snapshots, RoomStates

LEMMA NewerType ==
    ASSUME NEW old \in Snapshots \cup {None}, NEW new \in Snapshots
    PROVE  Newer(old, new) \in Snapshots
BY DEF Newer

LEMMA PutBackType ==
    ASSUME NEW old \in Snapshots \cup {None}, NEW new \in Snapshots
    PROVE  PutBack(old, new) \in Snapshots
BY DEF PutBack

LEMMA FailType ==
    ASSUME NEW k \in {"save", "live", "drop"},
           faults \in [{"save", "live", "drop"} -> Nat], Fail(k)
    PROVE  faults' \in [{"save", "live", "drop"} -> Nat]
BY DEF Fail

\* What a handler's commit leaves of the types.
LEMMA CommitTypes ==
    ASSUME TypeOK, NEW r \in Rooms, NEW state \in RoomStates, NEW match \in BOOLEAN,
           Commit(r, state, match)
    PROVE  /\ room' \in [Rooms -> RoomStates]
           /\ redis' \in [Codes -> Snapshots \cup {None}]
           /\ pendingRooms' \in [Codes -> Snapshots \cup {None}]
           /\ notified' \in BOOLEAN
           /\ faults' \in [{"save", "live", "drop"} -> Nat]
           /\ accepted' \in [Rooms -> 0..MaxSeq]
<1> DEFINE c == CodeOf[r]
           s == Snapshot(r, state)
<1>1. c \in Codes
  BY CodeOfIsCode
<1>2. s \in Snapshots
  BY SnapshotType
<1>3. Newer(redis[c], s) \in Snapshots /\ Newer(pendingRooms[c], s) \in Snapshots
  <2>1. redis[c] \in Snapshots \cup {None} /\ pendingRooms[c] \in Snapshots \cup {None}
    BY <1>1 DEF TypeOK
  <2> QED  BY <2>1, <1>2, NewerType
<1>4. /\ room' = [room EXCEPT ![r] = state]
      /\ \/ redis' = redis
         \/ redis' = [redis EXCEPT ![c] = Newer(redis[c], s)]
      /\ \/ pendingRooms' = pendingRooms
         \/ pendingRooms' = [pendingRooms EXCEPT ![c] = Newer(pendingRooms[c], s)]
      /\ notified' \in BOOLEAN
      /\ faults' = faults \/ Fail("live")
      /\ \/ accepted' = accepted
         \/ accepted' = [accepted EXCEPT ![r] = state.seq]
  BY DEF Commit, Persist, TypeOK
<1> HIDE DEF c, s
<1>5. room' \in [Rooms -> RoomStates]
  BY <1>4 DEF TypeOK, RoomStates
<1>6. redis' \in [Codes -> Snapshots \cup {None}]
  BY <1>1, <1>3, <1>4 DEF TypeOK
<1>7. pendingRooms' \in [Codes -> Snapshots \cup {None}]
  BY <1>1, <1>3, <1>4 DEF TypeOK
<1>8. faults' \in [{"save", "live", "drop"} -> Nat]
  BY <1>4, FailType DEF TypeOK
<1>9. accepted' \in [Rooms -> 0..MaxSeq]
  <2>1. state.seq \in 0..MaxSeq
    BY DEF RoomStates
  <2> QED  BY <2>1, <1>4 DEF TypeOK
<1> QED  BY <1>4, <1>5, <1>6, <1>7, <1>8, <1>9

\* What a handler makes of the state of its room is a state again.
LEMMA OverStateType ==
    ASSUME NEW s \in RoomStates, NEW n \in 0..MaxSeq, NEW over \in BOOLEAN
    PROVE  [s EXCEPT !.seq = n, !.over = over] \in RoomStates
BY Zenon DEF RoomStates

LEMMA SeatsStateType ==
    ASSUME NEW s \in RoomStates, NEW n \in 0..MaxSeq, NEW seats \in SUBSET Users
    PROVE  [s EXCEPT !.seq = n, !.seats = seats] \in RoomStates
BY Zenon DEF RoomStates

\* The handlers of the actor keep the types.
LEMMA HandlerTypes ==
    ASSUME TypeOK, MaxSeq \in Nat, NEW r \in Rooms,
           \/ Act(r)
           \/ Finish(r)
           \/ Destroy(r)
           \/ \E u \in Users : Join(u, r) \/ Leave(u, r)
    PROVE  TypeOK'
<1> DEFINE s == room[r]
<1>0. s \in RoomStates
  BY DEF TypeOK, RoomStates
<1>1. CASE Act(r)
  <2> DEFINE t == [s EXCEPT !.seq = @ + 1]
  <2>1. Commit(r, t, FALSE)
    BY <1>1 DEF Act
  <2>2. t \in RoomStates
    BY <1>0, <2>1 DEF Commit, RoomStates
  <2> HIDE DEF t
  <2> QED  BY <1>1, <2>1, <2>2, CommitTypes, Zenon
           DEF Act, TypeOK, RoomStates, server, actors, queues, worker, sql
<1>2. CASE Finish(r)
  <2> DEFINE t == [s EXCEPT !.seq = @ + 1, !.over = TRUE]
  <2>1. Commit(r, t, TRUE)
    BY <1>2 DEF Finish
  <2>2. t \in RoomStates
    <3>1. s.seq + 1 \in 0..MaxSeq
      BY <1>0, <2>1 DEF Commit, RoomStates
    <3> QED  BY <1>0, <3>1, OverStateType
  <2> HIDE DEF t
  <2>3. finished' \subseteq Rooms /\ pendingMatches' \subseteq Rooms
    BY <1>2 DEF Finish, TypeOK
  <2> QED  BY <1>2, <2>1, <2>2, <2>3, CommitTypes, Zenon
           DEF Finish, TypeOK, RoomStates, server, actors, queues, worker, sql
<1>3. CASE Destroy(r)
  <2> DEFINE t == [s EXCEPT !.seq = @ + 1]
  <2>1. Commit(r, t, FALSE)
    BY <1>3 DEF Destroy
  <2>2. t \in RoomStates
    BY <1>0, <2>1 DEF Commit, RoomStates
  <2> HIDE DEF t
  <2>3. ending' \subseteq Rooms
    BY <1>3 DEF Destroy, TypeOK
  <2> QED  BY <1>3, <2>1, <2>2, <2>3, CommitTypes, Zenon
           DEF Destroy, TypeOK, RoomStates, server, actors, queues, worker, sql
<1>4. ASSUME NEW u \in Users, Join(u, r) PROVE TypeOK'
  <2> DEFINE t == [s EXCEPT !.seq = @ + 1, !.seats = @ \cup {u}]
  <2>1. Commit(r, t, FALSE)
    BY <1>4 DEF Join
  <2>2. t \in RoomStates
    <3>1. s.seq + 1 \in 0..MaxSeq /\ s.seats \cup {u} \in SUBSET Users
      BY <1>0, <2>1 DEF Commit, RoomStates
    <3> QED  BY <1>0, <3>1, SeatsStateType
  <2> HIDE DEF t
  <2>3. tracking' \subseteq Mappings
    <3>1. [user |-> u, code |-> CodeOf[r]] \in Mappings
      BY CodeOfIsCode DEF Mappings
    <3>2. tracking' = tracking \cup {[user |-> u, code |-> CodeOf[r]]}
      BY <1>4 DEF Join
    <3> QED  BY <3>1, <3>2 DEF TypeOK
  <2> QED  BY <1>4, <2>1, <2>2, <2>3, CommitTypes, Zenon
           DEF Join, TypeOK, RoomStates, server, actors, queues, worker, sql
<1>5. ASSUME NEW u \in Users, Leave(u, r) PROVE TypeOK'
  <2> DEFINE left == room[r].seats \ {u}
             t == [s EXCEPT !.seq = @ + 1, !.seats = left]
  <2>1. Commit(r, t, FALSE)
    BY <1>5 DEF Leave
  <2>2. t \in RoomStates
    <3>1. s.seq + 1 \in 0..MaxSeq /\ left \in SUBSET Users
      BY <1>0, <2>1 DEF Commit, RoomStates
    <3> QED  BY <1>0, <3>1, SeatsStateType
  <2> HIDE DEF t
  <2>3. ending' \subseteq Rooms
    BY <1>5 DEF Leave, TypeOK
  <2>4. pendingUsers' \in [Users -> Codes \cup {None}] /\ sqlUsers' \in [Users -> Codes \cup {None}]
    BY <1>5 DEF Leave, ClearUserRoom, TypeOK
  <2> QED  BY <1>5, <2>1, <2>2, <2>3, <2>4, CommitTypes, Zenon
           DEF Leave, TypeOK, RoomStates, server, actors, queues, worker, sql
<1> QED  BY <1>1, <1>2, <1>3, <1>4, <1>5

\* The life of actors, and deletion, keep the types.
LEMMA LifeTypes ==
    ASSUME TypeOK,
           \/ \E r \in Rooms : Create(r) \/ StopActor(r) \/ Expire(r)
           \/ Deletion
           \/ \E m \in tracking : TrackUserRoom(m)
    PROVE  TypeOK'
<1>1. ASSUME NEW r \in Rooms, Create(r) PROVE TypeOK'
  BY <1>1, CodeOfIsCode DEF Create, TypeOK, server, actors, queues, worker, sql
<1>2. ASSUME NEW r \in Rooms, StopActor(r) PROVE TypeOK'
  BY <1>2 DEF StopActor, TypeOK, server, actors, queues, worker, sql
<1>3. ASSUME NEW c \in Codes, Mark(c), ending' \subseteq ending PROVE TypeOK'
  BY <1>3 DEF Mark, TypeOK, server, actors, queues, worker, sql
<1>4. ASSUME NEW r \in Rooms, Expire(r) PROVE TypeOK'
  BY <1>3, <1>4, CodeOfIsCode DEF Expire
<1>5. ASSUME NEW r \in Rooms, DeleteRoom(r) PROVE TypeOK'
  BY <1>3, <1>5, CodeOfIsCode DEF DeleteRoom
<1>6. ASSUME NEW r \in Rooms, DeleteNothing(r) PROVE TypeOK'
  BY <1>6 DEF DeleteNothing, TypeOK, server, actors, queues, worker, sql
<1>7. CASE DropSql
  <2>1. deleting' \in [code : Codes, next : {"sql", "redis"}]
    BY <1>7 DEF DropSql, TypeOK
  <2>2. faults' \in [{"save", "live", "drop"} -> Nat]
    BY <1>7, FailType DEF DropSql, TypeOK
  <2>3. sqlRooms' \in [Codes -> Snapshots \cup {None}] /\ sqlUsers' \in [Users -> Codes \cup {None}]
    BY <1>7 DEF DropSql, TypeOK
  <2> QED  BY <1>7, <2>1, <2>2, <2>3 DEF DropSql, TypeOK, server, actors, queues, worker, sql
<1>8. CASE DropRedis
  <2>1. faults' \in [{"save", "live", "drop"} -> Nat]
    BY <1>8, FailType DEF DropRedis, TypeOK
  <2> QED  BY <1>8, <2>1 DEF DropRedis, TypeOK, server, actors, queues, worker, sql
<1>9. ASSUME NEW m \in tracking, TrackUserRoom(m) PROVE TypeOK'
  BY <1>9 DEF TrackUserRoom, TypeOK, Mappings, server, actors, queues, worker, sql
<1> QED  BY <1>1, <1>2, <1>4, <1>5, <1>6, <1>7, <1>8, <1>9 DEF Deletion

\* The worker keeps the types.
LEMMA WorkerTypes ==
    ASSUME TypeOK, Worker, Retries \in Nat \ {0}
    PROVE  TypeOK'
<1>1. CASE Wake
  BY <1>1 DEF Wake, TypeOK, Jobs, server, actors, queues, worker, sql
<1>2. CASE Take
  <2>1. /\ job' \in Jobs
        /\ pendingRooms' \in [Codes -> Snapshots \cup {None}]
        /\ pendingMatches' \subseteq Rooms
        /\ pendingUsers' \in [Users -> Codes \cup {None}]
    BY <1>2 DEF Take, TypeOK, Jobs
  <2> QED  BY <1>2, <2>1 DEF Take, TypeOK, server, actors, queues, worker, sql
<1>3. CASE SaveRoom
  <2>1. job.code \in Codes /\ job.what \in Snapshots
    BY <1>3 DEF Attempts, SaveRoom, TypeOK, Jobs, Idle, Ready
  <2>2. Newer(sqlRooms[job.code], job.what) \in Snapshots
    BY <2>1, NewerType DEF TypeOK
  <2> QED  BY <1>3, <2>1, <2>2 DEF Attempts, SaveRoom, TypeOK, Jobs, server, actors, queues, worker, sql
<1>4. CASE SaveMatch
  <2>1. job.what \in Rooms
    BY <1>4 DEF Attempts, SaveMatch, TypeOK, Jobs, Idle, Ready
  <2> QED  BY <1>4, <2>1 DEF Attempts, SaveMatch, TypeOK, Jobs, server, actors, queues, worker, sql
<1>5. CASE SaveUserRoom
  <2>1. job.code \in Codes /\ job.what \in Users
    BY <1>5 DEF Attempts, SaveUserRoom, TypeOK, Jobs, Idle, Ready
  <2> QED  BY <1>5, <2>1 DEF Attempts, SaveUserRoom, TypeOK, Jobs, server, actors, queues, worker, sql
<1>6. ASSUME SaveFails PROVE faults' \in [{"save", "live", "drop"} -> Nat]
  BY <1>6, FailType DEF SaveFails, TypeOK
<1>7. CASE Retry
  <2>1. job' \in Jobs
    BY <1>7 DEF Retry, SaveFails, TypeOK, Jobs, Idle, Ready
  <2>2. faults' \in [{"save", "live", "drop"} -> Nat]
    BY <1>6, <1>7 DEF Retry
  <2> QED  BY <1>7, <2>1, <2>2 DEF Retry, TypeOK, server, actors, queues, worker, sql
<1>8. CASE Requeue
  <2>1. /\ job' = Idle /\ notified' \in BOOLEAN /\ cut' \in BOOLEAN
        /\ UNCHANGED <<server, actors, deleting, tracking, tombs, redis, sql, faults>>
    BY <1>8, Zenon DEF Requeue, TypeOK, queues
  <2>2. /\ job.kind = "room" => job.code \in Codes /\ job.what \in Snapshots
        /\ job.kind = "match" => job.what \in Rooms
        /\ job.kind = "user" => job.code \in Codes /\ job.what \in Users
    BY DEF TypeOK, Jobs, Idle, Ready
  <2>3. CASE UNCHANGED <<pendingRooms, pendingMatches, pendingUsers>>
    BY <2>1, <2>3 DEF TypeOK, Jobs, server, actors, sql
  <2>4. CASE /\ job.kind = "room"
             /\ pendingRooms' = [pendingRooms EXCEPT ![job.code] = PutBack(@, job.what)]
             /\ UNCHANGED <<pendingMatches, pendingUsers>>
    <3>1. PutBack(pendingRooms[job.code], job.what) \in Snapshots
      BY <2>2, <2>4, PutBackType DEF TypeOK
    <3>2. pendingRooms' \in [Codes -> Snapshots \cup {None}]
      BY <2>2, <2>4, <3>1 DEF TypeOK
    <3> QED  BY <2>1, <2>4, <3>2 DEF TypeOK, Jobs, server, actors, sql
  <2>5. CASE /\ job.kind = "user"
             /\ pendingUsers' = [pendingUsers EXCEPT ![job.what] = job.code]
             /\ UNCHANGED <<pendingRooms, pendingMatches>>
    <3>1. pendingUsers' \in [Users -> Codes \cup {None}]
      BY <2>2, <2>5 DEF TypeOK
    <3> QED  BY <2>1, <2>5, <3>1 DEF TypeOK, Jobs, server, actors, sql
  <2>6. CASE /\ job.kind = "match"
             /\ pendingMatches' = pendingMatches \cup {job.what}
             /\ UNCHANGED <<pendingRooms, pendingUsers>>
    <3>1. pendingMatches' \subseteq Rooms
      BY <2>2, <2>6 DEF TypeOK
    <3> QED  BY <2>1, <2>6, <3>1 DEF TypeOK, Jobs, server, actors, sql
  <2> QED  BY <1>8, <2>3, <2>4, <2>5, <2>6 DEF Requeue, queues
<1> QED  BY <1>1, <1>2, <1>3, <1>4, <1>5, <1>7, <1>8 DEF Worker

\* A crash and a restart keep the types.
LEMMA RestartTypes ==
    ASSUME TypeOK, Crash \/ Restart
    PROVE  TypeOK'
<1>1. CASE Crash
  <2>1. crashes' \in Nat
    BY <1>1 DEF Crash, TypeOK
  <2>2. /\ registered' \in [Codes -> Rooms \cup {None}]
        /\ pendingRooms' \in [Codes -> Snapshots \cup {None}]
        /\ pendingUsers' \in [Users -> Codes \cup {None}]
    BY <1>1 DEF Crash
  <2>3. /\ alive' = {} /\ ending' = {} /\ deleting' = None /\ tracking' = {} /\ tombs' = {}
        /\ phase' = "down" /\ restoring' = {} /\ pendingMatches' = {} /\ notified' = FALSE
        /\ job' = Idle /\ cut' = FALSE
        /\ UNCHANGED <<used, room, accepted, finished, redis, sql, faults>>
    BY <1>1 DEF Crash
  <2> QED  BY <2>1, <2>2, <2>3 DEF TypeOK, Jobs, worker, sql
<1>2. CASE Boot
  <2>1. Stored(redis) \subseteq Snapshots /\ Stored(sqlRooms) \subseteq Snapshots
    BY DEF Stored, TypeOK
  <2>2. faults' \in [{"save", "live", "drop"} -> Nat]
    BY <1>2, FailType DEF Boot, TypeOK
  <2>3. phase' \in {"fromRedis", "fromSql"} /\ restoring' \subseteq Snapshots
    BY <1>2, <2>1 DEF Boot
  <2>4. UNCHANGED <<used, registered, crashes, actors, deleting, tracking, tombs, queues,
                    worker, redis, sql>>
    BY <1>2 DEF Boot
  <2> QED  BY <2>2, <2>3, <2>4 DEF TypeOK, actors, queues, worker, sql
<1>3. ASSUME NEW s \in restoring, RestoreRoom(s) PROVE TypeOK'
  <2> DEFINE c == CodeOf[s.room]
  <2>1. s \in Snapshots
    BY DEF TypeOK
  <2>2. s.room \in Rooms /\ c \in Codes
    BY <2>1, CodeOfIsCode DEF Snapshots
  <2>3. StateOf(s) \in RoomStates
    BY <2>1, StateType
  <2>4. Newer(redis[c], s) \in Snapshots
    BY <2>1, <2>2, NewerType DEF TypeOK
  <2> HIDE DEF c
  <2>5. room' \in [Rooms -> RoomStates] /\ redis' \in [Codes -> Snapshots \cup {None}]
    BY <1>3, <2>2, <2>3, <2>4 DEF RestoreRoom, TypeOK, RoomStates, c
  <2>6. pendingRooms' \in [Codes -> Snapshots \cup {None}] /\ notified' \in BOOLEAN
    BY <1>3, <2>1, <2>2 DEF RestoreRoom, TypeOK, c
  <2>7. /\ registered' \in [Codes -> Rooms \cup {None}]
        /\ alive' \subseteq Rooms
        /\ pendingMatches' \subseteq Rooms
        /\ restoring' \subseteq Snapshots
    BY <1>3, <2>2 DEF RestoreRoom, TypeOK, c
  <2> QED  BY <1>3, <2>5, <2>6, <2>7, Zenon
           DEF RestoreRoom, TypeOK, RoomStates, server, actors, queues, worker, sql
<1>4. CASE Serve
  BY <1>4 DEF Serve, TypeOK, server, actors, queues, worker, sql
<1> QED  BY <1>1, <1>2, <1>3, <1>4 DEF Restart

LEMMA TypeInit == Init => TypeOK
<1>1. NewRoom \in RoomStates
  BY BoundsAreNumbers DEF NewRoom, RoomStates
<1> SUFFICES ASSUME Init PROVE TypeOK
  OBVIOUS
<1>2. faults \in [{"save", "live", "drop"} -> Nat]
  BY BoundsAreNumbers DEF Init
<1>3. crashes \in Nat /\ accepted \in [Rooms -> 0..MaxSeq]
  BY BoundsAreNumbers DEF Init
<1>4. room \in [Rooms -> [seq : 0..MaxSeq, seats : SUBSET Users, over : BOOLEAN]]
  BY <1>1 DEF Init, RoomStates
<1>5. job \in Jobs
  BY DEF Init, Jobs
<1> HIDE DEF Jobs
<1> QED  BY <1>2, <1>3, <1>4, <1>5 DEF Init, TypeOK

LEMMA TypeStep == TypeOK /\ [Next]_vars => TypeOK'
<1> SUFFICES ASSUME TypeOK, [Next]_vars PROVE TypeOK'
  OBVIOUS
<1>0. MaxSeq \in Nat /\ Retries \in Nat \ {0}
  BY BoundsAreNumbers
<1>1. CASE UNCHANGED vars
  BY <1>1 DEF TypeOK, vars, server, actors, queues, worker, sql
<1>2. ASSUME NEW r \in Rooms,
             \/ Act(r) \/ Finish(r) \/ Destroy(r)
             \/ \E u \in Users : Join(u, r) \/ Leave(u, r)
      PROVE  TypeOK'
  BY <1>0, <1>2, HandlerTypes
<1>3. ASSUME \/ \E r \in Rooms : Create(r) \/ StopActor(r) \/ Expire(r)
             \/ Deletion
             \/ \E m \in tracking : TrackUserRoom(m)
      PROVE  TypeOK'
  BY <1>3, LifeTypes
<1>4. CASE Worker
  BY <1>0, <1>4, WorkerTypes
<1>5. CASE Crash \/ Restart
  BY <1>0, <1>5, RestartTypes
<1> QED  BY <1>1, <1>2, <1>3, <1>4, <1>5 DEF Next

\* Every variable of the manager, its actors, its worker and the two stores
\* keeps its type, for every number of rooms, codes and users.
THEOREM LedgerTypes == Spec => []TypeOK
BY TypeInit, TypeStep, PTL DEF Spec

-----------------------------------------------------------------------------
(* The inductive invariant behind the refinement. *)

\* A snapshot on its way under the code c: of an actor with that code, and of
\* a state after its first step.
Fits(s, c) == s # None => CodeOf[s.room] = c /\ s.seq > 0

\* What is stored, queued or in the hands of the worker fits its code.
SnapshotsFit ==
    /\ \A c \in Codes : Fits(redis[c], c) /\ Fits(sqlRooms[c], c) /\ Fits(pendingRooms[c], c)
    /\ job.kind = "room" => Fits(job.what, job.code)

\* Only drawn codes have an actor or a place in a store.
CodesAreUsed ==
    \A c \in Codes :
        registered[c] # None \/ redis[c] # None \/ sqlRooms[c] # None => c \in used

\* An actor that still runs answers for its code or meets a tombstone, and
\* so does whatever is queued.
WritersAreKnown ==
    /\ \A r \in alive : CodeOf[r] \in used /\ (registered[CodeOf[r]] = r \/ CodeOf[r] \in tombs)
    /\ \A c \in Codes : pendingRooms[c] # None => registered[c] # None
    /\ job.kind = "room" => registered[job.code] # None \/ job.code \in tombs

\* A code being deleted has a tombstone and no actor to answer for it.
DeletionIsMarked ==
    deleting # None =>
        /\ phase = "serving"
        /\ deleting.code \in used /\ deleting.code \in tombs
        /\ registered[deleting.code] = None

\* Until the server serves there are no tombstones, and nobody but the
\* restored actors writes.
StartIsQuiet ==
    /\ phase # "serving" => tombs = {} /\ job = Idle
    /\ phase = "down" => alive = {} /\ \A c \in Codes : registered[c] = None
    /\ phase \in {"serving", "down"} => restoring = {}

\* What is still to be restored lies in a store under a code of its own.
RestoringIsStored ==
    /\ \A s \in restoring :
          /\ registered[CodeOf[s.room]] = None
          /\ s = redis[CodeOf[s.room]] \/ s = sqlRooms[CodeOf[s.room]]
          /\ s.seq > 0
    /\ \A s, t \in restoring : CodeOf[s.room] = CodeOf[t.room] => s = t

LedgerInv ==
    /\ TypeOK
    /\ SnapshotsFit /\ CodesAreUsed /\ WritersAreKnown
    /\ DeletionIsMarked /\ StartIsQuiet /\ RestoringIsStored

LEMMA NewerFits ==
    ASSUME NEW c \in Codes, NEW old, NEW new, Fits(old, c), Fits(new, c), new # None
    PROVE  Fits(Newer(old, new), c) /\ Newer(old, new) # None
BY DEF Newer, Fits

LEMMA SnapshotFits ==
    ASSUME NEW r \in Rooms, NEW s \in RoomStates, s.seq > 0
    PROVE  Fits(Snapshot(r, s), CodeOf[r]) /\ Snapshot(r, s).seq = s.seq
BY DEF Fits, Snapshot

\* What every commit of a handler keeps of the invariant.
LEMMA CommitInv ==
    ASSUME LedgerInv, NEW r \in alive, NEW state \in RoomStates, NEW match \in BOOLEAN,
           state.seq > 0, Commit(r, state, match), TypeOK',
           UNCHANGED <<server, alive, deleting, tombs, job, sqlRooms>>
    PROVE  LedgerInv'
<1> DEFINE c == CodeOf[r]
           s == Snapshot(r, state)
<1>1. r \in Rooms /\ c \in Codes
  BY CodeOfIsCode DEF LedgerInv, TypeOK
<1>2. s \in Snapshots /\ s # None /\ Fits(s, c)
  BY <1>1, SnapshotType, SnapshotFits, NoneIsNothing
<1>3. Fits(redis[c], c) /\ Fits(pendingRooms[c], c)
  BY <1>1 DEF LedgerInv, SnapshotsFit
<1>4. /\ Fits(Newer(redis[c], s), c) /\ Newer(redis[c], s) # None
      /\ Fits(Newer(pendingRooms[c], s), c) /\ Newer(pendingRooms[c], s) # None
  BY <1>1, <1>2, <1>3, NewerFits
<1>5. \/ redis' = redis /\ pendingRooms' = pendingRooms
      \/ /\ c \notin tombs
         /\ redis' = [redis EXCEPT ![c] = Newer(redis[c], s)]
         /\ pendingRooms' = [pendingRooms EXCEPT ![c] = Newer(pendingRooms[c], s)]
  BY DEF Commit, Persist
<1> HIDE DEF c, s
<1>6. c \in used /\ (registered[c] = r \/ c \in tombs)
  BY DEF LedgerInv, WritersAreKnown, c
<1>7. UNCHANGED <<phase, restoring, used, registered, alive, deleting, tombs, job, sqlRooms>>
  BY DEF server
<1>8. r # None
  BY <1>1, NoneIsNothing
<1>9. SnapshotsFit'
  BY <1>1, <1>4, <1>5, <1>7 DEF LedgerInv, TypeOK, SnapshotsFit
<1>10. CodesAreUsed'
  BY <1>1, <1>5, <1>6, <1>7 DEF LedgerInv, TypeOK, CodesAreUsed
<1>11. WritersAreKnown'
  BY <1>1, <1>5, <1>6, <1>7, <1>8 DEF LedgerInv, TypeOK, WritersAreKnown
<1>12. DeletionIsMarked' /\ StartIsQuiet'
  BY <1>7 DEF LedgerInv, DeletionIsMarked, StartIsQuiet
<1>13. RestoringIsStored'
  <2>1. ASSUME NEW t \in restoring PROVE redis'[CodeOf[t.room]] = redis[CodeOf[t.room]]
    <3>1. registered[CodeOf[t.room]] = None /\ phase # "serving"
      BY <2>1 DEF LedgerInv, RestoringIsStored, StartIsQuiet
    <3>2. tombs = {}
      BY <3>1 DEF LedgerInv, StartIsQuiet
    <3>3. CodeOf[t.room] # c
      BY <1>6, <1>8, <3>1, <3>2
    <3>4. CodeOf[t.room] \in Codes
      BY <2>1, CodeOfIsCode DEF LedgerInv, TypeOK, Snapshots
    <3>5. redis \in [Codes -> Snapshots \cup {None}]
      BY DEF LedgerInv, TypeOK
    <3> QED  BY <1>5, <3>3, <3>4, <3>5
  <2> QED  BY <1>7, <2>1 DEF LedgerInv, RestoringIsStored
<1> QED  BY <1>9, <1>10, <1>11, <1>12, <1>13 DEF LedgerInv

\* The handlers keep the invariant.
LEMMA HandlerInv ==
    ASSUME LedgerInv, TypeOK', NEW r \in Rooms,
           \/ Act(r)
           \/ Finish(r)
           \/ Destroy(r)
           \/ \E u \in Users : Join(u, r) \/ Leave(u, r)
    PROVE  LedgerInv'
<1> DEFINE s == room[r]
<1>0. s \in RoomStates /\ MaxSeq \in Nat
  BY BoundsAreNumbers DEF LedgerInv, TypeOK, RoomStates
<1>1. CASE Act(r)
  <2> DEFINE t == [s EXCEPT !.seq = @ + 1]
  <2>1. Commit(r, t, FALSE) /\ r \in alive
    BY <1>1 DEF Act
  <2>2. t \in RoomStates /\ t.seq > 0
    BY <1>0, <2>1 DEF Commit, RoomStates
  <2>3. UNCHANGED <<server, alive, deleting, tombs, job, sqlRooms>>
    BY <1>1 DEF Act, worker, sql
  <2> HIDE DEF t
  <2> QED  BY <2>1, <2>2, <2>3, CommitInv
<1>2. CASE Finish(r)
  <2> DEFINE t == [s EXCEPT !.seq = @ + 1, !.over = TRUE]
  <2>1. Commit(r, t, TRUE) /\ r \in alive
    BY <1>2 DEF Finish
  <2>2. t \in RoomStates /\ t.seq > 0
    <3>1. s.seq + 1 \in 0..MaxSeq /\ s.seq + 1 > 0 /\ t.seq = s.seq + 1
      BY <1>0, <2>1 DEF Commit, RoomStates
    <3> QED  BY <1>0, <3>1, OverStateType
  <2>3. UNCHANGED <<server, alive, deleting, tombs, job, sqlRooms>>
    BY <1>2 DEF Finish, worker, sql
  <2> HIDE DEF t
  <2> QED  BY <2>1, <2>2, <2>3, CommitInv
<1>3. CASE Destroy(r)
  <2> DEFINE t == [s EXCEPT !.seq = @ + 1]
  <2>1. Commit(r, t, FALSE) /\ r \in alive
    BY <1>3 DEF Destroy
  <2>2. t \in RoomStates /\ t.seq > 0
    BY <1>0, <2>1 DEF Commit, RoomStates
  <2>3. UNCHANGED <<server, alive, deleting, tombs, job, sqlRooms>>
    BY <1>3 DEF Destroy, worker, sql
  <2> HIDE DEF t
  <2> QED  BY <2>1, <2>2, <2>3, CommitInv
<1>4. ASSUME NEW u \in Users, Join(u, r) PROVE LedgerInv'
  <2> DEFINE t == [s EXCEPT !.seq = @ + 1, !.seats = @ \cup {u}]
  <2>1. Commit(r, t, FALSE) /\ r \in alive
    BY <1>4 DEF Join
  <2>2. t \in RoomStates /\ t.seq > 0
    <3>1. t.seq = s.seq + 1 /\ s.seats \cup {u} \in SUBSET Users
      BY <1>0 DEF RoomStates
    <3>2. s.seq + 1 \in 0..MaxSeq /\ s.seq + 1 > 0
      BY <1>0, <2>1, <3>1 DEF Commit, RoomStates
    <3> QED  BY <1>0, <3>1, <3>2, SeatsStateType
  <2>3. UNCHANGED <<server, alive, deleting, tombs, job, sqlRooms>>
    BY <1>4 DEF Join, worker, sql
  <2> HIDE DEF t
  <2> QED  BY <2>1, <2>2, <2>3, CommitInv
<1>5. ASSUME NEW u \in Users, Leave(u, r) PROVE LedgerInv'
  <2> DEFINE left == room[r].seats \ {u}
             t == [s EXCEPT !.seq = @ + 1, !.seats = left]
  <2>1. Commit(r, t, FALSE) /\ r \in alive
    BY <1>5 DEF Leave
  <2>2. t \in RoomStates /\ t.seq > 0
    <3>1. /\ s.seq + 1 \in 0..MaxSeq /\ left \in SUBSET Users
          /\ s.seq + 1 > 0 /\ t.seq = s.seq + 1
      BY <1>0, <2>1 DEF Commit, RoomStates
    <3> QED  BY <1>0, <3>1, SeatsStateType
  <2>3. UNCHANGED <<server, alive, deleting, tombs, job, sqlRooms>>
    BY <1>5 DEF Leave, worker
  <2> HIDE DEF t
  <2> QED  BY <2>1, <2>2, <2>3, CommitInv
<1> QED  BY <1>1, <1>2, <1>3, <1>4, <1>5

\* The life of actors and deletion keep the invariant, unless a code is
\* drawn again.
LEMMA LifeInv ==
    ASSUME LedgerInv, TypeOK', ~Recycle,
           \/ \E r \in Rooms : Create(r) \/ StopActor(r) \/ Expire(r)
           \/ Deletion
           \/ \E m \in tracking : TrackUserRoom(m)
    PROVE  LedgerInv'
<1>1. ASSUME NEW r \in Rooms, Create(r) PROVE LedgerInv'
  <2> DEFINE c == CodeOf[r]
  <2>1. c \in Codes /\ r # None
    BY CodeOfIsCode, NoneIsNothing
  <2> HIDE DEF c
  <2>2. /\ phase = "serving" /\ deleting = None /\ c \notin used
        /\ used' = used \cup {c} /\ tombs' = tombs \ {c}
        /\ registered' = [registered EXCEPT ![c] = r]
        /\ alive' = alive \cup {r}
        /\ UNCHANGED <<phase, restoring, deleting, pendingRooms, job, redis, sqlRooms>>
    BY <1>1 DEF Create, c, queues, worker, sql
  <2>3. SnapshotsFit'
    BY <2>2 DEF LedgerInv, SnapshotsFit
  <2>4. CodesAreUsed'
    BY <2>1, <2>2 DEF LedgerInv, TypeOK, CodesAreUsed
  <2>5. WritersAreKnown'
    <3>1. \A q \in alive' : CodeOf[q] \in used' /\ (registered'[CodeOf[q]] = q \/ CodeOf[q] \in tombs')
      <4>1. \A q \in alive : CodeOf[q] \in Codes /\ CodeOf[q] # c
        BY <2>2, CodeOfIsCode DEF LedgerInv, TypeOK, WritersAreKnown
      <4>2. registered'[c] = r
        BY <2>1, <2>2 DEF LedgerInv, TypeOK
      <4> QED  BY <2>1, <2>2, <4>1, <4>2 DEF LedgerInv, TypeOK, WritersAreKnown, c
    <3>2. \A d \in Codes : pendingRooms'[d] # None => registered'[d] # None
      BY <2>1, <2>2 DEF LedgerInv, TypeOK, WritersAreKnown
    <3>3. job'.kind = "room" => registered'[job'.code] # None \/ job'.code \in tombs'
      <4>1. job.kind = "room" => job.code \in Codes
        BY DEF LedgerInv, TypeOK, Jobs, Idle, Ready
      <4> QED  BY <2>1, <2>2, <4>1 DEF LedgerInv, TypeOK, WritersAreKnown
    <3> QED  BY <3>1, <3>2, <3>3 DEF WritersAreKnown
  <2>6. DeletionIsMarked' /\ StartIsQuiet' /\ RestoringIsStored'
    BY <2>2 DEF LedgerInv, DeletionIsMarked, StartIsQuiet, RestoringIsStored
  <2> QED  BY <2>3, <2>4, <2>5, <2>6 DEF LedgerInv
<1>2. ASSUME NEW r \in Rooms, StopActor(r) PROVE LedgerInv'
  <2>1. /\ alive' = alive \ {r}
        /\ UNCHANGED <<phase, restoring, used, registered, deleting, tombs, pendingRooms,
                       job, redis, sqlRooms>>
    BY <1>2 DEF StopActor, server, queues, worker, sql
  <2> QED  BY <2>1 DEF LedgerInv, SnapshotsFit, CodesAreUsed, WritersAreKnown,
                       DeletionIsMarked, StartIsQuiet, RestoringIsStored
<1>3. ASSUME NEW c \in Codes, Mark(c), phase = "serving", registered[c] # None
      PROVE  LedgerInv'
  <2>1. /\ deleting' = [code |-> c, next |-> "sql"]
        /\ tombs' = tombs \cup {c}
        /\ registered' = [registered EXCEPT ![c] = None]
        /\ pendingRooms' = [pendingRooms EXCEPT ![c] = None]
        /\ UNCHANGED <<phase, restoring, used, alive, job, redis, sqlRooms>>
    BY <1>3 DEF Mark, worker, sql
  <2>2. SnapshotsFit'
    BY <2>1 DEF LedgerInv, TypeOK, SnapshotsFit, Fits
  <2>3. CodesAreUsed'
    BY <2>1 DEF LedgerInv, TypeOK, CodesAreUsed
  <2>4. WritersAreKnown'
    <3>1. \A q \in alive : CodeOf[q] \in Codes
      BY CodeOfIsCode DEF LedgerInv, TypeOK
    <3>2. job.kind = "room" => job.code \in Codes
      BY DEF LedgerInv, TypeOK, Jobs, Idle, Ready
    <3> QED  BY <2>1, <3>1, <3>2 DEF LedgerInv, TypeOK, WritersAreKnown
  <2>5. DeletionIsMarked'
    BY <1>3, <2>1 DEF LedgerInv, TypeOK, CodesAreUsed, DeletionIsMarked
  <2>6. StartIsQuiet' /\ RestoringIsStored'
    BY <1>3, <2>1 DEF LedgerInv, StartIsQuiet, RestoringIsStored
  <2> QED  BY <2>2, <2>3, <2>4, <2>5, <2>6 DEF LedgerInv
<1>4. ASSUME NEW r \in Rooms, Expire(r) PROVE LedgerInv'
  BY <1>3, <1>4, CodeOfIsCode, NoneIsNothing DEF Expire
<1>5. ASSUME NEW r \in Rooms, DeleteRoom(r) PROVE LedgerInv'
  BY <1>3, <1>5, CodeOfIsCode DEF DeleteRoom
<1>6. ASSUME NEW r \in Rooms, DeleteNothing(r) PROVE LedgerInv'
  <2>1. UNCHANGED <<phase, restoring, used, registered, alive, deleting, tombs, pendingRooms,
                    job, redis, sqlRooms>>
    BY <1>6 DEF DeleteNothing, server, queues, worker, sql
  <2> QED  BY <2>1 DEF LedgerInv, SnapshotsFit, CodesAreUsed, WritersAreKnown,
                       DeletionIsMarked, StartIsQuiet, RestoringIsStored
<1>7. CASE DropSql
  <2>1. /\ deleting' # None => deleting # None /\ deleting'.code = deleting.code
        /\ \/ sqlRooms' = sqlRooms
           \/ sqlRooms' = [sqlRooms EXCEPT ![deleting.code] = None]
        /\ phase = "serving"
        /\ UNCHANGED <<phase, restoring, used, registered, alive, tombs, pendingRooms,
                       job, redis>>
    BY <1>7 DEF DropSql, LedgerInv, TypeOK, DeletionIsMarked, server, actors, queues, worker
  <2>2. SnapshotsFit' /\ CodesAreUsed'
    BY <2>1 DEF LedgerInv, TypeOK, SnapshotsFit, Fits, CodesAreUsed
  <2>3. WritersAreKnown' /\ DeletionIsMarked'
    BY <2>1 DEF LedgerInv, WritersAreKnown, DeletionIsMarked
  <2>4. StartIsQuiet' /\ RestoringIsStored'
    BY <2>1 DEF LedgerInv, StartIsQuiet, RestoringIsStored
  <2> QED  BY <2>2, <2>3, <2>4 DEF LedgerInv
<1>8. CASE DropRedis
  <2>1. /\ deleting' = None
        /\ \/ redis' = redis
           \/ redis' = [redis EXCEPT ![deleting.code] = None]
        /\ phase = "serving"
        /\ UNCHANGED <<phase, restoring, used, registered, alive, tombs, pendingRooms,
                       job, sqlRooms>>
    BY <1>8 DEF DropRedis, LedgerInv, DeletionIsMarked, server, actors, queues, worker, sql
  <2>2. SnapshotsFit' /\ CodesAreUsed'
    BY <2>1 DEF LedgerInv, TypeOK, SnapshotsFit, Fits, CodesAreUsed
  <2>3. WritersAreKnown' /\ DeletionIsMarked'
    BY <2>1 DEF LedgerInv, WritersAreKnown, DeletionIsMarked
  <2>4. StartIsQuiet' /\ RestoringIsStored'
    BY <2>1 DEF LedgerInv, StartIsQuiet, RestoringIsStored
  <2> QED  BY <2>2, <2>3, <2>4 DEF LedgerInv
<1>9. ASSUME NEW m \in tracking, TrackUserRoom(m) PROVE LedgerInv'
  <2>1. UNCHANGED <<phase, restoring, used, registered, alive, deleting, tombs, pendingRooms,
                    job, redis, sqlRooms>>
    BY <1>9 DEF TrackUserRoom, server, actors, worker, sql
  <2> QED  BY <2>1 DEF LedgerInv, SnapshotsFit, CodesAreUsed, WritersAreKnown,
                       DeletionIsMarked, StartIsQuiet, RestoringIsStored
<1> QED  BY <1>1, <1>2, <1>4, <1>5, <1>6, <1>7, <1>8, <1>9 DEF Deletion

LEMMA PutBackFits ==
    ASSUME NEW c \in Codes, NEW old, NEW new, Fits(old, c), Fits(new, c)
    PROVE  Fits(PutBack(old, new), c)
BY DEF PutBack, Fits

\* The worker keeps the invariant.
LEMMA WorkerInv ==
    ASSUME LedgerInv, TypeOK', Worker
    PROVE  LedgerInv'
<1> USE DEF LedgerInv
<1>0. job.kind = "room" => job.code \in Codes /\ job.what \in Snapshots
  BY DEF TypeOK, Jobs, Idle, Ready
<1>1. ASSUME UNCHANGED <<phase, restoring, used, registered, alive, deleting, tombs, redis>>,
             sqlRooms' = sqlRooms, pendingRooms' = pendingRooms,
             job'.kind # "room" \/ (job.kind = "room" /\ job'.code = job.code /\ job'.what = job.what
                                    /\ job'.kind = "room"),
             phase = "serving"
      PROVE  LedgerInv'
  <2>1. SnapshotsFit' /\ CodesAreUsed' /\ WritersAreKnown'
    BY <1>1 DEF SnapshotsFit, CodesAreUsed, WritersAreKnown
  <2>2. DeletionIsMarked' /\ StartIsQuiet' /\ RestoringIsStored'
    BY <1>1 DEF DeletionIsMarked, StartIsQuiet, RestoringIsStored
  <2> QED  BY <2>1, <2>2
<1>2. job # Idle => phase = "serving"
  BY DEF StartIsQuiet
<1>3. CASE Wake
  <2>1. /\ phase = "serving" /\ job'.kind # "room"
        /\ UNCHANGED <<phase, restoring, used, registered, alive, deleting, tombs, redis,
                       sqlRooms, pendingRooms>>
    BY <1>3 DEF Wake, Ready, server, actors, worker, sql
  <2> QED  BY <1>1, <2>1
<1>4. CASE Take
  <2>1. /\ phase = "serving"
        /\ UNCHANGED <<phase, restoring, used, registered, alive, deleting, tombs, redis,
                       sqlRooms>>
    BY <1>2, <1>4 DEF Take, Ready, Idle, server, actors, worker, sql
  <2>2. CASE job'.kind # "room" /\ pendingRooms' = pendingRooms
    BY <1>1, <2>1, <2>2
  <2>3. ASSUME NEW c \in Codes, pendingRooms[c] # None,
               job' = [kind |-> "room", code |-> c, what |-> pendingRooms[c], tries |-> 1],
               pendingRooms' = [pendingRooms EXCEPT ![c] = None]
        PROVE  LedgerInv'
    <3>1. SnapshotsFit'
      BY <2>1, <2>3 DEF TypeOK, SnapshotsFit, Fits
    <3>2. CodesAreUsed' /\ WritersAreKnown'
      BY <2>1, <2>3 DEF TypeOK, CodesAreUsed, WritersAreKnown
    <3>3. DeletionIsMarked' /\ StartIsQuiet' /\ RestoringIsStored'
      BY <2>1 DEF DeletionIsMarked, StartIsQuiet, RestoringIsStored
    <3> QED  BY <3>1, <3>2, <3>3
  <2> QED  BY <1>4, <2>2, <2>3 DEF Take, Idle
<1>5. CASE SaveRoom
  <2>1. /\ phase = "serving" /\ job.kind = "room" /\ job' = Ready
        /\ UNCHANGED <<phase, restoring, used, registered, alive, deleting, tombs, redis,
                       pendingRooms>>
    BY <1>2, <1>5 DEF Attempts, SaveRoom, Idle, server, actors, queues
  <2>2. \/ sqlRooms' = sqlRooms
        \/ /\ job.code \notin tombs
           /\ sqlRooms' = [sqlRooms EXCEPT ![job.code] = Newer(sqlRooms[job.code], job.what)]
    BY <1>5 DEF Attempts, SaveRoom
  <2>3. CASE sqlRooms' = sqlRooms
    BY <1>1, <2>1, <2>3 DEF Ready
  <2>4. CASE /\ job.code \notin tombs
             /\ sqlRooms' = [sqlRooms EXCEPT ![job.code] = Newer(sqlRooms[job.code], job.what)]
    <3> DEFINE c == job.code
               n == Newer(sqlRooms[c], job.what)
    <3>1. c \in Codes /\ job.what # None /\ registered[c] # None
      BY <1>0, <2>1, <2>4, NoneIsNothing DEF WritersAreKnown
    <3>2. Fits(n, c)
      BY <2>1, <3>1, NewerFits DEF SnapshotsFit
    <3> HIDE DEF n
    <3>3. SnapshotsFit'
      BY <2>1, <2>4, <3>1, <3>2 DEF TypeOK, SnapshotsFit, Ready, n
    <3>4. CodesAreUsed'
      BY <2>1, <2>4, <3>1 DEF TypeOK, CodesAreUsed
    <3>5. WritersAreKnown' /\ DeletionIsMarked'
      BY <2>1 DEF WritersAreKnown, DeletionIsMarked, Ready
    <3>6. StartIsQuiet' /\ RestoringIsStored'
      BY <2>1 DEF StartIsQuiet, RestoringIsStored
    <3> QED  BY <3>3, <3>4, <3>5, <3>6
  <2> QED  BY <2>2, <2>3, <2>4
<1>6. CASE SaveMatch
  <2>1. /\ phase = "serving" /\ job'.kind # "room"
        /\ UNCHANGED <<phase, restoring, used, registered, alive, deleting, tombs, redis,
                       sqlRooms, pendingRooms>>
    BY <1>2, <1>6 DEF Attempts, SaveMatch, Ready, Idle, server, actors, queues
  <2> QED  BY <1>1, <2>1
<1>7. CASE SaveUserRoom
  <2>1. /\ phase = "serving" /\ job'.kind # "room"
        /\ UNCHANGED <<phase, restoring, used, registered, alive, deleting, tombs, redis,
                       sqlRooms, pendingRooms>>
    BY <1>2, <1>7 DEF Attempts, SaveUserRoom, Ready, Idle, server, actors, queues
  <2> QED  BY <1>1, <2>1
<1>8. CASE Retry
  <2>1. /\ phase = "serving"
        /\ UNCHANGED <<phase, restoring, used, registered, alive, deleting, tombs, redis,
                       sqlRooms, pendingRooms>>
    BY <1>2, <1>8 DEF Retry, SaveFails, Idle, server, actors, queues, worker, sql
  <2>2. job'.kind # "room" \/ (job.kind = "room" /\ job'.code = job.code /\ job'.what = job.what
                               /\ job'.kind = "room")
    BY <1>8 DEF Retry, SaveFails, TypeOK, Jobs, Idle, Ready
  <2> QED  BY <1>1, <2>1, <2>2
<1>9. CASE Requeue
  <2>1. /\ phase = "serving" /\ job' = Idle
        /\ UNCHANGED <<phase, restoring, used, registered, alive, deleting, tombs, redis,
                       sqlRooms>>
    BY <1>2, <1>9 DEF GivenUp, Requeue, Idle, server, actors, sql
  <2>2. CASE /\ job.kind = "room" /\ job.code \notin tombs
             /\ pendingRooms' = [pendingRooms EXCEPT ![job.code] = PutBack(@, job.what)]
    <3> DEFINE c == job.code
               n == PutBack(pendingRooms[c], job.what)
    <3>1. c \in Codes /\ c \notin tombs /\ registered[c] # None
      BY <1>0, <2>1, <2>2 DEF WritersAreKnown
    <3>2. Fits(n, c)
      BY <2>2, <3>1, PutBackFits DEF SnapshotsFit
    <3>3. pendingRooms' = [pendingRooms EXCEPT ![c] = n]
      BY <2>2
    <3> HIDE DEF n
    <3>4. SnapshotsFit'
      BY <2>1, <3>1, <3>2, <3>3 DEF TypeOK, SnapshotsFit, Idle
    <3>5. CodesAreUsed' /\ WritersAreKnown'
      BY <2>1, <3>1, <3>3 DEF TypeOK, CodesAreUsed, WritersAreKnown, Idle
    <3>6. DeletionIsMarked' /\ StartIsQuiet' /\ RestoringIsStored'
      BY <2>1 DEF DeletionIsMarked, StartIsQuiet, RestoringIsStored
    <3> QED  BY <3>4, <3>5, <3>6
  <2>3. CASE pendingRooms' = pendingRooms
    BY <1>1, <2>1, <2>3 DEF Idle
  <2> QED  BY <1>9, <2>2, <2>3 DEF Requeue, queues
<1> QED  BY <1>3, <1>4, <1>5, <1>6, <1>7, <1>8, <1>9 DEF Worker

\* A crash and a restart keep the invariant.
LEMMA RestartInv ==
    ASSUME LedgerInv, TypeOK', Crash \/ Restart
    PROVE  LedgerInv'
<1> USE DEF LedgerInv
<1>1. CASE Crash
  <2>1. /\ phase' = "down" /\ restoring' = {} /\ job' = Idle
        /\ alive' = {} /\ deleting' = None /\ tombs' = {}
        /\ registered' = [c \in Codes |-> None]
        /\ pendingRooms' = [c \in Codes |-> None]
        /\ UNCHANGED <<used, redis, sqlRooms>>
    BY <1>1 DEF Crash, worker, sql
  <2>2. SnapshotsFit'
    BY <2>1 DEF SnapshotsFit, Fits, Idle
  <2>3. CodesAreUsed' /\ WritersAreKnown'
    BY <2>1 DEF CodesAreUsed, WritersAreKnown, Idle
  <2>4. DeletionIsMarked' /\ StartIsQuiet' /\ RestoringIsStored'
    BY <2>1 DEF DeletionIsMarked, StartIsQuiet, RestoringIsStored
  <2> QED  BY <2>2, <2>3, <2>4
<1>2. CASE Boot
  <2>1. /\ phase = "down" /\ phase' \in {"fromRedis", "fromSql"}
        /\ restoring' = Stored(redis) \/ restoring' = Stored(sqlRooms)
        /\ UNCHANGED <<used, registered, alive, deleting, tombs, pendingRooms, job, redis,
                       sqlRooms>>
    BY <1>2 DEF Boot, actors, queues, worker, sql
  <2>2. SnapshotsFit' /\ CodesAreUsed' /\ WritersAreKnown'
    BY <2>1 DEF SnapshotsFit, CodesAreUsed, WritersAreKnown
  <2>3. DeletionIsMarked' /\ StartIsQuiet'
    BY <2>1 DEF DeletionIsMarked, StartIsQuiet
  <2>4. ASSUME NEW store, store \in {redis, sqlRooms}, restoring' = Stored(store)
        PROVE  RestoringIsStored'
    <3>1. \A s \in restoring' :
              \E c \in Codes : s = store[c] /\ CodeOf[s.room] = c /\ s.seq > 0
      BY <2>4 DEF Stored, SnapshotsFit, Fits
    <3>2. \A s \in restoring' : CodeOf[s.room] \in Codes /\ s = store[CodeOf[s.room]] /\ s.seq > 0
      BY <3>1
    <3>3. \A c \in Codes : registered[c] = None
      BY <2>1 DEF StartIsQuiet
    <3> QED  BY <2>1, <2>4, <3>2, <3>3 DEF RestoringIsStored
  <2> QED  BY <2>1, <2>2, <2>3, <2>4
<1>3. ASSUME NEW s \in restoring, RestoreRoom(s) PROVE LedgerInv'
  <2> DEFINE c == CodeOf[s.room]
             n == Newer(redis[c], s)
  <2>1. s \in Snapshots /\ s.room \in Rooms /\ c \in Codes
    BY CodeOfIsCode DEF TypeOK, Snapshots
  <2>2. s # None /\ s.room # None
    BY <2>1, NoneIsNothing
  <2>3. /\ registered[c] = None /\ s.seq > 0 /\ c \in used
        /\ \A t \in restoring \ {s} : CodeOf[t.room] # c
    BY <2>1, <2>2 DEF RestoringIsStored, CodesAreUsed
  <2>4. phase # "serving" /\ tombs = {} /\ job = Idle /\ deleting = None
    BY DEF StartIsQuiet, DeletionIsMarked
  <2>5. Fits(s, c)
    BY <2>3 DEF Fits
  <2>6. Fits(n, c) /\ n # None
    BY <2>1, <2>2, <2>5, NewerFits DEF SnapshotsFit
  <2>7. /\ restoring' = restoring \ {s}
        /\ registered' = [registered EXCEPT ![c] = s.room]
        /\ alive' = alive \cup {s.room}
        /\ redis' = [redis EXCEPT ![c] = n]
        /\ \/ pendingRooms' = pendingRooms
           \/ pendingRooms' = [pendingRooms EXCEPT ![c] = s]
        /\ UNCHANGED <<phase, used, deleting, tombs, job, sqlRooms>>
    BY <1>3 DEF RestoreRoom, worker, sql
  <2>8. \A t \in restoring : CodeOf[t.room] \in Codes
    BY CodeOfIsCode DEF TypeOK, Snapshots
  <2>9. \A q \in alive : CodeOf[q] \in Codes /\ q # None
    BY CodeOfIsCode, NoneIsNothing DEF TypeOK
  <2>10. CodeOf[s.room] = c
    OBVIOUS
  <2> HIDE DEF c, n
  <2>11. SnapshotsFit'
    BY <2>1, <2>4, <2>5, <2>6, <2>7 DEF TypeOK, SnapshotsFit, Idle
  <2>12. CodesAreUsed'
    BY <2>1, <2>3, <2>7 DEF TypeOK, CodesAreUsed
  <2>13. WritersAreKnown'
    <3>1. \A q \in alive' : CodeOf[q] \in used' /\ registered'[CodeOf[q]] = q
      <4>1. \A q \in alive : CodeOf[q] \in used /\ registered[CodeOf[q]] = q /\ CodeOf[q] # c
        BY <2>3, <2>4, <2>9 DEF WritersAreKnown
      <4>2. registered'[c] = s.room
        BY <2>1, <2>7 DEF TypeOK
      <4> QED  BY <2>1, <2>3, <2>7, <2>9, <2>10, <4>1, <4>2 DEF TypeOK
    <3>2. \A d \in Codes : pendingRooms'[d] # None => registered'[d] # None
      BY <2>1, <2>2, <2>7 DEF TypeOK, WritersAreKnown
    <3> QED  BY <2>4, <2>7, <3>1, <3>2 DEF WritersAreKnown, Idle
  <2>14. DeletionIsMarked' /\ StartIsQuiet'
    BY <2>4, <2>7 DEF DeletionIsMarked, StartIsQuiet
  <2>15. RestoringIsStored'
    <3>1. \A t \in restoring \ {s} :
              /\ registered'[CodeOf[t.room]] = registered[CodeOf[t.room]]
              /\ redis'[CodeOf[t.room]] = redis[CodeOf[t.room]]
      BY <2>1, <2>3, <2>7, <2>8 DEF TypeOK
    <3> QED  BY <2>7, <3>1 DEF RestoringIsStored
  <2> QED  BY <2>11, <2>12, <2>13, <2>14, <2>15
<1>4. CASE Serve
  <2>1. /\ phase # "serving" /\ phase # "down" /\ restoring = {} /\ phase' = "serving"
        /\ UNCHANGED <<restoring, used, registered, alive, deleting, tombs, pendingRooms, job,
                       redis, sqlRooms>>
    BY <1>4 DEF Serve, actors, queues, worker, sql
  <2>2. SnapshotsFit' /\ CodesAreUsed' /\ WritersAreKnown'
    BY <2>1 DEF SnapshotsFit, CodesAreUsed, WritersAreKnown
  <2>3. DeletionIsMarked' /\ StartIsQuiet' /\ RestoringIsStored'
    BY <2>1 DEF DeletionIsMarked, StartIsQuiet, RestoringIsStored
  <2> QED  BY <2>2, <2>3
<1> QED  BY <1>1, <1>2, <1>3, <1>4 DEF Restart

LEMMA LedgerInit == Init => LedgerInv
<1> SUFFICES ASSUME Init PROVE LedgerInv
  OBVIOUS
<1>1. TypeOK
  BY TypeInit
<1>2. SnapshotsFit
  BY DEF Init, SnapshotsFit, Fits, Idle
<1>3. CodesAreUsed /\ WritersAreKnown
  BY DEF Init, CodesAreUsed, WritersAreKnown, Idle
<1>4. DeletionIsMarked /\ StartIsQuiet /\ RestoringIsStored
  BY DEF Init, DeletionIsMarked, StartIsQuiet, RestoringIsStored
<1> QED  BY <1>1, <1>2, <1>3, <1>4 DEF LedgerInv

\* Every step keeps the invariant as long as no code is drawn twice.
LEMMA LedgerStep ==
    ASSUME ~Recycle, LedgerInv, [Next]_vars
    PROVE  LedgerInv'
<1>0. TypeOK'
  BY TypeStep DEF LedgerInv
<1>1. CASE UNCHANGED vars
  BY <1>1 DEF LedgerInv, TypeOK, SnapshotsFit, CodesAreUsed, WritersAreKnown, DeletionIsMarked,
              StartIsQuiet, RestoringIsStored, vars, server, actors, queues, worker, sql
<1>2. ASSUME NEW r \in Rooms,
             \/ Act(r) \/ Finish(r) \/ Destroy(r)
             \/ \E u \in Users : Join(u, r) \/ Leave(u, r)
      PROVE  LedgerInv'
  BY <1>0, <1>2, HandlerInv
<1>3. ASSUME \/ \E r \in Rooms : Create(r) \/ StopActor(r) \/ Expire(r)
             \/ Deletion
             \/ \E m \in tracking : TrackUserRoom(m)
      PROVE  LedgerInv'
  BY <1>0, <1>3, LifeInv
<1>4. CASE Worker
  BY <1>0, <1>4, WorkerInv
<1>5. CASE Crash \/ Restart
  BY <1>0, <1>5, RestartInv
<1> QED  BY <1>1, <1>2, <1>3, <1>4, <1>5 DEF Next

-----------------------------------------------------------------------------
(* The refinement: what the steps do to the ledger. *)

Open == {c \in Codes : c \notin used \/ registered[c] # None}

\* What Redis and Postgres keep, as the ledger sees it.
Books(r, s) == [store \in {"redis", "sql"} |-> IF store = "redis" THEN r ELSE s]

Kept == Books(SeqIn(redis), SeqIn(sqlRooms))

\* The faces of the two sides: what the instance L calls open and kept.
LEMMA Faces ==
    /\ L!vars = <<Open, Kept>>
    /\ L!Init <=> (Open = Codes /\ Kept = [s \in {"redis", "sql"} |-> [c \in Codes |-> 0]])
BY DEF L!vars, L!Init, Open, Kept, Books

\* One store's books after one entry has changed.
LEMMA Entry ==
    ASSUME NEW c \in Codes, NEW n, NEW old, old \in [Codes -> Snapshots \cup {None}]
    PROVE  SeqIn([old EXCEPT ![c] = n]) = [SeqIn(old) EXCEPT ![c] = IF n = None THEN 0 ELSE n.seq]
BY DEF SeqIn

LEMMA SeqType ==
    ASSUME NEW store, store \in [Codes -> Snapshots \cup {None}], MaxSeq \in Nat
    PROVE  SeqIn(store) \in [Codes -> 0..MaxSeq]
BY DEF SeqIn, Snapshots

\* The books of both stores after one entry of one has changed.
LEMMA BooksEntry ==
    ASSUME NEW A, NEW B, A \in [Codes -> 0..MaxSeq], B \in [Codes -> 0..MaxSeq],
           NEW c \in Codes, NEW n
    PROVE  /\ Books([A EXCEPT ![c] = n], B) = [Books(A, B) EXCEPT !["redis"][c] = n]
           /\ Books(A, [B EXCEPT ![c] = n]) = [Books(A, B) EXCEPT !["sql"][c] = n]
BY DEF Books

\* A snapshot that replaces another is no older.
LEMMA NewerIsLater ==
    ASSUME MaxSeq \in Nat, NEW old \in Snapshots \cup {None}, NEW new \in Snapshots
    PROVE  /\ Newer(old, new) \in Snapshots
           /\ Newer(old, new).seq \in 0..MaxSeq
           /\ Newer(old, new).seq >= (IF old = None THEN 0 ELSE old.seq)
           /\ Newer(old, new).seq >= new.seq
BY NoneIsNothing DEF Newer, Snapshots

\* A save in Redis is a step of the ledger.
LEMMA KeepRedis ==
    ASSUME TypeOK, TypeOK', MaxSeq \in Nat, NEW c \in Open, NEW s \in Snapshots, Open' = Open,
           redis' = [redis EXCEPT ![c] = Newer(redis[c], s)], sqlRooms' = sqlRooms
    PROVE  L!Next
<1> DEFINE n == Newer(redis[c], s)
           A == SeqIn(redis)
           B == SeqIn(sqlRooms)
<1>1. c \in Codes
  BY DEF Open
<1>2. redis[c] \in Snapshots \cup {None}
  BY <1>1 DEF TypeOK
<1>3. n \in Snapshots /\ n.seq \in 0..MaxSeq /\ n.seq >= A[c] /\ n # None
  BY <1>1, <1>2, NewerIsLater, NoneIsNothing DEF SeqIn
<1>4. redis \in [Codes -> Snapshots \cup {None}] /\ redis' = [redis EXCEPT ![c] = n]
  BY DEF TypeOK
<1> HIDE DEF n
<1>5. SeqIn(redis') = [A EXCEPT ![c] = n.seq]
  <2>1. SeqIn([redis EXCEPT ![c] = n]) = [SeqIn(redis) EXCEPT ![c] = IF n = None THEN 0 ELSE n.seq]
    BY <1>1, <1>4, Entry
  <2> QED  BY <1>3, <1>4, <2>1
<1>6. A \in [Codes -> 0..MaxSeq] /\ B \in [Codes -> 0..MaxSeq]
  BY SeqType DEF TypeOK
<1> HIDE DEF A, B
<1>7. Kept = Books(A, B) /\ Kept' = Books([A EXCEPT ![c] = n.seq], B)
  BY <1>5 DEF Kept, A, B, SeqIn, Books
<1>8. Kept' = [Kept EXCEPT !["redis"][c] = n.seq] /\ Kept["redis"] = A
  BY <1>1, <1>6, <1>7, BooksEntry DEF Books
<1>9. L!Keep("redis", c)
  BY <1>3, <1>8 DEF L!Keep, Open, Kept, Books
<1> QED  BY <1>1, <1>9 DEF L!Next

\* A save in Postgres is a step of the ledger.
LEMMA KeepSql ==
    ASSUME TypeOK, MaxSeq \in Nat, NEW c \in Open, NEW s \in Snapshots, Open' = Open,
           sqlRooms' = [sqlRooms EXCEPT ![c] = Newer(sqlRooms[c], s)], redis' = redis
    PROVE  L!Next
<1> DEFINE n == Newer(sqlRooms[c], s)
           A == SeqIn(redis)
           B == SeqIn(sqlRooms)
<1>1. c \in Codes
  BY DEF Open
<1>2. sqlRooms[c] \in Snapshots \cup {None}
  BY <1>1 DEF TypeOK
<1>3. n \in Snapshots /\ n.seq \in 0..MaxSeq /\ n.seq >= B[c] /\ n # None
  BY <1>1, <1>2, NewerIsLater, NoneIsNothing DEF SeqIn
<1>4. sqlRooms \in [Codes -> Snapshots \cup {None}] /\ sqlRooms' = [sqlRooms EXCEPT ![c] = n]
  BY DEF TypeOK
<1> HIDE DEF n
<1>5. SeqIn(sqlRooms') = [B EXCEPT ![c] = n.seq]
  <2>1. SeqIn([sqlRooms EXCEPT ![c] = n])
            = [SeqIn(sqlRooms) EXCEPT ![c] = IF n = None THEN 0 ELSE n.seq]
    BY <1>1, <1>4, Entry
  <2> QED  BY <1>3, <1>4, <2>1
<1>6. A \in [Codes -> 0..MaxSeq] /\ B \in [Codes -> 0..MaxSeq]
  BY SeqType DEF TypeOK
<1> HIDE DEF A, B
<1>7. Kept = Books(A, B) /\ Kept' = Books(A, [B EXCEPT ![c] = n.seq])
  BY <1>5 DEF Kept, A, B, SeqIn, Books
<1>8. Kept' = [Kept EXCEPT !["sql"][c] = n.seq] /\ Kept["sql"] = B
  BY <1>1, <1>6, <1>7, BooksEntry DEF Books
<1>9. L!Keep("sql", c)
  BY <1>3, <1>8 DEF L!Keep, Open, Kept, Books
<1> QED  BY <1>1, <1>9 DEF L!Next

\* A deletion from a store is a step of the ledger.
LEMMA ClearStore ==
    ASSUME TypeOK, MaxSeq \in Nat, NEW c \in Codes, c \notin Open, Open' = Open,
           \/ redis' = [redis EXCEPT ![c] = None] /\ sqlRooms' = sqlRooms
           \/ sqlRooms' = [sqlRooms EXCEPT ![c] = None] /\ redis' = redis
    PROVE  L!Next
<1> DEFINE A == SeqIn(redis)
           B == SeqIn(sqlRooms)
<1>1. /\ SeqIn([redis EXCEPT ![c] = None]) = [A EXCEPT ![c] = 0]
      /\ SeqIn([sqlRooms EXCEPT ![c] = None]) = [B EXCEPT ![c] = 0]
  BY DEF SeqIn, TypeOK
<1>2. A \in [Codes -> 0..MaxSeq] /\ B \in [Codes -> 0..MaxSeq]
  BY SeqType DEF TypeOK
<1>3. Kept = Books(A, B)
  BY DEF Kept
<1>4. CASE redis' = [redis EXCEPT ![c] = None] /\ sqlRooms' = sqlRooms
  <2>1. Kept' = Books([A EXCEPT ![c] = 0], B)
    BY <1>1, <1>4 DEF Kept, SeqIn, Books
  <2> HIDE DEF A, B
  <2>2. Kept' = [Kept EXCEPT !["redis"][c] = 0]
    <3>1. Books([A EXCEPT ![c] = 0], B) = [Books(A, B) EXCEPT !["redis"][c] = 0]
      BY <1>2 DEF Books
    <3> QED  BY <1>3, <2>1, <3>1
  <2>3. L!Clear("redis", c)
    BY <2>2 DEF L!Clear, Open, Kept, Books
  <2> QED  BY <2>3 DEF L!Next
<1>5. CASE sqlRooms' = [sqlRooms EXCEPT ![c] = None] /\ redis' = redis
  <2>1. Kept' = Books(A, [B EXCEPT ![c] = 0])
    BY <1>1, <1>5 DEF Kept, SeqIn, Books
  <2> HIDE DEF A, B
  <2>2. Kept' = [Kept EXCEPT !["sql"][c] = 0]
    <3>1. Books(A, [B EXCEPT ![c] = 0]) = [Books(A, B) EXCEPT !["sql"][c] = 0]
      BY <1>2 DEF Books
    <3> QED  BY <1>3, <2>1, <3>1
  <2>3. L!Clear("sql", c)
    BY <2>2 DEF L!Clear, Open, Kept, Books
  <2> QED  BY <2>3 DEF L!Next
<1> QED  BY <1>4, <1>5

\* A room that is shut, or all of them in a crash: a step of the ledger.
LEMMA ShutCodes ==
    ASSUME Open' \subseteq Open, redis' = redis, sqlRooms' = sqlRooms
    PROVE  L!Next
<1>1. Kept' = Kept
  BY DEF Kept, Books, SeqIn
<1>2. PICK C \in SUBSET Codes : C \subseteq Open /\ Open' = Open \ C
  <2>1. Open \ Open' \in SUBSET Codes
    BY DEF Open
  <2> QED  BY <2>1
<1>3. L!Shut(C)
  BY <1>1, <1>2, Zenon DEF L!Shut, Open, Kept, Books
<1> QED  BY <1>2, <1>3, Zenon DEF L!Next

\* A room that is built again from a store: a step of the ledger.
LEMMA ReopenCode ==
    ASSUME TypeOK, MaxSeq \in Nat, NEW c \in Codes, c \notin Open, Open' = Open \cup {c},
           NEW s \in Snapshots, s.seq > 0, s = redis[c] \/ s = sqlRooms[c],
           redis' = [redis EXCEPT ![c] = Newer(redis[c], s)], sqlRooms' = sqlRooms
    PROVE  L!Next
<1> DEFINE n == Newer(redis[c], s)
           A == SeqIn(redis)
           B == SeqIn(sqlRooms)
           now == Books(n.seq, B[c])
<1>1. redis[c] \in Snapshots \cup {None}
  BY DEF TypeOK
<1>2. n \in Snapshots /\ n.seq \in 0..MaxSeq /\ n.seq >= A[c] /\ n # None
  BY <1>1, NewerIsLater, NoneIsNothing DEF SeqIn
<1>3. redis \in [Codes -> Snapshots \cup {None}] /\ redis' = [redis EXCEPT ![c] = n]
  BY DEF TypeOK
<1>4. A[c] > 0 \/ B[c] > 0
  BY NoneIsNothing DEF SeqIn
<1> HIDE DEF n
<1>5. SeqIn(redis') = [A EXCEPT ![c] = n.seq]
  <2>1. SeqIn([redis EXCEPT ![c] = n]) = [SeqIn(redis) EXCEPT ![c] = IF n = None THEN 0 ELSE n.seq]
    BY <1>3, Entry
  <2> QED  BY <1>2, <1>3, <2>1
<1>6. A \in [Codes -> 0..MaxSeq] /\ B \in [Codes -> 0..MaxSeq]
  BY SeqType DEF TypeOK
<1> HIDE DEF A, B
<1>7. Kept = Books(A, B) /\ Kept' = Books([A EXCEPT ![c] = n.seq], B)
  BY <1>5 DEF Kept, A, B, SeqIn, Books
<1>8. now \in [{"redis", "sql"} -> 0..MaxSeq] /\ now["redis"] >= A[c] /\ now["sql"] >= B[c]
  <2>1. B[c] \in 0..MaxSeq
    BY <1>6
  <2>2. B[c] >= B[c]
    BY <2>1
  <2> QED  BY <1>2, <2>1, <2>2 DEF Books
<1>9. Kept' = [store \in {"redis", "sql"} |-> [Kept[store] EXCEPT ![c] = now[store]]]
  <2>1. [B EXCEPT ![c] = B[c]] = B
    BY <1>6
  <2> QED  BY <1>7, <2>1 DEF Books
<1>10. Kept["redis"] = A /\ Kept["sql"] = B
  BY <1>7 DEF Books
<1> HIDE DEF now
<1>11. /\ \E store \in {"redis", "sql"} : Kept[store][c] > 0
       /\ \A store \in {"redis", "sql"} : now[store] >= Kept[store][c]
  BY <1>4, <1>8, <1>10
<1>12. L!Reopen(c)
  BY <1>8, <1>9, <1>11 DEF L!Reopen, Open, Kept, Books
<1> QED  BY <1>12 DEF L!Next

\* Nothing the ledger sees has changed.
LEMMA LedgerStutter ==
    ASSUME UNCHANGED <<used, registered, redis, sqlRooms>>
    PROVE  UNCHANGED L!vars
BY DEF L!vars, SeqIn

\* A commit is a save in Redis or nothing.
LEMMA CommitKeeps ==
    ASSUME LedgerInv, MaxSeq \in Nat, NEW r \in alive, NEW state \in RoomStates,
           NEW match \in BOOLEAN, Commit(r, state, match), TypeOK',
           UNCHANGED <<used, registered, sqlRooms>>
    PROVE  L!Next \/ UNCHANGED L!vars
<1> DEFINE c == CodeOf[r]
           s == Snapshot(r, state)
<1>1. r \in Rooms /\ c \in Codes /\ r # None
  BY CodeOfIsCode, NoneIsNothing DEF LedgerInv, TypeOK
<1>2. s \in Snapshots
  BY <1>1, SnapshotType
<1>3. CASE redis' = redis
  BY <1>3, LedgerStutter
<1>4. CASE c \notin tombs /\ redis' = [redis EXCEPT ![c] = Newer(redis[c], s)]
  <2>1. registered[c] = r
    BY <1>4 DEF LedgerInv, WritersAreKnown
  <2>2. c \in Open
    BY <1>1, <2>1 DEF Open
  <2>3. Open' = Open
    BY DEF Open
  <2> HIDE DEF c, s
  <2> QED  BY <1>2, <1>4, <2>2, <2>3, KeepRedis DEF LedgerInv
<1> QED  BY <1>3, <1>4 DEF Commit, Persist

LEMMA HandlerKeeps ==
    ASSUME LedgerInv, TypeOK', NEW r \in Rooms,
           \/ Act(r)
           \/ Finish(r)
           \/ Destroy(r)
           \/ \E u \in Users : Join(u, r) \/ Leave(u, r)
    PROVE  L!Next \/ UNCHANGED L!vars
<1>1. PICK state : Commit(r, state, TRUE) \/ Commit(r, state, FALSE)
  <2>1. CASE Act(r)
    <3>1. Commit(r, [room[r] EXCEPT !.seq = @ + 1], FALSE)
      BY <2>1 DEF Act
    <3> QED  BY <3>1
  <2>2. CASE Finish(r)
    <3>1. Commit(r, [room[r] EXCEPT !.seq = @ + 1, !.over = TRUE], TRUE)
      BY <2>2 DEF Finish
    <3> QED  BY <3>1
  <2>3. CASE Destroy(r)
    <3>1. Commit(r, [room[r] EXCEPT !.seq = @ + 1], FALSE)
      BY <2>3 DEF Destroy
    <3> QED  BY <3>1
  <2>4. ASSUME NEW u \in Users, Join(u, r)
        PROVE  \E s : Commit(r, s, TRUE) \/ Commit(r, s, FALSE)
    <3>1. Commit(r, [room[r] EXCEPT !.seq = @ + 1, !.seats = @ \cup {u}], FALSE)
      BY <2>4 DEF Join
    <3> QED  BY <3>1
  <2>5. ASSUME NEW u \in Users, Leave(u, r)
        PROVE  \E s : Commit(r, s, TRUE) \/ Commit(r, s, FALSE)
    <3>1. Commit(r, [room[r] EXCEPT !.seq = @ + 1, !.seats = room[r].seats \ {u}], FALSE)
      BY <2>5 DEF Leave
    <3> QED  BY <3>1
  <2> QED  BY <2>1, <2>2, <2>3, <2>4, <2>5
<1>2. r \in alive /\ UNCHANGED <<used, registered, sqlRooms>>
  BY DEF Act, Finish, Destroy, Join, Leave, server, worker, sql
<1>3. room' = [room EXCEPT ![r] = state]
  BY <1>1 DEF Commit, Persist
<1>4. state \in RoomStates
  <2>1. room'[r] = state
    BY <1>3 DEF LedgerInv, TypeOK
  <2> QED  BY <2>1 DEF TypeOK, RoomStates
<1>5. PICK match \in BOOLEAN : Commit(r, state, match)
  BY <1>1
<1> QED  BY <1>2, <1>4, <1>5, BoundsAreNumbers, CommitKeeps

LEMMA LifeKeeps ==
    ASSUME LedgerInv, TypeOK', ~Recycle,
           \/ \E r \in Rooms : Create(r) \/ StopActor(r) \/ Expire(r)
           \/ Deletion
           \/ \E m \in tracking : TrackUserRoom(m)
    PROVE  L!Next \/ UNCHANGED L!vars
<1>0. MaxSeq \in Nat
  BY BoundsAreNumbers
<1>1. ASSUME NEW r \in Rooms, Create(r) PROVE UNCHANGED L!vars
  <2>1. CodeOf[r] \in Codes /\ r # None /\ CodeOf[r] \notin used
    BY <1>1, CodeOfIsCode, NoneIsNothing DEF Create
  <2>2. /\ used' = used \cup {CodeOf[r]}
        /\ registered' = [registered EXCEPT ![CodeOf[r]] = r]
        /\ UNCHANGED <<redis, sqlRooms>>
    BY <1>1 DEF Create, worker, sql
  <2>3. Open' = Open
    BY <2>1, <2>2 DEF Open, LedgerInv, TypeOK
  <2> QED  BY <2>2, <2>3 DEF L!vars, Open, SeqIn
<1>2. ASSUME NEW c \in Codes, Mark(c), registered[c] # None PROVE L!Next
  <2>1. registered' = [registered EXCEPT ![c] = None] /\ UNCHANGED <<used, redis, sqlRooms>>
    BY <1>2 DEF Mark, worker, sql
  <2>2. Open' \subseteq Open
    BY <1>2, <2>1 DEF Open, LedgerInv, TypeOK
  <2> QED  BY <2>1, <2>2, ShutCodes
<1>3. ASSUME NEW r \in Rooms, Expire(r) \/ DeleteRoom(r) PROVE L!Next
  BY <1>2, <1>3, CodeOfIsCode, NoneIsNothing DEF Expire, DeleteRoom
<1>4. CASE DropSql \/ DropRedis
  <2>1. deleting # None /\ UNCHANGED <<used, registered>>
    BY <1>4 DEF DropSql, DropRedis, server
  <2>2. deleting.code \in Codes /\ deleting.code \notin Open /\ Open' = Open
    BY <2>1 DEF LedgerInv, TypeOK, DeletionIsMarked, Open
  <2>3. \/ UNCHANGED <<redis, sqlRooms>>
        \/ redis' = [redis EXCEPT ![deleting.code] = None] /\ sqlRooms' = sqlRooms
        \/ sqlRooms' = [sqlRooms EXCEPT ![deleting.code] = None] /\ redis' = redis
    BY <1>4 DEF DropSql, DropRedis, worker, sql
  <2>4. CASE UNCHANGED <<redis, sqlRooms>>
    BY <2>1, <2>4, LedgerStutter
  <2>5. CASE \/ redis' = [redis EXCEPT ![deleting.code] = None] /\ sqlRooms' = sqlRooms
             \/ sqlRooms' = [sqlRooms EXCEPT ![deleting.code] = None] /\ redis' = redis
    BY <1>0, <2>2, <2>5, ClearStore DEF LedgerInv
  <2> QED  BY <2>3, <2>4, <2>5
<1>5. ASSUME \/ \E r \in Rooms : StopActor(r) \/ DeleteNothing(r)
             \/ \E m \in tracking : TrackUserRoom(m)
      PROVE  UNCHANGED L!vars
  <2>1. UNCHANGED <<used, registered, redis, sqlRooms>>
    BY <1>5 DEF StopActor, DeleteNothing, TrackUserRoom, server, worker, sql
  <2> QED  BY <2>1, LedgerStutter
<1> QED  BY <1>1, <1>3, <1>4, <1>5 DEF Deletion

LEMMA WorkerKeeps ==
    ASSUME LedgerInv, Worker
    PROVE  L!Next \/ UNCHANGED L!vars
<1>1. CASE SaveRoom
  <2>1. /\ job.kind = "room" /\ job.code \in Codes /\ job.what \in Snapshots
        /\ UNCHANGED <<used, registered, redis>>
    BY <1>1 DEF Attempts, SaveRoom, LedgerInv, TypeOK, Jobs, Idle, Ready, server
  <2>2. Open' = Open
    BY <2>1 DEF Open
  <2>3. CASE sqlRooms' = sqlRooms
    BY <2>1, <2>3, LedgerStutter
  <2>4. CASE /\ job.code \notin tombs
             /\ sqlRooms' = [sqlRooms EXCEPT ![job.code] = Newer(sqlRooms[job.code], job.what)]
    <3>1. job.code \in Open
      BY <2>1, <2>4 DEF LedgerInv, WritersAreKnown, Open
    <3> QED  BY <2>1, <2>2, <2>4, <3>1, BoundsAreNumbers, KeepSql DEF LedgerInv
  <2> QED  BY <1>1, <2>3, <2>4 DEF Attempts, SaveRoom
<1>2. CASE Wake \/ Take \/ SaveMatch \/ SaveUserRoom \/ Retry \/ Requeue
  <2>1. UNCHANGED <<used, registered, redis, sqlRooms>>
    BY <1>2 DEF Wake, Take, SaveMatch, SaveUserRoom, Retry, Requeue, server, worker, sql
  <2> QED  BY <2>1, LedgerStutter
<1> QED  BY <1>1, <1>2 DEF Worker

LEMMA RestartKeeps ==
    ASSUME LedgerInv, Crash \/ Restart
    PROVE  L!Next \/ UNCHANGED L!vars
<1>1. CASE Crash
  <2>1. registered' = [c \in Codes |-> None] /\ UNCHANGED <<used, redis, sqlRooms>>
    BY <1>1 DEF Crash, worker, sql
  <2>2. Open' \subseteq Open
    BY <2>1 DEF Open
  <2> QED  BY <2>1, <2>2, ShutCodes
<1>2. ASSUME NEW s \in restoring, RestoreRoom(s) PROVE L!Next
  <2> DEFINE c == CodeOf[s.room]
  <2>1. s \in Snapshots /\ s # None /\ s.room \in Rooms /\ s.room # None /\ c \in Codes
    BY CodeOfIsCode, NoneIsNothing DEF LedgerInv, TypeOK, Snapshots
  <2>2. registered[c] = None /\ s.seq > 0 /\ (s = redis[c] \/ s = sqlRooms[c])
    BY DEF LedgerInv, RestoringIsStored
  <2>3. c \in used
    BY <2>1, <2>2 DEF LedgerInv, CodesAreUsed
  <2>4. /\ registered' = [registered EXCEPT ![c] = s.room]
        /\ redis' = [redis EXCEPT ![c] = Newer(redis[c], s)]
        /\ UNCHANGED <<used, sqlRooms>>
    BY <1>2 DEF RestoreRoom, worker, sql
  <2> HIDE DEF c
  <2>5. c \notin Open /\ Open' = Open \cup {c}
    BY <2>1, <2>2, <2>3, <2>4 DEF Open, LedgerInv, TypeOK
  <2> QED  BY <2>1, <2>2, <2>4, <2>5, BoundsAreNumbers, ReopenCode DEF LedgerInv
<1>3. CASE Boot \/ Serve
  <2>1. UNCHANGED <<used, registered, redis, sqlRooms>>
    BY <1>3 DEF Boot, Serve, worker, sql
  <2> QED  BY <2>1, LedgerStutter
<1> QED  BY <1>1, <1>2, <1>3 DEF Restart

LEMMA LedgerStarts == Init => L!Init
<1> SUFFICES ASSUME Init PROVE L!Init
  OBVIOUS
<1>1. Open = Codes
  BY DEF Init, Open
<1>2. SeqIn(redis) = [c \in Codes |-> 0] /\ SeqIn(sqlRooms) = [c \in Codes |-> 0]
  BY DEF Init, SeqIn
<1>3. Kept = [s \in {"redis", "sql"} |-> [c \in Codes |-> 0]]
  BY <1>2 DEF Kept, Books
<1> QED  BY <1>1, <1>3, Faces

\* Every step is one of the ledger or does not touch it.
LEMMA LedgerKeepStep ==
    ASSUME ~Recycle, LedgerInv, [Next]_vars
    PROVE  [L!Next]_(L!vars)
<1>0. TypeOK'
  BY TypeStep DEF LedgerInv
<1>1. CASE UNCHANGED vars
  BY <1>1, LedgerStutter DEF vars, server, worker, sql
<1>2. ASSUME NEW r \in Rooms,
             \/ Act(r) \/ Finish(r) \/ Destroy(r)
             \/ \E u \in Users : Join(u, r) \/ Leave(u, r)
      PROVE  L!Next \/ UNCHANGED L!vars
  BY <1>0, <1>2, HandlerKeeps
<1>3. ASSUME \/ \E r \in Rooms : Create(r) \/ StopActor(r) \/ Expire(r)
             \/ Deletion
             \/ \E m \in tracking : TrackUserRoom(m)
      PROVE  L!Next \/ UNCHANGED L!vars
  BY <1>0, <1>3, LifeKeeps
<1>4. CASE Worker
  BY <1>4, WorkerKeeps
<1>5. CASE Crash \/ Restart
  BY <1>5, RestartKeeps
<1> QED  BY <1>1, <1>2, <1>3, <1>4, <1>5 DEF Next

\* The room manager, its worker, Redis and Postgres implement the ledger for
\* every number of rooms, users, failures and crashes, as long as no code is
\* drawn twice: both stores keep ever later states of a room that is open,
\* and of a destroyed one nothing once they have been told.
THEOREM LedgerKept ==
    ASSUME ~Recycle
    PROVE  Spec => KeepsALedger
<1>1. Init => LedgerInv /\ L!Init
  BY LedgerInit, LedgerStarts
<1>2. LedgerInv /\ [Next]_vars => LedgerInv' /\ [L!Next]_(L!vars)
  BY LedgerStep, LedgerKeepStep
<1> QED  BY <1>1, <1>2, PTL DEF Spec, KeepsALedger, L!Spec

-----------------------------------------------------------------------------
(* What was accepted survives. *)

\* No call of Redis and no deletion has failed.
Calm == faults["live"] = 0 /\ faults["drop"] = 0

\* What is on its way to Postgres, and what has arrived, is in Redis as long
\* as it may still be written or read.  Postgres is cleared before Redis.
RedisIsFirst ==
    /\ \A c \in Codes :
          pendingRooms[c] # None \/ sqlRooms[c] # None => redis[c] # None
    /\ job.kind = "room" /\ job.code \notin tombs => redis[job.code] # None
    /\ deleting # None /\ deleting.next = "redis" => sqlRooms[deleting.code] = None

\* A restart reads Redis, and nothing else has to be read.
RestoringIsRedis == \A s \in restoring : s = redis[CodeOf[s.room]]

\* Neither Redis nor the actor is behind what was accepted.
AcceptedIsKept ==
    /\ \A c \in Codes : redis[c] # None => accepted[redis[c].room] <= redis[c].seq
    /\ \A r \in Rooms : accepted[r] <= room[r].seq

SurvivalInv ==
    /\ tombs \subseteq used
    /\ Calm => RedisIsFirst /\ RestoringIsRedis /\ AcceptedIsKept

LEMMA CalmBefore ==
    ASSUME TypeOK, NEW k \in {"save", "live", "drop"},
           faults' = faults \/ Fail(k)
    PROVE  /\ Calm' => Calm
           /\ Calm' /\ k # "save" => faults' = faults
<1>1. faults \in [{"save", "live", "drop"} -> Nat]
  BY DEF TypeOK
<1>2. CASE faults' = faults
  BY <1>2 DEF Calm
<1>3. CASE Fail(k)
  BY <1>1, <1>3 DEF Calm, Fail
<1> QED  BY <1>2, <1>3

\* A commit of a handler: the state is one step ahead.
LEMMA CommitSurvives ==
    ASSUME LedgerInv, SurvivalInv, NEW r \in alive, NEW state \in RoomStates,
           NEW match \in BOOLEAN, state.seq = room[r].seq + 1,
           Commit(r, state, match),
           UNCHANGED <<server, alive, deleting, tombs, job, sqlRooms>>
    PROVE  SurvivalInv'
<1> DEFINE c == CodeOf[r]
           s == Snapshot(r, state)
<1>1. r \in Rooms /\ c \in Codes
  BY CodeOfIsCode DEF LedgerInv, TypeOK
<1>2. s \in Snapshots /\ s # None /\ s.room = r /\ s.seq = state.seq
  BY <1>1, SnapshotType, NoneIsNothing DEF Snapshot
<1>3. /\ room' = [room EXCEPT ![r] = state]
      /\ \/ /\ c \in tombs /\ accepted' = accepted
            /\ UNCHANGED <<redis, pendingRooms, faults>>
         \/ /\ c \notin tombs /\ accepted' = [accepted EXCEPT ![r] = state.seq]
            /\ redis' = [redis EXCEPT ![c] = Newer(redis[c], s)]
            /\ pendingRooms' = [pendingRooms EXCEPT ![c] = Newer(pendingRooms[c], s)]
            /\ UNCHANGED faults
         \/ /\ c \notin tombs /\ accepted' = [accepted EXCEPT ![r] = state.seq]
            /\ Fail("live")
            /\ UNCHANGED <<redis, pendingRooms>>
  BY DEF Commit, Persist
<1>4. c \in used /\ (registered[c] = r \/ c \in tombs) /\ r # None
  BY <1>1, NoneIsNothing DEF LedgerInv, WritersAreKnown
<1>5. UNCHANGED <<phase, restoring, used, registered, alive, deleting, tombs, job, sqlRooms>>
  BY DEF server
<1> HIDE DEF c, s
<1>6. faults' = faults \/ Fail("live")
  BY <1>3
<1>7. (Calm' => Calm) /\ (Calm' => faults' = faults)
  BY <1>6, CalmBefore DEF LedgerInv, SurvivalInv
<1>8. ~(Calm' /\ Fail("live"))
  <2>1. faults \in [{"save", "live", "drop"} -> Nat]
    BY DEF LedgerInv, TypeOK
  <2> QED  BY <1>7, <2>1 DEF Fail
<1>9. /\ redis \in [Codes -> Snapshots \cup {None}]
      /\ pendingRooms \in [Codes -> Snapshots \cup {None}]
      /\ room \in [Rooms -> RoomStates] /\ accepted \in [Rooms -> 0..MaxSeq]
      /\ MaxSeq \in Nat
  BY BoundsAreNumbers DEF LedgerInv, TypeOK, RoomStates
<1>10. room[r].seq \in Nat /\ state.seq \in Nat
  BY <1>1, <1>9 DEF RoomStates
<1>11. ASSUME Calm PROVE \A q \in Rooms : accepted'[q] <= room'[q].seq
  <2>1. \A q \in Rooms : accepted[q] <= room[q].seq /\ accepted[q] \in Nat
    BY <1>9, <1>11 DEF SurvivalInv, AcceptedIsKept
  <2>2. \A q \in Rooms : room'[q] = IF q = r THEN state ELSE room[q]
    BY <1>1, <1>3, <1>9
  <2>3. \A q \in Rooms : accepted'[q] \in {accepted[q], IF q = r THEN state.seq ELSE accepted[q]}
    BY <1>1, <1>3, <1>9
  <2>4. accepted[r] <= state.seq
    BY <1>1, <1>10, <2>1
  <2> QED  BY <1>1, <1>10, <2>1, <2>2, <2>3, <2>4
<1>12. CASE UNCHANGED <<redis, pendingRooms, accepted>>
  BY <1>5, <1>7, <1>11, <1>12
     DEF SurvivalInv, RedisIsFirst, RestoringIsRedis, AcceptedIsKept
<1>13. ASSUME c \notin tombs, accepted' = [accepted EXCEPT ![r] = state.seq],
              redis' = [redis EXCEPT ![c] = Newer(redis[c], s)],
              pendingRooms' = [pendingRooms EXCEPT ![c] = Newer(pendingRooms[c], s)],
              Calm
       PROVE  RedisIsFirst' /\ RestoringIsRedis' /\ AcceptedIsKept'
  <2>1. redis'[c] \in {redis[c], s} \ {None} /\ pendingRooms'[c] # None
    BY <1>1, <1>2, <1>9, <1>13 DEF Newer
  <2>2. \A d \in Codes \ {c} : redis'[d] = redis[d] /\ pendingRooms'[d] = pendingRooms[d]
    BY <1>1, <1>9, <1>13
  <2>3. \A d \in Codes : redis[d] # None => redis'[d] # None
    BY <1>1, <2>1, <2>2
  <2>4. RedisIsFirst'
    <3>1. \A d \in Codes : pendingRooms'[d] # None \/ sqlRooms'[d] # None => redis'[d] # None
      BY <1>1, <1>5, <1>13, <2>1, <2>2 DEF SurvivalInv, RedisIsFirst
    <3>2. job.kind = "room" => job.code \in Codes
      BY DEF LedgerInv, TypeOK, Jobs, Idle, Ready
    <3>3. job.kind = "room" /\ job.code \notin tombs => redis'[job.code] # None
      BY <1>13, <2>3, <3>2 DEF SurvivalInv, RedisIsFirst
    <3> QED  BY <1>5, <1>13, <3>1, <3>3 DEF SurvivalInv, RedisIsFirst
  <2>5. RestoringIsRedis'
    <3>1. \A t \in restoring : CodeOf[t.room] \in Codes \ {c}
      BY <1>4, <1>13, CodeOfIsCode DEF LedgerInv, TypeOK, Snapshots, RestoringIsStored
    <3> QED  BY <1>5, <1>13, <2>2, <3>1 DEF SurvivalInv, RestoringIsRedis
  <2>6. AcceptedIsKept'
    <3>1. \A d \in Codes : redis[d] # None => accepted[redis[d].room] <= redis[d].seq
      BY <1>13 DEF SurvivalInv, AcceptedIsKept
    <3>2. \A q \in Rooms : accepted'[q] = IF q = r THEN state.seq ELSE accepted[q]
      BY <1>1, <1>9, <1>13
    <3>3. ASSUME NEW d \in Codes, d # c, redis'[d] # None
          PROVE  accepted'[redis'[d].room] <= redis'[d].seq
      <4>1. redis'[d] = redis[d] /\ redis[d] \in Snapshots
        BY <1>9, <2>2, <3>3
      <4>2. CodeOf[redis[d].room] = d /\ redis[d].room \in Rooms
        BY <3>3, <4>1 DEF LedgerInv, SnapshotsFit, Fits, Snapshots
      <4>3. redis[d].room # r
        BY <3>3, <4>2 DEF c
      <4> QED  BY <3>1, <3>2, <3>3, <4>1, <4>2, <4>3
    <3>4. accepted'[redis'[c].room] <= redis'[c].seq
      <4>1. CASE redis'[c] = s
        BY <1>1, <1>2, <1>10, <3>2, <4>1
      <4>2. CASE redis'[c] # s
        <5>1. redis'[c] = redis[c] /\ redis[c] # None /\ state.seq < redis[c].seq
          BY <1>1, <1>2, <1>9, <1>13, <4>2 DEF Newer
        <5>2. redis[c].room \in Rooms /\ redis[c].seq \in Nat
          BY <1>1, <1>9, <5>1 DEF Snapshots
        <5>3. accepted'[redis[c].room] \in {state.seq, accepted[redis[c].room]}
          BY <3>2, <5>2
        <5> QED  BY <1>1, <1>10, <3>1, <5>1, <5>2, <5>3
      <4> QED  BY <4>1, <4>2
    <3> QED  BY <1>11, <1>13, <3>3, <3>4 DEF AcceptedIsKept
  <2> QED  BY <2>4, <2>5, <2>6
<1>14. tombs' \subseteq used'
  BY <1>5 DEF SurvivalInv
<1> QED  BY <1>3, <1>7, <1>8, <1>12, <1>13, <1>14 DEF SurvivalInv

LEMMA HandlerSurvives ==
    ASSUME LedgerInv, SurvivalInv, NEW r \in Rooms,
           \/ Act(r) \/ Finish(r) \/ Destroy(r)
           \/ \E u \in Users : Join(u, r) \/ Leave(u, r)
    PROVE  SurvivalInv'
<1>0. room[r] \in RoomStates /\ MaxSeq \in Nat
  BY BoundsAreNumbers DEF LedgerInv, TypeOK, RoomStates
<1>1. ASSUME NEW t, NEW match \in BOOLEAN, t.seq = room[r].seq + 1, r \in alive,
             t.seq <= MaxSeq => t \in RoomStates,
             Commit(r, t, match),
             UNCHANGED <<server, alive, deleting, tombs, job, sqlRooms>>
      PROVE  SurvivalInv'
  <2>1. t \in RoomStates
    BY <1>1 DEF Commit
  <2> QED  BY <1>1, <2>1, CommitSurvives
<1>2. room[r].seq + 1 \in Nat /\ room[r].seq + 1 > 0
  BY <1>0 DEF RoomStates
<1>3. CASE Act(r)
  <2> DEFINE t == [room[r] EXCEPT !.seq = @ + 1]
  <2>1. t.seq = room[r].seq + 1
    BY <1>0 DEF RoomStates
  <2>2. t.seq <= MaxSeq => t \in RoomStates
    BY <1>0, <1>2, <2>1 DEF RoomStates
  <2>3. Commit(r, t, FALSE) /\ r \in alive
        /\ UNCHANGED <<server, alive, deleting, tombs, job, sqlRooms>>
    BY <1>3 DEF Act, worker, sql
  <2> HIDE DEF t
  <2> QED  BY <1>1, <2>1, <2>2, <2>3
<1>4. CASE Finish(r)
  <2> DEFINE t == [room[r] EXCEPT !.seq = @ + 1, !.over = TRUE]
  <2>1. t.seq = room[r].seq + 1
    BY <1>0 DEF RoomStates
  <2>2. t.seq <= MaxSeq => t \in RoomStates
    <3>1. t.seq <= MaxSeq => room[r].seq + 1 \in 0..MaxSeq
      BY <1>0, <1>2, <2>1
    <3> QED  BY <1>0, <2>1, <3>1, OverStateType
  <2>3. Commit(r, t, TRUE) /\ r \in alive
        /\ UNCHANGED <<server, alive, deleting, tombs, job, sqlRooms>>
    BY <1>4 DEF Finish, worker, sql
  <2> HIDE DEF t
  <2> QED  BY <1>1, <2>1, <2>2, <2>3
<1>5. CASE Destroy(r)
  <2> DEFINE t == [room[r] EXCEPT !.seq = @ + 1]
  <2>1. t.seq = room[r].seq + 1
    BY <1>0 DEF RoomStates
  <2>2. t.seq <= MaxSeq => t \in RoomStates
    BY <1>0, <1>2, <2>1 DEF RoomStates
  <2>3. Commit(r, t, FALSE) /\ r \in alive
        /\ UNCHANGED <<server, alive, deleting, tombs, job, sqlRooms>>
    BY <1>5 DEF Destroy, worker, sql
  <2> HIDE DEF t
  <2> QED  BY <1>1, <2>1, <2>2, <2>3
<1>6. ASSUME NEW u \in Users, Join(u, r) PROVE SurvivalInv'
  <2> DEFINE t == [room[r] EXCEPT !.seq = @ + 1, !.seats = @ \cup {u}]
  <2>1. t.seq = room[r].seq + 1 /\ room[r].seats \cup {u} \in SUBSET Users
    BY <1>0 DEF RoomStates
  <2>2. t.seq <= MaxSeq => t \in RoomStates
    <3>1. t.seq <= MaxSeq => room[r].seq + 1 \in 0..MaxSeq
      BY <1>0, <1>2, <2>1
    <3> QED  BY <1>0, <2>1, <3>1, SeatsStateType
  <2>3. Commit(r, t, FALSE) /\ r \in alive
        /\ UNCHANGED <<server, alive, deleting, tombs, job, sqlRooms>>
    BY <1>6 DEF Join, worker, sql
  <2> HIDE DEF t
  <2> QED  BY <1>1, <2>1, <2>2, <2>3
<1>7. ASSUME NEW u \in Users, Leave(u, r) PROVE SurvivalInv'
  <2> DEFINE left == room[r].seats \ {u}
             t == [room[r] EXCEPT !.seq = @ + 1, !.seats = left]
  <2>1. t.seq = room[r].seq + 1 /\ left \in SUBSET Users
    BY <1>0 DEF RoomStates
  <2>2. t.seq <= MaxSeq => t \in RoomStates
    <3>1. t.seq <= MaxSeq => room[r].seq + 1 \in 0..MaxSeq
      BY <1>0, <1>2, <2>1
    <3> QED  BY <1>0, <2>1, <3>1, SeatsStateType
  <2>3. Commit(r, t, FALSE) /\ r \in alive
        /\ UNCHANGED <<server, alive, deleting, tombs, job, sqlRooms>>
    BY <1>7 DEF Leave, worker
  <2> HIDE DEF t
  <2> QED  BY <1>1, <2>1, <2>2, <2>3
<1> QED  BY <1>3, <1>4, <1>5, <1>6, <1>7

\* Steps that write neither Redis nor a room, and take nothing into the
\* queue or out of the deletion that Redis does not have.
LEMMA QuietSurvives ==
    ASSUME SurvivalInv, Calm' => Calm, tombs' \subseteq used',
           UNCHANGED <<redis, room, accepted>>,
           restoring' \subseteq restoring,
           Calm => RedisIsFirst'
    PROVE  SurvivalInv'
BY DEF SurvivalInv, RestoringIsRedis, AcceptedIsKept

LEMMA LifeSurvives ==
    ASSUME LedgerInv, SurvivalInv, ~Recycle,
           \/ \E r \in Rooms : Create(r) \/ StopActor(r) \/ Expire(r)
           \/ Deletion
           \/ \E m \in tracking : TrackUserRoom(m)
    PROVE  SurvivalInv'
<1>0. /\ redis \in [Codes -> Snapshots \cup {None}]
      /\ sqlRooms \in [Codes -> Snapshots \cup {None}]
      /\ pendingRooms \in [Codes -> Snapshots \cup {None}]
      /\ deleting # None => deleting \in [code : Codes, next : {"sql", "redis"}]
  BY DEF LedgerInv, TypeOK
<1>1. ASSUME faults' = faults PROVE (Calm' => Calm)
  BY <1>1 DEF SurvivalInv, Calm
<1>2. ASSUME NEW r \in Rooms, Create(r) PROVE SurvivalInv'
  <2> DEFINE c == CodeOf[r]
  <2>1. /\ c \notin used /\ c \in Codes /\ registered[c] = None
        /\ used' = used \cup {c} /\ tombs' = tombs \ {c}
        /\ UNCHANGED <<redis, room, accepted, restoring, faults, pendingRooms, sqlRooms,
                       job, deleting>>
    BY <1>2, CodeOfIsCode DEF Create, queues, worker, sql
  <2>2. job.kind = "room" => job.code # c
    BY <2>1 DEF LedgerInv, WritersAreKnown, SurvivalInv
  <2> HIDE DEF c
  <2>3. Calm => RedisIsFirst'
    BY <2>1, <2>2 DEF SurvivalInv, RedisIsFirst
  <2>4. tombs' \subseteq used'
    BY <2>1 DEF SurvivalInv
  <2> QED  BY <1>1, <2>1, <2>3, <2>4, QuietSurvives
<1>3. ASSUME UNCHANGED <<redis, room, accepted, restoring, faults, pendingRooms, sqlRooms,
                         job, deleting, tombs, used>>
      PROVE  SurvivalInv'
  BY <1>1, <1>3, QuietSurvives DEF SurvivalInv, RedisIsFirst
<1>4. ASSUME NEW r \in Rooms, StopActor(r) PROVE SurvivalInv'
  BY <1>3, <1>4 DEF StopActor, server, queues, worker, sql
<1>5. ASSUME NEW m \in tracking, TrackUserRoom(m) PROVE SurvivalInv'
  BY <1>3, <1>5 DEF TrackUserRoom, server, actors, worker, sql
<1>6. ASSUME NEW r \in Rooms, DeleteNothing(r) PROVE SurvivalInv'
  BY <1>3, <1>6 DEF DeleteNothing, server, queues, worker, sql
<1>7. ASSUME NEW c \in Codes, registered[c] # None, Mark(c) PROVE SurvivalInv'
  <2>1. /\ deleting' = [code |-> c, next |-> "sql"] /\ tombs' = tombs \cup {c}
        /\ pendingRooms' = [pendingRooms EXCEPT ![c] = None]
        /\ UNCHANGED <<redis, room, accepted, restoring, faults, sqlRooms, job, used>>
    BY <1>7 DEF Mark, worker, sql
  <2>2. c \in used
    BY <1>7 DEF LedgerInv, CodesAreUsed
  <2>3. tombs' \subseteq used'
    BY <2>1, <2>2 DEF SurvivalInv
  <2>4. Calm => RedisIsFirst'
    BY <1>0, <2>1 DEF SurvivalInv, RedisIsFirst
  <2> QED  BY <1>1, <2>1, <2>3, <2>4, QuietSurvives
<1>8. ASSUME NEW r \in Rooms, Expire(r) \/ DeleteRoom(r) PROVE SurvivalInv'
  <2>1. registered[CodeOf[r]] # None /\ Mark(CodeOf[r]) /\ CodeOf[r] \in Codes
    BY <1>8, CodeOfIsCode, NoneIsNothing DEF Expire, DeleteRoom
  <2> QED  BY <1>7, <2>1
<1>9. CASE DropSql
  <2>1. /\ deleting # None /\ deleting.next = "sql"
        /\ deleting' = [deleting EXCEPT !.next = "redis"]
        /\ \/ /\ sqlRooms' = [sqlRooms EXCEPT ![deleting.code] = None]
              /\ faults' = faults
           \/ Fail("drop") /\ sqlRooms' = sqlRooms
        /\ UNCHANGED <<redis, room, accepted, restoring, pendingRooms, job, tombs, used>>
    BY <1>9 DEF DropSql, server, actors, queues, worker
  <2>2. (Calm' => Calm /\ faults' = faults)
    BY <2>1, CalmBefore DEF LedgerInv, SurvivalInv
  <2>3. ~(Calm' /\ Fail("drop"))
    <3>1. faults \in [{"save", "live", "drop"} -> Nat]
      BY DEF LedgerInv, TypeOK
    <3> QED  BY <2>2, <3>1 DEF Fail
  <2>4. Calm' => RedisIsFirst'
    <3> SUFFICES ASSUME Calm' PROVE RedisIsFirst'
      OBVIOUS
    <3>1. sqlRooms' = [sqlRooms EXCEPT ![deleting.code] = None] /\ Calm
      BY <2>1, <2>2, <2>3
    <3>2. deleting'.code = deleting.code /\ deleting.code \in Codes
      BY <1>0, <2>1
    <3> QED  BY <1>0, <2>1, <3>1, <3>2 DEF SurvivalInv, RedisIsFirst
  <2> QED  BY <2>1, <2>2, <2>4
           DEF SurvivalInv, RestoringIsRedis, AcceptedIsKept
<1>10. CASE DropRedis
  <2>1. /\ deleting # None /\ deleting.next = "redis" /\ deleting' = None
        /\ redis' = [redis EXCEPT ![deleting.code] = None] \/ redis' = redis
        /\ faults' = faults \/ Fail("drop")
        /\ UNCHANGED <<room, accepted, restoring, pendingRooms, sqlRooms, job, tombs, used,
                       phase>>
    BY <1>10 DEF DropRedis, server, actors, queues, worker, sql
  <2>2. (Calm' => Calm)
    BY <2>1, CalmBefore DEF LedgerInv, SurvivalInv
  <2>3. /\ phase = "serving" /\ deleting.code \in tombs
        /\ registered[deleting.code] = None /\ restoring = {}
    BY <2>1 DEF LedgerInv, DeletionIsMarked, StartIsQuiet
  <2>4. deleting.code \in Codes /\ pendingRooms[deleting.code] = None
    BY <1>0, <2>1, <2>3 DEF LedgerInv, WritersAreKnown
  <2>5. Calm => RedisIsFirst'
    <3>1. \A c \in Codes \ {deleting.code} : redis'[c] = redis[c]
      BY <1>0, <2>1, <2>4
    <3>2. job.kind = "room" => job.code \in Codes
      BY DEF LedgerInv, TypeOK, Jobs, Idle, Ready
    <3> QED  BY <2>1, <2>3, <2>4, <3>1, <3>2 DEF SurvivalInv, RedisIsFirst
  <2>6. Calm => AcceptedIsKept'
    <3>1. \A c \in Codes : redis'[c] # None => redis'[c] = redis[c]
      BY <1>0, <2>1, <2>4
    <3> QED  BY <2>1, <3>1 DEF SurvivalInv, AcceptedIsKept
  <2> QED  BY <2>1, <2>2, <2>3, <2>5, <2>6 DEF SurvivalInv, RestoringIsRedis
<1> QED  BY <1>2, <1>4, <1>5, <1>6, <1>8, <1>9, <1>10 DEF Deletion

LEMMA WorkerSurvives ==
    ASSUME LedgerInv, SurvivalInv, Worker
    PROVE  SurvivalInv'
<1>0. /\ redis \in [Codes -> Snapshots \cup {None}]
      /\ sqlRooms \in [Codes -> Snapshots \cup {None}]
      /\ pendingRooms \in [Codes -> Snapshots \cup {None}]
      /\ job.kind = "room" => job.code \in Codes /\ job.what \in Snapshots
  BY DEF LedgerInv, TypeOK, Jobs, Idle, Ready
<1>1. ASSUME UNCHANGED <<redis, room, accepted, restoring, used, tombs, deleting>>,
             faults' = faults \/ Fail("save"), Calm => RedisIsFirst'
      PROVE  SurvivalInv'
  <2>1. (Calm' => Calm)
    BY <1>1, CalmBefore DEF LedgerInv, SurvivalInv
  <2>2. tombs' \subseteq used'
    BY <1>1 DEF SurvivalInv
  <2> QED  BY <1>1, <2>1, <2>2, QuietSurvives
<1>2. ASSUME UNCHANGED <<redis, sqlRooms, pendingRooms, tombs, deleting>>,
             job'.kind # "room"
      PROVE  Calm => RedisIsFirst'
  BY <1>2 DEF SurvivalInv, RedisIsFirst
<1>3. CASE Wake
  <2>1. /\ UNCHANGED <<redis, room, accepted, restoring, used, tombs, deleting, faults,
                       sqlRooms, pendingRooms>>
        /\ job'.kind # "room"
    BY <1>3 DEF Wake, server, actors, sql, Ready
  <2> QED  BY <1>1, <1>2, <2>1
<1>4. CASE Take
  <2>1. UNCHANGED <<redis, room, accepted, restoring, used, tombs, deleting, faults, sqlRooms>>
    BY <1>4 DEF Take, server, actors, worker, sql
  <2>2. \/ \E c \in Codes :
             /\ pendingRooms[c] # None /\ job'.kind = "room" /\ job'.code = c
             /\ pendingRooms' = [pendingRooms EXCEPT ![c] = None]
        \/ pendingRooms' = pendingRooms /\ job'.kind # "room"
    BY <1>4 DEF Take, Idle
  <2>3. Calm => RedisIsFirst'
    <3>1. CASE pendingRooms' = pendingRooms /\ job'.kind # "room"
      BY <1>2, <2>1, <3>1
    <3>2. ASSUME NEW c \in Codes, pendingRooms[c] # None, job'.code = c,
                 pendingRooms' = [pendingRooms EXCEPT ![c] = None]
          PROVE  Calm => RedisIsFirst'
      BY <1>0, <2>1, <3>2 DEF SurvivalInv, RedisIsFirst
    <3> QED  BY <2>2, <3>1, <3>2
  <2> QED  BY <1>1, <2>1, <2>3
<1>5. CASE SaveRoom
  <2>1. /\ job.kind = "room" /\ job'.kind # "room"
        /\ \/ sqlRooms' = sqlRooms
           \/ /\ job.code \notin tombs
              /\ sqlRooms' = [sqlRooms EXCEPT ![job.code] = Newer(@, job.what)]
        /\ UNCHANGED <<redis, room, accepted, restoring, used, tombs, deleting, faults,
                       pendingRooms>>
    BY <1>5 DEF Attempts, SaveRoom, server, actors, queues, Ready
  <2>2. Calm => RedisIsFirst'
    <3> SUFFICES ASSUME Calm PROVE RedisIsFirst'
      OBVIOUS
    <3>1. \A c \in Codes : \/ sqlRooms'[c] = sqlRooms[c]
                           \/ c = job.code /\ job.code \notin tombs
      BY <1>0, <2>1
    <3>2. \A c \in Codes : sqlRooms'[c] # None => redis[c] # None
      BY <2>1, <3>1 DEF SurvivalInv, RedisIsFirst
    <3>3. deleting # None =>
            deleting.code \in tombs /\ deleting.code \in Codes
      BY DEF LedgerInv, DeletionIsMarked, TypeOK
    <3> QED  BY <2>1, <3>1, <3>2, <3>3 DEF SurvivalInv, RedisIsFirst
  <2> QED  BY <1>1, <2>1, <2>2
<1>6. CASE SaveMatch
  <2>1. /\ UNCHANGED <<redis, room, accepted, restoring, used, tombs, deleting, faults,
                       sqlRooms, pendingRooms>>
        /\ job'.kind # "room"
    BY <1>6 DEF Attempts, SaveMatch, server, actors, queues, Ready
  <2> QED  BY <1>1, <1>2, <2>1
<1>7. CASE SaveUserRoom
  <2>1. /\ UNCHANGED <<redis, room, accepted, restoring, used, tombs, deleting, faults,
                       sqlRooms, pendingRooms>>
        /\ job'.kind # "room"
    BY <1>7 DEF Attempts, SaveUserRoom, server, actors, queues, Ready
  <2> QED  BY <1>1, <1>2, <2>1
<1>8. CASE Retry
  <2>1. /\ UNCHANGED <<redis, room, accepted, restoring, used, tombs, deleting,
                       sqlRooms, pendingRooms>>
        /\ faults' = faults \/ Fail("save")
    BY <1>8 DEF Retry, SaveFails, server, actors, queues, worker, sql
  <2>2. job'.kind = job.kind /\ (job.kind = "room" => job'.code = job.code)
    BY <1>8 DEF Retry, SaveFails, LedgerInv, TypeOK, Jobs, Idle, Ready
  <2>3. Calm => RedisIsFirst'
    BY <2>1, <2>2 DEF SurvivalInv, RedisIsFirst
  <2> QED  BY <1>1, <2>1, <2>3
<1>9. CASE Requeue
  <2>1. /\ UNCHANGED <<redis, room, accepted, restoring, used, tombs, deleting, sqlRooms>>
        /\ faults' = faults \/ Fail("save")
        /\ job'.kind # "room"
    BY <1>9 DEF Requeue, server, actors, sql, Idle
  <2>2. CASE /\ job.kind = "room" /\ job.code \notin tombs
             /\ pendingRooms' = [pendingRooms EXCEPT ![job.code] = PutBack(@, job.what)]
    <3>1. \A c \in Codes : pendingRooms'[c] # None => pendingRooms[c] # None \/ c = job.code
      BY <1>0, <2>2
    <3>2. Calm => RedisIsFirst'
      BY <2>1, <2>2, <3>1 DEF SurvivalInv, RedisIsFirst
    <3> QED  BY <1>1, <2>1, <3>2
  <2>3. CASE pendingRooms' = pendingRooms
    BY <1>1, <1>2, <2>1, <2>3
  <2> QED  BY <1>9, <2>2, <2>3 DEF Requeue, queues
<1> QED  BY <1>3, <1>4, <1>5, <1>6, <1>7, <1>8, <1>9 DEF Worker

LEMMA RestartSurvives ==
    ASSUME LedgerInv, SurvivalInv, Crash \/ Restart
    PROVE  SurvivalInv'
<1>0. /\ redis \in [Codes -> Snapshots \cup {None}]
      /\ sqlRooms \in [Codes -> Snapshots \cup {None}]
      /\ pendingRooms \in [Codes -> Snapshots \cup {None}]
      /\ room \in [Rooms -> RoomStates]
  BY DEF LedgerInv, TypeOK, RoomStates
<1>1. ASSUME faults' = faults PROVE (Calm' => Calm)
  BY <1>1 DEF SurvivalInv, Calm
<1>2. CASE Crash
  <2>1. /\ restoring' = {} /\ job' = Idle /\ deleting' = None /\ tombs' = {}
        /\ pendingRooms' = [c \in Codes |-> None]
        /\ UNCHANGED <<room, accepted, redis, sqlRooms, faults>>
    BY <1>2 DEF Crash, worker, sql
  <2>2. Calm => RedisIsFirst'
    BY <2>1 DEF SurvivalInv, RedisIsFirst, Idle
  <2> QED  BY <1>1, <2>1, <2>2, QuietSurvives
<1>3. CASE Boot
  <2>1. /\ \/ restoring' = Stored(redis) /\ faults' = faults
           \/ restoring' = Stored(sqlRooms) /\ Fail("live")
           \/ restoring' = Stored(sqlRooms) /\ Stored(redis) = {} /\ faults' = faults
        /\ UNCHANGED <<used, deleting, tombs, pendingRooms, job, redis, sqlRooms, room,
                       accepted>>
    BY <1>3 DEF Boot, actors, queues, worker, sql
  <2>2. (Calm' => Calm /\ faults' = faults)
    BY <2>1, CalmBefore DEF LedgerInv, SurvivalInv
  <2>3. ~(Calm' /\ Fail("live"))
    <3>1. faults \in [{"save", "live", "drop"} -> Nat]
      BY DEF LedgerInv, TypeOK
    <3> QED  BY <2>2, <3>1 DEF Fail
  <2>4. Calm' => RestoringIsRedis'
    <3>1. CASE restoring' = Stored(redis)
      <4>1. \A s \in restoring' : \E c \in Codes : s = redis[c] /\ CodeOf[s.room] = c
        BY <3>1 DEF Stored, LedgerInv, SnapshotsFit, Fits
      <4> QED  BY <2>1, <4>1 DEF RestoringIsRedis
    <3>2. ASSUME restoring' = Stored(sqlRooms), Stored(redis) = {}, Calm
          PROVE  RestoringIsRedis'
      <4>1. \A c \in Codes : redis[c] = None
        BY <3>2 DEF Stored
      <4>2. restoring' = {}
        BY <3>2, <4>1 DEF Stored, SurvivalInv, RedisIsFirst
      <4> QED  BY <4>2 DEF RestoringIsRedis
    <3> QED  BY <2>1, <2>2, <2>3, <3>1, <3>2
  <2> QED  BY <2>1, <2>2, <2>4 DEF SurvivalInv, RedisIsFirst, AcceptedIsKept
<1>4. ASSUME NEW s \in restoring, RestoreRoom(s) PROVE SurvivalInv'
  <2> DEFINE c == CodeOf[s.room]
  <2>1. s \in Snapshots /\ s.room \in Rooms /\ c \in Codes /\ s # None
    BY CodeOfIsCode, NoneIsNothing DEF LedgerInv, TypeOK, Snapshots
  <2>2. /\ restoring' = restoring \ {s}
        /\ room' = [room EXCEPT ![s.room] = StateOf(s)]
        /\ redis' = [redis EXCEPT ![c] = Newer(redis[c], s)]
        /\ \/ pendingRooms' = pendingRooms
           \/ pendingRooms' = [pendingRooms EXCEPT ![c] = s]
        /\ UNCHANGED <<used, deleting, tombs, job, sqlRooms, accepted, faults>>
    BY <1>4 DEF RestoreRoom, worker, sql
  <2>3. CASE ~Calm
    BY <1>1, <2>2, <2>3 DEF SurvivalInv
  <2>4. CASE Calm
    <3>1. s = redis[c]
      BY <2>4 DEF SurvivalInv, RestoringIsRedis
    <3> HIDE DEF c
    <3>2. redis' = redis
      <4>1. Newer(redis[c], s) = redis[c]
        BY <3>1 DEF Newer
      <4> QED  BY <1>0, <2>1, <2>2, <4>1
    <3>3. RedisIsFirst'
      BY <1>0, <2>1, <2>2, <2>4, <3>1, <3>2 DEF SurvivalInv, RedisIsFirst
    <3>4. AcceptedIsKept'
      <4>1. accepted[s.room] <= s.seq
        BY <2>1, <2>4, <3>1 DEF SurvivalInv, AcceptedIsKept
      <4>2. room'[s.room].seq = s.seq
        BY <1>0, <2>1, <2>2 DEF StateOf
      <4>3. \A r \in Rooms \ {s.room} : room'[r] = room[r]
        BY <1>0, <2>1, <2>2
      <4> QED  BY <2>1, <2>2, <2>4, <3>2, <4>1, <4>2, <4>3 DEF SurvivalInv, AcceptedIsKept
    <3>5. RestoringIsRedis'
      BY <2>2, <2>4, <3>2 DEF SurvivalInv, RestoringIsRedis
    <3> QED  BY <1>1, <2>2, <3>3, <3>4, <3>5 DEF SurvivalInv
  <2> QED  BY <2>3, <2>4
<1>5. CASE Serve
  <2>1. UNCHANGED <<used, deleting, tombs, pendingRooms, job, redis, sqlRooms, room,
                    accepted, restoring, faults>>
    BY <1>5 DEF Serve, actors, queues, worker, sql
  <2> QED  BY <1>1, <2>1, QuietSurvives DEF SurvivalInv, RedisIsFirst
<1> QED  BY <1>2, <1>3, <1>4, <1>5 DEF Restart

LEMMA SurvivalStep ==
    ASSUME ~Recycle, LedgerInv, SurvivalInv, [Next]_vars
    PROVE  SurvivalInv'
<1>1. CASE UNCHANGED vars
  BY <1>1 DEF SurvivalInv, Calm, RedisIsFirst, RestoringIsRedis,
              AcceptedIsKept, vars, server, actors, queues, worker, sql
<1>2. ASSUME NEW r \in Rooms,
             \/ Act(r) \/ Finish(r) \/ Destroy(r)
             \/ \E u \in Users : Join(u, r) \/ Leave(u, r)
      PROVE  SurvivalInv'
  BY <1>2, HandlerSurvives
<1>3. ASSUME \/ \E r \in Rooms : Create(r) \/ StopActor(r) \/ Expire(r)
             \/ Deletion
             \/ \E m \in tracking : TrackUserRoom(m)
      PROVE  SurvivalInv'
  BY <1>3, LifeSurvives
<1>4. CASE Worker
  BY <1>4, WorkerSurvives
<1>5. CASE Crash \/ Restart
  BY <1>5, RestartSurvives
<1> QED  BY <1>1, <1>2, <1>3, <1>4, <1>5 DEF Next

\* What a player was told is accepted is in the room, and in Redis, after any
\* number of crashes and restarts, for every number of rooms and users, as long
\* as no call of Redis and no deletion fails and no code is drawn twice.
THEOREM AcceptedKept ==
    ASSUME ~Recycle
    PROVE  Spec => []AcceptedSurvives
<1>1. Init => LedgerInv /\ SurvivalInv
  <2>1. Init => SurvivalInv
    <3> SUFFICES ASSUME Init PROVE SurvivalInv
      OBVIOUS
    <3>1. tombs \subseteq used
      BY BoundsAreNumbers DEF Init
    <3>2. RedisIsFirst /\ RestoringIsRedis
      BY DEF Init, RedisIsFirst, RestoringIsRedis, Idle
    <3>3. AcceptedIsKept
      BY DEF Init, AcceptedIsKept, NewRoom
    <3> QED  BY <3>1, <3>2, <3>3 DEF SurvivalInv
  <2> QED  BY <2>1, LedgerInit
<1>2. LedgerInv /\ SurvivalInv /\ [Next]_vars => LedgerInv' /\ SurvivalInv'
  BY LedgerStep, SurvivalStep
<1>3. SurvivalInv => AcceptedSurvives
  BY DEF SurvivalInv, AcceptedSurvives, Calm, AcceptedIsKept
<1> QED  BY <1>1, <1>2, <1>3, PTL DEF Spec
=============================================================================
