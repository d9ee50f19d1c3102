---------------------------- MODULE MatchProofs ----------------------------
(***************************************************************************)
(* Theorems about Match for every value of its constants.                  *)
(*                                                                         *)
(* The helpers of Match are functions from room to room, so the proofs     *)
(* first say what each helper keeps, following the order in which Match    *)
(* defines them, and then put the helpers together action by action.       *)
(***************************************************************************)
EXTENDS Match, FiniteSetTheorems, SequenceTheorems, WellFoundedInduction, TLAPS

\* The helpers of a turn change neither the seats nor what belongs to them.
SameTable(s, t) ==
  /\ t.seats = s.seats /\ t.online = s.online /\ t.host = s.host
  /\ t.deckCount = s.deckCount /\ t.winnerCount = s.winnerCount
  /\ t.locked = s.locked /\ t.ready = s.ready
  /\ t.hands = s.hands /\ t.handCount = s.handCount

\* A helper keeps a room well typed and its table as it is.
KeepsTable(s, t) == WellTyped(t) /\ SameTable(s, t)

----------------------------------------------------------------------------
(* Rotation. *)

LEMMA MinIsMember ==
  ASSUME NEW S \in SUBSET Nat, S # {}
  PROVE  Min(S) \in S /\ \A k \in S : Min(S) <= k
<1>1. PICK m \in S : \A k \in S : m <= k
  <2>1. PICK m \in S : \A k \in S : ~(<<k, m>> \in OpToRel(<, Nat))
    BY NatLessThanWellFounded, WFMin
  <2>2. ASSUME NEW k \in S, k < m PROVE FALSE
    <3>1. <<k, m>> \in {ss \in Nat \X Nat : ss[1] < ss[2]}
      BY <2>2
    <3> QED BY <2>1, <3>1 DEF OpToRel
  <2>3. \A k \in S : m <= k
    BY <2>2
  <2> QED BY <2>3
<1> QED BY <1>1 DEF Min

\* The rotation never names anybody without a seat other than its argument.
LEMMA NextPlayerHasSeat ==
  ASSUME NEW t, t.seats \in Seq(User), NEW p
  PROVE  GetNextPlayerID(t, p) \in Seated(t) \cup {p}
<1> DEFINE from == IF p \in Seated(t) THEN SeatOf(t, p) ELSE 1
           steps == {k \in 1..Len(t.seats) :
                       IsInRotation(t, SeatAfter(t, from, k))}
<1>1. CASE steps = {}
  BY <1>1 DEF GetNextPlayerID
<1>2. CASE steps # {}
  <2>1. from \in 1..Len(t.seats)
    <3>1. Len(t.seats) >= 1 /\ DOMAIN t.seats = 1..Len(t.seats)
      BY <1>2
    <3>2. p \in Seated(t) => SeatOf(t, p) \in DOMAIN t.seats
      BY DEF Seated, SeatOf, Range
    <3> QED BY <3>1, <3>2
  <2>2. Min(steps) \in 1..Len(t.seats)
    <3>1. steps \in SUBSET Nat
      OBVIOUS
    <3>2. Min(steps) \in steps
      BY <1>2, <3>1, MinIsMember
    <3> QED BY <3>2
  <2>3. ((from - 1 + Min(steps)) % Len(t.seats)) + 1 \in 1..Len(t.seats)
    <3> HIDE DEF from, steps
    <3> QED BY <2>1, <2>2
  <2>4. SeatAfter(t, from, Min(steps)) \in Seated(t)
    <3> HIDE DEF from, steps
    <3>1. \A i \in 1..Len(t.seats) : t.seats[i] \in Seated(t)
      BY DEF Seated, Range
    <3> QED BY <2>3, <3>1 DEF SeatAfter
  <2>5. GetNextPlayerID(t, p) = SeatAfter(t, from, Min(steps))
    BY <1>2 DEF GetNextPlayerID
  <2> QED BY <2>4, <2>5
<1> QED BY <1>1, <1>2

----------------------------------------------------------------------------
(* The shared methods of the room. *)

LEMMA TableKept ==
  ASSUME NEW s, WellTyped(s), NEW t \in Room, SameTable(s, t),
         t.done \subseteq Seated(s)
  PROVE  KeepsTable(s, t)
BY DEF KeepsTable, SameTable, WellTyped, Seated

LEMMA KeptTwice ==
  ASSUME NEW r, NEW s, NEW t, SameTable(r, s), KeepsTable(s, t)
  PROVE  KeepsTable(r, t)
BY DEF KeepsTable, SameTable

LEMMA SetCurrentTurnKeeps ==
  ASSUME NEW s, WellTyped(s), NEW p \in User \cup {NoOne}
  PROVE  /\ KeepsTable(s, SetCurrentTurn(s, p))
         /\ SetCurrentTurn(s, p).done = s.done
<1>1. SetCurrentTurn(s, p) \in Room
  BY Zenon DEF WellTyped, Room, SetCurrentTurn
<1>2. SameTable(s, SetCurrentTurn(s, p)) /\ SetCurrentTurn(s, p).done = s.done
  BY DEF WellTyped, Room, SameTable, SetCurrentTurn
<1> QED BY <1>1, <1>2, TableKept DEF WellTyped

LEMMA ClearRoundKeeps ==
  ASSUME NEW s, WellTyped(s)
  PROVE  KeepsTable(s, ClearRound(s)) /\ ClearRound(s).done = s.done
<1>1. ClearRound(s) \in Room
  <2>1. /\ NoRank \in Rank \cup {NoRank} /\ NoPlay \in TopPlay \cup {NoPlay}
        /\ 0 \in Nat /\ <<>> \in Seq(User)
    OBVIOUS
  <2> QED BY <2>1, Zenon DEF WellTyped, Room, ClearRound
<1>2. SameTable(s, ClearRound(s)) /\ ClearRound(s).done = s.done
  BY DEF WellTyped, Room, SameTable, ClearRound
<1> QED BY <1>1, <1>2, TableKept DEF WellTyped

LEMMA FinishMatchKeeps ==
  ASSUME NEW s, WellTyped(s)
  PROVE  KeepsTable(s, FinishMatch(s)) /\ FinishMatch(s).done = s.done
<1> DEFINE t == SetCurrentTurn(s, NoOne)
           r == [players |-> Seated(s), winners |-> s.done \cap Seated(s)]
<1>1. WellTyped(t) /\ SameTable(s, t) /\ t.done = s.done
  BY SetCurrentTurnKeeps DEF KeepsTable
<1>2. r \in Result
  BY DEF WellTyped, Room, Seated, Result, Range
<1>3. FinishMatch(s) = [t EXCEPT !.phase = "finished", !.result = r]
  BY DEF FinishMatch
<1> HIDE DEF t, r
<1>4. FinishMatch(s) \in Room
  BY <1>1, <1>2, <1>3, Zenon DEF WellTyped, Room
<1>5. SameTable(t, FinishMatch(s)) /\ FinishMatch(s).done = t.done
  BY <1>1, <1>3 DEF WellTyped, Room, SameTable
<1>6. SameTable(s, FinishMatch(s))
  BY <1>1, <1>5 DEF SameTable
<1> QED BY <1>1, <1>4, <1>5, <1>6, TableKept DEF WellTyped

LEMMA MaybeEndGameKeeps ==
  ASSUME NEW s, WellTyped(s)
  PROVE  KeepsTable(s, MaybeEndGame(s))
BY FinishMatchKeeps DEF MaybeEndGame, KeepsTable, SameTable

LEMMA ConfirmPendingFinishKeeps ==
  ASSUME NEW s, WellTyped(s)
  PROVE  KeepsTable(s, ConfirmPendingFinish(s))
<1> DEFINE p == s.pending
           cleared == [s EXCEPT !.pending = NoOne]
           won == [cleared EXCEPT !.done = @ \cup {p},
                                  !.winners = Append(@, p)]
           confirmed == /\ p \in Seated(s) /\ s.handCount[p] = 0
                        /\ p \notin s.done
<1>1. KeepsTable(s, cleared)
  <2>1. cleared \in Room
    BY Zenon DEF WellTyped, Room
  <2>2. SameTable(s, cleared) /\ cleared.done = s.done
    BY DEF WellTyped, Room, SameTable
  <2> QED BY <2>1, <2>2, TableKept DEF WellTyped
<1>2. ASSUME p \in Seated(s) PROVE KeepsTable(s, won)
  <2>1. p \in User
    BY <1>2 DEF WellTyped, Room, Seated, Range
  <2>2. cleared.done = s.done /\ cleared.winners = s.winners /\ cleared \in Room
    BY <1>1 DEF WellTyped, Room, KeepsTable
  <2>3. s.done \cup {p} \in SUBSET User /\ Append(s.winners, p) \in Seq(User)
    BY <2>1 DEF WellTyped, Room
  <2>4. won = [cleared EXCEPT !.done = s.done \cup {p},
                              !.winners = Append(s.winners, p)]
    BY <2>2, Zenon
  <2> HIDE DEF cleared, won, p
  <2>5. won \in Room
    BY <2>2, <2>3, <2>4, Zenon DEF Room
  <2>6. SameTable(cleared, won) /\ won.done = s.done \cup {p}
    BY <2>2, <2>4 DEF Room, SameTable
  <2>7. SameTable(s, won)
    BY <1>1, <2>6 DEF KeepsTable, SameTable
  <2> QED BY <1>2, <2>5, <2>6, <2>7, TableKept DEF WellTyped
<1>3. ConfirmPendingFinish(s) =
        IF ~confirmed THEN cleared
        ELSE IF ShouldEndGame(won) THEN FinishMatch(won) ELSE won
  BY DEF ConfirmPendingFinish
<1> HIDE DEF cleared, won
<1>4. ASSUME p \in Seated(s) PROVE KeepsTable(s, FinishMatch(won))
  BY <1>2, <1>4, FinishMatchKeeps, KeptTwice DEF KeepsTable
<1> QED BY <1>1, <1>2, <1>3, <1>4

LEMMA RecordSkipKeeps ==
  ASSUME NEW s, WellTyped(s), NEW p \in User
  PROVE  KeepsTable(s, RecordSkip(s, p))
<1> DEFINE skips == Append(s.skips, p)
           t == [s EXCEPT !.skips = skips]
<1>1. skips \in Seq(User)
  BY DEF WellTyped, Room
<1> HIDE DEF skips
<1>2. t \in Room
  BY <1>1, Zenon DEF WellTyped, Room
<1>3. SameTable(s, t) /\ t.done = s.done
  BY DEF WellTyped, Room, SameTable
<1>4. KeepsTable(s, t)
  BY <1>2, <1>3, TableKept DEF WellTyped
<1>5. KeepsTable(s, s)
  BY DEF KeepsTable, SameTable
<1>6. RecordSkip(s, p) = IF p \in Range(s.skips) THEN s ELSE t
  BY DEF RecordSkip, skips
<1> QED BY <1>4, <1>5, <1>6

LEMMA NoSkipsKeeps ==
  ASSUME NEW s, WellTyped(s)
  PROVE  KeepsTable(s, [s EXCEPT !.skips = <<>>])
<1> DEFINE t == [s EXCEPT !.skips = <<>>]
<1>1. <<>> \in Seq(User)
  OBVIOUS
<1>2. t \in Room
  BY <1>1, Zenon DEF WellTyped, Room
<1>3. SameTable(s, t) /\ t.done = s.done
  BY DEF WellTyped, Room, SameTable
<1> QED BY <1>2, <1>3, TableKept DEF WellTyped

LEMMA ResolveAllPassKeeps ==
  ASSUME NEW s, WellTyped(s), NEW p \in User \cup {NoOne}
  PROVE  KeepsTable(s, ResolveAllPass(s, p))
<1> DEFINE t == IF PendingFinishIsTopPlay(s) THEN ConfirmPendingFinish(s) ELSE s
           last == LastSkipper(t, p)
           starter == GetNextPlayerID(t, last)
<1>1. KeepsTable(s, t)
  BY ConfirmPendingFinishKeeps DEF KeepsTable, SameTable
<1> HIDE DEF t
<1>2. t.seats \in Seq(User) /\ t.skips \in Seq(User)
  BY <1>1 DEF KeepsTable, WellTyped, Room
<1>3. last \in User \cup {NoOne}
  BY <1>2 DEF LastSkipper, Last
<1>4. starter \in User \cup {NoOne}
  BY <1>2, <1>3, NextPlayerHasSeat DEF Seated, Range
<1> HIDE DEF last, starter
<1>5. KeepsTable(t, [t EXCEPT !.skips = <<>>])
  BY <1>1, NoSkipsKeeps DEF KeepsTable
<1>6. KeepsTable(t, SetCurrentTurn(ClearRound(t), starter))
  BY <1>1, <1>4, ClearRoundKeeps, SetCurrentTurnKeeps, KeptTwice DEF KeepsTable
<1>7. \/ ResolveAllPass(s, p) = [t EXCEPT !.skips = <<>>]
      \/ ResolveAllPass(s, p) = SetCurrentTurn(ClearRound(t), starter)
  BY DEF ResolveAllPass, t, starter, last
<1> QED BY <1>1, <1>5, <1>6, <1>7, KeptTwice DEF KeepsTable

LEMMA ReconcileKeeps ==
  ASSUME NEW s, WellTyped(s)
  PROVE  KeepsTable(s, ReconcileSkipProgression(s))
<1>1. s.turn \in User \cup {NoOne}
  BY DEF WellTyped, Room
<1>2. KeepsTable(s, s)
  BY DEF KeepsTable, SameTable
<1>3. KeepsTable(s, ResolveAllPass(s, s.turn))
  BY <1>1, ResolveAllPassKeeps
<1> QED BY <1>2, <1>3 DEF ReconcileSkipProgression

LEMMA NextPlayerIsUser ==
  ASSUME NEW s, WellTyped(s), NEW p \in User
  PROVE  GetNextPlayerID(s, p) \in User
<1>1. s.seats \in Seq(User)
  BY DEF WellTyped, Room
<1>2. Seated(s) \subseteq User
  BY <1>1 DEF Seated, Range
<1> QED BY <1>1, <1>2, NextPlayerHasSeat

LEMMA ApplySkipKeeps ==
  ASSUME NEW s, WellTyped(s), NEW p \in User
  PROVE  KeepsTable(s, ApplySkip(s, p))
<1> DEFINE bare == [s EXCEPT !.skips = <<>>]
           t == IF p \in Rotation(s) THEN RecordSkip(s, p) ELSE s
           moved == IF SkipRequirementsMet(t) THEN ResolveAllPass(t, p)
                    ELSE SetCurrentTurn(t, GetNextPlayerID(t, p))
           idle == SetCurrentTurn(bare, GetNextPlayerID(s, p))
<1>1. KeepsTable(s, MaybeEndGame(idle))
  <2>1. KeepsTable(s, bare)
    BY NoSkipsKeeps
  <2> HIDE DEF bare
  <2>2. KeepsTable(bare, idle)
    BY <2>1, NextPlayerIsUser, SetCurrentTurnKeeps DEF KeepsTable
  <2> HIDE DEF idle
  <2>3. KeepsTable(idle, MaybeEndGame(idle))
    BY <2>2, MaybeEndGameKeeps DEF KeepsTable
  <2> QED BY <2>1, <2>2, <2>3, KeptTwice DEF KeepsTable
<1>2. KeepsTable(s, MaybeEndGame(moved))
  <2>1. KeepsTable(s, t)
    BY RecordSkipKeeps DEF KeepsTable, SameTable
  <2> HIDE DEF t
  <2>2. KeepsTable(t, moved)
    BY <2>1, NextPlayerIsUser, SetCurrentTurnKeeps, ResolveAllPassKeeps
       DEF KeepsTable
  <2> HIDE DEF moved
  <2>3. KeepsTable(moved, MaybeEndGame(moved))
    BY <2>2, MaybeEndGameKeeps DEF KeepsTable
  <2> QED BY <2>1, <2>2, <2>3, KeptTwice DEF KeepsTable
<1>3. \/ ApplySkip(s, p) = MaybeEndGame(idle)
      \/ ApplySkip(s, p) = MaybeEndGame(moved)
  BY DEF ApplySkip
<1> QED BY <1>1, <1>2, <1>3

----------------------------------------------------------------------------
(* The seats. *)

LEMMA SeqWithout ==
  ASSUME NEW S, NEW q \in Seq(S), NEW i \in 1..Len(q)
  PROVE  /\ RemoveAt(q, i) \in Seq(S)
         /\ Len(RemoveAt(q, i)) = Len(q) - 1
         /\ \A k \in 1..(Len(q) - 1) :
               RemoveAt(q, i)[k] = IF k < i THEN q[k] ELSE q[k + 1]
<1> DEFINE front == SubSeq(q, 1, i - 1)
           back == SubSeq(q, i + 1, Len(q))
<1>1. /\ front \in Seq(S) /\ Len(front) = i - 1
      /\ \A k \in 1..(i - 1) : front[k] = q[k]
  OBVIOUS
<1>2. /\ back \in Seq(S) /\ Len(back) = Len(q) - i
      /\ \A k \in 1..(Len(q) - i) : back[k] = q[i + k]
  OBVIOUS
<1>3. RemoveAt(q, i) = front \o back
  BY DEF RemoveAt
<1> HIDE DEF front, back
<1>4. RemoveAt(q, i) \in Seq(S) /\ Len(RemoveAt(q, i)) = Len(q) - 1
  BY <1>1, <1>2, <1>3
<1>5. ASSUME NEW k \in 1..(Len(q) - 1)
      PROVE  RemoveAt(q, i)[k] = IF k < i THEN q[k] ELSE q[k + 1]
  <2>1. k \in 1..(Len(front) + Len(back))
    BY <1>1, <1>2
  <2>2. RemoveAt(q, i)[k] = IF k <= Len(front) THEN front[k]
                                               ELSE back[k - Len(front)]
    BY <1>1, <1>2, <1>3, <2>1, ConcatProperties
  <2> QED BY <1>1, <1>2, <2>2
<1> QED BY <1>4, <1>5

LEMMA RemovedSeat ==
  ASSUME NEW q \in Seq(User), IsInjectiveSeq(q), NEW i \in DOMAIN q
  PROVE  /\ RemoveAt(q, i) \in Seq(User)
         /\ IsInjectiveSeq(RemoveAt(q, i))
         /\ Range(RemoveAt(q, i)) = Range(q) \ {q[i]}
<1> DEFINE r == RemoveAt(q, i)
<1>1. i \in 1..Len(q) /\ Len(q) \in Nat /\ DOMAIN q = 1..Len(q)
  OBVIOUS
<1>2. /\ r \in Seq(User) /\ Len(r) = Len(q) - 1
      /\ \A k \in 1..(Len(q) - 1) : r[k] = IF k < i THEN q[k] ELSE q[k + 1]
  BY <1>1, SeqWithout
<1> HIDE DEF r
<1>3. DOMAIN r = 1..(Len(q) - 1)
  BY <1>1, <1>2
<1>4. IsInjectiveSeq(r)
  <2>1. \A j, k \in 1..Len(q) : q[j] = q[k] => j = k
    BY <1>1 DEF IsInjectiveSeq
  <2>2. ASSUME NEW j \in 1..(Len(q) - 1), NEW k \in 1..(Len(q) - 1),
               r[j] = r[k]
        PROVE  j = k
    <3> DEFINE old(x) == IF x < i THEN x ELSE x + 1
    <3>1. old(j) \in 1..Len(q) /\ old(k) \in 1..Len(q)
      BY <1>1
    <3>2. r[j] = q[old(j)] /\ r[k] = q[old(k)]
      BY <1>2
    <3>3. old(j) = old(k)
      <4> HIDE DEF old
      <4> QED BY <2>1, <2>2, <3>1, <3>2
    <3> QED BY <1>1, <3>3
  <2> QED BY <1>3, <2>2 DEF IsInjectiveSeq
<1>5. Range(r) = Range(q) \ {q[i]}
  <2>1. ASSUME NEW k \in 1..(Len(q) - 1)
        PROVE  r[k] \in Range(q) \ {q[i]}
    BY <1>1, <1>2 DEF IsInjectiveSeq, Range
  <2>2. ASSUME NEW k \in 1..Len(q), k # i
        PROVE  \E j \in 1..(Len(q) - 1) : r[j] = q[k]
    <3>1. CASE k < i
      BY <1>1, <1>2, <3>1
    <3>2. CASE k > i
      <4>1. k - 1 \in 1..(Len(q) - 1) /\ ~(k - 1 < i) /\ k - 1 + 1 = k
        BY <1>1, <3>2
      <4> QED BY <1>2, <4>1
    <3> QED BY <1>1, <2>2, <3>1, <3>2
  <2>3. Range(r) \subseteq Range(q) \ {q[i]}
    BY <1>3, <2>1 DEF Range
  <2>4. ASSUME NEW x \in Range(q) \ {q[i]} PROVE x \in Range(r)
    <3>1. PICK k \in 1..Len(q) : q[k] = x /\ k # i
      BY <1>1 DEF Range
    <3>2. PICK j \in 1..(Len(q) - 1) : r[j] = q[k]
      BY <2>2, <3>1
    <3> QED BY <1>3, <3>1, <3>2 DEF Range
  <2> QED BY <2>3, <2>4
<1> QED BY <1>2, <1>4, <1>5 DEF r

\* What leaving takes away: the seat, presence, the winner flag and the count.
LEMMA RemoveSeatRemoves ==
  ASSUME NEW s, WellTyped(s), NEW p \in Seated(s)
  PROVE  /\ WellTyped(RemoveSeat(s, p))
         /\ Seated(RemoveSeat(s, p)) = Seated(s) \ {p}
         /\ RemoveSeat(s, p).ready = s.ready
<1> DEFINE seats == RemoveAt(s.seats, SeatOf(s, p))
           count == [s.handCount EXCEPT ![p] = 0]
           t == RemoveSeat(s, p)
<1>1. s \in Room /\ s.seats \in Seq(User) /\ p \in User
  BY DEF WellTyped, Room, Seated, Range
<1>2. SeatOf(s, p) \in DOMAIN s.seats /\ s.seats[SeatOf(s, p)] = p
  BY DEF SeatOf, Seated, Range
<1>3. /\ seats \in Seq(User) /\ IsInjectiveSeq(seats)
      /\ Range(seats) = Seated(s) \ {p}
  BY <1>1, <1>2, RemovedSeat DEF WellTyped, Seated
<1>4. count \in [User -> Nat]
  BY <1>1 DEF Room
<1>5. t = [s EXCEPT !.seats = seats, !.online = s.online \ {p},
                    !.done = s.done \ {p}, !.handCount = count]
  BY <1>1, Zenon DEF Room, RemoveSeat
<1> HIDE DEF seats, count, t
<1>6. s.online \ {p} \in SUBSET User /\ s.done \ {p} \in SUBSET User
  BY <1>1 DEF Room
<1>7. t \in Room
  BY <1>1, <1>3, <1>4, <1>5, <1>6, Zenon DEF Room
<1>8. /\ t.seats = seats /\ t.online = s.online \ {p}
      /\ t.done = s.done \ {p} /\ t.ready = s.ready
  BY <1>1, <1>5 DEF Room
<1>9. WellTyped(t) /\ Seated(t) = Seated(s) \ {p}
  BY <1>3, <1>7, <1>8 DEF WellTyped, Seated
<1> QED BY <1>8, <1>9 DEF t

LEMMA ClearPlayerRuntimeClears ==
  ASSUME NEW s, WellTyped(s), NEW p \in User
  PROVE  /\ WellTyped(ClearPlayerRuntime(s, p))
         /\ Seated(ClearPlayerRuntime(s, p)) = Seated(s)
         /\ ClearPlayerRuntime(s, p).ready = s.ready \ {p}
<1> DEFINE hands == [s.hands EXCEPT ![p] = {}]
           t == ClearPlayerRuntime(s, p)
<1>1. s \in Room /\ hands \in [User -> SUBSET Card]
  BY DEF WellTyped, Room
<1>2. t = [s EXCEPT !.hands = hands, !.ready = s.ready \ {p}]
  BY <1>1, Zenon DEF Room, ClearPlayerRuntime
<1>3. s.ready \ {p} \in SUBSET User
  BY <1>1 DEF Room
<1> HIDE DEF hands, t
<1>4. t \in Room
  BY <1>1, <1>2, <1>3, Zenon DEF Room
<1>5. /\ t.seats = s.seats /\ t.online = s.online
      /\ t.done = s.done /\ t.ready = s.ready \ {p}
  BY <1>1, <1>2 DEF Room
<1>6. WellTyped(t) /\ Seated(t) = Seated(s)
  BY <1>4, <1>5 DEF WellTyped, Seated
<1> QED BY <1>5, <1>6 DEF t

\* A room in which only the host changed.
LEMMA HostChanged ==
  ASSUME NEW s, WellTyped(s), NEW h \in User \cup {NoOne}
  PROVE  /\ WellTyped([s EXCEPT !.host = h])
         /\ [s EXCEPT !.host = h].ready = s.ready
         /\ Seated([s EXCEPT !.host = h]) = Seated(s)
<1> DEFINE t == [s EXCEPT !.host = h]
<1>1. t \in Room
  BY Zenon DEF WellTyped, Room
<1>2. /\ t.seats = s.seats /\ t.online = s.online
      /\ t.done = s.done /\ t.ready = s.ready
  BY DEF WellTyped, Room
<1> HIDE DEF t
<1>3. WellTyped(t) /\ Seated(t) = Seated(s)
  BY <1>1, <1>2 DEF WellTyped, Seated
<1> QED BY <1>2, <1>3 DEF t
----------------------------------------------------------------------------
(* Cards. *)

LEMMA CardsAreFinite ==
  ASSUME NEW cards \in SUBSET Card
  PROVE  /\ IsFiniteSet(cards) /\ Cardinality(cards) \in Nat
         /\ Cardinality(cards) = 0 <=> cards = {}
<1>1. IsFiniteSet(Card)
  <2>1. MaxDecks \in Int /\ 1 \in Int
    BY DEF MaxDecks
  <2>2. IsFiniteSet(1..MaxDecks)
    BY <2>1, FS_Interval
  <2> QED BY <2>2, DeckAssumption, FS_Product DEF Card
<1>2. IsFiniteSet(cards)
  BY <1>1, FS_Subset
<1> QED BY <1>2, FS_CardinalityType, FS_EmptySet

LEMMA DealtCards ==
  ASSUME NEW s, WellTyped(s), NEW owner \in Deals(s), NEW p
  PROVE  DealtTo(owner, p) \in SUBSET Card
<1>1. DOMAIN owner = GenerateDecks(s.deckCount)
  BY DEF Deals
<1>2. s.deckCount \in 1..MaxDecks
  BY DEF WellTyped, Room
<1>3. GenerateDecks(s.deckCount) \subseteq Card
  BY <1>2 DEF GenerateDecks, Card, MaxDecks
<1> QED BY <1>1, <1>3 DEF DealtTo

\* Every declaration the rules admit is a nonempty list of claimed groups.
LEMMA PlayableClaimsAreGroups ==
  ASSUME NEW s, WellTyped(s), NEW cards \in SUBSET Card, cards # {},
         NEW claims \in PlayableClaims(s, Cardinality(cards))
  PROVE  /\ claims \in Seq(ClaimGroup)
         /\ FinalRank(claims) \in Rank
<1> DEFINE n == Cardinality(cards)
<1>1. n \in Nat \ {0}
  BY CardsAreFinite
<1>2. CASE claims \in OpeningClaims(n)
  <2>1. PICK m \in 0..Cardinality(Rank) : claims \in [1..m -> OpeningGroup]
    BY <1>2 DEF OpeningClaims, BoundedSeq, SeqOf
  <2>2. Len(claims) \in 1..Cardinality(Rank)
    BY <1>2 DEF OpeningClaims, ValidOpeningClaims
  <2>3. OpeningGroup \subseteq ClaimGroup
    BY GroupAssumption DEF OpeningGroup, ClaimGroup
  <2>4. claims \in Seq(ClaimGroup)
    BY <2>1, <2>3
  <2>5. claims[Len(claims)] \in ClaimGroup
    BY <2>2, <2>4
  <2> QED BY <2>4, <2>5 DEF FinalRank, ClaimGroup
<1>3. CASE s.claimedRank # NoRank
           /\ claims = <<[rank |-> s.claimedRank, count |-> n]>>
  <2>1. s.claimedRank \in Rank
    BY <1>3 DEF WellTyped, Room
  <2> HIDE DEF n
  <2>2. [rank |-> s.claimedRank, count |-> n] \in ClaimGroup
    BY <1>1, <2>1 DEF ClaimGroup
  <2> QED BY <1>3, <2>1, <2>2 DEF FinalRank
<1> QED BY <1>2, <1>3 DEF PlayableClaims

LEMMA ClampedConfig ==
  ASSUME NEW decks \in Nat, NEW winners \in Nat, NEW n \in Nat
  PROVE  /\ ClampDecks(decks) \in 1..MaxDecks
         /\ ClampWinners(winners, n) \in Nat \ {0}
BY DEF ClampDecks, ClampWinners, Clamp, MaxDecks
----------------------------------------------------------------------------
(* Type correctness, action by action. *)

LEMMA NextTypeOK ==
  ASSUME NEW t, room' = t, WellTyped(t), t.ready \subseteq Seated(t)
  PROVE  TypeOK'
BY DEF TypeOK

LEMMA KeepsTypeOK ==
  ASSUME TypeOK, NEW t, room' = t, KeepsTable(room, t)
  PROVE  TypeOK'
BY NextTypeOK DEF TypeOK, KeepsTable, SameTable, Seated

LEMMA InitTypeOK == Init => TypeOK
<1> SUFFICES ASSUME Init PROVE TypeOK
  OBVIOUS
<1>1. /\ <<>> \in Seq(User)
      /\ 1 \in 1..MaxDecks /\ 1 \in Nat \ {0} /\ 0 \in Nat
      /\ [p \in User |-> {}] \in [User -> SUBSET Card]
      /\ [p \in User |-> 0] \in [User -> Nat]
  BY DEF MaxDecks
<1>2. room \in Room
  BY <1>1, Zenon DEF Init, NewRoom, Room
<1>3. /\ room.seats = <<>> /\ room.online = {}
      /\ room.done = {} /\ room.ready = {}
  BY DEF Init, NewRoom
<1> QED BY <1>2, <1>3 DEF TypeOK, WellTyped, IsInjectiveSeq, Seated

LEMMA ReconnectTypeOK ==
  ASSUME TypeOK, NEW p \in User, Reconnect(p)
  PROVE  TypeOK'
<1> DEFINE t == [room EXCEPT !.online = room.online \cup {p}]
<1>1. room \in Room /\ p \in Seated(room) /\ room' = t
  BY DEF TypeOK, WellTyped, Room, Reconnect
<1>2. room.online \cup {p} \in SUBSET User
  BY <1>1 DEF Room
<1>3. t \in Room
  BY <1>1, <1>2, Zenon DEF Room
<1>4. /\ t.seats = room.seats /\ t.online = room.online \cup {p}
      /\ t.done = room.done /\ t.ready = room.ready
  BY <1>1 DEF Room
<1> HIDE DEF t
<1> QED BY <1>1, <1>3, <1>4, NextTypeOK DEF TypeOK, WellTyped, Seated

LEMMA SeatTypeOK ==
  ASSUME TypeOK, NEW p \in User, NEW decks \in Nat, NEW winners \in Nat,
         Seat(p, decks, winners)
  PROVE  TypeOK'
<1> DEFINE first == room.seats = <<>>
           configured == first /\ (decks # 0 \/ winners # 0)
           seats == Append(room.seats, p)
           host == IF first THEN p ELSE room.host
           deckCount == IF configured THEN ClampDecks(decks)
                        ELSE room.deckCount
           winnerCount == IF configured THEN ClampWinners(winners, 2)
                          ELSE room.winnerCount
           t == [room EXCEPT !.seats = seats, !.online = room.online \cup {p},
                             !.host = host, !.deckCount = deckCount,
                             !.winnerCount = winnerCount]
<1>1. room \in Room /\ p \notin Seated(room)
  BY DEF TypeOK, WellTyped, Seat
<1>2. room' = t
  BY <1>1, Zenon DEF Room, Seat
<1>3. /\ seats \in Seq(User) /\ room.online \cup {p} \in SUBSET User
      /\ host \in User \cup {NoOne}
  BY <1>1 DEF Room
<1>4. deckCount \in 1..MaxDecks /\ winnerCount \in Nat \ {0}
  BY <1>1, ClampedConfig DEF Room
<1>5. IsInjectiveSeq(seats) /\ Range(seats) = Seated(room) \cup {p}
  <2>1. /\ room.seats \in Seq(User) /\ IsInjectiveSeq(room.seats)
        /\ p \notin Range(room.seats)
    BY <1>1 DEF TypeOK, WellTyped, Room, Seated
  <2>2. /\ DOMAIN seats = 1..(Len(room.seats) + 1)
        /\ \A i \in 1..Len(room.seats) : seats[i] = room.seats[i]
        /\ seats[Len(room.seats) + 1] = p
    BY <2>1
  <2> HIDE DEF seats
  <2> QED BY <2>1, <2>2 DEF Seated, IsInjectiveSeq, Range
<1> HIDE DEF seats, host, deckCount, winnerCount
<1>6. t \in Room
  BY <1>1, <1>3, <1>4, Zenon DEF Room
<1>7. /\ t.seats = seats /\ t.online = room.online \cup {p}
      /\ t.done = room.done /\ t.ready = room.ready
  BY <1>1 DEF Room
<1> HIDE DEF t
<1> QED BY <1>2, <1>5, <1>6, <1>7, NextTypeOK DEF TypeOK, WellTyped, Seated

LEMMA FirstOnlineIsUser ==
  ASSUME NEW s, WellTyped(s), NEW p \in User
  PROVE  FirstOnline(s, p) \in User
<1> DEFINE here == {i \in DOMAIN s.seats : s.seats[i] \in s.online}
<1>1. s.seats \in Seq(User)
  BY DEF WellTyped, Room
<1>2. here # {} => Min(here) \in here
  <2>1. here \in SUBSET Nat
    BY <1>1
  <2> QED BY <2>1, MinIsMember
<1>3. here # {} => s.seats[Min(here)] \in User
  <2>1. \A i \in here : s.seats[i] \in User
    BY <1>1
  <2> HIDE DEF here
  <2> QED BY <1>2, <2>1
<1> QED BY <1>3 DEF FirstOnline

LEMMA DisconnectTypeOK ==
  ASSUME TypeOK, NEW p \in User, Disconnect(p)
  PROVE  TypeOK'
<1> DEFINE s == [room EXCEPT !.online = room.online \ {p}]
           t == [s EXCEPT !.host = FirstOnline(s, p)]
<1>1. room \in Room
  BY DEF TypeOK, WellTyped
<1>2. room' = IF s.phase = "lobby" /\ s.host = p THEN t ELSE s
  BY <1>1, Zenon DEF Room, Disconnect
<1>3. room.online \ {p} \in SUBSET User
  BY <1>1 DEF Room
<1>4. s \in Room
  BY <1>1, <1>3, Zenon DEF Room
<1>5. /\ s.seats = room.seats /\ s.online = room.online \ {p}
      /\ s.done = room.done /\ s.ready = room.ready
  BY <1>1 DEF Room
<1> HIDE DEF s
<1>6. WellTyped(s) /\ s.ready \subseteq Seated(s)
  BY <1>4, <1>5 DEF TypeOK, WellTyped, Seated
<1>7. WellTyped(t) /\ t.ready \subseteq Seated(t)
  <2>1. FirstOnline(s, p) \in User \cup {NoOne}
    BY <1>6, FirstOnlineIsUser
  <2>2. WellTyped(t) /\ t.ready = s.ready /\ Seated(t) = Seated(s)
    BY <1>6, <2>1, HostChanged
  <2> QED BY <1>6, <2>2
<1> HIDE DEF t
<1> QED BY <1>2, <1>6, <1>7, NextTypeOK

LEMMA LeaveRoomTypeOK ==
  ASSUME TypeOK, NEW p \in User, LeaveRoom(p)
  PROVE  TypeOK'
<1> DEFINE passed == IF room.phase = "playing" /\ room.turn = p
                     THEN ApplySkip(room, p) ELSE room
           gone == RemoveSeat(passed, p)
           settled == IF gone.phase = "playing"
                      THEN MaybeEndGame(ReconcileSkipProgression(gone))
                      ELSE gone
           cleared == ClearPlayerRuntime(settled, p)
           t == TransferHost(cleared, p)
<1>1. WellTyped(room) /\ p \in Seated(room) /\ room' = t
  BY DEF TypeOK, LeaveRoom, IsController
<1>2. KeepsTable(room, passed)
  BY <1>1, ApplySkipKeeps DEF KeepsTable, SameTable
<1>3. WellTyped(passed) /\ Seated(passed) = Seated(room)
      /\ passed.ready = room.ready
  BY <1>2 DEF KeepsTable, SameTable, Seated
<1> HIDE DEF passed
<1>4. /\ WellTyped(gone) /\ Seated(gone) = Seated(room) \ {p}
      /\ gone.ready = room.ready
  BY <1>1, <1>3, RemoveSeatRemoves
<1> HIDE DEF gone
<1>5. KeepsTable(gone, settled)
  <2>1. KeepsTable(gone, ReconcileSkipProgression(gone))
    BY <1>4, ReconcileKeeps
  <2>2. KeepsTable(gone, MaybeEndGame(ReconcileSkipProgression(gone)))
    BY <2>1, MaybeEndGameKeeps, KeptTwice DEF KeepsTable
  <2> QED BY <1>4, <2>2 DEF KeepsTable, SameTable
<1>6. /\ WellTyped(settled) /\ Seated(settled) = Seated(room) \ {p}
      /\ settled.ready = room.ready
  BY <1>4, <1>5 DEF KeepsTable, SameTable, Seated
<1> HIDE DEF settled
<1>7. /\ WellTyped(cleared) /\ Seated(cleared) = Seated(room) \ {p}
      /\ cleared.ready = room.ready \ {p}
  BY <1>6, ClearPlayerRuntimeClears
<1>8. cleared.ready \subseteq Seated(cleared)
  BY <1>7 DEF TypeOK
<1> HIDE DEF cleared
<1>9. WellTyped(t) /\ t.ready \subseteq Seated(t)
  <2>1. cleared.seats # <<>> => Head(cleared.seats) \in User \cup {NoOne}
    BY <1>7 DEF WellTyped, Room
  <2>2. CASE cleared.host = p /\ cleared.seats # <<>>
    <3>1. /\ WellTyped(t) /\ t.ready = cleared.ready
          /\ Seated(t) = Seated(cleared)
      BY <1>7, <2>1, <2>2, HostChanged DEF TransferHost
    <3> QED BY <1>8, <3>1
  <2>3. CASE ~(cleared.host = p /\ cleared.seats # <<>>)
    BY <1>7, <1>8, <2>3 DEF TransferHost
  <2> QED BY <2>2, <2>3
<1> HIDE DEF t
<1> QED BY <1>1, <1>9, NextTypeOK

LEMMA RestartTypeOK ==
  ASSUME TypeOK, Restart
  PROVE  TypeOK'
<1> DEFINE s == IF room.pending # NoOne /\ room.topPlay # NoPlay
                     /\ ~PendingFinishIsTopPlay(room)
                THEN ConfirmPendingFinish(room) ELSE room
           t == [s EXCEPT !.online = {}]
<1>1. room' = t
  BY DEF Restart
<1>2. KeepsTable(room, s)
  BY ConfirmPendingFinishKeeps DEF TypeOK, KeepsTable, SameTable
<1> HIDE DEF s
<1>3. s \in Room /\ s.ready \subseteq Seated(s)
  BY <1>2 DEF TypeOK, KeepsTable, SameTable, WellTyped, Seated
<1>4. t \in Room
  BY <1>3, Zenon DEF Room
<1>5. /\ t.seats = s.seats /\ t.online = {}
      /\ t.done = s.done /\ t.ready = s.ready
  BY <1>3 DEF Room
<1> HIDE DEF t
<1>6. WellTyped(t) /\ t.ready \subseteq Seated(t)
  BY <1>2, <1>3, <1>4, <1>5 DEF KeepsTable, WellTyped, Seated
<1> QED BY <1>1, <1>6, NextTypeOK

LEMMA SetConfigTypeOK ==
  ASSUME TypeOK, NEW p \in User, NEW decks \in Nat, NEW winners \in Nat,
         SetConfig(p, decks, winners)
  PROVE  TypeOK'
<1> DEFINE deckCount == ClampDecks(decks)
           winnerCount == IF room.locked THEN room.winnerCount
                          ELSE ClampWinners(winners, Len(room.seats))
           t == [room EXCEPT !.deckCount = deckCount,
                             !.winnerCount = winnerCount]
<1>1. room \in Room
  BY DEF TypeOK, WellTyped
<1>2. room' = t
  BY <1>1, Zenon DEF Room, SetConfig
<1>3. deckCount \in 1..MaxDecks /\ winnerCount \in Nat \ {0}
  <2>1. Len(room.seats) \in Nat /\ room.winnerCount \in Nat \ {0}
    BY <1>1 DEF Room
  <2> QED BY <2>1, ClampedConfig
<1> HIDE DEF deckCount, winnerCount
<1>4. t \in Room
  BY <1>1, <1>3, Zenon DEF Room
<1>5. /\ t.seats = room.seats /\ t.online = room.online
      /\ t.done = room.done /\ t.ready = room.ready
  BY <1>1 DEF Room
<1> HIDE DEF t
<1> QED BY <1>2, <1>4, <1>5, NextTypeOK DEF TypeOK, WellTyped, Seated

LEMMA ResetToLobbyTypeOK ==
  ASSUME TypeOK, NEW p \in User, ResetToLobby(p)
  PROVE  TypeOK'
<1> DEFINE s == ClearRound(SetCurrentTurn(room, NoOne))
           noHands == [q \in User |-> {}]
           noCounts == [q \in User |-> 0]
           t == [s EXCEPT
                  !.phase = "lobby", !.locked = FALSE, !.ready = {},
                  !.winners = <<>>, !.done = {}, !.pending = NoOne,
                  !.hands = noHands, !.handCount = noCounts,
                  !.result = NoResult]
<1>1. room' = t
  BY DEF ResetToLobby
<1>2. KeepsTable(room, s)
  BY SetCurrentTurnKeeps, ClearRoundKeeps, KeptTwice DEF TypeOK, KeepsTable
<1>3. /\ noHands \in [User -> SUBSET Card]
      /\ noCounts \in [User -> Nat] /\ <<>> \in Seq(User)
  OBVIOUS
<1>4. s \in Room
  BY <1>2 DEF KeepsTable, WellTyped
<1> HIDE DEF s, noHands, noCounts
<1>5. t \in Room
  BY <1>3, <1>4, Zenon DEF Room
<1>6. /\ t.seats = s.seats /\ t.online = s.online
      /\ t.done = {} /\ t.ready = {}
  BY <1>4 DEF Room
<1> HIDE DEF t
<1>7. WellTyped(t) /\ t.ready \subseteq Seated(t)
  BY <1>2, <1>5, <1>6 DEF KeepsTable, WellTyped, Seated
<1> QED BY <1>1, <1>7, NextTypeOK

LEMMA ReturnToLobbyTypeOK ==
  ASSUME TypeOK, NEW p \in User, ReturnToLobby(p)
  PROVE  TypeOK'
<1> DEFINE t == [room EXCEPT !.ready = room.ready \cup {p}]
<1>1. room \in Room /\ p \in Seated(room)
  BY DEF TypeOK, WellTyped, ReturnToLobby, IsController
<1>2. room' = t
  BY <1>1, Zenon DEF Room, ReturnToLobby
<1>3. room.ready \cup {p} \in SUBSET User
  BY <1>1 DEF Room
<1>4. t \in Room
  BY <1>1, <1>3, Zenon DEF Room
<1>5. /\ t.seats = room.seats /\ t.online = room.online
      /\ t.done = room.done /\ t.ready = room.ready \cup {p}
  BY <1>1 DEF Room
<1> HIDE DEF t
<1> QED BY <1>1, <1>2, <1>4, <1>5, NextTypeOK DEF TypeOK, WellTyped, Seated

LEMMA StartGameTypeOK ==
  ASSUME TypeOK, NEW p \in User, StartGame(p)
  PROVE  TypeOK'
<1>1. PICK owner \in Deals(room), opener \in User :
        /\ opener \in Openers(room, owner)
        /\ room' = [SetCurrentTurn(ClearRound(room), opener) EXCEPT
             !.phase = "playing", !.locked = TRUE, !.ready = {},
             !.winnerCount = IF room.locked THEN @
                             ELSE ClampWinners(@, Len(room.seats)),
             !.winners = <<>>, !.done = {}, !.pending = NoOne,
             !.hands = [q \in User |-> DealtTo(owner, q)],
             !.handCount = [q \in User |-> Cardinality(DealtTo(owner, q))],
             !.result = NoResult]
  <2>1. room.seats \in Seq(User)
    BY DEF TypeOK, WellTyped, Room
  <2>2. \A owner \in Deals(room) : Openers(room, owner) \subseteq User
    BY <2>1 DEF Openers, Seated, Range
  <2> QED BY <2>2 DEF StartGame
<1> DEFINE s == SetCurrentTurn(ClearRound(room), opener)
           winnerCount == IF room.locked THEN s.winnerCount
                          ELSE ClampWinners(s.winnerCount, Len(room.seats))
           hands == [q \in User |-> DealtTo(owner, q)]
           counts == [q \in User |-> Cardinality(DealtTo(owner, q))]
           t == [s EXCEPT
                  !.phase = "playing", !.locked = TRUE, !.ready = {},
                  !.winnerCount = winnerCount,
                  !.winners = <<>>, !.done = {}, !.pending = NoOne,
                  !.hands = hands, !.handCount = counts,
                  !.result = NoResult]
<1>2. KeepsTable(room, s)
  BY SetCurrentTurnKeeps, ClearRoundKeeps, KeptTwice DEF TypeOK, KeepsTable
<1>3. s \in Room
  BY <1>2 DEF KeepsTable, WellTyped
<1>4. hands \in [User -> SUBSET Card] /\ counts \in [User -> Nat]
  BY DealtCards, CardsAreFinite DEF TypeOK
<1>5. winnerCount \in Nat \ {0}
  <2>1. s.winnerCount \in Nat \ {0} /\ Len(room.seats) \in Nat
    BY <1>3 DEF TypeOK, WellTyped, Room
  <2> HIDE DEF s
  <2> QED BY <2>1, ClampedConfig
<1>6. room' = t
  <2> HIDE DEF s
  <2> QED BY <1>1, <1>3, Zenon DEF Room, s
<1>7. <<>> \in Seq(User)
  OBVIOUS
<1> HIDE DEF s, winnerCount, hands, counts
<1>8. t \in Room
  BY <1>3, <1>4, <1>5, <1>7, Zenon DEF Room
<1>9. /\ t.seats = s.seats /\ t.online = s.online
       /\ t.done = {} /\ t.ready = {}
  BY <1>3 DEF Room
<1> HIDE DEF t
<1>10. WellTyped(t) /\ t.ready \subseteq Seated(t)
  BY <1>2, <1>8, <1>9 DEF KeepsTable, WellTyped, Seated
<1> QED BY <1>6, <1>10, NextTypeOK

\* Moving cards between a hand and the stack changes no seat and no mark.
LEMMA PlaceCardsTyped ==
  ASSUME NEW s, WellTyped(s), NEW p \in User,
         NEW cards \in SUBSET s.hands[p], cards # {},
         NEW claims \in PlayableClaims(s, Cardinality(cards))
  PROVE  /\ WellTyped(PlaceCards(s, p, cards, claims))
         /\ PlaceCards(s, p, cards, claims).ready = s.ready
         /\ Seated(PlaceCards(s, p, cards, claims)) = Seated(s)
<1> DEFINE hand == s.hands[p] \ cards
           hands == [s.hands EXCEPT ![p] = hand]
           counts == [s.handCount EXCEPT ![p] = Cardinality(hand)]
           stack == s.stack \cup cards
           stackCount == s.stackCount + Cardinality(cards)
           play == [player |-> p, cards |-> cards, claims |-> claims]
           t == [s EXCEPT !.hands = hands, !.handCount = counts,
                          !.stack = stack, !.stackCount = stackCount,
                          !.claimedRank = FinalRank(claims),
                          !.topPlay = play, !.skips = <<>>]
<1>1. s \in Room
  BY DEF WellTyped
<1>2. PlaceCards(s, p, cards, claims) = t
  BY <1>1, Zenon DEF Room, PlaceCards
<1>3. cards \in SUBSET Card /\ hand \in SUBSET Card
  BY <1>1 DEF Room
<1>4. hands \in [User -> SUBSET Card] /\ counts \in [User -> Nat]
  <2>1. Cardinality(hand) \in Nat
    BY <1>3, CardsAreFinite
  <2> HIDE DEF hand
  <2> QED BY <1>1, <1>3, <2>1 DEF Room
<1>5. stack \in SUBSET Card /\ stackCount \in Nat
  <2>1. Cardinality(cards) \in Nat
    BY <1>3, CardsAreFinite
  <2>2. s.stack \in SUBSET Card /\ s.stackCount \in Nat
    BY <1>1 DEF Room
  <2> QED BY <1>3, <2>1, <2>2
<1>6. play \in TopPlay \cup {NoPlay} /\ FinalRank(claims) \in Rank \cup {NoRank}
  BY <1>3, PlayableClaimsAreGroups DEF TopPlay
<1>7. <<>> \in Seq(User)
  OBVIOUS
<1> HIDE DEF hand, hands, counts, stack, stackCount, play
<1>8. t \in Room
  BY <1>1, <1>4, <1>5, <1>6, <1>7, Zenon DEF Room
<1>9. /\ t.seats = s.seats /\ t.online = s.online
      /\ t.done = s.done /\ t.ready = s.ready
  BY <1>1 DEF Room
<1> HIDE DEF t
<1>10. WellTyped(t) /\ Seated(t) = Seated(s)
  BY <1>8, <1>9 DEF WellTyped, Seated
<1> QED BY <1>2, <1>9, <1>10

LEMMA PendingKeeps ==
  ASSUME NEW s, WellTyped(s), NEW p \in User \cup {NoOne}
  PROVE  KeepsTable(s, [s EXCEPT !.pending = p])
<1> DEFINE t == [s EXCEPT !.pending = p]
<1>1. t \in Room
  BY Zenon DEF WellTyped, Room
<1>2. SameTable(s, t) /\ t.done = s.done
  BY DEF WellTyped, Room, SameTable
<1> QED BY <1>1, <1>2, TableKept DEF WellTyped

LEMMA SettleFinishesKeeps ==
  ASSUME NEW s, WellTyped(s), NEW p \in User, NEW covers
  PROVE  KeepsTable(s, SettleFinishes(s, p, covers))
<1> DEFINE t == IF covers THEN ConfirmPendingFinish(s) ELSE s
<1>1. KeepsTable(s, t)
  BY ConfirmPendingFinishKeeps DEF KeepsTable, SameTable
<1> HIDE DEF t
<1>2. KeepsTable(t, [t EXCEPT !.pending = p])
  BY <1>1, PendingKeeps DEF KeepsTable
<1>3. KeepsTable(s, [t EXCEPT !.pending = p])
  BY <1>1, <1>2, KeptTwice DEF KeepsTable
<1> QED BY <1>1, <1>3 DEF SettleFinishes, t

LEMMA PlayCardsTypeOK ==
  ASSUME TypeOK, NEW p \in User, NEW cards \in SUBSET room.hands[p],
         NEW claims \in PlayableClaims(room, Cardinality(cards)),
         PlayCards(p, cards, claims)
  PROVE  TypeOK'
<1> DEFINE placed == PlaceCards(room, p, cards, claims)
           settled == SettleFinishes(placed, p, PendingFinishIsTopPlay(room))
           t == IF settled.phase = "playing"
                THEN SetCurrentTurn(settled, GetNextPlayerID(settled, p))
                ELSE settled
<1>1. WellTyped(room) /\ cards # {} /\ room' = t
  BY DEF TypeOK, PlayCards
<1>2. /\ WellTyped(placed) /\ placed.ready = room.ready
      /\ Seated(placed) = Seated(room)
  BY <1>1, PlaceCardsTyped
<1> HIDE DEF placed
<1>3. KeepsTable(placed, settled)
  BY <1>2, SettleFinishesKeeps
<1> HIDE DEF settled
<1>4. KeepsTable(placed, t)
  <2>1. KeepsTable(settled, SetCurrentTurn(settled, GetNextPlayerID(settled, p)))
    BY <1>3, NextPlayerIsUser, SetCurrentTurnKeeps DEF KeepsTable
  <2>2. KeepsTable(placed, SetCurrentTurn(settled, GetNextPlayerID(settled, p)))
    BY <1>3, <2>1, KeptTwice DEF KeepsTable
  <2> QED BY <1>3, <2>2
<1> HIDE DEF t
<1>5. WellTyped(t) /\ t.ready \subseteq Seated(t)
  BY <1>2, <1>4 DEF KeepsTable, SameTable, Seated, TypeOK
<1> QED BY <1>1, <1>5, NextTypeOK

LEMMA PickUpStackTyped ==
  ASSUME NEW s, WellTyped(s), NEW p \in User
  PROVE  /\ WellTyped(PickUpStack(s, p))
         /\ PickUpStack(s, p).ready = s.ready
         /\ Seated(PickUpStack(s, p)) = Seated(s)
<1> DEFINE hand == s.hands[p] \cup s.stack
           hands == [s.hands EXCEPT ![p] = hand]
           counts == [s.handCount EXCEPT ![p] = Cardinality(hand)]
           t == [s EXCEPT !.hands = hands, !.handCount = counts]
<1>1. s \in Room
  BY DEF WellTyped
<1>2. PickUpStack(s, p) = ClearRound(t)
  <2>1. t = [s EXCEPT !.hands[p] = hand, !.handCount[p] = Cardinality(hand)]
    BY <1>1, Zenon DEF Room
  <2> QED BY <2>1 DEF PickUpStack
<1>3. hand \in SUBSET Card
  BY <1>1 DEF Room
<1>4. hands \in [User -> SUBSET Card] /\ counts \in [User -> Nat]
  <2>1. Cardinality(hand) \in Nat
    BY <1>3, CardsAreFinite
  <2> HIDE DEF hand
  <2> QED BY <1>1, <1>3, <2>1 DEF Room
<1> HIDE DEF hands, counts
<1>5. t \in Room
  BY <1>1, <1>4, Zenon DEF Room
<1>6. /\ t.seats = s.seats /\ t.online = s.online
      /\ t.done = s.done /\ t.ready = s.ready
  BY <1>1 DEF Room
<1> HIDE DEF t
<1>7. WellTyped(t)
  BY <1>5, <1>6 DEF WellTyped, Seated
<1> QED BY <1>2, <1>6, <1>7, ClearRoundKeeps DEF KeepsTable, SameTable, Seated

LEMMA ChallengeTypeOK ==
  ASSUME TypeOK, NEW p \in User, Challenge(p)
  PROVE  TypeOK'
<1> DEFINE maker == room.topPlay.player
           wasBluff == IsClaimBluff(room.topPlay.cards, room.topPlay.claims)
           loser == IF wasBluff THEN maker ELSE p
           taken == PickUpStack(room, loser)
           judged == IF room.pending = maker THEN JudgeFinish(taken, wasBluff)
                     ELSE taken
           starter == IF wasBluff THEN p
                      ELSE IF maker \in ActivePlayers(judged) THEN maker
                      ELSE GetNextPlayerID(judged, maker)
           moved == IF judged.phase = "playing"
                    THEN SetCurrentTurn(judged, starter) ELSE judged
           t == MaybeEndGame(moved)
<1>1. WellTyped(room) /\ room' = t
  BY DEF TypeOK, Challenge
<1>2. maker \in User
  BY <1>1 DEF Challenge, WellTyped, Room, TopPlay
<1> HIDE DEF maker, wasBluff
<1>3. /\ WellTyped(taken) /\ taken.ready = room.ready
      /\ Seated(taken) = Seated(room)
  BY <1>1, <1>2, PickUpStackTyped
<1> HIDE DEF taken
<1>4. KeepsTable(taken, judged)
  <2>1. NoOne \in User \cup {NoOne}
    OBVIOUS
  <2>2. KeepsTable(taken, [taken EXCEPT !.pending = NoOne])
    BY <1>3, <2>1, PendingKeeps
  <2>3. KeepsTable(taken, ConfirmPendingFinish(taken))
    BY <1>3, ConfirmPendingFinishKeeps
  <2>4. KeepsTable(taken, taken)
    BY <1>3 DEF KeepsTable, SameTable
  <2> QED BY <2>2, <2>3, <2>4 DEF JudgeFinish
<1> HIDE DEF judged
<1>5. starter \in User \cup {NoOne}
  BY <1>2, <1>4, NextPlayerIsUser DEF KeepsTable
<1> HIDE DEF starter
<1>6. KeepsTable(judged, moved)
  BY <1>4, <1>5, SetCurrentTurnKeeps DEF KeepsTable, SameTable
<1> HIDE DEF moved
<1>7. KeepsTable(taken, t)
  <2>1. KeepsTable(moved, t)
    BY <1>6, MaybeEndGameKeeps DEF KeepsTable
  <2>2. KeepsTable(judged, t)
    BY <1>6, <2>1, KeptTwice DEF KeepsTable
  <2> QED BY <1>4, <2>2, KeptTwice DEF KeepsTable
<1> HIDE DEF t
<1>8. WellTyped(t) /\ t.ready \subseteq Seated(t)
  BY <1>3, <1>7 DEF KeepsTable, SameTable, Seated, TypeOK
<1> QED BY <1>1, <1>8, NextTypeOK

LEMMA SkipTypeOK ==
  ASSUME TypeOK, NEW p \in User, room' = ApplySkip(room, p)
  PROVE  TypeOK'
<1>1. KeepsTable(room, ApplySkip(room, p))
  BY ApplySkipKeeps DEF TypeOK
<1> QED BY <1>1, KeepsTypeOK

LEMMA StepTypeOK == TypeOK /\ [Next]_room => TypeOK'
<1> SUFFICES ASSUME TypeOK, [Next]_room PROVE TypeOK'
  OBVIOUS
<1>1. ASSUME NEW p \in User, Reconnect(p) PROVE TypeOK'
  BY <1>1, ReconnectTypeOK
<1>2. ASSUME NEW p \in User, Disconnect(p) PROVE TypeOK'
  BY <1>2, DisconnectTypeOK
<1>3. ASSUME NEW p \in User, LeaveRoom(p) PROVE TypeOK'
  BY <1>3, LeaveRoomTypeOK
<1>4. ASSUME NEW p \in User, ResetToLobby(p) PROVE TypeOK'
  BY <1>4, ResetToLobbyTypeOK
<1>5. ASSUME NEW p \in User, ReturnToLobby(p) PROVE TypeOK'
  BY <1>5, ReturnToLobbyTypeOK
<1>6. ASSUME NEW p \in User, StartGame(p) PROVE TypeOK'
  BY <1>6, StartGameTypeOK
<1>7. ASSUME NEW p \in User, Challenge(p) PROVE TypeOK'
  BY <1>7, ChallengeTypeOK
<1>8. ASSUME NEW p \in User, Skip(p) PROVE TypeOK'
  BY <1>8, SkipTypeOK DEF Skip
<1>9. ASSUME NEW p \in User, NEW decks \in ConfigDecks,
             NEW winners \in ConfigWinners,
             Seat(p, decks, winners) \/ SetConfig(p, decks, winners)
      PROVE  TypeOK'
  <2>1. decks \in Nat /\ winners \in Nat
    BY ConfigAssumption
  <2> QED BY <1>9, <2>1, SeatTypeOK, SetConfigTypeOK
<1>10. ASSUME NEW p \in User, NEW cards \in SUBSET room.hands[p],
              NEW claims \in PlayableClaims(room, Cardinality(cards)),
              PlayCards(p, cards, claims)
       PROVE  TypeOK'
  BY <1>10, PlayCardsTypeOK
<1>11. ASSUME Restart PROVE TypeOK'
  BY <1>11, RestartTypeOK
<1>12. ASSUME TurnTimerExpired PROVE TypeOK'
  <2>1. room.turn \in User /\ room' = ApplySkip(room, room.turn)
    BY <1>12 DEF TurnTimerExpired, TypeOK, WellTyped, Room
  <2> QED BY <2>1, SkipTypeOK
<1>13. CASE UNCHANGED room
  BY <1>13 DEF TypeOK
<1> QED BY <1>1, <1>2, <1>3, <1>4, <1>5, <1>6, <1>7, <1>8, <1>9, <1>10,
           <1>11, <1>12, <1>13 DEF Next

\* Type correctness: in every reachable state of a room of any size the record
\* is well typed, no user has two seats, and only seated users are online,
\* finished or back in the results lobby.
THEOREM TypeCorrect == Spec => []TypeOK
BY InitTypeOK, StepTypeOK, PTL DEF Spec

----------------------------------------------------------------------------
(* The host and the lobby. *)

\* A helper of a turn may end the match and never opens the lobby.
Goes(s, t) == t.phase \in {s.phase, "finished"}

LEMMA GoesTwice ==
  ASSUME NEW r, NEW s, NEW t, Goes(r, s), Goes(s, t)
  PROVE  Goes(r, t)
BY DEF Goes

LEMMA SetCurrentTurnGoes ==
  ASSUME NEW s, WellTyped(s), NEW p
  PROVE  Goes(s, SetCurrentTurn(s, p))
BY DEF WellTyped, Room, Goes, SetCurrentTurn

LEMMA ClearRoundGoes ==
  ASSUME NEW s, WellTyped(s)
  PROVE  Goes(s, ClearRound(s))
BY DEF WellTyped, Room, Goes, ClearRound

LEMMA FinishMatchGoes ==
  ASSUME NEW s, WellTyped(s)
  PROVE  FinishMatch(s).phase = "finished"
BY DEF WellTyped, Room, FinishMatch, SetCurrentTurn

LEMMA MaybeEndGameGoes ==
  ASSUME NEW s, WellTyped(s)
  PROVE  Goes(s, MaybeEndGame(s))
BY FinishMatchGoes DEF MaybeEndGame, Goes

LEMMA ConfirmPendingFinishGoes ==
  ASSUME NEW s, WellTyped(s)
  PROVE  Goes(s, ConfirmPendingFinish(s))
BY DEF WellTyped, Room, Goes, ConfirmPendingFinish, FinishMatch, SetCurrentTurn

LEMMA ResolveAllPassGoes ==
  ASSUME NEW s, WellTyped(s), NEW p \in User \cup {NoOne}
  PROVE  Goes(s, ResolveAllPass(s, p))
<1> DEFINE t == IF PendingFinishIsTopPlay(s) THEN ConfirmPendingFinish(s) ELSE s
           starter == GetNextPlayerID(t, LastSkipper(t, p))
           cleared == ClearRound(t)
<1>1. WellTyped(t) /\ Goes(s, t)
  BY ConfirmPendingFinishKeeps, ConfirmPendingFinishGoes DEF KeepsTable, Goes
<1> HIDE DEF t
<1>2. Goes(t, [t EXCEPT !.skips = <<>>])
  BY <1>1 DEF WellTyped, Room, Goes
<1>3. Goes(t, SetCurrentTurn(cleared, starter))
  <2>1. WellTyped(cleared) /\ Goes(t, cleared)
    BY <1>1, ClearRoundKeeps, ClearRoundGoes DEF KeepsTable
  <2> HIDE DEF cleared
  <2>2. Goes(cleared, SetCurrentTurn(cleared, starter))
    BY <2>1, SetCurrentTurnGoes
  <2> QED BY <2>1, <2>2, GoesTwice
<1>4. \/ ResolveAllPass(s, p) = [t EXCEPT !.skips = <<>>]
      \/ ResolveAllPass(s, p) = SetCurrentTurn(cleared, starter)
  BY DEF ResolveAllPass, t
<1> QED BY <1>1, <1>2, <1>3, <1>4, GoesTwice

LEMMA ReconcileGoes ==
  ASSUME NEW s, WellTyped(s)
  PROVE  Goes(s, ReconcileSkipProgression(s))
<1>1. s.turn \in User \cup {NoOne}
  BY DEF WellTyped, Room
<1>2. Goes(s, ResolveAllPass(s, s.turn))
  BY <1>1, ResolveAllPassGoes
<1> QED BY <1>2 DEF ReconcileSkipProgression, Goes

LEMMA ApplySkipGoes ==
  ASSUME NEW s, WellTyped(s), NEW p \in User
  PROVE  Goes(s, ApplySkip(s, p))
<1> DEFINE bare == [s EXCEPT !.skips = <<>>]
           t == IF p \in Rotation(s) THEN RecordSkip(s, p) ELSE s
           moved == IF SkipRequirementsMet(t) THEN ResolveAllPass(t, p)
                    ELSE SetCurrentTurn(t, GetNextPlayerID(t, p))
           idle == SetCurrentTurn(bare, GetNextPlayerID(s, p))
<1>1. Goes(s, MaybeEndGame(idle))
  <2>1. WellTyped(bare) /\ Goes(s, bare)
    BY NoSkipsKeeps DEF KeepsTable, WellTyped, Room, Goes
  <2> HIDE DEF bare
  <2>2. WellTyped(idle) /\ Goes(bare, idle)
    BY <2>1, NextPlayerIsUser, SetCurrentTurnKeeps, SetCurrentTurnGoes DEF KeepsTable
  <2> HIDE DEF idle
  <2>3. Goes(idle, MaybeEndGame(idle))
    BY <2>2, MaybeEndGameGoes
  <2> QED BY <2>1, <2>2, <2>3, GoesTwice
<1>2. Goes(s, MaybeEndGame(moved))
  <2>1. WellTyped(t) /\ Goes(s, t)
    BY RecordSkipKeeps DEF KeepsTable, WellTyped, Room, Goes, RecordSkip
  <2> HIDE DEF t
  <2>2. WellTyped(moved) /\ Goes(t, moved)
    BY <2>1, NextPlayerIsUser, SetCurrentTurnKeeps, SetCurrentTurnGoes,
       ResolveAllPassKeeps, ResolveAllPassGoes DEF KeepsTable
  <2> HIDE DEF moved
  <2>3. Goes(moved, MaybeEndGame(moved))
    BY <2>2, MaybeEndGameGoes
  <2> QED BY <2>1, <2>2, <2>3, GoesTwice
<1>3. \/ ApplySkip(s, p) = MaybeEndGame(idle)
      \/ ApplySkip(s, p) = MaybeEndGame(moved)
  BY DEF ApplySkip
<1> QED BY <1>1, <1>2, <1>3

LEMMA SettleFinishesGoes ==
  ASSUME NEW s, WellTyped(s), NEW p \in User, NEW covers
  PROVE  Goes(s, SettleFinishes(s, p, covers))
<1> DEFINE t == IF covers THEN ConfirmPendingFinish(s) ELSE s
<1>1. WellTyped(t) /\ Goes(s, t)
  BY ConfirmPendingFinishKeeps, ConfirmPendingFinishGoes DEF KeepsTable, Goes
<1> HIDE DEF t
<1>2. Goes(t, [t EXCEPT !.pending = p])
  BY <1>1 DEF WellTyped, Room, Goes
<1> QED BY <1>1, <1>2, GoesTwice DEF SettleFinishes, t
----------------------------------------------------------------------------
(* What the steps inside a handler leave as it is. *)

LEMMA PlaceCardsLeaves ==
  ASSUME NEW s, WellTyped(s), NEW p, NEW cards, NEW claims
  PROVE  /\ PlaceCards(s, p, cards, claims).seats = s.seats
         /\ PlaceCards(s, p, cards, claims).host = s.host
         /\ PlaceCards(s, p, cards, claims).phase = s.phase
BY DEF WellTyped, Room, PlaceCards

LEMMA PickUpStackLeaves ==
  ASSUME NEW s, WellTyped(s), NEW p
  PROVE  /\ PickUpStack(s, p).seats = s.seats
         /\ PickUpStack(s, p).host = s.host
         /\ PickUpStack(s, p).phase = s.phase
BY DEF WellTyped, Room, PickUpStack, ClearRound

LEMMA RemoveSeatLeaves ==
  ASSUME NEW s, WellTyped(s), NEW p \in Seated(s)
  PROVE  /\ RemoveSeat(s, p).host = s.host
         /\ RemoveSeat(s, p).phase = s.phase
         /\ RemoveSeat(s, p).hands = s.hands
         /\ RemoveSeat(s, p).stack = s.stack
         /\ RemoveSeat(s, p).winners = s.winners
         /\ RemoveSeat(s, p).pending = s.pending
         /\ RemoveSeat(s, p).ready = s.ready
         /\ RemoveSeat(s, p).locked = s.locked
         /\ RemoveSeat(s, p).skips = s.skips
BY DEF WellTyped, Room, RemoveSeat

LEMMA ClearPlayerRuntimeLeaves ==
  ASSUME NEW s, WellTyped(s), NEW p \in User
  PROVE  /\ ClearPlayerRuntime(s, p).seats = s.seats
         /\ ClearPlayerRuntime(s, p).host = s.host
         /\ ClearPlayerRuntime(s, p).phase = s.phase
         /\ \A q \in User : \/ ClearPlayerRuntime(s, p).hands[q] = s.hands[q]
                            \/ ClearPlayerRuntime(s, p).hands[q] = {}
         /\ ClearPlayerRuntime(s, p).stack = s.stack
         /\ ClearPlayerRuntime(s, p).winners = s.winners
         /\ ClearPlayerRuntime(s, p).pending = s.pending
         /\ ClearPlayerRuntime(s, p).ready \subseteq s.ready
         /\ ClearPlayerRuntime(s, p).locked = s.locked
         /\ ClearPlayerRuntime(s, p).skips = s.skips
BY DEF WellTyped, Room, ClearPlayerRuntime

LEMMA TransferHostLeaves ==
  ASSUME NEW s, WellTyped(s), NEW p
  PROVE  /\ TransferHost(s, p).phase = s.phase
         /\ TransferHost(s, p).seats = s.seats
         /\ TransferHost(s, p).hands = s.hands
         /\ TransferHost(s, p).stack = s.stack
         /\ TransferHost(s, p).winners = s.winners
         /\ TransferHost(s, p).pending = s.pending
         /\ TransferHost(s, p).ready = s.ready
         /\ TransferHost(s, p).locked = s.locked
         /\ TransferHost(s, p).skips = s.skips
BY DEF WellTyped, Room, TransferHost

\* The chain of a leave: the record after each of its calls is well typed, and
\* what it has gained or lost by then.
LEMMA LeaveChain ==
  ASSUME NEW s, WellTyped(s), NEW p \in Seated(s),
         NEW passed, passed = IF s.phase = "playing" /\ s.turn = p
                              THEN ApplySkip(s, p) ELSE s,
         NEW gone, gone = RemoveSeat(passed, p),
         NEW settled, settled =
           IF gone.phase = "playing"
           THEN MaybeEndGame(ReconcileSkipProgression(gone)) ELSE gone,
         NEW cleared, cleared = ClearPlayerRuntime(settled, p)
  PROVE  /\ p \in User
         /\ WellTyped(passed) /\ WellTyped(gone)
         /\ WellTyped(settled) /\ WellTyped(cleared)
         /\ Goes(s, cleared) /\ cleared.host = s.host
         /\ Seated(cleared) = Seated(s) \ {p}
<1>1. p \in User
  BY DEF WellTyped, Room, Seated, Range
<1>2. WellTyped(passed) /\ SameTable(s, passed) /\ Goes(s, passed)
  BY <1>1, ApplySkipKeeps, ApplySkipGoes DEF KeepsTable, SameTable, Goes
<1>3. p \in Seated(passed) /\ Seated(passed) = Seated(s)
  BY <1>2 DEF SameTable, Seated
<1>4. /\ WellTyped(gone) /\ Seated(gone) = Seated(s) \ {p}
      /\ gone.host = passed.host /\ gone.phase = passed.phase
  BY <1>2, <1>3, RemoveSeatRemoves, RemoveSeatLeaves
<1>5. KeepsTable(gone, settled) /\ Goes(gone, settled)
  <2>1. CASE gone.phase = "playing"
    <3> DEFINE r == ReconcileSkipProgression(gone)
    <3>1. KeepsTable(gone, r) /\ Goes(gone, r)
      BY <1>4, ReconcileKeeps, ReconcileGoes
    <3> HIDE DEF r
    <3>2. KeepsTable(r, MaybeEndGame(r)) /\ Goes(r, MaybeEndGame(r))
      BY <3>1, MaybeEndGameKeeps, MaybeEndGameGoes DEF KeepsTable
    <3>3. KeepsTable(gone, MaybeEndGame(r)) /\ Goes(gone, MaybeEndGame(r))
      BY <3>1, <3>2, KeptTwice, GoesTwice DEF KeepsTable
    <3> QED BY <2>1, <3>3 DEF r
  <2>2. CASE gone.phase # "playing"
    BY <1>4, <2>2 DEF KeepsTable, SameTable, Goes
  <2> QED BY <2>1, <2>2
<1>6. /\ WellTyped(settled) /\ Seated(settled) = Seated(s) \ {p}
      /\ settled.host = s.host /\ Goes(s, settled)
  BY <1>2, <1>4, <1>5 DEF KeepsTable, SameTable, Seated, Goes
<1>7. /\ WellTyped(cleared) /\ Seated(cleared) = Seated(settled)
      /\ cleared.host = settled.host /\ cleared.phase = settled.phase
  BY <1>1, <1>6, ClearPlayerRuntimeClears, ClearPlayerRuntimeLeaves
<1> QED BY <1>1, <1>2, <1>4, <1>6, <1>7 DEF Goes
----------------------------------------------------------------------------
(* The host. *)

Hosted(s) == s.seats # <<>> => s.host \in Seated(s)

LEMMA SameHost ==
  ASSUME NEW s, Hosted(s), NEW t, t.seats = s.seats, t.host = s.host
  PROVE  Hosted(t)
BY DEF Hosted, Seated

\* The first online seat, or else the seated player who went offline.
LEMMA FirstOnlineIsSeated ==
  ASSUME NEW s, WellTyped(s), NEW p \in Seated(s)
  PROVE  FirstOnline(s, p) \in Seated(s)
<1> DEFINE here == {i \in DOMAIN s.seats : s.seats[i] \in s.online}
<1>1. here \in SUBSET Nat
  BY DEF WellTyped, Room
<1>2. here # {} => Min(here) \in here
  BY <1>1, MinIsMember
<1>3. \A i \in here : s.seats[i] \in Seated(s)
  BY DEF Seated, Range
<1> HIDE DEF here
<1>4. here # {} => s.seats[Min(here)] \in Seated(s)
  BY <1>2, <1>3
<1> QED BY <1>4 DEF FirstOnline, here

LEMMA ReconnectHosted ==
  ASSUME TypeOK, Hosted(room), NEW p \in User, Reconnect(p)
  PROVE  Hosted(room')
BY SameHost DEF TypeOK, WellTyped, Room, Reconnect

LEMMA SeatHosted ==
  ASSUME TypeOK, Hosted(room), NEW p \in User, NEW decks, NEW winners,
         Seat(p, decks, winners)
  PROVE  Hosted(room')
<1>1. /\ room'.seats = Append(room.seats, p)
      /\ room'.host = IF room.seats = <<>> THEN p ELSE room.host
      /\ room.seats \in Seq(User)
  BY DEF TypeOK, WellTyped, Room, Seat
<1>2. /\ p \in Range(Append(room.seats, p))
      /\ Range(room.seats) \subseteq Range(Append(room.seats, p))
  <2> DEFINE seats == Append(room.seats, p)
  <2>1. /\ DOMAIN seats = 1..(Len(room.seats) + 1)
        /\ DOMAIN room.seats = 1..Len(room.seats)
        /\ Len(room.seats) + 1 \in 1..(Len(room.seats) + 1)
        /\ \A i \in 1..Len(room.seats) :
              i \in 1..(Len(room.seats) + 1) /\ seats[i] = room.seats[i]
        /\ seats[Len(room.seats) + 1] = p
    BY <1>1
  <2> HIDE DEF seats
  <2>2. p \in Range(seats) /\ Range(room.seats) \subseteq Range(seats)
    BY <2>1 DEF Range
  <2> QED BY <2>2 DEF seats
<1> QED BY <1>1, <1>2 DEF Hosted, Seated

LEMMA DisconnectHosted ==
  ASSUME TypeOK, Hosted(room), NEW p \in User, Disconnect(p)
  PROVE  Hosted(room')
<1> DEFINE s == [room EXCEPT !.online = room.online \ {p}]
           t == [s EXCEPT !.host = FirstOnline(s, p)]
<1>1. room \in Room /\ p \in Seated(room)
  BY DEF TypeOK, WellTyped, Disconnect
<1>2. room' = IF s.phase = "lobby" /\ s.host = p THEN t ELSE s
  BY <1>1, Zenon DEF Room, Disconnect
<1>3. room.online \ {p} \in SUBSET User
  BY <1>1 DEF Room
<1>4. s \in Room
  BY <1>1, <1>3, Zenon DEF Room
<1>5. /\ s.seats = room.seats /\ s.online = room.online \ {p}
      /\ s.done = room.done /\ s.host = room.host
  BY <1>1 DEF Room
<1> HIDE DEF s
<1>6. WellTyped(s) /\ p \in Seated(s) /\ Hosted(s)
  BY <1>1, <1>4, <1>5 DEF TypeOK, WellTyped, Seated, Hosted
<1>7. t.seats = s.seats /\ t.host = FirstOnline(s, p)
  BY <1>4 DEF Room
<1> HIDE DEF t
<1>8. Hosted(t)
  BY <1>6, <1>7, FirstOnlineIsSeated DEF Hosted, Seated
<1> QED BY <1>2, <1>6, <1>8

LEMMA LeaveRoomHosted ==
  ASSUME TypeOK, Hosted(room), NEW p \in User, LeaveRoom(p)
  PROVE  Hosted(room')
<1> DEFINE passed == IF room.phase = "playing" /\ room.turn = p
                     THEN ApplySkip(room, p) ELSE room
           gone == RemoveSeat(passed, p)
           settled == IF gone.phase = "playing"
                      THEN MaybeEndGame(ReconcileSkipProgression(gone))
                      ELSE gone
           cleared == ClearPlayerRuntime(settled, p)
           t == TransferHost(cleared, p)
<1>1. WellTyped(room) /\ p \in Seated(room) /\ room' = t
  BY DEF TypeOK, LeaveRoom, IsController
<1>2. /\ WellTyped(cleared) /\ cleared.host = room.host
      /\ Seated(cleared) = Seated(room) \ {p}
  BY <1>1, LeaveChain
<1> HIDE DEF cleared
<1>3. cleared.seats \in Seq(User)
  BY <1>2 DEF WellTyped, Room
<1>4. CASE cleared.host = p /\ cleared.seats # <<>>
  <2>1. t.host = Head(cleared.seats) /\ t.seats = cleared.seats
    BY <1>2, <1>4 DEF WellTyped, Room, TransferHost
  <2>2. Head(cleared.seats) \in Seated(cleared)
    <3>1. Head(cleared.seats) = cleared.seats[1] /\ 1 \in DOMAIN cleared.seats
      BY <1>3, <1>4
    <3> QED BY <3>1 DEF Seated, Range
  <2> QED BY <1>1, <2>1, <2>2 DEF Hosted, Seated
<1>5. CASE cleared.seats # <<>> /\ cleared.host # p
  <2>1. Seated(cleared) # {}
    <3>1. 1 \in DOMAIN cleared.seats
      BY <1>3, <1>5
    <3> QED BY <3>1 DEF Seated, Range
  <2>2. room.seats # <<>>
    <3>1. Seated(room) # {}
      BY <1>1
    <3>2. Range(<<>>) = {}
      BY DEF Range
    <3> QED BY <3>1, <3>2 DEF Seated
  <2>3. cleared.host \in Seated(cleared)
    BY <1>2, <1>5, <2>2 DEF Hosted
  <2> QED BY <1>1, <1>5, <2>3 DEF TransferHost, Hosted
<1>6. CASE cleared.seats = <<>>
  BY <1>1, <1>6 DEF TransferHost, Hosted
<1> QED BY <1>4, <1>5, <1>6

LEMMA RestartHosted ==
  ASSUME TypeOK, Hosted(room), Restart
  PROVE  Hosted(room')
<1> DEFINE s == IF room.pending # NoOne /\ room.topPlay # NoPlay
                     /\ ~PendingFinishIsTopPlay(room)
                THEN ConfirmPendingFinish(room) ELSE room
<1>1. room' = [s EXCEPT !.online = {}]
  BY DEF Restart
<1>2. KeepsTable(room, s)
  BY ConfirmPendingFinishKeeps DEF TypeOK, KeepsTable, SameTable
<1> HIDE DEF s
<1>3. room'.seats = room.seats /\ room'.host = room.host
  BY <1>1, <1>2 DEF KeepsTable, SameTable, WellTyped, Room
<1> QED BY <1>3, SameHost

LEMMA ResetToLobbyHosted ==
  ASSUME TypeOK, Hosted(room), NEW p \in User, ResetToLobby(p)
  PROVE  Hosted(room')
<1>1. room'.seats = room.seats /\ room'.host = room.host
  BY DEF TypeOK, WellTyped, Room, ResetToLobby, ClearRound, SetCurrentTurn
<1> QED BY <1>1, SameHost

LEMMA StartGameHosted ==
  ASSUME TypeOK, Hosted(room), NEW p \in User, StartGame(p)
  PROVE  Hosted(room')
<1>1. room'.seats = room.seats /\ room'.host = room.host
  BY DEF TypeOK, WellTyped, Room, StartGame, ClearRound, SetCurrentTurn
<1> QED BY <1>1, SameHost

LEMMA PlayCardsHosted ==
  ASSUME TypeOK, Hosted(room), NEW p \in User, NEW cards \in SUBSET room.hands[p],
         NEW claims \in PlayableClaims(room, Cardinality(cards)),
         PlayCards(p, cards, claims)
  PROVE  Hosted(room')
<1> DEFINE placed == PlaceCards(room, p, cards, claims)
           settled == SettleFinishes(placed, p, PendingFinishIsTopPlay(room))
           moved == SetCurrentTurn(settled, GetNextPlayerID(settled, p))
<1>1. WellTyped(room) /\ cards # {}
      /\ room' = IF settled.phase = "playing" THEN moved ELSE settled
  BY DEF TypeOK, PlayCards
<1>2. /\ WellTyped(placed) /\ placed.seats = room.seats
      /\ placed.host = room.host
  BY <1>1, PlaceCardsTyped, PlaceCardsLeaves
<1> HIDE DEF placed
<1>3. KeepsTable(placed, settled)
  BY <1>2, SettleFinishesKeeps
<1> HIDE DEF settled
<1>4. KeepsTable(settled, moved)
  BY <1>3, NextPlayerIsUser, SetCurrentTurnKeeps DEF KeepsTable
<1> HIDE DEF moved
<1>5. room'.seats = room.seats /\ room'.host = room.host
  BY <1>1, <1>2, <1>3, <1>4 DEF KeepsTable, SameTable
<1> QED BY <1>5, SameHost

\* The chain of a challenge: the record before its end keeps seats and host
\* and is not in the lobby.
LEMMA ChallengeChain ==
  ASSUME TypeOK, NEW p \in User, Challenge(p)
  PROVE  /\ room'.seats = room.seats /\ room'.host = room.host
         /\ Goes(room, room')
<1> DEFINE maker == room.topPlay.player
           wasBluff == IsClaimBluff(room.topPlay.cards, room.topPlay.claims)
           loser == IF wasBluff THEN maker ELSE p
           taken == PickUpStack(room, loser)
           judged == IF room.pending = maker THEN JudgeFinish(taken, wasBluff)
                     ELSE taken
           starter == IF wasBluff THEN p
                      ELSE IF maker \in ActivePlayers(judged) THEN maker
                      ELSE GetNextPlayerID(judged, maker)
           moved == IF judged.phase = "playing"
                    THEN SetCurrentTurn(judged, starter) ELSE judged
           t == MaybeEndGame(moved)
<1>1. WellTyped(room) /\ room' = t
  BY DEF TypeOK, Challenge
<1>2. maker \in User
  BY <1>1 DEF Challenge, WellTyped, Room, TopPlay
<1> HIDE DEF maker, wasBluff
<1>3. /\ WellTyped(taken) /\ taken.seats = room.seats
      /\ taken.host = room.host /\ Goes(room, taken)
  BY <1>1, <1>2, PickUpStackTyped, PickUpStackLeaves DEF Goes
<1> HIDE DEF taken
<1>4. KeepsTable(taken, judged) /\ Goes(taken, judged)
  <2>1. NoOne \in User \cup {NoOne}
    OBVIOUS
  <2>2. /\ KeepsTable(taken, [taken EXCEPT !.pending = NoOne])
        /\ Goes(taken, [taken EXCEPT !.pending = NoOne])
    BY <1>3, <2>1, PendingKeeps DEF Goes, WellTyped, Room
  <2>3. /\ KeepsTable(taken, ConfirmPendingFinish(taken))
        /\ Goes(taken, ConfirmPendingFinish(taken))
    BY <1>3, ConfirmPendingFinishKeeps, ConfirmPendingFinishGoes
  <2>4. KeepsTable(taken, taken) /\ Goes(taken, taken)
    BY <1>3 DEF KeepsTable, SameTable, Goes
  <2> QED BY <2>2, <2>3, <2>4 DEF JudgeFinish
<1> HIDE DEF judged
<1>5. starter \in User \cup {NoOne}
  BY <1>2, <1>4, NextPlayerIsUser DEF KeepsTable
<1> HIDE DEF starter
<1>6. KeepsTable(judged, moved) /\ Goes(judged, moved)
  BY <1>4, <1>5, SetCurrentTurnKeeps, SetCurrentTurnGoes
     DEF KeepsTable, SameTable, Goes
<1> HIDE DEF moved
<1>7. KeepsTable(moved, t) /\ Goes(moved, t)
  BY <1>6, MaybeEndGameKeeps, MaybeEndGameGoes DEF KeepsTable
<1> HIDE DEF t
<1> QED BY <1>1, <1>3, <1>4, <1>6, <1>7 DEF KeepsTable, SameTable, Goes

LEMMA SkipHosted ==
  ASSUME TypeOK, Hosted(room), NEW p \in User, room' = ApplySkip(room, p)
  PROVE  Hosted(room')
<1>1. KeepsTable(room, room')
  BY ApplySkipKeeps DEF TypeOK
<1> QED BY <1>1, SameHost DEF KeepsTable, SameTable

LEMMA StepHosted == TypeOK /\ Hosted(room) /\ [Next]_room => Hosted(room')
<1> SUFFICES ASSUME TypeOK, Hosted(room), [Next]_room PROVE Hosted(room')
  OBVIOUS
<1>1. ASSUME NEW p \in User, Reconnect(p) PROVE Hosted(room')
  BY <1>1, ReconnectHosted
<1>2. ASSUME NEW p \in User, Disconnect(p) PROVE Hosted(room')
  BY <1>2, DisconnectHosted
<1>3. ASSUME NEW p \in User, LeaveRoom(p) PROVE Hosted(room')
  BY <1>3, LeaveRoomHosted
<1>4. ASSUME NEW p \in User, ResetToLobby(p) PROVE Hosted(room')
  BY <1>4, ResetToLobbyHosted
<1>5. ASSUME NEW p \in User, ReturnToLobby(p) PROVE Hosted(room')
  BY <1>5, SameHost DEF TypeOK, WellTyped, Room, ReturnToLobby
<1>6. ASSUME NEW p \in User, StartGame(p) PROVE Hosted(room')
  BY <1>6, StartGameHosted
<1>7. ASSUME NEW p \in User, Challenge(p) PROVE Hosted(room')
  BY <1>7, ChallengeChain, SameHost
<1>8. ASSUME NEW p \in User, Skip(p) PROVE Hosted(room')
  BY <1>8, SkipHosted DEF Skip
<1>9. ASSUME NEW p \in User, NEW decks \in ConfigDecks,
             NEW winners \in ConfigWinners,
             Seat(p, decks, winners) \/ SetConfig(p, decks, winners)
      PROVE  Hosted(room')
  <2>1. CASE Seat(p, decks, winners)
    BY <2>1, SeatHosted
  <2>2. CASE SetConfig(p, decks, winners)
    BY <2>2, SameHost DEF TypeOK, WellTyped, Room, SetConfig
  <2> QED BY <1>9, <2>1, <2>2
<1>10. ASSUME NEW p \in User, NEW cards \in SUBSET room.hands[p],
              NEW claims \in PlayableClaims(room, Cardinality(cards)),
              PlayCards(p, cards, claims)
       PROVE  Hosted(room')
  BY <1>10, PlayCardsHosted
<1>11. ASSUME Restart PROVE Hosted(room')
  BY <1>11, RestartHosted
<1>12. ASSUME TurnTimerExpired PROVE Hosted(room')
  <2>1. room.turn \in User /\ room' = ApplySkip(room, room.turn)
    BY <1>12 DEF TurnTimerExpired, TypeOK, WellTyped, Room
  <2> QED BY <2>1, SkipHosted
<1>13. CASE UNCHANGED room
  BY <1>13
<1> QED BY <1>1, <1>2, <1>3, <1>4, <1>5, <1>6, <1>7, <1>8, <1>9, <1>10,
           <1>11, <1>12, <1>13 DEF Next

\* Whatever the order of joins, leaves, disconnects and restarts, a room with
\* players has one of them as host, for any number of users.
THEOREM HostSeated == Spec => []HostIsSeated
<1>1. Init => Hosted(room)
  BY DEF Init, NewRoom, Hosted
<1>2. Hosted(room) => HostIsSeated
  BY DEF Hosted, HostIsSeated
<1>3. TypeOK /\ Hosted(room) /\ [Next]_room => Hosted(room)'
  BY StepHosted
<1> QED BY <1>1, <1>2, <1>3, InitTypeOK, StepTypeOK, PTL DEF Spec
----------------------------------------------------------------------------
(* The lobby. *)

Clean(s) ==
  s.phase = "lobby" =>
    /\ \A p \in User : s.hands[p] = {}
    /\ s.stack = {} /\ s.winners = <<>> /\ s.pending = NoOne
    /\ s.ready = {} /\ ~s.locked /\ s.skips = <<>>

\* What a handler that is no business of a match leaves alone.
SameMatter(s, t) ==
  /\ t.phase = s.phase /\ t.hands = s.hands /\ t.stack = s.stack
  /\ t.winners = s.winners /\ t.pending = s.pending
  /\ t.ready = s.ready /\ t.locked = s.locked /\ t.skips = s.skips

LEMMA SameMatterClean ==
  ASSUME NEW s, Clean(s), NEW t, SameMatter(s, t)
  PROVE  Clean(t)
BY DEF Clean, SameMatter

LEMMA AwayFromLobby ==
  ASSUME NEW s, s.phase # "lobby", NEW t, Goes(s, t)
  PROVE  Clean(t)
BY DEF Clean, Goes

LEMMA DisconnectClean ==
  ASSUME TypeOK, Clean(room), NEW p \in User, Disconnect(p)
  PROVE  Clean(room')
<1>1. SameMatter(room, room')
  BY DEF TypeOK, WellTyped, Room, Disconnect, SameMatter
<1> QED BY <1>1, SameMatterClean

LEMMA LeaveRoomClean ==
  ASSUME TypeOK, Clean(room), NEW p \in User, LeaveRoom(p)
  PROVE  Clean(room')
<1> DEFINE passed == IF room.phase = "playing" /\ room.turn = p
                     THEN ApplySkip(room, p) ELSE room
           gone == RemoveSeat(passed, p)
           settled == IF gone.phase = "playing"
                      THEN MaybeEndGame(ReconcileSkipProgression(gone))
                      ELSE gone
           cleared == ClearPlayerRuntime(settled, p)
           t == TransferHost(cleared, p)
<1>1. WellTyped(room) /\ p \in Seated(room) /\ room' = t
  BY DEF TypeOK, LeaveRoom, IsController
<1>2. WellTyped(gone) /\ WellTyped(cleared) /\ Goes(room, cleared)
  BY <1>1, LeaveChain
<1>3. SameMatter(cleared, t)
  <2> HIDE DEF cleared
  <2> QED BY <1>2, TransferHostLeaves DEF SameMatter
<1>4. CASE room.phase = "lobby"
  <2>1. passed = room
    BY <1>4
  <2>2. SameMatter(room, gone)
    BY <1>1, <2>1, RemoveSeatLeaves DEF SameMatter
  <2>3. settled = gone
    BY <1>4, <2>2 DEF SameMatter
  <2>4. Clean(gone)
    BY <2>2, SameMatterClean
  <2> HIDE DEF passed, gone, settled
  <2>5. Clean(cleared)
    <3>1. WellTyped(settled) /\ Clean(settled) /\ settled.phase = "lobby"
      BY <1>2, <1>4, <2>2, <2>3, <2>4 DEF SameMatter
    <3>2. /\ cleared.stack = settled.stack
          /\ cleared.winners = settled.winners
          /\ cleared.pending = settled.pending
          /\ cleared.ready \subseteq settled.ready
          /\ cleared.locked = settled.locked /\ cleared.skips = settled.skips
          /\ \A q \in User : cleared.hands[q] = settled.hands[q]
                             \/ cleared.hands[q] = {}
      BY <3>1, ClearPlayerRuntimeLeaves
    <3> HIDE DEF cleared
    <3> QED BY <3>1, <3>2 DEF Clean
  <2> HIDE DEF cleared, t
  <2> QED BY <1>1, <1>3, <2>5, SameMatterClean
<1>5. CASE room.phase # "lobby"
  <2> HIDE DEF cleared, t
  <2>1. Clean(cleared)
    BY <1>2, <1>5, AwayFromLobby
  <2> QED BY <1>1, <1>3, <2>1, SameMatterClean
<1> QED BY <1>4, <1>5

LEMMA RestartClean ==
  ASSUME TypeOK, Clean(room), Restart
  PROVE  Clean(room')
<1> DEFINE s == IF room.pending # NoOne /\ room.topPlay # NoPlay
                     /\ ~PendingFinishIsTopPlay(room)
                THEN ConfirmPendingFinish(room) ELSE room
<1>1. room' = [s EXCEPT !.online = {}]
  BY DEF Restart
<1>2. WellTyped(s) /\ Goes(room, s)
  BY ConfirmPendingFinishKeeps, ConfirmPendingFinishGoes
     DEF TypeOK, KeepsTable, Goes
<1>3. Clean(s)
  <2>1. CASE room.phase = "lobby"
    BY <2>1 DEF Clean
  <2>2. CASE room.phase # "lobby"
    BY <1>2, <2>2, AwayFromLobby
  <2> QED BY <2>1, <2>2
<1> HIDE DEF s
<1>4. SameMatter(s, room')
  BY <1>1, <1>2 DEF WellTyped, Room, SameMatter
<1> QED BY <1>3, <1>4, SameMatterClean

LEMMA ResetToLobbyClean ==
  ASSUME TypeOK, NEW p \in User, ResetToLobby(p)
  PROVE  Clean(room')
BY DEF TypeOK, WellTyped, Room, ResetToLobby, ClearRound, SetCurrentTurn, Clean

LEMMA StartGameClean ==
  ASSUME TypeOK, NEW p \in User, StartGame(p)
  PROVE  Clean(room')
<1>1. room'.phase = "playing"
  BY DEF TypeOK, WellTyped, Room, StartGame, ClearRound, SetCurrentTurn
<1> QED BY <1>1 DEF Clean

LEMMA PlayCardsClean ==
  ASSUME TypeOK, NEW p \in User, NEW cards \in SUBSET room.hands[p],
         NEW claims \in PlayableClaims(room, Cardinality(cards)),
         PlayCards(p, cards, claims)
  PROVE  Clean(room')
<1> DEFINE placed == PlaceCards(room, p, cards, claims)
           settled == SettleFinishes(placed, p, PendingFinishIsTopPlay(room))
           moved == SetCurrentTurn(settled, GetNextPlayerID(settled, p))
<1>1. /\ WellTyped(room) /\ cards # {} /\ room.phase = "playing"
      /\ room' = IF settled.phase = "playing" THEN moved ELSE settled
  BY DEF TypeOK, PlayCards, OnTurn
<1>2. WellTyped(placed) /\ placed.phase = room.phase
  BY <1>1, PlaceCardsTyped, PlaceCardsLeaves
<1> HIDE DEF placed
<1>3. WellTyped(settled) /\ Goes(placed, settled)
  BY <1>2, SettleFinishesKeeps, SettleFinishesGoes DEF KeepsTable
<1> HIDE DEF settled
<1>4. Goes(settled, moved)
  BY <1>3, SetCurrentTurnGoes
<1> HIDE DEF moved
<1>5. Goes(room, room')
  BY <1>1, <1>2, <1>3, <1>4 DEF Goes
<1> QED BY <1>1, <1>5, AwayFromLobby

LEMMA SkipClean ==
  ASSUME TypeOK, room.phase = "playing", NEW p \in User,
         room' = ApplySkip(room, p)
  PROVE  Clean(room')
<1>1. Goes(room, room')
  BY ApplySkipGoes DEF TypeOK
<1> QED BY <1>1, AwayFromLobby

LEMMA StepClean == TypeOK /\ Clean(room) /\ [Next]_room => Clean(room')
<1> SUFFICES ASSUME TypeOK, Clean(room), [Next]_room PROVE Clean(room')
  OBVIOUS
<1>1. ASSUME NEW p \in User, Reconnect(p) PROVE Clean(room')
  <2>1. SameMatter(room, room')
    BY <1>1 DEF TypeOK, WellTyped, Room, Reconnect, SameMatter
  <2> QED BY <2>1, SameMatterClean
<1>2. ASSUME NEW p \in User, Disconnect(p) PROVE Clean(room')
  BY <1>2, DisconnectClean
<1>3. ASSUME NEW p \in User, LeaveRoom(p) PROVE Clean(room')
  BY <1>3, LeaveRoomClean
<1>4. ASSUME NEW p \in User, ResetToLobby(p) PROVE Clean(room')
  BY <1>4, ResetToLobbyClean
<1>5. ASSUME NEW p \in User, ReturnToLobby(p) PROVE Clean(room')
  BY <1>5 DEF TypeOK, WellTyped, Room, ReturnToLobby, Clean
<1>6. ASSUME NEW p \in User, StartGame(p) PROVE Clean(room')
  BY <1>6, StartGameClean
<1>7. ASSUME NEW p \in User, Challenge(p) PROVE Clean(room')
  <2>1. room.phase # "lobby"
    BY <1>7 DEF Challenge, OnTurn
  <2> QED BY <1>7, <2>1, ChallengeChain, AwayFromLobby
<1>8. ASSUME NEW p \in User, Skip(p) PROVE Clean(room')
  BY <1>8, SkipClean DEF Skip, OnTurn
<1>9. ASSUME NEW p \in User, NEW decks \in ConfigDecks,
             NEW winners \in ConfigWinners,
             Seat(p, decks, winners) \/ SetConfig(p, decks, winners)
      PROVE  Clean(room')
  <2>1. SameMatter(room, room')
    <3>1. CASE Seat(p, decks, winners)
      BY <3>1 DEF TypeOK, WellTyped, Room, Seat, SameMatter
    <3>2. CASE SetConfig(p, decks, winners)
      BY <3>2 DEF TypeOK, WellTyped, Room, SetConfig, SameMatter
    <3> QED BY <1>9, <3>1, <3>2
  <2> QED BY <2>1, SameMatterClean
<1>10. ASSUME NEW p \in User, NEW cards \in SUBSET room.hands[p],
              NEW claims \in PlayableClaims(room, Cardinality(cards)),
              PlayCards(p, cards, claims)
       PROVE  Clean(room')
  BY <1>10, PlayCardsClean
<1>11. ASSUME Restart PROVE Clean(room')
  BY <1>11, RestartClean
<1>12. ASSUME TurnTimerExpired PROVE Clean(room')
  <2>1. /\ room.turn \in User /\ room' = ApplySkip(room, room.turn)
        /\ room.phase = "playing"
    BY <1>12 DEF TurnTimerExpired, TypeOK, WellTyped, Room
  <2> QED BY <2>1, SkipClean
<1>13. CASE UNCHANGED room
  BY <1>13
<1> QED BY <1>1, <1>2, <1>3, <1>4, <1>5, <1>6, <1>7, <1>8, <1>9, <1>10,
           <1>11, <1>12, <1>13 DEF Next

\* The lobby carries nothing over from a match, whichever way the room got
\* back there and whoever left before, for any number of users and decks.
THEOREM LobbyClean == Spec => []LobbyIsClean
<1>1. Init => Clean(room)
  BY DEF Init, NewRoom, Clean
<1>2. Clean(room) => LobbyIsClean
  BY DEF Clean, LobbyIsClean
<1>3. TypeOK /\ Clean(room) /\ [Next]_room => Clean(room)'
  BY StepClean
<1> QED BY <1>1, <1>2, <1>3, InitTypeOK, StepTypeOK, PTL DEF Spec

----------------------------------------------------------------------------
(* The cards: no card is in two places, and the public counts agree with the *)
(* cards.  The helpers of a turn leave hands and counts as they are; here    *)
(* follows what they do to the pile, the four fields that describe the       *)
(* stack: it stays, or it is cleared as a whole.                             *)

SamePile(s, t) ==
  /\ t.stack = s.stack /\ t.stackCount = s.stackCount
  /\ t.claimedRank = s.claimedRank /\ t.topPlay = s.topPlay

NoPile(t) ==
  t.stack = {} /\ t.stackCount = 0 /\ t.claimedRank = NoRank /\ t.topPlay = NoPlay

KeepsPile(s, t) == SamePile(s, t) \/ NoPile(t)

\* CardCustody and CountsAgree of any room record.
Custody(s) ==
  /\ \A p, q \in User : p # q => s.hands[p] \cap s.hands[q] = {}
  /\ \A p \in User : s.hands[p] \cap s.stack = {}
  /\ \A p \in User \ Seated(s) : s.hands[p] = {}
  /\ s.topPlay # NoPlay => s.topPlay.cards \subseteq s.stack

HandsCounted(s) == \A p \in User : s.handCount[p] = Cardinality(s.hands[p])

PileCounted(s) ==
  /\ s.stackCount = Cardinality(s.stack)
  /\ s.stackCount = 0 <=> s.topPlay = NoPlay
  /\ s.stackCount = 0 <=> s.claimedRank = NoRank

Cards == Custody(room) /\ HandsCounted(room) /\ PileCounted(room)

----------------------------------------------------------------------------
(* What the shared methods do to the pile. *)

LEMMA SetCurrentTurnPile ==
  ASSUME NEW s, WellTyped(s), NEW p
  PROVE  SamePile(s, SetCurrentTurn(s, p))
BY DEF WellTyped, Room, SamePile, SetCurrentTurn

LEMMA ClearRoundPile ==
  ASSUME NEW s, WellTyped(s)
  PROVE  NoPile(ClearRound(s))
BY DEF WellTyped, Room, NoPile, ClearRound

LEMMA FinishMatchPile ==
  ASSUME NEW s, WellTyped(s)
  PROVE  SamePile(s, FinishMatch(s))
BY DEF WellTyped, Room, SamePile, FinishMatch, SetCurrentTurn

LEMMA MaybeEndGamePile ==
  ASSUME NEW s, WellTyped(s)
  PROVE  SamePile(s, MaybeEndGame(s))
BY FinishMatchPile DEF MaybeEndGame, SamePile

LEMMA ConfirmPendingFinishPile ==
  ASSUME NEW s, WellTyped(s)
  PROVE  SamePile(s, ConfirmPendingFinish(s))
BY DEF WellTyped, Room, SamePile, ConfirmPendingFinish, FinishMatch, SetCurrentTurn

LEMMA PileKeptTwice ==
  ASSUME NEW r, NEW s, NEW t, KeepsPile(r, s), KeepsPile(s, t)
  PROVE  KeepsPile(r, t)
BY DEF KeepsPile, SamePile, NoPile

LEMMA ResolveAllPassPile ==
  ASSUME NEW s, WellTyped(s), NEW p \in User \cup {NoOne}
  PROVE  KeepsPile(s, ResolveAllPass(s, p))
<1> DEFINE t == IF PendingFinishIsTopPlay(s) THEN ConfirmPendingFinish(s) ELSE s
           starter == GetNextPlayerID(t, LastSkipper(t, p))
           cleared == ClearRound(t)
<1>1. WellTyped(t) /\ SamePile(s, t)
  BY ConfirmPendingFinishKeeps, ConfirmPendingFinishPile DEF KeepsTable, SamePile
<1> HIDE DEF t
<1>2. SamePile(t, [t EXCEPT !.skips = <<>>])
  BY <1>1 DEF WellTyped, Room, SamePile
<1>3. NoPile(SetCurrentTurn(cleared, starter))
  <2>1. WellTyped(cleared) /\ NoPile(cleared)
    BY <1>1, ClearRoundKeeps, ClearRoundPile DEF KeepsTable
  <2> HIDE DEF cleared
  <2>2. SamePile(cleared, SetCurrentTurn(cleared, starter))
    BY <2>1, SetCurrentTurnPile
  <2> QED BY <2>1, <2>2 DEF SamePile, NoPile
<1>4. \/ ResolveAllPass(s, p) = [t EXCEPT !.skips = <<>>]
      \/ ResolveAllPass(s, p) = SetCurrentTurn(cleared, starter)
  BY DEF ResolveAllPass, t
<1> QED BY <1>1, <1>2, <1>3, <1>4 DEF KeepsPile, SamePile

LEMMA ReconcilePile ==
  ASSUME NEW s, WellTyped(s)
  PROVE  KeepsPile(s, ReconcileSkipProgression(s))
<1>1. s.turn \in User \cup {NoOne}
  BY DEF WellTyped, Room
<1>2. KeepsPile(s, ResolveAllPass(s, s.turn))
  BY <1>1, ResolveAllPassPile
<1> QED BY <1>2 DEF ReconcileSkipProgression, KeepsPile, SamePile

LEMMA ApplySkipPile ==
  ASSUME NEW s, WellTyped(s), NEW p \in User
  PROVE  KeepsPile(s, ApplySkip(s, p))
<1> DEFINE bare == [s EXCEPT !.skips = <<>>]
           t == IF p \in Rotation(s) THEN RecordSkip(s, p) ELSE s
           moved == IF SkipRequirementsMet(t) THEN ResolveAllPass(t, p)
                    ELSE SetCurrentTurn(t, GetNextPlayerID(t, p))
           idle == SetCurrentTurn(bare, GetNextPlayerID(s, p))
<1>1. KeepsPile(s, MaybeEndGame(idle))
  <2>1. WellTyped(bare)
    BY NoSkipsKeeps DEF KeepsTable
  <2>2. SamePile(s, bare)
    BY DEF WellTyped, Room, SamePile
  <2> HIDE DEF bare
  <2>3. WellTyped(idle)
    BY <2>1, NextPlayerIsUser, SetCurrentTurnKeeps DEF KeepsTable
  <2>4. SamePile(bare, idle)
    BY <2>1, SetCurrentTurnPile
  <2> HIDE DEF idle
  <2>5. SamePile(idle, MaybeEndGame(idle))
    BY <2>3, MaybeEndGamePile
  <2> QED BY <2>2, <2>4, <2>5 DEF KeepsPile, SamePile
<1>2. KeepsPile(s, MaybeEndGame(moved))
  <2>1. WellTyped(t)
    BY RecordSkipKeeps DEF KeepsTable
  <2>2. SamePile(s, t)
    BY DEF WellTyped, Room, SamePile, RecordSkip
  <2> HIDE DEF t
  <2>3. WellTyped(moved)
    BY <2>1, NextPlayerIsUser, SetCurrentTurnKeeps, ResolveAllPassKeeps
       DEF KeepsTable
  <2>4. KeepsPile(t, moved)
    BY <2>1, SetCurrentTurnPile, ResolveAllPassPile DEF KeepsPile
  <2> HIDE DEF moved
  <2>5. SamePile(moved, MaybeEndGame(moved))
    BY <2>3, MaybeEndGamePile
  <2> QED BY <2>2, <2>4, <2>5, PileKeptTwice DEF KeepsPile
<1>3. \/ ApplySkip(s, p) = MaybeEndGame(idle)
      \/ ApplySkip(s, p) = MaybeEndGame(moved)
  BY DEF ApplySkip
<1> QED BY <1>1, <1>2, <1>3

----------------------------------------------------------------------------
(* Steps that move no card. *)

LEMMA NoPileCounted ==
  ASSUME NEW s, NoPile(s)
  PROVE  PileCounted(s)
BY FS_EmptySet DEF NoPile, PileCounted

LEMMA PileStaysCounted ==
  ASSUME NEW s, NEW t, PileCounted(s), KeepsPile(s, t)
  PROVE  PileCounted(t)
BY NoPileCounted DEF KeepsPile, SamePile, PileCounted

\* Hands stay, the pile stays or is cleared, and no seat is lost.
LEMMA NoCardMoves ==
  ASSUME TypeOK, Cards, NEW t, room' = t, KeepsPile(room, t),
         t.hands = room.hands, t.handCount = room.handCount,
         Seated(room) \subseteq Seated(t)
  PROVE  Cards'
<1>1. Custody(t)
  <2>1. CASE SamePile(room, t)
    BY <2>1 DEF Cards, Custody, SamePile
  <2>2. CASE NoPile(t)
    BY <2>2 DEF Cards, Custody, NoPile
  <2> QED BY <2>1, <2>2 DEF KeepsPile
<1>2. HandsCounted(t) /\ PileCounted(t)
  BY PileStaysCounted DEF Cards, HandsCounted
<1> QED BY <1>1, <1>2 DEF Cards, Custody, HandsCounted, PileCounted, Seated

LEMMA InitCards == Init => Cards
<1> SUFFICES ASSUME Init PROVE Cards
  OBVIOUS
<1>1. /\ room.hands = [p \in User |-> {}] /\ room.handCount = [p \in User |-> 0]
      /\ NoPile(room)
  BY DEF Init, NewRoom, NoPile
<1>2. Custody(room)
  BY <1>1 DEF Custody, NoPile
<1>3. HandsCounted(room)
  BY <1>1, FS_EmptySet DEF HandsCounted
<1> QED BY <1>1, <1>2, <1>3, NoPileCounted DEF Cards

LEMMA PresenceCards ==
  ASSUME TypeOK, Cards, NEW p \in User, Reconnect(p) \/ Disconnect(p) \/ ReturnToLobby(p)
  PROVE  Cards'
<1>1. room \in Room
  BY DEF TypeOK, WellTyped
<1>2. /\ SamePile(room, room') /\ room'.hands = room.hands
      /\ room'.handCount = room.handCount /\ room'.seats = room.seats
  BY <1>1 DEF Room, SamePile, Reconnect, Disconnect, ReturnToLobby
<1> QED BY <1>2, NoCardMoves DEF KeepsPile, Seated

LEMMA LobbyCards ==
  ASSUME TypeOK, Cards, NEW p \in User, NEW decks \in Nat, NEW winners \in Nat,
         Seat(p, decks, winners) \/ SetConfig(p, decks, winners)
  PROVE  Cards'
<1>1. room \in Room
  BY DEF TypeOK, WellTyped
<1>2. /\ SamePile(room, room') /\ room'.hands = room.hands
      /\ room'.handCount = room.handCount
      /\ room'.seats \in {room.seats, Append(room.seats, p)}
  BY <1>1 DEF Room, SamePile, Seat, SetConfig
<1>3. Seated(room) \subseteq Seated(room')
  <2>1. room.seats \in Seq(User)
    BY <1>1 DEF Room
  <2>2. Range(room.seats) \subseteq Range(Append(room.seats, p))
    BY <2>1 DEF Range
  <2> QED BY <1>2, <2>2 DEF Seated
<1> QED BY <1>2, <1>3, NoCardMoves DEF KeepsPile

LEMMA SkipCards ==
  ASSUME TypeOK, Cards, NEW p \in User, room' = ApplySkip(room, p)
  PROVE  Cards'
<1>1. KeepsTable(room, ApplySkip(room, p)) /\ KeepsPile(room, ApplySkip(room, p))
  BY ApplySkipKeeps, ApplySkipPile DEF TypeOK
<1> QED BY <1>1, NoCardMoves DEF KeepsTable, SameTable, Seated

LEMMA RestartCards ==
  ASSUME TypeOK, Cards, Restart
  PROVE  Cards'
<1> DEFINE s == IF room.pending # NoOne /\ room.topPlay # NoPlay
                     /\ ~PendingFinishIsTopPlay(room)
                THEN ConfirmPendingFinish(room) ELSE room
           t == [s EXCEPT !.online = {}]
<1>1. WellTyped(room) /\ room' = t
  BY DEF Restart, TypeOK
<1>2. KeepsTable(room, s) /\ SamePile(room, s)
  BY <1>1, ConfirmPendingFinishKeeps, ConfirmPendingFinishPile
     DEF KeepsTable, SameTable, SamePile
<1> HIDE DEF s
<1>3. /\ SamePile(s, t) /\ t.hands = s.hands
      /\ t.handCount = s.handCount /\ t.seats = s.seats
  BY <1>2 DEF KeepsTable, WellTyped, Room, SamePile
<1> HIDE DEF t
<1> QED BY <1>1, <1>2, <1>3, NoCardMoves
        DEF KeepsTable, SameTable, KeepsPile, SamePile, Seated

----------------------------------------------------------------------------
(* Steps that move cards. *)

\* Nobody holds a card and there is no pile.
LEMMA NoCards ==
  ASSUME NEW s, NoPile(s), s.hands = [q \in User |-> {}],
         s.handCount = [q \in User |-> 0]
  PROVE  Custody(s) /\ HandsCounted(s) /\ PileCounted(s)
BY NoPileCounted, FS_EmptySet DEF NoPile, Custody, HandsCounted

LEMMA ResetCards ==
  ASSUME TypeOK, Cards, NEW p \in User, ResetToLobby(p)
  PROVE  Cards'
<1> DEFINE s == ClearRound(SetCurrentTurn(room, NoOne))
<1>1. WellTyped(s) /\ NoPile(s)
  BY SetCurrentTurnKeeps, ClearRoundKeeps, ClearRoundPile
     DEF TypeOK, KeepsTable
<1>2. room' = [s EXCEPT
       !.phase = "lobby", !.locked = FALSE, !.ready = {},
       !.winners = <<>>, !.done = {}, !.pending = NoOne,
       !.hands = [q \in User |-> {}], !.handCount = [q \in User |-> 0],
       !.result = NoResult]
  BY DEF ResetToLobby
<1> HIDE DEF s
<1>3. /\ NoPile(room') /\ room'.hands = [q \in User |-> {}]
      /\ room'.handCount = [q \in User |-> 0]
  BY <1>1, <1>2 DEF WellTyped, Room, NoPile
<1>4. Custody(room') /\ HandsCounted(room') /\ PileCounted(room')
  BY <1>3, NoCards
<1> QED BY <1>4 DEF Cards, Custody, HandsCounted, PileCounted, Seated

LEMMA StartGameCards ==
  ASSUME TypeOK, Cards, NEW p \in User, StartGame(p)
  PROVE  Cards'
<1> DEFINE dealt(owner, opener) ==
             [SetCurrentTurn(ClearRound(room), opener) EXCEPT
               !.phase = "playing", !.locked = TRUE, !.ready = {},
               !.winnerCount = IF room.locked THEN @
                               ELSE ClampWinners(@, Len(room.seats)),
               !.winners = <<>>, !.done = {}, !.pending = NoOne,
               !.hands = [q \in User |-> DealtTo(owner, q)],
               !.handCount = [q \in User |-> Cardinality(DealtTo(owner, q))],
               !.result = NoResult]
<1>0. PICK owner \in Deals(room) :
        \E opener \in Openers(room, owner) : room' = dealt(owner, opener)
  BY DEF StartGame
<1>1. PICK opener : room' = dealt(owner, opener)
  BY <1>0
<1> DEFINE c == ClearRound(room)
           s == SetCurrentTurn(c, opener)
<1>2. WellTyped(c) /\ NoPile(c) /\ c.seats = room.seats
  BY ClearRoundKeeps, ClearRoundPile DEF TypeOK, KeepsTable, SameTable
<1>3. /\ NoPile(room') /\ room'.seats = room.seats
      /\ room'.hands = [q \in User |-> DealtTo(owner, q)]
      /\ room'.handCount = [q \in User |-> Cardinality(DealtTo(owner, q))]
  <2> HIDE DEF c
  <2>1. room'.stack = c.stack /\ room'.stackCount = c.stackCount
        /\ room'.claimedRank = c.claimedRank /\ room'.topPlay = c.topPlay
        /\ room'.seats = c.seats
        /\ room'.hands = [q \in User |-> DealtTo(owner, q)]
        /\ room'.handCount = [q \in User |-> Cardinality(DealtTo(owner, q))]
    BY <1>1, <1>2 DEF WellTyped, Room, SetCurrentTurn, c
  <2> QED BY <1>2, <2>1 DEF NoPile
<1>4. \A q, r \in User : q # r => DealtTo(owner, q) \cap DealtTo(owner, r) = {}
  BY DEF DealtTo
<1>5. \A q \in User \ Seated(room) : DealtTo(owner, q) = {}
  BY IdentityAssumption DEF DealtTo, Deals
<1>6. Custody(room')
  BY <1>3, <1>4, <1>5 DEF Custody, NoPile, Seated
<1>7. HandsCounted(room') /\ PileCounted(room')
  BY <1>3, NoPileCounted DEF HandsCounted
<1> QED BY <1>6, <1>7 DEF Cards, Custody, HandsCounted, PileCounted, Seated

\* Taking a seat away empties the public count; the hand goes afterwards.
LEMMA RemoveSeatCards ==
  ASSUME NEW s, WellTyped(s), NEW p \in Seated(s)
  PROVE  /\ SamePile(s, RemoveSeat(s, p)) /\ RemoveSeat(s, p).hands = s.hands
         /\ RemoveSeat(s, p).handCount = [s.handCount EXCEPT ![p] = 0]
BY DEF WellTyped, Room, SamePile, RemoveSeat

LEMMA ClearPlayerRuntimeCards ==
  ASSUME NEW s, WellTyped(s), NEW p \in User
  PROVE  /\ SamePile(s, ClearPlayerRuntime(s, p))
         /\ ClearPlayerRuntime(s, p).hands = [s.hands EXCEPT ![p] = {}]
         /\ ClearPlayerRuntime(s, p).handCount = s.handCount
BY DEF WellTyped, Room, SamePile, ClearPlayerRuntime

LEMMA TransferHostCards ==
  ASSUME NEW s, WellTyped(s), NEW p
  PROVE  /\ SamePile(s, TransferHost(s, p)) /\ TransferHost(s, p).hands = s.hands
         /\ TransferHost(s, p).handCount = s.handCount
         /\ TransferHost(s, p).seats = s.seats
BY DEF WellTyped, Room, SamePile, TransferHost

\* What a departure does to the cards: the hand of the leaver is gone, and the
\* pile stays or has burnt.
LEMMA LeaveMoves ==
  ASSUME TypeOK, NEW p \in User, LeaveRoom(p)
  PROVE  /\ Seated(room') = Seated(room) \ {p} /\ KeepsPile(room, room')
         /\ room'.hands = [room.hands EXCEPT ![p] = {}]
         /\ room'.handCount = [room.handCount EXCEPT ![p] = 0]
<1> DEFINE passed == IF room.phase = "playing" /\ room.turn = p
                     THEN ApplySkip(room, p) ELSE room
           gone == RemoveSeat(passed, p)
           settled == IF gone.phase = "playing"
                      THEN MaybeEndGame(ReconcileSkipProgression(gone))
                      ELSE gone
           cleared == ClearPlayerRuntime(settled, p)
           t == TransferHost(cleared, p)
<1>1. WellTyped(room) /\ p \in Seated(room) /\ room' = t
  BY DEF TypeOK, LeaveRoom, IsController
<1>2. KeepsTable(room, passed) /\ KeepsPile(room, passed)
  BY <1>1, ApplySkipKeeps, ApplySkipPile
     DEF KeepsTable, SameTable, KeepsPile, SamePile
<1> HIDE DEF passed
<1>3. /\ WellTyped(passed) /\ Seated(passed) = Seated(room)
      /\ passed.hands = room.hands /\ passed.handCount = room.handCount
  BY <1>2 DEF KeepsTable, SameTable, Seated
<1>4. /\ WellTyped(gone) /\ Seated(gone) = Seated(room) \ {p}
      /\ SamePile(passed, gone) /\ gone.hands = room.hands
      /\ gone.handCount = [room.handCount EXCEPT ![p] = 0]
  BY <1>1, <1>3, RemoveSeatRemoves, RemoveSeatCards
<1> HIDE DEF gone
<1>5. KeepsTable(gone, settled) /\ KeepsPile(gone, settled)
  <2> DEFINE after == ReconcileSkipProgression(gone)
  <2>1. KeepsTable(gone, after) /\ KeepsPile(gone, after)
    BY <1>4, ReconcileKeeps, ReconcilePile
  <2> HIDE DEF after
  <2>2. KeepsTable(gone, MaybeEndGame(after))
    BY <2>1, MaybeEndGameKeeps, KeptTwice DEF KeepsTable
  <2>3. KeepsPile(gone, MaybeEndGame(after))
    BY <2>1, MaybeEndGamePile, PileKeptTwice DEF KeepsTable, KeepsPile
  <2> QED BY <1>4, <2>2, <2>3 DEF KeepsTable, SameTable, KeepsPile, SamePile, after
<1>6. /\ WellTyped(settled) /\ Seated(settled) = Seated(room) \ {p}
      /\ KeepsPile(room, settled) /\ settled.hands = room.hands
      /\ settled.handCount = [room.handCount EXCEPT ![p] = 0]
  <2>1. KeepsPile(room, settled)
    BY <1>2, <1>4, <1>5, PileKeptTwice DEF KeepsPile
  <2> QED BY <1>4, <1>5, <2>1 DEF KeepsTable, SameTable, Seated
<1> HIDE DEF settled
<1>7. /\ WellTyped(cleared) /\ Seated(cleared) = Seated(room) \ {p}
      /\ SamePile(settled, cleared)
      /\ cleared.hands = [room.hands EXCEPT ![p] = {}]
      /\ cleared.handCount = [room.handCount EXCEPT ![p] = 0]
  <2>1. WellTyped(cleared) /\ Seated(cleared) = Seated(settled)
    BY <1>6, ClearPlayerRuntimeClears
  <2>2. /\ SamePile(settled, cleared)
        /\ cleared.hands = [settled.hands EXCEPT ![p] = {}]
        /\ cleared.handCount = settled.handCount
    BY <1>6, ClearPlayerRuntimeCards
  <2> QED BY <1>6, <2>1, <2>2
<1> HIDE DEF cleared
<1>8. /\ Seated(t) = Seated(room) \ {p} /\ KeepsPile(room, t)
      /\ t.hands = [room.hands EXCEPT ![p] = {}]
      /\ t.handCount = [room.handCount EXCEPT ![p] = 0]
  BY <1>6, <1>7, TransferHostCards DEF Seated, KeepsPile, SamePile, NoPile
<1> QED BY <1>1, <1>8 DEF KeepsPile, SamePile, NoPile, Seated

LEMMA LeaveRoomCards ==
  ASSUME TypeOK, Cards, NEW p \in User, LeaveRoom(p)
  PROVE  Cards'
<1>1. /\ Seated(room') = Seated(room) \ {p} /\ KeepsPile(room, room')
      /\ room'.hands = [room.hands EXCEPT ![p] = {}]
      /\ room'.handCount = [room.handCount EXCEPT ![p] = 0]
  BY LeaveMoves
<1>2. HandsCounted(room') /\ PileCounted(room')
  <2>1. room.hands \in [User -> SUBSET Card] /\ room.handCount \in [User -> Nat]
    BY DEF TypeOK, WellTyped, Room
  <2>2. PileCounted(room')
    BY <1>1, PileStaysCounted DEF Cards
  <2> QED BY <1>1, <2>1, <2>2, FS_EmptySet DEF Cards, HandsCounted
<1>3. Custody(room')
  <2>1. room.hands \in [User -> SUBSET Card]
    BY DEF TypeOK, WellTyped, Room
  <2>2. \A q \in User : room'.hands[q] \subseteq room.hands[q]
    BY <1>1, <2>1
  <2>3. room'.hands[p] = {}
    BY <1>1, <2>1
  <2>4. \A q, r \in User : q # r => room'.hands[q] \cap room'.hands[r] = {}
    BY <2>2 DEF Cards, Custody
  <2>5. \A q \in User \ Seated(room') : room'.hands[q] = {}
    BY <1>1, <2>2, <2>3 DEF Cards, Custody
  <2>6. /\ \A q \in User : room'.hands[q] \cap room'.stack = {}
        /\ room'.topPlay # NoPlay => room'.topPlay.cards \subseteq room'.stack
    BY <1>1, <2>2 DEF Cards, Custody, KeepsPile, SamePile, NoPile
  <2> QED BY <2>4, <2>5, <2>6 DEF Custody
<1> QED BY <1>2, <1>3 DEF Cards, Custody, HandsCounted, PileCounted, Seated

\* Cards go from a hand onto the stack and become the top play.
LEMMA PlaceCardsCards ==
  ASSUME TypeOK, Cards, NEW p \in Seated(room),
         NEW cards \in SUBSET room.hands[p], cards # {},
         NEW claims \in PlayableClaims(room, Cardinality(cards))
  PROVE  /\ Custody(PlaceCards(room, p, cards, claims))
         /\ HandsCounted(PlaceCards(room, p, cards, claims))
         /\ PileCounted(PlaceCards(room, p, cards, claims))
<1> DEFINE hand == room.hands[p] \ cards
           play == [player |-> p, cards |-> cards, claims |-> claims]
           t == PlaceCards(room, p, cards, claims)
<1>1. /\ room \in Room /\ p \in User /\ cards \in SUBSET Card
      /\ room.stack \in SUBSET Card /\ room.hands \in [User -> SUBSET Card]
      /\ room.handCount \in [User -> Nat]
  BY DEF TypeOK, WellTyped, Room, Seated, Range
<1>2. /\ t.hands = [room.hands EXCEPT ![p] = hand]
      /\ t.handCount = [room.handCount EXCEPT ![p] = Cardinality(hand)]
      /\ t.stack = room.stack \cup cards
      /\ t.stackCount = room.stackCount + Cardinality(cards)
      /\ t.claimedRank = FinalRank(claims)
      /\ t.topPlay = play /\ t.seats = room.seats
  BY <1>1 DEF Room, PlaceCards
<1>3. play \in TopPlay /\ FinalRank(claims) \in Rank
  BY <1>1, PlayableClaimsAreGroups DEF TopPlay, TypeOK
<1> HIDE DEF t, play
<1>4. Custody(t)
  <2>1. \A q \in User : t.hands[q] \subseteq room.hands[q]
    BY <1>1, <1>2
  <2>2. t.hands[p] \cap cards = {}
    BY <1>1, <1>2
  <2>3. \A q \in User : t.hands[q] \cap t.stack = {}
    <3>1. \A q \in User \ {p} : room.hands[q] \cap cards = {}
      BY <1>1 DEF Cards, Custody
    <3> QED BY <1>2, <2>1, <2>2, <3>1 DEF Cards, Custody
  <2>4. \A q, r \in User : q # r => t.hands[q] \cap t.hands[r] = {}
    BY <2>1 DEF Cards, Custody
  <2>5. \A q \in User \ Seated(t) : t.hands[q] = {}
    BY <1>2, <2>1 DEF Cards, Custody, Seated
  <2>6. t.topPlay.cards \subseteq t.stack
    BY <1>2 DEF play
  <2> QED BY <2>3, <2>4, <2>5, <2>6 DEF Custody
<1>5. HandsCounted(t)
  BY <1>1, <1>2 DEF Cards, HandsCounted
<1>6. PileCounted(t)
  <2>1. /\ IsFiniteSet(cards) /\ IsFiniteSet(room.stack)
        /\ Cardinality(cards) \in Nat \ {0} /\ Cardinality(room.stack) \in Nat
    <3>1. IsFiniteSet(cards) /\ Cardinality(cards) \in Nat
      BY <1>1, CardsAreFinite
    <3>2. IsFiniteSet(room.stack) /\ Cardinality(room.stack) \in Nat
      BY <1>1, CardsAreFinite
    <3>3. Cardinality(cards) # 0
      BY <3>1, FS_EmptySet
    <3> QED BY <3>1, <3>2, <3>3
  <2>2. room.stack \cap cards = {}
    BY <1>1 DEF Cards, Custody
  <2>4. Cardinality(room.stack \cup cards) =
          Cardinality(room.stack) + Cardinality(cards)
    <3>1. Cardinality(room.stack \cup cards) =
            Cardinality(room.stack) + Cardinality(cards)
              - Cardinality(room.stack \cap cards)
      BY <2>1, FS_Union
    <3>2. Cardinality(room.stack \cap cards) = 0
      BY <2>2, FS_EmptySet
    <3> QED BY <2>1, <3>1, <3>2
  <2>5. t.stackCount = Cardinality(t.stack)
    BY <1>2, <2>4 DEF Cards, PileCounted
  <2>6. t.stackCount # 0
    BY <1>2, <2>1 DEF Cards, PileCounted
  <2>7. t.topPlay # NoPlay /\ t.claimedRank # NoRank
    BY <1>2, <1>3, AbsenceAssumption
  <2> QED BY <2>5, <2>6, <2>7 DEF PileCounted
<1> QED BY <1>4, <1>5, <1>6 DEF t

LEMMA SettleFinishesPile ==
  ASSUME NEW s, WellTyped(s), NEW p, NEW covers
  PROVE  SamePile(s, SettleFinishes(s, p, covers))
<1> DEFINE t == IF covers THEN ConfirmPendingFinish(s) ELSE s
<1>1. WellTyped(t) /\ SamePile(s, t)
  BY ConfirmPendingFinishKeeps, ConfirmPendingFinishPile DEF KeepsTable, SamePile
<1> HIDE DEF t
<1>2. SamePile(t, [t EXCEPT !.pending = p])
  BY <1>1 DEF WellTyped, Room, SamePile
<1> QED BY <1>1, <1>2 DEF SettleFinishes, SamePile, t

\* What the rest of a handler keeps of the cards once they have moved.
LEMMA CardsSettle ==
  ASSUME NEW s, NEW t, Custody(s), HandsCounted(s), PileCounted(s),
         KeepsTable(s, t), SamePile(s, t), room' = t
  PROVE  Cards'
<1>1. Custody(t) /\ HandsCounted(t) /\ PileCounted(t)
  BY DEF KeepsTable, SameTable, SamePile, Custody, HandsCounted, PileCounted, Seated
<1> QED BY <1>1 DEF Cards, Custody, HandsCounted, PileCounted, Seated

LEMMA PlayCardsCards ==
  ASSUME TypeOK, Cards, NEW p \in User, NEW cards \in SUBSET room.hands[p],
         NEW claims \in PlayableClaims(room, Cardinality(cards)),
         PlayCards(p, cards, claims)
  PROVE  Cards'
<1> DEFINE placed == PlaceCards(room, p, cards, claims)
           settled == SettleFinishes(placed, p, PendingFinishIsTopPlay(room))
           t == IF settled.phase = "playing"
                THEN SetCurrentTurn(settled, GetNextPlayerID(settled, p))
                ELSE settled
<1>1. /\ WellTyped(room) /\ cards # {} /\ room' = t
      /\ p \in Seated(room)
  BY DEF TypeOK, PlayCards, OnTurn, CanAct, IsController
<1>2. /\ WellTyped(placed) /\ Custody(placed) /\ HandsCounted(placed)
      /\ PileCounted(placed)
  BY <1>1, PlaceCardsTyped, PlaceCardsCards
<1> HIDE DEF placed
<1>3. KeepsTable(placed, settled) /\ SamePile(placed, settled)
  BY <1>2, SettleFinishesKeeps, SettleFinishesPile
<1> HIDE DEF settled
<1>4. KeepsTable(settled, t) /\ SamePile(settled, t)
  <2> DEFINE moved == SetCurrentTurn(settled, GetNextPlayerID(settled, p))
  <2>1. KeepsTable(settled, moved) /\ SamePile(settled, moved)
    BY <1>3, NextPlayerIsUser, SetCurrentTurnKeeps, SetCurrentTurnPile
       DEF KeepsTable
  <2> HIDE DEF moved
  <2>2. KeepsTable(settled, settled) /\ SamePile(settled, settled)
    BY <1>3 DEF KeepsTable, SameTable, SamePile
  <2> QED BY <2>1, <2>2 DEF moved
<1> HIDE DEF t
<1>5. KeepsTable(placed, t) /\ SamePile(placed, t)
  BY <1>3, <1>4, KeptTwice DEF KeepsTable, SamePile
<1> QED BY <1>1, <1>2, <1>5, CardsSettle

\* The whole stack goes into one hand and the round is over.
LEMMA PickUpStackCards ==
  ASSUME TypeOK, Cards, NEW p \in Seated(room)
  PROVE  /\ Custody(PickUpStack(room, p)) /\ HandsCounted(PickUpStack(room, p))
         /\ PileCounted(PickUpStack(room, p))
<1> DEFINE hand == room.hands[p] \cup room.stack
           taken == [room EXCEPT !.hands[p] = hand,
                                 !.handCount[p] = Cardinality(hand)]
           t == PickUpStack(room, p)
<1>1. /\ room \in Room /\ p \in User /\ room.hands \in [User -> SUBSET Card]
      /\ room.handCount \in [User -> Nat]
  BY DEF TypeOK, WellTyped, Room, Seated, Range
<1>2. /\ t.hands = [room.hands EXCEPT ![p] = hand]
      /\ t.handCount = [room.handCount EXCEPT ![p] = Cardinality(hand)]
      /\ t.seats = room.seats /\ NoPile(t)
  BY <1>1 DEF Room, PickUpStack, ClearRound, NoPile
<1> HIDE DEF t
<1>3. Custody(t)
  <2>1. \A q \in User \ {p} : t.hands[q] = room.hands[q]
    BY <1>1, <1>2
  <2>2. t.hands[p] = room.hands[p] \cup room.stack
    BY <1>1, <1>2
  <2>3. \A q \in User \ {p} : room.hands[q] \cap t.hands[p] = {}
    BY <1>1, <2>2 DEF Cards, Custody
  <2>4. \A q, r \in User : q # r => t.hands[q] \cap t.hands[r] = {}
    BY <2>1, <2>3 DEF Cards, Custody
  <2>5. \A q \in User \ Seated(t) : t.hands[q] = {}
    BY <1>2, <2>1 DEF Cards, Custody, Seated
  <2> QED BY <1>2, <2>4, <2>5 DEF Custody, NoPile
<1>4. HandsCounted(t)
  BY <1>1, <1>2 DEF Cards, HandsCounted
<1> QED BY <1>2, <1>3, <1>4, NoPileCounted DEF t

LEMMA ChallengeCards ==
  ASSUME TypeOK, Cards, NEW p \in User, Challenge(p)
  PROVE  Cards'
<1> DEFINE maker == room.topPlay.player
           wasBluff == IsClaimBluff(room.topPlay.cards, room.topPlay.claims)
           loser == IF wasBluff THEN maker ELSE p
           taken == PickUpStack(room, loser)
           judged == IF room.pending = maker THEN JudgeFinish(taken, wasBluff)
                     ELSE taken
           starter == IF wasBluff THEN p
                      ELSE IF maker \in ActivePlayers(judged) THEN maker
                      ELSE GetNextPlayerID(judged, maker)
           moved == IF judged.phase = "playing"
                    THEN SetCurrentTurn(judged, starter) ELSE judged
           t == MaybeEndGame(moved)
<1>1. WellTyped(room) /\ room' = t
  BY DEF TypeOK, Challenge
<1>2. maker \in User /\ loser \in Seated(room)
  <2>1. maker \in User
    BY <1>1 DEF Challenge, WellTyped, Room, TopPlay
  <2>2. p \in Seated(room) /\ maker \in Seated(room)
    BY DEF Challenge, OnTurn, CanAct, IsController, ActivePlayers, Rotation
  <2> QED BY <2>1, <2>2
<1> HIDE DEF maker, wasBluff
<1>3. /\ WellTyped(taken) /\ Custody(taken) /\ HandsCounted(taken)
      /\ PileCounted(taken)
  <2>1. loser \in User
    BY <1>2
  <2> HIDE DEF loser
  <2> QED BY <1>1, <1>2, <2>1, PickUpStackTyped, PickUpStackCards
<1> HIDE DEF taken
<1>4. KeepsTable(taken, judged) /\ SamePile(taken, judged)
  <2>1. NoOne \in User \cup {NoOne}
    OBVIOUS
  <2> DEFINE void == [taken EXCEPT !.pending = NoOne]
  <2>2. KeepsTable(taken, void) /\ SamePile(taken, void)
    BY <1>3, <2>1, PendingKeeps DEF WellTyped, Room, SamePile
  <2> HIDE DEF void
  <2>3. /\ KeepsTable(taken, ConfirmPendingFinish(taken))
        /\ SamePile(taken, ConfirmPendingFinish(taken))
    BY <1>3, ConfirmPendingFinishKeeps, ConfirmPendingFinishPile
  <2>4. KeepsTable(taken, taken) /\ SamePile(taken, taken)
    BY <1>3 DEF KeepsTable, SameTable, SamePile
  <2> QED BY <2>2, <2>3, <2>4 DEF JudgeFinish, void
<1> HIDE DEF judged
<1>5. starter \in User \cup {NoOne}
  BY <1>2, <1>4, NextPlayerIsUser DEF KeepsTable
<1> HIDE DEF starter
<1>6. KeepsTable(judged, moved) /\ SamePile(judged, moved)
  BY <1>4, <1>5, SetCurrentTurnKeeps, SetCurrentTurnPile
     DEF KeepsTable, SameTable, SamePile
<1> HIDE DEF moved
<1>7. KeepsTable(moved, t) /\ SamePile(moved, t)
  BY <1>6, MaybeEndGameKeeps, MaybeEndGamePile DEF KeepsTable
<1> HIDE DEF t
<1>8. KeepsTable(taken, t) /\ SamePile(taken, t)
  <2>1. KeepsTable(judged, t)
    BY <1>6, <1>7, KeptTwice DEF KeepsTable
  <2>2. KeepsTable(taken, t)
    BY <1>4, <2>1, KeptTwice DEF KeepsTable
  <2> QED BY <1>4, <1>6, <1>7, <2>2 DEF SamePile
<1> QED BY <1>1, <1>3, <1>8, CardsSettle

----------------------------------------------------------------------------

LEMMA StepCards == TypeOK /\ Cards /\ [Next]_room => Cards'
<1> SUFFICES ASSUME TypeOK, Cards, [Next]_room PROVE Cards'
  OBVIOUS
<1>1. ASSUME NEW p \in User, Reconnect(p) \/ Disconnect(p) \/ ReturnToLobby(p)
      PROVE Cards'
  BY <1>1, PresenceCards
<1>2. ASSUME NEW p \in User, LeaveRoom(p) PROVE Cards'
  BY <1>2, LeaveRoomCards
<1>3. ASSUME NEW p \in User, ResetToLobby(p) PROVE Cards'
  BY <1>3, ResetCards
<1>4. ASSUME NEW p \in User, StartGame(p) PROVE Cards'
  BY <1>4, StartGameCards
<1>5. ASSUME NEW p \in User, Challenge(p) PROVE Cards'
  BY <1>5, ChallengeCards
<1>6. ASSUME NEW p \in User, Skip(p) PROVE Cards'
  BY <1>6, SkipCards DEF Skip
<1>7. ASSUME NEW p \in User, NEW decks \in ConfigDecks,
             NEW winners \in ConfigWinners,
             Seat(p, decks, winners) \/ SetConfig(p, decks, winners)
      PROVE  Cards'
  <2>1. decks \in Nat /\ winners \in Nat
    BY ConfigAssumption
  <2> QED BY <1>7, <2>1, LobbyCards
<1>8. ASSUME NEW p \in User, NEW cards \in SUBSET room.hands[p],
             NEW claims \in PlayableClaims(room, Cardinality(cards)),
             PlayCards(p, cards, claims)
      PROVE  Cards'
  BY <1>8, PlayCardsCards
<1>9. ASSUME Restart PROVE Cards'
  BY <1>9, RestartCards
<1>10. ASSUME TurnTimerExpired PROVE Cards'
  <2>1. room.turn \in User /\ room' = ApplySkip(room, room.turn)
    BY <1>10 DEF TurnTimerExpired, TypeOK, WellTyped, Room
  <2> QED BY <2>1, SkipCards
<1>11. CASE UNCHANGED room
  BY <1>11 DEF Cards, Custody, HandsCounted, PileCounted, Seated
<1> QED BY <1>1, <1>2, <1>3, <1>4, <1>5, <1>6, <1>7, <1>8, <1>9, <1>10,
           <1>11 DEF Next

LEMMA CardsAreKept == Spec => [](TypeOK /\ Cards)
<1>1. Init => TypeOK /\ Cards
  BY InitTypeOK, InitCards
<1>2. TypeOK /\ Cards /\ [Next]_room => (TypeOK /\ Cards)'
  BY StepTypeOK, StepCards
<1> QED BY <1>1, <1>2, PTL DEF Spec

\* No card is ever in two places, whatever the seats, decks, groups and plays:
\* no deal, play, challenge, burn, leave, reset or restart copies a card, lets
\* the top play name a card outside the stack, or leaves cards with a user who
\* has no seat.
THEOREM CardsInCustody == Spec => []CardCustody
<1>1. Cards => CardCustody
  BY DEF Cards, Custody, CardCustody
<1> QED BY <1>1, CardsAreKept, PTL

\* The counts every client sees are always those of the private cards, and a
\* stack has a top play and a rank to follow exactly while it holds cards.
THEOREM CountsAreRight == Spec => []CountsAgree
<1>1. Cards => CountsAgree
  BY DEF Cards, HandsCounted, PileCounted, CountsAgree
<1> QED BY <1>1, CardsAreKept, PTL
=============================================================================
