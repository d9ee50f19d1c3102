---------------------------- MODULE TurnProofs ----------------------------
(***************************************************************************)
(* Theorems about the turn of Match for every value of its constants: in   *)
(* every reachable state of a match somebody who can act is on turn, a     *)
(* skip passes the turn on, finishes are accounted for, and the winners    *)
(* agree with the seats, the target and the recorded result.               *)
(*                                                                         *)
(* None of the four is inductive alone, nor are the four together: the     *)
(* invariant Sound also says that the skips counted so far lead, by the    *)
(* rotation, only to one another and to the player on turn.                *)
(***************************************************************************)
EXTENDS MatchProofs

----------------------------------------------------------------------------
(* The rotation of Rules, for every table: who is next, that going round from
   anybody reaches everybody, and what the departure of a player changes.
   Seats are compared by their distance around the table; NextSeatIndex is the
   one place where GetNextPlayerID is unfolded. *)

\* A table: nobody has two seats.
Table(t) == t.seats \in Seq(User) /\ IsInjectiveSeq(t.seats)

\* How many seats j is ahead of i, going round; a full round for i itself.
Ahead(n, i, j) == IF j > i THEN j - i ELSE j - i + n

InTurn(t) == {j \in 1..Len(t.seats) : IsInRotation(t, t.seats[j])}

\* Seat j is the nearest in rotation after seat i.
IsNearest(t, i, j) ==
  /\ j \in InTurn(t)
  /\ \A k \in InTurn(t) : Ahead(Len(t.seats), i, j) <= Ahead(Len(t.seats), i, k)

FromSeat(t, p) == IF p \in Seated(t) THEN SeatOf(t, p) ELSE 1

LEMMA Wrapped ==
  ASSUME NEW n \in Nat, n > 0, NEW i \in 1..n, NEW k \in 1..n
  PROVE  ((i - 1 + k) % n) + 1 = IF i + k <= n THEN i + k ELSE i + k - n
<1>1. ASSUME NEW x \in 0..(n - 1) PROVE x % n = x
  BY <1>1, SMT
<1>2. ASSUME NEW x \in 0..(n - 1) PROVE (n + x) % n = x
  BY <1>2, SMT
<1>3. CASE i + k <= n
  <2>1. i - 1 + k \in 0..(n - 1)
    BY <1>3
  <2> QED BY <1>1, <1>3, <2>1
<1>4. CASE i + k > n
  <2> DEFINE x == i - 1 + k - n
  <2>1. x \in 0..(n - 1) /\ i - 1 + k = n + x /\ x + 1 = i + k - n
    BY <1>4
  <2>2. (n + x) % n = x
    <3> HIDE DEF x
    <3> QED BY <1>2, <2>1
  <2> QED BY <1>4, <2>1, <2>2
<1> QED BY <1>3, <1>4

LEMMA SeatIndex ==
  ASSUME NEW t, Table(t), NEW p \in Seated(t)
  PROVE  /\ SeatOf(t, p) \in 1..Len(t.seats)
         /\ t.seats[SeatOf(t, p)] = p
         /\ \A i \in 1..Len(t.seats) : t.seats[i] = p => i = SeatOf(t, p)
<1>1. SeatOf(t, p) \in DOMAIN t.seats /\ t.seats[SeatOf(t, p)] = p
  BY DEF SeatOf, Seated, Range
<1>2. DOMAIN t.seats = 1..Len(t.seats)
  BY DEF Table
<1> QED BY <1>1, <1>2 DEF Table, IsInjectiveSeq

LEMMA RotationByIndex ==
  ASSUME NEW t, Table(t)
  PROVE  /\ \A j \in InTurn(t) : t.seats[j] \in Rotation(t)
         /\ \A p \in Rotation(t) : SeatOf(t, p) \in InTurn(t)
<1>1. DOMAIN t.seats = 1..Len(t.seats)
  BY DEF Table
<1>2. ASSUME NEW j \in InTurn(t) PROVE t.seats[j] \in Rotation(t)
  BY <1>1 DEF InTurn, Rotation, Seated, Range
<1>3. ASSUME NEW p \in Rotation(t) PROVE SeatOf(t, p) \in InTurn(t)
  <2>1. p \in Seated(t) /\ IsInRotation(t, p)
    BY DEF Rotation
  <2> QED BY <2>1, SeatIndex DEF InTurn
<1> QED BY <1>2, <1>3

\* The player after p sits on the nearest seat in rotation.
LEMMA NextSeatIndex ==
  ASSUME NEW t, Table(t), NEW p, InTurn(t) # {}
  PROVE  \E j \in InTurn(t) : /\ IsNearest(t, FromSeat(t, p), j)
                              /\ GetNextPlayerID(t, p) = t.seats[j]
<1> DEFINE n == Len(t.seats)
           i == FromSeat(t, p)
           steps == {k \in 1..n : IsInRotation(t, SeatAfter(t, i, k))}
           at(k) == IF i + k <= n THEN i + k ELSE i + k - n
<1>1. n \in Nat /\ n > 0
  BY DEF InTurn, Table
<1>2. i \in 1..n
  BY <1>1, SeatIndex DEF FromSeat
<1> HIDE DEF i, n
<1>3. ASSUME NEW k \in 1..n
      PROVE  SeatAfter(t, i, k) = t.seats[at(k)] /\ at(k) \in 1..n
  <2>1. at(k) = ((i - 1 + k) % n) + 1
    BY <1>1, <1>2, Wrapped
  <2>2. at(k) \in 1..n
    BY <1>1, <1>2
  <2> QED BY <2>1, <2>2 DEF SeatAfter, n
<1>4. ASSUME NEW j \in 1..n
      PROVE  Ahead(n, i, j) \in 1..n /\ at(Ahead(n, i, j)) = j
  BY <1>1, <1>2 DEF Ahead
<1>5. ASSUME NEW k \in 1..n PROVE Ahead(n, i, at(k)) = k
  BY <1>1, <1>2 DEF Ahead
<1> HIDE DEF at
<1>6. \A j \in InTurn(t) : Ahead(n, i, j) \in steps
  <2> SUFFICES ASSUME NEW j \in InTurn(t) PROVE Ahead(n, i, j) \in steps
    OBVIOUS
  <2>1. j \in 1..n /\ IsInRotation(t, t.seats[j])
    BY DEF InTurn, n
  <2>2. Ahead(n, i, j) \in 1..n /\ at(Ahead(n, i, j)) = j
    BY <1>4, <2>1
  <2>3. SeatAfter(t, i, Ahead(n, i, j)) = t.seats[j]
    BY <1>3, <2>2
  <2> QED BY <2>1, <2>2, <2>3
<1>7. steps # {} /\ steps \in SUBSET Nat
  BY <1>1, <1>6
<1>8. Min(steps) \in steps /\ \A k \in steps : Min(steps) <= k
  BY <1>7, MinIsMember
<1>9. GetNextPlayerID(t, p) = SeatAfter(t, i, Min(steps))
  BY <1>7 DEF GetNextPlayerID, i, n, FromSeat
<1> DEFINE m == Min(steps)
<1>10. m \in 1..n /\ IsInRotation(t, SeatAfter(t, i, m))
       /\ \A j \in InTurn(t) : m <= Ahead(n, i, j)
  BY <1>6, <1>8
<1>11. GetNextPlayerID(t, p) = SeatAfter(t, i, m)
  BY <1>9
<1> HIDE DEF m, steps
<1>12. /\ SeatAfter(t, i, m) = t.seats[at(m)] /\ at(m) \in 1..n
       /\ Ahead(n, i, at(m)) = m
  BY <1>3, <1>5, <1>10
<1>13. at(m) \in InTurn(t)
  BY <1>10, <1>12 DEF InTurn, n
<1>14. IsNearest(t, i, at(m))
  BY <1>10, <1>12, <1>13 DEF IsNearest, n
<1> QED BY <1>11, <1>12, <1>13, <1>14 DEF i

\* While somebody is in rotation, so is the next player.
LEMMA NextIsInRotation ==
  ASSUME NEW t, Table(t), NEW p, Rotation(t) # {}
  PROVE  GetNextPlayerID(t, p) \in Rotation(t)
<1>1. InTurn(t) # {}
  BY RotationByIndex
<1> QED BY <1>1, NextSeatIndex, RotationByIndex

\* The next player is another one as soon as there is another one.
LEMMA NextIsAnother ==
  ASSUME NEW t, Table(t), NEW p, NEW q \in Rotation(t), q # p
  PROVE  GetNextPlayerID(t, p) # p
<1>1. SeatOf(t, q) \in InTurn(t)
  BY RotationByIndex
<1>2. PICK j \in InTurn(t) : /\ IsNearest(t, FromSeat(t, p), j)
                             /\ GetNextPlayerID(t, p) = t.seats[j]
  BY <1>1, NextSeatIndex
<1>3. CASE p \notin Seated(t)
  BY <1>2, <1>3, RotationByIndex DEF Rotation
<1>4. CASE p \in Seated(t)
  <2> DEFINE i == SeatOf(t, p)
             k == SeatOf(t, q)
             n == Len(t.seats)
  <2>1. /\ i \in 1..n /\ t.seats[i] = p
        /\ k \in 1..n /\ t.seats[k] = q /\ n \in Nat /\ j \in 1..n
    BY <1>4, SeatIndex DEF Rotation, Table, InTurn
  <2>2. Ahead(n, i, j) <= Ahead(n, i, k)
    BY <1>1, <1>2, <1>4 DEF IsNearest, FromSeat
  <2>3. k # i
    BY <2>1
  <2> HIDE DEF i, k, n
  <2>4. j # i
    BY <2>1, <2>2, <2>3 DEF Ahead
  <2>5. \A x, y \in 1..n : t.seats[x] = t.seats[y] => x = y
    BY DEF n, Table, IsInjectiveSeq
  <2> QED BY <1>2, <2>1, <2>4, <2>5
<1> QED BY <1>3, <1>4

\* Of a nonempty set of numbers, one with the least value of a measure.
LEMMA LeastMember ==
  ASSUME NEW K, K # {}, NEW f, \A k \in K : f[k] \in Nat
  PROVE  \E k \in K : \A l \in K : f[k] <= f[l]
<1> DEFINE V == {f[k] : k \in K}
<1>1. V \in SUBSET Nat /\ V # {}
  OBVIOUS
<1>2. Min(V) \in V /\ \A v \in V : Min(V) <= v
  BY <1>1, MinIsMember
<1> QED BY <1>2

\* Going round: who is in rotation and is reached from nobody of a set that
\* leads only to itself does not exist.
LEMMA GoingRound ==
  ASSUME NEW t, Table(t), NEW K \in SUBSET Rotation(t), K # {},
         \A q \in K : GetNextPlayerID(t, q) \in K
  PROVE  Rotation(t) \subseteq K
<1> SUFFICES ASSUME NEW r \in Rotation(t), r \notin K PROVE FALSE
  OBVIOUS
<1> DEFINE n == Len(t.seats)
           at(q) == SeatOf(t, q)
           f == [q \in K |-> Ahead(n, at(q), at(r))]
<1>1. /\ n \in Nat /\ Rotation(t) \subseteq Seated(t)
      /\ \A q \in Rotation(t) : /\ at(q) \in 1..n /\ t.seats[at(q)] = q
                                /\ at(q) \in InTurn(t)
  BY SeatIndex, RotationByIndex DEF Rotation, Table
<1> HIDE DEF at, n
<1>2. \A q \in K : f[q] \in Nat
  BY <1>1 DEF Ahead
<1>3. PICK k \in K : \A l \in K : f[k] <= f[l]
  BY <1>2, LeastMember
<1>4. InTurn(t) # {}
  BY <1>1
<1>5. PICK j \in InTurn(t) : /\ IsNearest(t, FromSeat(t, k), j)
                             /\ GetNextPlayerID(t, k) = t.seats[j]
  BY <1>4, NextSeatIndex
<1> DEFINE l == GetNextPlayerID(t, k)
<1>6. FromSeat(t, k) = at(k)
  BY <1>1 DEF FromSeat, at
<1>7. l \in K /\ at(l) = j
  <2>1. l \in K
    OBVIOUS
  <2>2. j \in 1..n /\ at(l) \in 1..n /\ t.seats[at(l)] = l
    BY <1>1, <2>1 DEF InTurn, n
  <2>3. \A x, y \in 1..n : t.seats[x] = t.seats[y] => x = y
    BY DEF n, Table, IsInjectiveSeq
  <2> QED BY <1>5, <2>1, <2>2, <2>3
<1> HIDE DEF l
<1>8. Ahead(n, at(k), at(l)) <= Ahead(n, at(k), at(r))
  BY <1>1, <1>5, <1>6, <1>7 DEF IsNearest, n
<1>9. at(l) # at(r)
  BY <1>1, <1>7
<1>10. Ahead(n, at(k), at(r)) <= Ahead(n, at(l), at(r))
  BY <1>3, <1>7
<1>11. at(k) \in 1..n /\ at(l) \in 1..n /\ at(r) \in 1..n
  BY <1>1, <1>7
<1> QED BY <1>1, <1>8, <1>9, <1>10, <1>11 DEF Ahead
----------------------------------------------------------------------------
(* Tables that differ. *)

\* What the rotation depends on.
SameRotation(t, u) ==
  /\ u.seats = t.seats /\ u.done = t.done
  /\ u.pending = t.pending /\ u.handCount = t.handCount

LEMMA RotationIsSame ==
  ASSUME NEW t, NEW u, SameRotation(t, u)
  PROVE  /\ Seated(u) = Seated(t) /\ ActivePlayers(u) = ActivePlayers(t)
         /\ Rotation(u) = Rotation(t)
         /\ \A p : GetNextPlayerID(u, p) = GetNextPlayerID(t, p)
<1>1. Seated(u) = Seated(t) /\ \A p : SeatOf(u, p) = SeatOf(t, p)
  BY DEF SameRotation, Seated, SeatOf
<1>2. \A p : IsInRotation(u, p) = IsInRotation(t, p)
  BY DEF SameRotation, IsInRotation, IsPendingEmpty
<1>3. \A i, k : SeatAfter(u, i, k) = SeatAfter(t, i, k)
  BY DEF SameRotation, SeatAfter
<1>4. \A p : GetNextPlayerID(u, p) = GetNextPlayerID(t, p)
  BY <1>1, <1>2, <1>3 DEF SameRotation, GetNextPlayerID
<1> QED BY <1>1, <1>2, <1>4 DEF SameRotation, ActivePlayers, Rotation

\* Table u is t after player p has got up, with everything else as it was.
GotUp(t, u, p) ==
  /\ p \in Seated(t)
  /\ u.seats = RemoveAt(t.seats, SeatOf(t, p))
  /\ \A q \in User \ {p} : IsInRotation(u, q) <=> IsInRotation(t, q)

LEMMA GotUpTable ==
  ASSUME NEW t, Table(t), NEW p, NEW u, GotUp(t, u, p)
  PROVE  /\ Table(u) /\ Seated(u) = Seated(t) \ {p}
         /\ Rotation(u) = Rotation(t) \ {p}
<1>1. /\ t.seats \in Seq(User) /\ IsInjectiveSeq(t.seats)
      /\ SeatOf(t, p) \in DOMAIN t.seats /\ t.seats[SeatOf(t, p)] = p
  BY SeatIndex DEF Table, GotUp
<1>2. Table(u) /\ Seated(u) = Seated(t) \ {p}
  BY <1>1, RemovedSeat DEF Table, GotUp, Seated
<1>3. Seated(t) \subseteq User
  BY <1>1 DEF Seated, Range
<1> QED BY <1>2, <1>3 DEF GotUp, Rotation

\* The next player without p: as before, or the one after p if that was p.
LEMMA NextWithout ==
  ASSUME NEW t, Table(t), NEW p, NEW u, GotUp(t, u, p),
         NEW q \in Rotation(t), q # p
  PROVE  GetNextPlayerID(u, q) = IF GetNextPlayerID(t, q) = p
                                 THEN GetNextPlayerID(t, p)
                                 ELSE GetNextPlayerID(t, q)
<1> DEFINE n == Len(t.seats)
           i == SeatOf(t, p)
           a == SeatOf(t, q)
           old(x) == IF x < i THEN x ELSE x + 1
           b == SeatOf(u, q)
<1>1. /\ Table(u) /\ q \in Rotation(u) /\ p \in Seated(t) /\ q \in Seated(t)
      /\ q \in Seated(u)
  BY GotUpTable DEF GotUp, Rotation
<1>2. /\ n \in Nat /\ i \in 1..n /\ t.seats[i] = p
      /\ a \in 1..n /\ t.seats[a] = q /\ a # i
      /\ \A x, y \in 1..n : t.seats[x] = t.seats[y] => x = y
  BY <1>1, SeatIndex DEF Table, IsInjectiveSeq
<1>3. /\ Len(u.seats) = n - 1
      /\ \A x \in 1..(n - 1) : u.seats[x] = t.seats[old(x)]
  <2>1. t.seats \in Seq(User) /\ i \in 1..Len(t.seats)
    BY <1>2 DEF Table
  <2>2. /\ Len(RemoveAt(t.seats, i)) = Len(t.seats) - 1
        /\ \A k \in 1..(Len(t.seats) - 1) :
              RemoveAt(t.seats, i)[k] =
                IF k < i THEN t.seats[k] ELSE t.seats[k + 1]
    BY <2>1, SeqWithout
  <2> QED BY <2>2 DEF GotUp
<1>4. b \in 1..(n - 1) /\ u.seats[b] = q
  BY <1>1, <1>3, SeatIndex
<1> HIDE DEF n, i, a, b
<1>5. \A x \in 1..(n - 1) : old(x) \in 1..n /\ old(x) # i
  BY <1>2
<1>6. old(b) = a
  <2>1. t.seats[old(b)] = t.seats[a] /\ old(b) \in 1..n
    BY <1>2, <1>3, <1>4, <1>5
  <2> HIDE DEF old
  <2> QED BY <1>2, <2>1
<1>7. \A x \in 1..n : x # i => \E y \in 1..(n - 1) : old(y) = x
  <2> SUFFICES ASSUME NEW x \in 1..n, x # i
               PROVE  \E y \in 1..(n - 1) : old(y) = x
    OBVIOUS
  <2>1. CASE x < i
    BY <1>2, <2>1
  <2>2. CASE x > i
    <3>1. x - 1 \in 1..(n - 1) /\ old(x - 1) = x
      BY <1>2, <2>2
    <3> QED BY <3>1
  <2> QED BY <1>2, <2>1, <2>2

\* Getting up keeps the order of the others around the table.
<1>8. ASSUME NEW x \in 1..(n - 1), NEW y \in 1..(n - 1),
             Ahead(n - 1, b, x) <= Ahead(n - 1, b, y)
      PROVE  Ahead(n, a, old(x)) <= Ahead(n, a, old(y))
  BY <1>2, <1>4, <1>6, <1>8 DEF Ahead
<1>9. InTurn(u) = {y \in 1..(n - 1) : old(y) \in InTurn(t)}
  <2> SUFFICES ASSUME NEW y \in 1..(n - 1)
               PROVE  IsInRotation(u, u.seats[y])
                        <=> (old(y) \in InTurn(t))
    BY <1>3 DEF InTurn
  <2>1. old(y) \in 1..n /\ old(y) # i /\ u.seats[y] = t.seats[old(y)]
    BY <1>3, <1>5
  <2> HIDE DEF old
  <2>2. u.seats[y] \in User \ {p}
    BY <1>2, <2>1 DEF Table, n
  <2> QED BY <2>1, <2>2 DEF GotUp, InTurn, n
<1>10. InTurn(u) # {} /\ InTurn(t) # {}
  BY <1>1, RotationByIndex
<1>11. FromSeat(u, q) = b /\ FromSeat(t, q) = a /\ FromSeat(t, p) = i
  BY <1>1 DEF FromSeat, a, b, i
<1>12. PICK y \in InTurn(u) : /\ IsNearest(u, b, y)
                              /\ GetNextPlayerID(u, q) = u.seats[y]
  BY <1>1, <1>10, <1>11, NextSeatIndex
<1>13. PICK j \in InTurn(t) : /\ IsNearest(t, a, j)
                              /\ GetNextPlayerID(t, q) = t.seats[j]
  BY <1>10, <1>11, NextSeatIndex
<1>14. PICK k \in InTurn(t) : /\ IsNearest(t, i, k)
                              /\ GetNextPlayerID(t, p) = t.seats[k]
  BY <1>10, <1>11, NextSeatIndex
<1>15. y \in 1..(n - 1) /\ j \in 1..n /\ k \in 1..n /\ InTurn(t) \subseteq 1..n
  BY <1>9 DEF InTurn, n
<1>16. /\ old(y) \in InTurn(t) /\ old(y) \in 1..n /\ old(y) # i
       /\ GetNextPlayerID(u, q) = t.seats[old(y)]
  BY <1>3, <1>5, <1>9, <1>12, <1>15

\* So the next player is the nearest one that is not p.
<1>17. \A x \in InTurn(t) : x # i => Ahead(n, a, old(y)) <= Ahead(n, a, x)
  <2> SUFFICES ASSUME NEW x \in InTurn(t), x # i
               PROVE  Ahead(n, a, old(y)) <= Ahead(n, a, x)
    OBVIOUS
  <2>1. PICK z \in 1..(n - 1) : old(z) = x
    BY <1>7, <1>15
  <2>2. z \in InTurn(u)
    BY <1>9, <2>1
  <2>3. Ahead(n - 1, b, y) <= Ahead(n - 1, b, z)
    BY <1>3, <1>12, <2>2 DEF IsNearest
  <2> QED BY <1>8, <1>15, <2>1, <2>3
<1> DEFINE w == old(y)
<1>18. w \in InTurn(t) /\ w \in 1..n /\ w # i
  BY <1>16
<1> HIDE DEF old, w
<1>19. a \in InTurn(t)
  BY RotationByIndex DEF a
<1>20. CASE j # i
  <2>1. Ahead(n, a, w) <= Ahead(n, a, j) /\ Ahead(n, a, j) <= Ahead(n, a, w)
    BY <1>13, <1>17, <1>18, <1>20 DEF IsNearest, n, w
  <2>2. w = j
    BY <1>2, <1>15, <1>18, <2>1 DEF Ahead
  <2>3. GetNextPlayerID(t, q) # p
    BY <1>2, <1>13, <1>15, <1>20
  <2> QED BY <1>13, <1>16, <2>2, <2>3 DEF w
<1>21. CASE j = i
  <2>1. \A x \in InTurn(t) : Ahead(n, a, i) <= Ahead(n, a, x)
                             /\ Ahead(n, i, k) <= Ahead(n, i, x)
    BY <1>13, <1>14, <1>21 DEF IsNearest, n
  <2>2. k # i
    <3>1. Ahead(n, i, k) <= Ahead(n, i, a)
      BY <1>19, <2>1
    <3> QED BY <1>2, <3>1 DEF Ahead
  <2>3. Ahead(n, a, w) <= Ahead(n, a, k)
    BY <1>17, <2>2 DEF w
  <2>4. /\ Ahead(n, i, k) <= Ahead(n, i, w)
        /\ Ahead(n, a, i) <= Ahead(n, a, w) /\ Ahead(n, a, i) <= Ahead(n, a, k)
    BY <1>18, <2>1
  <2>5. w = k
    BY <1>2, <1>15, <1>18, <2>2, <2>3, <2>4 DEF Ahead
  <2>6. GetNextPlayerID(t, q) = p
    BY <1>2, <1>13, <1>21
  <2> QED BY <1>14, <1>16, <2>5, <2>6 DEF w
<1> QED BY <1>20, <1>21

----------------------------------------------------------------------------
(* The invariant, of any room record. *)

PendingOnTop(s) ==
  s.pending # NoOne =>
    /\ s.topPlay # NoPlay
    /\ s.topPlay.player = s.pending
    /\ s.pending \notin s.done

WinOrder(s) ==
  /\ IsInjectiveSeq(s.winners)
  /\ s.done = Range(s.winners) \cap Seated(s)

GoesOn(s) ==
  /\ Len(s.winners) < s.winnerCount
  /\ Cardinality(ActivePlayers(s)) >= 2

Finishers(s) ==
  \A p \in ActivePlayers(s) : s.handCount[p] = 0 <=> s.pending = p

\* Going round from a player who has skipped one meets only players who have,
\* up to the player on turn.
SkipsFit(s) ==
  /\ IsInjectiveSeq(s.skips)
  /\ s.turn \notin Range(s.skips)
  /\ s.topPlay = NoPlay => s.skips = <<>>
  /\ \A q \in Range(s.skips) \cap Rotation(s) :
        GetNextPlayerID(s, q) \in Range(s.skips) \cup {s.turn}

\* A match that is played, before a turn is found for it.
Running(s) ==
  /\ WellTyped(s) /\ s.phase = "playing" /\ s.result = NoResult
  /\ WinOrder(s) /\ GoesOn(s)

InPlay(s) ==
  /\ Running(s) /\ PendingOnTop(s) /\ Finishers(s)
  /\ s.turn \in Rotation(s)
  /\ SkipsFit(s)

Over(s) ==
  /\ WellTyped(s) /\ s.phase = "finished" /\ s.result # NoResult
  /\ WinOrder(s) /\ PendingOnTop(s)
  /\ s.turn = NoOne
  /\ s.pending \notin Seated(s)
  /\ Len(s.winners) <= s.winnerCount
  /\ s.result.winners \subseteq Range(s.winners)

InLobby(s) ==
  /\ WellTyped(s) /\ s.phase = "lobby" /\ s.result = NoResult
  /\ s.turn = NoOne /\ s.pending = NoOne
  /\ s.winners = <<>> /\ s.done = {}

Sound(s) == InPlay(s) \/ Over(s) \/ InLobby(s)

----------------------------------------------------------------------------
(* Sets of players. *)

LEMMA SeatedAreFinite ==
  ASSUME NEW s, WellTyped(s)
  PROVE  IsFiniteSet(ActivePlayers(s)) /\ Cardinality(ActivePlayers(s)) \in Nat
<1> DEFINE n == Len(s.seats)
<1>1. s.seats \in Seq(User) /\ n \in Nat /\ DOMAIN s.seats = 1..n
  BY DEF WellTyped, Room
<1>2. IsFiniteSet(1..n)
  BY <1>1, FS_Interval
<1>3. s.seats \in Surjection(1..n, Seated(s))
  BY <1>1 DEF Seated, Range, Surjection
<1> HIDE DEF n
<1>4. IsFiniteSet(Seated(s))
  BY <1>2, <1>3, FS_Surjection
<1> QED BY <1>4, FS_Subset, FS_CardinalityType DEF ActivePlayers

LEMMA TwoMembers ==
  ASSUME NEW S, IsFiniteSet(S), NEW a \in S, NEW b \in S, a # b
  PROVE  Cardinality(S) >= 2
<1>1. IsFiniteSet({a}) /\ Cardinality({a}) = 1 /\ b \notin {a}
  BY FS_Singleton
<1>2. IsFiniteSet({a} \cup {b}) /\ Cardinality({a} \cup {b}) = 2
  BY <1>1, FS_AddElement
<1>3. Cardinality({a} \cup {b}) <= Cardinality(S)
  BY FS_Subset
<1> QED BY <1>2, <1>3, FS_CardinalityType

LEMMA AnotherMember ==
  ASSUME NEW S, IsFiniteSet(S), Cardinality(S) >= 2, NEW x
  PROVE  \E q \in S : q # x
<1>1. CASE S \subseteq {x}
  <2>1. Cardinality(S) <= Cardinality({x}) /\ Cardinality({x}) = 1
    BY <1>1, FS_Singleton, FS_Subset
  <2> QED BY <2>1, FS_CardinalityType
<1> QED BY <1>1

\* While finishes are accounted for, only the pending player is out of turn.
LEMMA RotationOfFinishers ==
  ASSUME NEW s, Finishers(s)
  PROVE  Rotation(s) = ActivePlayers(s) \ {s.pending}
BY DEF Finishers, Rotation, ActivePlayers, IsInRotation, IsPendingEmpty

LEMMA RunningHasRotation ==
  ASSUME NEW s, Running(s), Finishers(s)
  PROVE  Rotation(s) # {}
<1>1. PICK q \in ActivePlayers(s) : q # s.pending
  BY SeatedAreFinite, AnotherMember DEF Running, GoesOn
<1> QED BY <1>1, RotationOfFinishers

\* With no finish pending there is somebody else to turn to.
LEMMA RunningHasAnother ==
  ASSUME NEW s, Running(s), Finishers(s), s.pending = NoOne, NEW x
  PROVE  \E q \in Rotation(s) : q # x
<1>1. PICK q \in ActivePlayers(s) : q # x
  BY SeatedAreFinite, AnotherMember DEF Running, GoesOn
<1>2. q # NoOne
  BY IdentityAssumption DEF Running, WellTyped, Room, ActivePlayers, Seated, Range
<1> QED BY <1>1, <1>2, RotationOfFinishers

LEMMA TableOfRoom ==
  ASSUME NEW s, WellTyped(s)
  PROVE  Table(s) /\ Seated(s) \subseteq User /\ NoOne \notin Seated(s)
BY IdentityAssumption DEF WellTyped, Room, Table, Seated, Range

\* Who must skip: everybody in rotation, and nobody else.
LEMMA SkippersAreRotation ==
  ASSUME NEW s, WellTyped(s), PendingOnTop(s), Finishers(s)
  PROVE  RequiredSkippers(s) = Rotation(s)
<1>1. s.pending = NoOne => ActivePlayers(s) = Rotation(s)
  BY TableOfRoom, RotationOfFinishers DEF ActivePlayers
<1> QED BY <1>1 DEF RequiredSkippers, PendingFinishIsTopPlay, PendingOnTop

----------------------------------------------------------------------------
(* The end of a match. *)

\* What the match has come to, without its phase, turn and result.
SameScore(s, t) ==
  /\ t.seats = s.seats /\ t.done = s.done /\ t.winners = s.winners
  /\ t.winnerCount = s.winnerCount /\ t.pending = s.pending
  /\ t.topPlay = s.topPlay /\ t.handCount = s.handCount

LEMMA FinishMatchFields ==
  ASSUME NEW s, WellTyped(s)
  PROVE  /\ WellTyped(FinishMatch(s)) /\ SameScore(s, FinishMatch(s))
         /\ FinishMatch(s).phase = "finished" /\ FinishMatch(s).turn = NoOne
         /\ FinishMatch(s).result # NoResult
         /\ FinishMatch(s).result.winners = s.done \cap Seated(s)
<1> DEFINE r == [players |-> Seated(s), winners |-> s.done \cap Seated(s)]
<1>1. r \in Result
  BY DEF WellTyped, Room, Seated, Result, Range
<1>2. r # NoResult /\ r.winners = s.done \cap Seated(s)
  BY <1>1, AbsenceAssumption
<1> DEFINE t == SetCurrentTurn(s, NoOne)
<1>3. FinishMatch(s) = [t EXCEPT !.phase = "finished", !.result = r]
  BY DEF FinishMatch
<1> HIDE DEF r
<1>4. t \in Room /\ SameScore(s, t) /\ t.turn = NoOne
  BY SetCurrentTurnKeeps
     DEF KeepsTable, WellTyped, Room, SetCurrentTurn, SameScore
<1> HIDE DEF t
<1>5. /\ SameScore(t, FinishMatch(s)) /\ FinishMatch(s).phase = "finished"
      /\ FinishMatch(s).turn = NoOne /\ FinishMatch(s).result = r
  BY <1>3, <1>4 DEF Room, SameScore
<1>6. SameScore(s, FinishMatch(s))
  BY <1>4, <1>5 DEF SameScore
<1> QED BY <1>2, <1>5, <1>6, FinishMatchKeeps DEF KeepsTable

LEMMA FinishMatchSound ==
  ASSUME NEW s, WellTyped(s), WinOrder(s), PendingOnTop(s),
         s.pending \notin Seated(s), Len(s.winners) <= s.winnerCount
  PROVE  Over(FinishMatch(s))
<1> DEFINE u == FinishMatch(s)
<1>1. /\ WellTyped(u) /\ SameScore(s, u) /\ u.phase = "finished"
      /\ u.turn = NoOne /\ u.result # NoResult
      /\ u.result.winners = s.done \cap Seated(s)
  BY FinishMatchFields
<1> HIDE DEF u
<1>2. Seated(u) = Seated(s)
  BY <1>1 DEF SameScore, Seated
<1>3. WinOrder(u) /\ PendingOnTop(u)
  BY <1>1, <1>2 DEF SameScore, WinOrder, PendingOnTop
<1>4. u.result.winners \subseteq Range(u.winners)
  BY <1>1 DEF SameScore, WinOrder
<1>5. u.pending \notin Seated(u) /\ Len(u.winners) <= u.winnerCount
  BY <1>1, <1>2 DEF SameScore
<1>6. Over(u)
  BY <1>1, <1>3, <1>4, <1>5 DEF Over
<1> QED BY <1>6 DEF u

\* The rules end a match exactly when it does not go on.
LEMMA EndOrGo ==
  ASSUME NEW s, WellTyped(s)
  PROVE  ShouldEndGame(s) <=> ~GoesOn(s)
<1> DEFINE active == Cardinality(ActivePlayers(s))
           won == Len(s.winners)
           target == s.winnerCount
<1>1. active \in Nat /\ won \in Nat /\ target \in Nat \ {0}
  <2>1. active \in Nat
    BY SeatedAreFinite
  <2>2. won \in Nat /\ target \in Nat \ {0}
    BY DEF WellTyped, Room
  <2> QED BY <2>1, <2>2
<1>2. ShouldEndGame(s) <=> won >= (IF target < 1 THEN 1 ELSE target) \/ active <= 1
  BY Zenon DEF ShouldEndGame
<1>3. GoesOn(s) <=> won < target /\ active >= 2
  BY DEF GoesOn
<1> HIDE DEF active, won, target
<1> QED BY <1>1, <1>2, <1>3

LEMMA MaybeEndGoesOn ==
  ASSUME NEW s, WellTyped(s), GoesOn(s)
  PROVE  MaybeEndGame(s) = s
BY EndOrGo DEF MaybeEndGame

LEMMA OverStays ==
  ASSUME NEW s, Over(s)
  PROVE  /\ MaybeEndGame(s) = s
         /\ Over([s EXCEPT !.skips = <<>>])
<1>1. MaybeEndGame(s) = s
  BY DEF Over, MaybeEndGame
<1> DEFINE t == [s EXCEPT !.skips = <<>>]
<1>2. /\ WellTyped(t) /\ SameScore(s, t) /\ t.phase = s.phase
      /\ t.turn = s.turn /\ t.result = s.result
  BY NoSkipsKeeps DEF Over, KeepsTable, WellTyped, Room, SameScore
<1> HIDE DEF t
<1>3. Over(t)
  BY <1>2 DEF Over, SameScore, WinOrder, PendingOnTop, Seated
<1> QED BY <1>1, <1>3 DEF t

----------------------------------------------------------------------------
(* A pending finish is confirmed. *)

\* The player awaits confirmation and holds no card.
MayConfirm(s) ==
  /\ s.pending \in Seated(s)
  /\ s.handCount[s.pending] = 0
  /\ s.pending \notin s.done

Cleared(s) == [s EXCEPT !.pending = NoOne]

Won(s) ==
  [s EXCEPT !.pending = NoOne, !.done = @ \cup {s.pending},
            !.winners = Append(@, s.pending)]

LEMMA ConfirmIs ==
  ASSUME NEW s, WellTyped(s)
  PROVE  ConfirmPendingFinish(s) =
           IF ~MayConfirm(s) THEN Cleared(s)
           ELSE IF ShouldEndGame(Won(s)) THEN FinishMatch(Won(s)) ELSE Won(s)
<1>1. s \in Room
  BY DEF WellTyped
<1>2. [[s EXCEPT !.pending = NoOne] EXCEPT
         !.done = @ \cup {s.pending}, !.winners = Append(@, s.pending)] = Won(s)
  BY <1>1 DEF Room, Won
<1> QED BY <1>2 DEF ConfirmPendingFinish, MayConfirm, Cleared

\* The record is as before, but for the match that may have a new winner.
SameRound(s, u) ==
  /\ u.seats = s.seats /\ u.handCount = s.handCount
  /\ u.topPlay = s.topPlay /\ u.stackCount = s.stackCount
  /\ u.turn = s.turn /\ u.skips = s.skips

LEMMA ClearedFields ==
  ASSUME NEW s, WellTyped(s)
  PROVE  /\ WellTyped(Cleared(s)) /\ SameRound(s, Cleared(s))
         /\ Cleared(s).pending = NoOne /\ Cleared(s).done = s.done
         /\ Cleared(s).winners = s.winners /\ Cleared(s).phase = s.phase
         /\ Cleared(s).winnerCount = s.winnerCount
         /\ Cleared(s).result = s.result
<1>1. WellTyped(Cleared(s))
  BY PendingKeeps DEF KeepsTable, Cleared
<1> QED BY <1>1 DEF WellTyped, Room, SameRound, Cleared

LEMMA WonFields ==
  ASSUME NEW s, WellTyped(s), MayConfirm(s)
  PROVE  /\ WellTyped(Won(s)) /\ SameRound(s, Won(s))
         /\ Won(s).pending = NoOne
         /\ Won(s).done = s.done \cup {s.pending}
         /\ Won(s).winners = Append(s.winners, s.pending)
         /\ Won(s).phase = s.phase
         /\ Won(s).winnerCount = s.winnerCount
         /\ Won(s).result = s.result
<1> DEFINE p == s.pending
           done == s.done \cup {p}
           winners == Append(s.winners, p)
           t == [s EXCEPT !.pending = NoOne, !.done = done,
                          !.winners = winners]
<1>1. s \in Room /\ p \in User /\ p \in Seated(s)
  BY TableOfRoom DEF WellTyped, MayConfirm
<1>2. done \in SUBSET User /\ winners \in Seq(User)
  BY <1>1 DEF Room
<1>3. Won(s) = t
  BY <1>1, Zenon DEF Room, Won
<1>4. NoOne \in User \cup {NoOne}
  OBVIOUS
<1> HIDE DEF done, winners, p
<1>5. t \in Room
  BY <1>1, <1>2, <1>4, Zenon DEF Room
<1>6. /\ SameRound(s, t) /\ t.online = s.online
      /\ t.pending = NoOne /\ t.done = done /\ t.winners = winners
      /\ t.phase = s.phase /\ t.winnerCount = s.winnerCount
      /\ t.result = s.result
  BY <1>1 DEF Room, SameRound
<1> HIDE DEF t
<1>7. WellTyped(t)
  BY <1>1, <1>5, <1>6 DEF WellTyped, SameRound, Seated, done
<1> QED BY <1>3, <1>6, <1>7 DEF done, winners, p

LEMMA AppendNew ==
  ASSUME NEW q \in Seq(User), IsInjectiveSeq(q), NEW x \in User, x \notin Range(q)
  PROVE  /\ IsInjectiveSeq(Append(q, x))
         /\ Range(Append(q, x)) = Range(q) \cup {x}
         /\ Append(q, x) \in Seq(User) /\ Len(Append(q, x)) = Len(q) + 1
         /\ Last(Append(q, x)) = x /\ Append(q, x) # <<>>
<1> DEFINE n == Len(q)
           r == Append(q, x)
<1>1. /\ n \in Nat /\ DOMAIN q = 1..n /\ DOMAIN r = 1..(n + 1)
      /\ \A i \in 1..n : r[i] = q[i]
      /\ r[n + 1] = x
  OBVIOUS
<1>2. r \in Seq(User) /\ Len(r) = n + 1 /\ r # <<>>
  <2>1. r \in Seq(User) /\ Len(r) = n + 1
    OBVIOUS
  <2>2. r # <<>>
    <3>1. n + 1 # 0 /\ Len(<<>>) = 0
      OBVIOUS
    <3> HIDE DEF n, r
    <3> QED BY <2>1, <3>1
  <2> QED BY <2>1, <2>2
<1>3. Last(r) = x
  BY <1>1, <1>2 DEF Last
<1> HIDE DEF r, n
<1>4. IsInjectiveSeq(r)
  BY <1>1 DEF IsInjectiveSeq, Range
<1>5. Range(r) = Range(q) \cup {x}
  <2>1. \A i \in 1..(n + 1) : r[i] \in Range(q) \cup {x}
    BY <1>1 DEF Range
  <2>2. \A i \in 1..n : q[i] \in Range(r)
    BY <1>1 DEF Range
  <2>3. n + 1 \in DOMAIN r
    BY <1>1
  <2>4. x \in Range(r)
    BY <1>1, <2>3 DEF Range
  <2> QED BY <1>1, <2>1, <2>2, <2>4 DEF Range
<1> QED BY <1>2, <1>3, <1>4, <1>5 DEF r, n

\* Confirming, or giving up, a pending finish ends the match or leaves one that
\* goes on with nobody pending and one active player less, if it was one.
LEMMA ConfirmSound ==
  ASSUME NEW s, Running(s),
         s.pending \in ActivePlayers(s) => s.handCount[s.pending] = 0,
         NEW u, u = ConfirmPendingFinish(s)
  PROVE  \/ Over(u)
         \/ /\ Running(u) /\ SameRound(s, u) /\ u.pending = NoOne
            /\ ActivePlayers(u) = ActivePlayers(s) \ {s.pending}
<1>1. WellTyped(s) /\ s.phase = "playing" /\ s.result = NoResult
      /\ WinOrder(s) /\ GoesOn(s)
  BY DEF Running
<1>2. CASE ~MayConfirm(s)
  <2>1. u = Cleared(s)
    BY <1>1, <1>2, ConfirmIs
  <2>2. /\ WellTyped(u) /\ SameRound(s, u) /\ u.pending = NoOne
        /\ u.done = s.done /\ u.winners = s.winners /\ u.phase = s.phase
        /\ u.winnerCount = s.winnerCount /\ u.result = s.result
    BY <1>1, <2>1, ClearedFields
  <2>3. ActivePlayers(u) = ActivePlayers(s) /\ Seated(u) = Seated(s)
    BY <2>2 DEF SameRound, ActivePlayers, Seated
  <2>4. Running(u)
    BY <1>1, <2>2, <2>3 DEF Running, WinOrder, GoesOn
  <2>5. s.pending \notin ActivePlayers(s)
    BY <1>2 DEF MayConfirm, ActivePlayers
  <2> QED BY <2>2, <2>3, <2>4, <2>5
<1>3. CASE MayConfirm(s)
  <2> DEFINE w == Won(s)
  <2>1. /\ WellTyped(w) /\ SameRound(s, w) /\ w.pending = NoOne
        /\ w.done = s.done \cup {s.pending}
        /\ w.winners = Append(s.winners, s.pending) /\ w.phase = s.phase
        /\ w.winnerCount = s.winnerCount /\ w.result = s.result
    BY <1>1, <1>3, WonFields
  <2>2. u = IF ShouldEndGame(w) THEN FinishMatch(w) ELSE w
    BY <1>1, <1>3, ConfirmIs
  <2> HIDE DEF w
  <2>3. /\ Seated(w) = Seated(s) /\ s.pending \in Seated(s)
        /\ ActivePlayers(w) = ActivePlayers(s) \ {s.pending}
    BY <1>3, <2>1 DEF SameRound, ActivePlayers, Seated, MayConfirm
  <2>4. s.winners \in Seq(User) /\ s.pending \in User
        /\ s.pending \notin Range(s.winners)
    BY <1>1, <1>3, TableOfRoom DEF WellTyped, Room, WinOrder, MayConfirm
  <2>5. /\ IsInjectiveSeq(w.winners)
        /\ Range(w.winners) = Range(s.winners) \cup {s.pending}
        /\ Len(w.winners) = Len(s.winners) + 1
    BY <1>1, <2>1, <2>4, AppendNew DEF WinOrder
  <2>6. WinOrder(w)
    BY <1>1, <2>1, <2>3, <2>5 DEF WinOrder
  <2>7. PendingOnTop(w) /\ w.pending \notin Seated(w)
    BY <2>1, TableOfRoom DEF PendingOnTop
  <2>8. CASE ShouldEndGame(w)
    <3>1. Len(w.winners) <= w.winnerCount
      <4>1. /\ Len(s.winners) \in Nat /\ s.winnerCount \in Nat
            /\ Len(s.winners) < s.winnerCount
        BY <1>1 DEF WellTyped, Room, GoesOn
      <4> QED BY <2>1, <2>5, <4>1
    <3> QED BY <2>1, <2>2, <2>6, <2>7, <2>8, <3>1, FinishMatchSound
  <2>9. CASE ~ShouldEndGame(w)
    <3>1. Running(w)
      BY <1>1, <2>1, <2>6, <2>9, EndOrGo DEF Running
    <3> QED BY <2>1, <2>2, <2>3, <2>9, <3>1
  <2> QED BY <2>8, <2>9
<1> QED BY <1>2, <1>3
----------------------------------------------------------------------------
(* The turn is passed on. *)

\* What makes p a fit player to be on turn with the skips counted so far.
TakesOver(s, p) ==
  /\ p \in Rotation(s)
  /\ IsInjectiveSeq(s.skips)
  /\ p \notin Range(s.skips)
  /\ s.topPlay = NoPlay => s.skips = <<>>
  /\ \A q \in Range(s.skips) \cap Rotation(s) :
        GetNextPlayerID(s, q) \in Range(s.skips) \cup {p}

LEMMA TurnGiven ==
  ASSUME NEW s, Running(s), PendingOnTop(s), Finishers(s),
         NEW p, TakesOver(s, p)
  PROVE  InPlay(SetCurrentTurn(s, p)) /\ SetCurrentTurn(s, p).turn = p
<1> DEFINE t == SetCurrentTurn(s, p)
<1>1. p \in User
  BY TableOfRoom DEF Running, TakesOver, Rotation
<1>2. /\ WellTyped(t) /\ SameScore(s, t) /\ t.turn = p /\ t.skips = s.skips
      /\ t.phase = s.phase /\ t.result = s.result
  BY <1>1, SetCurrentTurnKeeps
     DEF Running, KeepsTable, WellTyped, Room, SetCurrentTurn, SameScore
<1> HIDE DEF t
<1>3. SameRotation(s, t)
  BY <1>2 DEF SameScore, SameRotation
<1>4. /\ Seated(t) = Seated(s) /\ ActivePlayers(t) = ActivePlayers(s)
      /\ Rotation(t) = Rotation(s)
      /\ \A q : GetNextPlayerID(t, q) = GetNextPlayerID(s, q)
  BY <1>3, RotationIsSame
<1>5. Running(t) /\ PendingOnTop(t) /\ Finishers(t)
  BY <1>2, <1>4
     DEF SameScore, Running, WinOrder, GoesOn, PendingOnTop, Finishers
<1>6. SkipsFit(t)
  BY <1>2, <1>4 DEF SameScore, TakesOver, SkipsFit
<1>7. InPlay(t)
  BY <1>2, <1>4, <1>5, <1>6 DEF InPlay, TakesOver
<1> QED BY <1>2, <1>7 DEF t

\* With no skip counted anybody in rotation is fit.
LEMMA FreshTurn ==
  ASSUME NEW s, s.skips = <<>>, NEW p \in Rotation(s)
  PROVE  TakesOver(s, p)
<1>1. Range(<<>>) = {} /\ IsInjectiveSeq(<<>>)
  BY DEF Range, IsInjectiveSeq
<1> QED BY <1>1 DEF TakesOver

LEMMA ClearRoundRuns ==
  ASSUME NEW s, Running(s), Finishers(s), s.pending = NoOne
  PROVE  /\ Running(ClearRound(s)) /\ PendingOnTop(ClearRound(s))
         /\ Finishers(ClearRound(s)) /\ ClearRound(s).skips = <<>>
         /\ SameRotation(s, ClearRound(s))
<1> DEFINE t == ClearRound(s)
<1>1. /\ WellTyped(t) /\ t.seats = s.seats /\ t.done = s.done
      /\ t.winners = s.winners /\ t.winnerCount = s.winnerCount
      /\ t.pending = s.pending /\ t.handCount = s.handCount
      /\ t.skips = <<>> /\ t.phase = s.phase /\ t.result = s.result
  BY ClearRoundKeeps DEF Running, KeepsTable, WellTyped, Room, ClearRound
<1> HIDE DEF t
<1>2. Seated(t) = Seated(s) /\ ActivePlayers(t) = ActivePlayers(s)
  BY <1>1 DEF Seated, ActivePlayers
<1>3. Running(t) /\ PendingOnTop(t) /\ Finishers(t)
  BY <1>1, <1>2 DEF Running, WinOrder, GoesOn, PendingOnTop, Finishers
<1> QED BY <1>1, <1>3 DEF SameRotation, t

\* What a confirmed finish leaves of the finishers.
LEMMA FinishersConfirmed ==
  ASSUME NEW s, Finishers(s), NEW u, WellTyped(u), u.handCount = s.handCount,
         u.pending = NoOne, ActivePlayers(u) = ActivePlayers(s) \ {s.pending}
  PROVE  Finishers(u)
BY TableOfRoom DEF Finishers, ActivePlayers

\* The stack burns: the match is over or goes on with another player than the
\* last skipper.
LEMMA ResolveSound ==
  ASSUME NEW s, Running(s), PendingOnTop(s), Finishers(s), NEW p,
         NEW u, u = ResolveAllPass(s, p)
  PROVE  Over(u) \/ (InPlay(u) /\ u.turn # LastSkipper(s, p))
<1> DEFINE t == IF PendingFinishIsTopPlay(s) THEN ConfirmPendingFinish(s) ELSE s
<1>1. \/ Over(t)
      \/ /\ Running(t) /\ Finishers(t) /\ t.pending = NoOne
         /\ t.skips = s.skips
  <2>1. CASE PendingFinishIsTopPlay(s)
    <3>1. s.pending \in ActivePlayers(s) => s.handCount[s.pending] = 0
      BY DEF Finishers
    <3>2. \/ Over(t)
          \/ /\ Running(t) /\ SameRound(s, t) /\ t.pending = NoOne
             /\ ActivePlayers(t) = ActivePlayers(s) \ {s.pending}
      BY <2>1, <3>1, ConfirmSound
    <3> HIDE DEF t
    <3> QED BY <3>2, FinishersConfirmed DEF Running, SameRound
  <2>2. CASE ~PendingFinishIsTopPlay(s)
    BY <2>2 DEF PendingFinishIsTopPlay, PendingOnTop
  <2> QED BY <2>1, <2>2
<1> DEFINE last == LastSkipper(t, p)
           starter == GetNextPlayerID(t, last)
           c == ClearRound(t)
<1>2. u = IF t.phase # "playing" THEN [t EXCEPT !.skips = <<>>]
          ELSE SetCurrentTurn(c, starter)
  BY DEF ResolveAllPass
<1> HIDE DEF t
<1>3. CASE Over(t)
  BY <1>2, <1>3, OverStays DEF Over
<1>4. CASE Running(t) /\ Finishers(t) /\ t.pending = NoOne /\ t.skips = s.skips
  <2>1. last = LastSkipper(s, p)
    BY <1>4 DEF LastSkipper
  <2>2. u = SetCurrentTurn(c, starter)
    BY <1>2, <1>4 DEF Running
  <2>3. Table(t)
    BY <1>4, TableOfRoom DEF Running
  <2>4. starter \in Rotation(t) /\ starter # last
    <3>1. PICK q \in Rotation(t) : q # last
      BY <1>4, RunningHasAnother
    <3> QED BY <2>3, <3>1, NextIsInRotation, NextIsAnother
  <2> HIDE DEF last, starter
  <2>5. /\ Running(c) /\ PendingOnTop(c) /\ Finishers(c)
        /\ c.skips = <<>> /\ SameRotation(t, c)
    BY <1>4, ClearRoundRuns
  <2> HIDE DEF c
  <2>6. starter \in Rotation(c)
    BY <2>4, <2>5, RotationIsSame
  <2>7. TakesOver(c, starter)
    BY <2>5, <2>6, FreshTurn
  <2>8. InPlay(u) /\ u.turn = starter
    BY <2>2, <2>5, <2>7, TurnGiven
  <2> QED BY <2>1, <2>4, <2>8
<1> QED BY <1>1, <1>3, <1>4

LEMMA InPlayGoesOn ==
  ASSUME NEW s, InPlay(s)
  PROVE  MaybeEndGame(s) = s
BY MaybeEndGoesOn DEF InPlay, Running

\* With the player on turn among the skippers.
LEMMA SkipRecorded ==
  ASSUME NEW s, InPlay(s), NEW t, t = RecordSkip(s, s.turn)
  PROVE  /\ Running(t) /\ PendingOnTop(t) /\ Finishers(t) /\ SameRotation(s, t)
         /\ t.topPlay = s.topPlay /\ t.stackCount = s.stackCount
         /\ IsInjectiveSeq(t.skips) /\ Last(t.skips) = s.turn /\ t.skips # <<>>
         /\ Range(t.skips) = Range(s.skips) \cup {s.turn}
<1> DEFINE skips == Append(s.skips, s.turn)
<1>1. /\ WellTyped(s) /\ s.turn \in User /\ s.skips \in Seq(User)
      /\ s.turn \notin Range(s.skips) /\ IsInjectiveSeq(s.skips)
  BY TableOfRoom DEF InPlay, Running, Rotation, SkipsFit, WellTyped, Room
<1>2. /\ IsInjectiveSeq(skips) /\ Last(skips) = s.turn /\ skips # <<>>
      /\ Range(skips) = Range(s.skips) \cup {s.turn}
  BY <1>1, AppendNew
<1>3. t = [s EXCEPT !.skips = skips]
  BY <1>1, Zenon DEF RecordSkip, WellTyped, Room
<1>4. WellTyped(t)
  BY <1>1, RecordSkipKeeps DEF KeepsTable
<1> HIDE DEF skips
<1>5. /\ SameScore(s, t) /\ t.skips = skips /\ t.stackCount = s.stackCount
      /\ t.phase = s.phase /\ t.result = s.result
  BY <1>1, <1>3 DEF WellTyped, Room, SameScore
<1>6. Seated(t) = Seated(s) /\ ActivePlayers(t) = ActivePlayers(s)
  BY <1>5 DEF SameScore, Seated, ActivePlayers
<1>7. Running(t) /\ PendingOnTop(t) /\ Finishers(t)
  BY <1>4, <1>5, <1>6
     DEF InPlay, SameScore, Running, WinOrder, GoesOn, PendingOnTop, Finishers
<1> QED BY <1>2, <1>5, <1>7 DEF SameScore, SameRotation

\* Passing on the player on turn, by skip, clock or departure, ends the match
\* or finds another player.
LEMMA ApplySkipSound ==
  ASSUME NEW s, InPlay(s), s.stackCount = 0 <=> s.topPlay = NoPlay,
         NEW p, p = s.turn, NEW u, u = ApplySkip(s, p)
  PROVE  Over(u) \/ (InPlay(u) /\ u.turn # p)
<1>1. /\ Running(s) /\ WellTyped(s) /\ PendingOnTop(s) /\ Finishers(s)
      /\ p \in Rotation(s) /\ SkipsFit(s) /\ Table(s)
  BY TableOfRoom DEF InPlay, Running
<1>2. CASE s.topPlay = NoPlay
  <2> DEFINE bare == [s EXCEPT !.skips = <<>>]
             next == GetNextPlayerID(s, p)
  <2>1. u = MaybeEndGame(SetCurrentTurn(bare, next))
    BY <1>2 DEF ApplySkip
  <2>2. s.skips = <<>> /\ s.pending = NoOne
    BY <1>1, <1>2 DEF SkipsFit, PendingOnTop
  <2>3. bare = s
    BY <1>1, <2>2 DEF WellTyped, Room
  <2>4. next \in Rotation(s) /\ next # p
    <3>1. PICK q \in Rotation(s) : q # p
      BY <1>1, <2>2, RunningHasAnother
    <3> QED BY <1>1, <3>1, NextIsInRotation, NextIsAnother
  <2> HIDE DEF next, bare
  <2>5. InPlay(SetCurrentTurn(s, next)) /\ SetCurrentTurn(s, next).turn = next
    BY <1>1, <2>2, <2>4, FreshTurn, TurnGiven
  <2> QED BY <2>1, <2>3, <2>4, <2>5, InPlayGoesOn
<1>3. CASE s.topPlay # NoPlay
  <2> DEFINE t == RecordSkip(s, p)
             next == GetNextPlayerID(t, p)
  <2>1. u = MaybeEndGame(IF SkipRequirementsMet(t) THEN ResolveAllPass(t, p)
                         ELSE SetCurrentTurn(t, next))
    BY <1>1, <1>3 DEF ApplySkip
  <2>2. /\ Running(t) /\ PendingOnTop(t) /\ Finishers(t) /\ SameRotation(s, t)
        /\ t.topPlay = s.topPlay /\ t.stackCount = s.stackCount
        /\ IsInjectiveSeq(t.skips) /\ Last(t.skips) = p /\ t.skips # <<>>
        /\ Range(t.skips) = Range(s.skips) \cup {p}
    BY SkipRecorded
  <2> HIDE DEF t
  <2>3. /\ Rotation(t) = Rotation(s) /\ WellTyped(t) /\ Table(t)
        /\ \A q : GetNextPlayerID(t, q) = GetNextPlayerID(s, q)
    BY <2>2, RotationIsSame, TableOfRoom DEF Running
  <2>4. CASE SkipRequirementsMet(t)
    <3>1. LastSkipper(t, p) = p
      BY <2>2 DEF LastSkipper
    <3>2. \/ Over(ResolveAllPass(t, p))
          \/ /\ InPlay(ResolveAllPass(t, p))
             /\ ResolveAllPass(t, p).turn # p
      BY <2>2, <3>1, ResolveSound
    <3> QED BY <2>1, <2>4, <3>2, InPlayGoesOn, OverStays
  <2>5. CASE ~SkipRequirementsMet(t)
    <3>1. ~(Rotation(t) \subseteq Range(t.skips))
      <4>1. RequiredSkippers(t) = Rotation(t) /\ p \in Rotation(t)
        BY <1>1, <2>2, <2>3, SkippersAreRotation
      <4> QED BY <1>3, <2>2, <2>5, <4>1 DEF SkipRequirementsMet
    <3>2. \A q \in Range(s.skips) \cap Rotation(t) :
             GetNextPlayerID(t, q) \in Range(t.skips)
      BY <1>1, <2>2, <2>3 DEF SkipsFit
    <3>3. \A q : GetNextPlayerID(t, q) \in Rotation(t)
      BY <1>1, <2>3, NextIsInRotation
    <3>4. next \notin Range(t.skips)
      <4> SUFFICES ASSUME next \in Range(t.skips) PROVE FALSE
        OBVIOUS
      <4> DEFINE K == Range(t.skips) \cap Rotation(t)
      <4>1. K \in SUBSET Rotation(t) /\ K # {}
        BY <1>1, <2>2, <2>3
      <4>2. \A q \in K : GetNextPlayerID(t, q) \in K
        BY <2>2, <3>2, <3>3
      <4> HIDE DEF K
      <4>3. Rotation(t) \subseteq K
        BY <2>3, <4>1, <4>2, GoingRound
      <4> QED BY <3>1, <4>3 DEF K
    <3>5. TakesOver(t, next)
      <4>1. t.topPlay # NoPlay
        BY <1>3, <2>2
      <4>2. \A q \in Range(t.skips) \cap Rotation(t) :
               GetNextPlayerID(t, q) \in Range(t.skips) \cup {next}
        BY <2>2, <3>2
      <4> QED BY <2>2, <3>3, <3>4, <4>1, <4>2 DEF TakesOver
    <3>6. next # p
      BY <2>2, <3>4
    <3> HIDE DEF next
    <3>7. InPlay(SetCurrentTurn(t, next)) /\ SetCurrentTurn(t, next).turn = next
      BY <2>2, <3>5, TurnGiven
    <3> QED BY <2>1, <2>5, <3>6, <3>7, InPlayGoesOn
  <2> QED BY <2>4, <2>5
<1> QED BY <1>2, <1>3
----------------------------------------------------------------------------
(* A player leaves. *)

LEMMA RemoveSeatFields ==
  ASSUME NEW s, WellTyped(s), NEW p \in Seated(s), NEW u, u = RemoveSeat(s, p)
  PROVE  /\ WellTyped(u) /\ Seated(u) = Seated(s) \ {p}
         /\ ActivePlayers(u) = ActivePlayers(s) \ {p}
         /\ GotUp(s, u, p)
         /\ \A q \in User \ {p} : u.handCount[q] = s.handCount[q]
         /\ u.done = s.done \ {p}
         /\ u.winners = s.winners /\ u.winnerCount = s.winnerCount
         /\ u.pending = s.pending /\ u.topPlay = s.topPlay
         /\ u.turn = s.turn /\ u.skips = s.skips
         /\ u.phase = s.phase /\ u.result = s.result
<1>1. WellTyped(u) /\ Seated(u) = Seated(s) \ {p}
  BY RemoveSeatRemoves
<1>2. /\ u.handCount = [s.handCount EXCEPT ![p] = 0]
      /\ u.seats = RemoveAt(s.seats, SeatOf(s, p))
      /\ u.done = s.done \ {p}
      /\ u.winners = s.winners /\ u.winnerCount = s.winnerCount
      /\ u.pending = s.pending /\ u.topPlay = s.topPlay
      /\ u.turn = s.turn /\ u.skips = s.skips
      /\ u.phase = s.phase /\ u.result = s.result
  BY DEF WellTyped, Room, RemoveSeat
<1>3. s.handCount \in [User -> Nat]
  BY DEF WellTyped, Room
<1>4. \A q \in User \ {p} : u.handCount[q] = s.handCount[q]
  BY <1>2, <1>3
<1>5. \A q \in User \ {p} : IsInRotation(u, q) <=> IsInRotation(s, q)
  BY <1>2, <1>4 DEF IsInRotation, IsPendingEmpty
<1>6. GotUp(s, u, p)
  BY <1>2, <1>5 DEF GotUp
<1>7. ActivePlayers(u) = ActivePlayers(s) \ {p}
  BY <1>1, <1>2 DEF ActivePlayers
<1> QED BY <1>1, <1>2, <1>4, <1>6, <1>7

LEMMA RemovedScore ==
  ASSUME NEW s, WellTyped(s), WinOrder(s), PendingOnTop(s),
         NEW p \in Seated(s), NEW u, u = RemoveSeat(s, p)
  PROVE  WinOrder(u) /\ PendingOnTop(u)
BY RemoveSeatFields DEF WinOrder, PendingOnTop

\* The skips stay in order when somebody gets up who is not on turn.
LEMMA RemovedSkips ==
  ASSUME NEW s, InPlay(s), NEW p \in Seated(s), s.turn # p,
         NEW u, u = RemoveSeat(s, p)
  PROVE  SkipsFit(u) /\ u.turn \in Rotation(u)
<1>1. /\ WellTyped(s) /\ Table(s) /\ SkipsFit(s) /\ s.turn \in Rotation(s)
  BY TableOfRoom DEF InPlay, Running
<1>2. /\ GotUp(s, u, p) /\ u.turn = s.turn /\ u.skips = s.skips
      /\ u.topPlay = s.topPlay
  BY <1>1, RemoveSeatFields
<1>3. Rotation(u) = Rotation(s) \ {p}
  BY <1>1, <1>2, GotUpTable
<1> SUFFICES ASSUME NEW q \in Range(s.skips) \cap Rotation(u)
             PROVE  GetNextPlayerID(u, q) \in Range(s.skips) \cup {s.turn}
  BY <1>1, <1>2, <1>3 DEF SkipsFit
<1>4. q \in Range(s.skips) \cap Rotation(s) /\ q # p
  BY <1>3
<1>5. GetNextPlayerID(s, q) \in Range(s.skips) \cup {s.turn}
  BY <1>1, <1>4 DEF SkipsFit
<1>6. GetNextPlayerID(u, q) = IF GetNextPlayerID(s, q) = p
                              THEN GetNextPlayerID(s, p)
                              ELSE GetNextPlayerID(s, q)
  BY <1>1, <1>2, <1>4, NextWithout
<1>7. CASE GetNextPlayerID(s, q) = p
  <2>1. p \in Rotation(s)
    BY <1>1, <1>4, <1>7, NextIsInRotation
  <2>2. p \in Range(s.skips)
    BY <1>5, <1>7
  <2>3. GetNextPlayerID(s, p) \in Range(s.skips) \cup {s.turn}
    BY <1>1, <2>1, <2>2 DEF SkipsFit
  <2> QED BY <1>6, <1>7, <2>3
<1>8. CASE GetNextPlayerID(s, q) # p
  BY <1>5, <1>6, <1>8
<1> QED BY <1>7, <1>8

\* Nobody's skip becomes the last one that was missing when somebody gets up
\* who is not on turn.
LEMMA NothingToReconcile ==
  ASSUME NEW s, InPlay(s), NEW p \in Seated(s), s.turn # p,
         NEW u, u = RemoveSeat(s, p)
  PROVE  ReconcileSkipProgression(u) = u
<1>1. /\ WellTyped(s) /\ WinOrder(s) /\ PendingOnTop(s) /\ Finishers(s)
      /\ Seated(s) \subseteq User
  BY TableOfRoom DEF InPlay, Running
<1>2. /\ WellTyped(u) /\ ActivePlayers(u) = ActivePlayers(s) \ {p}
      /\ \A q \in User \ {p} : u.handCount[q] = s.handCount[q]
      /\ u.pending = s.pending
  BY <1>1, RemoveSeatFields
<1>3. PendingOnTop(u)
  BY <1>1, RemovedScore
<1>4. Finishers(u)
  BY <1>1, <1>2 DEF Finishers, ActivePlayers
<1>5. RequiredSkippers(u) = Rotation(u)
  BY <1>2, <1>3, <1>4, SkippersAreRotation
<1>6. ~SkipRequirementsMet(u)
  BY <1>5, RemovedSkips DEF SkipRequirementsMet, SkipsFit
<1> QED BY <1>6 DEF ReconcileSkipProgression

\* Somebody who is not on turn leaves: nobody's skip becomes the last one that
\* was missing, and the match goes on or ends with nobody left pending.
LEMMA LeaveInPlay ==
  ASSUME NEW s, InPlay(s), NEW p \in Seated(s), s.turn # p,
         NEW u, u = RemoveSeat(s, p)
  PROVE  \/ Over(MaybeEndGame(ReconcileSkipProgression(u)))
         \/ InPlay(MaybeEndGame(ReconcileSkipProgression(u)))
<1>1. /\ WellTyped(s) /\ WinOrder(s) /\ PendingOnTop(s) /\ Finishers(s)
      /\ GoesOn(s) /\ s.phase = "playing" /\ s.result = NoResult
      /\ Seated(s) \subseteq User
  BY TableOfRoom DEF InPlay, Running
<1>2. /\ WellTyped(u) /\ Seated(u) = Seated(s) \ {p}
      /\ ActivePlayers(u) = ActivePlayers(s) \ {p}
      /\ \A q \in User \ {p} : u.handCount[q] = s.handCount[q]
      /\ u.winners = s.winners /\ u.winnerCount = s.winnerCount
      /\ u.pending = s.pending /\ u.turn = s.turn
      /\ u.phase = "playing" /\ u.result = NoResult
  BY <1>1, RemoveSeatFields
<1>3. WinOrder(u) /\ PendingOnTop(u)
  BY <1>1, RemovedScore
<1>4. Finishers(u)
  BY <1>1, <1>2 DEF Finishers, ActivePlayers
<1>5. SkipsFit(u) /\ u.turn \in Rotation(u)
  BY RemovedSkips
<1>6. ReconcileSkipProgression(u) = u
  BY NothingToReconcile
<1>7. CASE GoesOn(u)
  <2>1. InPlay(u)
    BY <1>2, <1>3, <1>4, <1>5, <1>7 DEF InPlay, Running
  <2> QED BY <1>6, <2>1, InPlayGoesOn
<1>8. CASE ~GoesOn(u)
  <2>1. MaybeEndGame(u) = FinishMatch(u)
    BY <1>2, <1>8, EndOrGo DEF MaybeEndGame
  <2>2. Len(u.winners) < u.winnerCount
    BY <1>1, <1>2 DEF GoesOn
  <2>3. u.pending \notin Seated(u)
    <3> SUFFICES ASSUME u.pending \in Seated(u) PROVE FALSE
      OBVIOUS
    <3>1. u.pending # NoOne
      BY <1>2, TableOfRoom
    <3>2. u.pending \in ActivePlayers(u)
      BY <1>3, <3>1 DEF PendingOnTop, ActivePlayers
    <3>3. u.turn \in ActivePlayers(u) /\ u.turn # u.pending
      BY <1>4, <1>5, RotationOfFinishers
    <3>4. Cardinality(ActivePlayers(u)) >= 2
      BY <1>2, <3>2, <3>3, SeatedAreFinite, TwoMembers
    <3> QED BY <1>8, <2>2, <3>4 DEF GoesOn
  <2>4. Len(u.winners) <= u.winnerCount
    BY <1>2, <2>2 DEF WellTyped, Room
  <2> QED BY <1>2, <1>3, <1>6, <2>1, <2>3, <2>4, FinishMatchSound
<1> QED BY <1>7, <1>8

LEMMA LeaveOver ==
  ASSUME NEW s, Over(s), NEW p \in Seated(s), NEW u, u = RemoveSeat(s, p)
  PROVE  Over(u)
<1>1. WellTyped(s) /\ WinOrder(s) /\ PendingOnTop(s)
  BY DEF Over
<1>2. WinOrder(u) /\ PendingOnTop(u)
  BY <1>1, RemovedScore
<1> QED BY <1>1, <1>2, RemoveSeatFields DEF Over

LEMMA LeaveLobby ==
  ASSUME NEW s, InLobby(s), NEW p \in Seated(s), NEW u, u = RemoveSeat(s, p)
  PROVE  InLobby(u)
<1>1. WellTyped(s)
  BY DEF InLobby
<1> QED BY <1>1, RemoveSeatFields DEF InLobby

----------------------------------------------------------------------------
(* What is no business of the match. *)

SameGame(s, t) ==
  /\ SameScore(s, t) /\ t.phase = s.phase /\ t.result = s.result
  /\ t.turn = s.turn /\ t.skips = s.skips

LEMMA SameGameSound ==
  ASSUME NEW s, Sound(s), NEW t, WellTyped(t), SameGame(s, t)
  PROVE  Sound(t)
<1>1. SameRotation(s, t) /\ SameScore(s, t)
  BY DEF SameGame, SameScore, SameRotation
<1>2. /\ Seated(t) = Seated(s) /\ ActivePlayers(t) = ActivePlayers(s)
      /\ Rotation(t) = Rotation(s)
      /\ \A q : GetNextPlayerID(t, q) = GetNextPlayerID(s, q)
  BY <1>1, RotationIsSame
<1>3. /\ WinOrder(s) => WinOrder(t)
      /\ PendingOnTop(s) => PendingOnTop(t)
      /\ GoesOn(s) => GoesOn(t)
      /\ Finishers(s) => Finishers(t)
      /\ SkipsFit(s) => SkipsFit(t)
  BY <1>1, <1>2
     DEF SameGame, SameScore, WinOrder, PendingOnTop, GoesOn, Finishers, SkipsFit
<1>4. CASE InPlay(s)
  BY <1>2, <1>3, <1>4 DEF SameGame, SameScore, Sound, InPlay, Running
<1>5. CASE Over(s)
  BY <1>2, <1>3, <1>5 DEF SameGame, SameScore, Sound, Over
<1>6. CASE InLobby(s)
  BY <1>6 DEF SameGame, SameScore, Sound, InLobby
<1> QED BY <1>4, <1>5, <1>6 DEF Sound

----------------------------------------------------------------------------
(* The invariant, action by action. *)

LEMMA LeaveRoomSound ==
  ASSUME TypeOK, Cards, Sound(room), NEW p \in User, LeaveRoom(p)
  PROVE  Sound(room')
<1> DEFINE passed == IF room.phase = "playing" /\ room.turn = p
                     THEN ApplySkip(room, p) ELSE room
           gone == RemoveSeat(passed, p)
           settled == IF gone.phase = "playing"
                      THEN MaybeEndGame(ReconcileSkipProgression(gone))
                      ELSE gone
           cleared == ClearPlayerRuntime(settled, p)
           t == TransferHost(cleared, p)
<1>1. WellTyped(room) /\ p \in Seated(room) /\ room' = t
  BY DEF TypeOK, LeaveRoom, IsController
<1>2. WellTyped(passed) /\ WellTyped(settled) /\ WellTyped(cleared)
  BY <1>1, LeaveChain
<1>3. p \in Seated(passed)
  BY <1>1, ApplySkipKeeps DEF KeepsTable, SameTable, Seated
<1>4. Sound(passed) /\ (InPlay(passed) => passed.turn # p)
  <2>1. CASE room.phase = "playing" /\ room.turn = p
    <3>1. InPlay(room)
      BY <2>1 DEF Sound, Over, InLobby
    <3>2. room.stackCount = 0 <=> room.topPlay = NoPlay
      BY DEF Cards, PileCounted
    <3>3. Over(passed) \/ (InPlay(passed) /\ passed.turn # p)
      BY <2>1, <3>1, <3>2, ApplySkipSound
    <3>4. ~(Over(passed) /\ InPlay(passed))
      BY DEF Over, InPlay, Running
    <3> QED BY <3>3, <3>4 DEF Sound
  <2>2. CASE ~(room.phase = "playing" /\ room.turn = p)
    BY <2>2 DEF InPlay, Running
  <2> QED BY <2>1, <2>2
<1> HIDE DEF passed
<1>5. gone.phase = passed.phase
  BY <1>2, <1>3, RemoveSeatFields
<1>6. Sound(settled)
  <2>1. CASE InPlay(passed)
    <3>1. gone.phase = "playing"
      BY <1>5, <2>1 DEF InPlay, Running
    <3> QED BY <1>3, <1>4, <2>1, <3>1, LeaveInPlay DEF Sound
  <2>2. CASE Over(passed)
    <3>1. gone.phase # "playing" /\ Over(gone)
      BY <1>3, <1>5, <2>2, LeaveOver DEF Over
    <3> QED BY <3>1 DEF Sound
  <2>3. CASE InLobby(passed)
    <3>1. gone.phase # "playing" /\ InLobby(gone)
      BY <1>3, <1>5, <2>3, LeaveLobby DEF InLobby
    <3> QED BY <3>1 DEF Sound
  <2> QED BY <1>4, <2>1, <2>2, <2>3 DEF Sound
<1> HIDE DEF settled
<1>7. SameGame(settled, cleared)
  BY <1>2 DEF WellTyped, Room, ClearPlayerRuntime, SameGame, SameScore
<1>8. Sound(cleared)
  BY <1>2, <1>6, <1>7, SameGameSound
<1> HIDE DEF cleared
<1>9. SameGame(cleared, t)
  BY <1>2 DEF WellTyped, Room, TransferHost, SameGame, SameScore
<1>10. WellTyped(t)
  BY <1>1, LeaveRoomTypeOK DEF TypeOK
<1> QED BY <1>1, <1>8, <1>9, <1>10, SameGameSound

\* A snapshot never holds a pending finish that a later play covered, so a
\* restart confirms none: it only takes everybody offline.
LEMMA RestartSound ==
  ASSUME TypeOK, Sound(room), Restart
  PROVE  Sound(room')
<1>1. PendingOnTop(room)
  BY DEF Sound, InPlay, Over, InLobby, PendingOnTop
<1>2. room' = [room EXCEPT !.online = {}]
  BY <1>1 DEF Restart, PendingFinishIsTopPlay, PendingOnTop
<1>3. WellTyped(room')
  BY RestartTypeOK DEF TypeOK
<1>4. SameGame(room, room')
  BY <1>2 DEF TypeOK, WellTyped, Room, SameGame, SameScore
<1> QED BY <1>3, <1>4, SameGameSound

LEMMA PresenceSound ==
  ASSUME TypeOK, Sound(room), NEW p \in User,
         Reconnect(p) \/ Disconnect(p) \/ ReturnToLobby(p)
  PROVE  Sound(room')
<1>1. WellTyped(room')
  BY ReconnectTypeOK, DisconnectTypeOK, ReturnToLobbyTypeOK DEF TypeOK
<1>2. SameGame(room, room')
  <2>1. CASE Reconnect(p)
    BY <2>1 DEF TypeOK, WellTyped, Room, Reconnect, SameGame, SameScore
  <2>2. CASE Disconnect(p)
    BY <2>2 DEF TypeOK, WellTyped, Room, Disconnect, SameGame, SameScore
  <2>3. CASE ReturnToLobby(p)
    BY <2>3 DEF TypeOK, WellTyped, Room, ReturnToLobby, SameGame, SameScore
  <2> QED BY <2>1, <2>2, <2>3
<1> QED BY <1>1, <1>2, SameGameSound

\* Seats and configuration change in the lobby only.
LEMMA LobbySound ==
  ASSUME TypeOK, Sound(room), NEW p \in User,
         NEW decks \in Nat, NEW winners \in Nat,
         Seat(p, decks, winners) \/ SetConfig(p, decks, winners)
  PROVE  Sound(room')
<1>1. InLobby(room)
  BY DEF Seat, SetConfig, Sound, InPlay, Running, Over
<1>2. WellTyped(room')
  BY SeatTypeOK, SetConfigTypeOK DEF TypeOK
<1>3. /\ room'.phase = room.phase /\ room'.result = room.result
      /\ room'.turn = room.turn /\ room'.pending = room.pending
      /\ room'.winners = room.winners /\ room'.done = room.done
  <2>1. CASE Seat(p, decks, winners)
    BY <2>1 DEF TypeOK, WellTyped, Room, Seat
  <2>2. CASE SetConfig(p, decks, winners)
    BY <2>2 DEF TypeOK, WellTyped, Room, SetConfig
  <2> QED BY <2>1, <2>2
<1> QED BY <1>1, <1>2, <1>3 DEF InLobby, Sound

LEMMA ResetToLobbySound ==
  ASSUME TypeOK, NEW p \in User, ResetToLobby(p)
  PROVE  Sound(room')
<1>1. WellTyped(room')
  BY ResetToLobbyTypeOK DEF TypeOK
<1>2. /\ room'.phase = "lobby" /\ room'.result = NoResult
      /\ room'.turn = NoOne /\ room'.pending = NoOne
      /\ room'.winners = <<>> /\ room'.done = {}
  BY DEF TypeOK, WellTyped, Room, ResetToLobby, ClearRound, SetCurrentTurn
<1> QED BY <1>1, <1>2 DEF InLobby, Sound

LEMMA SkipSound ==
  ASSUME TypeOK, Cards, Sound(room), NEW p \in User, room.phase = "playing",
         p = room.turn, room' = ApplySkip(room, p)
  PROVE  Sound(room')
<1>1. InPlay(room)
  BY DEF Sound, Over, InLobby
<1>2. room.stackCount = 0 <=> room.topPlay = NoPlay
  BY DEF Cards, PileCounted
<1> QED BY <1>1, <1>2, ApplySkipSound DEF Sound
----------------------------------------------------------------------------
(* A match starts. *)

LEMMA AtLeastOnce ==
  ASSUME NEW n \in Nat, NEW m \in Nat, m > 0, n >= m
  PROVE  n \div m >= 1
BY SMT

\* With no more players than cards everybody is dealt some.
LEMMA EverybodyHasCards ==
  ASSUME NEW s, WellTyped(s), Len(s.seats) >= 2,
         Len(s.seats) <= Cardinality(Face) * s.deckCount,
         NEW owner \in Deals(s), NEW q \in Seated(s)
  PROVE  Cardinality(DealtTo(owner, q)) >= 1
<1> DEFINE cards == Cardinality(GenerateDecks(s.deckCount))
           n == Len(s.seats)
<1>1. n \in Nat /\ s.deckCount \in Nat /\ s.deckCount >= 1
  BY DEF WellTyped, Room, MaxDecks
<1>2. IsFiniteSet(1..s.deckCount) /\ Cardinality(1..s.deckCount) = s.deckCount
  <2> DEFINE d == s.deckCount
  <2>1. 1 \in Int /\ d \in Int /\ d >= 1
    BY <1>1
  <2> HIDE DEF d
  <2>2. /\ IsFiniteSet(1..d)
        /\ Cardinality(1..d) = IF 1 > d THEN 0 ELSE d - 1 + 1
    BY <2>1, FS_Interval
  <2>3. (IF 1 > d THEN 0 ELSE d - 1 + 1) = d
    BY <2>1
  <2>4. IsFiniteSet(1..d) /\ Cardinality(1..d) = d
    BY <2>2, <2>3
  <2> QED BY <2>4 DEF d
<1>3. cards = Cardinality(Face) * s.deckCount
  BY <1>2, FS_Product, DeckAssumption DEF GenerateDecks
<1>4. cards \in Nat
  <2>1. IsFiniteSet(GenerateDecks(s.deckCount))
    BY <1>2, FS_Product, DeckAssumption DEF GenerateDecks
  <2> QED BY <2>1, FS_CardinalityType
<1>5. Cardinality(DealtTo(owner, q)) = cards \div n
  BY DEF Deals, HandSize
<1>6. n >= 2 /\ n <= cards
  BY <1>3
<1> HIDE DEF cards, n
<1>7. cards \div n >= 1
  BY <1>1, <1>4, <1>6, AtLeastOnce
<1> QED BY <1>5, <1>7

LEMMA TwoSeatsTwoPlayers ==
  ASSUME NEW s, WellTyped(s), Len(s.seats) >= 2, s.done = {}
  PROVE  Cardinality(ActivePlayers(s)) >= 2
<1>1. /\ 1 \in DOMAIN s.seats /\ 2 \in DOMAIN s.seats
      /\ IsInjectiveSeq(s.seats)
  BY DEF WellTyped, Room
<1>2. s.seats[1] # s.seats[2]
  BY <1>1 DEF IsInjectiveSeq
<1>3. s.seats[1] \in ActivePlayers(s) /\ s.seats[2] \in ActivePlayers(s)
  BY <1>1 DEF ActivePlayers, Seated, Range
<1> QED BY <1>2, <1>3, SeatedAreFinite, TwoMembers

LEMMA StartGameSound ==
  ASSUME TypeOK, NEW p \in User, StartGame(p)
  PROVE  Sound(room')
<1>1. PICK owner \in Deals(room) : \E opener \in Openers(room, owner) :
        room' = [SetCurrentTurn(ClearRound(room), opener) EXCEPT
          !.phase = "playing", !.locked = TRUE, !.ready = {},
          !.winnerCount = IF room.locked THEN @
                          ELSE ClampWinners(@, Len(room.seats)),
          !.winners = <<>>, !.done = {}, !.pending = NoOne,
          !.hands = [q \in User |-> DealtTo(owner, q)],
          !.handCount = [q \in User |-> Cardinality(DealtTo(owner, q))],
          !.result = NoResult]
  BY DEF StartGame
<1>2. PICK opener \in Openers(room, owner) :
        room' = [SetCurrentTurn(ClearRound(room), opener) EXCEPT
          !.phase = "playing", !.locked = TRUE, !.ready = {},
          !.winnerCount = IF room.locked THEN @
                          ELSE ClampWinners(@, Len(room.seats)),
          !.winners = <<>>, !.done = {}, !.pending = NoOne,
          !.hands = [q \in User |-> DealtTo(owner, q)],
          !.handCount = [q \in User |-> Cardinality(DealtTo(owner, q))],
          !.result = NoResult]
  BY <1>1
<1>3. WellTyped(room')
  BY StartGameTypeOK DEF TypeOK
<1> DEFINE c == ClearRound(room)
<1>4. c \in Room /\ c.topPlay = NoPlay /\ c.skips = <<>> /\ c.seats = room.seats
  BY ClearRoundKeeps DEF TypeOK, KeepsTable, WellTyped, Room, ClearRound
<1>5. /\ room'.phase = "playing" /\ room'.result = NoResult
      /\ room'.winners = <<>> /\ room'.done = {} /\ room'.pending = NoOne
      /\ room'.topPlay = NoPlay /\ room'.skips = <<>>
      /\ room'.seats = room.seats /\ room'.turn = opener
      /\ room'.handCount = [q \in User |-> Cardinality(DealtTo(owner, q))]
  <2> HIDE DEF c
  <2>1. room' = [SetCurrentTurn(c, opener) EXCEPT
          !.phase = "playing", !.locked = TRUE, !.ready = {},
          !.winnerCount = IF room.locked THEN @
                          ELSE ClampWinners(@, Len(room.seats)),
          !.winners = <<>>, !.done = {}, !.pending = NoOne,
          !.hands = [q \in User |-> DealtTo(owner, q)],
          !.handCount = [q \in User |-> Cardinality(DealtTo(owner, q))],
          !.result = NoResult]
    BY <1>2 DEF c
  <2> QED BY <1>4, <2>1 DEF Room, SetCurrentTurn
<1> HIDE DEF c
<1>6. /\ Seated(room') = Seated(room) /\ ActivePlayers(room') = Seated(room)
      /\ Seated(room) \subseteq User
  BY <1>5, TableOfRoom DEF Seated, ActivePlayers, TypeOK
<1>7. Finishers(room')
  <2> SUFFICES ASSUME NEW q \in Seated(room)
               PROVE  room'.handCount[q] # 0 /\ NoOne # q
    BY <1>5, <1>6 DEF Finishers
  <2>1. Cardinality(DealtTo(owner, q)) >= 1
    BY EverybodyHasCards DEF TypeOK, StartGame
  <2> QED BY <1>5, <1>6, <2>1, IdentityAssumption
<1>8. Running(room')
  <2>1. WinOrder(room')
    BY <1>5 DEF WinOrder, IsInjectiveSeq, Range
  <2>2. Cardinality(ActivePlayers(room')) >= 2
    <3>1. Len(room'.seats) >= 2
      BY <1>5 DEF StartGame
    <3> QED BY <1>3, <1>5, <3>1, TwoSeatsTwoPlayers
  <2>3. Len(room'.winners) < room'.winnerCount
    <3>1. room'.winnerCount \in Nat \ {0}
      BY <1>3 DEF WellTyped, Room
    <3>2. Len(room'.winners) = 0
      BY <1>5
    <3> QED BY <3>1, <3>2
  <2> QED BY <1>3, <1>5, <2>1, <2>2, <2>3 DEF Running, GoesOn
<1>9. PendingOnTop(room')
  BY <1>5 DEF PendingOnTop
<1>10. room'.turn \in Rotation(room')
  <2>1. opener \in Seated(room)
    BY DEF Openers
  <2> QED BY <1>5, <1>6, <1>7, <2>1, RotationOfFinishers, IdentityAssumption
<1>11. SkipsFit(room')
  BY <1>5, <1>10, FreshTurn DEF TakesOver, SkipsFit
<1>12. InPlay(room')
  BY <1>7, <1>8, <1>9, <1>10, <1>11 DEF InPlay
<1> QED BY <1>12 DEF Sound

----------------------------------------------------------------------------
(* Cards are played. *)

LEMMA PlaceCardsFields ==
  ASSUME NEW s, WellTyped(s), NEW p \in User,
         NEW cards \in SUBSET s.hands[p], cards # {},
         NEW claims \in PlayableClaims(s, Cardinality(cards)),
         NEW u, u = PlaceCards(s, p, cards, claims)
  PROVE  /\ WellTyped(u) /\ u.topPlay # NoPlay /\ u.topPlay.player = p
         /\ u.skips = <<>>
         /\ \A q \in User \ {p} : u.handCount[q] = s.handCount[q]
         /\ u.seats = s.seats /\ u.done = s.done
         /\ u.winners = s.winners /\ u.winnerCount = s.winnerCount
         /\ u.pending = s.pending /\ u.phase = s.phase /\ u.result = s.result
<1> DEFINE play == [player |-> p, cards |-> cards, claims |-> claims]
           n == Cardinality(s.hands[p] \ cards)
<1>1. WellTyped(u)
  BY PlaceCardsTyped
<1>2. play \in TopPlay
  <2>1. cards \in SUBSET Card
    BY DEF WellTyped, Room
  <2> QED BY <2>1, PlayableClaimsAreGroups DEF TopPlay
<1>3. play # NoPlay /\ play.player = p
  BY <1>2, AbsenceAssumption
<1>4. /\ u.topPlay = play /\ u.skips = <<>>
      /\ u.handCount = [s.handCount EXCEPT ![p] = n]
      /\ u.seats = s.seats /\ u.done = s.done
      /\ u.winners = s.winners /\ u.winnerCount = s.winnerCount
      /\ u.pending = s.pending /\ u.phase = s.phase /\ u.result = s.result
  BY DEF WellTyped, Room, PlaceCards
<1>5. s.handCount \in [User -> Nat]
  BY DEF WellTyped, Room
<1> HIDE DEF play, n
<1>6. \A q \in User \ {p} : u.handCount[q] = s.handCount[q]
  BY <1>4, <1>5
<1> QED BY <1>1, <1>3, <1>4, <1>6

LEMMA PlayCardsSound ==
  ASSUME TypeOK, Sound(room), NEW p \in User, NEW cards \in SUBSET room.hands[p],
         NEW claims \in PlayableClaims(room, Cardinality(cards)),
         PlayCards(p, cards, claims)
  PROVE  Sound(room') /\ (room'.phase = "playing" => room'.turn # p)
<1> DEFINE placed == PlaceCards(room, p, cards, claims)
           covers == PendingFinishIsTopPlay(room)
           t == IF covers THEN ConfirmPendingFinish(placed) ELSE placed
           v == [t EXCEPT !.pending = p]
           settled == SettleFinishes(placed, p, covers)
           next == GetNextPlayerID(settled, p)
<1>1. /\ WellTyped(room) /\ cards # {} /\ room.phase = "playing"
      /\ room.turn = p
      /\ room' = IF settled.phase = "playing"
                 THEN SetCurrentTurn(settled, next) ELSE settled
  BY DEF TypeOK, PlayCards, OnTurn
<1>2. InPlay(room)
  BY <1>1 DEF Sound, Over, InLobby
<1>3. p \in ActivePlayers(room) /\ p # room.pending /\ p # NoOne
  BY <1>1, <1>2, RotationOfFinishers, IdentityAssumption DEF InPlay
<1>4. /\ WellTyped(placed) /\ placed.topPlay # NoPlay
      /\ placed.topPlay.player = p /\ placed.skips = <<>>
      /\ \A q \in User \ {p} : placed.handCount[q] = room.handCount[q]
      /\ placed.seats = room.seats /\ placed.done = room.done
      /\ placed.winners = room.winners
      /\ placed.winnerCount = room.winnerCount
      /\ placed.pending = room.pending /\ placed.phase = room.phase
      /\ placed.result = room.result
  BY <1>1, PlaceCardsFields
<1> HIDE DEF placed
<1>5. /\ Seated(placed) = Seated(room)
      /\ ActivePlayers(placed) = ActivePlayers(room)
      /\ ActivePlayers(room) \subseteq User
  BY <1>1, <1>4, TableOfRoom DEF Seated, ActivePlayers
<1>6. Running(placed)
  BY <1>2, <1>4, <1>5 DEF InPlay, Running, WinOrder, GoesOn
<1>7. \A q \in ActivePlayers(room) \ {p, room.pending} : placed.handCount[q] # 0
  BY <1>2, <1>4, <1>5 DEF InPlay, Finishers
<1>8. \/ Over(t)
      \/ /\ Running(t) /\ SameRound(placed, t) /\ t.pending = NoOne
         /\ ActivePlayers(t) = ActivePlayers(room) \ {room.pending}
  <2>1. CASE covers
    <3>1. placed.pending \in ActivePlayers(placed)
            => placed.handCount[placed.pending] = 0
      BY <1>2, <1>3, <1>4, <1>5 DEF InPlay, Finishers
    <3> QED BY <1>4, <1>5, <1>6, <2>1, <3>1, ConfirmSound
  <2>2. CASE ~covers
    <3>1. room.pending = NoOne
      BY <1>2, <2>2 DEF InPlay, PendingOnTop, PendingFinishIsTopPlay
    <3>2. room.pending \notin ActivePlayers(room)
      BY <1>5, <3>1, IdentityAssumption
    <3> QED BY <1>4, <1>5, <1>6, <2>2, <3>1, <3>2 DEF SameRound
  <2> QED BY <2>1, <2>2
<1>9. settled = IF t.phase = "playing" /\ t.handCount[p] = 0 THEN v ELSE t
  BY DEF SettleFinishes
<1> HIDE DEF t
<1>10. CASE Over(t)
  <2>1. settled = t /\ settled.phase # "playing"
    BY <1>9, <1>10 DEF Over
  <2> QED BY <1>1, <1>10, <2>1 DEF Sound
<1>11. CASE /\ Running(t) /\ SameRound(placed, t) /\ t.pending = NoOne
            /\ ActivePlayers(t) = ActivePlayers(room) \ {room.pending}
  <2>1. /\ WellTyped(v) /\ v.pending = p /\ v.seats = t.seats
        /\ v.done = t.done /\ v.winners = t.winners
        /\ v.winnerCount = t.winnerCount /\ v.handCount = t.handCount
        /\ v.topPlay = t.topPlay /\ v.skips = t.skips
        /\ v.phase = t.phase /\ v.result = t.result
    <3>1. WellTyped(t)
      BY <1>11 DEF Running
    <3>2. p \in User \cup {NoOne}
      OBVIOUS
    <3>3. WellTyped(v)
      BY <3>1, <3>2, PendingKeeps DEF KeepsTable
    <3>4. /\ v.pending = p /\ v.seats = t.seats
          /\ v.done = t.done /\ v.winners = t.winners
          /\ v.winnerCount = t.winnerCount /\ v.handCount = t.handCount
          /\ v.topPlay = t.topPlay /\ v.skips = t.skips
          /\ v.phase = t.phase /\ v.result = t.result
      BY <3>1 DEF WellTyped, Room
    <3> QED BY <3>3, <3>4
  <2> HIDE DEF v
  <2>2. /\ settled.pending = IF t.handCount[p] = 0 THEN p ELSE NoOne
        /\ WellTyped(settled) /\ settled.seats = t.seats
        /\ settled.done = t.done /\ settled.winners = t.winners
        /\ settled.winnerCount = t.winnerCount
        /\ settled.handCount = t.handCount
        /\ settled.topPlay = t.topPlay /\ settled.skips = t.skips
        /\ settled.phase = t.phase /\ settled.result = t.result
    BY <1>9, <1>11, <2>1 DEF Running
  <2> HIDE DEF settled
  <2>3. /\ Seated(settled) = Seated(t)
        /\ ActivePlayers(settled) = ActivePlayers(room) \ {room.pending}
    BY <1>11, <2>2 DEF Seated, ActivePlayers
  <2>4. Running(settled)
    BY <1>11, <2>2, <2>3 DEF Running, WinOrder, GoesOn, ActivePlayers
  <2>5. PendingOnTop(settled)
    <3>1. p \in ActivePlayers(settled)
      BY <1>3, <2>3
    <3> QED BY <1>4, <1>11, <2>2, <3>1
            DEF SameRound, PendingOnTop, ActivePlayers
  <2>6. Finishers(settled)
    <3> SUFFICES ASSUME NEW q \in ActivePlayers(settled)
                 PROVE  settled.handCount[q] = 0 <=> settled.pending = q
      BY DEF Finishers
    <3>1. CASE q = p
      BY <1>3, <2>2, <3>1
    <3>2. CASE q # p
      <4>1. q \in ActivePlayers(room) \ {p, room.pending} /\ q # NoOne
        BY <1>5, <2>3, <3>2, IdentityAssumption
      <4>2. settled.handCount[q] # 0
        BY <1>7, <1>11, <2>2, <4>1 DEF SameRound
      <4> QED BY <2>2, <3>2, <4>1, <4>2
    <3> QED BY <3>1, <3>2
  <2>7. next \in Rotation(settled)
    BY <2>2, <2>4, <2>6, RunningHasRotation, TableOfRoom, NextIsInRotation
  <2>8. settled.skips = <<>>
    BY <1>4, <1>11, <2>2 DEF SameRound
  <2>10. next # p
    <3>1. CASE settled.pending = p
      BY <2>6, <2>7, <3>1, RotationOfFinishers
    <3>2. CASE settled.pending # p
      <4>1. settled.pending = NoOne
        BY <2>2, <3>2
      <4>2. PICK q \in Rotation(settled) : q # p
        BY <2>4, <2>6, <4>1, RunningHasAnother
      <4> QED BY <2>2, <4>2, TableOfRoom, NextIsAnother
    <3> QED BY <3>1, <3>2
  <2> HIDE DEF next
  <2>9. InPlay(SetCurrentTurn(settled, next))
    BY <2>4, <2>5, <2>6, <2>7, <2>8, FreshTurn, TurnGiven
  <2>11. room' = SetCurrentTurn(settled, next)
    BY <1>1, <2>4 DEF Running
  <2>12. room'.turn = next
    BY <2>2, <2>11 DEF SetCurrentTurn, WellTyped, Room
  <2> QED BY <2>9, <2>10, <2>11, <2>12 DEF Sound
<1> QED BY <1>8, <1>10, <1>11

----------------------------------------------------------------------------
(* A challenge. *)

LEMMA PickUpFields ==
  ASSUME NEW s, WellTyped(s), s.stack # {}, NEW loser \in User,
         NEW u, u = PickUpStack(s, loser)
  PROVE  /\ WellTyped(u) /\ u.handCount[loser] # 0
         /\ \A q \in User \ {loser} : u.handCount[q] = s.handCount[q]
         /\ u.topPlay = NoPlay /\ u.skips = <<>>
         /\ u.seats = s.seats /\ u.done = s.done
         /\ u.winners = s.winners /\ u.winnerCount = s.winnerCount
         /\ u.pending = s.pending /\ u.phase = s.phase /\ u.result = s.result
<1> DEFINE hand == s.hands[loser] \cup s.stack
           n == Cardinality(hand)
<1>1. hand \in SUBSET Card /\ hand # {}
  BY DEF WellTyped, Room
<1> HIDE DEF hand
<1>2. n # 0
  BY <1>1, CardsAreFinite
<1> USE DEF hand
<1>3. /\ u.handCount = [s.handCount EXCEPT ![loser] = n]
      /\ u.topPlay = NoPlay /\ u.skips = <<>>
      /\ u.seats = s.seats /\ u.done = s.done
      /\ u.winners = s.winners /\ u.winnerCount = s.winnerCount
      /\ u.pending = s.pending /\ u.phase = s.phase /\ u.result = s.result
  BY DEF WellTyped, Room, PickUpStack, ClearRound
<1> HIDE DEF hand, n
<1>4. s.handCount \in [User -> Nat]
  BY DEF WellTyped, Room
<1>5. /\ u.handCount[loser] = n
      /\ \A q \in User \ {loser} : u.handCount[q] = s.handCount[q]
  BY <1>3, <1>4
<1> QED BY <1>2, <1>3, <1>5, PickUpStackTyped

\* Nobody is left without cards and unconfirmed, and the challenger still plays.
Judged(s, p) ==
  /\ Running(s) /\ Finishers(s) /\ s.pending = NoOne /\ s.skips = <<>>
  /\ p \in ActivePlayers(s)

\* Whatever the verdict, the finish of the challenged player is settled by it.
LEMMA VerdictSound ==
  ASSUME NEW s, InPlay(s), NEW p, p = s.turn, s.stack # {}, NEW maker,
         s.topPlay # NoPlay, s.topPlay.player = maker, maker # p,
         maker \in ActivePlayers(s), NEW wasBluff \in BOOLEAN,
         NEW taken, taken = PickUpStack(s, IF wasBluff THEN maker ELSE p),
         NEW judged, judged = IF s.pending = maker
                              THEN JudgeFinish(taken, wasBluff) ELSE taken
  PROVE  Over(judged) \/ Judged(judged, p)
<1> DEFINE loser == IF wasBluff THEN maker ELSE p
<1>1. /\ WellTyped(s) /\ Finishers(s) /\ Running(s)
      /\ p \in ActivePlayers(s) /\ ActivePlayers(s) \subseteq User
      /\ NoOne \notin ActivePlayers(s)
  BY TableOfRoom, RotationOfFinishers DEF InPlay, Running, ActivePlayers
<1>2. s.pending \in {NoOne, maker}
  BY DEF InPlay, PendingOnTop
<1>3. loser \in User
  BY <1>1
<1>4. /\ WellTyped(taken) /\ taken.handCount[loser] # 0
      /\ \A q \in User \ {loser} : taken.handCount[q] = s.handCount[q]
      /\ taken.skips = <<>> /\ taken.seats = s.seats /\ taken.done = s.done
      /\ taken.winners = s.winners /\ taken.winnerCount = s.winnerCount
      /\ taken.pending = s.pending /\ taken.phase = s.phase
      /\ taken.result = s.result
  BY <1>1, <1>3, PickUpFields
<1>5. Seated(taken) = Seated(s) /\ ActivePlayers(taken) = ActivePlayers(s)
  BY <1>4 DEF Seated, ActivePlayers
<1>6. Running(taken)
  BY <1>1, <1>4, <1>5 DEF Running, WinOrder, GoesOn
<1>7. \A q \in ActivePlayers(s) \ {s.pending} : taken.handCount[q] # 0
  BY <1>1, <1>4 DEF Finishers
<1>8. CASE s.pending # maker
  <2>1. judged = taken /\ s.pending = NoOne
    BY <1>2, <1>8
  <2>2. Finishers(taken)
    BY <1>1, <1>4, <1>5, <1>7, <2>1 DEF Finishers
  <2> QED BY <1>1, <1>4, <1>5, <1>6, <2>1, <2>2 DEF Judged
<1>9. CASE s.pending = maker /\ wasBluff
  <2>1. judged = Cleared(taken) /\ loser = maker
    BY <1>9 DEF JudgeFinish, Cleared
  <2>2. /\ WellTyped(judged) /\ SameRound(taken, judged)
        /\ judged.pending = NoOne /\ judged.done = taken.done
        /\ judged.winners = taken.winners /\ judged.phase = taken.phase
        /\ judged.winnerCount = taken.winnerCount
        /\ judged.result = taken.result
    BY <1>4, <2>1, ClearedFields
  <2>3. Seated(judged) = Seated(taken) /\ ActivePlayers(judged) = ActivePlayers(s)
    BY <1>5, <2>2 DEF SameRound, Seated, ActivePlayers
  <2>4. Running(judged)
    BY <1>5, <1>6, <2>2, <2>3 DEF Running, WinOrder, GoesOn
  <2>5. \A q \in ActivePlayers(s) : judged.handCount[q] # 0
    BY <1>4, <1>7, <1>9, <2>1, <2>2 DEF SameRound
  <2>6. Finishers(judged)
    BY <1>1, <2>2, <2>3, <2>5 DEF Finishers
  <2> QED BY <1>1, <1>4, <2>2, <2>3, <2>4, <2>6 DEF SameRound, Judged
<1>10. CASE s.pending = maker /\ ~wasBluff
  <2>1. judged = ConfirmPendingFinish(taken) /\ loser = p
    BY <1>10 DEF JudgeFinish
  <2>2. taken.handCount[taken.pending] = 0
    BY <1>1, <1>4, <1>10, <2>1 DEF Finishers
  <2>3. \/ Over(judged)
        \/ /\ Running(judged) /\ SameRound(taken, judged)
           /\ judged.pending = NoOne
           /\ ActivePlayers(judged) = ActivePlayers(s) \ {maker}
    BY <1>4, <1>5, <1>6, <1>10, <2>1, <2>2, ConfirmSound
  <2>4. ASSUME Running(judged), SameRound(taken, judged),
               judged.pending = NoOne,
               ActivePlayers(judged) = ActivePlayers(s) \ {maker}
        PROVE  Judged(judged, p)
    <3>1. \A q \in ActivePlayers(judged) : judged.handCount[q] # 0
      BY <1>7, <1>10, <2>4 DEF SameRound
    <3>2. Finishers(judged)
      BY <1>1, <2>4, <3>1 DEF Finishers
    <3> QED BY <1>1, <1>4, <2>4, <3>2 DEF SameRound, Judged
  <2> QED BY <2>3, <2>4
<1> QED BY <1>8, <1>9, <1>10

LEMMA ChallengeSound ==
  ASSUME TypeOK, Cards, Sound(room), NEW p \in User, Challenge(p)
  PROVE  Sound(room')
<1> DEFINE maker == room.topPlay.player
           wasBluff == IsClaimBluff(room.topPlay.cards, room.topPlay.claims)
           taken == PickUpStack(room, IF wasBluff THEN maker ELSE p)
           judged == IF room.pending = maker THEN JudgeFinish(taken, wasBluff)
                     ELSE taken
           starter == IF wasBluff THEN p
                      ELSE IF maker \in ActivePlayers(judged) THEN maker
                      ELSE GetNextPlayerID(judged, maker)
<1>1. /\ room.phase = "playing" /\ room.turn = p /\ room.stackCount # 0
      /\ room.topPlay # NoPlay /\ maker # p /\ maker \in ActivePlayers(room)
      /\ room' = MaybeEndGame(IF judged.phase = "playing"
                              THEN SetCurrentTurn(judged, starter)
                              ELSE judged)
  BY DEF Challenge, OnTurn
<1>2. InPlay(room)
  BY <1>1 DEF Sound, Over, InLobby
<1>3. room.stack # {}
  BY <1>1, FS_EmptySet DEF Cards, PileCounted
<1>4. wasBluff \in BOOLEAN
  BY DEF IsClaimBluff
<1>5. Over(judged) \/ Judged(judged, p)
  <2> HIDE DEF wasBluff
  <2> QED BY <1>1, <1>2, <1>3, <1>4, VerdictSound
<1> HIDE DEF judged, maker, wasBluff
<1>6. CASE Over(judged)
  <2>1. judged.phase # "playing"
    BY <1>6 DEF Over
  <2> QED BY <1>1, <1>6, <2>1, OverStays DEF Sound
<1>7. CASE Judged(judged, p)
  <2>1. /\ Running(judged) /\ Finishers(judged) /\ judged.pending = NoOne
        /\ judged.skips = <<>> /\ p \in ActivePlayers(judged)
        /\ WellTyped(judged) /\ judged.phase = "playing"
    BY <1>7 DEF Judged, Running
  <2>2. /\ Rotation(judged) = ActivePlayers(judged) /\ Rotation(judged) # {}
    BY <2>1, TableOfRoom, RotationOfFinishers, RunningHasRotation
       DEF ActivePlayers
  <2>3. starter \in Rotation(judged)
    BY <2>1, <2>2, TableOfRoom, NextIsInRotation
  <2> HIDE DEF starter
  <2>4. PendingOnTop(judged)
    BY <2>1 DEF PendingOnTop
  <2>5. InPlay(SetCurrentTurn(judged, starter))
    BY <2>1, <2>3, <2>4, FreshTurn, TurnGiven
  <2> QED BY <1>1, <2>1, <2>5, InPlayGoesOn DEF Sound
<1> QED BY <1>5, <1>6, <1>7

----------------------------------------------------------------------------
(* The theorems. *)

LEMMA InitSound == Init => Sound(room)
<1> SUFFICES ASSUME Init PROVE Sound(room)
  OBVIOUS
<1>1. WellTyped(room)
  BY InitTypeOK DEF TypeOK
<1>2. /\ room.phase = "lobby" /\ room.result = NoResult /\ room.turn = NoOne
      /\ room.pending = NoOne /\ room.winners = <<>> /\ room.done = {}
  BY DEF Init, NewRoom
<1> QED BY <1>1, <1>2 DEF Sound, InLobby

LEMMA StepSound == TypeOK /\ Cards /\ Sound(room) /\ [Next]_room => Sound(room')
<1> SUFFICES ASSUME TypeOK, Cards, Sound(room), [Next]_room PROVE Sound(room')
  OBVIOUS
<1>1. ASSUME NEW p \in User, Reconnect(p) \/ Disconnect(p) \/ ReturnToLobby(p)
      PROVE  Sound(room')
  BY <1>1, PresenceSound
<1>2. ASSUME NEW p \in User, LeaveRoom(p) PROVE Sound(room')
  BY <1>2, LeaveRoomSound
<1>3. ASSUME NEW p \in User, ResetToLobby(p) PROVE Sound(room')
  BY <1>3, ResetToLobbySound
<1>4. ASSUME NEW p \in User, StartGame(p) PROVE Sound(room')
  BY <1>4, StartGameSound
<1>5. ASSUME NEW p \in User, Challenge(p) PROVE Sound(room')
  BY <1>5, ChallengeSound
<1>6. ASSUME NEW p \in User, Skip(p) PROVE Sound(room')
  BY <1>6, SkipSound DEF Skip, OnTurn
<1>7. ASSUME NEW p \in User, NEW decks \in ConfigDecks,
             NEW winners \in ConfigWinners,
             Seat(p, decks, winners) \/ SetConfig(p, decks, winners)
      PROVE  Sound(room')
  BY <1>7, ConfigAssumption, LobbySound
<1>8. ASSUME NEW p \in User, NEW cards \in SUBSET room.hands[p],
             NEW claims \in PlayableClaims(room, Cardinality(cards)),
             PlayCards(p, cards, claims)
      PROVE  Sound(room')
  BY <1>8, PlayCardsSound
<1>9. ASSUME Restart PROVE Sound(room')
  BY <1>9, RestartSound
<1>10. ASSUME TurnTimerExpired PROVE Sound(room')
  <2>1. /\ room.turn \in User /\ room' = ApplySkip(room, room.turn)
        /\ room.phase = "playing"
    BY <1>10 DEF TurnTimerExpired, TypeOK, WellTyped, Room
  <2> QED BY <2>1, SkipSound
<1>11. CASE UNCHANGED room
  BY <1>11
<1> QED BY <1>1, <1>2, <1>3, <1>4, <1>5, <1>6, <1>7, <1>8, <1>9, <1>10, <1>11
        DEF Next

LEMMA SoundIsKept == Spec => [](TypeOK /\ Cards /\ Sound(room))
<1>1. Init => TypeOK /\ Cards /\ Sound(room)
  BY InitTypeOK, InitCards, InitSound
<1>2. TypeOK /\ Cards /\ Sound(room) /\ [Next]_room
        => (TypeOK /\ Cards /\ Sound(room))'
  <2>1. Sound(room') <=> Sound(room)'
    OBVIOUS
  <2> QED BY <2>1, StepTypeOK, StepCards, StepSound
<1> QED BY <1>1, <1>2, PTL DEF Spec

\* In every reachable state of a match somebody who can still act is on turn,
\* and in no other phase anybody is, for any number of seats, any deck and any
\* winner target: no leave, burn, finish, challenge or restart strands the turn.
THEOREM TurnPlayable == Spec => []TurnIsPlayable
<1>1. Sound(room) => TurnIsPlayable
  BY DEF Sound, InPlay, Running, Over, InLobby, TurnIsPlayable
<1> QED BY <1>1, SoundIsKept, PTL

\* A skip or an expiry never leaves the turn where it was, and no counted skip
\* is one that an earlier play made void or that is counted twice.
THEOREM SkipPasses == Spec => []SkipPassesTheTurn
<1>1. TypeOK /\ Cards /\ Sound(room) => SkipPassesTheTurn
  <2> SUFFICES ASSUME TypeOK, Cards, Sound(room), room.phase = "playing"
               PROVE  /\ SkipsFit(room)
                      /\ ApplySkip(room, room.turn).turn # room.turn
    BY DEF SkipPassesTheTurn, SkipsFit
  <2>1. InPlay(room)
    BY DEF Sound, Over, InLobby
  <2>2. room.stackCount = 0 <=> room.topPlay = NoPlay
    BY DEF Cards, PileCounted
  <2>3. room.turn # NoOne
    BY <2>1, TableOfRoom DEF InPlay, Running, Rotation
  <2> DEFINE u == ApplySkip(room, room.turn)
  <2>4. Over(u) \/ (InPlay(u) /\ u.turn # room.turn)
    BY <2>1, <2>2, ApplySkipSound
  <2> HIDE DEF u
  <2>5. u.turn # room.turn
    BY <2>3, <2>4 DEF Over
  <2> QED BY <2>1, <2>5 DEF InPlay, u
<1> QED BY <1>1, SoundIsKept, PTL

\* A finish awaits confirmation exactly as long as its cards are the top play,
\* and nobody sits at the table with an empty hand that no confirmation awaits.
THEOREM FinishAccounted == Spec => []FinishIsAccounted
<1>1. Sound(room) => FinishIsAccounted
  <2> SUFFICES ASSUME Sound(room) PROVE FinishIsAccounted
    OBVIOUS
  <2>1. CASE InPlay(room)
    BY <2>1 DEF InPlay, Running, Finishers, PendingOnTop, FinishIsAccounted
  <2>2. CASE Over(room)
    BY <2>2 DEF Over, PendingOnTop, FinishIsAccounted
  <2>3. CASE InLobby(room)
    BY <2>3 DEF InLobby, FinishIsAccounted
  <2> QED BY <2>1, <2>2, <2>3 DEF Sound
<1> QED BY <1>1, SoundIsKept, PTL

\* The finishing order names nobody twice, agrees with the winner flags, stays
\* below the target while the match is played, and a match is recorded exactly
\* once it is finished, for any winner target and whoever leaves.
THEOREM WinnersRight == Spec => []WinnersAgree
<1>1. Sound(room) => WinnersAgree
  <2> SUFFICES ASSUME Sound(room) PROVE WinnersAgree
    OBVIOUS
  <2>1. CASE InPlay(room)
    <3>1. Len(room.winners) \in Nat /\ room.winnerCount \in Nat
      BY <2>1 DEF InPlay, Running, WellTyped, Room
    <3>2. Len(room.winners) < room.winnerCount
      BY <2>1 DEF InPlay, Running, GoesOn
    <3>3. Len(room.winners) <= room.winnerCount
      BY <3>1, <3>2
    <3> QED BY <2>1, <3>3 DEF InPlay, Running, WinOrder, GoesOn, WinnersAgree
  <2>2. CASE Over(room)
    BY <2>2 DEF Over, WinOrder, WinnersAgree
  <2>3. CASE InLobby(room)
    <3>1. IsInjectiveSeq(<<>>) /\ Range(<<>>) = {} /\ Len(<<>>) = 0
      BY DEF IsInjectiveSeq, Range
    <3>2. room.winnerCount \in Nat
      BY <2>3 DEF InLobby, WellTyped, Room
    <3>3. 0 <= room.winnerCount
      BY <3>2
    <3> QED BY <2>3, <3>1, <3>3 DEF InLobby, WinnersAgree
  <2> QED BY <2>1, <2>2, <2>3 DEF Sound
<1> QED BY <1>1, SoundIsKept, PTL
=============================================================================
