------------------------------- MODULE Rules -------------------------------
(***************************************************************************)
(* The pure game rules of internal/rules: opening declarations, bluff      *)
(* detection, rotation, match end, lobby limits and the deal.  A table     *)
(* argument t is any record with the fields the rule reads:                *)
(*   t.seats      seating order (the players slice)                        *)
(*   t.handCount  number of cards each user publicly holds                 *)
(*   t.done       users whose seat has the IsWinner flag                   *)
(*   t.pending    the user whose last cards await confirmation, or NoOne   *)
(***************************************************************************)
EXTENDS Integers, Sequences, FiniteSets, FiniteSetsExt, SequencesExt

CONSTANTS
  User,          \* player identities
  NoOne,         \* an absent player id (nil or "")
  Rank,          \* card ranks; 13 of them in the code
  Face,          \* the different cards of one deck; 52 in the code
  RankOf,        \* the rank of each face
  AceOfSpades,   \* the face that decides the opener
  GroupSize      \* cards in a full opening group; 4 in the code

MaxDecks == 3

ASSUME IdentityAssumption == NoOne \notin User
ASSUME DeckAssumption ==
  /\ IsFiniteSet(Rank) /\ IsFiniteSet(Face)
  /\ RankOf \in [Face -> Rank]
  /\ AceOfSpades \in Face
ASSUME GroupAssumption == GroupSize \in Nat \ {0}

(***************************************************************************)
(* Cards.  A card id names its face and the deck it comes from.            *)
(***************************************************************************)
Card == Face \X (1..MaxDecks)
CardRank(c) == RankOf[c[1]]
GenerateDecks(deckCount) == Face \X (1..deckCount)

\* One declared rank and count.  Only an opening group is limited in size.
ClaimGroup == [rank : Rank, count : Nat \ {0}]
OpeningGroup == [rank : Rank, count : 1..GroupSize]
ClaimedRanks(claims) == {claims[i].rank : i \in DOMAIN claims}
FinalRank(claims) == claims[Len(claims)].rank

\* Cards of a play that have rank r, and cards the claim says have rank r.
ActualCount(cards, r) == Cardinality({c \in cards : CardRank(c) = r})
ClaimedCount(claims, r) ==
  FoldSet(LAMBDA i, sum : sum + claims[i].count, 0,
          {i \in DOMAIN claims : claims[i].rank = r})
ClaimTotal(claims) ==
  FoldSet(LAMBDA i, sum : sum + claims[i].count, 0, DOMAIN claims)

(***************************************************************************)
(* The declaration of an opening play: different ranks, full groups, then  *)
(* one final group of at most a full group.                                *)
(***************************************************************************)
ValidOpeningClaims(claims, cardCount) ==
  /\ Len(claims) \in 1..Cardinality(Rank)
  /\ cardCount \in 1..(Cardinality(Rank) * GroupSize)
  /\ \A i, j \in DOMAIN claims : claims[i].rank = claims[j].rank => i = j
  /\ \A i \in DOMAIN claims :
        IF i = Len(claims) THEN claims[i].count \in 1..GroupSize
                           ELSE claims[i].count = GroupSize
  /\ ClaimTotal(claims) = cardCount

OpeningClaims(cardCount) ==
  {claims \in BoundedSeq(OpeningGroup, Cardinality(Rank)) :
     ValidOpeningClaims(claims, cardCount)}

\* Faulty variant: only the ranks of a declaration are compared.
RanksDiffer(cards, claims) ==
  {CardRank(c) : c \in cards} # ClaimedRanks(claims)

\* A play is truthful only when its cards are exactly what was declared.
IsClaimBluff(cards, claims) ==
  \/ cards = {} \/ claims = <<>>
  \/ ClaimTotal(claims) # Cardinality(cards)
  \/ {CardRank(c) : c \in cards} # ClaimedRanks(claims)
  \/ \E r \in ClaimedRanks(claims) :
        ActualCount(cards, r) # ClaimedCount(claims, r)

(***************************************************************************)
(* Rotation.                                                               *)
(***************************************************************************)
Seated(t) == Range(t.seats)
SeatOf(t, p) == CHOOSE i \in DOMAIN t.seats : t.seats[i] = p

IsPendingEmpty(t, p) == p = t.pending /\ t.handCount[p] = 0 /\ p \notin t.done
IsInRotation(t, p) == p \notin t.done /\ ~IsPendingEmpty(t, p)
Rotation(t) == {p \in Seated(t) : IsInRotation(t, p)}

\* The seat k places after seat i, around the table.
SeatAfter(t, i, k) == t.seats[((i - 1 + k) % Len(t.seats)) + 1]

\* Faulty variant: the next seat is on turn, in rotation or not.
NextSeat(t, p) ==
  SeatAfter(t, IF p \in Seated(t) THEN SeatOf(t, p) ELSE 1, 1)

\* Faulty variant: the search starts at the player's own seat.
SameSeatFirst(t, p) ==
  LET from == IF p \in Seated(t) THEN SeatOf(t, p) ELSE 1
      steps == {k \in 0..(Len(t.seats) - 1) :
                  IsInRotation(t, SeatAfter(t, from, k))}
  IN  IF steps = {} THEN p ELSE SeatAfter(t, from, Min(steps))

\* The next seat in rotation after player p.  A player without a seat counts
\* as the first seat; with nobody in rotation the answer is p itself.
GetNextPlayerID(t, p) ==
  LET from == IF p \in Seated(t) THEN SeatOf(t, p) ELSE 1
      steps == {k \in 1..Len(t.seats) : IsInRotation(t, SeatAfter(t, from, k))}
  IN  IF steps = {} THEN p ELSE SeatAfter(t, from, Min(steps))

ActivePlayers(t) == Seated(t) \ t.done

\* Faulty variant: one winner too many.
ShouldEndLate(t) ==
  \/ Len(t.winners) > t.winnerCount
  \/ Cardinality(ActivePlayers(t)) <= 1

\* The target is reached or at most one player is left to play.
ShouldEndGame(t) ==
  \/ Len(t.winners) >= (IF t.winnerCount < 1 THEN 1 ELSE t.winnerCount)
  \/ Cardinality(ActivePlayers(t)) <= 1

(***************************************************************************)
(* Lobby configuration and the deal.                                       *)
(***************************************************************************)
Clamp(n, low, high) == IF n < low THEN low ELSE IF n > high THEN high ELSE n
ClampDecks(deckCount) == Clamp(deckCount, 1, MaxDecks)
ClampWinners(winnerCount, playerCount) ==
  Clamp(winnerCount, 1, IF playerCount - 1 < 1 THEN 1 ELSE playerCount - 1)

\* What shuffling and dealing round-robin can produce, as the owner of every
\* card: each seat gets the same number, the remainder of the deck gets none.
HandSize(t) == Cardinality(GenerateDecks(t.deckCount)) \div Len(t.seats)
DealtTo(owner, p) == {c \in DOMAIN owner : owner[c] = p}
Deals(t) ==
  {owner \in [GenerateDecks(t.deckCount) -> Seated(t) \cup {NoOne}] :
     \A p \in Seated(t) : Cardinality(DealtTo(owner, p)) = HandSize(t)}

\* The holder of the ace of spades dealt first opens; with more than one deck
\* any of the holders may have got it first.  Without one the pick is random.
Openers(t, owner) ==
  LET holders == {p \in Seated(t) :
                    \E c \in DealtTo(owner, p) : c[1] = AceOfSpades}
  IN  IF holders = {} THEN Seated(t) ELSE holders
=============================================================================
