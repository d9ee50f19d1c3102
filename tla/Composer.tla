------------------------------ MODULE Composer ------------------------------
(* How a player puts a move together: the selection of GameRoom.tsx, the     *)
(* buttons of ActionBar.tsx, the opening declaration of OpeningDeclaration   *)
(* .tsx and its rules in shared/rules.ts, against the room of Match, which   *)
(* checks the same rules in its own words.  The page sees the room as it is: *)
(* how far the tab's copy lags behind is the subject of TableView.           *)
EXTENDS Match

CONSTANTS
    Me,            \* the user at this page; one device, in control
    NoForm,        \* no opening declaration on the page
    NoMove,        \* no command under way
    MaxStarts      \* bound: matches dealt

VARIABLES
    page,    \* selected cards, the wish to declare, the declaration shown
    sent,    \* the command under way
    starts
vars == <<room, page, sent, starts>>

Others == User \ {Me}

-----------------------------------------------------------------------------
(* shared/rules.ts. *)

\* Faulty variant: a full last group is followed by an empty one.
GroupCountsWithEmpty(n) ==
    [i \in 1..(n \div GroupSize + 1) |->
       IF i <= n \div GroupSize THEN GroupSize ELSE n % GroupSize]

\* getOpeningGroupCounts: full groups while more than one group is left, then
\* what remains; no groups for a count that cannot be declared.
GroupCounts(n) ==
    IF n \notin 1..(Cardinality(Rank) * GroupSize) THEN <<>>
    ELSE LET full == (n - 1) \div GroupSize
         IN  [i \in 1..(full + 1) |-> IF i <= full THEN GroupSize ELSE n - full * GroupSize]

IsValidOpening(claims, n) ==
    LET counts == GroupCounts(n)
    IN  /\ counts # <<>> /\ Len(claims) = Len(counts)
        /\ \A i \in DOMAIN claims :
             /\ claims[i].rank \in Rank /\ claims[i].count = counts[i]
             /\ \A j \in 1..(i - 1) : claims[j].rank # claims[i].rank

\* buildOpeningClaims: <<>> while a group has no rank.
BuildClaims(n, ranks) ==
    LET counts == GroupCounts(n)
        claims == [i \in DOMAIN counts |-> [rank |-> ranks[i], count |-> counts[i]]]
    IN  IF \/ Len(ranks) # Len(counts)
           \/ \E i \in DOMAIN ranks : ranks[i] = NoRank
           \/ ~IsValidOpening(claims, n)
        THEN <<>> ELSE claims

-----------------------------------------------------------------------------
(* What is on the page. *)

Hand     == room.hands[Me]
Selected == IF room.phase = "playing" THEN page.selected \cap Hand ELSE {}
Opening  == room.phase = "playing" /\ room.turn = Me /\ room.stackCount = 0
BarShown == /\ room.phase = "playing" /\ Me \in room.online /\ Me \notin room.done
            /\ sent = NoMove
Buttons  == BarShown /\ room.turn = Me /\ page.form = NoForm
Locked   == page.wants /\ Opening
Limit    == Cardinality(Rank) * GroupSize

\* A declaration starts with as many empty groups as the selection needs.
NewForm(n) == [ranks |-> [i \in DOMAIN GroupCounts(n) |-> NoRank], active |-> 1]

\* The page after a step: a declaration that stays on it keeps its ranks, one
\* that was away starts again.
Render(selected, wants) ==
    page' = [selected |-> selected, wants |-> wants,
             form |-> IF ~(wants /\ Opening' /\ BarShown') THEN NoForm
                      ELSE IF page.form # NoForm THEN page.form
                      ELSE NewForm(Cardinality(selected \cap Hand'))]

Unmoved == UNCHANGED <<room, sent, starts>>

ComposerInit ==
    /\ room = [NewRoom EXCEPT !.seats = SetToSeq(User), !.online = User, !.host = Me]
    /\ page = [selected |-> {}, wants |-> FALSE, form |-> NoForm]
    /\ sent = NoMove /\ starts = 0

-----------------------------------------------------------------------------
(* Choosing cards. *)

\* Faulty variant: the hand is not locked while a declaration is open.
ToggleUnlocked(c) ==
    /\ room.phase = "playing" /\ c \in Hand
    /\ Unmoved
    /\ Render(IF c \in Selected THEN Selected \ {c} ELSE Selected \cup {c}, page.wants)

Toggle(c) ==
    /\ room.phase = "playing" /\ c \in Hand /\ ~Locked
    /\ Unmoved
    /\ Render(IF c \in Selected THEN Selected \ {c} ELSE Selected \cup {c}, page.wants)

\* The play button asks for a declaration when the play opens a round.
AskDeclaration ==
    /\ Buttons /\ Opening /\ Cardinality(Selected) \in 1..Limit
    /\ Unmoved
    /\ Render(page.selected, TRUE)

-----------------------------------------------------------------------------
(* The declaration. *)

Counts == GroupCounts(Cardinality(Selected))
FormUsable == page.form # NoForm /\ Counts # <<>>

ChooseGroup(i) ==
    /\ FormUsable /\ i \in DOMAIN Counts
    /\ page' = [page EXCEPT !.form.active = i]
    /\ Unmoved

RankFree(r) ==
    \A i \in DOMAIN page.form.ranks : i # page.form.active => page.form.ranks[i] # r
ChooseRank(r) ==
    /\ FormUsable /\ RankFree(r)
    /\ page' = [page EXCEPT !.form.ranks =
                  [i \in DOMAIN @ |-> IF i = page.form.active THEN r ELSE @[i]]]
    /\ Unmoved

CloseDeclaration ==
    /\ FormUsable
    /\ Unmoved
    /\ Render(page.selected, FALSE)

-----------------------------------------------------------------------------
(* Commands. *)

Unanswered == [kind |-> "none", cards |-> {}, claims |-> <<>>, stale |-> TRUE]
Give(kind, cards, claims) ==
    /\ sent' = [kind |-> kind, cards |-> cards, claims |-> claims, stale |-> FALSE]
    /\ UNCHANGED <<room, starts>>

Confirm ==
    /\ FormUsable
    /\ LET claims == BuildClaims(Cardinality(Selected), page.form.ranks)
       IN  claims # <<>> /\ Give("play", Selected, claims)
    /\ Render({}, FALSE)

\* Faulty variant: what was selected is sent, in hand or not.
PlayAll == page.selected
Chosen  == Selected
PlayOn ==
    /\ Buttons /\ ~Opening /\ Chosen # {}
    /\ Give("play", Chosen, <<>>)
    /\ Render({}, page.wants)

Callout ==
    /\ Buttons /\ room.topPlay # NoPlay /\ room.topPlay.player # Me
    /\ Give("challenge", {}, <<>>)
    /\ Render(page.selected, page.wants)

PassTurn ==
    /\ Buttons
    /\ Give("skip", {}, <<>>)
    /\ Render(page.selected, page.wants)

-----------------------------------------------------------------------------
(* The room: Me's command, and everything else that happens at the table. *)

\* What handlePlayCards asks of the cards and claims of a play.
Legal(cards, claims) ==
    /\ cards # {} /\ cards \subseteq Hand
    /\ IF room.stackCount = 0 THEN ValidOpeningClaims(claims, Cardinality(cards))
                              ELSE claims = <<>>

Carry ==
    CASE sent.kind = "play"      -> PlayCards(Me, sent.cards,
                                      IF sent.claims # <<>> THEN sent.claims
                                      ELSE <<[rank |-> room.claimedRank,
                                              count |-> Cardinality(sent.cards)]>>)
      [] sent.kind = "challenge" -> Challenge(Me)
      [] sent.kind = "skip"      -> Skip(Me)

Taken == /\ OnTurn(Me) /\ ~sent.stale
         /\ sent.kind = "play" => Legal(sent.cards, sent.claims)
\* A skip that comes after the turn, and any move after the match, gets no
\* answer, and the page goes on waiting for it.
Ignored == \/ room.phase # "playing"
           \/ sent.kind = "skip" /\ CanAct(Me) /\ room.turn # Me
Answer ==
    /\ sent \notin {NoMove, Unanswered}
    /\ IF Taken THEN Carry ELSE UNCHANGED room
    /\ sent' = IF Ignored THEN Unanswered ELSE NoMove
    /\ UNCHANGED starts
    /\ Render(page.selected, page.wants)

Seen ==
    /\ sent' = IF sent = NoMove THEN NoMove ELSE [sent EXCEPT !.stale = TRUE]
    /\ UNCHANGED starts
    /\ Render(page.selected, page.wants)

OtherPlays(p) ==
    /\ \E cards \in SUBSET room.hands[p] :
         \E claims \in PlayableClaims(room, Cardinality(cards)) : PlayCards(p, cards, claims)
    /\ Seen
OtherChallenges(p) == Challenge(p) /\ Seen
OtherSkips(p)      == Skip(p) /\ Seen
ClockSkips         == TurnTimerExpired /\ Seen
MeDrops            == Disconnect(Me) /\ Seen
MeIsBack           == Me \notin room.online /\ Reconnect(Me) /\ Seen
\* The store lets nothing else through while a command is under way.
Free(p) == p = Me => sent = NoMove
HostResets(p)      == Free(p) /\ ResetToLobby(p) /\ Seen
Returns(p)         == Free(p) /\ p \notin room.ready /\ ReturnToLobby(p) /\ Seen
NextMatch(p) ==
    /\ starts < MaxStarts /\ Free(p) /\ StartGame(p)
    /\ starts' = starts + 1
    /\ sent' = IF sent = NoMove THEN NoMove ELSE [sent EXCEPT !.stale = TRUE]
    /\ Render(page.selected, page.wants)

ComposerNext ==
    \/ \E c \in Card : Toggle(c)
    \/ AskDeclaration \/ CloseDeclaration \/ Confirm \/ PlayOn \/ Callout \/ PassTurn
    \/ \E i \in 1..Cardinality(Rank) : ChooseGroup(i)
    \/ \E r \in Rank : ChooseRank(r)
    \/ Answer
    \/ \E p \in Others : OtherPlays(p) \/ OtherChallenges(p) \/ OtherSkips(p)
    \/ ClockSkips \/ MeDrops \/ MeIsBack
    \/ \E p \in User : NextMatch(p) \/ HostResets(p) \/ Returns(p)

ComposerSpec == ComposerInit /\ [][ComposerNext]_vars

-----------------------------------------------------------------------------
(* Properties. *)

\* The page and the room agree on the rules: whatever was selected, deselected,
\* declared and changed before, across turns, pickups, lost connections and
\* matches, the play that is sent is one the room accepts at that moment.
SentPlayIsLegal ==
    sent' # sent /\ sent' # NoMove /\ ~sent'.stale /\ sent'.kind = "play"
      => Legal(sent'.cards, sent'.claims)
ComposedPlaysAreLegal == [][SentPlayIsLegal]_vars

\* A declaration with cards has a group for exactly the cards it is made for,
\* however the turn went before: it can be completed.
DeclarationsFit ==
    page.form # NoForm /\ Selected # {} => Len(page.form.ranks) = Len(Counts)

=============================================================================
