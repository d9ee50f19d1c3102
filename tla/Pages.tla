------------------------------- MODULE Pages -------------------------------
(* The components of the pages, one of them in each behaviour.  They share   *)
(* no state: a tab shows one page, what a page keeps goes with it, and the   *)
(* three parts of the room page keep their state apart.  The variables of a  *)
(* component that is not on stay at Off.                                     *)
EXTENDS Naturals, FiniteSets

CONSTANTS
    NoForm, NoMove, NoOne, NoRank, NoPlay, NoRecord, NoRoom, Off,
    Speakers, MaxVoice, MaxOffers, MaxMounts, MaxAsks,         \* Voice
    MaxBreaks,
    User, Me, Rank, Face, FewFaces, RankOf, AceOfSpades,       \* Composer
    Cards, DealtHands, MaxMoves, MaxMatches, MaxDrops,         \* Flights
    Friendly, Hubs, Owner, MaxAsked, MaxAnswers, MaxRemovals,  \* Friends
    Handles, Strangers, Shorts, Empty, MaxTyped, MaxSubmits,   \* Search
    MaxOffered,
    Addresses, MaxVisits, MaxBids,                             \* Dossier
    Rooms, Bells, Linked, MaxInvites, MaxPolls, MaxClicks,     \* Invites
    MaxChanges,
    MaxFailures                                                \* of requests

VARIABLES
    part,                                                      \* what is on
    won, members, voice, orphans, pipe, link, outbox, unsaid,  \* Voice
    offers, mounts, breaks,
    room, page, sent, starts,                                  \* Composer
    table, messages, view, pickup, frames, flights, concealed, \* Flights
    piles, shown, hasty, moves, matches, drops,
    rows, made, agreed, hubs, calls, asks, answers, removals,  \* Friends
    lost,
    text, timer, lookups, searching, result, requests, ready,  \* Search
    pending, overtaken, looks, typed, submits, asked, failures,
    handle, dossiers, profile, friendship, error, bids, bidden, \* Dossier
    visits, bidding, misses,
    open, home, roomOf, stored, index, renewed, aged, bell,    \* Invites
    replies, carried, polls, clicks, troubles, changes

voiceVars    == <<won, members, voice, orphans, pipe, link, outbox, unsaid, offers,
                  mounts, breaks>>
composerVars == <<room, page, sent, starts>>
flightVars   == <<table, messages, view, pickup, frames, flights, concealed,
                  piles, shown, hasty, moves, matches, drops>>
friendVars   == <<rows, made, agreed, hubs, calls, asks, answers, removals, lost>>
searchVars   == <<text, timer, lookups, searching, result, requests, ready,
                  pending, overtaken, looks, typed, submits, asked, failures>>
dossierVars  == <<handle, dossiers, profile, friendship, error, bids, bidden,
                  visits, bidding, misses>>
inviteVars   == <<open, home, roomOf, stored, index, renewed, aged, bell, replies,
                  carried, polls, clicks, troubles, changes>>
vars == <<part, voiceVars, composerVars, flightVars, friendVars, searchVars, dossierVars,
          inviteVars>>

\* The variables of a component that is not on.
VoiceOff    == /\ won = Off /\ members = Off /\ voice = Off /\ orphans = Off
               /\ pipe = Off /\ link = Off /\ outbox = Off /\ unsaid = Off
               /\ offers = Off /\ mounts = Off /\ breaks = Off
ComposerOff == room = Off /\ page = Off /\ sent = Off /\ starts = Off
FlightsOff  == /\ table = Off /\ messages = Off /\ view = Off /\ pickup = Off
               /\ frames = Off /\ flights = Off /\ concealed = Off /\ piles = Off
               /\ shown = Off /\ hasty = Off /\ moves = Off /\ matches = Off
               /\ drops = Off
FriendsOff  == /\ rows = Off /\ made = Off /\ agreed = Off /\ hubs = Off
               /\ calls = Off /\ asks = Off /\ answers = Off /\ removals = Off
               /\ lost = Off
SearchOff   == /\ text = Off /\ timer = Off /\ lookups = Off /\ searching = Off
               /\ result = Off /\ requests = Off /\ ready = Off /\ pending = Off
               /\ overtaken = Off /\ looks = Off /\ typed = Off /\ submits = Off
               /\ asked = Off /\ failures = Off
DossierOff  == /\ handle = Off /\ dossiers = Off /\ profile = Off
               /\ friendship = Off /\ error = Off /\ bids = Off /\ bidden = Off
               /\ visits = Off /\ bidding = Off /\ misses = Off
InvitesOff  == /\ open = Off /\ home = Off /\ roomOf = Off /\ stored = Off
               /\ index = Off /\ renewed = Off /\ aged = Off /\ bell = Off
               /\ replies = Off /\ carried = Off /\ polls = Off /\ clicks = Off
               /\ troubles = Off /\ changes = Off

-----------------------------------------------------------------------------

V == INSTANCE Voice WITH Players <- Speakers

\* Two sizes of a declaration: with full groups of two cards, and with one card
\* to a group, so that a hand may hold more cards than can be declared.
C == INSTANCE Composer WITH
       GroupSize <- 2, MaxSeats <- 2, ConfigDecks <- {1}, ConfigWinners <- {0},
       MaxStarts <- 1, NoResult <- NoRecord
L == INSTANCE Composer WITH
       Face <- FewFaces, RankOf <- [f \in FewFaces |-> RankOf[f]],
       GroupSize <- 1, MaxSeats <- 2, ConfigDecks <- {1}, ConfigWinners <- {0},
       MaxStarts <- 2, NoResult <- NoRecord

G == INSTANCE Flights WITH room <- table, sent <- messages

F == INSTANCE Friends WITH
       Users <- Friendly, Pages <- Hubs, MaxRequests <- MaxAsked,
       page <- hubs, failures <- lost

S == INSTANCE Search WITH MaxRequests <- MaxOffered, sent <- looks

D == INSTANCE Dossier WITH
       Handles <- Addresses, Known <- Handles, MaxMoves <- MaxVisits, MaxRequests <- MaxBids,
       lookups <- dossiers, requests <- bids, pending <- bidden, moves <- visits,
       asked <- bidding, failures <- misses

I == INSTANCE Invites WITH
       Pages <- Bells, answers <- replies, failures <- troubles

\* Texts, handles and the marks for none of them are different things.
ASSUME TextsDiffer ==
    /\ Handles \cap (Shorts \cup {Empty}) = {} /\ Strangers \cap (Shorts \cup {Empty}) = {}
    /\ S!NoText \notin Handles \cup Strangers /\ D!Nobody \notin Addresses
ASSUME HubsHaveOwners == Owner \in [Hubs -> Friendly]
ASSUME CardsAreFinite == IsFiniteSet(Cards)

-----------------------------------------------------------------------------

Init ==
    \/ /\ part = "voice" /\ V!Init
       /\ ComposerOff /\ FlightsOff /\ FriendsOff /\ SearchOff /\ DossierOff /\ InvitesOff
    \/ /\ part = "composer" /\ C!ComposerInit
       /\ VoiceOff /\ FlightsOff /\ FriendsOff /\ SearchOff /\ DossierOff /\ InvitesOff
    \/ /\ part = "limit" /\ L!ComposerInit
       /\ VoiceOff /\ FlightsOff /\ FriendsOff /\ SearchOff /\ DossierOff /\ InvitesOff
    \/ /\ part = "flights" /\ G!Init
       /\ VoiceOff /\ ComposerOff /\ FriendsOff /\ SearchOff /\ DossierOff /\ InvitesOff
    \/ /\ part = "friends" /\ F!Init
       /\ VoiceOff /\ ComposerOff /\ FlightsOff /\ SearchOff /\ DossierOff /\ InvitesOff
    \/ /\ part = "search" /\ S!Init
       /\ VoiceOff /\ ComposerOff /\ FlightsOff /\ FriendsOff /\ DossierOff /\ InvitesOff
    \/ /\ part = "dossier" /\ D!Init
       /\ VoiceOff /\ ComposerOff /\ FlightsOff /\ FriendsOff /\ SearchOff /\ InvitesOff
    \/ /\ part = "invites" /\ I!Init
       /\ VoiceOff /\ ComposerOff /\ FlightsOff /\ FriendsOff /\ SearchOff /\ DossierOff

Next ==
    \/ /\ part = "voice" /\ V!Next
       /\ UNCHANGED <<part, composerVars, flightVars, friendVars, searchVars, dossierVars, inviteVars>>
    \/ /\ part = "composer" /\ C!ComposerNext
       /\ UNCHANGED <<part, voiceVars, flightVars, friendVars, searchVars, dossierVars, inviteVars>>
    \/ /\ part = "limit" /\ L!ComposerNext
       /\ UNCHANGED <<part, voiceVars, flightVars, friendVars, searchVars, dossierVars, inviteVars>>
    \/ /\ part = "flights" /\ G!Next
       /\ UNCHANGED <<part, voiceVars, composerVars, friendVars, searchVars, dossierVars, inviteVars>>
    \/ /\ part = "friends" /\ F!Next
       /\ UNCHANGED <<part, voiceVars, composerVars, flightVars, searchVars, dossierVars, inviteVars>>
    \/ /\ part = "search" /\ S!Next
       /\ UNCHANGED <<part, voiceVars, composerVars, flightVars, friendVars, dossierVars, inviteVars>>
    \/ /\ part = "dossier" /\ D!Next
       /\ UNCHANGED <<part, voiceVars, composerVars, flightVars, friendVars, searchVars, inviteVars>>
    \/ /\ part = "invites" /\ I!Next
       /\ UNCHANGED <<part, voiceVars, composerVars, flightVars, friendVars, searchVars, dossierVars>>

Spec == Init /\ [][Next]_vars

-----------------------------------------------------------------------------
(* Properties: those of the components. *)

\* Whoever is heard has voice controls on the page and an open microphone that
\* was asked for; and once all signals have arrived, the room and the other
\* browsers have forgotten a player who hid the controls (voice.ts dispose,
\* room.go handleVoice).
VoiceEndsWithItsControls ==
    part = "voice" => V!NobodyIsOverheard /\ V!LeaversAreForgotten

\* A declaration with cards has a group for exactly the cards it is made for
\* (OpeningDeclaration.tsx, GameRoom.tsx).
DeclarationsFit ==
    /\ part = "composer" => C!DeclarationsFit
    /\ part = "limit" => L!DeclarationsFit

\* The play that is sent is one the room accepts at that moment (ActionBar.tsx
\* and shared/rules.ts against handlePlayCards).
ComposedPlaysAreLegal ==
    [][/\ part = "composer" => C!SentPlayIsLegal
       /\ part = "limit" => L!SentPlayIsLegal]_vars

\* The pick-ups shown are those of the game, in their order and size, and when
\* nothing is going to fly or land any more, every card of the hand is shown and
\* can be chosen (GameRoom.tsx, CardFlightLayer.tsx).
FlightsBringTheHand == part = "flights" => G!HandIsShown /\ G!PickupsAreThePiles

\* Of two friends each has asked or accepted since the friendship was last
\* declined or removed (store.go, Profile.tsx).
FriendsAgreed == part = "friends" => F!FriendsAgreed

\* A page that waits for nothing lists the friendships the server told it last
\* (Profile.tsx).
ListSettles == part = "friends" => F!ListSettles

\* "Match found!" is said of the player whose handle was typed, and the handle
\* of a player that stays typed is found (Profile.tsx).
SearchAnswersTheText == part = "search" => S!FoundIsTyped /\ S!KnownIsFound

\* The dossier shown is that of the address (PublicProfile.tsx).
RecordIsOfHandle == part = "dossier" => D!RecordIsOfHandle

\* An invitation is answered once, on whatever device and however often (GETDEL
\* in live/runtime.go TakeInvite).
InviteAnsweredOnce == part = "invites" => I!AnsweredOnce

\* A living invitation is one the next poll brings, and a bell shows one that
\* was answered on it only if a poll or a push brought it back (live/runtime.go,
\* Navbar.tsx).
InvitesAreFound == part = "invites" => I!InvitesAreFound
=============================================================================
