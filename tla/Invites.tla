------------------------------ MODULE Invites ------------------------------
(* Live invitations of one player: the invitations in Redis with the index   *)
(* of the player's tokens (live/runtime.go), the three requests about them   *)
(* (auth/profile.go), and the bell of the pages (Navbar.tsx), which polls,   *)
(* takes what is pushed over the WebSocket, and answers.  Nothing stops a    *)
(* player from answering one invitation twice, or on two devices.            *)
(*                                                                           *)
(* Every room has a host, a friend of the player; a room is open while it is *)
(* in its lobby and this friend is its host.  Left out: who is a friend and  *)
(* who is online, which the server asks before an invitation is made; calls  *)
(* of Redis that fail.  Reading the index and the invitations in it is one   *)
(* step, as is taking an invitation and removing it from the index: what     *)
(* comes between them is put right by the next list.                         *)
EXTENDS Naturals, Sequences

CONSTANTS
    Rooms, NoRoom,
    Pages,           \* pages of the player with a bell
    Linked,          \* those with a connection to the server
    MaxInvites,      \* bound: invitations made
    MaxPolls,        \* bound: polls
    MaxClicks,       \* bound: answers given
    MaxFailures,     \* bound: requests that fail
    MaxChanges       \* bound: changes of rooms and of the player's room

VARIABLES
    open,            \* rooms an invitation may lead to
    home,            \* the player's room as Postgres has it, or NoRoom
    roomOf,          \* the room of each invitation made
    stored,          \* the invitations in Redis
    index,           \* the tokens Redis has for the player
    renewed,         \* the invitation the expiry of the index counts from
    aged,            \* invitations that are ten minutes old
    bell,            \* the bell of each page; history: what was answered on it,
                     \* and what a poll brought back
    answers,         \* answers under way
    carried,         \* history: how often each invitation was taken
    polls, clicks, failures, changes
vars == <<open, home, roomOf, stored, index, renewed, aged, bell, answers, carried,
          polls, clicks, failures, changes>>

NewBell == [up |-> TRUE, list |-> {}, polls |-> {}, pushes |-> {}, answered |-> {}, back |-> {}]
Poll(n) == [n |-> n, state |-> "asked", reply |-> {}]

Init ==
    /\ open = Rooms /\ home = NoRoom
    /\ roomOf = <<>> /\ stored = {} /\ index = {} /\ renewed = 0 /\ aged = 0
    /\ bell = [g \in Pages |-> NewBell]
    /\ answers = {} /\ carried = [n \in 1..MaxInvites |-> 0]
    /\ polls = 0 /\ clicks = 0 /\ failures = 0 /\ changes = 0

-----------------------------------------------------------------------------
(* The server. *)

\* Faulty variant: the expiry of the index counts from its first invitation.
KeepExpiry(n) == IF index = {} THEN n ELSE renewed
Expiry(n) == n

\* HandleCreateRoomInvite; a page misses the push when its queue is full.
Invite(r) ==
    LET n == Len(roomOf) + 1
    IN  /\ n <= MaxInvites
        /\ r \in open /\ home = NoRoom
        /\ roomOf' = Append(roomOf, r)
        /\ stored' = stored \cup {n} /\ index' = index \cup {n} /\ renewed' = Expiry(n)
        /\ \E reached \in SUBSET {g \in Linked : bell[g].up} :
             bell' = [g \in Pages |-> IF g \in reached THEN [bell[g] EXCEPT !.pushes = @ \cup {n}]
                                      ELSE bell[g]]
        /\ UNCHANGED <<open, home, aged, answers, carried, polls, clicks, failures, changes>>

\* Ten minutes have passed since the next invitation was made.
Expire ==
    /\ aged < Len(roomOf)
    /\ aged' = aged + 1
    /\ stored' = stored \ {aged + 1}
    /\ index' = IF renewed <= aged + 1 THEN {} ELSE index
    /\ UNCHANGED <<open, home, roomOf, renewed, bell, answers, carried, polls, clicks, failures, changes>>

\* A match starts, ends or changes its host; the player enters or leaves a room
\* in another way.
RoomsChange ==
    /\ changes < MaxChanges
    /\ \/ /\ \E r \in Rooms : open' = IF r \in open THEN open \ {r} ELSE open \cup {r}
          /\ UNCHANGED home
       \/ /\ home' \in (Rooms \cup {NoRoom}) \ {home}
          /\ UNCHANGED open
    /\ changes' = changes + 1
    /\ UNCHANGED <<roomOf, stored, index, renewed, aged, bell, answers, carried, polls, clicks, failures>>

\* HandleRoomInvites: tokens without an invitation are dropped from the index.
ListInvites(g, p) ==
    /\ p \in bell[g].polls /\ p.state = "asked"
    /\ index' = index \cap stored
    /\ bell' = [bell EXCEPT ![g].polls =
                  (@ \ {p}) \cup {[p EXCEPT !.state = "listed", !.reply = index \cap stored]}]
    /\ UNCHANGED <<open, home, roomOf, stored, renewed, aged, answers, carried, polls, clicks, failures, changes>>

Become(a, state) == answers' = (answers \ {a}) \cup {[a EXCEPT !.state = state]}

\* Faulty variant: the invitation is read and stays.
Read(n) == stored
Taken(n) == stored \ {n}

\* HandleRoomInviteResponse: whoever comes first takes the invitation.
TakeInvite(a) ==
    /\ a.state = "sent" /\ a.invite \in stored
    /\ stored' = Taken(a.invite) /\ index' = index \ {a.invite}
    /\ carried' = [carried EXCEPT ![a.invite] = @ + 1]
    /\ Become(a, IF a.accept THEN "taken" ELSE "declined")
    /\ UNCHANGED <<open, home, roomOf, renewed, aged, bell, polls, clicks, failures, changes>>
FindNone(a) ==
    /\ a.state = "sent" /\ a.invite \notin stored
    /\ Become(a, "refused")
    /\ UNCHANGED <<open, home, roomOf, stored, index, renewed, aged, bell, carried, polls, clicks, failures, changes>>

\* Only then the room is asked, and the place of the player.
Judge(a) ==
    LET r == roomOf[a.invite]
    IN  /\ a.state = "taken"
        /\ Become(a, IF r \in open /\ home \in {NoRoom, r} THEN "granted" ELSE "refused")
        /\ UNCHANGED <<open, home, roomOf, stored, index, renewed, aged, bell, carried, polls, clicks,
                       failures, changes>>

-----------------------------------------------------------------------------
(* The bell. *)

StartPoll(g) ==
    /\ bell[g].up /\ polls < MaxPolls
    /\ polls' = polls + 1
    /\ bell' = [bell EXCEPT ![g].polls = @ \cup {Poll(polls + 1)}]
    /\ UNCHANGED <<open, home, roomOf, stored, index, renewed, aged, answers, carried, clicks, failures, changes>>

\* A poll replaces the list, whatever was pushed or answered since it was read.
ShowPoll(g, p) ==
    /\ p \in bell[g].polls /\ p.state = "listed"
    /\ bell' = [bell EXCEPT ![g] = [bell[g] EXCEPT !.polls = @ \ {p}, !.list = p.reply,
                                                   !.back = p.reply \cap bell[g].answered]]
    /\ UNCHANGED <<open, home, roomOf, stored, index, renewed, aged, answers, carried, polls, clicks,
                   failures, changes>>
LosePoll(g, p) ==
    /\ p \in bell[g].polls /\ failures < MaxFailures
    /\ bell' = [bell EXCEPT ![g].polls = @ \ {p}]
    /\ failures' = failures + 1
    /\ UNCHANGED <<open, home, roomOf, stored, index, renewed, aged, answers, carried, polls, clicks, changes>>

\* A push that comes after the answer it is about is listed again, too.
ShowPush(g, n) ==
    /\ n \in bell[g].pushes
    /\ bell' = [bell EXCEPT ![g] = [bell[g] EXCEPT !.pushes = @ \ {n}, !.list = @ \cup {n},
                                                   !.back = @ \cup ({n} \cap bell[g].answered)]]
    /\ UNCHANGED <<open, home, roomOf, stored, index, renewed, aged, answers, carried, polls, clicks,
                   failures, changes>>

Click(g, n, accept) ==
    /\ n \in bell[g].list /\ clicks < MaxClicks
    /\ clicks' = clicks + 1
    /\ answers' = answers \cup {[n |-> clicks + 1, page |-> g, invite |-> n, accept |-> accept,
                                 state |-> "sent"]}
    /\ UNCHANGED <<open, home, roomOf, stored, index, renewed, aged, bell, carried, polls, failures, changes>>

\* The request or its answer is lost.
LoseAnswer(a) ==
    /\ a.state # "refused" /\ failures < MaxFailures
    /\ Become(a, "refused")
    /\ failures' = failures + 1
    /\ UNCHANGED <<open, home, roomOf, stored, index, renewed, aged, bell, carried, polls, clicks, changes>>

\* Faulty variant: an answer that failed leaves the invitation listed.
DropIfDone(list, a) == IF a.state = "refused" THEN list ELSE list \ {a.invite}
Drop(list, a) == list \ {a.invite}

\* respondToInvite: an accepted answer leads to the room, which has no bell.
Return(a) ==
    /\ a.state \in {"granted", "declined", "refused"}
    /\ answers' = answers \ {a}
    /\ IF a.state = "granted" /\ bell[a.page].up
       THEN /\ bell' = [bell EXCEPT ![a.page] = [NewBell EXCEPT !.up = FALSE]]
            /\ home' = IF roomOf[a.invite] \in open THEN roomOf[a.invite] ELSE home
       ELSE /\ bell' = IF bell[a.page].up
                       THEN [bell EXCEPT ![a.page] = [bell[a.page] EXCEPT !.list = Drop(@, a),
                                                                          !.answered = @ \cup {a.invite},
                                                                          !.back = @ \ {a.invite}]]
                       ELSE bell
            /\ UNCHANGED home
    /\ UNCHANGED <<open, roomOf, stored, index, renewed, aged, carried, polls, clicks, failures, changes>>

Next ==
    \/ Expire \/ RoomsChange
    \/ \E r \in Rooms : Invite(r)
    \/ \E g \in Pages :
         \/ StartPoll(g)
         \/ \E p \in bell[g].polls : ListInvites(g, p) \/ ShowPoll(g, p) \/ LosePoll(g, p)
         \/ \E n \in bell[g].pushes : ShowPush(g, n)
         \/ \E n \in bell[g].list, accept \in BOOLEAN : Click(g, n, accept)
    \/ \E a \in answers : TakeInvite(a) \/ FindNone(a) \/ Judge(a) \/ LoseAnswer(a) \/ Return(a)

Spec == Init /\ [][Next]_vars

-----------------------------------------------------------------------------
(* Properties. *)

\* However often and on however many devices an invitation is accepted and
\* declined, one answer is carried out (GETDEL in TakeInvite).
AnsweredOnce == \A n \in DOMAIN carried : carried[n] <= 1

\* Every invitation that lives is one the next poll brings, although tokens and
\* index expire apart; and a bell shows an answered invitation only if a poll or
\* a push brought it back.
InvitesAreFound ==
    /\ stored \subseteq index
    /\ \A g \in Pages : bell[g].list \cap bell[g].answered \subseteq bell[g].back
=============================================================================
