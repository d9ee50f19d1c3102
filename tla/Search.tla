------------------------------- MODULE Search -------------------------------
(* Finding a player by handle (the find tab of Profile.tsx): the text, the   *)
(* timer that looks it up 300 ms after it was last changed, the button that  *)
(* looks it up at once, the lookups under way, and the friend request sent   *)
(* to the player who was found.  Nothing ties an answer to the text it was   *)
(* asked for: answers are shown as they come.                                *)
(*                                                                           *)
(* Left out: error texts; what the other player does to the friendship; the  *)
(* buttons of the recent opponents (Friends).                                *)
EXTENDS Naturals

CONSTANTS
    Handles,         \* texts that are the handle of a player
    Strangers,       \* texts of three or more characters that are nobody's
    Shorts,          \* texts of fewer characters
    Empty,           \* no text
    MaxTyped,        \* bound: changes of the text
    MaxSubmits,      \* bound: uses of the button
    MaxRequests,     \* bound: friend requests
    MaxFailures      \* bound: requests that fail

VARIABLES
    text,            \* searchHandle
    timer,           \* text the timer was started for, or NoText
    lookups,         \* getPublicProfile under way
    searching,       \* isSearching
    result,          \* searchResult
    requests,        \* friend requests under way
    ready,           \* the page is shown, and not its skeleton
    pending,         \* players with a friend request in the database
    overtaken,       \* history: an answer came before that of an older lookup
    sent, typed, submits, asked, failures
vars == <<text, timer, lookups, searching, result, requests, ready, pending,
          overtaken, sent, typed, submits, asked, failures>>

Texts == Handles \cup Strangers \cup Shorts \cup {Empty}
NoText == "none"
NoResult == [handle |-> NoText, friendship |-> "none"]

Init ==
    /\ text = Empty /\ timer = NoText
    /\ lookups = {} /\ searching = FALSE /\ result = NoResult
    /\ requests = {} /\ ready = TRUE /\ pending = {} /\ overtaken = FALSE
    /\ sent = 0 /\ typed = 0 /\ submits = 0 /\ asked = 0 /\ failures = 0

TooShort(t) == t \in Shorts \cup {Empty}

\* Faulty variant: a running timer is left alone.
FirstTimer(t) == IF timer = NoText THEN t ELSE timer
Debounce(t) == t

\* The timer of the old text is cleared; a short text clears the result too.
Type(t) ==
    /\ ready /\ typed < MaxTyped
    /\ t # text
    /\ text' = t
    /\ IF TooShort(t) THEN timer' = NoText /\ result' = NoResult
                      ELSE timer' = Debounce(t) /\ UNCHANGED result
    /\ typed' = typed + 1
    /\ UNCHANGED <<lookups, searching, requests, ready, pending, overtaken, sent, submits, asked, failures>>

Look(t) ==
    /\ lookups' = lookups \cup {[n |-> sent, text |-> t, state |-> "sent", answer |-> NoResult]}
    /\ sent' = sent + 1
    /\ searching' = TRUE

TimerFires ==
    /\ timer # NoText
    /\ Look(timer)
    /\ timer' = NoText
    /\ UNCHANGED <<text, result, requests, ready, pending, overtaken, typed, submits, asked, failures>>

\* The button, dead while a lookup is shown to be under way; the timer runs on.
Dead == searching \/ text = Empty
FindPlayer ==
    /\ ready /\ submits < MaxSubmits
    /\ ~Dead
    /\ Look(text)
    /\ submits' = submits + 1
    /\ UNCHANGED <<text, timer, result, requests, ready, pending, overtaken, typed, asked, failures>>

Answer(t) == [handle |-> t, friendship |-> IF t \in pending THEN "outgoing" ELSE "none"]
LookupHandled(l) ==
    /\ l.state = "sent"
    /\ lookups' = (lookups \ {l}) \cup
         {[l EXCEPT !.state  = IF l.text \in Handles THEN "found" ELSE "failed",
                    !.answer = IF l.text \in Handles THEN Answer(l.text) ELSE NoResult]}
    /\ UNCHANGED <<text, timer, searching, result, requests, ready, pending,
                   overtaken, sent, typed, submits, asked, failures>>
LookupFails(l) ==
    /\ l.state \in {"sent", "found"} /\ failures < MaxFailures
    /\ lookups' = (lookups \ {l}) \cup {[l EXCEPT !.state = "failed", !.answer = NoResult]}
    /\ failures' = failures + 1
    /\ UNCHANGED <<text, timer, searching, result, requests, ready, pending,
                   overtaken, sent, typed, submits, asked>>

\* Faulty variant: a lookup that fails leaves the result of another.
KeepOnFailure(l) == IF l.state = "found" THEN l.answer ELSE result
Shown(l) == l.answer
Ended(l) == FALSE

LookupArrives(l) ==
    /\ l.state \in {"found", "failed"}
    /\ lookups' = lookups \ {l}
    /\ result' = Shown(l)
    /\ searching' = Ended(l)
    /\ overtaken' = (overtaken \/ \E k \in lookups : k.n < l.n)
    /\ UNCHANGED <<text, timer, requests, ready, pending, sent, typed, submits, asked, failures>>

\* The request remembers the result of when the button was pressed.
Offered == result # NoResult /\ result.friendship = "none"
RequestFriend ==
    /\ ready /\ asked < MaxRequests
    /\ Offered
    /\ requests' = requests \cup {[n |-> asked, about |-> result, state |-> "sent"]}
    /\ asked' = asked + 1
    /\ UNCHANGED <<text, timer, lookups, searching, result, ready, pending,
                   overtaken, sent, typed, submits, failures>>

\* A second request to the same player is refused.
RequestHandled(r) ==
    /\ r.state = "sent"
    /\ pending' = pending \cup {r.about.handle}
    /\ requests' = (requests \ {r}) \cup
         {[r EXCEPT !.state = IF r.about.handle \in pending THEN "failed" ELSE "done"]}
    /\ UNCHANGED <<text, timer, lookups, searching, result, ready,
                   overtaken, sent, typed, submits, asked, failures>>

\* A success puts the remembered result back, with the request, and has the
\* lists of the page loaded again.
RequestArrives(r) ==
    /\ r.state \in {"done", "failed"}
    /\ requests' = requests \ {r}
    /\ IF r.state = "done"
         THEN result' = [r.about EXCEPT !.friendship = "outgoing"] /\ ready' = FALSE
         ELSE UNCHANGED <<result, ready>>
    /\ UNCHANGED <<text, timer, lookups, searching, pending, overtaken, sent, typed, submits, asked, failures>>

ListsLoaded ==
    /\ ~ready
    /\ ready' = TRUE
    /\ UNCHANGED <<text, timer, lookups, searching, result, requests, pending,
                   overtaken, sent, typed, submits, asked, failures>>

Next ==
    \/ \E t \in Texts : Type(t)
    \/ TimerFires \/ FindPlayer \/ RequestFriend \/ ListsLoaded
    \/ \E l \in lookups : LookupHandled(l) \/ LookupFails(l) \/ LookupArrives(l)
    \/ \E r \in requests : RequestHandled(r) \/ RequestArrives(r)

Spec == Init /\ [][Next]_vars

-----------------------------------------------------------------------------
(* Properties. *)

Quiet == ready /\ timer = NoText /\ lookups = {} /\ requests = {}

\* "Match found!" is said, when the page waits for nothing, of the player whose
\* handle was typed, however the text was changed meanwhile; unless an answer
\* overtook that of an older lookup, or a friend request put its result back.
MatchFound == ~TooShort(text) /\ ~searching /\ result # NoResult
FoundIsTyped ==
    Quiet /\ MatchFound /\ ~overtaken /\ asked = 0 => result.handle = text

\* The handle of a player is found, if no request failed and no answer overtook
\* that of an older lookup, once the page waits for nothing.
KnownIsFound ==
    Quiet /\ text \in Handles /\ failures = 0 /\ ~overtaken => result # NoResult
=============================================================================
