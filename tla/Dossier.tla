------------------------------ MODULE Dossier ------------------------------
(* The dossier of a player (PublicProfile.tsx).  The page stays mounted when *)
(* the browser goes from one dossier to another: it keeps what it showed,    *)
(* looks the new handle up, and gives up the lookup of the old one.  A       *)
(* friend request under way is not given up.                                 *)
(*                                                                           *)
(* Left out: a visitor without an account, who has no button; statistics.    *)
EXTENDS Naturals

CONSTANTS
    Handles,         \* handles in the addresses the browser goes through
    Known,           \* those among them that are a player's
    MaxMoves,        \* bound: changes of the address
    MaxRequests,     \* bound: friend requests
    MaxFailures      \* bound: requests that fail

VARIABLES
    handle,          \* of the address
    lookups,         \* getPublicProfile under way
    profile,         \* whose record is shown, or Nobody
    friendship,      \* friendshipState
    error,           \* handle whose lookup the shown error is about, or Nobody
    requests,        \* friend requests under way, with isRequesting
    pending,         \* players with a friend request in the database
    moves, asked, failures
vars == <<handle, lookups, profile, friendship, error, requests, pending, moves, asked, failures>>

Nobody == "nobody"

Lookup(n, h) == [n |-> n, handle |-> h, active |-> TRUE, state |-> "sent", friendship |-> "none"]

Init ==
    /\ handle \in Handles
    /\ lookups = {Lookup(0, handle)}
    /\ profile = Nobody /\ friendship = "none" /\ error = Nobody
    /\ requests = {} /\ pending = {}
    /\ moves = 0 /\ asked = 0 /\ failures = 0

\* Faulty variant: the lookup of the old handle is still listened to.
KeepListening == lookups
GiveUp == {[l EXCEPT !.active = FALSE] : l \in lookups}

Move(h) ==
    /\ moves < MaxMoves
    /\ h # handle
    /\ handle' = h
    /\ lookups' = GiveUp \cup {Lookup(moves + 1, h)}
    /\ moves' = moves + 1
    /\ UNCHANGED <<profile, friendship, error, requests, pending, asked, failures>>

Handled(l) ==
    /\ l.state = "sent"
    /\ lookups' = (lookups \ {l}) \cup
         {[l EXCEPT !.state = IF l.handle \in Known THEN "found" ELSE "failed",
                    !.friendship = IF l.handle \in pending THEN "outgoing" ELSE "none"]}
    /\ UNCHANGED <<handle, profile, friendship, error, requests, pending, moves, asked, failures>>
Fails(l) ==
    /\ l.state \in {"sent", "found"} /\ failures < MaxFailures
    /\ lookups' = (lookups \ {l}) \cup {[l EXCEPT !.state = "failed"]}
    /\ failures' = failures + 1
    /\ UNCHANGED <<handle, profile, friendship, error, requests, pending, moves, asked>>

Found(l) ==
    /\ l.state = "found"
    /\ lookups' = lookups \ {l}
    /\ IF l.active THEN profile' = l.handle /\ friendship' = l.friendship
                   ELSE UNCHANGED <<profile, friendship>>
    /\ UNCHANGED <<handle, error, requests, pending, moves, asked, failures>>
NotFound(l) ==
    /\ l.state = "failed"
    /\ lookups' = lookups \ {l}
    /\ error' = IF l.active THEN l.handle ELSE error
    /\ UNCHANGED <<handle, profile, friendship, requests, pending, moves, asked, failures>>

\* The button of a record without friendship, dead while a request is under way.
RequestFriend ==
    /\ profile # Nobody /\ friendship = "none" /\ requests = {}
    /\ asked < MaxRequests
    /\ requests' = {[about |-> profile, state |-> "sent"]}
    /\ asked' = asked + 1
    /\ UNCHANGED <<handle, lookups, profile, friendship, error, pending, moves, failures>>

RequestHandled(r) ==
    /\ r.state = "sent"
    /\ pending' = pending \cup {r.about}
    /\ requests' = {[r EXCEPT !.state = IF r.about \in pending THEN "failed" ELSE "done"]}
    /\ UNCHANGED <<handle, lookups, profile, friendship, error, moves, asked, failures>>
RequestArrives(r) ==
    /\ r.state \in {"done", "failed"}
    /\ requests' = {}
    /\ friendship' = IF r.state = "done" THEN "outgoing" ELSE friendship
    /\ UNCHANGED <<handle, lookups, profile, error, pending, moves, asked, failures>>

Next ==
    \/ \E h \in Handles : Move(h)
    \/ \E l \in lookups : Handled(l) \/ Fails(l) \/ Found(l) \/ NotFound(l)
    \/ RequestFriend
    \/ \E r \in requests : RequestHandled(r) \/ RequestArrives(r)

Spec == Init /\ [][Next]_vars

-----------------------------------------------------------------------------
(* Properties. *)

\* When nothing is under way the record shown is that of the address, unless an
\* error is shown beside it: however the browser went through the dossiers.
Quiet == lookups = {} /\ requests = {}
RecordIsOfHandle == (Quiet /\ error = Nobody) => profile = handle
=============================================================================
