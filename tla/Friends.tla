------------------------------ MODULE Friends ------------------------------
(* Friendships: the table in the database with its three commands            *)
(* (store.go, auth/profile.go), and the hub pages (Profile.tsx) that show it *)
(* and change it, several of them for one player.  A page changes its list   *)
(* before the server answers, asks for it again afterwards, and shows a      *)
(* skeleton without buttons until it comes.  Commands are carried out in any *)
(* order, may fail, and may fail only in their answer.                       *)
(*                                                                           *)
(* Left out: names, pictures and statistics; the recent opponents, who are   *)
(* read and never changed here; a list that cannot be loaded, which the page *)
(* shows as an error.                                                        *)
EXTENDS Naturals, FiniteSets

CONSTANTS
    Users,
    Pages,           \* hub pages that are open
    Owner,           \* whose page each is
    MaxRequests,     \* bound: friend requests made
    MaxAnswers,      \* bound: requests accepted or declined on a page
    MaxRemovals,     \* bound: friends removed on a page
    MaxFailures      \* bound: requests of a page that fail

VARIABLES
    rows,       \* friendships of the database, one at most for a pair
    made,       \* ids given to rows
    agreed,     \* history: who of a pair asked or accepted since it was last undone
    page,       \* the list of each page, and the request that renews it; history:
                \* what the server told it last, and whether it put a list back
    calls,      \* commands under way
    asks, answers, removals, failures
vars == <<rows, made, agreed, page, calls, asks, answers, removals, failures>>

Pair(u, v) == {u, v}
Pairs == {Pair(u, v) : u, v \in Users} \ {{u} : u \in Users}
NoRow == [id |-> 0, from |-> {}, status |-> "none"]

Init ==
    /\ rows = [x \in Pairs |-> NoRow]
    /\ made = 0
    /\ agreed = [x \in Pairs |-> {}]
    /\ page = [g \in Pages |-> [list |-> {}, told |-> {}, restored |-> FALSE,
                                load |-> "asked", reply |-> {}]]
    /\ calls = {}
    /\ asks = 0 /\ answers = 0 /\ removals = 0 /\ failures = 0

-----------------------------------------------------------------------------
(* store.go. *)

\* ListFriendships: what is declined is not listed.
Direction(u, row) ==
    IF row.status = "accepted" THEN "friend"
    ELSE IF u \in row.from THEN "outgoing" ELSE "incoming"
ListFriendships(u) ==
    {[id |-> rows[x].id, peer |-> CHOOSE v \in x : v # u, direction |-> Direction(u, rows[x])] :
       x \in {y \in Pairs : u \in y /\ rows[y].status \in {"pending", "accepted"}}}

\* Faulty variant: whoever is of the pair may answer.
OfThePair(u, x) == u \in x
IsAddressee(u, x) == u \in x \ rows[x].from

\* The pair a command is about; a command with an id may find none.
Targets(c) ==
    IF c.kind = "ask" THEN {Pair(c.user, c.peer)}
    ELSE {x \in Pairs : rows[x].id = c.id /\ rows[x].status # "none"}

\* The conditions of the statements: a request inserts the row of its pair.
Allowed(c, x) ==
    CASE c.kind = "ask"    -> rows[x].status = "none"
      [] c.kind = "remove" -> rows[x].status = "accepted" /\ c.user \in x
      [] OTHER             -> rows[x].status = "pending" /\ IsAddressee(c.user, x)

Carry(c, x) ==
    /\ made' = IF c.kind = "ask" THEN made + 1 ELSE made
    /\ rows' = [rows EXCEPT ![x] =
         CASE c.kind = "ask"     -> [id |-> made + 1, from |-> {c.user}, status |-> "pending"]
           [] c.kind = "accept"  -> [@ EXCEPT !.status = "accepted"]
           [] c.kind = "decline" -> [@ EXCEPT !.status = "declined"]
           [] c.kind = "remove"  -> NoRow]
    /\ agreed' = [agreed EXCEPT ![x] =
         CASE c.kind = "ask"    -> {c.user}
           [] c.kind = "accept" -> @ \cup {c.user}
           [] OTHER             -> {}]

-----------------------------------------------------------------------------
(* The page. *)

Usable(g) == page[g].load = "none"

\* The two lists of the page that have buttons.
IncomingRequests(g) == {f \in page[g].list : f.direction = "incoming"}
AcceptedFriends(g)  == {f \in page[g].list : f.direction = "friend"}

\* A command of page g; before is the list it falls back on.
Call(g, kind, id, peer) ==
    [n |-> asks + answers + removals, page |-> g, user |-> Owner[g], kind |-> kind, id |-> id,
     peer |-> peer, before |-> IF kind = "remove" THEN page[g].list ELSE {}, state |-> "sent"]
Send(g, kind, id, peer) == calls' = calls \cup {Call(g, kind, id, peer)}

\* From a search result, which may be of any age, or from the recent opponents.
Ask(g, v) ==
    /\ Usable(g) /\ asks < MaxRequests
    /\ v # Owner[g]
    /\ Send(g, "ask", 0, v)
    /\ asks' = asks + 1
    /\ UNCHANGED <<rows, made, agreed, page, answers, removals, failures>>

\* The request is shown as answered at once.
Answer(g, f, accept) ==
    /\ Usable(g) /\ answers < MaxAnswers
    /\ f \in IncomingRequests(g)
    /\ page' = [page EXCEPT ![g].list =
                  (@ \ {f}) \cup IF accept THEN {[f EXCEPT !.direction = "friend"]} ELSE {}]
    /\ Send(g, IF accept THEN "accept" ELSE "decline", f.id, f.peer)
    /\ answers' = answers + 1
    /\ UNCHANGED <<rows, made, agreed, asks, removals, failures>>

Unfriend(g, f) ==
    /\ Usable(g) /\ removals < MaxRemovals
    /\ f \in AcceptedFriends(g)
    /\ page' = [page EXCEPT ![g].list = @ \ {f}]
    /\ Send(g, "remove", f.id, f.peer)
    /\ removals' = removals + 1
    /\ UNCHANGED <<rows, made, agreed, asks, answers, failures>>

Become(c, state) == calls' = (calls \ {c}) \cup {[c EXCEPT !.state = state]}

\* The server carries a command out or refuses it.
Handle(c) ==
    /\ c.state = "sent"
    /\ \E x \in Targets(c) : Allowed(c, x) /\ Carry(c, x)
    /\ Become(c, "done")
    /\ UNCHANGED <<page, asks, answers, removals, failures>>

\* A request that finds a declined row remembers its id, and turns the row of
\* that id to the new requester, whatever has become of it by then.
FindDeclined(c) ==
    /\ c.state = "sent" /\ c.kind = "ask"
    /\ \E x \in Targets(c) :
          /\ rows[x].status = "declined"
          /\ calls' = (calls \ {c}) \cup {[c EXCEPT !.state = "found", !.id = rows[x].id]}
    /\ UNCHANGED <<rows, made, agreed, page, asks, answers, removals, failures>>
AskAgain(c) ==
    /\ c.state = "found"
    /\ \E x \in Targets(c) :
          IF rows[x].id = c.id
          THEN /\ rows' = [rows EXCEPT ![x].from = {c.user}, ![x].status = "pending"]
               /\ agreed' = [agreed EXCEPT ![x] = {c.user}]
          ELSE UNCHANGED <<rows, agreed>>
    /\ Become(c, "done")
    /\ UNCHANGED <<made, page, asks, answers, removals, failures>>

Refuse(c) ==
    /\ c.state = "sent"
    /\ ~ \E x \in Targets(c) :
           Allowed(c, x) \/ (c.kind = "ask" /\ rows[x].status = "declined")
    /\ Become(c, "failed")
    /\ UNCHANGED <<rows, made, agreed, page, asks, answers, removals, failures>>

\* The command or its answer is lost.
Fail(c) ==
    /\ c.state \in {"sent", "found", "done"} /\ failures < MaxFailures
    /\ Become(c, "failed")
    /\ failures' = failures + 1
    /\ UNCHANGED <<rows, made, agreed, page, asks, answers, removals>>

\* Faulty variant: the list is renewed only after a success.
RenewsIfDone(c) == c.state = "done"
Renews(c) == c.state = "done" \/ c.kind \in {"accept", "decline"}

\* What the page does with the outcome: the list is asked for again, and a
\* removal that failed puts back the list of when it was tried.
Outcome(c) ==
    /\ c.state \in {"done", "failed"}
    /\ calls' = calls \ {c}
    /\ page' = [page EXCEPT ![c.page] =
         IF Renews(c) THEN [@ EXCEPT !.load = "asked"]
         ELSE IF c.kind = "remove" THEN [@ EXCEPT !.list = c.before, !.restored = TRUE] ELSE @]
    /\ UNCHANGED <<rows, made, agreed, asks, answers, removals, failures>>

\* A load under way when a newer one starts is given up.
LoadHandled(g) ==
    /\ page[g].load = "asked"
    /\ page' = [page EXCEPT ![g].load = "answered", ![g].reply = ListFriendships(Owner[g])]
    /\ UNCHANGED <<rows, made, agreed, calls, asks, answers, removals, failures>>
LoadArrives(g) ==
    /\ page[g].load = "answered"
    /\ page' = [page EXCEPT ![g] = [list |-> @.reply, told |-> @.reply, restored |-> FALSE,
                                    load |-> "none", reply |-> {}]]
    /\ UNCHANGED <<rows, made, agreed, calls, asks, answers, removals, failures>>

Next ==
    \/ \E g \in Pages :
         \/ \E v \in Users : Ask(g, v)
         \/ \E f \in page[g].list : Answer(g, f, TRUE) \/ Answer(g, f, FALSE) \/ Unfriend(g, f)
         \/ LoadHandled(g) \/ LoadArrives(g)
    \/ \E c \in calls : Handle(c) \/ FindDeclined(c) \/ AskAgain(c) \/ Refuse(c) \/ Fail(c) \/ Outcome(c)

Spec == Init /\ [][Next]_vars

-----------------------------------------------------------------------------
(* Properties. *)

\* Nobody is made a friend alone: whatever pages of either player show an older
\* state of the pair, and although a request made again keeps its id and is
\* written over whatever the row has become, both have asked or accepted since
\* the friendship was last declined, removed or asked for again.
FriendsAgreed ==
    \A x \in Pairs : rows[x].status = "accepted" => agreed[x] = x

\* When a page waits for nothing, its list is the one the server told it last:
\* what was shown ahead of an answer is confirmed or gone; unless it put back
\* the list of when a removal that failed was tried, for which it asks nobody.
Quiet(g) == Usable(g) /\ \A c \in calls : c.page # g
ListSettles ==
    \A g \in Pages : Quiet(g) /\ ~page[g].restored => page[g].list = page[g].told
=============================================================================
