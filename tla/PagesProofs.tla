---------------------------- MODULE PagesProofs ----------------------------
(* Theorems about the components of the pages, for any number of players,    *)
(* pages, handles and invitations and every bound.                           *)
EXTENDS Pages, SequenceTheorems, FiniteSetTheorems, TLAPS

-----------------------------------------------------------------------------
(* The dossier of a player. *)

\* What the page is about to show, or shows, or cannot show, is what the address
\* asks for: as long as no error is shown, the lookup of the address is listened
\* to or its answer is on the page.  A lookup of another handle is not.
DossierInv ==
    /\ handle \in Addresses
    /\ \A l \in dossiers : "active" \in DOMAIN l /\ (l.active => l.handle = handle)
    /\ \/ \E l \in dossiers : l.active
       \/ profile = handle
       \/ error # D!Nobody

LEMMA DossierStarts == D!Init => DossierInv
BY DEF D!Init, DossierInv, D!Lookup

LEMMA DossierSteps ==
    ASSUME DossierInv, D!Next
    PROVE  DossierInv'
<1>1. ASSUME NEW h \in Addresses, D!Move(h) PROVE DossierInv'
  <2> DEFINE new == D!Lookup(visits + 1, h)
  <2>1. new \in dossiers' /\ new.active /\ new.handle = h /\ "active" \in DOMAIN new
    BY <1>1 DEF D!Move, D!Lookup
  <2>2. ASSUME NEW l \in dossiers'
        PROVE  l = new \/ (l.active = FALSE /\ "active" \in DOMAIN l)
    <3>1. l \in D!GiveUp \/ l = new
      BY <1>1 DEF D!Move
    <3> QED  BY <3>1 DEF D!GiveUp, DossierInv
  <2> HIDE DEF new
  <2> QED  BY <1>1, <2>1, <2>2 DEF DossierInv, D!Move
<1>2. ASSUME NEW l \in dossiers, D!Handled(l) \/ D!Fails(l) PROVE DossierInv'
  <2>1. PICK k : /\ dossiers' = (dossiers \ {l}) \cup {k}
                 /\ k.active = l.active /\ k.handle = l.handle /\ DOMAIN k = DOMAIN l
    <3>1. CASE D!Handled(l)
      <4> DEFINE k == [l EXCEPT !.state = IF l.handle \in Handles THEN "found" ELSE "failed",
                                !.friendship = IF l.handle \in bidden THEN "outgoing" ELSE "none"]
      <4>1. dossiers' = (dossiers \ {l}) \cup {k}
        BY <3>1 DEF D!Handled
      <4>2. k.active = l.active /\ k.handle = l.handle /\ DOMAIN k = DOMAIN l
        OBVIOUS
      <4> QED  BY <4>1, <4>2
    <3>2. CASE D!Fails(l)
      <4> DEFINE k == [l EXCEPT !.state = "failed"]
      <4>1. dossiers' = (dossiers \ {l}) \cup {k}
        BY <3>2 DEF D!Fails
      <4>2. k.active = l.active /\ k.handle = l.handle /\ DOMAIN k = DOMAIN l
        OBVIOUS
      <4> QED  BY <4>1, <4>2
    <3> QED  BY <1>2, <3>1, <3>2
  <2>2. UNCHANGED <<handle, profile, error>>
    BY <1>2 DEF D!Handled, D!Fails
  <2> QED  BY <2>1, <2>2 DEF DossierInv
<1>3. ASSUME NEW l \in dossiers, D!Found(l) PROVE DossierInv'
  BY <1>3 DEF DossierInv, D!Found
<1>4. ASSUME NEW l \in dossiers, D!NotFound(l) PROVE DossierInv'
  BY <1>4, TextsDiffer DEF DossierInv, D!NotFound
<1>5. CASE D!RequestFriend \/ \E r \in bids : D!RequestHandled(r) \/ D!RequestArrives(r)
  BY <1>5 DEF DossierInv, D!RequestFriend, D!RequestHandled, D!RequestArrives
<1> QED  BY <1>1, <1>2, <1>3, <1>4, <1>5 DEF D!Next

\* However the browser went through the dossiers, and in whatever order the
\* lookups were answered, a page at rest shows the dossier of its address or an
\* error.
THEOREM DossierOfAddress == Spec => []RecordIsOfHandle
<1> DEFINE Inv == part = "dossier" => DossierInv
<1>1. Init => Inv
  BY DossierStarts DEF Init
<1>2. Inv /\ [Next]_vars => Inv'
  <2>1. UNCHANGED vars => UNCHANGED <<part, dossierVars>>
    BY DEF vars
  <2>2. UNCHANGED <<part, dossierVars>> /\ Inv => Inv'
    BY DEF dossierVars, DossierInv
  <2>3. Next => part' = part /\ (part = "dossier" => D!Next)
    BY DEF Next
  <2> QED  BY <2>1, <2>2, <2>3, DossierSteps
<1>3. Inv => RecordIsOfHandle
  BY DEF DossierInv, RecordIsOfHandle, D!RecordIsOfHandle, D!Quiet
<1> QED  BY <1>1, <1>2, <1>3, PTL DEF Spec

-----------------------------------------------------------------------------
(* Friendships. *)

Kinds == {"ask", "accept", "decline", "remove"}
Row   == [id : Nat, from : SUBSET Friendly, status : {"none", "pending", "accepted", "declined"}]

\* A command knows its page and its player; a request is about somebody else.
CallsAreSound ==
    \A k \in calls :
        /\ {"page", "user", "kind", "peer", "state"} \subseteq DOMAIN k
        /\ k.kind \in Kinds /\ k.page \in Hubs /\ k.user \in Friendly
        /\ k.kind = "ask" => k.peer \in Friendly /\ k.peer # k.user
        /\ k.state = "found" => k.kind = "ask"

\* A pending request is agreed to by the one who made it, and by nobody outside
\* the pair; a friendship by both.
RowsAreAgreed ==
    /\ rows \in [F!Pairs -> Row] /\ made \in Nat
    /\ agreed \in [F!Pairs -> SUBSET Friendly]
    /\ \A x \in F!Pairs :
         /\ agreed[x] \subseteq x
         /\ rows[x].status = "pending" => \E u \in x : rows[x].from = {u} /\ u \in agreed[x]
         /\ rows[x].status = "accepted" => agreed[x] = x

\* A page that shows something else than it was told, and has not put it back,
\* has asked for its list, or waits for a command after which it will.
HubsAreToldOf ==
    /\ hubs = [g \in Hubs |-> hubs[g]]
    /\ \A g \in Hubs :
         /\ {"list", "told", "restored", "load", "reply"} \subseteq DOMAIN hubs[g]
         /\ \/ hubs[g].load # "none" \/ hubs[g].restored
            \/ hubs[g].list = hubs[g].told
            \/ \E k \in calls : k.page = g /\ k.kind # "ask"

FriendsInv == CallsAreSound /\ RowsAreAgreed /\ HubsAreToldOf

LEMMA FriendsStart == F!Init => FriendsInv
<1> SUFFICES ASSUME F!Init PROVE FriendsInv
  OBVIOUS
<1>1. F!NoRow \in Row /\ F!NoRow.status = "none"
  BY DEF F!NoRow, Row
<1>2. rows = [x \in F!Pairs |-> F!NoRow] /\ agreed = [x \in F!Pairs |-> {}] /\ made = 0
  BY DEF F!Init
<1>3. RowsAreAgreed
  BY <1>1, <1>2 DEF RowsAreAgreed
<1>4. CallsAreSound
  BY DEF F!Init, CallsAreSound
<1>5. HubsAreToldOf
  BY DEF F!Init, HubsAreToldOf
<1> QED  BY <1>3, <1>4, <1>5 DEF FriendsInv

\* Whoever shares a pair with somebody else is one of its two.
LEMMA PairOfTwo ==
    ASSUME NEW x \in F!Pairs, NEW u \in x, NEW v \in x, u # v
    PROVE  x = {u, v}
BY DEF F!Pairs, F!Pair

\* A row that is written is agreed to.
LEMMA RowBecomes ==
    ASSUME RowsAreAgreed, made' \in Nat, NEW x \in F!Pairs,
           NEW r \in Row, NEW a \in SUBSET Friendly,
           rows' = [rows EXCEPT ![x] = r], agreed' = [agreed EXCEPT ![x] = a],
           a \subseteq x,
           r.status = "pending" => \E u \in x : r.from = {u} /\ u \in a,
           r.status = "accepted" => a = x
    PROVE  RowsAreAgreed'
<1>1. rows' \in [F!Pairs -> Row] /\ agreed' \in [F!Pairs -> SUBSET Friendly]
  BY DEF RowsAreAgreed
<1>2. \A y \in F!Pairs : /\ rows'[y] = IF y = x THEN r ELSE rows[y]
                         /\ agreed'[y] = IF y = x THEN a ELSE agreed[y]
  BY DEF RowsAreAgreed
<1> QED  BY <1>1, <1>2 DEF RowsAreAgreed

\* A command that is carried out leaves the pair it is about as it should be.
LEMMA CarryAgrees ==
    ASSUME RowsAreAgreed, CallsAreSound, NEW k \in calls, NEW x \in F!Targets(k),
           F!Allowed(k, x), F!Carry(k, x)
    PROVE  RowsAreAgreed'
<1>1. k.kind \in Kinds /\ k.user \in Friendly
  BY DEF CallsAreSound
<1>2. x \in F!Pairs /\ (k.kind = "ask" => k.user \in x)
  BY DEF CallsAreSound, F!Targets, F!Pairs, F!Pair
<1>3. \A y \in F!Pairs : rows[y] \in Row /\ agreed[y] \in SUBSET Friendly
  BY DEF RowsAreAgreed
<1>4. made' \in Nat
  BY DEF F!Carry, RowsAreAgreed
<1>5. ASSUME NEW r \in Row, NEW a \in SUBSET Friendly,
             rows' = [rows EXCEPT ![x] = r], agreed' = [agreed EXCEPT ![x] = a],
             a \subseteq x,
             r.status = "pending" => \E u \in x : r.from = {u} /\ u \in a,
             r.status = "accepted" => a = x
      PROVE  RowsAreAgreed'
  BY <1>2, <1>4, <1>5, RowBecomes
<1>6. CASE k.kind = "ask"
  <2> DEFINE r == [id |-> made + 1, from |-> {k.user}, status |-> "pending"]
             a == {k.user}
  <2>1. rows' = [rows EXCEPT ![x] = r] /\ agreed' = [agreed EXCEPT ![x] = a]
    BY <1>6 DEF F!Carry
  <2>2. r \in Row /\ r.status = "pending" /\ r.from = {k.user}
    BY <1>1, <1>2, <1>3 DEF Row, RowsAreAgreed
  <2>3. a \in SUBSET Friendly /\ a \subseteq x /\ k.user \in a /\ k.user \in x
    BY <1>1, <1>2, <1>3, <1>6 DEF RowsAreAgreed
  <2> HIDE DEF r, a
  <2> QED  BY <1>5, <2>1, <2>2, <2>3
<1>7. CASE k.kind = "accept"
  <2> DEFINE r == [rows[x] EXCEPT !.status = "accepted"]
             a == agreed[x] \cup {k.user}
  <2>1. rows' = [rows EXCEPT ![x] = r] /\ agreed' = [agreed EXCEPT ![x] = a]
    BY <1>7 DEF F!Carry
  <2>2. r \in Row /\ r.status = "accepted"
    BY <1>2, <1>3 DEF Row
  <2>3. rows[x].status = "pending" /\ k.user \in x \ rows[x].from
    BY <1>7 DEF F!Allowed, F!IsAddressee
  <2>4. PICK u \in x : rows[x].from = {u} /\ u \in agreed[x]
    BY <1>2, <2>3 DEF RowsAreAgreed
  <2>5. x = {u, k.user}
    BY <1>2, <2>3, <2>4, PairOfTwo
  <2>6. agreed[x] \in SUBSET Friendly /\ agreed[x] \subseteq x
    BY <1>2 DEF RowsAreAgreed
  <2>7. a \in SUBSET Friendly
    BY <1>1, <2>6
  <2>8. a = x
    BY <2>4, <2>5, <2>6
  <2> HIDE DEF r, a
  <2> QED  BY <1>5, <2>1, <2>2, <2>7, <2>8
<1>8. CASE k.kind = "decline"
  <2> DEFINE r == [rows[x] EXCEPT !.status = "declined"]
             a == {}
  <2>1. rows' = [rows EXCEPT ![x] = r] /\ agreed' = [agreed EXCEPT ![x] = a]
    BY <1>8 DEF F!Carry
  <2>2. r \in Row /\ r.status = "declined" /\ a \in SUBSET Friendly /\ a \subseteq x
    BY <1>2, <1>3 DEF Row
  <2> HIDE DEF r, a
  <2> QED  BY <1>5, <2>1, <2>2
<1>9. CASE k.kind = "remove"
  <2> DEFINE r == F!NoRow
             a == {}
  <2>1. rows' = [rows EXCEPT ![x] = r] /\ agreed' = [agreed EXCEPT ![x] = a]
    BY <1>9 DEF F!Carry
  <2>2. r \in Row /\ r.status = "none" /\ a \in SUBSET Friendly /\ a \subseteq x
    BY DEF F!NoRow, Row
  <2> HIDE DEF r, a
  <2> QED  BY <1>5, <2>1, <2>2
<1> QED  BY <1>1, <1>6, <1>7, <1>8, <1>9 DEF Kinds

\* A request written over whatever the row has become is from who made it.
LEMMA AskedAgain ==
    ASSUME RowsAreAgreed, CallsAreSound, NEW k \in calls, F!AskAgain(k)
    PROVE  RowsAreAgreed'
<1>1. k.kind = "ask" /\ k.user \in Friendly /\ k.peer \in Friendly /\ k.peer # k.user
  BY DEF CallsAreSound, F!AskAgain
<1>2. PICK x \in F!Targets(k) :
         IF rows[x].id = k.id
         THEN /\ rows' = [rows EXCEPT ![x].from = {k.user}, ![x].status = "pending"]
              /\ agreed' = [agreed EXCEPT ![x] = {k.user}]
         ELSE UNCHANGED <<rows, agreed>>
  BY DEF F!AskAgain
<1>3. x \in F!Pairs /\ k.user \in x /\ made' = made /\ made \in Nat
  <2>1. x \in {{k.user, k.peer}}
    BY <1>1 DEF F!Targets, F!Pair
  <2>2. {k.user, k.peer} \in F!Pairs
    <3>1. \A u : {k.user, k.peer} # {u}
      BY <1>1
    <3> QED  BY <1>1, <3>1 DEF F!Pairs, F!Pair
  <2> QED  BY <2>1, <2>2 DEF F!AskAgain, RowsAreAgreed
<1>4. CASE rows[x].id = k.id
  <2> DEFINE r == [rows[x] EXCEPT !.from = {k.user}, !.status = "pending"]
             a == {k.user}
  <2>1. r \in Row /\ r.status = "pending" /\ r.from = {k.user}
    <3>1. rows[x] \in Row
      BY <1>3 DEF RowsAreAgreed
    <3> QED  BY <1>1, <3>1 DEF Row
  <2>2. rows' = [rows EXCEPT ![x] = r] /\ agreed' = [agreed EXCEPT ![x] = a]
    BY <1>2, <1>3, <1>4 DEF RowsAreAgreed
  <2>3. a \in SUBSET Friendly /\ a \subseteq x /\ k.user \in a
    BY <1>1, <1>3
  <2> HIDE DEF r, a
  <2> QED  BY <1>3, <2>1, <2>2, <2>3, RowBecomes
<1>5. CASE rows[x].id # k.id
  BY <1>2, <1>3, <1>5 DEF RowsAreAgreed
<1> QED  BY <1>4, <1>5

\* What an outcome becomes.
LEMMA CallBecomes ==
    ASSUME CallsAreSound, NEW k \in calls, NEW state, state # "found", F!Become(k, state)
    PROVE  /\ CallsAreSound'
           /\ \A w \in calls : \E v \in calls' : v.page = w.page /\ v.kind = w.kind
<1> DEFINE v == [k EXCEPT !.state = state]
<1>1. calls' = (calls \ {k}) \cup {v}
  BY DEF F!Become
<1>2. /\ DOMAIN v = DOMAIN k /\ v.page = k.page /\ v.kind = k.kind
      /\ v.user = k.user /\ v.peer = k.peer /\ v.state = state
  BY DEF CallsAreSound
<1> HIDE DEF v
<1> QED  BY <1>1, <1>2 DEF CallsAreSound

\* A command of page g that may change its list.
LEMMA SendIsSound ==
    ASSUME FriendsInv, NEW g \in Hubs, NEW kind \in Kinds, NEW id, NEW peer,
           kind = "ask" => peer \in Friendly /\ peer # Owner[g],
           F!Send(g, kind, id, peer)
    PROVE  /\ CallsAreSound' /\ calls \subseteq calls'
           /\ \E k \in calls' : k.page = g /\ k.kind = kind
<1> DEFINE k == F!Call(g, kind, id, peer)
<1>1. /\ {"page", "user", "kind", "peer", "state"} \subseteq DOMAIN k
      /\ k.page = g /\ k.kind = kind /\ k.user = Owner[g] /\ k.peer = peer /\ k.state = "sent"
  BY DEF F!Call
<1>2. calls' = calls \cup {k}
  BY DEF F!Send
<1>3. Owner[g] \in Friendly
  BY HubsHaveOwners
<1> HIDE DEF k
<1> QED  BY <1>1, <1>2, <1>3 DEF FriendsInv, CallsAreSound

\* The list of one page changes, with a command of it under way.
LEMMA HubWithCall ==
    ASSUME HubsAreToldOf, NEW g \in Hubs, NEW list,
           hubs' = [hubs EXCEPT ![g].list = list], calls \subseteq calls',
           \E k \in calls' : k.page = g /\ k.kind # "ask"
    PROVE  HubsAreToldOf'
<1> DEFINE h == [hubs[g] EXCEPT !.list = list]
<1>1. DOMAIN h = DOMAIN hubs[g]
  OBVIOUS
<1>2. hubs' = [hubs EXCEPT ![g] = h]
  BY DEF HubsAreToldOf
<1> HIDE DEF h
<1>3. \A q \in Hubs : hubs'[q] = IF q = g THEN h ELSE hubs[q]
  BY <1>2 DEF HubsAreToldOf
<1>4. hubs' = [q \in Hubs |-> hubs'[q]]
  BY <1>2 DEF HubsAreToldOf
<1> QED  BY <1>1, <1>3, <1>4 DEF HubsAreToldOf

\* A page that asked for its list, or has got it, or put it back.
LEMMA HubTurnsTo ==
    ASSUME HubsAreToldOf, NEW g \in Hubs, NEW h, hubs' = [hubs EXCEPT ![g] = h],
           {"list", "told", "restored", "load", "reply"} \subseteq DOMAIN h,
           h.load # "none" \/ h.restored \/ h.list = h.told,
           \A w \in calls : w.page # g => \E v \in calls' : v.page = w.page /\ v.kind = w.kind
    PROVE  HubsAreToldOf'
<1>1. \A q \in Hubs : hubs'[q] = IF q = g THEN h ELSE hubs[q]
  BY DEF HubsAreToldOf
<1>2. hubs' = [q \in Hubs |-> hubs'[q]]
  BY DEF HubsAreToldOf
<1> QED  BY <1>1, <1>2 DEF HubsAreToldOf

LEMMA HubStays ==
    ASSUME HubsAreToldOf, hubs' = hubs,
           \A w \in calls : w.kind # "ask" => \E v \in calls' : v.page = w.page /\ v.kind = w.kind
    PROVE  HubsAreToldOf'
BY DEF HubsAreToldOf

LEMMA FriendsSteps ==
    ASSUME FriendsInv, F!Next
    PROVE  FriendsInv'
<1>0. CallsAreSound /\ RowsAreAgreed /\ HubsAreToldOf
  BY DEF FriendsInv
<1>1. ASSUME NEW g \in Hubs, NEW v \in Friendly, F!Ask(g, v) PROVE FriendsInv'
  <2>1. CallsAreSound' /\ calls \subseteq calls'
    BY <1>1, SendIsSound DEF F!Ask, Kinds
  <2>2. HubsAreToldOf'
    BY <1>0, <1>1, <2>1, HubStays DEF F!Ask
  <2>3. RowsAreAgreed'
    BY <1>0, <1>1 DEF F!Ask, RowsAreAgreed
  <2> QED  BY <2>1, <2>2, <2>3 DEF FriendsInv
<1>2. ASSUME NEW g \in Hubs, NEW f, NEW accept \in BOOLEAN, F!Answer(g, f, accept)
      PROVE  FriendsInv'
  <2> DEFINE list == (hubs[g].list \ {f}) \cup
                       IF accept THEN {[f EXCEPT !.direction = "friend"]} ELSE {}
             kind == IF accept THEN "accept" ELSE "decline"
  <2>1. /\ hubs' = [hubs EXCEPT ![g].list = list]
        /\ F!Send(g, kind, f.id, f.peer)
    BY <1>2 DEF F!Answer
  <2>2. kind \in Kinds /\ kind # "ask"
    BY DEF Kinds
  <2> HIDE DEF list, kind
  <2>3. /\ CallsAreSound' /\ calls \subseteq calls'
        /\ \E k \in calls' : k.page = g /\ k.kind = kind
    BY <2>1, <2>2, SendIsSound
  <2>4. HubsAreToldOf'
    BY <1>0, <2>1, <2>2, <2>3, HubWithCall
  <2>5. RowsAreAgreed'
    BY <1>0, <1>2 DEF F!Answer, RowsAreAgreed
  <2> QED  BY <2>3, <2>4, <2>5 DEF FriendsInv
<1>3. ASSUME NEW g \in Hubs, NEW f, F!Unfriend(g, f) PROVE FriendsInv'
  <2> DEFINE list == hubs[g].list \ {f}
  <2>1. /\ hubs' = [hubs EXCEPT ![g].list = list]
        /\ F!Send(g, "remove", f.id, f.peer)
    BY <1>3 DEF F!Unfriend
  <2> HIDE DEF list
  <2>2. /\ CallsAreSound' /\ calls \subseteq calls'
        /\ \E k \in calls' : k.page = g /\ k.kind = "remove"
    BY <2>1, SendIsSound DEF Kinds
  <2>3. HubsAreToldOf'
    BY <1>0, <2>1, <2>2, HubWithCall
  <2>4. RowsAreAgreed'
    BY <1>0, <1>3 DEF F!Unfriend, RowsAreAgreed
  <2> QED  BY <2>2, <2>3, <2>4 DEF FriendsInv
<1>4. ASSUME NEW k \in calls, F!Handle(k) PROVE FriendsInv'
  <2>1. RowsAreAgreed'
    BY <1>0, <1>4, CarryAgrees DEF F!Handle
  <2>2. /\ CallsAreSound'
        /\ \A w \in calls : \E v \in calls' : v.page = w.page /\ v.kind = w.kind
    BY <1>0, <1>4, CallBecomes DEF F!Handle
  <2>3. HubsAreToldOf'
    BY <1>0, <1>4, <2>2, HubStays DEF F!Handle
  <2> QED  BY <2>1, <2>2, <2>3 DEF FriendsInv
<1>5. ASSUME NEW k \in calls, F!Refuse(k) \/ F!Fail(k) PROVE FriendsInv'
  <2>1. F!Become(k, "failed") /\ UNCHANGED <<rows, made, agreed, hubs>>
    BY <1>5 DEF F!Refuse, F!Fail
  <2>2. /\ CallsAreSound'
        /\ \A w \in calls : \E v \in calls' : v.page = w.page /\ v.kind = w.kind
    BY <1>0, <2>1, CallBecomes
  <2>3. HubsAreToldOf'
    BY <1>0, <2>1, <2>2, HubStays
  <2>4. RowsAreAgreed'
    BY <1>0, <2>1 DEF RowsAreAgreed
  <2> QED  BY <2>2, <2>3, <2>4 DEF FriendsInv
<1>6. ASSUME NEW k \in calls, F!Outcome(k) PROVE FriendsInv'
  <2> DEFINE g == k.page
             again == [hubs[g] EXCEPT !.load = "asked"]
             back  == [hubs[g] EXCEPT !.list = k.before, !.restored = TRUE]
  <2>1. calls' = calls \ {k} /\ UNCHANGED <<rows, made, agreed>>
    BY <1>6 DEF F!Outcome
  <2>2. g \in Hubs /\ k.kind \in Kinds
    BY <1>0 DEF CallsAreSound
  <2>3. CallsAreSound' /\ RowsAreAgreed'
    BY <1>0, <2>1 DEF CallsAreSound, RowsAreAgreed
  <2>4. {"list", "told", "restored", "load", "reply"} \subseteq DOMAIN hubs[g]
    BY <1>0, <2>2 DEF HubsAreToldOf
  <2>5. /\ DOMAIN again = DOMAIN hubs[g] /\ again.load = "asked"
        /\ DOMAIN back = DOMAIN hubs[g] /\ back.restored
    BY <2>4
  <2>6. hubs' = [hubs EXCEPT ![g] = IF F!Renews(k) THEN again
                                    ELSE IF k.kind = "remove" THEN back ELSE hubs[g]]
    BY <1>6 DEF F!Outcome
  <2> HIDE DEF g, again, back
  <2>7. CASE F!Renews(k)
    <3>1. hubs' = [hubs EXCEPT ![g] = again]
      BY <2>6, <2>7
    <3>2. HubsAreToldOf'
      BY <1>0, <2>1, <2>2, <2>4, <2>5, <3>1, HubTurnsTo DEF g
    <3> QED  BY <2>3, <3>2 DEF FriendsInv
  <2>8. CASE ~F!Renews(k) /\ k.kind = "remove"
    <3>1. hubs' = [hubs EXCEPT ![g] = back]
      BY <2>6, <2>8
    <3>2. HubsAreToldOf'
      BY <1>0, <2>1, <2>2, <2>4, <2>5, <3>1, HubTurnsTo DEF g
    <3> QED  BY <2>3, <3>2 DEF FriendsInv
  <2>9. CASE ~F!Renews(k) /\ k.kind # "remove"
    <3>1. k.kind = "ask"
      BY <2>2, <2>9 DEF F!Renews, Kinds
    <3>2. hubs' = hubs
      BY <1>0, <2>6, <2>9 DEF HubsAreToldOf
    <3>3. HubsAreToldOf'
      BY <1>0, <2>1, <3>1, <3>2, HubStays
    <3> QED  BY <2>3, <3>3 DEF FriendsInv
  <2> QED  BY <2>7, <2>8, <2>9
<1>7. ASSUME NEW g \in Hubs, F!LoadHandled(g) PROVE FriendsInv'
  <2> DEFINE h == [hubs[g] EXCEPT !.load = "answered", !.reply = F!ListFriendships(Owner[g])]
  <2>1. hubs' = [hubs EXCEPT ![g] = h] /\ UNCHANGED <<rows, made, agreed, calls>>
    BY <1>0, <1>7 DEF F!LoadHandled, HubsAreToldOf
  <2>2. DOMAIN h = DOMAIN hubs[g] /\ h.load = "answered"
    BY <1>0 DEF HubsAreToldOf
  <2> HIDE DEF h
  <2>3. {"list", "told", "restored", "load", "reply"} \subseteq DOMAIN h
    BY <1>0, <2>2 DEF HubsAreToldOf
  <2>4. HubsAreToldOf'
    BY <1>0, <2>1, <2>2, <2>3, HubTurnsTo
  <2> QED  BY <1>0, <2>1, <2>4 DEF FriendsInv, CallsAreSound, RowsAreAgreed
<1>8. ASSUME NEW g \in Hubs, F!LoadArrives(g) PROVE FriendsInv'
  <2> DEFINE h == [list |-> hubs[g].reply, told |-> hubs[g].reply, restored |-> FALSE,
                   load |-> "none", reply |-> {}]
  <2>1. hubs' = [hubs EXCEPT ![g] = h] /\ UNCHANGED <<rows, made, agreed, calls>>
    BY <1>8 DEF F!LoadArrives
  <2>2. /\ {"list", "told", "restored", "load", "reply"} \subseteq DOMAIN h
        /\ h.list = h.told
    OBVIOUS
  <2> HIDE DEF h
  <2>3. HubsAreToldOf'
    BY <1>0, <2>1, <2>2, HubTurnsTo
  <2> QED  BY <1>0, <2>1, <2>3 DEF FriendsInv, CallsAreSound, RowsAreAgreed
<1>9. ASSUME NEW k \in calls, F!FindDeclined(k) PROVE FriendsInv'
  <2>1. PICK x \in F!Targets(k) :
           calls' = (calls \ {k}) \cup {[k EXCEPT !.state = "found", !.id = rows[x].id]}
    BY <1>9 DEF F!FindDeclined
  <2> DEFINE v == [k EXCEPT !.state = "found", !.id = rows[x].id]
  <2>2. /\ DOMAIN v = DOMAIN k /\ v.page = k.page /\ v.kind = k.kind
        /\ v.user = k.user /\ v.peer = k.peer /\ v.kind = "ask"
    BY <1>9 DEF F!FindDeclined
  <2>3. calls' = (calls \ {k}) \cup {v} /\ UNCHANGED <<rows, made, agreed, hubs>>
    BY <1>9, <2>1 DEF F!FindDeclined
  <2> HIDE DEF v
  <2>4. /\ CallsAreSound'
        /\ \A w \in calls : \E z \in calls' : z.page = w.page /\ z.kind = w.kind
    BY <1>0, <2>2, <2>3 DEF CallsAreSound
  <2>5. HubsAreToldOf'
    BY <1>0, <2>3, <2>4, HubStays
  <2>6. RowsAreAgreed'
    BY <1>0, <2>3 DEF RowsAreAgreed
  <2> QED  BY <2>4, <2>5, <2>6 DEF FriendsInv
<1>10. ASSUME NEW k \in calls, F!AskAgain(k) PROVE FriendsInv'
  <2>1. F!Become(k, "done") /\ hubs' = hubs
    BY <1>10 DEF F!AskAgain
  <2>2. /\ CallsAreSound'
        /\ \A w \in calls : \E v \in calls' : v.page = w.page /\ v.kind = w.kind
    BY <1>0, <2>1, CallBecomes
  <2>3. HubsAreToldOf'
    BY <1>0, <2>1, <2>2, HubStays
  <2> QED  BY <1>0, <1>10, <2>2, <2>3, AskedAgain DEF FriendsInv
<1> QED  BY <1>1, <1>2, <1>3, <1>4, <1>5, <1>6, <1>7, <1>8, <1>9, <1>10 DEF F!Next

\* What holds of a friends page holds of the pages as long as it is on.
LEMMA FriendsKept == Spec => [](part = "friends" => FriendsInv)
<1> DEFINE Inv == part = "friends" => FriendsInv
<1>1. Init => Inv
  BY FriendsStart DEF Init
<1>2. Inv /\ [Next]_vars => Inv'
  <2>1. UNCHANGED vars => UNCHANGED <<part, friendVars>>
    BY DEF vars
  <2>2. UNCHANGED <<part, friendVars>> /\ Inv => Inv'
    BY DEF friendVars, FriendsInv, CallsAreSound, RowsAreAgreed, HubsAreToldOf
  <2>3. Next => part' = part /\ (part = "friends" => F!Next)
    BY DEF Next
  <2> QED  BY <2>1, <2>2, <2>3, FriendsSteps
<1> QED  BY <1>1, <1>2, PTL DEF Spec

\* Nobody is anybody's friend without both having asked or accepted since the
\* last refusal or removal, however old the state was that a page showed.
THEOREM FriendsByAgreement == Spec => []FriendsAgreed
<1>1. (part = "friends" => FriendsInv) => FriendsAgreed
  BY DEF FriendsInv, RowsAreAgreed, FriendsAgreed, F!FriendsAgreed
<1> QED  BY <1>1, FriendsKept, PTL

\* A page at rest shows the list it was told last or the one it put back.
THEOREM ListsSettle == Spec => []ListSettles
<1>1. (part = "friends" => FriendsInv) => ListSettles
  BY DEF FriendsInv, HubsAreToldOf, ListSettles, F!ListSettles, F!Quiet, F!Usable
<1> QED  BY <1>1, FriendsKept, PTL

-----------------------------------------------------------------------------
(* The search. *)

\* An answer of the server, or none.
IsResult(r) == DOMAIN r = {"handle", "friendship"}

\* A lookup knows its number and its text; what it brings is about the text.
IsLookup(l) ==
    /\ DOMAIN l = {"n", "text", "state", "answer"}
    /\ l.n \in Nat /\ l.n < looks /\ IsResult(l.answer)
    /\ l.state \in {"sent", "found", "failed"}
    /\ l.state = "found" => l.answer # S!NoResult /\ l.answer.handle = l.text
    /\ l.state = "failed" => l.answer = S!NoResult /\ (failures = 0 => l.text \notin Handles)

LookupsAreSound ==
    /\ looks \in Nat /\ failures \in Nat
    /\ \A l \in lookups : IsLookup(l)
    /\ \A k, l \in lookups : k.n = l.n => k = l

RequestsAreSound ==
    /\ asked \in Nat /\ IsResult(result)
    /\ asked = 0 => requests = {}
    /\ \A r \in requests : {"about", "state"} \subseteq DOMAIN r /\ IsResult(r.about)

\* The timer runs for the text that is typed.  Once it has run out, the last
\* lookup is of this text; and when it was answered, if no answer overtook an
\* older one, nothing is under way and its answer is shown.
Answered ==
    /\ lookups = {}
    /\ asked = 0 => result = S!NoResult \/ result.handle = text
    /\ failures = 0 /\ text \in Handles => result # S!NoResult
LastIsOfText ==
    /\ timer # S!NoText => timer = text /\ ~S!TooShort(text)
    /\ (~overtaken /\ ~S!TooShort(text) /\ timer = S!NoText) =>
         Answered \/ \E l \in lookups : l.n = looks - 1 /\ l.text = text

SearchInv == /\ text \in S!Texts /\ overtaken \in BOOLEAN
             /\ LookupsAreSound /\ RequestsAreSound /\ LastIsOfText

LEMMA SearchStarts == S!Init => SearchInv
<1> SUFFICES ASSUME S!Init PROVE SearchInv
  OBVIOUS
<1>1. LookupsAreSound
  BY DEF S!Init, LookupsAreSound
<1>2. RequestsAreSound
  BY DEF S!Init, RequestsAreSound, S!NoResult, IsResult
<1>3. LastIsOfText
  BY DEF S!Init, LastIsOfText, S!TooShort
<1> QED  BY <1>1, <1>2, <1>3 DEF S!Init, SearchInv, S!Texts

\* A lookup of the text on the page is the last one.
LEMMA LookIsLast ==
    ASSUME SearchInv, S!Look(text), timer' = S!NoText \/ timer' = timer,
           UNCHANGED <<text, result, requests, overtaken, asked, failures>>
    PROVE  SearchInv'
<1> DEFINE l == [n |-> looks, text |-> text, state |-> "sent", answer |-> S!NoResult]
<1>1. /\ DOMAIN l = {"n", "text", "state", "answer"} /\ l.n = looks /\ l.text = text
      /\ l.state = "sent" /\ l.answer = S!NoResult
  OBVIOUS
<1>2. lookups' = lookups \cup {l} /\ looks' = looks + 1
  BY DEF S!Look
<1> HIDE DEF l
<1>3. IsResult(S!NoResult)
  BY DEF IsResult, S!NoResult
<1>4. ASSUME NEW k \in lookups' PROVE IsLookup(k)' /\ (k.n = looks => k = l)
  BY <1>1, <1>2, <1>3, <1>4 DEF SearchInv, LookupsAreSound, IsLookup, IsResult
<1>5. LookupsAreSound'
  BY <1>1, <1>2, <1>4 DEF SearchInv, LookupsAreSound, IsLookup
<1>6. RequestsAreSound'
  BY DEF SearchInv, RequestsAreSound, IsResult
<1>7. \E k \in lookups' : k.n = looks' - 1 /\ k.text = text'
  BY <1>1, <1>2 DEF SearchInv, LookupsAreSound
<1>8. LastIsOfText'
  BY <1>7 DEF SearchInv, LastIsOfText, S!TooShort
<1> QED  BY <1>5, <1>6, <1>8 DEF SearchInv

\* A lookup gets its answer, or fails, and stays under way.
LEMMA LookupTurns ==
    ASSUME SearchInv, NEW l \in lookups, NEW k, k.n = l.n, k.text = l.text,
           lookups' = (lookups \ {l}) \cup {k}, IsLookup(k)',
           failures' \in Nat, failures' = 0 => failures = 0,
           UNCHANGED <<text, timer, result, requests, overtaken, looks, asked>>
    PROVE  SearchInv'
<1>1. ASSUME NEW j \in lookups' PROVE IsLookup(j)'
  <2>1. j = k \/ (j \in lookups /\ IsLookup(j))
    BY DEF SearchInv, LookupsAreSound
  <2> QED  BY <2>1 DEF IsLookup, IsResult
<1>2. LookupsAreSound'
  BY <1>1 DEF SearchInv, LookupsAreSound
<1>3. RequestsAreSound'
  BY DEF SearchInv, RequestsAreSound, IsResult
<1>4. LastIsOfText'
  <2>1. lookups # {}
    OBVIOUS
  <2>2. \A j \in lookups : \E i \in lookups' : i.n = j.n /\ i.text = j.text
    OBVIOUS
  <2>3. timer' # S!NoText => timer' = text' /\ ~S!TooShort(text')
    BY DEF SearchInv, LastIsOfText
  <2>4. ASSUME ~overtaken', ~S!TooShort(text'), timer' = S!NoText
        PROVE  \E i \in lookups' : i.n = looks' - 1 /\ i.text = text'
    <3>1. PICK j \in lookups : j.n = looks - 1 /\ j.text = text
      BY <2>1, <2>4 DEF SearchInv, LastIsOfText, Answered
    <3> QED  BY <2>2, <3>1
  <2> QED  BY <2>3, <2>4 DEF LastIsOfText, S!TooShort
<1> QED  BY <1>2, <1>3, <1>4 DEF SearchInv

\* An answer is shown; when it is the last one and overtook none, it is that of
\* the text.
LEMMA LookupShown ==
    ASSUME SearchInv, NEW l \in lookups, S!LookupArrives(l)
    PROVE  SearchInv'
<1>1. /\ lookups' = lookups \ {l} /\ result' = l.answer
      /\ l.state \in {"found", "failed"}
      /\ overtaken' = (overtaken \/ \E k \in lookups : k.n < l.n)
      /\ UNCHANGED <<text, timer, requests, looks, asked, failures>>
  BY DEF S!LookupArrives, S!Shown
<1>2. IsLookup(l)
  BY DEF SearchInv, LookupsAreSound
<1>3. LookupsAreSound'
  BY <1>1 DEF SearchInv, LookupsAreSound, IsLookup, IsResult
<1>4. RequestsAreSound'
  BY <1>1, <1>2 DEF SearchInv, RequestsAreSound, IsLookup, IsResult
<1>5. timer' # S!NoText => timer' = text' /\ ~S!TooShort(text')
  BY <1>1 DEF SearchInv, LastIsOfText
<1>6. ASSUME ~overtaken', ~S!TooShort(text'), timer' = S!NoText
      PROVE  Answered' \/ \E k \in lookups' : k.n = looks' - 1 /\ k.text = text'
  <2>1. PICK w \in lookups : w.n = looks - 1 /\ w.text = text
    BY <1>1, <1>6 DEF SearchInv, LastIsOfText, Answered
  <2>2. CASE w # l
    BY <1>1, <2>1, <2>2
  <2>3. CASE w = l
    <3>1. ASSUME NEW k \in lookups PROVE k = l
      <4>1. k.n < looks /\ ~(k.n < l.n) /\ k.n \in Nat /\ looks \in Nat
        BY <1>1, <1>6 DEF SearchInv, LookupsAreSound, IsLookup
      <4>2. k.n = l.n
        BY <2>1, <2>3, <4>1
      <4> QED  BY <4>2 DEF SearchInv, LookupsAreSound
    <3>2. lookups' = {}
      BY <1>1, <3>1
    <3>3. result' = S!NoResult \/ result'.handle = text'
      BY <1>1, <1>2, <2>1, <2>3 DEF IsLookup
    <3>4. failures' = 0 /\ text' \in Handles => result' # S!NoResult
      BY <1>1, <1>2, <2>1, <2>3 DEF IsLookup
    <3> QED  BY <3>2, <3>3, <3>4 DEF Answered, S!NoResult
  <2> QED  BY <2>2, <2>3
<1>7. LastIsOfText'
  BY <1>5, <1>6 DEF LastIsOfText, S!TooShort
<1> QED  BY <1>1, <1>3, <1>4, <1>7 DEF SearchInv

LEMMA SearchSteps ==
    ASSUME SearchInv, S!Next
    PROVE  SearchInv'
<1>1. ASSUME NEW t \in S!Texts, S!Type(t) PROVE SearchInv'
  <2>1. LookupsAreSound'
    BY <1>1 DEF S!Type, SearchInv, LookupsAreSound, IsLookup, IsResult
  <2>2. RequestsAreSound'
    BY <1>1 DEF S!Type, SearchInv, RequestsAreSound, IsResult, S!NoResult
  <2>3. CASE S!TooShort(t)
    <3>1. LastIsOfText'
      BY <1>1, <2>3 DEF S!Type, LastIsOfText, S!TooShort
    <3> QED  BY <1>1, <2>1, <2>2, <3>1 DEF S!Type, SearchInv, S!Texts
  <2>4. CASE ~S!TooShort(t)
    <3>1. t # S!NoText
      BY <2>4, TextsDiffer DEF S!Texts, S!TooShort
    <3>2. LastIsOfText'
      BY <1>1, <2>4, <3>1 DEF S!Type, S!Debounce, LastIsOfText, S!TooShort
    <3> QED  BY <1>1, <2>1, <2>2, <3>2 DEF S!Type, SearchInv, S!Texts
  <2> QED  BY <2>3, <2>4
<1>2. CASE S!TimerFires
  <2>1. timer = text
    BY <1>2 DEF S!TimerFires, SearchInv, LastIsOfText
  <2> QED  BY <1>2, <2>1, LookIsLast DEF S!TimerFires
<1>3. CASE S!FindPlayer
  BY <1>3, LookIsLast DEF S!FindPlayer
<1>4. CASE S!RequestFriend
  <2> DEFINE r == [n |-> asked, about |-> result, state |-> "sent"]
  <2>1. {"about", "state"} \subseteq DOMAIN r /\ r.about = result
    OBVIOUS
  <2>2. requests' = requests \cup {r} /\ asked' = asked + 1
        /\ UNCHANGED <<text, timer, lookups, result, overtaken, looks, failures>>
    BY <1>4 DEF S!RequestFriend
  <2> HIDE DEF r
  <2>3. RequestsAreSound'
    BY <2>1, <2>2 DEF SearchInv, RequestsAreSound, IsResult
  <2>4. LookupsAreSound'
    BY <2>2 DEF SearchInv, LookupsAreSound, IsLookup, IsResult
  <2>5. LastIsOfText'
    BY <2>2 DEF SearchInv, RequestsAreSound, LastIsOfText, Answered, S!TooShort
  <2> QED  BY <2>2, <2>3, <2>4, <2>5 DEF SearchInv
<1>5. CASE S!ListsLoaded
  BY <1>5 DEF S!ListsLoaded, SearchInv, LookupsAreSound, IsLookup, IsResult, RequestsAreSound,
              LastIsOfText, Answered, S!TooShort
<1>6. ASSUME NEW l \in lookups, S!LookupHandled(l) PROVE SearchInv'
  <2> DEFINE known == l.text \in Handles
             answer == IF known THEN S!Answer(l.text) ELSE S!NoResult
             state == IF known THEN "found" ELSE "failed"
             k == [l EXCEPT !.state = state, !.answer = answer]
  <2>1. IsLookup(l)
    BY DEF SearchInv, LookupsAreSound
  <2>2. lookups' = (lookups \ {l}) \cup {k}
        /\ UNCHANGED <<text, timer, result, requests, overtaken, looks, asked, failures>>
    BY <1>6 DEF S!LookupHandled
  <2>3. IsResult(answer)
    BY DEF IsResult, S!Answer, S!NoResult
  <2>4. state = "found" => answer.handle = l.text /\ answer # S!NoResult
    <3>1. known => l.text # S!NoText
      BY TextsDiffer
    <3>2. S!NoResult.handle = S!NoText /\ S!Answer(l.text).handle = l.text
      BY DEF S!NoResult, S!Answer
    <3> QED  BY <3>1, <3>2
  <2>5. /\ state \in {"found", "failed"}
        /\ state = "failed" => answer = S!NoResult /\ l.text \notin Handles
    OBVIOUS
  <2> HIDE DEF answer, state
  <2>6. /\ DOMAIN k = {"n", "text", "state", "answer"} /\ k.n = l.n /\ k.text = l.text
        /\ k.state = state /\ k.answer = answer
    BY <2>1 DEF IsLookup
  <2>7. PICK v : /\ lookups' = (lookups \ {l}) \cup {v}
                 /\ DOMAIN v = {"n", "text", "state", "answer"} /\ v.n = l.n /\ v.text = l.text
                 /\ v.state \in {"found", "failed"} /\ IsResult(v.answer)
                 /\ v.state = "found" => v.answer.handle = v.text /\ v.answer # S!NoResult
                 /\ v.state = "failed" => v.answer = S!NoResult /\ v.text \notin Handles
    <3> HIDE DEF k, known
    <3> WITNESS k
    <3> QED  BY <2>2, <2>3, <2>4, <2>5, <2>6
  <2>8. IsLookup(v)'
    BY <2>1, <2>2, <2>7 DEF IsLookup, IsResult
  <2>9. failures' \in Nat /\ (failures' = 0 => failures = 0)
    BY <2>2 DEF SearchInv, LookupsAreSound
  <2> QED  BY <2>2, <2>7, <2>8, <2>9, LookupTurns
<1>7. ASSUME NEW l \in lookups, S!LookupFails(l) PROVE SearchInv'
  <2> DEFINE k == [l EXCEPT !.state = "failed", !.answer = S!NoResult]
  <2>1. IsLookup(l)
    BY DEF SearchInv, LookupsAreSound
  <2>2. IsResult(S!NoResult)
    BY DEF IsResult, S!NoResult
  <2>3. lookups' = (lookups \ {l}) \cup {k} /\ failures' = failures + 1
        /\ UNCHANGED <<text, timer, result, requests, overtaken, looks, asked>>
    BY <1>7 DEF S!LookupFails
  <2>4. /\ DOMAIN k = {"n", "text", "state", "answer"} /\ k.n = l.n /\ k.text = l.text
        /\ k.state = "failed" /\ k.answer = S!NoResult
    BY <2>1 DEF IsLookup
  <2> HIDE DEF k
  <2>5. failures' \in Nat /\ failures' # 0
    BY <2>3 DEF SearchInv, LookupsAreSound
  <2>6. IsLookup(k)'
    BY <2>1, <2>2, <2>3, <2>4, <2>5 DEF IsLookup, IsResult
  <2> QED  BY <2>3, <2>4, <2>5, <2>6, LookupTurns
<1>8. ASSUME NEW l \in lookups, S!LookupArrives(l) PROVE SearchInv'
  BY <1>8, LookupShown
<1>9. ASSUME NEW r \in requests, S!RequestHandled(r) PROVE SearchInv'
  <2> DEFINE k == [r EXCEPT !.state = IF r.about.handle \in pending THEN "failed" ELSE "done"]
  <2>1. requests' = (requests \ {r}) \cup {k}
        /\ UNCHANGED <<text, timer, lookups, result, overtaken, looks, asked, failures>>
    BY <1>9 DEF S!RequestHandled
  <2>2. DOMAIN k = DOMAIN r /\ k.about = r.about
    OBVIOUS
  <2> HIDE DEF k
  <2>3. RequestsAreSound'
    BY <2>1, <2>2 DEF SearchInv, RequestsAreSound, IsResult
  <2> QED  BY <2>1, <2>3 DEF SearchInv, LookupsAreSound, IsLookup, IsResult,
              LastIsOfText, Answered, S!TooShort
<1>10. ASSUME NEW r \in requests, S!RequestArrives(r) PROVE SearchInv'
  <2> DEFINE back == [r.about EXCEPT !.friendship = "outgoing"]
  <2>1. /\ requests' = requests \ {r} /\ result' \in {result, back}
        /\ UNCHANGED <<text, timer, lookups, overtaken, looks, asked, failures>>
    BY <1>10 DEF S!RequestArrives
  <2>2. asked # 0 /\ IsResult(r.about)
    BY DEF SearchInv, RequestsAreSound
  <2>3. DOMAIN back = {"handle", "friendship"} /\ back.friendship = "outgoing"
    BY <2>2 DEF IsResult
  <2>4. back # S!NoResult
    BY <2>3 DEF S!NoResult
  <2> HIDE DEF back
  <2>5. RequestsAreSound'
    BY <2>1, <2>2, <2>3 DEF SearchInv, RequestsAreSound, IsResult
  <2> QED  BY <2>1, <2>2, <2>4, <2>5 DEF SearchInv, LookupsAreSound, IsLookup, IsResult,
              LastIsOfText, Answered, S!TooShort
<1> QED  BY <1>1, <1>2, <1>3, <1>4, <1>5, <1>6, <1>7, <1>8, <1>9, <1>10 DEF S!Next

\* "Match found!" is said of the handle that was typed and every player whose
\* handle stays typed is found, as long as no answer overtook that of an older
\* lookup: timer, button and clearing of the text never leave the answer to
\* another text on a page at rest.
THEOREM SearchAnswers == Spec => []SearchAnswersTheText
<1> DEFINE Inv == part = "search" => SearchInv
<1>1. Init => Inv
  BY SearchStarts DEF Init
<1>2. Inv /\ [Next]_vars => Inv'
  <2>1. UNCHANGED vars => UNCHANGED <<part, searchVars>>
    BY DEF vars
  <2>2. UNCHANGED <<part, searchVars>> /\ Inv => Inv'
    BY DEF searchVars, SearchInv, LookupsAreSound, IsLookup, IsResult, RequestsAreSound,
           LastIsOfText, Answered, S!TooShort
  <2>3. Next => part' = part /\ (part = "search" => S!Next)
    BY DEF Next
  <2> QED  BY <2>1, <2>2, <2>3, SearchSteps
<1>3. Inv => SearchAnswersTheText
  <2> SUFFICES ASSUME SearchInv, S!Quiet PROVE S!FoundIsTyped /\ S!KnownIsFound
    BY DEF SearchAnswersTheText, S!FoundIsTyped, S!KnownIsFound
  <2>1. ~overtaken /\ ~S!TooShort(text) => Answered
    BY DEF S!Quiet, SearchInv, LastIsOfText
  <2>2. text \in Handles => ~S!TooShort(text)
    BY TextsDiffer DEF S!TooShort
  <2> QED  BY <2>1, <2>2 DEF S!FoundIsTyped, S!KnownIsFound, S!MatchFound, Answered
<1> QED  BY <1>1, <1>2, <1>3, PTL DEF Spec

-----------------------------------------------------------------------------
(* The invitations. *)

\* What lives is younger than what has aged and is in the index, whose expiry
\* counts from the invitation made last.
StoreIsIndexed ==
    /\ roomOf \in Seq(Rooms) /\ aged \in 0..Len(roomOf)
    /\ renewed = Len(roomOf)
    /\ stored \subseteq (aged + 1)..Len(roomOf)
    /\ stored \subseteq index

\* Only what no longer lives was taken.
TakenIsGone ==
    /\ DOMAIN carried = 1..MaxInvites
    /\ \A n \in DOMAIN carried :
         /\ carried[n] \in {0, 1}
         /\ n \in stored \/ n > Len(roomOf) => carried[n] = 0

BellFields == {"up", "list", "polls", "pushes", "answered", "back"}
BellsTell ==
    /\ DOMAIN bell = Bells
    /\ \A g \in Bells : /\ DOMAIN bell[g] = BellFields
                        /\ bell[g].list \cap bell[g].answered \subseteq bell[g].back

InvitesInv == StoreIsIndexed /\ TakenIsGone /\ BellsTell

LEMMA InvitesStart == I!Init => InvitesInv
<1> SUFFICES ASSUME I!Init PROVE InvitesInv
  OBVIOUS
<1>1. roomOf = << >> /\ Len(roomOf) = 0 /\ roomOf \in Seq(Rooms)
  BY EmptySeq DEF I!Init
<1>2. StoreIsIndexed
  BY <1>1 DEF I!Init, StoreIsIndexed
<1>3. TakenIsGone
  BY DEF I!Init, TakenIsGone
<1>4. BellsTell
  BY DEF I!Init, I!NewBell, BellsTell, BellFields
<1> QED  BY <1>2, <1>3, <1>4 DEF InvitesInv

\* Whatever leaves the invitations and their index alone.
LEMMA StoreKept ==
    ASSUME StoreIsIndexed, TakenIsGone,
           UNCHANGED <<roomOf, aged, renewed, stored, index, carried>>
    PROVE  StoreIsIndexed' /\ TakenIsGone'
BY DEF StoreIsIndexed, TakenIsGone

\* One bell changes.
LEMMA BellKept ==
    ASSUME BellsTell, NEW g, NEW b, bell' = [bell EXCEPT ![g] = b],
           g \in Bells => DOMAIN b = BellFields /\ b.list \cap b.answered \subseteq b.back
    PROVE  BellsTell'
BY DEF BellsTell

LEMMA InvitesMade ==
    ASSUME InvitesInv, NEW r \in Rooms, I!Invite(r)
    PROVE  InvitesInv'
<1> DEFINE n == Len(roomOf) + 1
<1>1. /\ roomOf' = Append(roomOf, r) /\ stored' = stored \cup {n} /\ index' = index \cup {n}
      /\ renewed' = n /\ aged' = aged /\ carried' = carried
  BY DEF I!Invite, I!Expiry
<1>2. Len(roomOf) \in Nat /\ roomOf' \in Seq(Rooms) /\ Len(roomOf') = n
  BY <1>1, AppendProperties DEF InvitesInv, StoreIsIndexed
<1> HIDE DEF n
<1>3. n = Len(roomOf) + 1
  BY DEF n
<1>4. StoreIsIndexed'
  <2>1. aged' \in 0..Len(roomOf')
    BY <1>1, <1>2, <1>3 DEF InvitesInv, StoreIsIndexed
  <2>2. stored' \subseteq index'
    BY <1>1 DEF InvitesInv, StoreIsIndexed
  <2>3. ASSUME NEW m \in stored' PROVE m \in (aged' + 1)..Len(roomOf')
    BY <1>1, <1>2, <1>3 DEF InvitesInv, StoreIsIndexed
  <2> QED  BY <1>1, <1>2, <2>1, <2>2, <2>3 DEF StoreIsIndexed
<1>5. TakenIsGone'
  BY <1>1, <1>2, <1>3 DEF InvitesInv, TakenIsGone
<1>6. BellsTell'
  <2>1. PICK reached : bell' = [g \in Bells |-> IF g \in reached
                                  THEN [bell[g] EXCEPT !.pushes = @ \cup {n}] ELSE bell[g]]
    BY DEF I!Invite, n
  <2>2. ASSUME NEW g \in Bells PROVE /\ DOMAIN bell'[g] = BellFields
                                     /\ bell'[g].list = bell[g].list
                                     /\ bell'[g].answered = bell[g].answered
                                     /\ bell'[g].back = bell[g].back
    BY <2>1 DEF InvitesInv, BellsTell, BellFields
  <2> QED  BY <2>1, <2>2 DEF InvitesInv, BellsTell
<1> QED  BY <1>4, <1>5, <1>6 DEF InvitesInv

LEMMA InvitesTurn ==
    ASSUME InvitesInv, I!Next
    PROVE  InvitesInv'
<1>1. CASE I!Expire
  <2>1. StoreIsIndexed'
    BY <1>1 DEF I!Expire, InvitesInv, StoreIsIndexed
  <2>2. TakenIsGone' /\ BellsTell'
    BY <1>1 DEF I!Expire, InvitesInv, TakenIsGone, BellsTell
  <2> QED  BY <2>1, <2>2 DEF InvitesInv
<1>2. CASE I!RoomsChange
  BY <1>2, StoreKept DEF I!RoomsChange, InvitesInv, BellsTell
<1>3. ASSUME NEW r \in Rooms, I!Invite(r) PROVE InvitesInv'
  BY <1>3, InvitesMade
<1>4. ASSUME NEW g \in Bells, I!StartPoll(g) PROVE InvitesInv'
  <2> DEFINE b == [bell[g] EXCEPT !.polls = @ \cup {I!Poll(polls + 1)}]
  <2>1. bell' = [bell EXCEPT ![g] = b]
    BY <1>4 DEF I!StartPoll
  <2>2. DOMAIN b = BellFields /\ b.list \cap b.answered \subseteq b.back
    BY DEF InvitesInv, BellsTell, BellFields
  <2> HIDE DEF b
  <2>3. BellsTell'
    BY <2>1, <2>2, BellKept DEF InvitesInv
  <2> QED  BY <1>4, <2>3, StoreKept DEF I!StartPoll, InvitesInv
<1>5. ASSUME NEW g \in Bells, NEW p \in bell[g].polls, I!ListInvites(g, p) PROVE InvitesInv'
  <2> DEFINE b == [bell[g] EXCEPT !.polls = (@ \ {p}) \cup
                     {[p EXCEPT !.state = "listed", !.reply = index \cap stored]}]
  <2>1. bell' = [bell EXCEPT ![g] = b]
    BY <1>5 DEF I!ListInvites
  <2>2. DOMAIN b = BellFields /\ b.list \cap b.answered \subseteq b.back
    BY DEF InvitesInv, BellsTell, BellFields
  <2> HIDE DEF b
  <2>3. BellsTell'
    BY <2>1, <2>2, BellKept DEF InvitesInv
  <2>4. StoreIsIndexed' /\ TakenIsGone'
    BY <1>5 DEF I!ListInvites, InvitesInv, StoreIsIndexed, TakenIsGone
  <2> QED  BY <2>3, <2>4 DEF InvitesInv
<1>6. ASSUME NEW g \in Bells, NEW p \in bell[g].polls, I!ShowPoll(g, p) PROVE InvitesInv'
  <2> DEFINE b == [bell[g] EXCEPT !.polls = @ \ {p}, !.list = p.reply,
                                  !.back = p.reply \cap bell[g].answered]
  <2>1. bell' = [bell EXCEPT ![g] = b]
    BY <1>6 DEF I!ShowPoll
  <2>2. DOMAIN b = BellFields /\ b.list \cap b.answered \subseteq b.back
    BY DEF InvitesInv, BellsTell, BellFields
  <2> HIDE DEF b
  <2>3. BellsTell'
    BY <2>1, <2>2, BellKept DEF InvitesInv
  <2> QED  BY <1>6, <2>3, StoreKept DEF I!ShowPoll, InvitesInv
<1>7. ASSUME NEW g \in Bells, NEW p \in bell[g].polls, I!LosePoll(g, p) PROVE InvitesInv'
  <2> DEFINE b == [bell[g] EXCEPT !.polls = @ \ {p}]
  <2>1. bell' = [bell EXCEPT ![g] = b]
    BY <1>7 DEF I!LosePoll
  <2>2. DOMAIN b = BellFields /\ b.list \cap b.answered \subseteq b.back
    BY DEF InvitesInv, BellsTell, BellFields
  <2> HIDE DEF b
  <2>3. BellsTell'
    BY <2>1, <2>2, BellKept DEF InvitesInv
  <2> QED  BY <1>7, <2>3, StoreKept DEF I!LosePoll, InvitesInv
<1>8. ASSUME NEW g \in Bells, NEW n \in bell[g].pushes, I!ShowPush(g, n) PROVE InvitesInv'
  <2> DEFINE b == [bell[g] EXCEPT !.pushes = @ \ {n}, !.list = @ \cup {n},
                                  !.back = @ \cup ({n} \cap bell[g].answered)]
  <2>1. bell' = [bell EXCEPT ![g] = b]
    BY <1>8 DEF I!ShowPush
  <2>2. DOMAIN b = BellFields /\ b.list \cap b.answered \subseteq b.back
    BY DEF InvitesInv, BellsTell, BellFields
  <2> HIDE DEF b
  <2>3. BellsTell'
    BY <2>1, <2>2, BellKept DEF InvitesInv
  <2> QED  BY <1>8, <2>3, StoreKept DEF I!ShowPush, InvitesInv
<1>9. ASSUME NEW g \in Bells, NEW n \in bell[g].list, NEW accept \in BOOLEAN,
             I!Click(g, n, accept) PROVE InvitesInv'
  BY <1>9, StoreKept DEF I!Click, InvitesInv, BellsTell
<1>10. ASSUME NEW a \in replies, I!TakeInvite(a) PROVE InvitesInv'
  <2>1. /\ a.invite \in stored
        /\ stored' = stored \ {a.invite} /\ index' = index \ {a.invite}
        /\ carried' = [carried EXCEPT ![a.invite] = carried[a.invite] + 1]
        /\ UNCHANGED <<roomOf, renewed, aged, bell>>
    BY <1>10 DEF I!TakeInvite, I!Taken
  <2>2. StoreIsIndexed' /\ BellsTell'
    BY <2>1 DEF InvitesInv, StoreIsIndexed, BellsTell
  <2>3. TakenIsGone'
    BY <2>1 DEF InvitesInv, StoreIsIndexed, TakenIsGone
  <2> QED  BY <2>2, <2>3 DEF InvitesInv
<1>11. ASSUME NEW a \in replies, I!FindNone(a) \/ I!Judge(a) \/ I!LoseAnswer(a)
       PROVE  InvitesInv'
  BY <1>11, StoreKept DEF I!FindNone, I!Judge, I!LoseAnswer, InvitesInv, BellsTell
<1>12. ASSUME NEW a \in replies, I!Return(a) PROVE InvitesInv'
  <2> DEFINE off == [I!NewBell EXCEPT !.up = FALSE]
             b == [bell[a.page] EXCEPT !.list = I!Drop(@, a), !.answered = @ \cup {a.invite},
                                       !.back = @ \ {a.invite}]
  <2>1. \/ bell' = [bell EXCEPT ![a.page] = off]
        \/ bell' = [bell EXCEPT ![a.page] = b]
        \/ bell' = bell
    BY <1>12 DEF I!Return
  <2>2. DOMAIN off = BellFields /\ off.list \cap off.answered \subseteq off.back
    BY DEF I!NewBell, BellFields
  <2>3. a.page \in Bells => DOMAIN b = BellFields /\ b.list \cap b.answered \subseteq b.back
    BY DEF InvitesInv, BellsTell, BellFields, I!Drop
  <2> HIDE DEF b, off
  <2>4. BellsTell'
    BY <2>1, <2>2, <2>3, BellKept DEF InvitesInv, BellsTell
  <2> QED  BY <1>12, <2>4, StoreKept DEF I!Return, InvitesInv
<1> QED  BY <1>1, <1>2, <1>3, <1>4, <1>5, <1>6, <1>7, <1>8, <1>9, <1>10, <1>11, <1>12 DEF I!Next

InvitesHold == part = "invites" => InvitesInv
LEMMA InvitesKept == Spec => []InvitesHold
<1>1. Init => InvitesHold
  BY InvitesStart DEF Init, InvitesHold
<1>2. InvitesHold /\ [Next]_vars => InvitesHold'
  <2>1. UNCHANGED vars => UNCHANGED <<part, inviteVars>>
    BY DEF vars
  <2>2. UNCHANGED <<part, inviteVars>> /\ InvitesHold => InvitesHold'
    BY DEF inviteVars, InvitesHold, InvitesInv, StoreIsIndexed, TakenIsGone, BellsTell
  <2>3. Next => part' = part /\ (part = "invites" => I!Next)
    BY DEF Next
  <2> QED  BY <2>1, <2>2, <2>3, InvitesTurn DEF InvitesHold
<1> QED  BY <1>1, <1>2, PTL DEF Spec

\* However often an invitation is accepted and declined, and on however many
\* devices, one answer is carried out: GETDEL gives it to one of them.
THEOREM InvitesAnsweredOnce == Spec => []InviteAnsweredOnce
<1>1. InvitesHold => InviteAnsweredOnce
  BY DEF InvitesHold, InvitesInv, TakenIsGone, InviteAnsweredOnce, I!AnsweredOnce
<1> QED  BY <1>1, InvitesKept, PTL

\* Tokens and index expire apart and still no living invitation is missing from
\* the index; and an answered one is back on a bell only if something brought it.
THEOREM LivingIsFound == Spec => []InvitesAreFound
<1>1. InvitesHold => InvitesAreFound
  BY DEF InvitesHold, InvitesInv, StoreIsIndexed, BellsTell, InvitesAreFound, I!InvitesAreFound
<1> QED  BY <1>1, InvitesKept, PTL

-----------------------------------------------------------------------------
(* Voice. *)

ObjectFields == {"shown", "asks", "mics", "on", "peers", "work"}
Peer == [track : BOOLEAN, state : {"stable", "have-local", "have-remote"}, own : Nat,
         remote : [n : Nat, sends : BOOLEAN],
         session : [n : Nat, mine : BOOLEAN, theirs : BOOLEAN]]
Offered == [n : Nat, sends : BOOLEAN]
Signals == [from : Speakers, kind : {"join", "leave", "offer", "answer", "ice"},
            data : Offered \cup {V!NoSession}]

\* The object v of p; offers are numbered up to k.  Hidden controls have none of
\* it, and a connection carries the microphone only while there is one.
IsObject(p, v, k) ==
    /\ DOMAIN v = ObjectFields /\ v.shown \in BOOLEAN /\ v.asks \in Nat /\ v.mics \in Nat
    /\ DOMAIN v.peers \subseteq Speakers \ {p}
    /\ \A q \in DOMAIN v.peers :
         /\ v.peers[q] \in Peer
         /\ v.peers[q].track => v.mics > 0
         /\ v.peers[q].own <= k /\ v.peers[q].remote.n <= k /\ v.peers[q].session.n <= k
    /\ ~v.shown => v.asks = 0 /\ v.mics = 0 /\ DOMAIN v.peers = {} /\ v.work = {}

\* A signal to p, from somebody else.
IsSignal(p, s, k) ==
    /\ s \in Signals /\ s.from # p
    /\ s.kind \in {"offer", "answer"} => s.data \in Offered /\ s.data.n <= k
    /\ s.kind = "offer" => s.data.n # 0

VoiceTyped ==
    /\ offers \in Nat
    /\ DOMAIN voice = Speakers /\ \A p \in Speakers : IsObject(p, voice[p], offers)
    /\ DOMAIN orphans = Speakers
    /\ \A p \in Speakers : /\ DOMAIN orphans[p] = {"asks", "mics"}
                           /\ orphans[p].asks \in Nat /\ orphans[p].mics \in Nat
    /\ DOMAIN pipe = Speakers
    /\ \A p \in Speakers : /\ pipe[p] \in Seq(Signals)
                           /\ \A i \in 1..Len(pipe[p]) : IsSignal(p, pipe[p][i], offers)

\* A signal of q that says q sends audio under its number; an offer; a leave.
Claims(s, q)  == s.from = q /\ s.kind \in {"offer", "answer"} /\ s.data.sends
Offers(s, q)  == s.from = q /\ s.kind = "offer"
Leaves(s, q)  == s.from = q /\ s.kind = "leave"

\* What an object was told by q, what it still has of offers it made to q or
\* got from q, and what it got last.
Believes(v, q, n) ==
    /\ q \in DOMAIN v.peers
    /\ \/ v.peers[q].session.n = n /\ v.peers[q].session.theirs
       \/ v.peers[q].remote.n = n /\ v.peers[q].remote.sends
Uses(v, q, n) ==
    /\ q \in DOMAIN v.peers /\ n # 0
    /\ n \in {v.peers[q].session.n, v.peers[q].own, v.peers[q].remote.n}
Took(v, q, n) == q \in DOMAIN v.peers /\ v.peers[q].remote.n = n

\* q has told the object v, or is telling it in the pipe sq, that audio comes
\* under the number n.
Said(v, sq, q, n) ==
    \/ Believes(v, q, n)
    \/ \E i \in 1..Len(sq) : Claims(sq[i], q) /\ sq[i].data.n = n

\* Who has told so and still uses the number has a microphone.
ClaimsAreBacked ==
    \A p, q \in Speakers, n \in Nat : 
        Uses(voice[q], p, n) /\ Said(voice[p], pipe[p], q, n) => voice[q].mics > 0

\* An offer is on its way once, before it is taken or anything is said about it.
OffersComeOnce ==
    \A p, q \in Speakers : \A i \in 1..Len(pipe[p]) : Offers(pipe[p][i], q) =>
        /\ \A j \in 1..Len(pipe[p]) :
             Offers(pipe[p][j], q) /\ pipe[p][j].data.n = pipe[p][i].data.n => i = j
        /\ ~Took(voice[p], q, pipe[p][i].data.n)
        /\ ~Said(voice[q], pipe[q], p, pipe[p][i].data.n)

\* Nothing reaches a page without a connection, and without one it has no
\* controls once it has noticed; what it is to say waits for the next.
LinkTyped(p) ==
    /\ link[p] \in {"heard", "unheard", "lost", "off"} /\ outbox[p] \in Seq({"join", "leave"})
    /\ link[p] \in {"lost", "off"} => pipe[p] = << >>
    /\ link[p] = "off" => ~voice[p].shown
    /\ link[p] = "lost" => outbox[p] = << >>
LinksTyped ==
    /\ DOMAIN link = Speakers /\ DOMAIN outbox = Speakers
    /\ \A p \in Speakers : LinkTyped(p)

\* A player without a microphone, on the page or left behind; still in the match
\* and with the last leave taken or to be said; and with nothing to be said.
Silent(q) == voice[q].mics = 0 /\ orphans[q].mics = 0
Gone(q) == Silent(q) /\ q \notin won /\ q \notin unsaid
Left(q) == Gone(q) /\ outbox[q] = << >>

\* Who has left is no member, and a leave follows all they said; who has not yet
\* has a leave to say last.
LeftAreNoMembers ==
    \A q \in Speakers : /\ Left(q) => q \notin members
                        /\ Silent(q) /\ outbox[q] # << >> => outbox[q][Len(outbox[q])] = "leave"
LeavesFollow ==
    \A p, q \in Speakers : Left(q) /\ link[p] # "lost" =>
        /\ (\E n \in Nat : Believes(voice[p], q, n)) => \E j \in 1..Len(pipe[p]) : Leaves(pipe[p][j], q)
        /\ \A i \in 1..Len(pipe[p]) : Claims(pipe[p][i], q) =>
             \E j \in (i + 1)..Len(pipe[p]) : Leaves(pipe[p][j], q)

VoiceInv ==
    VoiceTyped /\ LinksTyped /\ ClaimsAreBacked /\ OffersComeOnce /\ LeftAreNoMembers /\ LeavesFollow

\* Nobody has controls at first.
LEMMA VoiceStarts == V!Init => VoiceInv
<1> SUFFICES ASSUME V!Init PROVE VoiceInv
  OBVIOUS
<1>1. \A p \in Speakers : /\ voice[p] = V!NewVoice /\ pipe[p] = << >> /\ outbox[p] = << >>
                          /\ orphans[p] = [asks |-> 0, mics |-> 0]
  BY DEF V!Init
<1>2. IsObject(1, V!NewVoice, 0) /\ \A p : IsObject(p, V!NewVoice, 0)
  BY DEF V!NewVoice, IsObject, ObjectFields
<1>3. << >> \in Seq(Signals) /\ Len(<< >>) = 0
  BY EmptySeq
<1>4. DOMAIN V!NewVoice.peers = {}
  BY DEF V!NewVoice
<1>5. VoiceTyped
  BY <1>1, <1>2, <1>3 DEF V!Init, VoiceTyped
<1>6. ClaimsAreBacked /\ OffersComeOnce
  BY <1>1, <1>3, <1>4 DEF ClaimsAreBacked, OffersComeOnce, Uses
<1>7. LeftAreNoMembers /\ LeavesFollow
  BY <1>1, <1>3, <1>4 DEF V!Init, LeftAreNoMembers, LeavesFollow, Believes
<1>8. LinksTyped
  <2>1. << >> \in Seq({"join", "leave"})
    BY EmptySeq
  <2> QED  BY <1>1, <2>1 DEF V!Init, LinksTyped, LinkTyped
<1> QED  BY <1>5, <1>6, <1>7, <1>8 DEF VoiceInv

\* A pipe gets a signal more.
LEMMA PipeGrows ==
    ASSUME NEW sq \in Seq(Signals), NEW s \in Signals
    PROVE  /\ Append(sq, s) \in Seq(Signals) /\ Len(Append(sq, s)) = Len(sq) + 1
           /\ \A i \in 1..Len(sq) : Append(sq, s)[i] = sq[i]
           /\ Append(sq, s)[Len(sq) + 1] = s
OBVIOUS

\* A pipe gets an offer or an answer and the candidates after it.
LEMMA PipeGrowsByTwo ==
    ASSUME NEW sq \in Seq(Signals), NEW s \in Signals, NEW t \in Signals
    PROVE  /\ sq \o <<s, t>> \in Seq(Signals) /\ Len(sq \o <<s, t>>) = Len(sq) + 2
           /\ \A i \in 1..Len(sq) : (sq \o <<s, t>>)[i] = sq[i]
           /\ (sq \o <<s, t>>)[Len(sq) + 1] = s /\ (sq \o <<s, t>>)[Len(sq) + 2] = t
OBVIOUS

\* A pipe gives its first signal.
LEMMA PipeShrinks ==
    ASSUME NEW sq \in Seq(Signals), sq # << >>
    PROVE  /\ Tail(sq) \in Seq(Signals) /\ Len(Tail(sq)) = Len(sq) - 1 /\ Len(sq) \in Nat \ {0}
           /\ \A i \in 1..Len(Tail(sq)) : Tail(sq)[i] = sq[i + 1]
           /\ Head(sq) = sq[1]
OBVIOUS

\* Of the objects only that of p changes.
OnlyOf(p) == DOMAIN voice' = Speakers /\ \A q \in Speakers : q # p => voice'[q] = voice[q]

\* The pipes lose nothing; some others get the signal s of p.
Announced(p, s) ==
    /\ DOMAIN pipe' = Speakers
    /\ \A q \in Speakers : pipe'[q] = pipe[q] \/ (q # p /\ pipe'[q] = Append(pipe[q], s))

\* What was told before is told still; no more, when s tells nothing.
LEMMA AnnouncedIsMore ==
    ASSUME VoiceTyped, NEW p \in Speakers, NEW s \in Signals, s.from = p,
           s.kind \in {"join", "leave"}, Announced(p, s), NEW q \in Speakers
    PROVE  /\ DOMAIN pipe' = Speakers /\ pipe'[q] \in Seq(Signals)
           /\ Len(pipe[q]) \in Nat /\ Len(pipe'[q]) \in Nat /\ Len(pipe[q]) <= Len(pipe'[q])
           /\ \A i \in 1..Len(pipe[q]) : pipe'[q][i] = pipe[q][i]
           /\ \A i \in 1..Len(pipe'[q]) : i <= Len(pipe[q]) \/ (pipe'[q][i] = s /\ q # p)
<1>1. pipe[q] \in Seq(Signals) /\ Len(pipe[q]) \in Nat /\ DOMAIN pipe = Speakers
  BY DEF VoiceTyped
<1>2. DOMAIN pipe' = Speakers /\ (pipe'[q] = pipe[q] \/ (q # p /\ pipe'[q] = Append(pipe[q], s)))
  BY DEF Announced
<1>3. CASE pipe'[q] = pipe[q]
  BY <1>1, <1>2, <1>3
<1>4. CASE q # p /\ pipe'[q] = Append(pipe[q], s)
  BY <1>1, <1>2, <1>4, PipeGrows
<1> QED  BY <1>2, <1>3, <1>4

\* All others who have a connection get it.
Heeded(p, s) ==
    \A r \in Speakers \ {p} : pipe'[r] = Append(pipe[r], s) \/ link'[r] \in {"lost", "off"}

\* The object and the pipe of q have nothing.
Cleared(q) == DOMAIN voice'[q].peers = {} /\ pipe'[q] = << >>

\* A step that leaves the connections of p as they are, or closes them all.
LEMMA QuietStep ==
    ASSUME VoiceInv, NEW p \in Speakers, OnlyOf(p), IsObject(p, voice'[p], offers), offers' = offers,
           \/ voice'[p].peers = voice[p].peers /\ voice'[p].mics >= voice[p].mics
           \/ DOMAIN voice'[p].peers = {},
           NEW s \in Signals, s.from = p, s.kind \in {"join", "leave"}, Announced(p, s),
           DOMAIN orphans' = Speakers,
           \A q \in Speakers : /\ DOMAIN orphans'[q] = {"asks", "mics"}
                               /\ orphans'[q].asks \in Nat /\ orphans'[q].mics \in Nat,
           LinksTyped', LeftAreNoMembers',
           \A q \in Speakers : /\ Left(q)' => Left(q) \/ (q = p /\ s.kind = "leave" /\ Heeded(p, s))
                               /\ link[q] = "lost" => link'[q] = "lost" \/ Cleared(q)
    PROVE  VoiceInv'
<1>1. DOMAIN voice' = Speakers /\ \A q \in Speakers : q # p => voice'[q] = voice[q]
  BY DEF OnlyOf
<1>2. \A q \in Speakers :
        /\ \/ voice'[q].peers = voice[q].peers /\ voice'[q].mics >= voice[q].mics
           \/ DOMAIN voice'[q].peers = {}
        /\ voice[q].mics \in Nat /\ voice'[q].mics \in Nat
  <2>1. ASSUME NEW q \in Speakers PROVE voice[q].mics \in Nat
    BY DEF VoiceInv, VoiceTyped, IsObject
  <2>2. voice'[p].mics \in Nat
    BY DEF IsObject
  <2> QED  BY <1>1, <2>1, <2>2
<1>3. VoiceTyped'
  <2>1. \A q \in Speakers : IsObject(q, voice'[q], offers')
    BY <1>1 DEF VoiceInv, VoiceTyped
  <2>2. ASSUME NEW q \in Speakers, NEW i \in 1..Len(pipe'[q])
        PROVE  IsSignal(q, pipe'[q][i], offers')
    <3>1. i \in Nat /\ 1 <= i
      OBVIOUS
    <3>2. (i \in 1..Len(pipe[q]) /\ pipe'[q][i] = pipe[q][i]) \/ (pipe'[q][i] = s /\ q # p)
      BY <3>1, AnnouncedIsMore DEF VoiceInv
    <3> QED  BY <3>2 DEF VoiceInv, VoiceTyped, IsSignal
  <2>3. DOMAIN pipe' = Speakers /\ \A q \in Speakers : pipe'[q] \in Seq(Signals)
    BY AnnouncedIsMore DEF VoiceInv
  <2> QED  BY <1>1, <2>1, <2>2, <2>3 DEF VoiceInv, VoiceTyped
<1>4. ASSUME NEW q \in Speakers, NEW r \in Speakers, NEW n
      PROVE  /\ Believes(voice'[q], r, n) => Believes(voice[q], r, n)
             /\ Uses(voice'[q], r, n) => Uses(voice[q], r, n) /\ voice'[q].mics >= voice[q].mics
             /\ Took(voice'[q], r, n) => Took(voice[q], r, n)
  BY <1>2 DEF Believes, Uses, Took
<1>5. ASSUME NEW q \in Speakers, NEW i \in 1..Len(pipe'[q]), pipe'[q][i].kind \notin {"join", "leave"}
      PROVE  i \in 1..Len(pipe[q]) /\ pipe'[q][i] = pipe[q][i]
  BY <1>5, AnnouncedIsMore DEF VoiceInv
<1>6. ASSUME NEW q \in Speakers, NEW r \in Speakers, NEW n
      PROVE  Said(voice'[q], pipe'[q], r, n) => Said(voice[q], pipe[q], r, n)
  <2>1. ASSUME NEW i \in 1..Len(pipe'[q]), Claims(pipe'[q][i], r), pipe'[q][i].data.n = n
        PROVE  Said(voice[q], pipe[q], r, n)
    BY <1>5, <2>1 DEF Said, Claims
  <2> QED  BY <1>4, <2>1 DEF Said
<1>7. ClaimsAreBacked'
  <2> SUFFICES ASSUME NEW q \in Speakers, NEW r \in Speakers, NEW n \in Nat,
                      Uses(voice'[r], q, n), Said(voice'[q], pipe'[q], r, n)
               PROVE  voice'[r].mics > 0
    BY DEF ClaimsAreBacked
  <2>1. Uses(voice[r], q, n) /\ voice'[r].mics >= voice[r].mics
    BY <1>4
  <2>2. Said(voice[q], pipe[q], r, n)
    BY <1>6
  <2>3. voice[r].mics > 0
    BY <2>1, <2>2 DEF VoiceInv, ClaimsAreBacked
  <2> QED  BY <1>2, <2>1, <2>3
<1>8. OffersComeOnce'
  <2> SUFFICES ASSUME NEW q \in Speakers, NEW r \in Speakers, NEW i \in 1..Len(pipe'[q]),
                      Offers(pipe'[q][i], r)
               PROVE  /\ \A j \in 1..Len(pipe'[q]) :
                           Offers(pipe'[q][j], r) /\ pipe'[q][j].data.n = pipe'[q][i].data.n => i = j
                      /\ ~Took(voice'[q], r, pipe'[q][i].data.n)
                      /\ ~Said(voice'[r], pipe'[r], q, pipe'[q][i].data.n)
    BY DEF OffersComeOnce
  <2>1. i \in 1..Len(pipe[q]) /\ pipe'[q][i] = pipe[q][i]
    BY <1>5 DEF Offers
  <2>2. ASSUME NEW j \in 1..Len(pipe'[q]), Offers(pipe'[q][j], r)
        PROVE  j \in 1..Len(pipe[q]) /\ pipe'[q][j] = pipe[q][j]
    BY <1>5, <2>2 DEF Offers
  <2>3. /\ \A j \in 1..Len(pipe[q]) :
             Offers(pipe[q][j], r) /\ pipe[q][j].data.n = pipe[q][i].data.n => i = j
        /\ ~Took(voice[q], r, pipe[q][i].data.n)
        /\ ~Said(voice[r], pipe[r], q, pipe[q][i].data.n)
    BY <2>1 DEF VoiceInv, OffersComeOnce
  <2>4. ~Took(voice'[q], r, pipe'[q][i].data.n)
    BY <1>4, <2>1, <2>3
  <2>5. ~Said(voice'[r], pipe'[r], q, pipe'[q][i].data.n)
    BY <1>6, <2>1, <2>3
  <2> QED  BY <2>1, <2>2, <2>3, <2>4, <2>5
<1>9. LeavesFollow'
  <2> SUFFICES ASSUME NEW q \in Speakers, NEW r \in Speakers, Left(r)', link'[q] # "lost"
               PROVE  /\ (\E n \in Nat : Believes(voice'[q], r, n)) =>
                           \E j \in 1..Len(pipe'[q]) : Leaves(pipe'[q][j], r)
                      /\ \A i \in 1..Len(pipe'[q]) : Claims(pipe'[q][i], r) =>
                           \E j \in (i + 1)..Len(pipe'[q]) : Leaves(pipe'[q][j], r)
    BY DEF LeavesFollow
  <2>1. /\ Len(pipe[q]) \in Nat /\ Len(pipe'[q]) \in Nat /\ Len(pipe[q]) <= Len(pipe'[q])
        /\ \A i \in 1..Len(pipe[q]) : pipe'[q][i] = pipe[q][i]
    BY AnnouncedIsMore DEF VoiceInv
  <2>2. ASSUME NEW i \in 1..Len(pipe'[q]), Claims(pipe'[q][i], r)
        PROVE  i \in 1..Len(pipe[q]) /\ Claims(pipe[q][i], r)
    BY <1>5, <2>2 DEF Claims
  <2>3. CASE Left(r) /\ link[q] # "lost"
    <3>1. (\E n \in Nat : Believes(voice'[q], r, n)) =>
            \E j \in 1..Len(pipe'[q]) : Leaves(pipe'[q][j], r)
      <4> SUFFICES ASSUME NEW n \in Nat, Believes(voice'[q], r, n)
                   PROVE  \E j \in 1..Len(pipe'[q]) : Leaves(pipe'[q][j], r)
        OBVIOUS
      <4>1. Believes(voice[q], r, n)
        BY <1>4
      <4>2. PICK j \in 1..Len(pipe[q]) : Leaves(pipe[q][j], r)
        BY <2>3, <4>1 DEF VoiceInv, LeavesFollow
      <4>3. j \in 1..Len(pipe'[q]) /\ pipe'[q][j] = pipe[q][j]
        BY <2>1
      <4> QED  BY <4>2, <4>3
    <3>2. ASSUME NEW i \in 1..Len(pipe'[q]), Claims(pipe'[q][i], r)
          PROVE  \E j \in (i + 1)..Len(pipe'[q]) : Leaves(pipe'[q][j], r)
      <4>1. PICK j \in (i + 1)..Len(pipe[q]) : Leaves(pipe[q][j], r)
        BY <2>2, <2>3, <3>2 DEF VoiceInv, LeavesFollow
      <4>2. j \in (i + 1)..Len(pipe'[q]) /\ pipe'[q][j] = pipe[q][j]
        BY <2>1
      <4> QED  BY <4>1, <4>2
    <3> QED  BY <3>1, <3>2
  \* Nothing is left of what others said to q.
  <2>4. CASE DOMAIN voice'[q].peers = {} /\ pipe'[q] = << >>
    BY <2>4 DEF Believes
  <2>5. CASE ~Left(r)
    <3>1. r = p /\ s.kind = "leave" /\ Heeded(p, s)
      BY <2>5
    <3>2. CASE q = p
      <4>1. r \notin DOMAIN voice'[q].peers
        BY <1>1, <3>1, <3>2 DEF IsObject
      <4>2. \A i \in 1..Len(pipe[q]) : ~Claims(pipe[q][i], r)
        BY <3>1, <3>2 DEF VoiceInv, VoiceTyped, IsSignal, Claims
      <4> QED  BY <2>2, <4>1, <4>2 DEF Believes
    <3>3. CASE q # p /\ pipe'[q] = Append(pipe[q], s)
      <4>1. pipe'[q] = Append(pipe[q], s) /\ pipe[q] \in Seq(Signals)
        BY <3>3 DEF VoiceInv, VoiceTyped
      <4>2. Len(pipe'[q]) = Len(pipe[q]) + 1 /\ Leaves(pipe'[q][Len(pipe'[q])], r)
        BY <3>1, <4>1, PipeGrows DEF Leaves
      <4>3. \A i \in 1..Len(pipe[q]) : Len(pipe'[q]) \in (i + 1)..Len(pipe'[q])
        BY <2>1, <4>2
      <4>4. \E k \in 1..Len(pipe'[q]) : Leaves(pipe'[q][k], r)
        BY <2>1, <4>2
      <4>5. ASSUME NEW i \in 1..Len(pipe'[q]), Claims(pipe'[q][i], r)
            PROVE  \E k \in (i + 1)..Len(pipe'[q]) : Leaves(pipe'[q][k], r)
        BY <2>2, <4>2, <4>3, <4>5
      <4> QED  BY <4>4, <4>5
    <3>4. CASE link'[q] = "off"
      <4>1. pipe'[q] = << >> /\ ~voice'[q].shown
        BY <3>4 DEF LinksTyped, LinkTyped
      <4>2. IsObject(q, voice'[q], offers')
        BY <1>3 DEF VoiceTyped
      <4>3. DOMAIN voice'[q].peers = {}
        BY <4>1, <4>2 DEF IsObject
      <4> QED  BY <2>4, <4>1, <4>3
    <3> QED  BY <3>1, <3>2, <3>3, <3>4 DEF Heeded
  <2>6. link[q] = "lost" => Cleared(q)
    OBVIOUS
  <2> QED  BY <2>3, <2>4, <2>5, <2>6 DEF Cleared
<1> QED  BY <1>3, <1>7, <1>8, <1>9 DEF VoiceInv

\* The announcement s of p reaches others or nobody; unless a leave is not taken,
\* p is no member and it reaches whoever has a connection.
Spoken(p, s) ==
    /\ Announced(p, s)
    /\ \A r \in Speakers : link[r] \in {"lost", "off"} => pipe'[r] = pipe[r]
    /\ members' \subseteq members \cup {p}
    /\ \A q \in Speakers : q # p => (q \in unsaid' <=> q \in unsaid)
    /\ s.kind = "leave" /\ p \notin unsaid' =>
         /\ p \notin members'
         /\ \A r \in Speakers \ {p} : pipe'[r] = Append(pipe[r], s) \/ link[r] \in {"lost", "off"}

LEMMA SignalIs ==
    ASSUME NEW p \in Speakers, NEW kind \in {"join", "leave"}
    PROVE  /\ V!Signal(p, kind, V!NoSession) \in Signals /\ V!Signal(p, kind, V!NoSession).from = p
           /\ V!Signal(p, kind, V!NoSession).kind = kind
BY DEF V!Signal, V!NoSession, Signals

\* What the relay does with an announcement of p.
LEMMA RelayTells ==
    ASSUME VoiceTyped, LinksTyped, NEW p \in Speakers, NEW kind \in {"join", "leave"}, V!Relay(p, kind)
    PROVE  Spoken(p, V!Signal(p, kind, V!NoSession))
<1> DEFINE s == V!Signal(p, kind, V!NoSession)
<1>1. s.kind = kind
  BY SignalIs
<1>2. \A q \in Speakers : link[q] \in {"lost", "off"} <=> ~V!Reached(q)
  BY DEF LinksTyped, LinkTyped, V!Reached
<1>3. CASE V!Takes(p, kind)
  <2>1. /\ members' = V!Noted(p, kind)
        /\ pipe' = [q \in Speakers |-> IF q # p /\ V!Reached(q) THEN Append(pipe[q], s) ELSE pipe[q]]
        /\ unsaid' = IF kind = "leave" THEN unsaid \ {p} ELSE unsaid
    BY <1>3 DEF V!Relay
  <2> HIDE DEF s
  <2>2. Announced(p, s)
    BY <2>1 DEF Announced
  <2>3. \A r \in Speakers : link[r] \in {"lost", "off"} => pipe'[r] = pipe[r]
    BY <1>2, <2>1
  <2>4. \A r \in Speakers \ {p} : pipe'[r] = Append(pipe[r], s) \/ link[r] \in {"lost", "off"}
    BY <1>2, <2>1
  <2>5. members' \subseteq members \cup {p} /\ (kind = "leave" => p \notin members')
    BY <2>1 DEF V!Noted
  <2>6. \A q \in Speakers : q # p => (q \in unsaid' <=> q \in unsaid)
    BY <2>1
  <2> QED  BY <1>1, <2>2, <2>3, <2>4, <2>5, <2>6 DEF Spoken, s
<1>4. CASE ~V!Takes(p, kind)
  <2>1. /\ UNCHANGED <<members, pipe>>
        /\ unsaid' = IF kind = "leave" THEN unsaid \cup {p} ELSE unsaid
    BY <1>4 DEF V!Relay
  <2>2. Announced(p, s)
    BY <2>1 DEF VoiceTyped, Announced
  <2> QED  BY <1>1, <2>1, <2>2 DEF Spoken
<1> QED  BY <1>3, <1>4

\* An announcement is relayed, or waits as the last one.
LEMMA AnnounceTells ==
    ASSUME VoiceTyped, LinksTyped, NEW p \in Speakers, NEW kind \in {"join", "leave"},
           V!Announce(p, kind), link' = link
    PROVE  /\ Announced(p, V!Signal(p, kind, V!NoSession))
           /\ outbox'[p] = << >> => Spoken(p, V!Signal(p, kind, V!NoSession))
           /\ outbox'[p] # << >> => outbox'[p][Len(outbox'[p])] = kind
           /\ members' \subseteq members \cup {p} /\ DOMAIN outbox' = Speakers
           /\ \A q \in Speakers : q # p => /\ q \in unsaid' <=> q \in unsaid
                                        /\ outbox'[q] = outbox[q]
           /\ \A q \in Speakers : /\ outbox'[q] \in Seq({"join", "leave"})
                                  /\ link'[q] = "lost" => outbox'[q] = << >>
                                  /\ link'[q] \in {"lost", "off"} => pipe'[q] = << >>
<1> DEFINE s == V!Signal(p, kind, V!NoSession)
<1>1. /\ DOMAIN outbox = Speakers /\ outbox[p] \in Seq({"join", "leave"})
      /\ \A q \in Speakers : /\ outbox[q] \in Seq({"join", "leave"})
                             /\ link[q] = "lost" => outbox[q] = << >>
                             /\ link[q] \in {"lost", "off"} => pipe[q] = << >>
  BY DEF LinksTyped, LinkTyped
<1> HIDE DEF s
<1>2. CASE link[p] = "off" \/ outbox[p] # << >>
  <2>1. outbox' = [outbox EXCEPT ![p] = Append(outbox[p], kind)] /\ UNCHANGED <<members, pipe, unsaid>>
    BY <1>2 DEF V!Announce
  <2>2. Announced(p, s)
    BY <2>1 DEF VoiceTyped, Announced
  <2>3. outbox'[p] = Append(outbox[p], kind) /\ DOMAIN outbox' = Speakers
    BY <1>1, <2>1
  <2>4. /\ outbox'[p] \in Seq({"join", "leave"}) /\ outbox'[p] # << >>
        /\ outbox'[p][Len(outbox'[p])] = kind
    BY <1>1, <2>3
  <2>5. \A q \in Speakers : q # p => outbox'[q] = outbox[q]
    BY <1>1, <2>1
  <2>6. link[p] # "lost"
    BY <1>1, <1>2
  <2> QED  BY <1>1, <2>1, <2>2, <2>3, <2>4, <2>5, <2>6 DEF s
<1>3. CASE ~(link[p] = "off" \/ outbox[p] # << >>)
  <2>1. V!Relay(p, kind) /\ outbox' = outbox
    BY <1>3 DEF V!Announce
  <2>2. Spoken(p, s)
    BY <2>1, RelayTells DEF s
  <2> QED  BY <1>1, <1>3, <2>1, <2>2 DEF Spoken, s
<1> QED  BY <1>2, <1>3

\* Nothing is said, and nobody's microphones change.
LEMMA NothingSaid ==
    ASSUME VoiceInv, NEW p \in Speakers, OnlyOf(p), IsObject(p, voice'[p], offers),
           voice'[p].peers = voice[p].peers \/ DOMAIN voice'[p].peers = {},
           voice'[p].mics = voice[p].mics, voice'[p].shown => link[p] # "off",
           UNCHANGED <<members, pipe, link, outbox, unsaid, offers>>, won \subseteq won',
           DOMAIN orphans' = Speakers,
           \A q \in Speakers : /\ DOMAIN orphans'[q] = {"asks", "mics"}
                               /\ orphans'[q].asks \in Nat /\ orphans'[q].mics = orphans[q].mics
    PROVE  VoiceInv'
<1> DEFINE j == V!Signal(p, "join", V!NoSession)
<1>1. j \in Signals /\ j.from = p /\ j.kind = "join" /\ Announced(p, j)
  BY SignalIs DEF VoiceInv, VoiceTyped, Announced
<1> HIDE DEF j
<1>2. /\ voice[p].mics \in Nat
      /\ \A q \in Speakers : orphans'[q].mics \in Nat
  BY DEF VoiceInv, VoiceTyped, IsObject
<1>3. LinksTyped'
  <2>1. ASSUME NEW q \in Speakers PROVE LinkTyped(q)'
    BY DEF VoiceInv, LinksTyped, LinkTyped, OnlyOf
  <2> QED  BY <2>1 DEF VoiceInv, LinksTyped
<1>4. ASSUME NEW q \in Speakers PROVE (Silent(q)' <=> Silent(q)) /\ (Left(q)' => Left(q))
  BY DEF Silent, Gone, Left, OnlyOf
<1>5. LeftAreNoMembers'
  BY <1>4 DEF VoiceInv, LeftAreNoMembers
<1>6. voice'[p].mics >= voice[p].mics
  BY <1>2
<1>7. \A q \in Speakers : /\ Left(q)' => Left(q) \/ (q = p /\ j.kind = "leave" /\ Heeded(p, j))
                          /\ link[q] = "lost" => link'[q] = "lost" \/ Cleared(q)
  BY <1>4
<1>8. \A q \in Speakers : /\ DOMAIN orphans'[q] = {"asks", "mics"}
                          /\ orphans'[q].asks \in Nat /\ orphans'[q].mics \in Nat
  BY <1>2
<1> QED  BY <1>1, <1>3, <1>5, <1>6, <1>7, <1>8, QuietStep

\* What the player does at the controls, and the browser's answer to the request
\* for the microphone, as long as nobody hears of it.
LEMMA ControlsKeep ==
    ASSUME VoiceInv, NEW p \in Speakers, V!Show(p) \/ V!Enable(p) \/ V!Denied(p) \/ V!Win(p)
    PROVE  VoiceInv'
<1>1. /\ IsObject(p, voice[p], offers) /\ DOMAIN voice = Speakers /\ DOMAIN orphans = Speakers
      /\ \A q \in Speakers : DOMAIN orphans[q] = {"asks", "mics"} /\ orphans[q].asks \in Nat
      /\ link[p] = "off" => ~voice[p].shown
  BY DEF VoiceInv, VoiceTyped, LinksTyped, LinkTyped
<1>2. /\ DOMAIN voice[p] = ObjectFields /\ voice[p].asks \in Nat /\ voice[p].mics \in Nat
  BY <1>1 DEF IsObject
<1>3. CASE V!Show(p)
  <2>1. OnlyOf(p) /\ voice'[p] = [V!NewVoice EXCEPT !.shown = TRUE] /\ link[p] # "off"
    BY <1>1, <1>3 DEF V!Show, OnlyOf
  <2>2. IsObject(p, voice'[p], offers) /\ DOMAIN voice'[p].peers = {} /\ voice'[p].mics = voice[p].mics
    BY <1>1, <1>3, <2>1 DEF V!Show, V!NewVoice, IsObject, ObjectFields
  <2>3. UNCHANGED <<won, members, pipe, link, outbox, unsaid, offers, orphans>>
    BY <1>3 DEF V!Show, V!Links
  <2> QED  BY <1>1, <2>1, <2>2, <2>3, NothingSaid
<1>4. CASE V!Enable(p) \/ V!Denied(p)
  <2>1. /\ OnlyOf(p) /\ DOMAIN voice'[p] = ObjectFields /\ voice'[p].shown = voice[p].shown
        /\ voice'[p].mics = voice[p].mics /\ voice'[p].peers = voice[p].peers
        /\ voice'[p].work = voice[p].work /\ voice'[p].asks \in Nat
        /\ voice[p].shown
    BY <1>1, <1>2, <1>4 DEF V!Enable, V!Denied, OnlyOf, ObjectFields, IsObject
  <2>2. IsObject(p, voice'[p], offers)
    BY <1>1, <2>1 DEF IsObject
  <2>3. UNCHANGED <<won, members, pipe, link, outbox, unsaid, offers, orphans>>
    BY <1>4 DEF V!Enable, V!Denied, V!Links
  <2> QED  BY <1>1, <2>1, <2>2, <2>3, NothingSaid
<1>5. CASE V!Win(p)
  <2>1. /\ UNCHANGED <<members, voice, pipe, link, outbox, unsaid, offers, orphans>>
        /\ won \subseteq won'
    BY <1>5 DEF V!Win, V!Links
  <2> QED  BY <1>1, <2>1, NothingSaid DEF OnlyOf
<1> QED  BY <1>3, <1>4, <1>5

\* An object is given up, and a microphone with it.
LEMMA DisposeLeaves ==
    ASSUME VoiceInv, NEW p \in Speakers, V!Dispose(p)
    PROVE  /\ OnlyOf(p) /\ IsObject(p, voice'[p], offers) /\ ~voice'[p].shown
           /\ DOMAIN voice'[p].peers = {} /\ voice'[p].mics = 0
           /\ DOMAIN orphans' = Speakers
           /\ \A q \in Speakers : /\ DOMAIN orphans'[q] = {"asks", "mics"}
                                  /\ orphans'[q].asks \in Nat /\ orphans'[q].mics \in Nat
                                  /\ q # p => orphans'[q] = orphans[q]
           /\ ~V!Streaming(p) => orphans'[p].mics = orphans[p].mics /\ voice[p].mics = 0
<1>1. /\ IsObject(p, voice[p], offers) /\ DOMAIN voice = Speakers /\ DOMAIN orphans = Speakers
      /\ \A q \in Speakers : /\ DOMAIN orphans[q] = {"asks", "mics"} /\ orphans[q].asks \in Nat
                             /\ orphans[q].mics \in Nat
  BY DEF VoiceInv, VoiceTyped
<1>2. voice[p].asks \in Nat /\ voice[p].mics \in Nat
  BY <1>1 DEF IsObject
<1>3. OnlyOf(p) /\ voice'[p] = V!NewVoice
  BY <1>1 DEF V!Dispose, V!Disposed, OnlyOf
<1>4. /\ IsObject(p, voice'[p], offers) /\ ~voice'[p].shown /\ DOMAIN voice'[p].peers = {}
      /\ voice'[p].mics = 0
  BY <1>3 DEF V!NewVoice, IsObject, ObjectFields
<1>5. /\ DOMAIN orphans' = Speakers
      /\ \A q \in Speakers : /\ DOMAIN orphans'[q] = {"asks", "mics"}
                             /\ orphans'[q].asks \in Nat /\ orphans'[q].mics \in Nat
                             /\ q # p => orphans'[q] = orphans[q]
  BY <1>1, <1>2 DEF V!Dispose, V!Streaming
<1>6. ~V!Streaming(p) => orphans'[p].mics = orphans[p].mics /\ voice[p].mics = 0
  BY <1>1, <1>2 DEF V!Dispose, V!Streaming
<1> QED  BY <1>3, <1>4, <1>5, <1>6

\* A microphone more is announced.
LEMMA GrantKeeps ==
    ASSUME VoiceInv, NEW p \in Speakers, V!Granted(p) \/ V!GrantedLate(p)
    PROVE  VoiceInv'
<1> DEFINE j == V!Signal(p, "join", V!NoSession)
<1>1. j \in Signals /\ j.from = p /\ j.kind = "join"
  BY SignalIs
<1>2. /\ IsObject(p, voice[p], offers) /\ DOMAIN voice = Speakers /\ DOMAIN orphans = Speakers
      /\ \A q \in Speakers : /\ DOMAIN orphans[q] = {"asks", "mics"} /\ orphans[q].asks \in Nat
                             /\ orphans[q].mics \in Nat /\ voice[q].mics \in Nat
      /\ VoiceTyped /\ LinksTyped
  BY DEF VoiceInv, VoiceTyped, IsObject
<1>3. /\ DOMAIN voice[p] = ObjectFields /\ voice[p].asks \in Nat /\ voice[p].mics \in Nat
  BY <1>2 DEF IsObject
<1>4. V!Announce(p, "join") /\ UNCHANGED <<won, link, offers>>
  BY DEF V!Granted, V!GrantedLate
<1>5. /\ Announced(p, j) /\ members' \subseteq members \cup {p} /\ DOMAIN outbox' = Speakers
      /\ \A q \in Speakers : q # p => (q \in unsaid' <=> q \in unsaid) /\ outbox'[q] = outbox[q]
      /\ \A q \in Speakers : /\ outbox'[q] \in Seq({"join", "leave"})
                             /\ link'[q] = "lost" => outbox'[q] = << >>
                             /\ link'[q] \in {"lost", "off"} => pipe'[q] = << >>
  BY <1>2, <1>4, AnnounceTells
<1> HIDE DEF j
<1>6. /\ OnlyOf(p) /\ DOMAIN voice'[p] = ObjectFields /\ voice'[p].shown = voice[p].shown
      /\ voice'[p].mics \in Nat /\ voice'[p].mics >= voice[p].mics
      /\ voice'[p].peers = voice[p].peers /\ voice'[p].work = voice[p].work
      /\ voice'[p].asks \in Nat
      /\ voice[p].shown \/ voice'[p] = voice[p]
  <2>1. CASE V!Granted(p)
    BY <1>2, <1>3, <2>1 DEF V!Granted, OnlyOf, ObjectFields, IsObject
  <2>2. CASE V!GrantedLate(p)
    BY <1>2, <1>3, <2>2 DEF V!GrantedLate, OnlyOf
  <2> QED  BY <2>1, <2>2
<1>7. IsObject(p, voice'[p], offers)
  BY <1>2, <1>6 DEF IsObject
<1>8. /\ DOMAIN orphans' = Speakers
      /\ \A q \in Speakers : /\ DOMAIN orphans'[q] = {"asks", "mics"}
                             /\ orphans'[q].asks \in Nat /\ orphans'[q].mics \in Nat
                             /\ q # p => orphans'[q] = orphans[q]
  BY <1>2 DEF V!Granted, V!GrantedLate
<1>9. voice'[p].mics > 0 \/ orphans'[p].mics > 0
  BY <1>2, <1>3 DEF V!Granted, V!GrantedLate, ObjectFields
<1>10. ASSUME NEW q \in Speakers
       PROVE  (Silent(q)' => Silent(q) /\ q # p) /\ (Left(q)' => Left(q))
  <2>1. Silent(q)' => q # p
    BY <1>6, <1>8, <1>9 DEF Silent
  <2>2. CASE q = p
    BY <2>1, <2>2 DEF Left, Gone
  <2>3. CASE q # p
    BY <1>4, <1>5, <1>6, <1>8, <2>3 DEF Silent, Gone, Left, OnlyOf
  <2> QED  BY <2>1, <2>2, <2>3
<1>11. LinksTyped'
  <2>1. ASSUME NEW q \in Speakers PROVE LinkTyped(q)'
    <3>1. voice'[q].shown = voice[q].shown
      BY <1>6 DEF OnlyOf
    <3> QED  BY <1>2, <1>4, <1>5, <3>1 DEF LinksTyped, LinkTyped
  <2> QED  BY <1>2, <1>4, <1>5, <2>1 DEF LinksTyped
<1>12. LeftAreNoMembers'
  <2>1. ASSUME NEW q \in Speakers, Left(q)' PROVE q \notin members'
    <3>1. Left(q) /\ q # p
      BY <1>10, <2>1 DEF Left, Gone
    <3> QED  BY <1>5, <3>1 DEF VoiceInv, LeftAreNoMembers
  <2>2. ASSUME NEW q \in Speakers, Silent(q)', outbox'[q] # << >>
        PROVE  outbox'[q][Len(outbox'[q])] = "leave"
    <3>1. Silent(q) /\ outbox'[q] = outbox[q]
      BY <1>5, <1>10, <2>2
    <3> QED  BY <2>2, <3>1 DEF VoiceInv, LeftAreNoMembers
  <2> QED  BY <2>1, <2>2 DEF LeftAreNoMembers
<1>13. \A q \in Speakers : /\ Left(q)' => Left(q) \/ (q = p /\ j.kind = "leave" /\ Heeded(p, j))
                           /\ link[q] = "lost" => link'[q] = "lost" \/ Cleared(q)
  BY <1>4, <1>10
<1>14. \A q \in Speakers : /\ DOMAIN orphans'[q] = {"asks", "mics"}
                           /\ orphans'[q].asks \in Nat /\ orphans'[q].mics \in Nat
  BY <1>8
<1> QED  BY <1>1, <1>4, <1>5, <1>6, <1>7, <1>8, <1>11, <1>12, <1>13, <1>14, QuietStep

\* Controls go, and a microphone with them: the leave is relayed, refused or kept.
LEMMA HideKeeps ==
    ASSUME VoiceInv, NEW p \in Speakers, V!Hide(p)
    PROVE  VoiceInv'
<1> DEFINE l == V!Signal(p, "leave", V!NoSession)
<1>1. l \in Signals /\ l.from = p /\ l.kind = "leave"
  BY SignalIs
<1>2. /\ OnlyOf(p) /\ IsObject(p, voice'[p], offers) /\ ~voice'[p].shown
      /\ DOMAIN voice'[p].peers = {} /\ voice'[p].mics = 0
      /\ DOMAIN orphans' = Speakers
      /\ \A q \in Speakers : /\ DOMAIN orphans'[q] = {"asks", "mics"}
                             /\ orphans'[q].asks \in Nat /\ orphans'[q].mics \in Nat
                             /\ q # p => orphans'[q] = orphans[q]
      /\ ~V!Streaming(p) => orphans'[p].mics = orphans[p].mics /\ voice[p].mics = 0
  BY DisposeLeaves DEF V!Hide
<1>3. VoiceTyped /\ LinksTyped /\ UNCHANGED <<won, link, offers>>
  BY DEF VoiceInv, V!Hide
<1>4. CASE ~V!Streaming(p)
  <2>1. UNCHANGED <<members, pipe, outbox, unsaid>>
    BY <1>4 DEF V!Hide
  <2>2. \A q \in Speakers : orphans'[q].mics = orphans[q].mics
    BY <1>2, <1>4
  <2> QED  BY <1>2, <1>3, <1>4, <2>1, <2>2, NothingSaid
<1>5. CASE V!Streaming(p)
  <2>1. V!Announce(p, "leave")
    BY <1>5 DEF V!Hide
  <2>2. /\ Announced(p, l) /\ members' \subseteq members \cup {p} /\ DOMAIN outbox' = Speakers
        /\ \A q \in Speakers : q # p => (q \in unsaid' <=> q \in unsaid) /\ outbox'[q] = outbox[q]
        /\ \A q \in Speakers : /\ outbox'[q] \in Seq({"join", "leave"})
                               /\ link'[q] = "lost" => outbox'[q] = << >>
                               /\ link'[q] \in {"lost", "off"} => pipe'[q] = << >>
        /\ outbox'[p] = << >> => Spoken(p, l)
        /\ outbox'[p] # << >> => outbox'[p][Len(outbox'[p])] = "leave"
    BY <1>3, <2>1, AnnounceTells
  <2> HIDE DEF l
  <2>3. Left(p)' => p \notin members' /\ Heeded(p, l)
    BY <1>1, <1>3, <2>2 DEF Left, Gone, Spoken, Heeded
  <2>4. ASSUME NEW q \in Speakers, q # p PROVE (Silent(q)' => Silent(q)) /\ (Left(q)' => Left(q))
    BY <1>2, <1>3, <2>2, <2>4 DEF Silent, Gone, Left, OnlyOf
  <2>5. LinksTyped'
    <3>1. ASSUME NEW q \in Speakers PROVE LinkTyped(q)'
      <4>1. voice'[q].shown => voice[q].shown
        BY <1>2 DEF OnlyOf
      <4> QED  BY <1>3, <2>2, <4>1 DEF LinksTyped, LinkTyped
    <3> QED  BY <1>3, <2>2, <3>1 DEF LinksTyped
  <2>6. LeftAreNoMembers'
    <3>1. ASSUME NEW q \in Speakers, Left(q)' PROVE q \notin members'
      BY <2>2, <2>3, <2>4, <3>1 DEF VoiceInv, LeftAreNoMembers
    <3>2. ASSUME NEW q \in Speakers, Silent(q)', outbox'[q] # << >>
          PROVE  outbox'[q][Len(outbox'[q])] = "leave"
      <4>1. CASE q = p
        BY <2>2, <3>2, <4>1
      <4>2. CASE q # p
        BY <2>2, <2>4, <3>2, <4>2 DEF VoiceInv, LeftAreNoMembers
      <4> QED  BY <4>1, <4>2
    <3> QED  BY <3>1, <3>2 DEF LeftAreNoMembers
  <2>7. \A q \in Speakers : /\ Left(q)' => Left(q) \/ (q = p /\ l.kind = "leave" /\ Heeded(p, l))
                            /\ link[q] = "lost" => link'[q] = "lost" \/ Cleared(q)
    BY <1>1, <1>3, <2>3, <2>4
  <2>8. \A q \in Speakers : /\ DOMAIN orphans'[q] = {"asks", "mics"}
                            /\ orphans'[q].asks \in Nat /\ orphans'[q].mics \in Nat
    BY <1>2
  <2> QED  BY <1>1, <1>2, <1>3, <2>2, <2>5, <2>6, <2>7, <2>8, QuietStep
<1> QED  BY <1>4, <1>5

\* A page that has noticed a lost connection has something to say if it had voice.
LEMMA NoticeKeeps ==
    ASSUME VoiceInv, NEW p \in Speakers, V!Notice(p)
    PROVE  VoiceInv'
<1> DEFINE j == V!Signal(p, "join", V!NoSession)
<1>1. /\ VoiceTyped /\ LinksTyped /\ link[p] = "lost" /\ outbox[p] = << >> /\ pipe[p] = << >>
      /\ UNCHANGED <<won, members, pipe, unsaid, offers>> /\ V!Dispose(p)
      /\ link'[p] = "off" /\ DOMAIN link' = Speakers
      /\ \A q \in Speakers : q # p => link'[q] = link[q]
  BY DEF VoiceInv, V!Notice, LinksTyped, LinkTyped
<1>2. j \in Signals /\ j.from = p /\ j.kind = "join" /\ Announced(p, j)
  BY <1>1, SignalIs DEF VoiceTyped, Announced
<1> HIDE DEF j
<1>3. /\ OnlyOf(p) /\ IsObject(p, voice'[p], offers) /\ ~voice'[p].shown
      /\ DOMAIN voice'[p].peers = {} /\ voice'[p].mics = 0
      /\ DOMAIN orphans' = Speakers
      /\ \A q \in Speakers : /\ DOMAIN orphans'[q] = {"asks", "mics"}
                             /\ orphans'[q].asks \in Nat /\ orphans'[q].mics \in Nat
                             /\ q # p => orphans'[q] = orphans[q]
      /\ ~V!Streaming(p) => orphans'[p].mics = orphans[p].mics /\ voice[p].mics = 0
  BY <1>1, DisposeLeaves
<1>4. /\ DOMAIN outbox' = Speakers /\ \A q \in Speakers : q # p => outbox'[q] = outbox[q]
      /\ \/ ~V!Streaming(p) /\ outbox'[p] = outbox[p]
         \/ outbox'[p] = Append(outbox[p], "leave")
  BY <1>1 DEF V!Notice, LinksTyped
<1>5. /\ Append(outbox[p], "leave") \in Seq({"join", "leave"}) /\ Append(outbox[p], "leave") # << >>
      /\ Append(outbox[p], "leave")[Len(Append(outbox[p], "leave"))] = "leave"
  <2>1. \A sq \in Seq({"join", "leave"}) :
          /\ Append(sq, "leave") \in Seq({"join", "leave"}) /\ Append(sq, "leave") # << >>
          /\ Append(sq, "leave")[Len(Append(sq, "leave"))] = "leave"
    OBVIOUS
  <2> QED  BY <1>1, <2>1 DEF LinksTyped, LinkTyped
<1>6. LinksTyped'
  <2>1. LinkTyped(p)'
    BY <1>1, <1>3, <1>4, <1>5 DEF LinksTyped, LinkTyped
  <2>2. ASSUME NEW q \in Speakers, q # p PROVE LinkTyped(q)'
    BY <1>1, <1>3, <1>4, <2>2 DEF LinksTyped, LinkTyped, OnlyOf
  <2> QED  BY <1>1, <1>4, <2>1, <2>2 DEF LinksTyped
<1>7. ASSUME NEW q \in Speakers
      PROVE  \/ (Silent(q)' => Silent(q)) /\ (Left(q)' => Left(q)) /\ outbox'[q] = outbox[q]
             \/ outbox'[q] = Append(outbox[p], "leave") /\ ~Left(q)'
  <2>1. CASE q # p
    BY <1>1, <1>3, <1>4, <2>1 DEF Silent, Gone, Left, OnlyOf
  <2>2. CASE q = p /\ outbox'[p] = Append(outbox[p], "leave")
    BY <1>5, <2>2 DEF Left
  <2>3. CASE q = p /\ ~V!Streaming(p) /\ outbox'[p] = outbox[p]
    BY <1>1, <1>3, <2>3 DEF Silent, Gone, Left
  <2> QED  BY <1>4, <2>1, <2>2, <2>3
<1>8. LeftAreNoMembers'
  BY <1>1, <1>5, <1>7 DEF VoiceInv, LeftAreNoMembers
<1>9. \A q \in Speakers : /\ Left(q)' => Left(q) \/ (q = p /\ j.kind = "leave" /\ Heeded(p, j))
                          /\ link[q] = "lost" => link'[q] = "lost" \/ Cleared(q)
  BY <1>1, <1>3, <1>7 DEF Cleared
<1>10. \A q \in Speakers : /\ DOMAIN orphans'[q] = {"asks", "mics"}
                           /\ orphans'[q].asks \in Nat /\ orphans'[q].mics \in Nat
  BY <1>3
<1> QED  BY <1>1, <1>2, <1>3, <1>6, <1>8, <1>9, <1>10, QuietStep

\* Control of a seat comes and goes, and the room forgets who has no connection.
LEMMA SeatKeeps ==
    ASSUME VoiceInv, NEW p \in Speakers, V!Lapse(p) \/ V!Resume(p) \/ V!Forget(p) \/ V!Rejoin(p)
    PROVE  VoiceInv'
<1> DEFINE j == V!Signal(p, "join", V!NoSession)
<1>1. /\ VoiceTyped /\ LinksTyped /\ DOMAIN link = Speakers
      /\ UNCHANGED <<won, voice, orphans, pipe, outbox, unsaid, offers>>
  BY DEF VoiceInv, LinksTyped, V!Lapse, V!Resume, V!Forget, V!Rejoin, V!Links
<1>2. /\ members' \subseteq members /\ DOMAIN link' = Speakers
      /\ \A q \in Speakers : \/ link'[q] = link[q]
                             \/ link'[q] \in {"heard", "unheard"} /\ link[q] # "lost"
  BY <1>1 DEF V!Lapse, V!Resume, V!Forget, V!Rejoin, V!Links
<1>3. j \in Signals /\ j.from = p /\ j.kind = "join" /\ Announced(p, j)
  BY <1>1, SignalIs DEF VoiceTyped, Announced
<1> HIDE DEF j
<1>4. OnlyOf(p) /\ IsObject(p, voice'[p], offers) /\ voice'[p].mics >= voice[p].mics
  BY <1>1 DEF VoiceTyped, OnlyOf, IsObject
<1>5. LinksTyped'
  <2>1. ASSUME NEW q \in Speakers PROVE LinkTyped(q)'
    BY <1>1, <1>2 DEF LinksTyped, LinkTyped
  <2> QED  BY <1>1, <1>2, <2>1 DEF LinksTyped
<1>6. \A q \in Speakers : (Silent(q)' <=> Silent(q)) /\ (Left(q)' <=> Left(q))
  BY <1>1 DEF Silent, Gone, Left
<1>7. LeftAreNoMembers'
  BY <1>1, <1>2, <1>6 DEF VoiceInv, LeftAreNoMembers
<1>8. \A q \in Speakers : /\ Left(q)' => Left(q) \/ (q = p /\ j.kind = "leave" /\ Heeded(p, j))
                          /\ link[q] = "lost" => link'[q] = "lost" \/ Cleared(q)
  BY <1>2, <1>6
<1>9. /\ DOMAIN orphans' = Speakers
      /\ \A q \in Speakers : /\ DOMAIN orphans'[q] = {"asks", "mics"}
                             /\ orphans'[q].asks \in Nat /\ orphans'[q].mics \in Nat
  BY <1>1 DEF VoiceTyped
<1> QED  BY <1>1, <1>3, <1>4, <1>5, <1>7, <1>8, <1>9, QuietStep

\* What is to be said gives its first announcement and keeps its last.
LEMMA OutboxShrinks ==
    ASSUME NEW sq \in Seq({"join", "leave"}), sq # << >>
    PROVE  /\ Tail(sq) \in Seq({"join", "leave"}) /\ Head(sq) \in {"join", "leave"}
           /\ Tail(sq) # << >> => Tail(sq)[Len(Tail(sq))] = sq[Len(sq)]
           /\ Tail(sq) = << >> => Head(sq) = sq[Len(sq)]
<1>1. Len(sq) \in Nat \ {0} /\ Len(Tail(sq)) = Len(sq) - 1 /\ Tail(sq) \in Seq({"join", "leave"})
  OBVIOUS
<1>2. Head(sq) = sq[1] /\ Head(sq) \in {"join", "leave"}
  OBVIOUS
<1>3. \A i \in 1..Len(Tail(sq)) : Tail(sq)[i] = sq[i + 1]
  OBVIOUS
<1>4. ASSUME Tail(sq) # << >> PROVE Tail(sq)[Len(Tail(sq))] = sq[Len(sq)]
  <2>1. Len(Tail(sq)) \in Nat \ {0}
    <3>1. \A t \in Seq({"join", "leave"}) : t # << >> => Len(t) \in Nat \ {0}
      OBVIOUS
    <3> QED  BY <1>1, <1>4, <3>1
  <2>2. Len(Tail(sq)) \in 1..Len(Tail(sq)) /\ Len(Tail(sq)) + 1 = Len(sq)
    BY <1>1, <2>1
  <2> QED  BY <1>3, <2>2
<1>5. ASSUME Tail(sq) = << >> PROVE Head(sq) = sq[Len(sq)]
  <2>1. Len(Tail(sq)) = 0
    <3>1. \A t \in Seq({"join", "leave"}) : t = << >> => Len(t) = 0
      OBVIOUS
    <3> QED  BY <1>1, <1>5, <3>1
  <2>2. Len(sq) = 1
    <3>1. \A m \in Nat \ {0} : \A n : n = m - 1 /\ n = 0 => m = 1
      OBVIOUS
    <3> QED  BY <1>1, <2>1, <3>1
  <2> QED  BY <1>2, <2>2
<1> QED  BY <1>1, <1>2, <1>4, <1>5

\* On a new connection the page says what it kept.
LEMMA FlushKeeps ==
    ASSUME VoiceInv, NEW p \in Speakers, V!Flush(p)
    PROVE  VoiceInv'
<1> DEFINE kind == Head(outbox[p])
           s == V!Signal(p, kind, V!NoSession)
<1>1. /\ VoiceTyped /\ LinksTyped /\ outbox[p] # << >> /\ outbox[p] \in Seq({"join", "leave"})
      /\ link[p] \in {"heard", "unheard"}
      /\ V!Relay(p, kind) /\ UNCHANGED <<won, voice, orphans, link, offers>>
  BY DEF VoiceInv, V!Flush, V!Reached, LinksTyped, LinkTyped
<1>2. /\ outbox'[p] = Tail(outbox[p]) /\ DOMAIN outbox' = Speakers
      /\ \A q \in Speakers : q # p => outbox'[q] = outbox[q]
  BY <1>1 DEF V!Flush, LinksTyped
<1>3. /\ outbox'[p] \in Seq({"join", "leave"}) /\ kind \in {"join", "leave"}
      /\ outbox'[p] # << >> => outbox'[p][Len(outbox'[p])] = outbox[p][Len(outbox[p])]
      /\ outbox'[p] = << >> => kind = outbox[p][Len(outbox[p])]
  BY <1>1, <1>2, OutboxShrinks
<1> HIDE DEF kind
<1>4. s \in Signals /\ s.from = p /\ s.kind = kind /\ Spoken(p, s)
  BY <1>1, <1>3, SignalIs, RelayTells
<1> HIDE DEF s
<1>5. OnlyOf(p) /\ IsObject(p, voice'[p], offers) /\ voice'[p].mics >= voice[p].mics
  BY <1>1 DEF VoiceTyped, OnlyOf, IsObject
<1>6. LinksTyped'
  <2>1. ASSUME NEW q \in Speakers PROVE LinkTyped(q)'
    BY <1>1, <1>2, <1>3, <1>4 DEF LinksTyped, LinkTyped, Spoken
  <2> QED  BY <1>1, <1>2, <2>1 DEF LinksTyped
<1>7. ASSUME NEW q \in Speakers
      PROVE  /\ Silent(q)' <=> Silent(q)
             /\ Left(q)' => IF q = p THEN p \notin members' /\ kind = "leave" /\ Heeded(p, s)
                                     ELSE Left(q)
  <2>1. Silent(q)' <=> Silent(q)
    BY <1>1 DEF Silent
  <2>2. ASSUME q # p, Left(q)' PROVE Left(q)
    BY <1>1, <1>2, <1>4, <2>1, <2>2 DEF Gone, Left, Spoken
  <2>3. ASSUME Left(p)' PROVE p \notin members' /\ kind = "leave" /\ Heeded(p, s)
    <3>1. Silent(p) /\ outbox'[p] = << >> /\ p \notin unsaid'
      BY <1>1, <2>3 DEF Silent, Gone, Left
    <3>2. kind = "leave"
      BY <1>1, <1>3, <3>1 DEF VoiceInv, LeftAreNoMembers
    <3> QED  BY <1>1, <1>4, <3>1, <3>2 DEF Spoken, Heeded
  <2> QED  BY <2>1, <2>2, <2>3
<1>8. LeftAreNoMembers'
  <2>1. ASSUME NEW q \in Speakers, Left(q)' PROVE q \notin members'
    BY <1>4, <1>7, <2>1 DEF VoiceInv, LeftAreNoMembers, Spoken
  <2>2. ASSUME NEW q \in Speakers, Silent(q)', outbox'[q] # << >>
        PROVE  outbox'[q][Len(outbox'[q])] = "leave"
    BY <1>1, <1>2, <1>3, <1>7, <2>2 DEF VoiceInv, LeftAreNoMembers
  <2> QED  BY <2>1, <2>2 DEF LeftAreNoMembers
<1>9. \A q \in Speakers : /\ Left(q)' => Left(q) \/ (q = p /\ s.kind = "leave" /\ Heeded(p, s))
                          /\ link[q] = "lost" => link'[q] = "lost" \/ Cleared(q)
  BY <1>1, <1>4, <1>7
<1>10. /\ DOMAIN orphans' = Speakers
       /\ \A q \in Speakers : /\ DOMAIN orphans'[q] = {"asks", "mics"}
                              /\ orphans'[q].asks \in Nat /\ orphans'[q].mics \in Nat
  BY <1>1 DEF VoiceTyped
<1> QED  BY <1>1, <1>3, <1>4, <1>5, <1>6, <1>8, <1>9, <1>10, QuietStep DEF Spoken

\* With a connection goes what was under way on it; a leave among it is not said.
LEMMA BreakKeeps ==
    ASSUME VoiceInv, NEW p \in Speakers, V!Break(p)
    PROVE  VoiceInv'
<1>1. /\ VoiceTyped /\ LinksTyped /\ UNCHANGED <<won, members, voice, orphans, offers>>
      /\ unsaid \subseteq unsaid' /\ DOMAIN link' = Speakers /\ DOMAIN outbox' = Speakers
      /\ DOMAIN pipe' = Speakers
      /\ link'[p] = "lost" /\ pipe'[p] = << >> /\ outbox'[p] = << >>
      /\ \A q \in Speakers : q # p => /\ link'[q] = link[q] /\ pipe'[q] = pipe[q]
                                      /\ outbox'[q] = outbox[q]
  BY DEF VoiceInv, V!Break, LinksTyped, VoiceTyped
<1>2. << >> \in Seq(Signals) /\ Len(<< >>) = 0 /\ << >> \in Seq({"join", "leave"})
  BY EmptySeq
<1>3. \A q \in Speakers : pipe'[q] = pipe[q] \/ 1..Len(pipe'[q]) = {}
  BY <1>1, <1>2
<1>4. ASSUME NEW q \in Speakers PROVE Left(q)' => Left(q)
  <2>1. CASE q # p
    BY <1>1, <2>1 DEF Left, Gone, Silent
  <2>2. CASE q = p /\ outbox[p] = << >>
    BY <1>1, <2>2 DEF Left, Gone, Silent
  <2>3. CASE q = p /\ outbox[p] # << >> /\ Silent(p)
    <3>1. outbox[p] \in Seq({"join", "leave"}) /\ outbox[p][Len(outbox[p])] = "leave"
      BY <2>3 DEF VoiceInv, LeftAreNoMembers, LinksTyped, LinkTyped
    <3>2. Len(outbox[p]) \in 1..Len(outbox[p])
      BY <2>3, <3>1
    <3>3. p \in unsaid'
      BY <3>1, <3>2 DEF V!Break
    <3> QED  BY <2>3, <3>3 DEF Left, Gone
  <2>4. CASE ~Silent(q)
    BY <1>1, <2>4 DEF Left, Gone, Silent
  <2> QED  BY <2>1, <2>2, <2>3, <2>4
<1>5. ASSUME NEW q \in Speakers, NEW r \in Speakers, NEW n
      PROVE  Said(voice'[q], pipe'[q], r, n) => Said(voice[q], pipe[q], r, n)
  BY <1>1, <1>3 DEF Said
<1>6. VoiceTyped'
  <2>1. \A q \in Speakers : IsObject(q, voice'[q], offers')
    BY <1>1 DEF VoiceTyped
  <2>2. ASSUME NEW q \in Speakers
        PROVE  /\ pipe'[q] \in Seq(Signals)
               /\ \A i \in 1..Len(pipe'[q]) : IsSignal(q, pipe'[q][i], offers')
    <3>1. pipe'[q] \in Seq(Signals)
      BY <1>1, <1>2 DEF VoiceTyped
    <3>2. ASSUME NEW i \in 1..Len(pipe'[q]) PROVE IsSignal(q, pipe'[q][i], offers')
      BY <1>1, <1>3, <3>2 DEF VoiceTyped
    <3> QED  BY <3>1, <3>2
  <2> QED  BY <1>1, <2>1, <2>2 DEF VoiceTyped
<1>7. LinksTyped'
  <2>1. ASSUME NEW q \in Speakers PROVE LinkTyped(q)'
    BY <1>1, <1>2 DEF LinksTyped, LinkTyped
  <2> QED  BY <1>1, <2>1 DEF LinksTyped
<1>8. ClaimsAreBacked'
  BY <1>1, <1>5 DEF VoiceInv, ClaimsAreBacked
<1>9. OffersComeOnce'
  <2> SUFFICES ASSUME NEW q \in Speakers, NEW r \in Speakers, NEW i \in 1..Len(pipe'[q]),
                      Offers(pipe'[q][i], r)
               PROVE  /\ \A j \in 1..Len(pipe'[q]) :
                           Offers(pipe'[q][j], r) /\ pipe'[q][j].data.n = pipe'[q][i].data.n => i = j
                      /\ ~Took(voice'[q], r, pipe'[q][i].data.n)
                      /\ ~Said(voice'[r], pipe'[r], q, pipe'[q][i].data.n)
    BY DEF OffersComeOnce
  <2>1. pipe'[q] = pipe[q]
    BY <1>3
  <2> QED  BY <1>1, <1>5, <2>1 DEF VoiceInv, OffersComeOnce
<1>10. LeftAreNoMembers'
  <2>1. \A q \in Speakers : (Silent(q)' <=> Silent(q)) /\ (outbox'[q] = outbox[q] \/ outbox'[q] = << >>)
    BY <1>1 DEF Silent
  <2> QED  BY <1>1, <1>4, <2>1 DEF VoiceInv, LeftAreNoMembers
<1>11. LeavesFollow'
  <2> SUFFICES ASSUME NEW q \in Speakers, NEW r \in Speakers, Left(r)', link'[q] # "lost"
               PROVE  /\ (\E n \in Nat : Believes(voice'[q], r, n)) =>
                           \E j \in 1..Len(pipe'[q]) : Leaves(pipe'[q][j], r)
                      /\ \A i \in 1..Len(pipe'[q]) : Claims(pipe'[q][i], r) =>
                           \E j \in (i + 1)..Len(pipe'[q]) : Leaves(pipe'[q][j], r)
    BY DEF LeavesFollow
  <2>1. pipe'[q] = pipe[q] /\ voice' = voice /\ link[q] # "lost" /\ Left(r)
    BY <1>1, <1>4
  <2> QED  BY <2>1 DEF VoiceInv, LeavesFollow
<1> QED  BY <1>6, <1>7, <1>8, <1>9, <1>10, <1>11 DEF VoiceInv

\* The object o of p after a signal s: the connections to others as they were; in
\* that to the sender, what is new comes from s.
Follows(p, o, s, k) ==
    /\ IsObject(p, o, k) /\ o.mics = voice[p].mics
    /\ \A r : r # s.from =>
         /\ r \in DOMAIN o.peers <=> r \in DOMAIN voice[p].peers
         /\ r \in DOMAIN voice[p].peers => o.peers[r] = voice[p].peers[r]
    /\ \A n \in Nat :
         /\ Believes(o, s.from, n) =>
              Believes(voice[p], s.from, n) \/ (Claims(s, s.from) /\ s.data.n = n)
         /\ Uses(o, s.from, n) =>
              Uses(voice[p], s.from, n) \/ (Offers(s, s.from) /\ s.data.n = n)
         /\ Took(o, s.from, n) =>
              Took(voice[p], s.from, n) \/ n = 0 \/ (Offers(s, s.from) /\ s.data.n = n)
    /\ Leaves(s, s.from) => s.from \notin DOMAIN o.peers

\* A connection to the sender that has nothing new but what comes from s.
Gained(p, pc, s, k) ==
    /\ pc \in Peer /\ (pc.track => voice[p].mics > 0)
    /\ pc.own <= k /\ pc.remote.n <= k /\ pc.session.n <= k
    /\ \A n \in Nat : (pc.session.n = n /\ pc.session.theirs) \/ (pc.remote.n = n /\ pc.remote.sends) =>
         Believes(voice[p], s.from, n) \/ (Claims(s, s.from) /\ s.data.n = n)
    /\ \A n \in Nat : n # 0 /\ n \in {pc.session.n, pc.own, pc.remote.n} =>
         Uses(voice[p], s.from, n) \/ (Offers(s, s.from) /\ s.data.n = n)
    /\ \A n \in Nat : n # 0 /\ pc.remote.n = n =>
         Took(voice[p], s.from, n) \/ (Offers(s, s.from) /\ s.data.n = n)

\* handle(): what an object becomes by a signal follows from it.
LEMMA HeardFollows ==
    ASSUME NEW p \in Speakers, NEW k \in Nat, IsObject(p, voice[p], k), voice[p].shown,
           NEW s, IsSignal(p, s, k)
    PROVE  Follows(p, V!Heard(p, s), s, k)
<1> DEFINE q == s.from
           pcs == V!EnsurePeer(p, q)
           ob == voice[p]
<1>1. /\ DOMAIN ob = ObjectFields /\ DOMAIN ob.peers \subseteq Speakers \ {p}
      /\ ob.shown \in BOOLEAN /\ ob.asks \in Nat /\ ob.mics \in Nat
      /\ q \in Speakers /\ q # p /\ s.kind \in {"join", "leave", "offer", "answer", "ice"}
  BY DEF IsObject, IsSignal, Signals
<1>2. \A r \in DOMAIN ob.peers :
        /\ ob.peers[r] \in Peer /\ (ob.peers[r].track => ob.mics > 0)
        /\ ob.peers[r].own <= k /\ ob.peers[r].remote.n <= k /\ ob.peers[r].session.n <= k
  BY DEF IsObject
<1>3. /\ DOMAIN pcs = DOMAIN ob.peers \cup {q}
      /\ \A r \in DOMAIN ob.peers : pcs[r] = ob.peers[r]
      /\ q \notin DOMAIN ob.peers => pcs[q] = V!NewPeer(V!Streaming(p))
  BY DEF V!EnsurePeer
<1>4. /\ V!NewPeer(V!Streaming(p)) \in Peer
      /\ V!NewPeer(V!Streaming(p)).track => ob.mics > 0
      /\ V!NewPeer(V!Streaming(p)).own = 0 /\ V!NewPeer(V!Streaming(p)).remote.n = 0
      /\ V!NewPeer(V!Streaming(p)).session.n = 0
      /\ ~V!NewPeer(V!Streaming(p)).remote.sends /\ ~V!NewPeer(V!Streaming(p)).session.theirs
  <2>1. ASSUME NEW t \in BOOLEAN
        PROVE  /\ V!NewPeer(t) \in Peer /\ V!NewPeer(t).track = t
               /\ V!NewPeer(t).own = 0 /\ V!NewPeer(t).remote.n = 0 /\ V!NewPeer(t).session.n = 0
               /\ ~V!NewPeer(t).remote.sends /\ ~V!NewPeer(t).session.theirs
    BY DEF V!NewPeer, V!NoSession, Peer
  <2>2. V!Streaming(p) \in BOOLEAN /\ (V!Streaming(p) => ob.mics > 0)
    BY DEF V!Streaming
  <2> QED  BY <2>1, <2>2
<1>5. /\ pcs[q] \in Peer /\ (pcs[q].track => ob.mics > 0)
      /\ pcs[q].own <= k /\ pcs[q].remote.n <= k /\ pcs[q].session.n <= k
  BY <1>2, <1>3, <1>4
\* What is said of the connection to q, known or new.
<1>6. /\ \A n : (pcs[q].session.n = n /\ pcs[q].session.theirs) => Believes(ob, q, n)
      /\ \A n : (pcs[q].remote.n = n /\ pcs[q].remote.sends) => Believes(ob, q, n)
      /\ \A n : n # 0 /\ n \in {pcs[q].session.n, pcs[q].own, pcs[q].remote.n} => Uses(ob, q, n)
      /\ \A n : n # 0 /\ pcs[q].remote.n = n => Took(ob, q, n)
  BY <1>3, <1>4 DEF Believes, Uses, Took
<1> HIDE DEF pcs
<1>7. Leaves(s, q) <=> s.kind = "leave"
  BY DEF Leaves
<1>8. ASSUME NEW o, NEW pc, ob.shown, s.kind # "leave",
             DOMAIN o = ObjectFields, o.shown = ob.shown, o.asks = ob.asks, o.mics = ob.mics,
             DOMAIN o.peers = DOMAIN ob.peers \cup {q}, o.peers[q] = pc,
             \A r \in DOMAIN ob.peers : r # q => o.peers[r] = ob.peers[r],
             Gained(p, pc, s, k)
      PROVE  Follows(p, o, s, k)
  <2>1. \A r \in DOMAIN o.peers :
          /\ o.peers[r] \in Peer /\ (o.peers[r].track => ob.mics > 0)
          /\ o.peers[r].own <= k /\ o.peers[r].remote.n <= k /\ o.peers[r].session.n <= k
    BY <1>2, <1>8 DEF Gained
  <2>2. IsObject(p, o, k)
    BY <1>1, <1>8, <2>1 DEF IsObject
  <2>3. \A r : r # q => /\ r \in DOMAIN o.peers <=> r \in DOMAIN ob.peers
                        /\ r \in DOMAIN ob.peers => o.peers[r] = ob.peers[r]
    BY <1>8
  <2>4. \A n \in Nat : Believes(o, q, n) => Believes(ob, q, n) \/ (Claims(s, q) /\ s.data.n = n)
    <3>1. \A n : Believes(o, q, n) =>
            (pc.session.n = n /\ pc.session.theirs) \/ (pc.remote.n = n /\ pc.remote.sends)
      BY <1>8 DEF Believes
    <3> QED  BY <1>8, <3>1 DEF Gained
  <2>5. \A n \in Nat : Uses(o, q, n) => Uses(ob, q, n) \/ (Offers(s, q) /\ s.data.n = n)
    <3>1. \A n : Uses(o, q, n) => n # 0 /\ n \in {pc.session.n, pc.own, pc.remote.n}
      BY <1>8 DEF Uses
    <3> QED  BY <1>8, <3>1 DEF Gained
  <2>6. \A n \in Nat : Took(o, q, n) => Took(ob, q, n) \/ n = 0 \/ (Offers(s, q) /\ s.data.n = n)
    <3>1. \A n : Took(o, q, n) => pc.remote.n = n
      BY <1>8 DEF Took
    <3> QED  BY <1>8, <3>1 DEF Gained
  <2> QED  BY <1>7, <1>8, <2>2, <2>3, <2>4, <2>5, <2>6 DEF Follows
<1>9. ~Leaves(s, q) \/ q \notin DOMAIN ob.peers => Follows(p, ob, s, k)
  BY DEF Follows
<1>10. CASE s.kind \in {"join", "ice"}
  <2>1. PICK o : /\ V!Heard(p, s) = o /\ DOMAIN o = ObjectFields /\ o.shown = ob.shown
                 /\ o.asks = ob.asks /\ o.mics = ob.mics /\ o.peers = pcs
    <3>1. \E w : V!Heard(p, s) = [ob EXCEPT !.peers = pcs, !.work = w]
      BY <1>1, <1>10 DEF V!Heard, pcs
    <3> QED  BY <1>1, <3>1 DEF ObjectFields
  <2>2. Gained(p, pcs[q], s, k)
    BY <1>5, <1>6 DEF Gained
  <2>3. Follows(p, o, s, k)
    BY <1>3, <1>8, <1>10, <2>1, <2>2
  <2> QED  BY <2>1, <2>3
<1>11. CASE s.kind = "leave"
  <2>1. PICK o : /\ V!Heard(p, s) = o /\ DOMAIN o = ObjectFields /\ o.shown = ob.shown
                 /\ o.asks = ob.asks /\ o.mics = ob.mics
                 /\ o.peers = V!WithoutPeer(p, q)
    <3>1. \E w : V!Heard(p, s) = [ob EXCEPT !.peers = V!WithoutPeer(p, q), !.work = w]
      BY <1>1, <1>11 DEF V!Heard
    <3> QED  BY <1>1, <3>1 DEF ObjectFields
  <2>2. /\ DOMAIN o.peers = DOMAIN ob.peers \ {q}
        /\ \A r \in DOMAIN o.peers : o.peers[r] = ob.peers[r]
    BY <2>1 DEF V!WithoutPeer
  <2>3. IsObject(p, o, k)
    BY <1>1, <1>2, <1>11, <2>1, <2>2 DEF IsObject
  <2>4. \A n : ~Believes(o, q, n) /\ ~Uses(o, q, n) /\ ~Took(o, q, n)
    BY <2>2 DEF Believes, Uses, Took
  <2>5. \A r : r # q => /\ r \in DOMAIN o.peers <=> r \in DOMAIN ob.peers
                        /\ r \in DOMAIN ob.peers => o.peers[r] = ob.peers[r]
    BY <2>2
  <2> QED  BY <2>1, <2>2, <2>3, <2>4, <2>5 DEF Follows
<1>12. CASE s.kind = "offer"
  <2> DEFINE pc == V!TakeOffer(pcs[q], s.data)
  <2>1. PICK o : /\ V!Heard(p, s) = o /\ DOMAIN o = ObjectFields /\ o.shown = ob.shown
                 /\ o.asks = ob.asks /\ o.mics = ob.mics /\ o.peers = [pcs EXCEPT ![q] = pc]
    <3>1. \E w : V!Heard(p, s) = [ob EXCEPT !.peers = [pcs EXCEPT ![q] = pc], !.work = w]
      BY <1>1, <1>12 DEF V!Heard, pcs
    <3> HIDE DEF pc
    <3> QED  BY <1>1, <3>1 DEF ObjectFields
  <2>2. s.data \in Offered /\ s.data.n <= k
    BY <1>12 DEF IsSignal
  <2>3. /\ pc \in Peer /\ pc.track = pcs[q].track /\ pc.own = 0 /\ pc.remote = s.data
        /\ pc.session = pcs[q].session
    BY <1>5, <2>2 DEF V!TakeOffer, Peer, Offered
  <2> HIDE DEF pc
  <2>4. /\ DOMAIN o.peers = DOMAIN ob.peers \cup {q} /\ o.peers[q] = pc
        /\ \A r \in DOMAIN ob.peers : r # q => o.peers[r] = ob.peers[r]
    BY <1>3, <2>1
  <2>5. \A n \in Nat : (pc.session.n = n /\ pc.session.theirs) \/ (pc.remote.n = n /\ pc.remote.sends) =>
          Believes(ob, q, n) \/ (Claims(s, q) /\ s.data.n = n)
    BY <1>6, <1>12, <2>3 DEF Claims
  <2>6. \A n \in Nat : n # 0 /\ n \in {pc.session.n, pc.own, pc.remote.n} =>
          Uses(ob, q, n) \/ (Offers(s, q) /\ s.data.n = n)
    BY <1>6, <1>12, <2>3 DEF Offers
  <2>7. \A n \in Nat : n # 0 /\ pc.remote.n = n => Took(ob, q, n) \/ (Offers(s, q) /\ s.data.n = n)
    BY <1>12, <2>3 DEF Offers
  <2>8. Gained(p, pc, s, k)
    BY <1>5, <2>2, <2>3, <2>5, <2>6, <2>7 DEF Gained
  <2>9. Follows(p, o, s, k)
    BY <1>8, <1>12, <2>1, <2>4, <2>8
  <2> QED  BY <2>1, <2>9
<1>13. CASE s.kind = "answer" /\ q \in DOMAIN ob.peers
  <2> DEFINE old == ob.peers[q]
             pc == V!TakeAnswer(old, s.data)
  <2>1. PICK o : /\ V!Heard(p, s) = o /\ DOMAIN o = ObjectFields /\ o.shown = ob.shown
                 /\ o.asks = ob.asks /\ o.mics = ob.mics /\ o.peers = [ob.peers EXCEPT ![q] = pc]
    <3>1. V!Heard(p, s) = [ob EXCEPT !.peers = [ob.peers EXCEPT ![q] = pc]]
      BY <1>1, <1>13 DEF V!Heard, V!Put
    <3> HIDE DEF pc
    <3> QED  BY <1>1, <3>1 DEF ObjectFields
  <2>2. s.data \in Offered /\ s.data.n <= k
    BY <1>13 DEF IsSignal
  <2>3. old = pcs[q] /\ old \in Peer
    BY <1>3, <1>5, <1>13
  <2>4. /\ pc \in Peer /\ pc.track = old.track /\ pc.own \in {0, old.own} /\ pc.remote = old.remote
        /\ \/ pc.session = old.session
           \/ pc.session.n = 0 /\ ~pc.session.theirs
           \/ pc.session.n = s.data.n /\ pc.session.theirs = s.data.sends /\ s.data.n = old.own
    <3>1. CASE old.state # "have-local"
      BY <2>3, <3>1 DEF V!TakeAnswer
    <3>2. CASE old.state = "have-local" /\ s.data.n = old.own
      <4>1. pc = [old EXCEPT !.state = "stable", !.own = 0,
                   !.session = [n |-> s.data.n, mine |-> old.track, theirs |-> s.data.sends]]
        BY <3>2 DEF V!TakeAnswer
      <4> HIDE DEF pc
      <4> QED  BY <2>2, <2>3, <3>2, <4>1 DEF Peer, Offered
    <3>3. CASE old.state = "have-local" /\ s.data.n # old.own
      <4>1. pc = [old EXCEPT !.state = "stable", !.own = 0, !.session = V!NoSession]
        BY <3>3 DEF V!TakeAnswer
      <4> HIDE DEF pc
      <4> QED  BY <2>3, <4>1 DEF Peer, V!NoSession
    <3> QED  BY <3>1, <3>2, <3>3
  <2> HIDE DEF pc, old
  <2>5. /\ DOMAIN o.peers = DOMAIN ob.peers \cup {q} /\ o.peers[q] = pc
        /\ \A r \in DOMAIN ob.peers : r # q => o.peers[r] = ob.peers[r]
    BY <1>13, <2>1
  <2>6. \A n \in Nat : (pc.session.n = n /\ pc.session.theirs) \/ (pc.remote.n = n /\ pc.remote.sends) =>
          Believes(ob, q, n) \/ (Claims(s, q) /\ s.data.n = n)
    BY <1>6, <1>13, <2>3, <2>4 DEF Claims
  <2>7. \A n \in Nat : n # 0 /\ n \in {pc.session.n, pc.own, pc.remote.n} =>
          Uses(ob, q, n) \/ (Offers(s, q) /\ s.data.n = n)
    BY <1>6, <2>3, <2>4
  <2>8. \A n \in Nat : n # 0 /\ pc.remote.n = n => Took(ob, q, n) \/ (Offers(s, q) /\ s.data.n = n)
    BY <1>6, <2>3, <2>4
  <2>9. (pc.track => ob.mics > 0) /\ pc.own <= k /\ pc.remote.n <= k /\ pc.session.n <= k
    BY <1>5, <2>2, <2>3, <2>4 DEF Offered
  <2>10. Gained(p, pc, s, k)
    BY <2>4, <2>6, <2>7, <2>8, <2>9 DEF Gained
  <2>11. Follows(p, o, s, k)
    BY <1>8, <1>13, <2>1, <2>5, <2>10
  <2> QED  BY <2>1, <2>11
<1>14. CASE s.kind = "answer" /\ q \notin DOMAIN ob.peers
  <2>1. V!Heard(p, s) = ob
    BY <1>14 DEF V!Heard
  <2> QED  BY <1>9, <1>14, <2>1
<1> QED  BY <1>1, <1>10, <1>11, <1>12, <1>13, <1>14

\* The head s of the pipe of p is taken; p's object follows from it.
LEMMA ReceiveKeeps ==
    ASSUME VoiceInv, NEW p \in Speakers, V!Receive(p)
    PROVE  VoiceInv'
<1> DEFINE s == pipe[p][1]
<1>1. /\ pipe[p] \in Seq(Signals) /\ pipe[p] # << >>
      /\ \A q \in Speakers : pipe[q] \in Seq(Signals) /\ Len(pipe[q]) \in Nat
      /\ DOMAIN voice = Speakers /\ DOMAIN pipe = Speakers /\ offers \in Nat
  BY DEF V!Receive, VoiceInv, VoiceTyped
<1>2. /\ pipe'[p] = Tail(pipe[p]) /\ DOMAIN pipe' = Speakers
      /\ \A q \in Speakers : q # p => pipe'[q] = pipe[q]
      /\ UNCHANGED <<won, members, orphans, link, outbox, unsaid, offers>>
  BY <1>1 DEF V!Receive, V!Links
<1>3. /\ pipe'[p] \in Seq(Signals) /\ Len(pipe'[p]) = Len(pipe[p]) - 1 /\ Len(pipe[p]) \in Nat \ {0}
      /\ \A i \in 1..Len(pipe'[p]) : pipe'[p][i] = pipe[p][i + 1]
      /\ Head(pipe[p]) = s
  BY <1>1, <1>2, PipeShrinks
<1>4. 1 \in 1..Len(pipe[p]) /\ \A i \in 1..Len(pipe'[p]) : i \in Nat /\ i + 1 \in 1..Len(pipe[p])
  BY <1>3
<1>5. IsSignal(p, s, offers) /\ IsObject(p, voice[p], offers)
  BY <1>4 DEF VoiceInv, VoiceTyped
<1>6. OnlyOf(p) /\ Follows(p, voice'[p], s, offers)
  <2>1. CASE voice[p].shown
    <3>1. OnlyOf(p) /\ voice'[p] = V!Heard(p, s)
      BY <1>1, <1>3, <2>1 DEF V!Receive, OnlyOf
    <3> QED  BY <1>1, <1>5, <2>1, <3>1, HeardFollows
  <2>2. CASE ~voice[p].shown
    <3>1. OnlyOf(p) /\ voice'[p] = voice[p]
      BY <1>1, <2>2 DEF V!Receive, OnlyOf
    <3>2. DOMAIN voice[p].peers = {}
      BY <1>5, <2>2 DEF IsObject
    <3>3. Follows(p, voice[p], s, offers)
      BY <1>5, <3>2 DEF Follows
    <3> QED  BY <3>1, <3>3
  <2> QED  BY <2>1, <2>2
<1> HIDE DEF s
<1>7. ASSUME NEW q \in Speakers
      PROVE  /\ voice'[q].mics = voice[q].mics
             /\ (Silent(q)' <=> Silent(q)) /\ (Left(q)' <=> Left(q))
  BY <1>2, <1>6 DEF OnlyOf, Follows, Silent, Gone, Left
\* What an object has after the step it had, or s brings it.
<1>8. ASSUME NEW q \in Speakers, NEW r \in Speakers, NEW n \in Nat
      PROVE  /\ Believes(voice'[q], r, n) => \/ Believes(voice[q], r, n)
                                             \/ q = p /\ Claims(s, r) /\ s.data.n = n
             /\ Uses(voice'[q], r, n) => \/ Uses(voice[q], r, n)
                                         \/ q = p /\ Offers(s, r) /\ s.data.n = n
             /\ Took(voice'[q], r, n) => \/ Took(voice[q], r, n) \/ n = 0
                                         \/ q = p /\ Offers(s, r) /\ s.data.n = n
  <2>1. CASE q # p
    BY <1>6, <2>1 DEF OnlyOf
  <2>2. CASE q = p /\ r # s.from
    BY <1>6, <2>2 DEF Follows, Believes, Uses, Took
  <2>3. CASE q = p /\ r = s.from
    BY <1>6, <2>3 DEF Follows
  <2> QED  BY <2>1, <2>2, <2>3
<1>9. ASSUME NEW q \in Speakers, NEW i \in 1..Len(pipe'[q])
      PROVE  \/ q # p /\ pipe'[q] = pipe[q]
             \/ q = p /\ i + 1 \in 1..Len(pipe[q]) /\ pipe'[q][i] = pipe[q][i + 1]
  BY <1>2, <1>3, <1>4
<1>10. ASSUME NEW q \in Speakers, NEW r \in Speakers, NEW n \in Nat
       PROVE  Said(voice'[q], pipe'[q], r, n) => Said(voice[q], pipe[q], r, n)
  <2>1. ASSUME NEW i \in 1..Len(pipe'[q]), Claims(pipe'[q][i], r), pipe'[q][i].data.n = n
        PROVE  Said(voice[q], pipe[q], r, n)
    BY <1>9, <2>1 DEF Said
  <2>2. ASSUME Believes(voice'[q], r, n) PROVE Said(voice[q], pipe[q], r, n)
    BY <1>4, <1>8, <2>2 DEF Said, s
  <2> QED  BY <2>1, <2>2 DEF Said
<1>11. VoiceTyped'
  <2>1. ASSUME NEW q \in Speakers PROVE IsObject(q, voice'[q], offers')
    BY <1>2, <1>6 DEF VoiceInv, VoiceTyped, OnlyOf, Follows
  <2>2. ASSUME NEW q \in Speakers, NEW i \in 1..Len(pipe'[q])
        PROVE  IsSignal(q, pipe'[q][i], offers')
    BY <1>2, <1>9 DEF VoiceInv, VoiceTyped
  <2>3. \A q \in Speakers : pipe'[q] \in Seq(Signals)
    BY <1>1, <1>2, <1>3
  <2> QED  BY <1>1, <1>2, <1>6, <2>1, <2>2, <2>3 DEF VoiceInv, VoiceTyped, OnlyOf
<1>12. ClaimsAreBacked'
  <2> SUFFICES ASSUME NEW q \in Speakers, NEW r \in Speakers, NEW n \in Nat,
                      Uses(voice'[r], q, n), Said(voice'[q], pipe'[q], r, n)
               PROVE  voice'[r].mics > 0
    BY DEF ClaimsAreBacked
  <2>1. Said(voice[q], pipe[q], r, n)
    BY <1>10
  <2>2. CASE Uses(voice[r], q, n)
    BY <1>7, <2>1, <2>2 DEF VoiceInv, ClaimsAreBacked
  <2>3. CASE r = p /\ Offers(s, q) /\ s.data.n = n
    <3>1. ~Said(voice[q], pipe[q], p, s.data.n)
      BY <1>4, <2>3 DEF VoiceInv, OffersComeOnce, s
    <3> QED  BY <2>1, <2>3, <3>1
  <2> QED  BY <1>8, <2>2, <2>3
<1>13. OffersComeOnce'
  <2> SUFFICES ASSUME NEW q \in Speakers, NEW r \in Speakers, NEW i \in 1..Len(pipe'[q]),
                      Offers(pipe'[q][i], r)
               PROVE  /\ \A j \in 1..Len(pipe'[q]) :
                           Offers(pipe'[q][j], r) /\ pipe'[q][j].data.n = pipe'[q][i].data.n => i = j
                      /\ ~Took(voice'[q], r, pipe'[q][i].data.n)
                      /\ ~Said(voice'[r], pipe'[r], q, pipe'[q][i].data.n)
    BY DEF OffersComeOnce
  <2> DEFINE n == pipe'[q][i].data.n
  <2>1. PICK k \in 1..Len(pipe[q]) : pipe'[q][i] = pipe[q][k] /\ (q = p => k = i + 1) /\ (q # p => k = i)
    BY <1>9
  <2>2. /\ \A j \in 1..Len(pipe[q]) : Offers(pipe[q][j], r) /\ pipe[q][j].data.n = n => k = j
        /\ ~Took(voice[q], r, n)
        /\ ~Said(voice[r], pipe[r], q, n)
    BY <2>1 DEF VoiceInv, OffersComeOnce
  <2>3. n \in Nat /\ n # 0
    <3>1. IsSignal(q, pipe[q][k], offers)
      BY DEF VoiceInv, VoiceTyped
    <3> QED  BY <2>1, <3>1 DEF IsSignal, Offered, Offers
  <2> HIDE DEF n
  <2>4. ASSUME NEW j \in 1..Len(pipe'[q]), Offers(pipe'[q][j], r), pipe'[q][j].data.n = n
        PROVE  i = j
    <3>1. CASE q # p
      BY <1>2, <2>1, <2>2, <2>4, <3>1
    <3>2. CASE q = p
      <4>1. j + 1 \in 1..Len(pipe[q]) /\ pipe'[q][j] = pipe[q][j + 1]
        BY <1>9, <3>2
      <4>2. k = j + 1
        BY <2>2, <2>4, <4>1
      <4> QED  BY <2>1, <3>2, <4>2
    <3> QED  BY <3>1, <3>2
  <2>5. ~Took(voice'[q], r, n)
    <3>1. ~(q = p /\ Offers(s, r) /\ s.data.n = n)
      <4> SUFFICES ASSUME q = p, Offers(s, r), s.data.n = n PROVE FALSE
        OBVIOUS
      <4>1. k = 1
        BY <1>4, <2>2 DEF s
      <4> QED  BY <2>1, <4>1
    <3> QED  BY <1>8, <2>2, <2>3, <3>1
  <2>6. ~Said(voice'[r], pipe'[r], q, n)
    BY <1>10, <2>2, <2>3
  <2> QED  BY <2>4, <2>5, <2>6 DEF n
<1>14. LeftAreNoMembers'
  BY <1>2, <1>7 DEF VoiceInv, LeftAreNoMembers
<1>15. LeavesFollow'
  <2> SUFFICES ASSUME NEW q \in Speakers, NEW r \in Speakers, Left(r)', link'[q] # "lost"
               PROVE  /\ (\E n \in Nat : Believes(voice'[q], r, n)) =>
                           \E j \in 1..Len(pipe'[q]) : Leaves(pipe'[q][j], r)
                      /\ \A i \in 1..Len(pipe'[q]) : Claims(pipe'[q][i], r) =>
                           \E j \in (i + 1)..Len(pipe'[q]) : Leaves(pipe'[q][j], r)
    BY DEF LeavesFollow
  <2>1. /\ (\E n \in Nat : Believes(voice[q], r, n)) => \E j \in 1..Len(pipe[q]) : Leaves(pipe[q][j], r)
        /\ \A i \in 1..Len(pipe[q]) : Claims(pipe[q][i], r) =>
             \E j \in (i + 1)..Len(pipe[q]) : Leaves(pipe[q][j], r)
    BY <1>2, <1>7 DEF VoiceInv, LeavesFollow
  <2>2. CASE q # p
    <3>1. voice'[q] = voice[q] /\ pipe'[q] = pipe[q]
      BY <1>2, <1>6, <2>2 DEF OnlyOf
    <3> QED  BY <2>1, <3>1
  <2>3. CASE q = p
    \* A leave behind the head is where it was, one place nearer.
    <3>1. ASSUME NEW k \in 2..Len(pipe[p]), Leaves(pipe[p][k], r)
          PROVE  k - 1 \in 1..Len(pipe'[p]) /\ Leaves(pipe'[p][k - 1], r)
      <4>1. k - 1 \in 1..Len(pipe'[p]) /\ (k - 1) + 1 = k
        BY <1>3
      <4>2. pipe'[p][k - 1] = pipe[p][(k - 1) + 1]
        BY <1>3, <4>1
      <4> QED  BY <3>1, <4>1, <4>2
    <3>2. ASSUME NEW n \in Nat, Believes(voice'[p], r, n)
          PROVE  \E j \in 1..Len(pipe'[p]) : Leaves(pipe'[p][j], r)
      <4>1. ~Leaves(s, r)
        BY <1>6, <3>2 DEF Follows, Believes, Leaves
      <4>2. PICK k \in 1..Len(pipe[p]) : Leaves(pipe[p][k], r)
        <5>1. CASE Believes(voice[p], r, n)
          BY <2>1, <2>3, <5>1
        <5>2. CASE Claims(s, r)
          <6>1. PICK j \in (1 + 1)..Len(pipe[p]) : Leaves(pipe[p][j], r)
            BY <1>4, <2>1, <2>3, <5>2 DEF s
          <6>2. j \in 1..Len(pipe[p])
            BY <1>3
          <6> QED  BY <6>1, <6>2
        <5> QED  BY <1>8, <3>2, <5>1, <5>2
      <4>3. k \in 2..Len(pipe[p])
        <5>1. k # 1
          BY <4>1, <4>2 DEF s
        <5> QED  BY <1>3, <5>1
      <4> QED  BY <3>1, <4>2, <4>3
    <3>3. ASSUME NEW i \in 1..Len(pipe'[p]), Claims(pipe'[p][i], r)
          PROVE  \E j \in (i + 1)..Len(pipe'[p]) : Leaves(pipe'[p][j], r)
      <4>1. PICK k \in ((i + 1) + 1)..Len(pipe[p]) : Leaves(pipe[p][k], r)
        BY <1>3, <1>4, <2>1, <2>3, <3>3
      <4>2. k \in 2..Len(pipe[p]) /\ k - 1 \in (i + 1)..Len(pipe'[p])
        BY <1>3, <4>1
      <4> QED  BY <3>1, <4>1, <4>2
    <3> QED  BY <2>3, <3>2, <3>3
  <2> QED  BY <2>2, <2>3
\* The pipe of a page without a connection has nothing to take.
<1>16. LinksTyped'
  <2>1. ASSUME NEW q \in Speakers PROVE LinkTyped(q)'
    <3>1. LinkTyped(q)
      BY DEF VoiceInv, LinksTyped
    <3>2. CASE q = p
      BY <1>1, <1>2, <3>1, <3>2 DEF LinkTyped
    <3>3. CASE q # p
      BY <1>2, <1>6, <3>1, <3>3 DEF LinkTyped, OnlyOf
    <3> QED  BY <3>2, <3>3
  <2> QED  BY <1>2, <2>1 DEF VoiceInv, LinksTyped
<1> QED  BY <1>11, <1>12, <1>13, <1>14, <1>15, <1>16 DEF VoiceInv

\* The pipes lose nothing and that of q, if it is reached, gets at most the signals
\* s and t.
Told(q, s, t) ==
    \/ pipe' = pipe
    \/ V!Reached(q) /\ pipe' = [pipe EXCEPT ![q] = pipe[q] \o <<s, t>>]

\* What was told before is told still, and nothing but s and t besides.
LEMMA ToldIsMore ==
    ASSUME VoiceTyped, NEW q \in Speakers, NEW s \in Signals, NEW t \in Signals, Told(q, s, t),
           NEW r \in Speakers
    PROVE  /\ DOMAIN pipe' = Speakers /\ pipe'[r] \in Seq(Signals)
           /\ Len(pipe[r]) \in Nat /\ Len(pipe'[r]) \in Nat /\ Len(pipe[r]) <= Len(pipe'[r])
           /\ \A i \in 1..Len(pipe[r]) : pipe'[r][i] = pipe[r][i]
           /\ \A i \in 1..Len(pipe'[r]) :
                \/ i \in 1..Len(pipe[r])
                \/ r = q /\ i = Len(pipe[r]) + 1 /\ pipe'[r][i] = s
                \/ r = q /\ i = Len(pipe[r]) + 2 /\ pipe'[r][i] = t
<1>1. pipe[r] \in Seq(Signals) /\ Len(pipe[r]) \in Nat /\ DOMAIN pipe = Speakers
  BY DEF VoiceTyped
<1>2. CASE pipe'[r] = pipe[r] /\ DOMAIN pipe' = Speakers
  BY <1>1, <1>2
<1>3. CASE r = q /\ pipe'[r] = pipe[r] \o <<s, t>> /\ DOMAIN pipe' = Speakers
  <2>1. /\ pipe'[r] \in Seq(Signals) /\ Len(pipe'[r]) = Len(pipe[r]) + 2
        /\ \A i \in 1..Len(pipe[r]) : pipe'[r][i] = pipe[r][i]
        /\ pipe'[r][Len(pipe[r]) + 1] = s /\ pipe'[r][Len(pipe[r]) + 2] = t
    BY <1>1, <1>3, PipeGrowsByTwo
  <2>2. \A i \in 1..Len(pipe'[r]) :
          i \in 1..Len(pipe[r]) \/ i = Len(pipe[r]) + 1 \/ i = Len(pipe[r]) + 2
    BY <1>1, <2>1
  <2> QED  BY <1>1, <1>3, <2>1, <2>2
<1> QED  BY <1>1, <1>2, <1>3 DEF Told

\* An offer or an answer d of p to q goes out and p's object notes what it said.
LEMMA SendKeeps ==
    ASSUME VoiceInv, NEW p \in Speakers, NEW q \in DOMAIN voice[p].peers,
           NEW kind \in {"offer", "answer"}, NEW d \in Offered,
           Told(q, V!Signal(p, kind, d), V!Signal(p, "ice", V!NoSession)),
           OnlyOf(p), IsObject(p, voice'[p], offers'), voice'[p].mics = voice[p].mics,
           \A r : r # q => /\ r \in DOMAIN voice'[p].peers <=> r \in DOMAIN voice[p].peers
                           /\ r \in DOMAIN voice[p].peers => voice'[p].peers[r] = voice[p].peers[r],
           voice[p].peers[q].remote.n = voice'[p].peers[q].remote.n,
           \A n \in Nat : Believes(voice'[p], q, n) => Believes(voice[p], q, n),
           \A n \in Nat : Uses(voice'[p], q, n) => Uses(voice[p], q, n) \/ (kind = "offer" /\ n = d.n),
           d.sends => voice[p].peers[q].track,
           \/ kind = "offer" /\ offers' = offers + 1 /\ d.n = offers'
           \/ kind = "answer" /\ offers' = offers /\ d.n = voice[p].peers[q].remote.n,
           voice'[p].shown = voice[p].shown,
           UNCHANGED <<won, members, orphans, link, outbox, unsaid>>
    PROVE  VoiceInv'
<1> DEFINE s == V!Signal(p, kind, d)
           t == V!Signal(p, "ice", V!NoSession)
<1>1. /\ VoiceTyped /\ offers \in Nat /\ offers' \in Nat /\ offers <= offers' /\ d.n <= offers'
      /\ IsObject(p, voice[p], offers) /\ q \in Speakers /\ q # p /\ d.n \in Nat
      /\ voice[p].peers[q].remote.n <= offers
  <2>1. VoiceTyped /\ offers \in Nat /\ IsObject(p, voice[p], offers)
    BY DEF VoiceInv, VoiceTyped
  <2>2. q \in Speakers /\ q # p /\ voice[p].peers[q].remote.n <= offers
    BY <2>1 DEF IsObject
  <2> QED  BY <2>1, <2>2 DEF Offered
<1>2. /\ s \in Signals /\ s.from = p /\ s.kind = kind /\ s.data = d
      /\ t \in Signals /\ t.from = p /\ t.kind = "ice"
  BY DEF V!Signal, V!NoSession, Signals
<1>3. IsSignal(q, s, offers') /\ IsSignal(q, t, offers')
  BY <1>1, <1>2 DEF IsSignal
<1> HIDE DEF s, t
<1>4. ASSUME NEW r \in Speakers
      PROVE  /\ Len(pipe[r]) \in Nat /\ Len(pipe'[r]) \in Nat /\ Len(pipe[r]) <= Len(pipe'[r])
             /\ DOMAIN pipe' = Speakers /\ pipe'[r] \in Seq(Signals)
             /\ \A i \in 1..Len(pipe[r]) : pipe'[r][i] = pipe[r][i]
             /\ \A i \in 1..Len(pipe'[r]) :
                  \/ i \in 1..Len(pipe[r])
                  \/ r = q /\ i = Len(pipe[r]) + 1 /\ pipe'[r][i] = s
                  \/ r = q /\ i = Len(pipe[r]) + 2 /\ pipe'[r][i] = t
  BY <1>1, <1>2, ToldIsMore DEF s, t
<1>5. ASSUME NEW r \in Speakers
      PROVE  /\ voice'[r].mics = voice[r].mics /\ voice'[r].shown = voice[r].shown
             /\ (Silent(r)' <=> Silent(r)) /\ (Left(r)' <=> Left(r))
  BY DEF OnlyOf, Silent, Gone, Left
<1>6. ASSUME NEW a \in Speakers, NEW b \in Speakers, NEW n \in Nat
      PROVE  /\ Believes(voice'[a], b, n) => Believes(voice[a], b, n)
             /\ Uses(voice'[a], b, n) => \/ Uses(voice[a], b, n)
                                         \/ a = p /\ b = q /\ kind = "offer" /\ n = d.n
             /\ Took(voice'[a], b, n) => Took(voice[a], b, n)
  <2>1. CASE a # p
    BY <2>1 DEF OnlyOf
  <2>2. CASE a = p /\ b # q
    BY <2>2 DEF Believes, Uses, Took
  <2>3. CASE a = p /\ b = q
    BY <2>3 DEF Took
  <2> QED  BY <2>1, <2>2, <2>3
\* Numbers told of are numbers of offers.
<1>7. ASSUME NEW a \in Speakers, NEW b \in Speakers, NEW n \in Nat, Said(voice[a], pipe[a], b, n)
      PROVE  n <= offers
  <2>1. CASE Believes(voice[a], b, n)
    <3>1. IsObject(a, voice[a], offers)
      BY <1>1 DEF VoiceTyped
    <3> QED  BY <2>1, <3>1 DEF IsObject, Believes
  <2>2. ASSUME NEW i \in 1..Len(pipe[a]), Claims(pipe[a][i], b), pipe[a][i].data.n = n
        PROVE  n <= offers
    BY <1>1, <2>2 DEF VoiceTyped, IsSignal, Claims
  <2> QED  BY <1>7, <2>1, <2>2 DEF Said
\* What is told after the step was told, or is what s tells.
<1>8. ASSUME NEW a \in Speakers, NEW b \in Speakers, NEW n \in Nat, Said(voice'[a], pipe'[a], b, n)
      PROVE  \/ Said(voice[a], pipe[a], b, n)
             \/ a = q /\ b = p /\ d.sends /\ n = d.n
  <2>1. CASE Believes(voice'[a], b, n)
    BY <1>6, <2>1 DEF Said
  <2>2. ASSUME NEW i \in 1..Len(pipe'[a]), Claims(pipe'[a][i], b), pipe'[a][i].data.n = n
        PROVE  \/ Said(voice[a], pipe[a], b, n)
               \/ a = q /\ b = p /\ d.sends /\ n = d.n
    <3>1. CASE i \in 1..Len(pipe[a])
      BY <1>4, <2>2, <3>1 DEF Said
    <3>2. CASE a = q /\ pipe'[a][i] = s
      BY <1>2, <2>2, <3>2 DEF Claims
    <3>3. CASE pipe'[a][i] = t
      BY <1>2, <2>2, <3>3 DEF Claims
    <3> QED  BY <1>4, <3>1, <3>2, <3>3
  <2> QED  BY <1>8, <2>1, <2>2 DEF Said
<1>9. d.sends => voice[p].mics > 0
  BY <1>1 DEF IsObject
<1>10. VoiceTyped'
  <2>1. ASSUME NEW r \in Speakers PROVE IsObject(r, voice'[r], offers')
    <3>1. CASE r # p
      <4>1. IsObject(r, voice[r], offers)
        BY DEF VoiceInv, VoiceTyped
      <4>2. \A x \in DOMAIN voice[r].peers :
              voice[r].peers[x].own \in Nat /\ voice[r].peers[x].remote.n \in Nat /\ voice[r].peers[x].session.n \in Nat
        BY <4>1 DEF IsObject, Peer
      <4> QED  BY <1>1, <3>1, <4>1, <4>2 DEF IsObject, OnlyOf
    <3> QED  BY <3>1
  <2>2. ASSUME NEW r \in Speakers, NEW i \in 1..Len(pipe'[r])
        PROVE  IsSignal(r, pipe'[r][i], offers')
    <3>1. CASE i \in 1..Len(pipe[r])
      <4>1. IsSignal(r, pipe[r][i], offers)
        BY <3>1 DEF VoiceInv, VoiceTyped
      <4>2. IsSignal(r, pipe[r][i], offers')
        BY <1>1, <4>1 DEF IsSignal, Offered
      <4> QED  BY <1>4, <3>1, <4>2
    <3> QED  BY <1>3, <1>4, <3>1
  <2>3. DOMAIN pipe' = Speakers /\ \A r \in Speakers : pipe'[r] \in Seq(Signals)
    BY <1>1, <1>4
  <2> QED  BY <1>1, <2>1, <2>2, <2>3 DEF VoiceTyped, OnlyOf
<1>11. ClaimsAreBacked'
  <2> SUFFICES ASSUME NEW a \in Speakers, NEW b \in Speakers, NEW n \in Nat,
                      Uses(voice'[b], a, n), Said(voice'[a], pipe'[a], b, n)
               PROVE  voice'[b].mics > 0
    BY DEF ClaimsAreBacked
  <2>1. CASE b = p /\ d.sends
    BY <1>5, <1>9, <2>1
  <2>2. CASE Said(voice[a], pipe[a], b, n)
    <3>1. Uses(voice[b], a, n)
      BY <1>1, <1>6, <1>7, <2>2
    <3> QED  BY <1>5, <2>2, <3>1 DEF VoiceInv, ClaimsAreBacked
  <2> QED  BY <1>8, <2>1, <2>2
<1>12. OffersComeOnce'
  <2> SUFFICES ASSUME NEW a \in Speakers, NEW b \in Speakers, NEW i \in 1..Len(pipe'[a]),
                      Offers(pipe'[a][i], b)
               PROVE  /\ \A j \in 1..Len(pipe'[a]) :
                           Offers(pipe'[a][j], b) /\ pipe'[a][j].data.n = pipe'[a][i].data.n => i = j
                      /\ ~Took(voice'[a], b, pipe'[a][i].data.n)
                      /\ ~Said(voice'[b], pipe'[b], a, pipe'[a][i].data.n)
    BY DEF OffersComeOnce
  <2> DEFINE n == pipe'[a][i].data.n
  \* An offer of b to a in the pipe is an old one or s, and s is last.
  <2>1. ASSUME NEW j \in 1..Len(pipe'[a]), Offers(pipe'[a][j], b)
        PROVE  \/ j \in 1..Len(pipe[a]) /\ Offers(pipe[a][j], b) /\ pipe'[a][j] = pipe[a][j]
                  /\ pipe[a][j].data.n \in Nat /\ pipe[a][j].data.n <= offers
               \/ a = q /\ b = p /\ kind = "offer" /\ j = Len(pipe[a]) + 1 /\ pipe'[a][j] = s
    <3>1. CASE j \in 1..Len(pipe[a])
      <4>1. IsSignal(a, pipe[a][j], offers) /\ pipe'[a][j] = pipe[a][j]
        BY <1>4, <3>1 DEF VoiceInv, VoiceTyped
      <4> QED  BY <2>1, <3>1, <4>1 DEF IsSignal, Offered, Offers
    <3>2. CASE a = q /\ j = Len(pipe[a]) + 1 /\ pipe'[a][j] = s
      BY <1>2, <2>1, <3>2 DEF Offers
    <3>3. CASE pipe'[a][j] = t
      BY <1>2, <2>1, <3>3 DEF Offers
    <3> QED  BY <1>4, <3>1, <3>2, <3>3
  <2>2. CASE i \in 1..Len(pipe[a])
    <3>1. /\ Offers(pipe[a][i], b) /\ pipe[a][i].data.n = n /\ n \in Nat /\ n <= offers
      BY <1>4, <2>1, <2>2
    <3>2. /\ \A j \in 1..Len(pipe[a]) : Offers(pipe[a][j], b) /\ pipe[a][j].data.n = n => i = j
          /\ ~Took(voice[a], b, n) /\ ~Said(voice[b], pipe[b], a, n)
      BY <2>2, <3>1 DEF VoiceInv, OffersComeOnce
    <3> HIDE DEF n
    <3>3. ASSUME NEW j \in 1..Len(pipe'[a]), Offers(pipe'[a][j], b), pipe'[a][j].data.n = n
          PROVE  i = j
      BY <1>1, <1>2, <2>1, <3>1, <3>2, <3>3
    <3>4. ~Took(voice'[a], b, n)
      BY <1>6, <3>1, <3>2
    <3>5. ~(b = q /\ a = p /\ d.sends /\ n = d.n)
      <4> SUFFICES ASSUME b = q, a = p, n = d.n PROVE FALSE
        OBVIOUS
      <4>1. CASE kind = "offer"
        BY <1>1, <3>1, <4>1
      <4>2. CASE kind = "answer"
        BY <3>2, <4>2 DEF Took
      <4> QED  BY <4>1, <4>2
    <3>6. ~Said(voice'[b], pipe'[b], a, n)
      BY <1>8, <3>1, <3>2, <3>5
    <3> QED  BY <3>3, <3>4, <3>6 DEF n
  <2>3. CASE a = q /\ b = p /\ kind = "offer" /\ i = Len(pipe[a]) + 1 /\ pipe'[a][i] = s
    <3>1. n = offers + 1 /\ offers' = offers + 1
      BY <1>2, <2>3
    <3> HIDE DEF n
    <3>2. ASSUME NEW j \in 1..Len(pipe'[a]), Offers(pipe'[a][j], b), pipe'[a][j].data.n = n
          PROVE  i = j
      BY <1>1, <2>1, <2>3, <3>1, <3>2
    <3>3. ~Took(voice'[a], b, n)
      <4>1. voice'[a] = voice[a] /\ IsObject(a, voice[a], offers)
        BY <1>1, <2>3 DEF OnlyOf, VoiceTyped
      <4>2. b \in DOMAIN voice[a].peers => voice[a].peers[b].remote.n \in Nat /\ voice[a].peers[b].remote.n <= offers
        BY <4>1 DEF IsObject, Peer
      <4> QED  BY <1>1, <3>1, <4>1, <4>2 DEF Took
    <3>4. ~Said(voice'[b], pipe'[b], a, n)
      BY <1>1, <1>7, <1>8, <2>3, <3>1
    <3> QED  BY <3>2, <3>3, <3>4 DEF n
  <2> QED  BY <2>1, <2>2, <2>3
<1>13. LeftAreNoMembers'
  BY <1>5 DEF VoiceInv, LeftAreNoMembers
<1>14. LeavesFollow'
  <2> SUFFICES ASSUME NEW a \in Speakers, NEW b \in Speakers, Left(b)', link'[a] # "lost"
               PROVE  /\ (\E n \in Nat : Believes(voice'[a], b, n)) =>
                           \E j \in 1..Len(pipe'[a]) : Leaves(pipe'[a][j], b)
                      /\ \A i \in 1..Len(pipe'[a]) : Claims(pipe'[a][i], b) =>
                           \E j \in (i + 1)..Len(pipe'[a]) : Leaves(pipe'[a][j], b)
    BY DEF LeavesFollow
  <2>1. Left(b) /\ link[a] # "lost"
    BY <1>5
  <2>2. ASSUME NEW n \in Nat, Believes(voice'[a], b, n)
        PROVE  \E j \in 1..Len(pipe'[a]) : Leaves(pipe'[a][j], b)
    <3>1. Believes(voice[a], b, n)
      BY <1>6, <2>2
    <3>2. PICK j \in 1..Len(pipe[a]) : Leaves(pipe[a][j], b)
      BY <2>1, <3>1 DEF VoiceInv, LeavesFollow
    <3>3. j \in 1..Len(pipe'[a]) /\ pipe'[a][j] = pipe[a][j]
      BY <1>4
    <3> QED  BY <3>2, <3>3
  <2>3. ASSUME NEW i \in 1..Len(pipe'[a]), Claims(pipe'[a][i], b)
        PROVE  \E j \in (i + 1)..Len(pipe'[a]) : Leaves(pipe'[a][j], b)
    <3>1. ~(b = p /\ d.sends)
      BY <1>1, <1>9, <2>1 DEF Left, Gone, Silent, IsObject
    <3>2. i \in 1..Len(pipe[a])
      BY <1>2, <1>4, <2>3, <3>1 DEF Claims
    <3>3. Claims(pipe[a][i], b)
      BY <1>4, <2>3, <3>2
    <3>4. PICK j \in (i + 1)..Len(pipe[a]) : Leaves(pipe[a][j], b)
      BY <2>1, <3>2, <3>3 DEF VoiceInv, LeavesFollow
    <3>5. j \in (i + 1)..Len(pipe'[a]) /\ pipe'[a][j] = pipe[a][j]
      BY <1>4, <3>2
    <3> QED  BY <3>4, <3>5
  <2> QED  BY <2>2, <2>3
<1>15. LinksTyped'
  <2>1. ASSUME NEW r \in Speakers PROVE LinkTyped(r)'
    <3>1. LinkTyped(r) /\ DOMAIN pipe = Speakers
      BY <1>1 DEF VoiceInv, LinksTyped, VoiceTyped
    <3>2. link[r] \in {"lost", "off"} => pipe'[r] = pipe[r]
      BY <3>1 DEF Told, V!Reached
    <3> QED  BY <1>5, <3>1, <3>2 DEF LinkTyped
  <2> QED  BY <2>1 DEF VoiceInv, LinksTyped
<1> QED  BY <1>10, <1>11, <1>12, <1>13, <1>14, <1>15 DEF VoiceInv

\* Only the list of what p's handlers have still to do changes.
LEMMA WorkChanges ==
    ASSUME VoiceInv, NEW p \in Speakers, voice[p].shown, NEW list,
           voice' = [voice EXCEPT ![p] = [voice[p] EXCEPT !.work = list]],
           UNCHANGED <<won, members, orphans, pipe, link, outbox, unsaid, offers>>
    PROVE  VoiceInv'
<1>1. /\ IsObject(p, voice[p], offers) /\ DOMAIN voice = Speakers /\ DOMAIN voice[p] = ObjectFields
      /\ DOMAIN orphans' = Speakers
      /\ \A q \in Speakers : DOMAIN orphans'[q] = {"asks", "mics"} /\ orphans'[q].asks \in Nat
      /\ link[p] # "off"
  BY DEF VoiceInv, VoiceTyped, IsObject, LinksTyped, LinkTyped
<1>2. /\ OnlyOf(p) /\ DOMAIN voice'[p] = ObjectFields /\ voice'[p].shown = voice[p].shown
      /\ voice'[p].asks = voice[p].asks /\ voice'[p].mics = voice[p].mics
      /\ voice'[p].peers = voice[p].peers
  BY <1>1 DEF OnlyOf, ObjectFields
<1>3. IsObject(p, voice'[p], offers)
  BY <1>1, <1>2 DEF IsObject
<1> QED  BY <1>1, <1>2, <1>3, NothingSaid

\* The rest of a handler fails: it is done with, and nothing is sent.
LEMMA WorkDone ==
    ASSUME VoiceInv, NEW p \in Speakers, NEW w \in voice[p].work,
           voice' = [voice EXCEPT ![p] = V!Done(voice[p], w)],
           UNCHANGED <<won, members, orphans, pipe, link, outbox, unsaid, offers>>
    PROVE  VoiceInv'
<1>1. voice[p].shown
  BY DEF VoiceInv, VoiceTyped, IsObject
<1>2. V!Done(voice[p], w) = [voice[p] EXCEPT !.work = voice[p].work \ {w}]
  BY DEF V!Done
<1> QED  BY <1>1, <1>2, WorkChanges

\* A failed connection asks for an offer.
LEMMA ReconnectKeeps ==
    ASSUME VoiceInv, NEW p \in Speakers, NEW q \in DOMAIN voice[p].peers, V!Reconnect(p, q)
    PROVE  VoiceInv'
<1>1. voice[p].shown
  BY DEF VoiceInv, VoiceTyped, IsObject
<1>2. voice' = [voice EXCEPT ![p] = [voice[p] EXCEPT !.work = V!Later(p, "offer", q)]]
  BY DEF V!Reconnect
<1>3. UNCHANGED <<won, members, orphans, pipe, link, outbox, unsaid, offers>>
  BY DEF V!Reconnect, V!Links
<1> QED  BY <1>1, <1>2, <1>3, WorkChanges

\* createOffer: the number is fresh, nobody uses it or was told of it.
LEMMA OfferKeeps ==
    ASSUME VoiceInv, NEW p \in Speakers, NEW w \in voice[p].work, V!SendOffer(p, w)
    PROVE  VoiceInv'
<1> DEFINE q == w.peer
           pc == voice[p].peers[q]
           stands == q \in DOMAIN voice[p].peers /\ pc.state # "have-remote"
           d == [n |-> offers + 1, sends |-> pc.track]
           new == [pc EXCEPT !.state = "have-local", !.own = offers + 1]
<1>1. CASE ~stands
  <2>1. /\ voice' = [voice EXCEPT ![p] = V!Done(voice[p], w)]
        /\ UNCHANGED <<won, members, orphans, pipe, link, outbox, unsaid, offers>>
    BY <1>1 DEF V!SendOffer, V!Links
  <2> QED  BY <2>1, WorkDone
<1>2. CASE stands
  <2>1. /\ IsObject(p, voice[p], offers) /\ DOMAIN voice = Speakers /\ DOMAIN pipe = Speakers
        /\ offers \in Nat
    BY DEF VoiceInv, VoiceTyped
  <2>2. /\ DOMAIN voice[p] = ObjectFields /\ q \in DOMAIN voice[p].peers /\ q \in Speakers \ {p}
        /\ pc \in Peer /\ voice[p].mics \in Nat /\ voice[p].shown /\ (pc.track => voice[p].mics > 0)
        /\ pc.remote.n <= offers /\ pc.session.n <= offers
    BY <1>2, <2>1 DEF IsObject
  <2>3. /\ voice' = [voice EXCEPT ![p] = V!Put(V!Done(voice[p], w), q, new)]
        /\ V!Tell(p, q, "offer", d) /\ offers' = offers + 1
        /\ UNCHANGED <<won, members, orphans, link, outbox, unsaid>>
    BY <1>2 DEF V!SendOffer, V!Tell, V!Links
  <2>4. /\ new \in Peer /\ new.own = offers + 1 /\ new.track = pc.track
        /\ new.remote = pc.remote /\ new.session = pc.session
    <3>1. offers + 1 \in Nat
      BY <2>1
    <3> QED  BY <2>2, <3>1 DEF Peer
  <2>5. Told(q, V!Signal(p, "offer", d), V!Signal(p, "ice", V!NoSession))
    BY <2>3 DEF V!Tell, Told
  <2>6. d \in Offered /\ d.n = offers + 1 /\ d.sends = pc.track
    BY <2>1, <2>2 DEF Offered, Peer
  <2> HIDE DEF d, new
  <2>7. /\ OnlyOf(p) /\ DOMAIN voice'[p] = ObjectFields /\ voice'[p].shown = voice[p].shown
        /\ voice'[p].asks = voice[p].asks /\ voice'[p].mics = voice[p].mics
        /\ voice'[p].peers = [voice[p].peers EXCEPT ![q] = new]
    BY <2>1, <2>2, <2>3 DEF V!Put, V!Done, OnlyOf, ObjectFields
  <2>8. /\ DOMAIN voice'[p].peers = DOMAIN voice[p].peers /\ voice'[p].peers[q] = new
        /\ \A r \in DOMAIN voice[p].peers : r # q => voice'[p].peers[r] = voice[p].peers[r]
    BY <2>2, <2>7
  <2>9. IsObject(p, voice'[p], offers')
    <3>1. ASSUME NEW r \in DOMAIN voice[p].peers
          PROVE  /\ voice'[p].peers[r] \in Peer /\ (voice'[p].peers[r].track => voice[p].mics > 0)
                 /\ voice'[p].peers[r].own <= offers' /\ voice'[p].peers[r].remote.n <= offers'
                 /\ voice'[p].peers[r].session.n <= offers'
      <4>1. CASE r = q
        <5>1. pc.remote.n \in Nat /\ pc.session.n \in Nat
          BY <2>2 DEF Peer
        <5> QED  BY <2>1, <2>2, <2>3, <2>4, <2>8, <4>1, <5>1
      <4>2. CASE r # q
        <5>1. /\ voice[p].peers[r] \in Peer /\ (voice[p].peers[r].track => voice[p].mics > 0)
              /\ voice[p].peers[r].own <= offers /\ voice[p].peers[r].remote.n <= offers
              /\ voice[p].peers[r].session.n <= offers
          BY <2>1 DEF IsObject
        <5>2. /\ voice[p].peers[r].own \in Nat /\ voice[p].peers[r].remote.n \in Nat
              /\ voice[p].peers[r].session.n \in Nat
          BY <5>1 DEF Peer
        <5> QED  BY <2>1, <2>3, <2>8, <4>2, <5>1, <5>2
      <4> QED  BY <4>1, <4>2
    <3> QED  BY <2>1, <2>2, <2>7, <2>8, <3>1 DEF IsObject
  <2>10. \A n \in Nat : Believes(voice'[p], q, n) => Believes(voice[p], q, n)
    BY <2>2, <2>4, <2>8 DEF Believes
  <2>11. \A n \in Nat : Uses(voice'[p], q, n) => Uses(voice[p], q, n) \/ n = d.n
    BY <2>2, <2>4, <2>6, <2>8 DEF Uses
  <2>12. \A r : r # q => /\ r \in DOMAIN voice'[p].peers <=> r \in DOMAIN voice[p].peers
                         /\ r \in DOMAIN voice[p].peers => voice'[p].peers[r] = voice[p].peers[r]
    BY <2>8
  <2>13. voice[p].peers[q].remote.n = voice'[p].peers[q].remote.n
    BY <2>4, <2>8
  <2> QED  BY <2>2, <2>3, <2>5, <2>6, <2>7, <2>9, <2>10, <2>11, <2>12, <2>13, SendKeeps
<1> QED  BY <1>1, <1>2

\* createAnswer: it says of the offer taken what the offerer was promised.
LEMMA AnswerKeeps ==
    ASSUME VoiceInv, NEW p \in Speakers, NEW w \in voice[p].work, V!SendAnswer(p, w)
    PROVE  VoiceInv'
<1> DEFINE q == w.peer
           pc == voice[p].peers[q]
           stands == q \in DOMAIN voice[p].peers /\ pc.state = "have-remote"
           mine == pc.track /\ pc.remote.sends
           d == [n |-> pc.remote.n, sends |-> mine]
           new == [pc EXCEPT !.state = "stable",
                    !.session = [n |-> pc.remote.n, mine |-> mine, theirs |-> pc.remote.sends]]
<1>1. CASE ~stands
  <2>1. /\ voice' = [voice EXCEPT ![p] = V!Done(voice[p], w)]
        /\ UNCHANGED <<won, members, orphans, pipe, link, outbox, unsaid, offers>>
    BY <1>1 DEF V!SendAnswer, V!Links
  <2> QED  BY <2>1, WorkDone
<1>2. CASE stands
  <2>1. /\ IsObject(p, voice[p], offers) /\ DOMAIN voice = Speakers /\ DOMAIN pipe = Speakers
        /\ offers \in Nat
    BY DEF VoiceInv, VoiceTyped
  <2>2. /\ DOMAIN voice[p] = ObjectFields /\ q \in DOMAIN voice[p].peers /\ q \in Speakers \ {p}
        /\ pc \in Peer /\ voice[p].mics \in Nat /\ voice[p].shown /\ (pc.track => voice[p].mics > 0)
        /\ pc.own <= offers /\ pc.remote.n <= offers
    BY <1>2, <2>1 DEF IsObject
  <2>3. /\ voice' = [voice EXCEPT ![p] = V!Put(V!Done(voice[p], w), q, new)]
        /\ V!Tell(p, q, "answer", d) /\ offers' = offers
        /\ UNCHANGED <<won, members, orphans, link, outbox, unsaid>>
    BY <1>2 DEF V!SendAnswer, V!Tell, V!Links
  <2>4. mine \in BOOLEAN /\ (mine => pc.track)
    BY <2>2 DEF Peer
  <2> HIDE DEF mine
  <2>5. /\ new \in Peer /\ new.own = pc.own /\ new.track = pc.track /\ new.remote = pc.remote
        /\ new.session.n = pc.remote.n /\ new.session.theirs = pc.remote.sends
    BY <2>2, <2>4 DEF Peer
  <2>6. Told(q, V!Signal(p, "answer", d), V!Signal(p, "ice", V!NoSession))
    BY <2>3 DEF V!Tell, Told
  <2>7. d \in Offered /\ d.n = pc.remote.n /\ d.sends = mine
    BY <2>2, <2>4 DEF Offered, Peer
  <2> HIDE DEF d, new
  <2>8. /\ OnlyOf(p) /\ DOMAIN voice'[p] = ObjectFields /\ voice'[p].shown = voice[p].shown
        /\ voice'[p].asks = voice[p].asks /\ voice'[p].mics = voice[p].mics
        /\ voice'[p].peers = [voice[p].peers EXCEPT ![q] = new]
    BY <2>1, <2>2, <2>3 DEF V!Put, V!Done, OnlyOf, ObjectFields
  <2>9. /\ DOMAIN voice'[p].peers = DOMAIN voice[p].peers /\ voice'[p].peers[q] = new
        /\ \A r \in DOMAIN voice[p].peers : r # q => voice'[p].peers[r] = voice[p].peers[r]
    BY <2>2, <2>8
  <2>10. IsObject(p, voice'[p], offers')
    <3>1. ASSUME NEW r \in DOMAIN voice[p].peers
          PROVE  /\ voice'[p].peers[r] \in Peer /\ (voice'[p].peers[r].track => voice[p].mics > 0)
                 /\ voice'[p].peers[r].own <= offers' /\ voice'[p].peers[r].remote.n <= offers'
                 /\ voice'[p].peers[r].session.n <= offers'
      <4>1. CASE r = q
        BY <2>2, <2>3, <2>5, <2>9, <4>1
      <4>2. CASE r # q
        BY <2>1, <2>3, <2>9, <4>2 DEF IsObject
      <4> QED  BY <4>1, <4>2
    <3> QED  BY <2>1, <2>2, <2>8, <2>9, <3>1 DEF IsObject
  <2>11. \A n \in Nat : Believes(voice'[p], q, n) => Believes(voice[p], q, n)
    BY <2>2, <2>5, <2>9 DEF Believes
  <2>12. \A n \in Nat : Uses(voice'[p], q, n) => Uses(voice[p], q, n)
    BY <2>2, <2>5, <2>9 DEF Uses
  <2>13. \A r : r # q => /\ r \in DOMAIN voice'[p].peers <=> r \in DOMAIN voice[p].peers
                         /\ r \in DOMAIN voice[p].peers => voice'[p].peers[r] = voice[p].peers[r]
    BY <2>9
  <2>14. voice[p].peers[q].remote.n = voice'[p].peers[q].remote.n
    BY <2>5, <2>9
  <2> QED  BY <2>2, <2>3, <2>4, <2>6, <2>7, <2>8, <2>10, <2>11, <2>12, <2>13, <2>14, SendKeeps
<1> QED  BY <1>1, <1>2

\* Every step of voice keeps the invariant.
LEMMA VoiceKept == Spec => [](part = "voice" => VoiceInv)
<1>1. Init => (part = "voice" => VoiceInv)
  BY VoiceStarts DEF Init
<1>2. ASSUME part = "voice" => VoiceInv, [Next]_vars
      PROVE  (part = "voice" => VoiceInv)'
  <2> SUFFICES ASSUME part' = "voice" PROVE VoiceInv'
    OBVIOUS
  <2>1. CASE part = "voice" /\ V!Next
    <3>1. PICK p \in Speakers :
            \/ V!Show(p) \/ V!Enable(p) \/ V!Granted(p) \/ V!Denied(p) \/ V!GrantedLate(p)
            \/ V!Hide(p) \/ V!Win(p) \/ V!Receive(p)
            \/ V!Lapse(p) \/ V!Resume(p) \/ V!Break(p) \/ V!Notice(p) \/ V!Forget(p)
            \/ V!Rejoin(p) \/ V!Flush(p)
            \/ \E q \in DOMAIN voice[p].peers : V!Reconnect(p, q)
            \/ \E w \in voice[p].work : V!SendOffer(p, w) \/ V!SendAnswer(p, w)
      BY <2>1 DEF V!Next
    <3> QED  BY <1>2, <2>1, <3>1, ControlsKeep, GrantKeeps, HideKeeps, ReceiveKeeps, SeatKeeps,
            BreakKeeps, NoticeKeeps, FlushKeeps, ReconnectKeeps, OfferKeeps, AnswerKeeps
  <2>2. CASE part = "voice" /\ UNCHANGED voiceVars
    BY <1>2, <2>2 DEF voiceVars, VoiceInv, VoiceTyped, LinksTyped, LinkTyped, ClaimsAreBacked,
                      OffersComeOnce, LeftAreNoMembers, LeavesFollow, Left, Gone, Silent
  <2>3. part = "voice"
    BY <1>2 DEF Next, vars
  <2> QED  BY <1>2, <2>1, <2>2, <2>3 DEF Next, vars
<1> QED  BY <1>1, <1>2, PTL DEF Spec

\* Whoever is heard has controls and an open microphone, however late signals
\* arrive; and who hid them is forgotten once all have arrived and lost connections
\* are noticed, unless the last leave was lost with a connection or refused because
\* another device had control (voice.ts dispose, room.go handleVoice).
THEOREM VoiceEnds == Spec => []VoiceEndsWithItsControls
<1>1. ASSUME VoiceInv PROVE V!NobodyIsOverheard
  <2> SUFFICES ASSUME NEW p \in Speakers, NEW q \in Speakers, V!Hears(p, q)
               PROVE  voice[q].shown /\ voice[q].mics > 0
    BY DEF V!NobodyIsOverheard, V!Streaming
  <2> DEFINE n == voice[p].peers[q].session.n
  <2>1. /\ IsObject(p, voice[p], offers) /\ IsObject(q, voice[q], offers)
    BY <1>1 DEF VoiceInv, VoiceTyped
  <2>2. n \in Nat /\ Believes(voice[p], q, n) /\ Uses(voice[q], p, n)
    BY <2>1 DEF V!Hears, V!Connected, V!Known, IsObject, Peer, Believes, Uses
  <2>3. voice[q].mics > 0
    BY <1>1, <2>2 DEF VoiceInv, ClaimsAreBacked, Said
  <2> QED  BY <2>1, <2>3 DEF IsObject
<1>2. ASSUME VoiceInv PROVE V!LeaversAreForgotten
  <2> SUFFICES ASSUME V!Settled, NEW q \in Speakers, ~(voice[q].mics > 0), q \notin won,
                      ~(orphans[q].mics > 0), q \notin unsaid
               PROVE  /\ q \notin members
                      /\ \A p \in Speakers : V!Known(p, q) => ~voice[p].peers[q].session.theirs
    BY DEF V!LeaversAreForgotten, V!Streaming
  <2>1. Left(q)
    <3>1. voice[q].mics \in Nat /\ orphans[q].mics \in Nat /\ outbox[q] = << >>
      BY <1>2 DEF VoiceInv, VoiceTyped, IsObject, V!Settled
    <3> QED  BY <3>1 DEF Silent, Gone, Left
  <2>2. q \notin members
    BY <1>2, <2>1 DEF VoiceInv, LeftAreNoMembers
  <2>3. ASSUME NEW p \in Speakers, V!Known(p, q), voice[p].peers[q].session.theirs PROVE FALSE
    <3> DEFINE n == voice[p].peers[q].session.n
    <3>1. n \in Nat /\ Believes(voice[p], q, n)
      BY <1>2, <2>3 DEF VoiceInv, VoiceTyped, IsObject, Peer, V!Known, Believes
    <3>2. \E j \in 1..Len(pipe[p]) : Leaves(pipe[p][j], q)
      <4>1. link[p] # "lost"
        BY DEF V!Settled
      <4> QED  BY <1>2, <2>1, <3>1, <4>1 DEF VoiceInv, LeavesFollow
    <3>3. Len(pipe[p]) = 0
      BY EmptySeq DEF V!Settled
    <3> QED  BY <3>2, <3>3
  <2> QED  BY <2>2, <2>3
<1>3. (part = "voice" => VoiceInv) => VoiceEndsWithItsControls
  BY <1>1, <1>2 DEF VoiceEndsWithItsControls
<1> QED  BY <1>3, VoiceKept, PTL

-----------------------------------------------------------------------------
(* The cards that fly. *)

Phases  == {"lobby", "playing", "finished"}
Sides   == G!Players \cup {"none"}
Tables  == [phase : Phases, hand : [G!Players -> SUBSET Cards], pile : SUBSET Cards,
            by : Sides, returned : SUBSET G!Players]
Scenes  == [phase : Phases, hand : SUBSET Cards, pile : Nat, returned : SUBSET G!Players]
Sights  == [phase : Phases, hand : SUBSET Cards, pile : Nat]
Message == [type : {"state", "challenge", "won"}, phase : Phases, hand : SUBSET Cards,
            pile : Nat, returned : SUBSET G!Players, to : Sides]
PickUps == [to : Sides, count : Nat]

\* A pile has somebody who played on it, and a match that is played is not over
\* for anybody.
TableFine(r) ==
    /\ r \in Tables
    /\ r.pile # {} => r.by \in G!Players
    /\ r.phase = "playing" => r.returned = {}

FlightTypes ==
    /\ TableFine(table)
    /\ messages \in Seq(Message) /\ view \in Scenes /\ pickup \in PickUps
    /\ piles \in Seq(PickUps) /\ shown \in Seq(PickUps)
    /\ hasty \in BOOLEAN /\ drops \in Nat

\* What is seen of the game, there and here; not who has returned.
SightOf(m) == [phase |-> m.phase, hand |-> m.hand, pile |-> m.pile]

\* The cards are counted in the same way there and here.
LEMMA SameCardinality == \A A : G!Cardinality(A) = Cardinality(A)
BY DEF G!Cardinality, Cardinality

LEMMA CardSets ==
    ASSUME NEW A \in SUBSET Cards
    PROVE  /\ IsFiniteSet(A) /\ Cardinality(A) \in Nat
           /\ Cardinality(A) = 0 <=> A = {}
           /\ \A B \in SUBSET A : IsFiniteSet(B) /\ Cardinality(B) \in Nat
                                  /\ Cardinality(B) <= Cardinality(A)
<1>1. IsFiniteSet(A)
  BY CardsAreFinite, FS_Subset
<1>2. Cardinality(A) \in Nat
  BY <1>1, FS_CardinalityType
<1>3. Cardinality(A) = 0 <=> A = {}
  BY <1>1, FS_EmptySet
<1>4. ASSUME NEW B \in SUBSET A
      PROVE  IsFiniteSet(B) /\ Cardinality(B) \in Nat /\ Cardinality(B) <= Cardinality(A)
  <2>1. IsFiniteSet(B) /\ Cardinality(B) <= Cardinality(A)
    BY <1>1, FS_Subset
  <2> QED  BY <2>1, FS_CardinalityType
<1> QED  BY <1>1, <1>2, <1>3, <1>4

LEMMA RoomMessages ==
    ASSUME NEW r \in Tables, NEW p \in G!Players
    PROVE  /\ G!State(r) \in Message /\ G!State(r).type = "state"
           /\ SightOf(G!State(r)) = [phase |-> r.phase, hand |-> r.hand["me"],
                                     pile |-> Cardinality(r.pile)]
           /\ G!State(r).returned = r.returned
           /\ G!Won(r) \in Message /\ G!Won(r).type = "won" /\ G!Won(r).returned = r.returned
           /\ G!Result(r, p) \in Message /\ G!Result(r, p).type = "challenge"
           /\ G!Result(r, p).to = p
<1>1. r.hand["me"] \in SUBSET Cards /\ Cardinality(r.pile) \in Nat
  BY CardSets DEF Tables, G!Players
<1>2. r.phase \in Phases /\ r.returned \in SUBSET G!Players
  BY DEF Tables
<1>3. G!State(r) \in Message /\ G!State(r).type = "state"
  BY <1>1, <1>2, SameCardinality DEF G!State, Message, Sides
<1>4. SightOf(G!State(r)) = [phase |-> r.phase, hand |-> r.hand["me"],
                             pile |-> Cardinality(r.pile)]
     /\ G!State(r).returned = r.returned
  BY SameCardinality DEF SightOf, G!State
<1>5. G!Won(r) \in Message /\ G!Won(r).type = "won" /\ G!Won(r).returned = r.returned
  BY <1>3, <1>4 DEF G!Won, Message
<1>6. /\ G!Result(r, p) \in Message /\ G!Result(r, p).type = "challenge"
      /\ G!Result(r, p).to = p
  BY <1>3 DEF G!Result, Message, Sides
<1> QED  BY <1>3, <1>4, <1>5, <1>6

\* What the moves of the room do to the table, and what is told of them.
LEMMA DealTable ==
    ASSUME FlightTypes, G!Deal
    PROVE  /\ TableFine(table') /\ table'.phase = "playing" /\ table'.pile = {}
           /\ messages' = messages \o <<G!State(table')>>
<1>1. PICK H \in SUBSET Cards :
        table' = [phase |-> "playing",
                  hand |-> [p \in G!Players |-> IF p = "me" THEN H ELSE Cards \ H],
                  pile |-> {}, by |-> "none", returned |-> {}]
  BY DEF G!Deal
<1>2. [p \in G!Players |-> IF p = "me" THEN H ELSE Cards \ H] \in [G!Players -> SUBSET Cards]
  OBVIOUS
<1>3. table' \in Tables
  BY <1>1, <1>2 DEF Tables, Phases, Sides
<1> QED  BY <1>1, <1>3 DEF G!Deal, G!Tell, TableFine

LEMMA PlayTable ==
    ASSUME FlightTypes, NEW p \in G!Players, NEW X \in SUBSET table.hand[p], G!Play(p, X)
    PROVE  /\ TableFine(table') /\ table.phase = "playing"
           /\ table'.phase \in {"playing", "finished"} /\ table'.returned = {}
           /\ messages' = messages \o (IF table'.phase = "finished"
                                         THEN <<G!Won(table'), G!State(table')>>
                                         ELSE <<G!State(table')>>)
<1>1. table \in Tables /\ table.phase = "playing" /\ table.returned = {}
  BY DEF FlightTypes, TableFine, G!Play
<1>2. /\ table'.phase \in {"playing", "finished"} /\ table'.by = p
      /\ table'.returned = table.returned /\ table'.pile = table.pile \cup X
      /\ table'.hand = [table.hand EXCEPT ![p] = table.hand[p] \ X]
      /\ table' = [phase |-> table'.phase, hand |-> table'.hand, pile |-> table'.pile,
                   by |-> table'.by, returned |-> table'.returned]
  BY <1>1 DEF G!Play, Tables
<1>3. table'.hand \in [G!Players -> SUBSET Cards] /\ table'.pile \in SUBSET Cards
  BY <1>1, <1>2 DEF Tables
<1>4. table' \in Tables
  BY <1>1, <1>2, <1>3 DEF Tables, Phases, Sides
<1> QED  BY <1>1, <1>2, <1>4 DEF TableFine, G!Play, G!Tell

\* The loser of a challenge takes the pile up: nobody else gets cards, and those
\* that are new in a hand were in the pile.
LEMMA ChallengeTable ==
    ASSUME FlightTypes, NEW bluff \in BOOLEAN, G!Challenge(bluff)
    PROVE  \E loser \in G!Players :
             /\ TableFine(table') /\ table.phase = "playing" /\ table.pile # {}
             /\ table'.phase \in {"playing", "finished"} /\ table'.returned = {}
             /\ table'.pile = {}
             /\ piles' = Append(piles, [to |-> loser, count |-> Cardinality(table.pile)])
             /\ messages' = messages
                  \o ((IF table'.phase = "finished" THEN <<G!Won(table')>> ELSE <<>>)
                        \o <<G!Result(table, loser), G!State(table')>>)
             /\ table'.hand["me"] \subseteq table.hand["me"]
                  \/ (loser = "me" /\ table'.hand["me"] = table.hand["me"] \cup table.pile)
<1> DEFINE maker == table.by
           ends  == ~bluff /\ table.hand[maker] = {}
<1>1. table \in Tables /\ table.phase = "playing" /\ table.returned = {} /\ table.pile # {}
      /\ maker \in G!Players
  BY DEF FlightTypes, TableFine, G!Challenge
<1>2. PICK loser : loser = IF bluff THEN maker ELSE G!Other(maker)
  OBVIOUS
<1>3. loser \in G!Players
  BY <1>1, <1>2 DEF G!Other, G!Players
<1>4. /\ table' = [table EXCEPT !.hand[loser] = @ \cup table.pile, !.pile = {}, !.by = "none",
                                !.phase = IF ends THEN "finished" ELSE @]
      /\ piles' = Append(piles, [to |-> loser, count |-> Cardinality(table.pile)])
      /\ messages' = messages
           \o ((IF ends THEN <<G!Won(table')>> ELSE <<>>) \o <<G!Result(table, loser), G!State(table')>>)
  BY <1>2, SameCardinality DEF G!Challenge, G!Tell
<1> HIDE DEF ends, maker
<1>5. /\ table'.phase = IF ends THEN "finished" ELSE "playing"
      /\ table'.by = "none" /\ table'.returned = table.returned /\ table'.pile = {}
      /\ table'.hand = [table.hand EXCEPT ![loser] = table.hand[loser] \cup table.pile]
      /\ table' = [phase |-> table'.phase, hand |-> table'.hand, pile |-> table'.pile,
                   by |-> table'.by, returned |-> table'.returned]
  BY <1>1, <1>4 DEF Tables
<1>6. table'.hand \in [G!Players -> SUBSET Cards]
  BY <1>1, <1>5 DEF Tables
<1>7. TableFine(table')
  BY <1>1, <1>5, <1>6 DEF Tables, Phases, Sides, TableFine
<1>8. table'.hand["me"] \subseteq table.hand["me"]
        \/ (loser = "me" /\ table'.hand["me"] = table.hand["me"] \cup table.pile)
  BY <1>1, <1>3, <1>5 DEF Tables, G!Players
<1>9. ends <=> table'.phase = "finished"
  BY <1>5
<1> QED  BY <1>1, <1>3, <1>4, <1>5, <1>7, <1>8, <1>9

LEMMA BurnTable ==
    ASSUME FlightTypes, G!Burn
    PROVE  /\ TableFine(table') /\ table'.phase = "playing" /\ table'.pile = {}
           /\ messages' = messages \o <<G!State(table')>>
<1>1. table \in Tables /\ table.phase = "playing" /\ table.returned = {}
  BY DEF FlightTypes, TableFine, G!Burn
<1>2. table' \in Tables /\ table'.phase = "playing" /\ table'.returned = {} /\ table'.pile = {}
  BY <1>1 DEF G!Burn, Tables, Sides
<1> QED  BY <1>2 DEF TableFine, G!Burn, G!Tell

LEMMA ConfirmTable ==
    ASSUME FlightTypes, G!Confirm
    PROVE  /\ TableFine(table') /\ table.phase = "playing"
           /\ table'.phase = "finished" /\ table'.returned = {}
           /\ messages' = messages \o <<G!Won(table'), G!State(table')>>
<1>1. table \in Tables /\ table.phase = "playing" /\ table.returned = {}
      /\ (table.pile # {} => table.by \in G!Players)
  BY DEF FlightTypes, TableFine, G!Confirm
<1>2. /\ table' \in Tables /\ table'.phase = "finished" /\ table'.returned = {}
      /\ table'.pile = table.pile /\ table'.by = table.by
  BY <1>1 DEF G!Confirm, Tables, Phases
<1> QED  BY <1>1, <1>2 DEF TableFine, G!Confirm, G!Tell

LEMMA ReturnTable ==
    ASSUME FlightTypes, G!Return
    PROVE  /\ TableFine(table') /\ table'.phase = "finished" /\ "me" \in table'.returned
           /\ messages' = messages \o <<G!State(table')>>
<1>1. table \in Tables /\ table.phase = "finished"
      /\ (table.pile # {} => table.by \in G!Players)
  BY DEF FlightTypes, TableFine, G!Return
<1>2. /\ table' \in Tables /\ table'.phase = "finished" /\ "me" \in table'.returned
      /\ table'.pile = table.pile /\ table'.by = table.by
  BY <1>1 DEF G!Return, Tables, G!Players
<1> QED  BY <1>1, <1>2 DEF TableFine, G!Return, G!Tell

LEMMA OtherReturnTable ==
    ASSUME FlightTypes, G!OtherReturns
    PROVE  /\ TableFine(table') /\ table'.phase = "finished"
           /\ "me" \in table'.returned <=> "me" \in table.returned
           /\ messages' = messages \o <<G!State(table')>>
<1>1. table \in Tables /\ table.phase = "finished"
      /\ (table.pile # {} => table.by \in G!Players)
  BY DEF FlightTypes, TableFine, G!OtherReturns
<1>2. /\ table' \in Tables /\ table'.phase = "finished"
      /\ table'.returned = table.returned \cup {"other"}
      /\ table'.pile = table.pile /\ table'.by = table.by
  BY <1>1 DEF G!OtherReturns, Tables, G!Players
<1>3. "me" # "other"
  OBVIOUS
<1> QED  BY <1>1, <1>2, <1>3 DEF TableFine, G!OtherReturns, G!Tell
-----------------------------------------------------------------------------
\* What the page has when it has received so much of what is under way: what it
\* shows, how many challenge results it has seen, and whether the state that goes
\* with the last of them is still to come.
Snaps == [view : Sights, n : Nat, owed : BOOLEAN]

\* What a message does to that; P are the piles picked up.  All that is said when
\* something was dropped is that a message brings at most one result.
Brings(s, m, t, P, exact) ==
    /\ t.n = s.n + (IF m.type = "challenge" THEN 1 ELSE 0)
    /\ exact =>
         \/ /\ m.type = "state" /\ t.view = SightOf(m) /\ ~t.owed
            /\ s.owed => /\ m.pile = 0 /\ G!Table(m) /\ s.n >= 1
                         /\ P[s.n].to = "me" => Cardinality(m.hand \ s.view.hand) <= s.view.pile
         \/ /\ m.type = "challenge" /\ ~s.owed /\ t.owed /\ t.view = s.view
            /\ s.view.pile > 0 /\ P[t.n] = [to |-> m.to, count |-> s.view.pile]
         \/ /\ m.type = "won" /\ ~s.owed /\ ~t.owed
            /\ t.view = [s.view EXCEPT !.phase = "finished"]
            /\ s.view.phase = "playing" /\ m.returned = {}

\* The messages q lead from s to t.
Leads(s, q, t, P, exact) ==
    \E way \in [0..Len(q) -> Snaps] :
      /\ way[0] = s /\ way[Len(q)] = t
      /\ \A i \in 0..Len(q) : way[i].n <= Len(P)
      /\ \A i \in 1..Len(q) : Brings(way[i - 1], q[i], way[i], P, exact)

LEMMA LeadsNowhere ==
    ASSUME NEW s \in Snaps, NEW P, NEW exact, s.n <= Len(P)
    PROVE  Leads(s, <<>>, s, P, exact)
<1> DEFINE way == [i \in 0..0 |-> s]
<1>1. way \in [0..0 -> Snaps] /\ way[0] = s
  OBVIOUS
<1>2. Len(<<>>) = 0 /\ 1..0 = {} /\ \A i \in 0..0 : i = 0
  OBVIOUS
<1> HIDE DEF way
<1> QED  BY <1>1, <1>2 DEF Leads

LEMMA LeadsByOne ==
    ASSUME NEW s \in Snaps, NEW m, NEW t \in Snaps, NEW P, NEW exact,
           Brings(s, m, t, P, exact), s.n <= Len(P), t.n <= Len(P)
    PROVE  Leads(s, <<m>>, t, P, exact)
<1> DEFINE way == [i \in 0..1 |-> IF i = 0 THEN s ELSE t]
<1>1. Len(<<m>>) = 1 /\ <<m>>[1] = m
  OBVIOUS
<1>2. way \in [0..1 -> Snaps] /\ way[0] = s /\ way[1] = t
  OBVIOUS
<1> HIDE DEF way
<1>3. \A i \in 0..1 : way[i].n <= Len(P)
  BY <1>2
<1>4. \A i \in 1..1 : Brings(way[i - 1], <<m>>[i], way[i], P, exact)
  BY <1>1, <1>2
<1> QED  BY <1>1, <1>2, <1>3, <1>4 DEF Leads

LEMMA LeadsOn ==
    ASSUME NEW q \in Seq(Message), NEW r \in Seq(Message), NEW s, NEW t, NEW u, NEW P, NEW exact,
           Leads(s, q, t, P, exact), Leads(t, r, u, P, exact)
    PROVE  Leads(s, q \o r, u, P, exact)
<1>1. PICK way \in [0..Len(q) -> Snaps] :
        /\ way[0] = s /\ way[Len(q)] = t
        /\ \A i \in 0..Len(q) : way[i].n <= Len(P)
        /\ \A i \in 1..Len(q) : Brings(way[i - 1], q[i], way[i], P, exact)
  BY DEF Leads
<1>2. PICK T \in [0..Len(r) -> Snaps] :
        /\ T[0] = t /\ T[Len(r)] = u
        /\ \A i \in 0..Len(r) : T[i].n <= Len(P)
        /\ \A i \in 1..Len(r) : Brings(T[i - 1], r[i], T[i], P, exact)
  BY DEF Leads
<1> DEFINE n == Len(q)
           k == Len(r)
           U == [i \in 0..(n + k) |-> IF i <= n THEN way[i] ELSE T[i - n]]
<1>3. n \in Nat /\ k \in Nat /\ Len(q \o r) = n + k
  OBVIOUS
<1>4. U \in [0..(n + k) -> Snaps]
  BY <1>1, <1>2, <1>3
<1>5. /\ \A i \in 0..n : U[i] = way[i]
      /\ \A i \in 0..k : U[n + i] = T[i]
  BY <1>1, <1>2, <1>3
<1>6. /\ \A i \in 1..n : (q \o r)[i] = q[i]
      /\ \A i \in 1..k : (q \o r)[n + i] = r[i]
  OBVIOUS
<1> HIDE DEF n, k, U
<1>7. U[0] = s /\ U[n + k] = u
  BY <1>1, <1>2, <1>3, <1>5 DEF n, k
<1>8. ASSUME NEW i \in 0..(n + k) PROVE U[i].n <= Len(P)
  <2>1. CASE i \in 0..n
    BY <1>1, <1>5, <2>1 DEF n
  <2>2. CASE i \notin 0..n
    <3>1. i - n \in 0..k /\ i = n + (i - n)
      BY <1>3, <2>2
    <3> QED  BY <1>2, <1>5, <3>1 DEF k
  <2> QED  BY <2>1, <2>2
<1>9. ASSUME NEW i \in 1..(n + k) PROVE Brings(U[i - 1], (q \o r)[i], U[i], P, exact)
  <2>1. CASE i \in 1..n
    <3>1. i - 1 \in 0..n /\ i \in 0..n
      BY <1>3, <2>1
    <3> QED  BY <1>1, <1>5, <1>6, <2>1, <3>1 DEF n
  <2>2. CASE i \notin 1..n
    <3>1. PICK j \in 1..k : i = n + j
      <4>1. i - n \in 1..k /\ i = n + (i - n)
        BY <1>3, <2>2
      <4> QED  BY <4>1
    <3>2. j - 1 \in 0..k /\ j \in 0..k /\ i - 1 = n + (j - 1)
      BY <1>3, <3>1
    <3> QED  BY <1>2, <1>5, <1>6, <3>1, <3>2 DEF k
  <2> QED  BY <2>1, <2>2
<1> QED  BY <1>3, <1>4, <1>7, <1>8, <1>9 DEF Leads

LEMMA LeadsFirst ==
    ASSUME NEW q \in Seq(Message), q # <<>>, NEW s, NEW t, NEW P, NEW exact,
           Leads(s, q, t, P, exact)
    PROVE  \E u \in Snaps : Brings(s, Head(q), u, P, exact) /\ Leads(u, Tail(q), t, P, exact)
<1>1. PICK way \in [0..Len(q) -> Snaps] :
        /\ way[0] = s /\ way[Len(q)] = t
        /\ \A i \in 0..Len(q) : way[i].n <= Len(P)
        /\ \A i \in 1..Len(q) : Brings(way[i - 1], q[i], way[i], P, exact)
  BY DEF Leads
<1> DEFINE n == Len(q)
           T == [i \in 0..(n - 1) |-> way[i + 1]]
<1>2. n \in Nat /\ n >= 1 /\ Len(Tail(q)) = n - 1 /\ Head(q) = q[1]
      /\ \A i \in 1..(n - 1) : Tail(q)[i] = q[i + 1]
  OBVIOUS
<1>3. T \in [0..(n - 1) -> Snaps] /\ \A i \in 0..(n - 1) : T[i] = way[i + 1]
  BY <1>2
<1> HIDE DEF n, T
<1>4. Brings(s, Head(q), way[1], P, exact) /\ way[1] \in Snaps
  <2>1. 1 \in 1..n /\ 1 - 1 = 0 /\ 1 \in 0..n
    BY <1>2
  <2> QED  BY <1>1, <1>2, <2>1 DEF n
<1>5. T[0] = way[1] /\ T[n - 1] = t
  <2>1. 0 \in 0..(n - 1) /\ n - 1 \in 0..(n - 1) /\ (n - 1) + 1 = n /\ 0 + 1 = 1
    BY <1>2
  <2> QED  BY <1>1, <1>3, <2>1 DEF n
<1>6. ASSUME NEW i \in 0..(n - 1) PROVE T[i].n <= Len(P)
  <2>1. i + 1 \in 0..n
    BY <1>2
  <2> QED  BY <1>1, <1>3, <2>1 DEF n
<1>7. ASSUME NEW i \in 1..(n - 1) PROVE Brings(T[i - 1], Tail(q)[i], T[i], P, exact)
  <2>1. i - 1 \in 0..(n - 1) /\ i \in 0..(n - 1) /\ i + 1 \in 1..n /\ (i - 1) + 1 = (i + 1) - 1
    BY <1>2
  <2> QED  BY <1>1, <1>2, <1>3, <2>1 DEF n
<1>8. Leads(way[1], Tail(q), t, P, exact)
  BY <1>2, <1>3, <1>5, <1>6, <1>7 DEF Leads
<1> QED  BY <1>4, <1>8

\* More piles, or less precision.
LEMMA LeadsStill ==
    ASSUME NEW q \in Seq(Message), NEW s, NEW t, NEW P \in Seq(PickUps), NEW Q \in Seq(PickUps),
           Len(P) <= Len(Q), \A i \in 1..Len(P) : Q[i] = P[i],
           NEW exact, NEW less, less => exact, Leads(s, q, t, P, exact)
    PROVE  Leads(s, q, t, Q, less)
<1>1. PICK way \in [0..Len(q) -> Snaps] :
        /\ way[0] = s /\ way[Len(q)] = t
        /\ \A i \in 0..Len(q) : way[i].n <= Len(P)
        /\ \A i \in 1..Len(q) : Brings(way[i - 1], q[i], way[i], P, exact)
  BY DEF Leads
<1>2. ASSUME NEW i \in 0..Len(q) PROVE way[i].n <= Len(Q)
  BY <1>1 DEF Snaps
<1>3. ASSUME NEW i \in 1..Len(q) PROVE Brings(way[i - 1], q[i], way[i], Q, less)
  <2>1. i \in 0..Len(q) /\ i - 1 \in 0..Len(q)
    OBVIOUS
  <2>2. PICK a, b \in Snaps : a = way[i - 1] /\ b = way[i]
    BY <1>1, <2>1
  <2>3. Brings(a, q[i], b, P, exact) /\ a.n <= Len(P) /\ b.n <= Len(P) /\ a.n \in Nat /\ b.n \in Nat
    BY <1>1, <2>1, <2>2 DEF Snaps
  <2>4. b.n >= 1 => Q[b.n] = P[b.n]
    BY <2>3
  <2>5. a.n >= 1 => Q[a.n] = P[a.n]
    BY <2>3
  <2>6. q[i].type = "challenge" => b.n >= 1
    BY <2>3 DEF Brings
  <2>7. Brings(a, q[i], b, Q, less)
    BY <2>3, <2>4, <2>5, <2>6 DEF Brings
  <2> QED  BY <2>2, <2>7
<1> QED  BY <1>1, <1>2, <1>3 DEF Leads
-----------------------------------------------------------------------------
Owed == IF pickup # G!NoPickup THEN 1 ELSE 0
Now  == [view |-> SightOf(view), n |-> Len(shown) + Owed, owed |-> pickup # G!NoPickup]
Here == [view |-> SightOf(G!State(table)), n |-> Len(piles), owed |-> FALSE]

\* The messages under way lead from what the page has to what the room has; if
\* some were dropped, they bring no more results than there were challenges.
MessagesLead ==
    \E s, t \in Snaps :
      /\ Leads(s, messages, t, piles, drops = 0)
      /\ s.n >= Len(shown) + Owed
      /\ drops = 0 => s = Now /\ t = Here

\* The pick-ups shown are those of the room, and the one to be shown is the next.
PickUpFits ==
    drops = 0 =>
      /\ Len(shown) <= Len(piles)
      /\ \A i \in 1..Len(shown) : shown[i] = piles[i]
      /\ pickup # G!NoPickup =>
           /\ Len(shown) + 1 <= Len(piles) /\ pickup = piles[Len(shown) + 1]
           /\ pickup.count = view.pile /\ pickup.count > 0

\* A state by which the page leaves the table, for the player has returned.
Leaving(m) == m.type = "state" /\ ~G!Table(m)

\* A frame has a flight for each of its cards; what is concealed is in a frame or
\* flies; nothing flies when the page has left the table; and when the player has
\* returned there is nothing left to fly, until the room has told of the next match.
FlightsFit ==
    ~hasty /\ drops = 0 =>
      /\ \A f \in frames : /\ IsFiniteSet(f.reveal) /\ Cardinality(f.reveal) <= f.count
                          /\ f.count \in Nat
      /\ \A c \in concealed : \/ \E f \in frames : c \in f.reveal
                              \/ \E g \in flights : g.live /\ g.card = c
      /\ ~G!Table(view) => flights = {}
      /\ \A i \in 1..Len(messages) : Leaving(messages[i]) =>
           /\ frames = {} /\ flights = {}
           /\ \A j \in 1..i : Leaving(messages[j])
      /\ "me" \in table.returned =>
           /\ frames = {} /\ flights = {}
           /\ \A j \in 1..Len(messages) : Leaving(messages[j])

FlightInv == FlightTypes /\ MessagesLead /\ PickUpFits /\ FlightsFit

\* What the room has is well typed.
LEMMA HereIsSnap ==
    ASSUME FlightTypes
    PROVE  /\ Here \in Snaps /\ Now \in Snaps
           /\ Here.view.hand = table.hand["me"] /\ Here.view.pile = Cardinality(table.pile)
           /\ Here.view.phase = table.phase
<1>1. table \in Tables /\ "me" \in G!Players
  BY DEF FlightTypes, TableFine, G!Players
<1>2. SightOf(G!State(table)) = [phase |-> table.phase, hand |-> table.hand["me"],
                                 pile |-> Cardinality(table.pile)]
  BY <1>1, RoomMessages
<1>3. SightOf(G!State(table)) \in Sights /\ SightOf(view) \in Sights
  BY <1>1, <1>2, CardSets DEF Tables, Sights, SightOf, FlightTypes, Scenes
<1>4. Len(piles) \in Nat /\ Len(shown) + Owed \in Nat /\ (pickup # G!NoPickup) \in BOOLEAN
  BY DEF FlightTypes, Owed
<1> QED  BY <1>2, <1>3, <1>4 DEF Here, Now, Snaps, FlightTypes

LEMMA RoomTells ==
    ASSUME FlightTypes, FlightTypes', MessagesLead, UNCHANGED <<view, pickup, shown, drops>>,
           Len(piles) <= Len(piles'), \A i \in 1..Len(piles) : piles'[i] = piles[i],
           NEW r \in Seq(Message), messages' = messages \o r,
           \A t \in Snaps : t.n <= Len(piles) /\ (drops = 0 => t = Here) =>
              \E u \in Snaps : Leads(t, r, u, piles', drops = 0) /\ (drops = 0 => u = Here')
    PROVE  MessagesLead'
<1>1. PICK s \in Snaps, t \in Snaps :
        /\ Leads(s, messages, t, piles, drops = 0)
        /\ s.n >= Len(shown) + Owed
        /\ drops = 0 => s = Now /\ t = Here
  BY DEF MessagesLead
<1>2. t.n <= Len(piles)
  <2>1. Len(messages) \in 0..Len(messages)
    BY DEF FlightTypes
  <2> QED  BY <1>1, <2>1 DEF Leads
<1>3. PICK u \in Snaps : Leads(t, r, u, piles', drops = 0) /\ (drops = 0 => u = Here')
  BY <1>1, <1>2
<1>4. Leads(s, messages, t, piles', drops = 0)
  <2>1. piles \in Seq(PickUps) /\ piles' \in Seq(PickUps) /\ messages \in Seq(Message)
    BY DEF FlightTypes
  <2>2. \A exact, less : (less => exact) /\ Leads(s, messages, t, piles, exact)
                           => Leads(s, messages, t, piles', less)
    BY <2>1, LeadsStill
  <2> QED  BY <1>1, <2>2
<1>5. Leads(s, messages', u, piles', drops = 0)
  <2>1. messages \in Seq(Message)
    BY DEF FlightTypes
  <2>2. \A P, exact : Leads(s, messages, t, P, exact) /\ Leads(t, r, u, P, exact)
                        => Leads(s, messages \o r, u, P, exact)
    BY <2>1, LeadsOn
  <2> QED  BY <1>3, <1>4, <2>2
<1>6. Owed' = Owed /\ Now' = Now /\ Len(shown') = Len(shown) /\ drops' = drops
  BY DEF Owed, Now
<1> QED  BY <1>1, <1>3, <1>5, <1>6 DEF MessagesLead

LEMMA StateTells ==
    ASSUME FlightTypes, FlightTypes', NEW t \in Snaps, t.n <= Len(piles'), ~t.owed \/ drops # 0,
           t.n = Len(piles') \/ drops # 0
    PROVE  \E u \in Snaps : Leads(t, <<G!State(table')>>, u, piles', drops = 0)
                              /\ (drops = 0 => u = Here')
<1>1. table' \in Tables /\ "me" \in G!Players
  BY DEF FlightTypes, TableFine, G!Players
<1>2. G!State(table') \in Message /\ G!State(table').type = "state"
  BY <1>1, RoomMessages
<1> DEFINE m == G!State(table')
           u == [view |-> SightOf(m), n |-> t.n, owed |-> FALSE]
<1>3. Here' = [view |-> SightOf(m), n |-> Len(piles'), owed |-> FALSE]
  BY DEF Here
<1>4. u \in Snaps
  BY <1>2 DEF Snaps, Sights, Message, SightOf
<1>5. Brings(t, m, u, piles', drops = 0)
  BY <1>2 DEF Brings, Snaps
<1>6. Leads(t, <<m>>, u, piles', drops = 0)
  <2>1. \A P, exact : Brings(t, m, u, P, exact) /\ t.n <= Len(P) /\ u.n <= Len(P)
                        => Leads(t, <<m>>, u, P, exact)
    BY <1>4, LeadsByOne
  <2> QED  BY <1>5, <2>1
<1>7. drops = 0 => u = Here'
  BY <1>3
<1> QED  BY <1>4, <1>6, <1>7

LEMMA WonTells ==
    ASSUME FlightTypes, FlightTypes', NEW t \in Snaps, t.n <= Len(piles'),
           NEW r \in Tables, r.returned = {},
           drops = 0 => ~t.owed /\ t.view.phase = "playing"
    PROVE  \E u \in Snaps : /\ Leads(t, <<G!Won(r)>>, u, piles', drops = 0)
                            /\ u = [t EXCEPT !.view.phase = "finished"]
<1> DEFINE m == G!Won(r)
           u == [t EXCEPT !.view.phase = "finished"]
<1>1. m.type = "won" /\ m.returned = {}
  BY RoomMessages DEF G!Players
<1>2. u \in Snaps /\ u.n = t.n /\ u.owed = t.owed
      /\ u.view = [t.view EXCEPT !.phase = "finished"]
  BY DEF Snaps, Sights, Phases
<1> HIDE DEF m, u
<1>3. Brings(t, m, u, piles', drops = 0)
  BY <1>1, <1>2 DEF Brings, Snaps
<1>4. Leads(t, <<m>>, u, piles', drops = 0)
  <2>1. \A P, exact : Brings(t, m, u, P, exact) /\ t.n <= Len(P) /\ u.n <= Len(P)
                        => Leads(t, <<m>>, u, P, exact)
    BY <1>2, LeadsByOne
  <2> QED  BY <1>2, <1>3, <2>1
<1> QED  BY <1>2, <1>4 DEF m, u
LEMMA PairJoined ==
    ASSUME NEW a \in Message, NEW b \in Message
    PROVE  <<a, b>> = <<a>> \o <<b>>
<1> DEFINE t == <<a>> \o <<b>>
<1>1. t \in Seq(Message) /\ Len(t) = 2 /\ t[1] = a /\ t[2] = b
  OBVIOUS
<1>2. <<a, b>> \in Seq(Message) /\ Len(<<a, b>>) = 2
      /\ <<a, b>>[1] = a /\ <<a, b>>[2] = b
  OBVIOUS
<1> HIDE DEF t
<1>3. <<a, b>> = t
  BY <1>1, <1>2, SeqEqual
<1> QED  BY <1>3 DEF t

\* What the room does keeps the types.
LEMMA RoomTypes ==
    ASSUME FlightTypes, TableFine(table'), NEW r \in Seq(Message), messages' = messages \o r,
           UNCHANGED <<view, pickup, shown, drops>>, piles' \in Seq(PickUps), hasty' \in BOOLEAN
    PROVE  FlightTypes'
BY DEF FlightTypes

LEMMA StateAlone ==
    ASSUME FlightInv, TableFine(table'), messages' = messages \o <<G!State(table')>>,
           UNCHANGED <<view, pickup, shown, drops, piles>>, hasty' \in BOOLEAN
    PROVE  FlightTypes' /\ MessagesLead'
<1>1. G!State(table') \in Message
  BY RoomMessages DEF TableFine, G!Players
<1>2. <<G!State(table')>> \in Seq(Message)
  BY <1>1
<1>3. FlightTypes /\ piles \in Seq(PickUps)
  BY DEF FlightInv, FlightTypes
<1>4. FlightTypes'
  BY <1>2, <1>3, RoomTypes
<1>5. \A t \in Snaps : t.n <= Len(piles) /\ (drops = 0 => t = Here) =>
        \E u \in Snaps : Leads(t, <<G!State(table')>>, u, piles', drops = 0)
                           /\ (drops = 0 => u = Here')
  <2> SUFFICES ASSUME NEW t \in Snaps, t.n <= Len(piles), drops = 0 => t = Here
               PROVE  \E u \in Snaps : Leads(t, <<G!State(table')>>, u, piles', drops = 0)
                                         /\ (drops = 0 => u = Here')
    OBVIOUS
  <2>1. (~t.owed \/ drops # 0) /\ (t.n = Len(piles') \/ drops # 0)
    BY DEF Here
  <2> QED  BY <1>3, <1>4, <2>1, StateTells
<1>6. MessagesLead'
  <2>1. Len(piles) <= Len(piles') /\ \A i \in 1..Len(piles) : piles'[i] = piles[i]
    BY <1>3
  <2>2. MessagesLead
    BY DEF FlightInv
  <2> QED  BY <1>2, <1>3, <1>4, <1>5, <2>1, <2>2, RoomTells
<1> QED  BY <1>4, <1>6

\* A win is told before the state that comes with it.
LEMMA WonAndState ==
    ASSUME FlightInv, TableFine(table'), table.phase = "playing", table'.returned = {},
           messages' = messages \o <<G!Won(table'), G!State(table')>>,
           UNCHANGED <<view, pickup, shown, drops, piles>>, hasty' \in BOOLEAN
    PROVE  FlightTypes' /\ MessagesLead'
<1> DEFINE w == G!Won(table')
           m == G!State(table')
<1>1. w \in Message /\ m \in Message
  BY RoomMessages DEF TableFine, G!Players
<1>2. <<w>> \in Seq(Message) /\ <<m>> \in Seq(Message) /\ <<w, m>> \in Seq(Message)
      /\ <<w, m>> = <<w>> \o <<m>>
  <2> HIDE DEF w, m
  <2>1. <<w>> \in Seq(Message) /\ <<m>> \in Seq(Message) /\ <<w, m>> \in Seq(Message)
    BY <1>1
  <2>2. <<w, m>> = <<w>> \o <<m>>
    BY <1>1, <2>1, PairJoined
  <2> QED  BY <2>1, <2>2
<1>3. FlightTypes /\ piles \in Seq(PickUps) /\ table.returned = {}
  BY DEF FlightInv, FlightTypes, TableFine
<1>4. FlightTypes'
  BY <1>2, <1>3, RoomTypes
<1>5. ASSUME NEW t \in Snaps, t.n <= Len(piles), drops = 0 => t = Here
      PROVE  \E u \in Snaps : Leads(t, <<w, m>>, u, piles', drops = 0)
                                /\ (drops = 0 => u = Here')
  <2>1. drops = 0 => ~t.owed /\ t.view.phase = "playing"
                     /\ t.n = Len(piles)
    BY <1>3, <1>5, HereIsSnap DEF Here
  <2>2. PICK v \in Snaps : /\ Leads(t, <<w>>, v, piles', drops = 0)
                           /\ v = [t EXCEPT !.view.phase = "finished"]
    <3>1. table' \in Tables
      BY DEF TableFine
    <3> QED  BY <1>3, <1>4, <1>5, <2>1, <3>1, WonTells
  <2>3. v.owed = t.owed /\ v.n = t.n
    BY <2>2 DEF Snaps
  <2>4. PICK u \in Snaps : Leads(v, <<m>>, u, piles', drops = 0) /\ (drops = 0 => u = Here')
    BY <1>3, <1>4, <1>5, <2>1, <2>3, StateTells
  <2>5. Leads(t, <<w>> \o <<m>>, u, piles', drops = 0)
    <3> HIDE DEF w, m
    <3>1. \A P, exact : Leads(t, <<w>>, v, P, exact) /\ Leads(v, <<m>>, u, P, exact)
                          => Leads(t, <<w>> \o <<m>>, u, P, exact)
      BY <1>2, LeadsOn
    <3> QED  BY <2>2, <2>4, <3>1
  <2> QED  BY <1>2, <2>4, <2>5
<1>6. MessagesLead'
  <2>1. Len(piles) <= Len(piles') /\ \A i \in 1..Len(piles) : piles'[i] = piles[i]
    BY <1>3
  <2>2. MessagesLead
    BY DEF FlightInv
  <2> HIDE DEF w, m
  <2>3. messages' = messages \o <<w, m>>
    BY DEF w, m
  <2> QED  BY <1>2, <1>3, <1>4, <1>5, <2>1, <2>2, <2>3, RoomTells
<1> QED  BY <1>4, <1>6

\* A result and the state after it: the pile is owed in between.
LEMMA ResultTells ==
    ASSUME FlightTypes, FlightTypes', NEW loser \in G!Players, NEW t \in Snaps,
           table.pile # {}, table'.pile = {}, table'.phase \in {"playing", "finished"},
           table'.returned = {},
           piles' = Append(piles, [to |-> loser, count |-> Cardinality(table.pile)]),
           table'.hand["me"] \subseteq table.hand["me"]
             \/ (loser = "me" /\ table'.hand["me"] = table.hand["me"] \cup table.pile),
           t.n <= Len(piles),
           drops = 0 => /\ ~t.owed /\ t.n = Len(piles)
                        /\ t.view.hand = table.hand["me"]
                        /\ t.view.pile = Cardinality(table.pile)
    PROVE  \E u \in Snaps :
             /\ Leads(t, <<G!Result(table, loser), G!State(table')>>, u, piles', drops = 0)
             /\ drops = 0 => u = Here'
<1> DEFINE k == G!Result(table, loser)
           m == G!State(table')
           v == [view |-> t.view, n |-> t.n + 1, owed |-> TRUE]
           u == [view |-> SightOf(m), n |-> t.n + 1, owed |-> FALSE]
<1>1. table \in Tables /\ table' \in Tables /\ "me" \in G!Players
  BY DEF FlightTypes, TableFine, G!Players
<1>2. /\ k \in Message /\ k.type = "challenge" /\ k.to = loser
      /\ m \in Message /\ m.type = "state"
      /\ SightOf(m) = [phase |-> table'.phase, hand |-> table'.hand["me"],
                       pile |-> Cardinality(table'.pile)]
      /\ m.returned = table'.returned
  BY <1>1, RoomMessages
<1>3. /\ m.phase = table'.phase /\ m.hand = table'.hand["me"] /\ m.returned = table'.returned
      /\ m.pile = 0
  <2>1. Cardinality(table'.pile) = 0
    BY FS_EmptySet
  <2> QED  BY <1>2, <2>1 DEF SightOf
<1>4. Cardinality(table.pile) \in Nat /\ Cardinality(table.pile) > 0
  BY <1>1, CardSets DEF Tables
<1>5. /\ v \in Snaps /\ v.n = t.n + 1 /\ v.owed /\ v.view = t.view /\ t.n \in Nat
      /\ u \in Snaps /\ u.n = t.n + 1 /\ ~u.owed /\ u.view = SightOf(m)
  <2>1. t.n \in Nat /\ v \in Snaps /\ v.n = t.n + 1 /\ v.owed /\ v.view = t.view
    BY DEF Snaps
  <2>2. SightOf(m) \in Sights
    BY <1>2 DEF Sights, Message, SightOf
  <2>3. u.n = t.n + 1 /\ ~u.owed /\ u.view = SightOf(m)
    OBVIOUS
  <2>4. u \in Snaps
    BY <2>1, <2>2 DEF Snaps
  <2> QED  BY <2>1, <2>3, <2>4
<1>6. /\ Len(piles') = Len(piles) + 1 /\ Len(piles) \in Nat
      /\ piles'[Len(piles) + 1] = [to |-> loser, count |-> Cardinality(table.pile)]
  BY DEF FlightTypes
<1>7. Here' = [view |-> SightOf(m), n |-> Len(piles'), owed |-> FALSE]
  BY DEF Here
<1>8. loser = "me" => Cardinality(m.hand \ table.hand["me"]) <= Cardinality(table.pile)
  <2>1. m.hand \ table.hand["me"] \in SUBSET table.pile
    BY <1>3
  <2>2. table.pile \in SUBSET Cards
    BY <1>1 DEF Tables
  <2> QED  BY <2>1, <2>2, CardSets
<1>9. G!Table(m)
  BY <1>3 DEF G!Table
<1> HIDE DEF k, m, u, v
<1>10. Brings(t, k, v, piles', drops = 0)
  BY <1>2, <1>4, <1>5, <1>6 DEF Brings
<1>11. Brings(v, m, u, piles', drops = 0)
  <2>1. u.n = v.n + 0
    BY <1>5
  <2>2. drops = 0 => v.n = Len(piles) + 1 /\ v.n >= 1 /\ piles'[v.n].to = loser
    BY <1>5, <1>6
  <2>3. drops = 0 /\ loser = "me" => Cardinality(m.hand \ v.view.hand) <= v.view.pile
    BY <1>5, <1>8
  <2> QED  BY <1>2, <1>3, <1>5, <1>9, <2>1, <2>2, <2>3 DEF Brings
<1>12. Leads(t, <<k, m>>, u, piles', drops = 0)
  <2>1. t.n <= Len(piles') /\ v.n <= Len(piles') /\ u.n <= Len(piles')
    BY <1>5, <1>6
  <2>2. Leads(t, <<k>>, v, piles', drops = 0)
    <3>1. \A P, exact : Brings(t, k, v, P, exact) /\ t.n <= Len(P) /\ v.n <= Len(P)
                          => Leads(t, <<k>>, v, P, exact)
      BY <1>5, LeadsByOne
    <3> QED  BY <1>10, <2>1, <3>1
  <2>3. Leads(v, <<m>>, u, piles', drops = 0)
    <3>1. \A P, exact : Brings(v, m, u, P, exact) /\ v.n <= Len(P) /\ u.n <= Len(P)
                          => Leads(v, <<m>>, u, P, exact)
      BY <1>5, LeadsByOne
    <3> QED  BY <1>11, <2>1, <3>1
  <2>4. <<k>> \in Seq(Message) /\ <<m>> \in Seq(Message) /\ <<k, m>> = <<k>> \o <<m>>
    BY <1>2, PairJoined
  <2>5. \A P, exact : Leads(t, <<k>>, v, P, exact) /\ Leads(v, <<m>>, u, P, exact)
                        => Leads(t, <<k>> \o <<m>>, u, P, exact)
    BY <2>4, LeadsOn
  <2> QED  BY <2>2, <2>3, <2>4, <2>5
<1>13. drops = 0 => u = Here'
  BY <1>5, <1>6, <1>7 DEF u
<1> QED  BY <1>5, <1>12, <1>13 DEF k, m

LEMMA ChallengeTells ==
    ASSUME FlightInv, NEW bluff \in BOOLEAN, G!Challenge(bluff)
    PROVE  FlightTypes' /\ MessagesLead'
<1>1. PICK loser \in G!Players :
        /\ TableFine(table') /\ table.phase = "playing" /\ table.pile # {}
        /\ table'.phase \in {"playing", "finished"} /\ table'.returned = {}
        /\ table'.pile = {}
        /\ piles' = Append(piles, [to |-> loser, count |-> Cardinality(table.pile)])
        /\ messages' = messages
             \o ((IF table'.phase = "finished" THEN <<G!Won(table')>> ELSE <<>>)
                   \o <<G!Result(table, loser), G!State(table')>>)
        /\ table'.hand["me"] \subseteq table.hand["me"]
             \/ (loser = "me" /\ table'.hand["me"] = table.hand["me"] \cup table.pile)
  BY ChallengeTable DEF FlightInv
<1> DEFINE w == G!Won(table')
           rest == <<G!Result(table, loser), G!State(table')>>
           first == IF table'.phase = "finished" THEN <<w>> ELSE <<>>
<1>2. FlightTypes /\ piles \in Seq(PickUps) /\ table.returned = {} /\ table \in Tables
      /\ table' \in Tables /\ hasty \in BOOLEAN
  BY <1>1 DEF FlightInv, FlightTypes, TableFine
<1>3. rest \in Seq(Message) /\ <<w>> \in Seq(Message) /\ first \in Seq(Message)
  <2>1. w \in Message /\ G!Result(table, loser) \in Message /\ G!State(table') \in Message
    BY <1>1, <1>2, RoomMessages
  <2> QED  BY <2>1
<1>4. UNCHANGED <<view, pickup, shown, drops, hasty>>
  BY DEF G!Challenge, G!Page
<1>5. /\ piles' \in Seq(PickUps) /\ Len(piles) <= Len(piles')
      /\ \A i \in 1..Len(piles) : piles'[i] = piles[i]
  <2>1. Cardinality(table.pile) \in Nat
    BY <1>2, CardSets DEF Tables
  <2>2. [to |-> loser, count |-> Cardinality(table.pile)] \in PickUps
    BY <2>1 DEF PickUps, Sides
  <2> QED  BY <1>1, <1>2, <2>2
<1>6. first \o rest \in Seq(Message) /\ messages' = messages \o (first \o rest)
  BY <1>1, <1>3
<1>7. FlightTypes'
  BY <1>1, <1>2, <1>4, <1>5, <1>6, RoomTypes
<1>8. ASSUME NEW t \in Snaps, t.n <= Len(piles), drops = 0 => t = Here
      PROVE  \E u \in Snaps : Leads(t, first \o rest, u, piles', drops = 0)
                                /\ (drops = 0 => u = Here')
  <2>1. drops = 0 => /\ ~t.owed /\ t.view.phase = "playing"
                     /\ t.n = Len(piles) /\ t.view.hand = table.hand["me"]
                     /\ t.view.pile = Cardinality(table.pile)
    BY <1>1, <1>2, <1>8, HereIsSnap DEF Here
  <2>2. t.n \in Nat /\ Len(piles) \in Nat /\ Len(piles') \in Nat
    BY <1>2, <1>5 DEF Snaps
  <2>3. PICK v \in Snaps : /\ Leads(t, first, v, piles', drops = 0)
                           /\ v.n = t.n /\ v.owed = t.owed
                           /\ v.view.hand = t.view.hand /\ v.view.pile = t.view.pile
    <3>1. CASE table'.phase = "finished"
      <4>1. t.n <= Len(piles')
        BY <1>5, <1>8, <2>2
      <4>2. PICK v \in Snaps : /\ Leads(t, <<w>>, v, piles', drops = 0)
                               /\ v = [t EXCEPT !.view.phase = "finished"]
        BY <1>1, <1>2, <1>7, <2>1, <4>1, WonTells
      <4>3. v.n = t.n /\ v.owed = t.owed /\ v.view = [t.view EXCEPT !.phase = "finished"]
            /\ v.view.hand = t.view.hand /\ v.view.pile = t.view.pile
        BY <4>2 DEF Snaps, Sights
      <4> QED  BY <3>1, <4>2, <4>3
    <3>2. CASE table'.phase # "finished"
      <4>1. t.n <= Len(piles')
        BY <1>5, <1>8, <2>2
      <4>2. \A P, exact : t.n <= Len(P) => Leads(t, <<>>, t, P, exact)
        BY LeadsNowhere
      <4> QED  BY <3>2, <4>1, <4>2
    <3> QED  BY <3>1, <3>2
  <2>4. PICK u \in Snaps : Leads(v, rest, u, piles', drops = 0) /\ (drops = 0 => u = Here')
    <3>1. /\ v.n <= Len(piles)
          /\ drops = 0 => /\ ~v.owed /\ v.n = Len(piles)
                          /\ v.view.hand = table.hand["me"]
                          /\ v.view.pile = Cardinality(table.pile)
      BY <1>8, <2>1, <2>3
    <3> QED  BY <1>1, <1>2, <1>7, <3>1, ResultTells
  <2>5. Leads(t, first \o rest, u, piles', drops = 0)
    <3> HIDE DEF first, rest
    <3>1. \A P, exact : Leads(t, first, v, P, exact) /\ Leads(v, rest, u, P, exact)
                          => Leads(t, first \o rest, u, P, exact)
      BY <1>3, LeadsOn
    <3> QED  BY <2>3, <2>4, <3>1
  <2> QED  BY <2>4, <2>5
<1>9. MessagesLead
  BY DEF FlightInv
<1> HIDE DEF first, rest
<1>10. MessagesLead'
  BY <1>2, <1>4, <1>5, <1>6, <1>7, <1>8, <1>9, RoomTells
<1> QED  BY <1>7, <1>10
-----------------------------------------------------------------------------
(* A message arrives. *)

\* What the page does with it.
LEMMA ReceiveTypes ==
    ASSUME FlightTypes, G!Receive
    PROVE  /\ FlightTypes' /\ Head(messages) \in Message
           /\ messages # <<>> /\ messages' = Tail(messages)
           /\ drops' = drops /\ (hasty => hasty') /\ piles' = piles /\ table' = table
<1> DEFINE m == Head(messages)
<1>1. messages # <<>> /\ messages' = Tail(messages)
      /\ drops' = drops /\ piles' = piles /\ table' = table
      /\ hasty' = (hasty \/ (/\ G!Table(view) /\ ~G!Table(view') /\ "me" \notin m.returned
                              /\ flights # {}))
  BY DEF G!Receive
<1>1a. hasty' \in BOOLEAN /\ (hasty => hasty')
  <2>1. (hasty \/ (/\ G!Table(view) /\ ~G!Table(view') /\ "me" \notin m.returned
                    /\ flights # {})) \in BOOLEAN
    BY Zenon
  <2>2. hasty' \in BOOLEAN
    BY <1>1, <2>1
  <2> QED  BY <1>1, <2>2
<1>2. m \in Message /\ Tail(messages) \in Seq(Message)
  BY <1>1 DEF FlightTypes
<1>3. view' = G!NewView(m)
  BY DEF G!Receive
<1> HIDE DEF m
<1>4. view' \in Scenes
  <2>1. CASE m.type = "state"
    BY <1>2, <1>3, <2>1 DEF G!NewView, FlightTypes, Message, Scenes
  <2>2. CASE m.type # "state"
    BY <1>2, <1>3, <2>2 DEF G!NewView, FlightTypes, Message, Scenes, Phases
  <2> QED  BY <2>1, <2>2
<1>5. G!Pending(m) \in PickUps
  BY <1>2 DEF G!Pending, FlightTypes, Message, PickUps, Scenes
<1>6. pickup' \in PickUps /\ shown' \in Seq(PickUps)
  <2>1. pickup' \in {G!Pending(m), G!NoPickup}
    BY DEF G!Receive, G!Cleared, m
  <2>2. shown' \in {shown, Append(shown, G!Pending(m))}
    BY DEF G!Receive, m
  <2>3. G!NoPickup \in PickUps
    BY DEF G!NoPickup, PickUps, Sides
  <2> QED  BY <1>5, <2>1, <2>2, <2>3 DEF FlightTypes
<1> QED  BY <1>1, <1>1a, <1>2, <1>4, <1>6 DEF FlightTypes, m

\* When nothing was dropped, the page has after the message what it was said to
\* have, and what it is going to fly are cards it counted.
LEMMA ReceiveExact ==
    ASSUME FlightTypes, PickUpFits, drops = 0, G!Receive,
           NEW u \in Snaps, Brings(Now, Head(messages), u, piles, TRUE), u.n <= Len(piles)
    PROVE  /\ u = Now' /\ PickUpFits'
           /\ \A f \in G!Incoming(view', G!Pending(Head(messages)),
                                  G!Pending(Head(messages)) # G!NoPickup /\ view'.pile = 0) :
                /\ IsFiniteSet(f.reveal) /\ Cardinality(f.reveal) <= f.count
                /\ f.count \in Nat
           /\ Head(messages).type = "state" /\ ~G!Table(Head(messages)) =>
                G!Incoming(view', G!Pending(Head(messages)),
                           G!Pending(Head(messages)) # G!NoPickup /\ view'.pile = 0) = {}
           /\ Head(messages).type = "won" => Head(messages).returned = {}
<1>1. PICK m \in Message : m = Head(messages)
  BY ReceiveTypes
<1>2. PICK p \in PickUps : p = G!Pending(m)
  BY <1>1 DEF G!Pending, FlightTypes, Message, PickUps, Scenes
<1>3. PICK done \in BOOLEAN : done <=> (p # G!NoPickup /\ view'.pile = 0)
  <2>1. (p # G!NoPickup /\ view'.pile = 0) \in BOOLEAN
    BY Zenon
  <2> QED  BY <2>1
<1>4. /\ view' = G!NewView(m)
      /\ pickup' = IF done THEN G!NoPickup ELSE p
      /\ shown' = IF done /\ p.count > 0 THEN Append(shown, p) ELSE shown
      /\ piles' = piles /\ drops' = drops
  BY <1>1, <1>2, <1>3 DEF G!Receive, G!Cleared
<1>5. /\ FlightTypes' /\ view' \in Scenes /\ view \in Scenes
      /\ pickup \in PickUps /\ Len(shown) \in Nat /\ Len(piles) \in Nat
      /\ view.pile \in Nat
  BY ReceiveTypes DEF FlightTypes, Scenes
<1>6. Now.view = SightOf(view) /\ Now.n = Len(shown) + Owed /\ (Now.owed <=> pickup # G!NoPickup)
  BY DEF Now
<1>7. Brings(Now, m, u, piles, TRUE)
  BY <1>1
<1>7a. PICK now \in Snaps : now = Now
  BY HereIsSnap
<1>7b.
      /\ m.type = "state" => u.n = now.n /\ u.view = SightOf(m) /\ ~u.owed
      /\ m.type = "challenge" =>
           /\ u.n = now.n + 1 /\ ~now.owed /\ u.owed /\ u.view = now.view /\ now.view.pile > 0
           /\ piles[u.n] = [to |-> m.to, count |-> now.view.pile]
      /\ m.type = "won" =>
           /\ u.n = now.n /\ ~now.owed /\ ~u.owed /\ u.view = [now.view EXCEPT !.phase = "finished"]
           /\ now.view.phase = "playing" /\ m.returned = {}
  <2>1. Brings(now, m, u, piles, TRUE) /\ now.n \in Nat
    BY <1>7, <1>7a DEF Snaps
  <2> QED  BY <2>1 DEF Brings
<1>7c. now.view = SightOf(view) /\ (now.owed <=> pickup # G!NoPickup) /\ now.n = Len(shown) + Owed
  BY <1>6, <1>7a
<1>7d. Owed = IF pickup # G!NoPickup THEN 1 ELSE 0
  BY DEF Owed
<1>8. G!NoPickup.count = 0 /\ G!NoPickup.to = "none"
  BY DEF G!NoPickup
<1> DEFINE new == G!Incoming(view', p, done)
<1>9. new = (IF view.phase = "lobby" /\ view'.phase = "playing"
               THEN {[kind |-> "deal", count |-> Cardinality(view'.hand), reveal |-> view'.hand]}
               ELSE {})
            \cup (IF done /\ p.to = "me" /\ p.count > 0
                    THEN {[kind |-> "pickup", count |-> p.count, reveal |-> view'.hand \ view.hand]}
                    ELSE {})
  BY SameCardinality DEF G!Incoming, G!StartsRound, G!Frame, G!NewCards
<1>10. IsFiniteSet(view'.hand) /\ Cardinality(view'.hand) \in Nat
       /\ IsFiniteSet(view'.hand \ view.hand)
  BY <1>5, CardSets DEF Scenes
<1> HIDE DEF new
<1>11. CASE m.type = "state"
  <2>1. /\ SightOf(view') = SightOf(m) /\ view'.phase = m.phase
        /\ view'.pile = m.pile /\ view'.hand = m.hand
    BY <1>4, <1>11 DEF G!NewView, SightOf
  <2>2. /\ u.n = Len(shown) + Owed /\ u.view = SightOf(view') /\ ~u.owed
        /\ p = pickup
    <3>1. p = pickup
      BY <1>2, <1>11 DEF G!Pending
    <3>2. u.n = now.n /\ u.view = SightOf(m) /\ ~u.owed
      BY <1>7b, <1>11
    <3> QED  BY <1>7c, <2>1, <3>1, <3>2
  <2>3. ~G!Table(m) => view'.phase # "playing"
    BY <2>1 DEF G!Table
  <2>4. CASE pickup = G!NoPickup
    <3>1. ~done /\ pickup' = G!NoPickup /\ shown' = shown
      BY <1>3, <1>4, <2>2, <2>4
    <3>2. u = Now'
      BY <2>2, <2>4, <3>1 DEF Now, Owed, Snaps
    <3>3. PickUpFits'
      BY <1>4, <3>1 DEF PickUpFits
    <3>4. \A f \in new : /\ IsFiniteSet(f.reveal) /\ Cardinality(f.reveal) <= f.count
                         /\ f.count \in Nat
      BY <1>9, <1>10, <3>1
    <3>5. ~G!Table(m) => new = {}
      BY <1>9, <2>3, <3>1
    <3> QED  BY <1>1, <1>2, <1>3, <1>11, <2>3, <3>2, <3>3, <3>4, <3>5 DEF new
  <2>5. CASE pickup # G!NoPickup
    <3>1. /\ Len(shown) + 1 <= Len(piles) /\ pickup = piles[Len(shown) + 1]
          /\ pickup.count = view.pile /\ pickup.count > 0
          /\ \A i \in 1..Len(shown) : shown[i] = piles[i]
      BY <2>5 DEF PickUpFits
    <3>2. Now.owed /\ Now.n = Len(shown) + 1
      BY <1>6, <2>5 DEF Owed
    <3>3. /\ m.pile = 0 /\ G!Table(m)
          /\ pickup.to = "me" => Cardinality(m.hand \ view.hand) <= pickup.count
      <4>1. Now.view.hand = view.hand /\ Now.view.pile = view.pile
        BY <1>6 DEF SightOf
      <4> QED  BY <1>6, <1>7, <1>11, <3>1, <3>2, <4>1 DEF Brings
    <3>4. done /\ pickup' = G!NoPickup /\ shown' = Append(shown, pickup)
      BY <1>3, <1>4, <2>1, <2>2, <2>5, <3>1, <3>3
    <3>5. Len(shown') = Len(shown) + 1 /\ \A i \in 1..Len(shown') : shown'[i] = piles[i]
      <4>1. shown \in Seq(PickUps)
        BY DEF FlightTypes
      <4> QED  BY <1>5, <3>1, <3>4, <4>1
    <3>6. u = Now'
      BY <2>2, <2>5, <3>4, <3>5 DEF Now, Owed, Snaps
    <3>7. PickUpFits'
      BY <1>4, <3>1, <3>4, <3>5 DEF PickUpFits
    <3>8. \A f \in new : /\ IsFiniteSet(f.reveal) /\ Cardinality(f.reveal) <= f.count
                         /\ f.count \in Nat
      <4>1. p.count \in Nat /\ (p.to = "me" => Cardinality(view'.hand \ view.hand) <= p.count)
        BY <2>1, <2>2, <3>3 DEF PickUps
      <4>2. ASSUME NEW f \in new
            PROVE  \/ f.reveal = view'.hand /\ f.count = Cardinality(view'.hand)
                   \/ p.to = "me" /\ f.reveal = view'.hand \ view.hand /\ f.count = p.count
        BY <1>9, <4>2
      <4>3. Cardinality(view'.hand) <= Cardinality(view'.hand)
        BY <1>10
      <4> QED  BY <1>10, <4>1, <4>2, <4>3
    <3> QED  BY <1>1, <1>2, <1>3, <1>11, <3>3, <3>6, <3>7, <3>8 DEF new
  <2> QED  BY <2>4, <2>5
<1>12. CASE m.type = "challenge"
  <2>1. /\ view' = view /\ p = [to |-> m.to, count |-> view.pile]
    BY <1>2, <1>4, <1>12 DEF G!NewView, G!Pending
  <2>2. /\ pickup = G!NoPickup /\ u.owed /\ u.view = SightOf(view) /\ view.pile > 0
        /\ u.n = Len(shown) + 1 /\ piles[u.n] = p
    <3>1. /\ u.n = now.n + 1 /\ ~now.owed /\ u.owed /\ u.view = now.view /\ now.view.pile > 0
          /\ piles[u.n] = [to |-> m.to, count |-> now.view.pile]
      BY <1>7b, <1>12
    <3>2. pickup = G!NoPickup
      BY <1>7c, <3>1
    <3>3. u.n = Len(shown) + 1
      BY <1>5, <1>7c, <1>7d, <3>1, <3>2
    <3>4. now.view.pile = view.pile
      BY <1>7c DEF SightOf
    <3> QED  BY <1>7c, <2>1, <3>1, <3>2, <3>3, <3>4
  <2>3. ~done /\ pickup' = p /\ p # G!NoPickup /\ shown' = shown
    BY <1>3, <1>4, <1>8, <2>1, <2>2
  <2>4. u = Now'
    BY <2>1, <2>2, <2>3 DEF Now, Owed, Snaps
  <2>5. PickUpFits'
    BY <1>4, <2>1, <2>2, <2>3 DEF PickUpFits
  <2>6. new = {}
    BY <1>9, <2>1, <2>3
  <2> QED  BY <1>1, <1>2, <1>3, <1>12, <2>4, <2>5, <2>6 DEF new
<1>13. CASE m.type = "won"
  <2>1. view' = [view EXCEPT !.phase = "finished"] /\ p = pickup
    BY <1>2, <1>4, <1>13 DEF G!NewView, G!Pending
  <2>2. /\ pickup = G!NoPickup /\ ~u.owed /\ u.view = SightOf(view')
        /\ m.returned = {} /\ u.n = Len(shown)
    <3>1. /\ u.n = now.n /\ ~now.owed /\ ~u.owed /\ u.view = [now.view EXCEPT !.phase = "finished"]
          /\ m.returned = {}
      BY <1>7b, <1>13
    <3>2. pickup = G!NoPickup
      BY <1>7c, <3>1
    <3>3. u.n = Len(shown)
      BY <1>5, <1>7c, <1>7d, <3>1, <3>2
    <3>4. SightOf(view') = [SightOf(view) EXCEPT !.phase = "finished"]
      BY <1>5, <2>1 DEF SightOf, Scenes
    <3> QED  BY <1>7c, <2>1, <3>1, <3>2, <3>3, <3>4
  <2>3. ~done /\ pickup' = G!NoPickup /\ shown' = shown
    BY <1>3, <1>4, <2>1, <2>2
  <2>4. u = Now'
    BY <1>5, <2>2, <2>3 DEF Now, Owed, Snaps
  <2>5. PickUpFits'
    BY <1>4, <2>3 DEF PickUpFits
  <2>6. new = {}
    <3>1. view'.phase # "playing"
      BY <1>5, <2>1 DEF Scenes
    <3> QED  BY <1>9, <2>3, <3>1
  <2> QED  BY <1>1, <1>2, <1>3, <1>13, <2>2, <2>4, <2>5, <2>6 DEF new
<1> QED  BY <1>11, <1>12, <1>13 DEF Message

\* However much was dropped, a pick-up shown is one that was waited for or that
\* the message brings.
LEMMA ReceiveCounts ==
    ASSUME FlightTypes, G!Receive
    PROVE  Len(shown') + Owed'
             <= Len(shown) + Owed + (IF Head(messages).type = "challenge" THEN 1 ELSE 0)
<1>1. PICK m \in Message : m = Head(messages)
  BY ReceiveTypes
<1>2. PICK p \in PickUps : p = G!Pending(m)
  BY <1>1 DEF G!Pending, FlightTypes, Message, PickUps, Scenes
<1>3. \/ pickup' = G!NoPickup /\ shown' = Append(shown, p) /\ p # G!NoPickup
      \/ pickup' \in {p, G!NoPickup} /\ shown' = shown
  BY <1>1, <1>2 DEF G!Receive, G!Cleared
<1>4. m.type # "challenge" => p = pickup
  BY <1>2 DEF G!Pending
<1>5. Len(Append(shown, p)) = Len(shown) + 1 /\ Len(shown) \in Nat
  BY DEF FlightTypes
<1>6. Owed' \in 0..1 /\ Owed \in 0..1
  BY DEF Owed
<1>7. CASE m.type = "challenge"
  <2>1. Len(shown') + Owed' <= Len(shown) + 1
    BY <1>3, <1>5, <1>6 DEF Owed
  <2> QED  BY <1>1, <1>5, <1>6, <1>7, <2>1
<1>8. CASE m.type # "challenge"
  <2>1. p = pickup
    BY <1>4, <1>8
  <2>2. Len(shown') + Owed' <= Len(shown) + Owed
    BY <1>3, <1>5, <2>1 DEF Owed
  <2> QED  BY <1>1, <1>5, <1>6, <1>8, <2>2
<1> QED  BY <1>7, <1>8

LEMMA ReceiveLeads ==
    ASSUME FlightInv, G!Receive
    PROVE  /\ MessagesLead'
           /\ drops = 0 => \E u \in Snaps : /\ Brings(Now, Head(messages), u, piles, TRUE)
                                            /\ u.n <= Len(piles)
<1>1. FlightTypes /\ PickUpFits /\ MessagesLead
  BY DEF FlightInv
<1>2. /\ Head(messages) \in Message /\ messages # <<>> /\ messages' = Tail(messages)
      /\ drops' = drops /\ piles' = piles /\ table' = table /\ FlightTypes'
  BY <1>1, ReceiveTypes
<1>3. PICK s \in Snaps, t \in Snaps :
        /\ Leads(s, messages, t, piles, drops = 0)
        /\ s.n >= Len(shown) + Owed
        /\ drops = 0 => s = Now /\ t = Here
  BY <1>1 DEF MessagesLead
<1>4. PICK u \in Snaps : /\ Brings(s, Head(messages), u, piles, drops = 0)
                         /\ Leads(u, Tail(messages), t, piles, drops = 0)
  <2>1. messages \in Seq(Message)
    BY <1>1 DEF FlightTypes
  <2>2. \A P, exact : Leads(s, messages, t, P, exact) =>
          \E u \in Snaps : Brings(s, Head(messages), u, P, exact)
                             /\ Leads(u, Tail(messages), t, P, exact)
    BY <1>2, <2>1, LeadsFirst
  <2> QED  BY <1>3, <2>2
<1>5. u.n <= Len(piles)
  <2>1. 0 \in 0..Len(Tail(messages))
    BY <1>1, <1>2 DEF FlightTypes
  <2> QED  BY <1>4, <2>1 DEF Leads
<1>6. u.n >= Len(shown') + Owed'
  <2>1. Len(shown') + Owed'
          <= Len(shown) + Owed + (IF Head(messages).type = "challenge" THEN 1 ELSE 0)
    BY <1>1, ReceiveCounts
  <2>2. u.n = s.n + (IF Head(messages).type = "challenge" THEN 1 ELSE 0)
    BY <1>4 DEF Brings
  <2>3. Len(shown) \in Nat /\ Len(shown') \in Nat /\ Owed \in Nat /\ Owed' \in Nat /\ s.n \in Nat
    BY <1>1, <1>2 DEF FlightTypes, Owed, Snaps
  <2> QED  BY <1>3, <2>1, <2>2, <2>3
<1>7. drops = 0 => Brings(Now, Head(messages), u, piles, TRUE)
  BY <1>3, <1>4 DEF Brings
<1>8. drops = 0 => u = Now'
  BY <1>1, <1>5, <1>7, ReceiveExact
<1>9. Here' = Here
  BY <1>2 DEF Here
<1>10. Leads(u, messages', t, piles', drops' = 0)
  BY <1>2, <1>4
<1> QED  BY <1>2, <1>3, <1>5, <1>6, <1>7, <1>8, <1>9, <1>10 DEF MessagesLead

LEMMA ReceiveFlights ==
    ASSUME FlightInv, G!Receive
    PROVE  PickUpFits' /\ FlightsFit'
<1>1. FlightTypes /\ PickUpFits /\ FlightsFit
  BY DEF FlightInv
<1>2. /\ Head(messages) \in Message /\ messages # <<>> /\ messages' = Tail(messages)
      /\ drops' = drops /\ (hasty => hasty') /\ table' = table /\ FlightTypes'
  BY <1>1, ReceiveTypes
<1>3. CASE drops # 0
  BY <1>2, <1>3 DEF PickUpFits, FlightsFit
<1>4. CASE drops = 0
  <2> DEFINE p    == G!Pending(Head(messages))
             done == p # G!NoPickup /\ view'.pile = 0
             new  == G!Incoming(view', p, done)
  <2>1. PICK u \in Snaps : Brings(Now, Head(messages), u, piles, TRUE) /\ u.n <= Len(piles)
    BY <1>4, ReceiveLeads
  <2>2. /\ PickUpFits'
        /\ \A f \in new : /\ IsFiniteSet(f.reveal) /\ Cardinality(f.reveal) <= f.count
                          /\ f.count \in Nat
        /\ Leaving(Head(messages)) => new = {}
        /\ Head(messages).type = "won" => Head(messages).returned = {}
    BY <1>1, <1>4, <2>1, ReceiveExact DEF Leaving
  <2>3. /\ frames' = frames \cup {f \in new : f.count > 0}
        /\ concealed' = concealed \cup UNION {f.reveal : f \in new}
        /\ flights' = IF G!Table(view') THEN flights ELSE {[g EXCEPT !.live = FALSE] : g \in flights}
        /\ view' = G!NewView(Head(messages))
        /\ hasty' = (hasty \/ (/\ G!Table(view) /\ ~G!Table(view')
                                /\ "me" \notin Head(messages).returned /\ flights # {}))
    BY DEF G!Receive
  <2> HIDE DEF new, done, p
  <2>4. SUFFICES ASSUME ~hasty' PROVE FlightsFit'
    BY <1>2, <2>2 DEF FlightsFit
  <2>5. /\ \A f \in frames : /\ IsFiniteSet(f.reveal) /\ Cardinality(f.reveal) <= f.count
                            /\ f.count \in Nat
        /\ \A c \in concealed : \/ \E f \in frames : c \in f.reveal
                                \/ \E g \in flights : g.live /\ g.card = c
        /\ ~G!Table(view) => flights = {}
        /\ \A i \in 1..Len(messages) : Leaving(messages[i]) =>
             /\ frames = {} /\ flights = {}
             /\ \A j \in 1..i : Leaving(messages[j])
        /\ "me" \in table.returned =>
             /\ frames = {} /\ flights = {}
             /\ \A j \in 1..Len(messages) : Leaving(messages[j])
    BY <1>1, <1>2, <1>4, <2>4 DEF FlightsFit
  <2>6. 1 \in 1..Len(messages) /\ Head(messages) = messages[1]
        /\ Len(messages') + 1 = Len(messages) /\ Len(messages') \in Nat
        /\ \A i \in 1..Len(messages') : messages'[i] = messages[i + 1]
    BY <1>1, <1>2 DEF FlightTypes
  \* The table goes for a player who has returned, or is no reason for haste.
  <2>7. ~G!Table(view') => flights = {}
    <3> SUFFICES ASSUME ~G!Table(view'), G!Table(view), "me" \in Head(messages).returned
                 PROVE  flights = {}
      BY <2>3, <2>4, <2>5
    <3>1. Head(messages).type # "won"
      BY <2>2
    <3>2. Head(messages).type # "challenge"
      BY <2>3 DEF G!NewView
    <3>3. Head(messages).type = "state"
      BY <1>2, <3>1, <3>2 DEF Message
    <3>4. view'.phase = Head(messages).phase
      BY <2>3, <3>3 DEF G!NewView
    <3>5. Leaving(Head(messages))
      BY <3>3, <3>4 DEF Leaving, G!Table
    <3> QED  BY <2>5, <2>6, <3>5
  <2>8. flights' = flights
    BY <2>3, <2>7
  <2>9. \A f \in frames' : /\ IsFiniteSet(f.reveal) /\ Cardinality(f.reveal) <= f.count
                           /\ f.count \in Nat
    BY <2>2, <2>3, <2>5
  <2>10. ASSUME NEW c \in concealed'
        PROVE  \/ \E f \in frames' : c \in f.reveal
               \/ \E g \in flights' : g.live /\ g.card = c
    <3>1. CASE c \in concealed
      BY <2>3, <2>5, <2>8, <3>1
    <3>2. CASE c \notin concealed
      <4>1. PICK f \in new : c \in f.reveal
        BY <2>3, <3>2
      <4>2. Cardinality(f.reveal) # 0
        BY <2>2, <4>1, FS_EmptySet
      <4>3. f.count > 0
        <5>1. Cardinality(f.reveal) \in Nat
          BY <2>2, FS_CardinalityType
        <5> QED  BY <2>2, <4>2, <5>1
      <4> QED  BY <2>3, <4>1, <4>3
    <3> QED  BY <3>1, <3>2
  <2>11. Leaving(Head(messages)) => frames' = {} /\ flights' = {}
    BY <2>2, <2>3, <2>5, <2>6, <2>8
  <2>12. ASSUME NEW i \in 1..Len(messages'), Leaving(messages'[i])
         PROVE  /\ frames' = {} /\ flights' = {}
                /\ \A j \in 1..i : Leaving(messages'[j])
    <3>1. i + 1 \in 1..Len(messages) /\ Leaving(messages[i + 1])
      BY <2>6, <2>12
    <3>2. \A j \in 1..(i + 1) : Leaving(messages[j])
      BY <2>5, <3>1
    <3>3. Leaving(Head(messages))
      <4>1. 1 \in 1..(i + 1)
        OBVIOUS
      <4> QED  BY <2>6, <3>2, <4>1
    <3>4. ASSUME NEW j \in 1..i PROVE Leaving(messages'[j])
      <4>1. j \in 1..Len(messages') /\ j + 1 \in 1..(i + 1)
        BY <2>6
      <4> QED  BY <2>6, <3>2, <4>1
    <3> QED  BY <2>11, <3>3, <3>4
  <2>13. ASSUME "me" \in table'.returned
         PROVE  /\ frames' = {} /\ flights' = {}
                /\ \A j \in 1..Len(messages') : Leaving(messages'[j])
    <3>1. \A j \in 1..Len(messages) : Leaving(messages[j])
      BY <1>2, <2>5, <2>13
    <3>2. ASSUME NEW j \in 1..Len(messages') PROVE Leaving(messages'[j])
      <4>1. j + 1 \in 1..Len(messages)
        BY <2>6
      <4> QED  BY <2>6, <3>1, <4>1
    <3> QED  BY <2>6, <2>11, <3>1, <3>2
  <2>14. ~G!Table(view') => flights' = {}
    BY <2>7, <2>8
  <2>15. FlightsFit'
    <3> HIDE DEF Leaving
    <3> QED  BY <2>9, <2>10, <2>12, <2>13, <2>14 DEF FlightsFit
  <2> QED  BY <2>2, <2>15
<1> QED  BY <1>3, <1>4

LEMMA ReceiveKeepsFlights ==
    ASSUME FlightInv, G!Receive
    PROVE  FlightInv'
BY ReceiveTypes, ReceiveLeads, ReceiveFlights DEF FlightInv

-----------------------------------------------------------------------------
(* The other steps. *)

\* With a message lost, only the count is kept.
LEMMA DropKeepsFlights ==
    ASSUME FlightInv, G!Drop
    PROVE  FlightInv'
<1>1. FlightTypes /\ MessagesLead
  BY DEF FlightInv
<1>2. /\ messages # <<>> /\ messages' = Tail(messages) /\ drops' = drops + 1
      /\ table' = table /\ piles' = piles /\ hasty' = hasty
      /\ view' = view /\ pickup' = pickup /\ shown' = shown
  BY DEF G!Drop, G!Page
<1>3. FlightTypes' /\ drops' # 0
  BY <1>1, <1>2 DEF FlightTypes
<1>4. PICK s \in Snaps, t \in Snaps :
        Leads(s, messages, t, piles, drops = 0) /\ s.n >= Len(shown) + Owed
  BY <1>1 DEF MessagesLead
<1>5. Leads(s, messages, t, piles, FALSE)
  <2>1. messages \in Seq(Message) /\ piles \in Seq(PickUps)
    BY <1>1 DEF FlightTypes
  <2>2. Len(piles) <= Len(piles) /\ \A i \in 1..Len(piles) : piles[i] = piles[i]
    BY <2>1
  <2>3. \A exact, less : (less => exact) /\ Leads(s, messages, t, piles, exact)
                           => Leads(s, messages, t, piles, less)
    BY <2>1, <2>2, LeadsStill
  <2> QED  BY <1>4, <2>3
<1>6. PICK u \in Snaps : /\ Brings(s, Head(messages), u, piles, FALSE)
                         /\ Leads(u, Tail(messages), t, piles, FALSE)
  <2>1. messages \in Seq(Message)
    BY <1>1 DEF FlightTypes
  <2>2. \A P, exact : Leads(s, messages, t, P, exact) =>
          \E u \in Snaps : Brings(s, Head(messages), u, P, exact)
                             /\ Leads(u, Tail(messages), t, P, exact)
    BY <1>2, <2>1, LeadsFirst
  <2> QED  BY <1>5, <2>2
<1>7. u.n >= Len(shown') + Owed'
  <2>1. Owed' = Owed /\ Len(shown) \in Nat /\ Owed \in Nat
    BY <1>1, <1>2 DEF Owed, FlightTypes
  <2>2. u.n >= s.n
    BY <1>6 DEF Brings, Snaps
  <2> QED  BY <1>2, <1>4, <2>1, <2>2 DEF Snaps
<1>8. MessagesLead'
  <2>1. Leads(u, messages', t, piles', drops' = 0)
    <3>1. (drops' = 0) = FALSE
      BY <1>3
    <3> QED  BY <1>2, <1>6, <3>1
  <2> QED  BY <1>3, <1>7, <2>1 DEF MessagesLead
<1> QED  BY <1>3, <1>8 DEF FlightInv, PickUpFits, FlightsFit

\* The frames and flights of the page move nothing else.
LEMMA StartsKeepFlights ==
    ASSUME FlightInv, NEW f \in frames, G!StartFlights(f)
    PROVE  FlightInv'
<1>1. /\ table' = table /\ messages' = messages /\ view' = view /\ pickup' = pickup
      /\ piles' = piles /\ shown' = shown /\ hasty' = hasty /\ drops' = drops
      /\ frames' = frames \ {f}
  BY DEF G!StartFlights
<1>2. FlightTypes' /\ PickUpFits' /\ MessagesLead'
  BY <1>1 DEF FlightInv, FlightTypes, PickUpFits, MessagesLead, Owed, Now, Here
<1>3. FlightsFit'
  <2> SUFFICES ASSUME ~hasty, drops = 0 PROVE FlightsFit'
    BY <1>1 DEF FlightsFit
  <2>1. /\ \A h \in frames : /\ IsFiniteSet(h.reveal) /\ Cardinality(h.reveal) <= h.count
                            /\ h.count \in Nat
        /\ \A c \in concealed : \/ \E h \in frames : c \in h.reveal
                                \/ \E g \in flights : g.live /\ g.card = c
        /\ ~G!Table(view) => flights = {}
        /\ \A i \in 1..Len(messages) : Leaving(messages[i]) => frames = {}
        /\ "me" \in table.returned => frames = {}
    BY DEF FlightInv, FlightsFit
  <2>2. "me" \notin table.returned /\ \A i \in 1..Len(messages) : ~Leaving(messages[i])
    BY <2>1
  <2>3. ASSUME NEW c \in concealed'
        PROVE  \/ \E h \in frames' : c \in h.reveal
               \/ \E g \in flights' : g.live /\ g.card = c
    <3>1. CASE G!Table(view) /\ view.hand # {}
      <4>1. PICK R \in SUBSET f.reveal :
              /\ Cardinality(R) = (IF f.count < Cardinality(f.reveal) THEN f.count
                                   ELSE Cardinality(f.reveal))
              /\ flights' = flights \cup {[kind |-> f.kind, n |-> Len(shown), card |-> d,
                                           live |-> TRUE] : d \in R}
              /\ concealed' = concealed
        BY <3>1, SameCardinality DEF G!StartFlights
      <4>2. R = f.reveal
        <5>1. IsFiniteSet(f.reveal) /\ Cardinality(f.reveal) <= f.count
          BY <2>1
        <5>2. Cardinality(f.reveal) \in Nat
          BY <5>1, FS_CardinalityType
        <5>3. ~(f.count < Cardinality(f.reveal))
          BY <2>1, <5>1, <5>2
        <5> QED  BY <4>1, <5>1, <5>3, FS_Subset
      <4>3. c \in f.reveal => \E g \in flights' : g.live /\ g.card = c
        <5> SUFFICES ASSUME c \in f.reveal PROVE \E g \in flights' : g.live /\ g.card = c
          OBVIOUS
        <5> DEFINE g == [kind |-> f.kind, n |-> Len(shown), card |-> c, live |-> TRUE]
        <5>1. g \in flights' /\ g.live /\ g.card = c
          BY <4>1, <4>2
        <5> QED  BY <5>1
      <4> QED  BY <1>1, <2>1, <4>1, <4>3
    <3>2. CASE ~(G!Table(view) /\ view.hand # {})
      <4>1. concealed' = concealed \ f.reveal /\ flights' = flights
        BY <3>2 DEF G!StartFlights
      <4> QED  BY <1>1, <2>1, <4>1
    <3> QED  BY <3>1, <3>2
  <2>4. ~G!Table(view) => flights' = {}
    BY <2>1 DEF G!StartFlights
  <2> HIDE DEF Leaving
  <2> QED  BY <1>1, <2>1, <2>2, <2>3, <2>4 DEF FlightsFit
<1> QED  BY <1>2, <1>3 DEF FlightInv

LEMMA LandKeepsFlights ==
    ASSUME FlightInv, NEW g \in flights, G!Land(g)
    PROVE  FlightInv'
<1>1. /\ table' = table /\ messages' = messages /\ view' = view /\ pickup' = pickup
      /\ piles' = piles /\ shown' = shown /\ hasty' = hasty /\ drops' = drops
      /\ frames' = frames
      /\ flights' = flights \ {g} /\ concealed' = concealed \ {g.card}
  BY DEF G!Land
<1>2. FlightTypes' /\ PickUpFits' /\ MessagesLead'
  BY <1>1 DEF FlightInv, FlightTypes, PickUpFits, MessagesLead, Owed, Now, Here
<1>3. FlightsFit'
  BY <1>1 DEF FlightInv, FlightsFit
<1> QED  BY <1>2, <1>3 DEF FlightInv

\* What the room tells about a table that is played on disturbs no flight.
LEMMA TablesKeepFlights ==
    ASSUME FlightInv, NEW r \in Seq(Message), messages' = messages \o r,
           UNCHANGED <<view, frames, flights, concealed, hasty, drops>>,
           "me" \notin table'.returned,
           \A i \in 1..Len(r) : r[i].type = "state" => G!Table(r[i])
    PROVE  FlightsFit'
<1>1. messages \in Seq(Message)
  BY DEF FlightInv, FlightTypes
<1>2. ASSUME NEW i \in 1..Len(messages')
      PROVE  \/ i \in 1..Len(messages) /\ messages'[i] = messages[i]
             \/ ~Leaving(messages'[i])
  <2>1. CASE i \in 1..Len(messages)
    BY <1>1, <2>1
  <2>2. CASE i \notin 1..Len(messages)
    <3>1. i - Len(messages) \in 1..Len(r) /\ messages'[i] = r[i - Len(messages)]
      BY <1>1, <2>2
    <3> QED  BY <3>1 DEF Leaving
  <2> QED  BY <2>1, <2>2
<1>3. ASSUME ~hasty, drops = 0, NEW i \in 1..Len(messages'), Leaving(messages'[i])
      PROVE  frames = {} /\ flights = {} /\ \A j \in 1..i : Leaving(messages'[j])
  <2>1. i \in 1..Len(messages) /\ Leaving(messages[i])
    BY <1>2, <1>3
  <2>2. frames = {} /\ flights = {} /\ \A j \in 1..i : Leaving(messages[j])
    BY <1>3, <2>1 DEF FlightInv, FlightsFit
  <2>3. \A j \in 1..i : messages'[j] = messages[j]
    BY <1>1, <2>1
  <2> QED  BY <2>2, <2>3
<1>4. "me" \notin table'.returned
  OBVIOUS
<1> HIDE DEF Leaving
<1> QED  BY <1>3, <1>4 DEF FlightInv, FlightsFit

LEMMA PilesKeepPickUps ==
    ASSUME FlightInv, UNCHANGED <<view, pickup, shown, drops>>, piles' \in Seq(PickUps),
           Len(piles) <= Len(piles'), \A i \in 1..Len(piles) : piles'[i] = piles[i]
    PROVE  PickUpFits'
<1>1. CASE drops # 0
  BY <1>1 DEF PickUpFits
<1>2. CASE drops = 0
  <2>1. /\ Len(shown) \in Nat /\ Len(piles) \in Nat /\ Len(piles') \in Nat
        /\ Len(shown) <= Len(piles)
        /\ \A i \in 1..Len(shown) : shown[i] = piles[i]
        /\ pickup # G!NoPickup =>
             /\ Len(shown) + 1 <= Len(piles) /\ pickup = piles[Len(shown) + 1]
             /\ pickup.count = view.pile /\ pickup.count > 0
    BY <1>2 DEF FlightInv, FlightTypes, PickUpFits
  <2>2. Len(shown) <= Len(piles') /\ \A i \in 1..Len(shown) : shown[i] = piles'[i]
    BY <2>1
  <2>3. pickup # G!NoPickup =>
          Len(shown) + 1 <= Len(piles') /\ pickup = piles'[Len(shown) + 1]
    BY <2>1
  <2> QED  BY <2>1, <2>2, <2>3 DEF PickUpFits
<1> QED  BY <1>1, <1>2

\* A state alone, of a table that is played on.
LEMMA DealKeepsFlights ==
    ASSUME FlightInv, G!Deal \/ G!Burn
    PROVE  FlightInv'
<1>1. /\ TableFine(table') /\ table'.phase = "playing" /\ table'.returned = {}
      /\ messages' = messages \o <<G!State(table')>>
  BY DealTable, BurnTable DEF FlightInv, TableFine
<1>2. /\ UNCHANGED <<view, pickup, frames, flights, concealed, shown, piles, hasty, drops>>
      /\ hasty' \in BOOLEAN
  BY DEF G!Deal, G!Burn, G!Page, FlightInv, FlightTypes
<1>3. FlightTypes' /\ MessagesLead'
  BY <1>1, <1>2, StateAlone
<1>4. PickUpFits'
  BY <1>2, PilesKeepPickUps DEF FlightInv, FlightTypes
<1>5. G!State(table') \in Message /\ G!Table(G!State(table'))
  <2>1. G!State(table').phase = table'.phase
    BY DEF G!State
  <2> QED  BY <1>1, <2>1, RoomMessages DEF TableFine, G!Players, G!Table
<1>6. FlightsFit'
  <2> DEFINE r == <<G!State(table')>>
  <2>1. r \in Seq(Message) /\ \A i \in 1..Len(r) : r[i].type = "state" => G!Table(r[i])
    BY <1>5
  <2>2. messages' = messages \o r
    BY <1>1
  <2> HIDE DEF r
  <2> QED  BY <1>1, <1>2, <2>1, <2>2, TablesKeepFlights
<1> QED  BY <1>3, <1>4, <1>6 DEF FlightInv

\* A win, confirmed by whoever moves next.
LEMMA WonTable ==
    ASSUME FlightInv, TableFine(table'), table.phase = "playing",
           table'.phase = "finished", table'.returned = {},
           messages' = messages \o <<G!Won(table'), G!State(table')>>,
           UNCHANGED <<view, pickup, frames, flights, concealed, shown, piles, hasty, drops>>
    PROVE  FlightInv'
<1>1. hasty' \in BOOLEAN
  BY DEF FlightInv, FlightTypes
<1>2. FlightTypes' /\ MessagesLead'
  BY <1>1, WonAndState
<1>3. PickUpFits'
  BY PilesKeepPickUps DEF FlightInv, FlightTypes
<1>4. FlightsFit'
  <2> DEFINE r == <<G!Won(table'), G!State(table')>>
  <2>1. /\ G!Won(table') \in Message /\ G!Won(table').type = "won"
        /\ G!State(table') \in Message
    BY RoomMessages DEF TableFine, G!Players
  <2>2. G!Table(G!State(table'))
    BY DEF G!Table, G!State
  <2>3. r \in Seq(Message) /\ Len(r) = 2 /\ r[1] = G!Won(table') /\ r[2] = G!State(table')
    BY <2>1
  <2>4. messages' = messages \o r
    OBVIOUS
  <2> HIDE DEF r
  <2>5. \A i \in 1..Len(r) : i = 1 \/ i = 2
    BY <2>3
  <2>6. \A i \in 1..Len(r) : r[i].type = "state" => G!Table(r[i])
    BY <2>1, <2>2, <2>3, <2>5
  <2> QED  BY <2>3, <2>4, <2>6, TablesKeepFlights
<1> QED  BY <1>2, <1>3, <1>4 DEF FlightInv

LEMMA ConfirmKeepsFlights ==
    ASSUME FlightInv, G!Confirm
    PROVE  FlightInv'
<1>1. /\ TableFine(table') /\ table.phase = "playing"
      /\ table'.phase = "finished" /\ table'.returned = {}
      /\ messages' = messages \o <<G!Won(table'), G!State(table')>>
  BY ConfirmTable DEF FlightInv
<1>2. UNCHANGED <<view, pickup, frames, flights, concealed, shown, piles, hasty, drops>>
  BY DEF G!Confirm, G!Page
<1> QED  BY <1>1, <1>2, WonTable

LEMMA PlayKeepsFlights ==
    ASSUME FlightInv, NEW p \in G!Players, NEW X \in SUBSET table.hand[p], G!Play(p, X)
    PROVE  FlightInv'
<1>1. /\ TableFine(table') /\ table.phase = "playing"
      /\ table'.phase \in {"playing", "finished"} /\ table'.returned = {}
      /\ messages' = messages \o (IF table'.phase = "finished"
                                    THEN <<G!Won(table'), G!State(table')>>
                                    ELSE <<G!State(table')>>)
  BY PlayTable DEF FlightInv
<1>2. /\ UNCHANGED <<view, pickup, frames, flights, concealed, shown, piles, hasty, drops>>
      /\ hasty' \in BOOLEAN
  BY DEF G!Play, G!Page, FlightInv, FlightTypes
<1>3. CASE table'.phase = "finished"
  BY <1>1, <1>2, <1>3, WonTable
<1>4. CASE table'.phase = "playing"
  <2> DEFINE r == <<G!State(table')>>
  <2>1. messages' = messages \o <<G!State(table')>>
    BY <1>1, <1>4
  <2>2. FlightTypes' /\ MessagesLead'
    BY <1>1, <1>2, <2>1, StateAlone
  <2>3. PickUpFits'
    BY <1>2, PilesKeepPickUps DEF FlightInv, FlightTypes
  <2>4. G!State(table') \in Message /\ G!Table(G!State(table'))
    <3>1. G!State(table').phase = table'.phase
      BY DEF G!State
    <3> QED  BY <1>1, <1>4, <3>1, RoomMessages DEF TableFine, G!Players, G!Table
  <2>5. r \in Seq(Message) /\ \A i \in 1..Len(r) : r[i].type = "state" => G!Table(r[i])
    BY <2>4
  <2>6. messages' = messages \o r
    BY <2>1
  <2> HIDE DEF r
  <2>7. FlightsFit'
    BY <1>1, <1>2, <2>5, <2>6, TablesKeepFlights
  <2> QED  BY <2>2, <2>3, <2>7 DEF FlightInv
<1> QED  BY <1>1, <1>3, <1>4

LEMMA ChallengeKeepsFlights ==
    ASSUME FlightInv, NEW bluff \in BOOLEAN, G!Challenge(bluff)
    PROVE  FlightInv'
<1>1. PICK loser \in G!Players :
        /\ TableFine(table') /\ table.phase = "playing"
        /\ table'.phase \in {"playing", "finished"} /\ table'.returned = {}
        /\ piles' = Append(piles, [to |-> loser, count |-> Cardinality(table.pile)])
        /\ messages' = messages
             \o ((IF table'.phase = "finished" THEN <<G!Won(table')>> ELSE <<>>)
                   \o <<G!Result(table, loser), G!State(table')>>)
  BY ChallengeTable DEF FlightInv
<1>2. FlightTypes' /\ MessagesLead'
  BY ChallengeTells
<1>3. UNCHANGED <<view, pickup, frames, flights, concealed, shown, hasty, drops>>
  BY DEF G!Challenge, G!Page
<1>4. PickUpFits'
  <2>1. /\ piles' \in Seq(PickUps) /\ piles \in Seq(PickUps)
        /\ Len(piles') = Len(piles) + 1 /\ Len(piles) \in Nat
        /\ \A i \in 1..Len(piles) : piles'[i] = piles[i]
    BY <1>1, <1>2 DEF FlightInv, FlightTypes
  <2> QED  BY <1>3, <2>1, PilesKeepPickUps
<1>5. FlightsFit'
  <2> DEFINE w == G!Won(table')
             k == G!Result(table, loser)
             m == G!State(table')
  <2>1. /\ w \in Message /\ w.type = "won" /\ k \in Message /\ k.type = "challenge"
        /\ m \in Message
    BY <1>1, RoomMessages DEF FlightInv, FlightTypes, TableFine
  <2>2. G!Table(m)
    BY <1>1 DEF G!Table, G!State
  <2> HIDE DEF w, k, m
  <2>3. PICK r \in Seq(Message) : /\ messages' = messages \o r
                                  /\ \A i \in 1..Len(r) : r[i] \in {w, k, m}
    <3>1. CASE table'.phase = "finished"
      <4> DEFINE r == <<w>> \o <<k, m>>
      <4>1. r \in Seq(Message) /\ Len(r) = 3 /\ r[1] = w /\ r[2] = k /\ r[3] = m
        BY <2>1
      <4>2. messages' = messages \o r
        BY <1>1, <3>1 DEF w, k, m
      <4> HIDE DEF r
      <4>3. \A i \in 1..Len(r) : i = 1 \/ i = 2 \/ i = 3
        BY <4>1
      <4> QED  BY <4>1, <4>2, <4>3
    <3>2. CASE table'.phase # "finished"
      <4> DEFINE r == <<>> \o <<k, m>>
      <4>1. r \in Seq(Message) /\ Len(r) = 2 /\ r[1] = k /\ r[2] = m
        BY <2>1
      <4>2. messages' = messages \o r
        BY <1>1, <3>2 DEF w, k, m
      <4> HIDE DEF r
      <4>3. \A i \in 1..Len(r) : i = 1 \/ i = 2
        BY <4>1
      <4> QED  BY <4>1, <4>2, <4>3
    <3> QED  BY <3>1, <3>2
  <2>4. \A i \in 1..Len(r) : r[i].type = "state" => G!Table(r[i])
    BY <2>1, <2>2, <2>3
  <2> QED  BY <1>1, <1>3, <2>3, <2>4, TablesKeepFlights
<1> QED  BY <1>2, <1>4, <1>5 DEF FlightInv

\* A return that is not hasty is told to a page on which nothing flies.
LEMMA ReturnKeepsFlights ==
    ASSUME FlightInv, G!Return
    PROVE  FlightInv'
<1>1. /\ TableFine(table') /\ table'.phase = "finished" /\ "me" \in table'.returned
      /\ messages' = messages \o <<G!State(table')>>
  BY ReturnTable DEF FlightInv
<1>2. /\ UNCHANGED <<view, pickup, frames, flights, concealed, shown, piles, drops>>
      /\ frames = {}
      /\ hasty' = (hasty \/ flights # {} \/ messages # <<>>)
  BY DEF G!Return, G!Page
<1>3. hasty' \in BOOLEAN
  <2>1. (hasty \/ flights # {} \/ messages # <<>>) \in BOOLEAN
    BY Zenon
  <2> QED  BY <1>2, <2>1
<1>4. FlightTypes' /\ MessagesLead'
  BY <1>1, <1>2, <1>3, StateAlone
<1>5. PickUpFits'
  BY <1>2, PilesKeepPickUps DEF FlightInv, FlightTypes
<1>6. FlightsFit'
  <2> SUFFICES ASSUME ~hasty', drops' = 0 PROVE FlightsFit'
    BY DEF FlightsFit
  <2>1. ~hasty /\ flights = {} /\ messages = <<>> /\ drops = 0
    BY <1>2
  <2>2. concealed = {}
    BY <1>2, <2>1 DEF FlightInv, FlightsFit
  <2>3. Len(messages') = 1 /\ messages'[1] = G!State(table')
    <3>1. G!State(table') \in Message
      BY <1>1, RoomMessages DEF TableFine, G!Players
    <3> QED  BY <1>1, <2>1, <3>1
  <2>4. Leaving(G!State(table'))
    BY <1>1, RoomMessages DEF Leaving, G!Table, G!State
  <2>5. \A i \in 1..Len(messages') : Leaving(messages'[i])
    <3>1. \A i \in 1..1 : i = 1
      OBVIOUS
    <3> QED  BY <2>3, <2>4, <3>1
  <2> HIDE DEF Leaving
  <2>6. frames' = {} /\ flights' = {} /\ concealed' = {}
    BY <1>2, <2>1, <2>2
  <2>7. \A i \in 1..Len(messages') : \A j \in 1..i : j \in 1..Len(messages')
    BY <2>3
  <2> QED  BY <2>5, <2>6, <2>7 DEF FlightsFit
<1> QED  BY <1>4, <1>5, <1>6 DEF FlightInv

\* The other player returns before the player or after.
LEMMA OtherReturnKeepsFlights ==
    ASSUME FlightInv, G!OtherReturns
    PROVE  FlightInv'
<1>1. /\ TableFine(table') /\ table'.phase = "finished"
      /\ "me" \in table'.returned <=> "me" \in table.returned
      /\ messages' = messages \o <<G!State(table')>>
  BY OtherReturnTable DEF FlightInv
<1>2. /\ UNCHANGED <<view, pickup, frames, flights, concealed, shown, piles, hasty, drops>>
      /\ hasty' \in BOOLEAN
  BY DEF G!OtherReturns, G!Page, FlightInv, FlightTypes
<1>3. FlightTypes' /\ MessagesLead'
  BY <1>1, <1>2, StateAlone
<1>4. PickUpFits'
  BY <1>2, PilesKeepPickUps DEF FlightInv, FlightTypes
<1>5. /\ G!State(table') \in Message /\ G!State(table').type = "state"
      /\ G!State(table').phase = "finished" /\ G!State(table').returned = table'.returned
  BY <1>1, RoomMessages DEF TableFine, G!Players, G!State
<1>6. CASE "me" \notin table.returned
  <2> DEFINE r == <<G!State(table')>>
  <2>1. r \in Seq(Message) /\ \A i \in 1..Len(r) : r[i].type = "state" => G!Table(r[i])
    BY <1>1, <1>5, <1>6 DEF G!Table
  <2>2. messages' = messages \o r
    BY <1>1
  <2> HIDE DEF r
  <2>3. FlightsFit'
    BY <1>1, <1>2, <1>6, <2>1, <2>2, TablesKeepFlights
  <2> QED  BY <1>3, <1>4, <2>3 DEF FlightInv
<1>7. CASE "me" \in table.returned
  <2>1. Leaving(G!State(table'))
    BY <1>1, <1>5, <1>7 DEF Leaving, G!Table
  <2>2. FlightsFit'
    <3> SUFFICES ASSUME ~hasty, drops = 0 PROVE FlightsFit'
      BY <1>2 DEF FlightsFit
    <3>1. /\ frames = {} /\ flights = {} /\ \A j \in 1..Len(messages) : Leaving(messages[j])
          /\ \A c \in concealed : \/ \E f \in frames : c \in f.reveal
                                  \/ \E g \in flights : g.live /\ g.card = c
      BY <1>7 DEF FlightInv, FlightsFit
    <3>2. \A j \in 1..Len(messages') : Leaving(messages'[j])
      <4> SUFFICES ASSUME NEW j \in 1..Len(messages') PROVE Leaving(messages'[j])
        OBVIOUS
      <4>1. messages \in Seq(Message)
        BY DEF FlightInv, FlightTypes
      <4>2. \/ j \in 1..Len(messages) /\ messages'[j] = messages[j]
            \/ messages'[j] = G!State(table')
        BY <1>1, <1>5, <4>1
      <4> QED  BY <2>1, <3>1, <4>2
    <3>3. frames' = {} /\ flights' = {} /\ concealed' = {}
      BY <1>2, <3>1
    <3>4. \A i \in 1..Len(messages') : \A j \in 1..i : j \in 1..Len(messages')
      BY <1>3 DEF FlightTypes
    <3> HIDE DEF Leaving
    <3> QED  BY <3>2, <3>3, <3>4 DEF FlightsFit
  <2> QED  BY <1>3, <1>4, <2>2 DEF FlightInv
<1> QED  BY <1>6, <1>7

LEMMA FlightSteps ==
    ASSUME FlightInv, G!Next
    PROVE  FlightInv'
<1>1. CASE G!Deal \/ G!Burn
  BY <1>1, DealKeepsFlights
<1>2. CASE G!Confirm
  BY <1>2, ConfirmKeepsFlights
<1>3. CASE G!Return
  BY <1>3, ReturnKeepsFlights
<1>4. CASE G!Drop
  BY <1>4, DropKeepsFlights
<1>5. CASE G!Receive
  BY <1>5, ReceiveKeepsFlights
<1>6. ASSUME NEW p \in G!Players, NEW X \in SUBSET table.hand[p], G!Play(p, X) PROVE FlightInv'
  BY <1>6, PlayKeepsFlights
<1>7. ASSUME NEW bluff \in BOOLEAN, G!Challenge(bluff) PROVE FlightInv'
  BY <1>7, ChallengeKeepsFlights
<1>8. ASSUME NEW f \in frames, G!StartFlights(f) PROVE FlightInv'
  BY <1>8, StartsKeepFlights
<1>9. ASSUME NEW g \in flights, G!Land(g) PROVE FlightInv'
  BY <1>9, LandKeepsFlights
<1>10. CASE G!OtherReturns
  BY <1>10, OtherReturnKeepsFlights
<1> QED  BY <1>1, <1>2, <1>3, <1>4, <1>5, <1>6, <1>7, <1>8, <1>9, <1>10 DEF G!Next

LEMMA FlightsStart == G!Init => FlightInv
<1> SUFFICES ASSUME G!Init PROVE FlightInv
  OBVIOUS
<1>1. /\ table = [phase |-> "lobby", hand |-> [p \in G!Players |-> {}], pile |-> {},
                  by |-> "none", returned |-> {}]
      /\ messages = <<>> /\ pickup = G!NoPickup /\ frames = {} /\ flights = {}
      /\ view = [phase |-> "lobby", hand |-> {}, pile |-> 0, returned |-> {}]
      /\ concealed = {} /\ piles = <<>> /\ shown = <<>> /\ hasty = FALSE /\ drops = 0
  BY DEF G!Init
<1>2. TableFine(table)
  BY <1>1 DEF TableFine, Tables, Phases, Sides
<1>3. view \in Scenes /\ pickup \in PickUps
  BY <1>1 DEF Scenes, Phases, PickUps, Sides, G!NoPickup
<1>4. FlightTypes
  <2>1. messages \in Seq(Message) /\ piles \in Seq(PickUps) /\ shown \in Seq(PickUps)
    BY <1>1, EmptySeq
  <2>2. hasty \in BOOLEAN /\ drops \in Nat
    BY <1>1
  <2> QED  BY <1>2, <1>3, <2>1, <2>2 DEF FlightTypes
<1>5. Now = Here
  <2>1. Here.view.hand = {} /\ Here.view.pile = 0 /\ Here.view.phase = "lobby"
        /\ Here \in Snaps /\ Now \in Snaps
    <3>1. Cardinality({}) = 0
      BY FS_EmptySet
    <3> QED  BY <1>1, <1>4, <3>1, HereIsSnap DEF G!Players
  <2>2. Here.n = 0 /\ ~Here.owed /\ Here.view \in Sights
    BY <1>1, <2>1 DEF Here, Snaps
  <2>3. Now.view = SightOf(view) /\ Now.n = 0 /\ ~Now.owed
    <3>1. Len(shown) = 0 /\ Owed = 0
      BY <1>1 DEF Owed
    <3>2. Now = [view |-> SightOf(view), n |-> Len(shown) + Owed, owed |-> pickup # G!NoPickup]
      BY DEF Now
    <3>3. Now.view = SightOf(view) /\ Now.n = Len(shown) + Owed
      BY <3>2
    <3>4. (Now.owed = TRUE) <=> pickup # G!NoPickup
      BY <3>2
    <3> QED  BY <1>1, <2>1, <3>1, <3>3, <3>4 DEF Snaps
  <2>4. Here.view = SightOf(view)
    BY <1>1, <2>1, <2>2 DEF Sights, SightOf
  <2> QED  BY <2>1, <2>2, <2>3, <2>4 DEF Snaps
<1>6. MessagesLead
  <2>1. Here \in Snaps /\ Here.n <= Len(piles) /\ Here.n = 0
    BY <1>1, <1>4, HereIsSnap DEF Here
  <2>2. \A s \in Snaps : \A P, exact : s.n <= Len(P) => Leads(s, <<>>, s, P, exact)
    BY LeadsNowhere
  <2>3. Leads(Here, messages, Here, piles, drops = 0)
    BY <1>1, <2>1, <2>2
  <2>4. Here.n >= Len(shown) + Owed
    BY <1>1, <2>1 DEF Owed
  <2> QED  BY <1>5, <2>1, <2>3, <2>4 DEF MessagesLead
<1>7. PickUpFits /\ FlightsFit
  BY <1>1 DEF PickUpFits, FlightsFit
<1> QED  BY <1>4, <1>6, <1>7 DEF FlightInv

LEMMA FlightsBring ==
    ASSUME FlightInv
    PROVE  G!HandIsShown /\ G!PickupsAreThePiles
<1>1. G!HandIsShown
  <2> SUFFICES ASSUME G!AtRest, G!Table(view), ~hasty, drops = 0
               PROVE  G!Choosable = view.hand
    BY DEF G!HandIsShown
  <2>1. concealed = {}
    BY DEF FlightInv, FlightsFit, G!AtRest
  <2> QED  BY <2>1 DEF G!Choosable
<1>2. CASE drops = 0
  <2>1. /\ shown \in Seq(PickUps) /\ piles \in Seq(PickUps) /\ Len(shown) <= Len(piles)
        /\ \A i \in 1..Len(shown) : shown[i] = piles[i]
    BY <1>2 DEF FlightInv, FlightTypes, PickUpFits
  <2>2. Len(shown) \in Nat /\ Len(piles) \in Nat
    BY <2>1
  <2>3. /\ SubSeq(piles, 1, Len(shown)) \in Seq(PickUps)
        /\ Len(SubSeq(piles, 1, Len(shown))) = Len(shown)
        /\ \A i \in 1..Len(shown) : SubSeq(piles, 1, Len(shown))[i] = piles[i]
    BY <2>1, <2>2
  <2>4. /\ SubSeq(shown, 1, Len(shown)) \in Seq(PickUps)
        /\ Len(SubSeq(shown, 1, Len(shown))) = Len(shown)
        /\ \A i \in 1..Len(shown) : SubSeq(shown, 1, Len(shown))[i] = shown[i]
    BY <2>1, <2>2
  <2>5. SubSeq(piles, 1, Len(shown)) = SubSeq(shown, 1, Len(shown))
    BY <2>1, <2>3, <2>4, SeqEqual
  <2> QED  BY <1>1, <1>2, <2>1, <2>5 DEF G!PickupsAreThePiles, G!IsPrefix
<1>3. CASE drops # 0
  <2>1. PICK s \in Snaps, t \in Snaps : /\ Leads(s, messages, t, piles, drops = 0)
                                        /\ s.n >= Len(shown) + Owed
    BY DEF FlightInv, MessagesLead
  <2>2. 0 \in 0..Len(messages) /\ Len(shown) \in Nat /\ Len(piles) \in Nat /\ Owed \in Nat
    BY DEF FlightInv, FlightTypes, Owed
  <2>3. s.n <= Len(piles)
    BY <2>1, <2>2 DEF Leads
  <2>4. Len(shown) <= Len(piles)
    BY <2>1, <2>2, <2>3 DEF Snaps
  <2> QED  BY <1>1, <1>3, <2>4 DEF G!PickupsAreThePiles
<1> QED  BY <1>1, <1>2, <1>3

\* However results and states follow each other, wins come in between, messages
\* are dropped, and matches and rounds follow: a pick-up that is shown is the next
\* of the room's, never one twice; and what was concealed for a flight is shown
\* again, unless a message was dropped or the lobby took the place of the table
\* while cards were still to land.
THEOREM HandIsBrought == Spec => []FlightsBringTheHand
<1> DEFINE Inv == part = "flights" => FlightInv
<1>1. Init => Inv
  BY FlightsStart DEF Init
<1>2. Inv /\ [Next]_vars => Inv'
  <2>1. UNCHANGED vars => UNCHANGED <<part, flightVars>>
    BY DEF vars
  <2>2. UNCHANGED <<part, flightVars>> /\ Inv => Inv'
    <3> SUFFICES ASSUME UNCHANGED <<part, flightVars>>, FlightInv PROVE FlightInv'
      OBVIOUS
    <3>1. Now' = Now /\ Here' = Here /\ Owed' = Owed
      BY DEF flightVars, Now, Here, Owed
    <3>2. FlightTypes' /\ PickUpFits'
      BY DEF flightVars, FlightInv, FlightTypes, PickUpFits
    <3>3. MessagesLead'
      BY <3>1 DEF flightVars, FlightInv, MessagesLead
    <3>4. FlightsFit'
      <4> HIDE DEF Leaving
      <4> QED  BY DEF flightVars, FlightInv, FlightsFit
    <3> QED  BY <3>2, <3>3, <3>4 DEF FlightInv
  <2>3. Next => part' = part /\ (part = "flights" => G!Next)
    BY DEF Next
  <2> QED  BY <2>1, <2>2, <2>3, FlightSteps
<1>3. Inv => FlightsBringTheHand
  BY FlightsBring DEF FlightsBringTheHand
<1> QED  BY <1>1, <1>2, <1>3, PTL DEF Spec
-----------------------------------------------------------------------------
(* The opening declaration.  The composers of both sizes are the same but for *)
(* their groups, so each step is looked at for both.                         *)

Composing == part \in {"composer", "limit"}
GroupsOf(n) == IF part = "composer" THEN C!GroupCounts(n) ELSE L!GroupCounts(n)
MyHand   == room.hands[Me]
Opened   == room.phase = "playing" /\ room.turn = Me /\ room.stackCount = 0
BarIsOn  == /\ room.phase = "playing" /\ Me \in room.online /\ Me \notin room.done
            /\ sent = NoMove

\* A declaration is on the page only while the player may open, and it has a group
\* for the cards that were selected when it came up: these stay selected and in the
\* hand as long as it is there.
FormFits ==
    /\ "hands" \in DOMAIN room /\ "phase" \in DOMAIN room
    /\ page = [selected |-> page.selected, wants |-> page.wants, form |-> page.form]
    /\ page.form # NoForm =>
         /\ page.wants /\ Opened /\ BarIsOn
         /\ page.form = [ranks |-> page.form.ranks, active |-> page.form.active]
         /\ page.form.ranks = [i \in DOMAIN page.form.ranks |-> page.form.ranks[i]]
         /\ DOMAIN page.form.ranks = DOMAIN GroupsOf(Cardinality(page.selected \cap MyHand))

\* The two composers see the same page.
LEMMA SamePage ==
    /\ (C!Opening <=> Opened) /\ (L!Opening <=> Opened)
    /\ (C!BarShown <=> BarIsOn) /\ (L!BarShown <=> BarIsOn)
    /\ C!Hand = MyHand /\ L!Hand = MyHand
    /\ \A A : C!Cardinality(A) = Cardinality(A) /\ L!Cardinality(A) = Cardinality(A)
<1>1. \A A : C!Cardinality(A) = Cardinality(A)
  BY DEF C!Cardinality, Cardinality
<1>2. \A A : L!Cardinality(A) = Cardinality(A)
  BY DEF L!Cardinality, Cardinality
<1> QED  BY <1>1, <1>2 DEF C!Opening, L!Opening, Opened, C!BarShown, L!BarShown, BarIsOn,
              C!Hand, L!Hand, MyHand

\* No step of the room loses a field of it.
LEMMA FieldsOfHelpers ==
    ASSUME NEW s
    PROVE  /\ \A p : DOMAIN C!SetCurrentTurn(s, p) = DOMAIN s /\ DOMAIN L!SetCurrentTurn(s, p) = DOMAIN s
           /\ DOMAIN C!ClearRound(s) = DOMAIN s /\ DOMAIN L!ClearRound(s) = DOMAIN s
           /\ DOMAIN C!FinishMatch(s) = DOMAIN s /\ DOMAIN L!FinishMatch(s) = DOMAIN s
           /\ DOMAIN C!MaybeEndGame(s) = DOMAIN s /\ DOMAIN L!MaybeEndGame(s) = DOMAIN s
           /\ DOMAIN C!ConfirmPendingFinish(s) = DOMAIN s
           /\ DOMAIN L!ConfirmPendingFinish(s) = DOMAIN s
<1>1. \A p : DOMAIN C!SetCurrentTurn(s, p) = DOMAIN s /\ DOMAIN L!SetCurrentTurn(s, p) = DOMAIN s
  BY DEF C!SetCurrentTurn, L!SetCurrentTurn
<1>2. DOMAIN C!ClearRound(s) = DOMAIN s /\ DOMAIN L!ClearRound(s) = DOMAIN s
  BY DEF C!ClearRound, L!ClearRound
<1>3. \A t : DOMAIN C!FinishMatch(t) = DOMAIN t /\ DOMAIN L!FinishMatch(t) = DOMAIN t
  BY DEF C!FinishMatch, L!FinishMatch, C!SetCurrentTurn, L!SetCurrentTurn
<1>4. DOMAIN C!MaybeEndGame(s) = DOMAIN s /\ DOMAIN L!MaybeEndGame(s) = DOMAIN s
  BY <1>3 DEF C!MaybeEndGame, L!MaybeEndGame
<1>5. DOMAIN C!ConfirmPendingFinish(s) = DOMAIN s
  BY <1>3 DEF C!ConfirmPendingFinish
<1>6. DOMAIN L!ConfirmPendingFinish(s) = DOMAIN s
  BY <1>3 DEF L!ConfirmPendingFinish
<1> QED  BY <1>1, <1>2, <1>3, <1>4, <1>5, <1>6

LEMMA FieldsOfSkips ==
    ASSUME NEW s, NEW p
    PROVE  DOMAIN C!ApplySkip(s, p) = DOMAIN s /\ DOMAIN L!ApplySkip(s, p) = DOMAIN s
<1>1. \A t, q : DOMAIN C!SetCurrentTurn(C!ClearRound(t), q) = DOMAIN t
                /\ DOMAIN L!SetCurrentTurn(L!ClearRound(t), q) = DOMAIN t
  BY DEF C!SetCurrentTurn, L!SetCurrentTurn, C!ClearRound, L!ClearRound
<1>2. \A t, q : DOMAIN C!MaybeEndGame(C!SetCurrentTurn(t, q)) = DOMAIN t
                /\ DOMAIN L!MaybeEndGame(L!SetCurrentTurn(t, q)) = DOMAIN t
  <2> TAKE t, q
  <2>1. DOMAIN C!SetCurrentTurn(t, q) = DOMAIN t /\ DOMAIN L!SetCurrentTurn(t, q) = DOMAIN t
    BY FieldsOfHelpers
  <2> QED  BY <2>1, FieldsOfHelpers
<1>3. \A t, q : DOMAIN C!ResolveAllPass(t, q) = DOMAIN t
  <2> TAKE t, q
  <2> DEFINE u == IF C!PendingFinishIsTopPlay(t) THEN C!ConfirmPendingFinish(t) ELSE t
  <2>1. DOMAIN u = DOMAIN t
    BY FieldsOfHelpers
  <2>2. C!ResolveAllPass(t, q)
          = IF u.phase # "playing" THEN [u EXCEPT !.skips = <<>>]
            ELSE C!SetCurrentTurn(C!ClearRound(u),
                                  C!GetNextPlayerID(u, C!LastSkipper(u, q)))
    BY DEF C!ResolveAllPass
  <2>3. DOMAIN C!SetCurrentTurn(C!ClearRound(u), C!GetNextPlayerID(u, C!LastSkipper(u, q)))
          = DOMAIN u
    BY <1>1
  <2> QED  BY <2>1, <2>2, <2>3
<1>4. \A t, q : DOMAIN L!ResolveAllPass(t, q) = DOMAIN t
  <2> TAKE t, q
  <2> DEFINE u == IF L!PendingFinishIsTopPlay(t) THEN L!ConfirmPendingFinish(t) ELSE t
  <2>1. DOMAIN u = DOMAIN t
    BY FieldsOfHelpers
  <2>2. L!ResolveAllPass(t, q)
          = IF u.phase # "playing" THEN [u EXCEPT !.skips = <<>>]
            ELSE L!SetCurrentTurn(L!ClearRound(u),
                                  L!GetNextPlayerID(u, L!LastSkipper(u, q)))
    BY DEF L!ResolveAllPass
  <2>3. DOMAIN L!SetCurrentTurn(L!ClearRound(u), L!GetNextPlayerID(u, L!LastSkipper(u, q)))
          = DOMAIN u
    BY <1>1
  <2> QED  BY <2>1, <2>2, <2>3
<1>5. \A t : DOMAIN C!RecordSkip(t, p) = DOMAIN t /\ DOMAIN L!RecordSkip(t, p) = DOMAIN t
  BY DEF C!RecordSkip, L!RecordSkip
<1>6. DOMAIN C!ApplySkip(s, p) = DOMAIN s
  <2> DEFINE noSkips == [s EXCEPT !.skips = <<>>]
             t == IF p \in C!Rotation(s) THEN C!RecordSkip(s, p) ELSE s
  <2>1. DOMAIN noSkips = DOMAIN s /\ DOMAIN t = DOMAIN s
    BY <1>5
  <2>2. DOMAIN C!MaybeEndGame(C!SetCurrentTurn(noSkips, C!GetNextPlayerID(s, p))) = DOMAIN noSkips
    BY <1>2
  <2>3. DOMAIN C!MaybeEndGame(C!SetCurrentTurn(t, C!GetNextPlayerID(t, p))) = DOMAIN t
    BY <1>2
  <2>4. DOMAIN C!MaybeEndGame(C!ResolveAllPass(t, p)) = DOMAIN t
    <3>1. DOMAIN C!ResolveAllPass(t, p) = DOMAIN t
      BY <1>3
    <3> HIDE DEF t
    <3> QED  BY <3>1, FieldsOfHelpers
  <2>5. C!ApplySkip(s, p)
          = IF s.topPlay = NoPlay \/ s.stackCount = 0
            THEN C!MaybeEndGame(C!SetCurrentTurn(noSkips, C!GetNextPlayerID(s, p)))
            ELSE C!MaybeEndGame(IF C!SkipRequirementsMet(t) THEN C!ResolveAllPass(t, p)
                                ELSE C!SetCurrentTurn(t, C!GetNextPlayerID(t, p)))
    BY DEF C!ApplySkip
  <2> HIDE DEF t, noSkips
  <2> QED  BY <2>1, <2>2, <2>3, <2>4, <2>5
<1>7. DOMAIN L!ApplySkip(s, p) = DOMAIN s
  <2> DEFINE noSkips == [s EXCEPT !.skips = <<>>]
             t == IF p \in L!Rotation(s) THEN L!RecordSkip(s, p) ELSE s
  <2>1. DOMAIN noSkips = DOMAIN s /\ DOMAIN t = DOMAIN s
    BY <1>5
  <2>2. DOMAIN L!MaybeEndGame(L!SetCurrentTurn(noSkips, L!GetNextPlayerID(s, p))) = DOMAIN noSkips
    BY <1>2
  <2>3. DOMAIN L!MaybeEndGame(L!SetCurrentTurn(t, L!GetNextPlayerID(t, p))) = DOMAIN t
    BY <1>2
  <2>4. DOMAIN L!MaybeEndGame(L!ResolveAllPass(t, p)) = DOMAIN t
    <3>1. DOMAIN L!ResolveAllPass(t, p) = DOMAIN t
      BY <1>4
    <3> HIDE DEF t
    <3> QED  BY <3>1, FieldsOfHelpers
  <2>5. L!ApplySkip(s, p)
          = IF s.topPlay = NoPlay \/ s.stackCount = 0
            THEN L!MaybeEndGame(L!SetCurrentTurn(noSkips, L!GetNextPlayerID(s, p)))
            ELSE L!MaybeEndGame(IF L!SkipRequirementsMet(t) THEN L!ResolveAllPass(t, p)
                                ELSE L!SetCurrentTurn(t, L!GetNextPlayerID(t, p)))
    BY DEF L!ApplySkip
  <2> HIDE DEF t, noSkips
  <2> QED  BY <2>1, <2>2, <2>3, <2>4, <2>5
<1> QED  BY <1>6, <1>7

LEMMA FieldsOfMoves ==
    ASSUME NEW p
    PROVE  /\ \A cards, claims : C!PlayCards(p, cards, claims) \/ L!PlayCards(p, cards, claims)
                 => DOMAIN room' = DOMAIN room
           /\ C!Challenge(p) \/ L!Challenge(p) => DOMAIN room' = DOMAIN room
           /\ C!Skip(p) \/ L!Skip(p) => DOMAIN room' = DOMAIN room
<1>1. ASSUME NEW cards, NEW claims, C!PlayCards(p, cards, claims) \/ L!PlayCards(p, cards, claims)
      PROVE  DOMAIN room' = DOMAIN room
  <2>1. \A s : DOMAIN C!PlaceCards(s, p, cards, claims) = DOMAIN s
               /\ DOMAIN L!PlaceCards(s, p, cards, claims) = DOMAIN s
    BY DEF C!PlaceCards, L!PlaceCards
  <2>2. \A s, covers : DOMAIN C!SettleFinishes(s, p, covers) = DOMAIN s
                       /\ DOMAIN L!SettleFinishes(s, p, covers) = DOMAIN s
    BY FieldsOfHelpers DEF C!SettleFinishes, L!SettleFinishes
  <2>3. CASE C!PlayCards(p, cards, claims)
    BY <2>1, <2>2, <2>3, FieldsOfHelpers DEF C!PlayCards
  <2>4. CASE L!PlayCards(p, cards, claims)
    BY <2>1, <2>2, <2>4, FieldsOfHelpers DEF L!PlayCards
  <2> QED  BY <1>1, <2>3, <2>4
<1>2. \A s, q : DOMAIN C!PickUpStack(s, q) = DOMAIN s /\ DOMAIN L!PickUpStack(s, q) = DOMAIN s
  BY DEF C!PickUpStack, L!PickUpStack, C!ClearRound, L!ClearRound
<1>3. \A s, bluff : DOMAIN C!JudgeFinish(s, bluff) = DOMAIN s /\ DOMAIN L!JudgeFinish(s, bluff) = DOMAIN s
  BY FieldsOfHelpers DEF C!JudgeFinish, L!JudgeFinish
<1>4. \A s, q : DOMAIN C!MaybeEndGame(IF s.phase = "playing" THEN C!SetCurrentTurn(s, q) ELSE s)
                  = DOMAIN s
                /\ DOMAIN L!MaybeEndGame(IF s.phase = "playing" THEN L!SetCurrentTurn(s, q) ELSE s)
                  = DOMAIN s
  <2> TAKE s, q
  <2>1. DOMAIN (IF s.phase = "playing" THEN C!SetCurrentTurn(s, q) ELSE s) = DOMAIN s
        /\ DOMAIN (IF s.phase = "playing" THEN L!SetCurrentTurn(s, q) ELSE s) = DOMAIN s
    BY FieldsOfHelpers
  <2> QED  BY <2>1, FieldsOfHelpers
<1>5. ASSUME C!Challenge(p) PROVE DOMAIN room' = DOMAIN room
  <2> DEFINE maker == room.topPlay.player
             wasBluff == C!IsClaimBluff(room.topPlay.cards, room.topPlay.claims)
             taken == C!PickUpStack(room, IF wasBluff THEN maker ELSE p)
             judged == IF room.pending = maker THEN C!JudgeFinish(taken, wasBluff) ELSE taken
             starter == IF wasBluff THEN p
                        ELSE IF maker \in C!ActivePlayers(judged) THEN maker
                        ELSE C!GetNextPlayerID(judged, maker)
  <2>1. room' = C!MaybeEndGame(IF judged.phase = "playing" THEN C!SetCurrentTurn(judged, starter)
                               ELSE judged)
    BY <1>5 DEF C!Challenge
  <2>2. DOMAIN taken = DOMAIN room
    BY <1>2
  <2>3. DOMAIN judged = DOMAIN taken
    <3> HIDE DEF taken, wasBluff
    <3> QED  BY <1>3
  <2> HIDE DEF judged, starter, taken
  <2> QED  BY <1>4, <2>1, <2>2, <2>3
<1>6. ASSUME L!Challenge(p) PROVE DOMAIN room' = DOMAIN room
  <2> DEFINE maker == room.topPlay.player
             wasBluff == L!IsClaimBluff(room.topPlay.cards, room.topPlay.claims)
             taken == L!PickUpStack(room, IF wasBluff THEN maker ELSE p)
             judged == IF room.pending = maker THEN L!JudgeFinish(taken, wasBluff) ELSE taken
             starter == IF wasBluff THEN p
                        ELSE IF maker \in L!ActivePlayers(judged) THEN maker
                        ELSE L!GetNextPlayerID(judged, maker)
  <2>1. room' = L!MaybeEndGame(IF judged.phase = "playing" THEN L!SetCurrentTurn(judged, starter)
                               ELSE judged)
    BY <1>6 DEF L!Challenge
  <2>2. DOMAIN taken = DOMAIN room
    BY <1>2
  <2>3. DOMAIN judged = DOMAIN taken
    <3> HIDE DEF taken, wasBluff
    <3> QED  BY <1>3
  <2> HIDE DEF judged, starter, taken
  <2> QED  BY <1>4, <2>1, <2>2, <2>3
<1>7. C!Skip(p) \/ L!Skip(p) => DOMAIN room' = DOMAIN room
  BY FieldsOfSkips DEF C!Skip, L!Skip
<1> QED  BY <1>1, <1>5, <1>6, <1>7
-----------------------------------------------------------------------------
\* The page after a step.
Drawn(selected, wants) ==
    page' = [selected |-> selected, wants |-> wants,
             form |-> IF ~(wants /\ Opened' /\ BarIsOn') THEN NoForm
                      ELSE IF page.form # NoForm THEN page.form
                      ELSE [ranks |-> [i \in DOMAIN GroupsOf(Cardinality(selected \cap MyHand'))
                                         |-> NoRank],
                            active |-> 1]]

\* A step keeps what the declaration was made for, or takes it away.
Keeps(selected, wants) ==
    page.form # NoForm /\ wants /\ Opened' => selected \cap MyHand' = page.selected \cap MyHand

KeepsFields == "hands" \in DOMAIN room' /\ "phase" \in DOMAIN room'

LEMMA RendersDraw ==
    ASSUME NEW s, NEW w,
           \/ part = "composer" /\ C!Render(s, w)
           \/ part = "limit" /\ L!Render(s, w)
    PROVE  Drawn(s, w)
<1>1. /\ (C!Opening' <=> Opened') /\ (L!Opening' <=> Opened')
      /\ (C!BarShown' <=> BarIsOn') /\ (L!BarShown' <=> BarIsOn')
      /\ C!Hand' = MyHand' /\ L!Hand' = MyHand'
  BY DEF C!Opening, L!Opening, Opened, C!BarShown, L!BarShown, BarIsOn, C!Hand, L!Hand, MyHand
<1>2. C!Cardinality(s \cap MyHand') = Cardinality(s \cap MyHand')
      /\ L!Cardinality(s \cap MyHand') = Cardinality(s \cap MyHand')
  BY SamePage
<1>3. CASE part = "composer" /\ C!Render(s, w)
  <2>1. C!NewForm(C!Cardinality(s \cap C!Hand'))
          = [ranks |-> [i \in DOMAIN GroupsOf(Cardinality(s \cap MyHand')) |-> NoRank],
             active |-> 1]
    BY <1>1, <1>2, <1>3 DEF C!NewForm, GroupsOf
  <2> QED  BY <1>1, <1>3, <2>1 DEF C!Render, Drawn
<1>4. CASE part = "limit" /\ L!Render(s, w)
  <2>1. L!NewForm(L!Cardinality(s \cap L!Hand'))
          = [ranks |-> [i \in DOMAIN GroupsOf(Cardinality(s \cap MyHand')) |-> NoRank],
             active |-> 1]
    BY <1>1, <1>2, <1>4, "limit" # "composer" DEF L!NewForm, GroupsOf
  <2> QED  BY <1>1, <1>4, <2>1 DEF L!Render, Drawn
<1> QED  BY <1>3, <1>4

LEMMA DrawnFits ==
    ASSUME FormFits, part' = part, KeepsFields, NEW s, NEW w, Drawn(s, w), Keeps(s, w)
    PROVE  FormFits'
<1>1. page' = [selected |-> s, wants |-> w, form |-> page'.form]
      /\ page'.selected = s /\ page'.wants = w
  BY DEF Drawn
<1>2. "hands" \in DOMAIN room' /\ "phase" \in DOMAIN room'
  BY DEF KeepsFields
<1>3. ASSUME page'.form # NoForm
      PROVE  /\ w /\ Opened' /\ BarIsOn'
             /\ page'.form = [ranks |-> page'.form.ranks, active |-> page'.form.active]
             /\ page'.form.ranks = [i \in DOMAIN page'.form.ranks |-> page'.form.ranks[i]]
             /\ DOMAIN page'.form.ranks = DOMAIN GroupsOf(Cardinality(s \cap MyHand'))
  <2>1. w /\ Opened' /\ BarIsOn'
    BY <1>3 DEF Drawn
  <2>2. CASE page.form # NoForm
    <3>1. page'.form = page.form
      BY <2>1, <2>2 DEF Drawn
    <3>2. s \cap MyHand' = page.selected \cap MyHand
      BY <2>1, <2>2 DEF Keeps
    <3> QED  BY <2>1, <2>2, <3>1, <3>2 DEF FormFits
  <2>3. CASE page.form = NoForm
    <3>1. page'.form = [ranks |-> [i \in DOMAIN GroupsOf(Cardinality(s \cap MyHand')) |-> NoRank],
                        active |-> 1]
      BY <2>1, <2>3 DEF Drawn
    <3> QED  BY <2>1, <3>1
  <2> QED  BY <2>2, <2>3
<1>4. DOMAIN GroupsOf(Cardinality(s \cap MyHand'))
        = (DOMAIN GroupsOf(Cardinality(page.selected \cap MyHand)))'
  BY <1>1, part' = part DEF GroupsOf
<1> QED  BY <1>1, <1>2, <1>3, <1>4 DEF FormFits
-----------------------------------------------------------------------------
\* What the player does on the page while nothing is declared, or to end a
\* declaration.
LEMMA PagesOwnSteps ==
    ASSUME FormFits,
           \/ /\ part = "composer"
              /\ \/ \E c \in C!Card : C!Toggle(c)
                 \/ C!AskDeclaration \/ C!CloseDeclaration \/ C!Confirm \/ C!PlayOn
                 \/ C!Callout \/ C!PassTurn
           \/ /\ part = "limit"
              /\ \/ \E c \in L!Card : L!Toggle(c)
                 \/ L!AskDeclaration \/ L!CloseDeclaration \/ L!Confirm \/ L!PlayOn
                 \/ L!Callout \/ L!PassTurn
    PROVE  /\ room' = room
           /\ \E s, w : Drawn(s, w) /\ (page.form = NoForm \/ ~w)
<1>1. (C!Locked <=> page.wants /\ Opened) /\ (L!Locked <=> page.wants /\ Opened)
  BY SamePage DEF C!Locked, L!Locked
<1>2. page.form # NoForm => page.wants /\ Opened
  BY DEF FormFits
<1>3. CASE part = "composer"
  <2>1. ASSUME NEW c, C!Toggle(c)
        PROVE  room' = room /\ page.form = NoForm /\ \E s, w : C!Render(s, w)
    BY <1>1, <1>2, <2>1 DEF C!Toggle, C!Unmoved
  <2>2. ASSUME C!AskDeclaration \/ C!PlayOn \/ C!Callout \/ C!PassTurn
        PROVE  room' = room /\ page.form = NoForm /\ \E s, w : C!Render(s, w)
    BY <2>2 DEF C!AskDeclaration, C!PlayOn, C!Callout, C!PassTurn, C!Buttons, C!Unmoved, C!Give
  <2>3. ASSUME C!CloseDeclaration \/ C!Confirm
        PROVE  room' = room /\ \E s : C!Render(s, FALSE)
    BY <2>3 DEF C!CloseDeclaration, C!Confirm, C!Unmoved, C!Give
  <2>4. "composer" # "limit"
    OBVIOUS
  <2> QED  BY <1>3, <2>1, <2>2, <2>3, <2>4, RendersDraw
<1>4. CASE part = "limit"
  <2>1. ASSUME NEW c, L!Toggle(c)
        PROVE  room' = room /\ page.form = NoForm /\ \E s, w : L!Render(s, w)
    BY <1>1, <1>2, <2>1 DEF L!Toggle, L!Unmoved
  <2>2. ASSUME L!AskDeclaration \/ L!PlayOn \/ L!Callout \/ L!PassTurn
        PROVE  room' = room /\ page.form = NoForm /\ \E s, w : L!Render(s, w)
    BY <2>2 DEF L!AskDeclaration, L!PlayOn, L!Callout, L!PassTurn, L!Buttons, L!Unmoved, L!Give
  <2>3. ASSUME L!CloseDeclaration \/ L!Confirm
        PROVE  room' = room /\ \E s : L!Render(s, FALSE)
    BY <2>3 DEF L!CloseDeclaration, L!Confirm, L!Unmoved, L!Give
  <2>4. "composer" # "limit"
    OBVIOUS
  <2> QED  BY <1>4, <2>1, <2>2, <2>3, <2>4, RendersDraw
<1> QED  BY <1>3, <1>4

\* A group is chosen, or given a rank: the groups stay.
LEMMA ChoicesFit ==
    ASSUME FormFits, part' = part,
           \/ /\ part = "composer"
              /\ (\E i \in 1..C!Cardinality(Rank) : C!ChooseGroup(i)) \/ (\E r \in Rank : C!ChooseRank(r))
           \/ /\ part = "limit"
              /\ (\E i \in 1..L!Cardinality(Rank) : L!ChooseGroup(i)) \/ (\E r \in Rank : L!ChooseRank(r))
    PROVE  FormFits'
<1>1. /\ page.form # NoForm /\ UNCHANGED <<room, sent>>
      /\ \/ \E i : page' = [page EXCEPT !.form.active = i]
         \/ \E r : page' = [page EXCEPT !.form.ranks =
                              [i \in DOMAIN @ |-> IF i = page.form.active THEN r ELSE @[i]]]
  <2>1. CASE part = "composer"
    BY <2>1, "composer" # "limit" DEF C!ChooseGroup, C!ChooseRank, C!FormUsable, C!Unmoved
  <2>2. CASE part = "limit"
    BY <2>2, "composer" # "limit" DEF L!ChooseGroup, L!ChooseRank, L!FormUsable, L!Unmoved
  <2> QED  BY <2>1, <2>2
<1>2. /\ page = [selected |-> page.selected, wants |-> page.wants, form |-> page.form]
      /\ page.form = [ranks |-> page.form.ranks, active |-> page.form.active]
  BY <1>1 DEF FormFits
<1>3. \E i, f : /\ page' = [selected |-> page.selected, wants |-> page.wants,
                            form |-> [ranks |-> f, active |-> i]]
                /\ f = [k \in DOMAIN page.form.ranks |-> f[k]]
  <2>1. CASE \E i : page' = [page EXCEPT !.form.active = i]
    <3>1. PICK i : page' = [page EXCEPT !.form.active = i]
      BY <2>1
    <3>2. page' = [selected |-> page.selected, wants |-> page.wants,
                   form |-> [ranks |-> page.form.ranks, active |-> i]]
      BY <1>2, <3>1
    <3>3. page.form.ranks = [k \in DOMAIN page.form.ranks |-> page.form.ranks[k]]
      BY <1>1 DEF FormFits
    <3> QED  BY <3>2, <3>3
  <2>2. CASE \E r : page' = [page EXCEPT !.form.ranks =
                               [i \in DOMAIN @ |-> IF i = page.form.active THEN r ELSE @[i]]]
    <3>1. PICK r : page' = [page EXCEPT !.form.ranks =
                              [i \in DOMAIN @ |-> IF i = page.form.active THEN r ELSE @[i]]]
      BY <2>2
    <3> DEFINE f == [k \in DOMAIN page.form.ranks |->
                       IF k = page.form.active THEN r ELSE page.form.ranks[k]]
    <3>2. page' = [selected |-> page.selected, wants |-> page.wants,
                   form |-> [ranks |-> f, active |-> page.form.active]]
      BY <1>2, <3>1
    <3>3. f = [k \in DOMAIN page.form.ranks |-> f[k]]
      OBVIOUS
    <3> HIDE DEF f
    <3> QED  BY <3>2, <3>3
  <2> QED  BY <1>1, <2>1, <2>2
<1>4. PICK i, f : /\ page' = [selected |-> page.selected, wants |-> page.wants,
                              form |-> [ranks |-> f, active |-> i]]
                  /\ f = [k \in DOMAIN page.form.ranks |-> f[k]]
  BY <1>3
<1>5. /\ page'.selected = page.selected /\ page'.wants = page.wants
      /\ page'.form.ranks = f /\ page'.form.active = i
      /\ page' = [selected |-> page'.selected, wants |-> page'.wants, form |-> page'.form]
      /\ page'.form = [ranks |-> page'.form.ranks, active |-> page'.form.active]
  BY <1>4
<1>6. DOMAIN f = DOMAIN page.form.ranks /\ f = [k \in DOMAIN f |-> f[k]]
  BY <1>4
<1>7. /\ Opened' = Opened /\ BarIsOn' = BarIsOn /\ MyHand' = MyHand
      /\ \A n : GroupsOf(n)' = GroupsOf(n)
  BY <1>1 DEF Opened, BarIsOn, MyHand, GroupsOf
<1> QED  BY <1>1, <1>5, <1>6, <1>7 DEF FormFits
-----------------------------------------------------------------------------
\* The command under way: none, one that gets no answer, or one of the three.
NoAnswer == [kind |-> "none", cards |-> {}, claims |-> <<>>, stale |-> TRUE]
SentFits ==
    \/ sent \in {NoMove, NoAnswer}
    \/ /\ sent.kind \in {"play", "challenge", "skip"}
       /\ sent = [kind |-> sent.kind, cards |-> sent.cards, claims |-> sent.claims,
                  stale |-> sent.stale]

LEMMA LookedAt ==
    ASSUME SentFits, sent' = IF sent = NoMove THEN NoMove ELSE [sent EXCEPT !.stale = TRUE]
    PROVE  SentFits'
<1>1. CASE sent = NoMove
  BY <1>1 DEF SentFits
<1>2. CASE sent = NoAnswer /\ sent # NoMove
  <2>1. sent' = NoAnswer
    BY <1>2 DEF NoAnswer
  <2> QED  BY <2>1 DEF SentFits
<1>3. CASE sent \notin {NoMove, NoAnswer}
  <2>1. sent' = [kind |-> sent.kind, cards |-> sent.cards, claims |-> sent.claims,
                 stale |-> TRUE]
    BY <1>3 DEF SentFits
  <2>2. sent.kind \in {"play", "challenge", "skip"}
    BY <1>3 DEF SentFits
  <2>3. sent' = [kind |-> sent'.kind, cards |-> sent'.cards, claims |-> sent'.claims,
                 stale |-> sent'.stale] /\ sent'.kind = sent.kind
    BY <2>1
  <2> QED  BY <2>2, <2>3 DEF SentFits
<1> QED  BY <1>1, <1>2, <1>3

\* What is given is one of the three.
LEMMA GivenFits ==
    ASSUME NEW k \in {"play", "challenge", "skip"}, NEW cards, NEW claims,
           C!Give(k, cards, claims) \/ L!Give(k, cards, claims)
    PROVE  SentFits'
<1>1. sent' = [kind |-> k, cards |-> cards, claims |-> claims, stale |-> FALSE]
  BY DEF C!Give, L!Give
<1>2. sent'.kind = k
      /\ sent' = [kind |-> sent'.kind, cards |-> sent'.cards, claims |-> sent'.claims,
                  stale |-> sent'.stale]
  BY <1>1
<1> QED  BY <1>2 DEF SentFits

LEMMA CRoomSteps ==
    ASSUME FormFits, SentFits, part = "composer",
           \/ C!Answer
           \/ \E p \in C!Others : C!OtherPlays(p) \/ C!OtherChallenges(p) \/ C!OtherSkips(p)
           \/ C!ClockSkips \/ C!MeDrops \/ C!MeIsBack
           \/ \E p \in User : C!NextMatch(p) \/ C!HostResets(p) \/ C!Returns(p)
    PROVE  /\ KeepsFields /\ Drawn(page.selected, page.wants)
           /\ Keeps(page.selected, page.wants) /\ SentFits'
<1>1. page.form # NoForm => page.wants /\ Opened /\ BarIsOn
  BY DEF FormFits
<1>2. "hands" \in DOMAIN room /\ "phase" \in DOMAIN room
  BY DEF FormFits
<1>3. CASE C!Answer
  <2>1. page.form = NoForm
    BY <1>1, <1>3 DEF C!Answer, BarIsOn
  <2>2. DOMAIN room' = DOMAIN room
    <3>1. sent.kind \in {"play", "challenge", "skip"}
      BY <1>3 DEF C!Answer, SentFits, NoAnswer, C!Unanswered
    <3>2. CASE C!Taken /\ C!Carry
      <4>1. CASE sent.kind = "play"
        BY <3>2, <4>1, FieldsOfMoves DEF C!Carry
      <4>2. CASE sent.kind = "challenge"
        BY <3>2, <4>2, FieldsOfMoves DEF C!Carry
      <4>3. CASE sent.kind = "skip"
        BY <3>2, <4>3, FieldsOfMoves DEF C!Carry
      <4> QED  BY <3>1, <4>1, <4>2, <4>3
    <3>3. CASE UNCHANGED room
      BY <3>3
    <3> QED  BY <1>3, <3>2, <3>3 DEF C!Answer
  <2>3. Drawn(page.selected, page.wants)
    BY <1>3, RendersDraw DEF C!Answer
  <2>4. SentFits'
    BY <1>3 DEF C!Answer, C!Unanswered, SentFits, NoAnswer
  <2> QED  BY <1>2, <2>1, <2>2, <2>3, <2>4 DEF KeepsFields, Keeps
<1>4. ASSUME C!Seen PROVE Drawn(page.selected, page.wants) /\ SentFits'
  <2>1. Drawn(page.selected, page.wants)
    BY <1>4, RendersDraw DEF C!Seen
  <2>2. SentFits'
    BY <1>4, LookedAt DEF C!Seen
  <2> QED  BY <2>1, <2>2
<1>5. ASSUME NEW p \in C!Others, C!OtherPlays(p) \/ C!OtherChallenges(p) \/ C!OtherSkips(p)
      PROVE  KeepsFields /\ Keeps(page.selected, page.wants) /\ C!Seen
  <2>1. DOMAIN room' = DOMAIN room
    BY <1>5, FieldsOfMoves DEF C!OtherPlays, C!OtherChallenges, C!OtherSkips
  <2>2. C!OnTurn(p) /\ C!Seen
    BY <1>5 DEF C!OtherPlays, C!OtherChallenges, C!OtherSkips, C!PlayCards, C!Challenge, C!Skip
  <2>3. page.form = NoForm
    BY <1>1, <2>2 DEF C!OnTurn, C!Others, Opened
  <2> QED  BY <1>2, <2>1, <2>2, <2>3 DEF KeepsFields, Keeps
<1>6. ASSUME C!ClockSkips
      PROVE  KeepsFields /\ Keeps(page.selected, page.wants) /\ C!Seen
  <2>1. room' = C!ApplySkip(room, room.turn) /\ C!Seen
    BY <1>6 DEF C!ClockSkips, C!TurnTimerExpired
  <2>2. KeepsFields
    BY <1>2, <2>1, FieldsOfSkips DEF KeepsFields
  <2>3. ASSUME page.form # NoForm PROVE MyHand' = MyHand
    <3> DEFINE t == C!SetCurrentTurn([room EXCEPT !.skips = <<>>],
                                     C!GetNextPlayerID(room, room.turn))
    <3>1. room' = C!MaybeEndGame(t)
      BY <1>1, <2>1, <2>3 DEF Opened, C!ApplySkip
    <3>2. t.hands = room.hands /\ "hands" \in DOMAIN t
      BY <1>2 DEF C!SetCurrentTurn
    <3>3. \A u : "hands" \in DOMAIN u => C!MaybeEndGame(u).hands = u.hands
      BY DEF C!MaybeEndGame, C!FinishMatch, C!SetCurrentTurn
    <3> HIDE DEF t
    <3> QED  BY <3>1, <3>2, <3>3 DEF MyHand
  <2> QED  BY <2>1, <2>2, <2>3 DEF Keeps
<1>7. ASSUME C!MeDrops
      PROVE  KeepsFields /\ Keeps(page.selected, page.wants) /\ C!Seen
  <2>1. C!Seen /\ C!Disconnect(Me)
    BY <1>7 DEF C!MeDrops
  <2> DEFINE s == [room EXCEPT !.online = @ \ {Me}]
  <2>2. s.hands = room.hands /\ DOMAIN s = DOMAIN room
    BY <1>2
  <2>3. \A h : [s EXCEPT !.host = h].hands = s.hands /\ DOMAIN [s EXCEPT !.host = h] = DOMAIN s
    BY <1>2, <2>2
  <2>4. room' = s \/ \E h : room' = [s EXCEPT !.host = h]
    BY <2>1 DEF C!Disconnect
  <2> HIDE DEF s
  <2>5. room'.hands = room.hands /\ DOMAIN room' = DOMAIN room
    BY <2>2, <2>3, <2>4
  <2> QED  BY <1>2, <2>1, <2>5 DEF Keeps, KeepsFields, MyHand
<1>8. ASSUME C!MeIsBack
      PROVE  KeepsFields /\ Keeps(page.selected, page.wants) /\ C!Seen
  <2>1. page.form = NoForm
    BY <1>1, <1>8 DEF C!MeIsBack, BarIsOn
  <2>2. DOMAIN room' = DOMAIN room /\ C!Seen
    BY <1>8 DEF C!MeIsBack, C!Reconnect
  <2> QED  BY <1>2, <2>1, <2>2 DEF Keeps, KeepsFields
<1>9. ASSUME NEW p \in User, C!HostResets(p)
      PROVE  KeepsFields /\ Keeps(page.selected, page.wants) /\ C!Seen
  <2>1. C!Seen /\ C!ResetToLobby(p)
    BY <1>9 DEF C!HostResets
  <2> DEFINE s == C!ClearRound(C!SetCurrentTurn(room, NoOne))
  <2>2. DOMAIN s = DOMAIN room
    BY FieldsOfHelpers
  <2> HIDE DEF s
  <2>3. DOMAIN room' = DOMAIN s /\ ("phase" \in DOMAIN s => room'.phase = "lobby")
    BY <2>1 DEF C!ResetToLobby, s
  <2>4. ~Opened'
    BY <1>2, <2>2, <2>3 DEF Opened
  <2> QED  BY <1>2, <2>1, <2>2, <2>3, <2>4 DEF Keeps, KeepsFields
<1>10. ASSUME NEW p \in User, C!Returns(p)
       PROVE  KeepsFields /\ Keeps(page.selected, page.wants) /\ C!Seen
  <2>1. page.form = NoForm
    BY <1>1, <1>10 DEF C!Returns, C!ReturnToLobby, Opened
  <2>2. DOMAIN room' = DOMAIN room /\ C!Seen
    BY <1>10 DEF C!Returns, C!ReturnToLobby
  <2> QED  BY <1>2, <2>1, <2>2 DEF Keeps, KeepsFields
<1>11. ASSUME NEW p \in User, C!NextMatch(p)
       PROVE  /\ KeepsFields /\ Keeps(page.selected, page.wants)
              /\ Drawn(page.selected, page.wants) /\ SentFits'
  <2>1. page.form = NoForm
    BY <1>1, <1>11 DEF C!NextMatch, C!StartGame, Opened
  <2>2. DOMAIN room' = DOMAIN room
    <3>1. \A q : DOMAIN C!SetCurrentTurn(C!ClearRound(room), q) = DOMAIN room
      BY DEF C!SetCurrentTurn, C!ClearRound
    <3> QED  BY <1>11, <3>1 DEF C!NextMatch, C!StartGame
  <2>3. Drawn(page.selected, page.wants)
    BY <1>11, RendersDraw DEF C!NextMatch
  <2>4. SentFits'
    BY <1>11, LookedAt DEF C!NextMatch
  <2> QED  BY <1>2, <2>1, <2>2, <2>3, <2>4 DEF Keeps, KeepsFields
<1> QED  BY <1>3, <1>4, <1>5, <1>6, <1>7, <1>8, <1>9, <1>10, <1>11

LEMMA LRoomSteps ==
    ASSUME FormFits, SentFits, part = "limit",
           \/ L!Answer
           \/ \E p \in L!Others : L!OtherPlays(p) \/ L!OtherChallenges(p) \/ L!OtherSkips(p)
           \/ L!ClockSkips \/ L!MeDrops \/ L!MeIsBack
           \/ \E p \in User : L!NextMatch(p) \/ L!HostResets(p) \/ L!Returns(p)
    PROVE  /\ KeepsFields /\ Drawn(page.selected, page.wants)
           /\ Keeps(page.selected, page.wants) /\ SentFits'
<1>1. page.form # NoForm => page.wants /\ Opened /\ BarIsOn
  BY DEF FormFits
<1>2. "hands" \in DOMAIN room /\ "phase" \in DOMAIN room
  BY DEF FormFits
<1>3. CASE L!Answer
  <2>1. page.form = NoForm
    BY <1>1, <1>3 DEF L!Answer, BarIsOn
  <2>2. DOMAIN room' = DOMAIN room
    <3>1. sent.kind \in {"play", "challenge", "skip"}
      BY <1>3 DEF L!Answer, SentFits, NoAnswer, L!Unanswered
    <3>2. CASE L!Taken /\ L!Carry
      <4>1. CASE sent.kind = "play"
        BY <3>2, <4>1, FieldsOfMoves DEF L!Carry
      <4>2. CASE sent.kind = "challenge"
        BY <3>2, <4>2, FieldsOfMoves DEF L!Carry
      <4>3. CASE sent.kind = "skip"
        BY <3>2, <4>3, FieldsOfMoves DEF L!Carry
      <4> QED  BY <3>1, <4>1, <4>2, <4>3
    <3>3. CASE UNCHANGED room
      BY <3>3
    <3> QED  BY <1>3, <3>2, <3>3 DEF L!Answer
  <2>3. Drawn(page.selected, page.wants)
    BY <1>3, RendersDraw DEF L!Answer
  <2>4. SentFits'
    BY <1>3 DEF L!Answer, L!Unanswered, SentFits, NoAnswer
  <2> QED  BY <1>2, <2>1, <2>2, <2>3, <2>4 DEF KeepsFields, Keeps
<1>4. ASSUME L!Seen PROVE Drawn(page.selected, page.wants) /\ SentFits'
  <2>1. Drawn(page.selected, page.wants)
    BY <1>4, RendersDraw DEF L!Seen
  <2>2. SentFits'
    BY <1>4, LookedAt DEF L!Seen
  <2> QED  BY <2>1, <2>2
<1>5. ASSUME NEW p \in L!Others, L!OtherPlays(p) \/ L!OtherChallenges(p) \/ L!OtherSkips(p)
      PROVE  KeepsFields /\ Keeps(page.selected, page.wants) /\ L!Seen
  <2>1. DOMAIN room' = DOMAIN room
    BY <1>5, FieldsOfMoves DEF L!OtherPlays, L!OtherChallenges, L!OtherSkips
  <2>2. L!OnTurn(p) /\ L!Seen
    BY <1>5 DEF L!OtherPlays, L!OtherChallenges, L!OtherSkips, L!PlayCards, L!Challenge, L!Skip
  <2>3. page.form = NoForm
    BY <1>1, <2>2 DEF L!OnTurn, L!Others, Opened
  <2> QED  BY <1>2, <2>1, <2>2, <2>3 DEF KeepsFields, Keeps
<1>6. ASSUME L!ClockSkips
      PROVE  KeepsFields /\ Keeps(page.selected, page.wants) /\ L!Seen
  <2>1. room' = L!ApplySkip(room, room.turn) /\ L!Seen
    BY <1>6 DEF L!ClockSkips, L!TurnTimerExpired
  <2>2. KeepsFields
    BY <1>2, <2>1, FieldsOfSkips DEF KeepsFields
  <2>3. ASSUME page.form # NoForm PROVE MyHand' = MyHand
    <3> DEFINE t == L!SetCurrentTurn([room EXCEPT !.skips = <<>>],
                                     L!GetNextPlayerID(room, room.turn))
    <3>1. room' = L!MaybeEndGame(t)
      BY <1>1, <2>1, <2>3 DEF Opened, L!ApplySkip
    <3>2. t.hands = room.hands /\ "hands" \in DOMAIN t
      BY <1>2 DEF L!SetCurrentTurn
    <3>3. \A u : "hands" \in DOMAIN u => L!MaybeEndGame(u).hands = u.hands
      BY DEF L!MaybeEndGame, L!FinishMatch, L!SetCurrentTurn
    <3> HIDE DEF t
    <3> QED  BY <3>1, <3>2, <3>3 DEF MyHand
  <2> QED  BY <2>1, <2>2, <2>3 DEF Keeps
<1>7. ASSUME L!MeDrops
      PROVE  KeepsFields /\ Keeps(page.selected, page.wants) /\ L!Seen
  <2>1. L!Seen /\ L!Disconnect(Me)
    BY <1>7 DEF L!MeDrops
  <2> DEFINE s == [room EXCEPT !.online = @ \ {Me}]
  <2>2. s.hands = room.hands /\ DOMAIN s = DOMAIN room
    BY <1>2
  <2>3. \A h : [s EXCEPT !.host = h].hands = s.hands /\ DOMAIN [s EXCEPT !.host = h] = DOMAIN s
    BY <1>2, <2>2
  <2>4. room' = s \/ \E h : room' = [s EXCEPT !.host = h]
    BY <2>1 DEF L!Disconnect
  <2> HIDE DEF s
  <2>5. room'.hands = room.hands /\ DOMAIN room' = DOMAIN room
    BY <2>2, <2>3, <2>4
  <2> QED  BY <1>2, <2>1, <2>5 DEF Keeps, KeepsFields, MyHand
<1>8. ASSUME L!MeIsBack
      PROVE  KeepsFields /\ Keeps(page.selected, page.wants) /\ L!Seen
  <2>1. page.form = NoForm
    BY <1>1, <1>8 DEF L!MeIsBack, BarIsOn
  <2>2. DOMAIN room' = DOMAIN room /\ L!Seen
    BY <1>8 DEF L!MeIsBack, L!Reconnect
  <2> QED  BY <1>2, <2>1, <2>2 DEF Keeps, KeepsFields
<1>9. ASSUME NEW p \in User, L!HostResets(p)
      PROVE  KeepsFields /\ Keeps(page.selected, page.wants) /\ L!Seen
  <2>1. L!Seen /\ L!ResetToLobby(p)
    BY <1>9 DEF L!HostResets
  <2> DEFINE s == L!ClearRound(L!SetCurrentTurn(room, NoOne))
  <2>2. DOMAIN s = DOMAIN room
    BY FieldsOfHelpers
  <2> HIDE DEF s
  <2>3. DOMAIN room' = DOMAIN s /\ ("phase" \in DOMAIN s => room'.phase = "lobby")
    BY <2>1 DEF L!ResetToLobby, s
  <2>4. ~Opened'
    BY <1>2, <2>2, <2>3 DEF Opened
  <2> QED  BY <1>2, <2>1, <2>2, <2>3, <2>4 DEF Keeps, KeepsFields
<1>10. ASSUME NEW p \in User, L!Returns(p)
       PROVE  KeepsFields /\ Keeps(page.selected, page.wants) /\ L!Seen
  <2>1. page.form = NoForm
    BY <1>1, <1>10 DEF L!Returns, L!ReturnToLobby, Opened
  <2>2. DOMAIN room' = DOMAIN room /\ L!Seen
    BY <1>10 DEF L!Returns, L!ReturnToLobby
  <2> QED  BY <1>2, <2>1, <2>2 DEF Keeps, KeepsFields
<1>11. ASSUME NEW p \in User, L!NextMatch(p)
       PROVE  /\ KeepsFields /\ Keeps(page.selected, page.wants)
              /\ Drawn(page.selected, page.wants) /\ SentFits'
  <2>1. page.form = NoForm
    BY <1>1, <1>11 DEF L!NextMatch, L!StartGame, Opened
  <2>2. DOMAIN room' = DOMAIN room
    <3>1. \A q : DOMAIN L!SetCurrentTurn(L!ClearRound(room), q) = DOMAIN room
      BY DEF L!SetCurrentTurn, L!ClearRound
    <3> QED  BY <1>11, <3>1 DEF L!NextMatch, L!StartGame
  <2>3. Drawn(page.selected, page.wants)
    BY <1>11, RendersDraw DEF L!NextMatch
  <2>4. SentFits'
    BY <1>11, LookedAt DEF L!NextMatch
  <2> QED  BY <1>2, <2>1, <2>2, <2>3, <2>4 DEF Keeps, KeepsFields
<1> QED  BY <1>3, <1>4, <1>5, <1>6, <1>7, <1>8, <1>9, <1>10, <1>11

-----------------------------------------------------------------------------
\* The player's own steps give a command or leave the one that is under way.
LEMMA OwnCommandsFit ==
    ASSUME SentFits,
           \/ \E c \in C!Card : C!Toggle(c)
           \/ C!AskDeclaration \/ C!CloseDeclaration \/ C!Confirm \/ C!PlayOn
           \/ C!Callout \/ C!PassTurn
           \/ \E c \in L!Card : L!Toggle(c)
           \/ L!AskDeclaration \/ L!CloseDeclaration \/ L!Confirm \/ L!PlayOn
           \/ L!Callout \/ L!PassTurn
    PROVE  SentFits'
<1>1. CASE UNCHANGED sent
  BY <1>1 DEF SentFits
<1>2. CASE C!Confirm \/ L!Confirm
  BY <1>2, GivenFits DEF C!Confirm, L!Confirm
<1>3. CASE C!PlayOn \/ L!PlayOn
  BY <1>3, GivenFits DEF C!PlayOn, L!PlayOn
<1>4. CASE C!Callout \/ L!Callout
  BY <1>4, GivenFits DEF C!Callout, L!Callout
<1>5. CASE C!PassTurn \/ L!PassTurn
  BY <1>5, GivenFits DEF C!PassTurn, L!PassTurn
<1> QED  BY <1>1, <1>2, <1>3, <1>4, <1>5 DEF C!Toggle, C!AskDeclaration, C!CloseDeclaration,
              C!Unmoved, L!Toggle, L!AskDeclaration, L!CloseDeclaration, L!Unmoved

ComposerInv == Composing => FormFits /\ SentFits

LEMMA ComposerStarts == Init => ComposerInv
<1> SUFFICES ASSUME Init, Composing PROVE FormFits /\ SentFits
  BY DEF ComposerInv
<1>1. C!ComposerInit \/ L!ComposerInit
  BY DEF Init, Composing
<1>2. page = [selected |-> {}, wants |-> FALSE, form |-> NoForm] /\ sent = NoMove
  BY <1>1 DEF C!ComposerInit, L!ComposerInit
<1>3. "hands" \in DOMAIN room /\ "phase" \in DOMAIN room
  BY <1>1 DEF C!ComposerInit, L!ComposerInit, C!NewRoom, L!NewRoom
<1> QED  BY <1>2, <1>3 DEF FormFits, SentFits

LEMMA ComposerSteps == ComposerInv /\ [Next]_vars => ComposerInv'
<1> SUFFICES ASSUME ComposerInv, [Next]_vars, Composing' PROVE FormFits' /\ SentFits'
  BY DEF ComposerInv
<1>1. part' = part /\ Composing /\ FormFits /\ SentFits
  BY DEF Next, vars, Composing, ComposerInv
<1>2. CASE UNCHANGED composerVars
  <2>1. UNCHANGED <<room, page, sent>>
    BY <1>2 DEF composerVars
  <2>2. FormFits'
    BY <1>1, <2>1 DEF FormFits, Opened, BarIsOn, MyHand, GroupsOf
  <2> QED  BY <1>1, <2>1, <2>2 DEF SentFits
<1>3. ASSUME \/ /\ part = "composer"
                /\ \/ \E c \in C!Card : C!Toggle(c)
                   \/ C!AskDeclaration \/ C!CloseDeclaration \/ C!Confirm \/ C!PlayOn
                   \/ C!Callout \/ C!PassTurn
             \/ /\ part = "limit"
                /\ \/ \E c \in L!Card : L!Toggle(c)
                   \/ L!AskDeclaration \/ L!CloseDeclaration \/ L!Confirm \/ L!PlayOn
                   \/ L!Callout \/ L!PassTurn
      PROVE  FormFits' /\ SentFits'
  <2>1. PICK s, w : room' = room /\ Drawn(s, w) /\ (page.form = NoForm \/ ~w)
    BY <1>1, <1>3, PagesOwnSteps
  <2>2. KeepsFields
    BY <1>1, <2>1 DEF FormFits, KeepsFields
  <2>3. Keeps(s, w)
    BY <2>1 DEF Keeps
  <2>4. FormFits'
    BY <1>1, <2>1, <2>2, <2>3, DrawnFits
  <2>5. SentFits'
    BY <1>1, <1>3, OwnCommandsFit
  <2> QED  BY <2>4, <2>5
<1>4. ASSUME \/ /\ part = "composer"
                /\ (\E i \in 1..C!Cardinality(Rank) : C!ChooseGroup(i)) \/ (\E r \in Rank : C!ChooseRank(r))
             \/ /\ part = "limit"
                /\ (\E i \in 1..L!Cardinality(Rank) : L!ChooseGroup(i)) \/ (\E r \in Rank : L!ChooseRank(r))
      PROVE  FormFits' /\ SentFits'
  <2>1. FormFits'
    BY <1>1, <1>4, ChoicesFit
  <2>2. UNCHANGED sent
    BY <1>4 DEF C!ChooseGroup, C!ChooseRank, C!Unmoved, L!ChooseGroup, L!ChooseRank, L!Unmoved
  <2> QED  BY <1>1, <2>1, <2>2 DEF SentFits
<1>5. ASSUME KeepsFields, Drawn(page.selected, page.wants), Keeps(page.selected, page.wants)
      PROVE  FormFits'
  BY <1>1, <1>5, DrawnFits
<1>6. ASSUME part = "composer", C!ComposerNext PROVE FormFits' /\ SentFits'
  <2>1. CASE \/ C!Answer
             \/ \E p \in C!Others : C!OtherPlays(p) \/ C!OtherChallenges(p) \/ C!OtherSkips(p)
             \/ C!ClockSkips \/ C!MeDrops \/ C!MeIsBack
             \/ \E p \in User : C!NextMatch(p) \/ C!HostResets(p) \/ C!Returns(p)
    BY <1>1, <1>5, <1>6, <2>1, CRoomSteps
  <2> QED  BY <1>3, <1>4, <1>6, <2>1 DEF C!ComposerNext
<1>7. ASSUME part = "limit", L!ComposerNext PROVE FormFits' /\ SentFits'
  <2>1. CASE \/ L!Answer
             \/ \E p \in L!Others : L!OtherPlays(p) \/ L!OtherChallenges(p) \/ L!OtherSkips(p)
             \/ L!ClockSkips \/ L!MeDrops \/ L!MeIsBack
             \/ \E p \in User : L!NextMatch(p) \/ L!HostResets(p) \/ L!Returns(p)
    BY <1>1, <1>5, <1>7, <2>1, LRoomSteps
  <2> QED  BY <1>3, <1>4, <1>7, <2>1 DEF L!ComposerNext
<1>8. \/ UNCHANGED composerVars
      \/ part = "composer" /\ C!ComposerNext
      \/ part = "limit" /\ L!ComposerNext
  BY DEF Next, vars
<1> QED  BY <1>2, <1>6, <1>7, <1>8


\* As many groups as ranks: both are sequences with the same indices.
LEMMA SameLength ==
    ASSUME NEW m \in Nat, NEW f, NEW g, f = [i \in 1..m |-> f[i]], g = [i \in 1..m |-> g[i]]
    PROVE  Len(f) = Len(g)
<1>1. Len(f) = m
  OBVIOUS
<1>2. Len(g) = m
  OBVIOUS
<1> QED  BY <1>1, <1>2

\* However many cards are selected, the groups are numbered from one.
LEMMA GroupsAreNumbered ==
    ASSUME NEW n
    PROVE  \E m \in Nat, k \in Nat :
             /\ C!GroupCounts(n) = [i \in 1..m |-> C!GroupCounts(n)[i]]
             /\ L!GroupCounts(n) = [i \in 1..k |-> L!GroupCounts(n)[i]]
<1>1. \A x, y : x \in 1..y => x \in Int /\ x >= 1
  OBVIOUS
<1>2. <<>> = [i \in 1..0 |-> <<>>[i]]
  OBVIOUS
<1>3. \E m \in Nat : C!GroupCounts(n) = [i \in 1..m |-> C!GroupCounts(n)[i]]
  <2>1. CASE n \notin 1..(C!Cardinality(Rank) * 2)
    BY <1>2, <2>1 DEF C!GroupCounts
  <2>2. CASE n \in 1..(C!Cardinality(Rank) * 2)
    <3> DEFINE full == (n - 1) \div 2
               g == [i \in 1..(full + 1) |-> IF i <= full THEN 2 ELSE n - full * 2]
    <3>1. n \in Int /\ n >= 1
      BY <1>1, <2>2
    <3>2. full + 1 \in Nat
      BY <3>1
    <3>3. C!GroupCounts(n) = g
      BY <2>2 DEF C!GroupCounts
    <3>4. g = [i \in 1..(full + 1) |-> g[i]]
      OBVIOUS
    <3> HIDE DEF full, g
    <3> QED  BY <3>2, <3>3, <3>4
  <2> QED  BY <2>1, <2>2
<1>4. \E m \in Nat : L!GroupCounts(n) = [i \in 1..m |-> L!GroupCounts(n)[i]]
  <2>1. CASE n \notin 1..(L!Cardinality(Rank) * 1)
    BY <1>2, <2>1 DEF L!GroupCounts
  <2>2. CASE n \in 1..(L!Cardinality(Rank) * 1)
    <3> DEFINE full == (n - 1) \div 1
               g == [i \in 1..(full + 1) |-> IF i <= full THEN 1 ELSE n - full * 1]
    <3>1. n \in Int /\ n >= 1
      BY <1>1, <2>2
    <3>2. full + 1 \in Nat
      BY <3>1
    <3>3. L!GroupCounts(n) = g
      BY <2>2 DEF L!GroupCounts
    <3>4. g = [i \in 1..(full + 1) |-> g[i]]
      OBVIOUS
    <3> HIDE DEF full, g
    <3> QED  BY <3>2, <3>3, <3>4
  <2> QED  BY <2>1, <2>2
<1> QED  BY <1>3, <1>4

LEMMA FormsHaveTheirGroups == ComposerInv => DeclarationsFit
<1> SUFFICES ASSUME ComposerInv, Composing,
                    page.form # NoForm
             PROVE  /\ part = "composer" => Len(page.form.ranks) = Len(C!Counts)
                    /\ part = "limit" => Len(page.form.ranks) = Len(L!Counts)
  BY DEF DeclarationsFit, Composing, C!DeclarationsFit, L!DeclarationsFit
<1>1. /\ Opened
      /\ page.form.ranks = [i \in DOMAIN page.form.ranks |-> page.form.ranks[i]]
      /\ DOMAIN page.form.ranks = DOMAIN GroupsOf(Cardinality(page.selected \cap MyHand))
  BY DEF ComposerInv, FormFits
<1> DEFINE n == Cardinality(page.selected \cap MyHand)
<1>2. C!Selected = page.selected \cap MyHand /\ L!Selected = page.selected \cap MyHand
  BY <1>1, SamePage DEF C!Selected, L!Selected, Opened
<1>3. C!Counts = C!GroupCounts(n) /\ L!Counts = L!GroupCounts(n)
  BY <1>2, SamePage DEF C!Counts, L!Counts
<1>4. PICK m \in Nat, k \in Nat :
        /\ C!GroupCounts(n) = [i \in 1..m |-> C!GroupCounts(n)[i]]
        /\ L!GroupCounts(n) = [i \in 1..k |-> L!GroupCounts(n)[i]]
  BY GroupsAreNumbered
<1> HIDE DEF n
<1>5. DOMAIN page.form.ranks = DOMAIN GroupsOf(n)
  BY <1>1 DEF n
<1>6. CASE part = "composer"
  <2>1. DOMAIN page.form.ranks = 1..m
    BY <1>4, <1>5, <1>6 DEF GroupsOf
  <2>2. page.form.ranks = [i \in 1..m |-> page.form.ranks[i]]
    BY <1>1, <2>1
  <2>3. Len(page.form.ranks) = Len(C!GroupCounts(n))
    BY <1>4, <2>2, SameLength
  <2> QED  BY <1>3, <1>6, <2>3
<1>7. CASE part = "limit"
  <2>1. DOMAIN page.form.ranks = 1..k
    BY <1>4, <1>5, <1>7 DEF GroupsOf
  <2>2. page.form.ranks = [i \in 1..k |-> page.form.ranks[i]]
    BY <1>1, <2>1
  <2>3. Len(page.form.ranks) = Len(L!GroupCounts(n))
    BY <1>4, <2>2, SameLength
  <2> QED  BY <1>3, <1>7, <2>3
<1> QED  BY <1>6, <1>7

\* A declaration with cards has a group for exactly the cards it is made for,
\* whatever was selected before, however the turn went and whoever dropped
\* meanwhile (OpeningDeclaration.tsx, GameRoom.tsx).
THEOREM DeclarationsHaveGroups == Spec => []DeclarationsFit
<1>1. Spec => []ComposerInv
  BY ComposerStarts, ComposerSteps, PTL DEF Spec
<1> QED  BY <1>1, FormsHaveTheirGroups, PTL

=============================================================================
