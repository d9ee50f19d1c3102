------------------------------- MODULE Voice -------------------------------
(* Voice at the table: the RoomVoice object behind each player's controls    *)
(* (voice/voice.ts, ActiveVoiceControls of GameRoom.tsx), the relay in the   *)
(* room actor (handleVoice of room.go) and, as far as voice.ts uses it, the  *)
(* browser's RTCPeerConnection: signalling states, rollback of an own offer  *)
(* by a remote one, and audio that flows once an offer and its answer meet.  *)
(*                                                                           *)
(* The room relays a signal when it gets it; what delays it is the pipe to   *)
(* its receiver.  A player's page may lose its connection, and control of    *)
(* the seat to another device of the player.  Muting, which route the audio  *)
(* takes, voice on the other device, and pages that are reloaded or closed   *)
(* are left out; the seats do not change.                                    *)
EXTENDS Naturals, Sequences, FiniteSets

CONSTANTS
    Players,
    MaxVoice,       \* MaxVoiceParticipants; 8 in the code
    MaxOffers,      \* bound: offers made
    MaxMounts,      \* bound: times controls are shown
    MaxAsks,        \* bound: microphone requests of one player under way
    MaxBreaks       \* bound: connections lost and controls taken over

VARIABLES
    won,       \* players who have finished; the room takes nothing from them
    members,   \* voiceMembers of the room
    voice,     \* the RoomVoice of each player's controls
    orphans,   \* requests and microphones of objects already disposed of
    pipe,      \* signals on their way to each player
    link,      \* of each page: "heard" by the room, "unheard" while another
               \* device has control, "lost" but not noticed, or "off"
    outbox,    \* announcements kept for the next connection, or sent on it
    unsaid,    \* history: players whose last leave the room did not take
    offers, mounts, breaks
vars == <<won, members, voice, orphans, pipe, link, outbox, unsaid, offers, mounts, breaks>>

\* A peer connection: whether it carries the microphone, its signalling state,
\* the own offer under way, the remote offer being answered, and what was
\* agreed last: the number of the offer and who sends audio under it.
NoSession == [n |-> 0, mine |-> FALSE, theirs |-> FALSE]
NewPeer(track) == [track |-> track, state |-> "stable", own |-> 0,
                   remote |-> [n |-> 0, sends |-> FALSE], session |-> NoSession]
NewVoice == [shown |-> FALSE, asks |-> 0, mics |-> 0, on |-> FALSE,
             peers |-> [q \in {} |-> NoSession], work |-> {}]

Init ==
    /\ won = {} /\ members = {}
    /\ voice = [p \in Players |-> NewVoice]
    /\ orphans = [p \in Players |-> [asks |-> 0, mics |-> 0]]
    /\ pipe = [p \in Players |-> <<>>]
    /\ link = [p \in Players |-> "heard"]
    /\ outbox = [p \in Players |-> <<>>]
    /\ unsaid = {}
    /\ offers = 0 /\ mounts = 0 /\ breaks = 0

Streaming(p) == voice[p].mics > 0
Links == <<link, outbox, unsaid, breaks>>

-----------------------------------------------------------------------------
(* The relay. *)

Signal(p, kind, d) == [from |-> p, kind |-> kind, data |-> d]

\* Faulty variant: a leave is relayed and not noted.
RelayOnly(p, kind) == IF kind = "join" THEN members \cup {p} ELSE members
Noted(p, kind) == IF kind = "join" THEN members \cup {p} ELSE members \ {p}

\* The room takes signals from the device that has control, of a player who has
\* not finished; with too many at the table, leaves alone.
Takes(p, kind) ==
    /\ link[p] = "heard" /\ p \notin won
    /\ kind # "leave" => Cardinality(Players) <= MaxVoice
    /\ kind = "join" /\ p \notin members => Cardinality(members) < MaxVoice

\* A device without control listens all the same.
Reached(q) == link[q] \in {"heard", "unheard"}

\* join and leave go to everybody else at the table.
Relay(p, kind) ==
    IF Takes(p, kind)
    THEN /\ members' = Noted(p, kind)
         /\ pipe' = [q \in Players |-> IF q # p /\ Reached(q)
                                       THEN Append(pipe[q], Signal(p, kind, NoSession)) ELSE pipe[q]]
         /\ unsaid' = IF kind = "leave" THEN unsaid \ {p} ELSE unsaid
    ELSE /\ unsaid' = IF kind = "leave" THEN unsaid \cup {p} ELSE unsaid
         /\ UNCHANGED <<members, pipe>>

\* What a page says while it is not connected is sent when it is, in order.
Announce(p, kind) ==
    IF link[p] = "off" \/ outbox[p] # <<>>
    THEN outbox' = [outbox EXCEPT ![p] = Append(@, kind)] /\ UNCHANGED <<members, pipe, unsaid>>
    ELSE Relay(p, kind) /\ UNCHANGED outbox

\* An offer or an answer goes to one player, the candidates of the sender after it.
Tell(p, q, kind, d) ==
    /\ outbox[p] = <<>>
    /\ pipe' = IF Takes(p, kind) /\ Reached(q)
               THEN [pipe EXCEPT ![q] = @ \o <<Signal(p, kind, d), Signal(p, "ice", NoSession)>>]
               ELSE pipe
    /\ UNCHANGED members

-----------------------------------------------------------------------------
(* The controls. *)

\* A page that has not heard yet that another device has control shows them too.
Show(p) ==
    /\ ~voice[p].shown /\ p \notin won /\ link[p] # "off" /\ Cardinality(Players) <= MaxVoice
    /\ mounts < MaxMounts
    /\ voice' = [voice EXCEPT ![p] = [NewVoice EXCEPT !.shown = TRUE]]
    /\ mounts' = mounts + 1
    /\ UNCHANGED <<won, members, orphans, pipe, Links, offers>>

Enable(p) ==
    /\ voice[p].shown /\ ~voice[p].on /\ voice[p].asks < MaxAsks
    /\ voice' = IF Streaming(p) THEN [voice EXCEPT ![p].on = TRUE]
                ELSE [voice EXCEPT ![p].asks = @ + 1]
    /\ UNCHANGED <<won, members, orphans, pipe, Links, offers, mounts>>

\* join() goes on after its two awaits.
Granted(p) ==
    /\ voice[p].asks > 0
    /\ voice' = [voice EXCEPT ![p].asks = @ - 1, ![p].mics = @ + 1, ![p].on = TRUE]
    /\ Announce(p, "join")
    /\ UNCHANGED <<won, orphans, link, offers, mounts, breaks>>
Denied(p) ==
    /\ voice[p].asks > 0
    /\ voice' = [voice EXCEPT ![p].asks = @ - 1, ![p].on = FALSE]
    /\ UNCHANGED <<won, members, orphans, pipe, Links, offers, mounts>>
GrantedLate(p) ==
    /\ orphans[p].asks > 0
    /\ orphans' = [orphans EXCEPT ![p].asks = @ - 1, ![p].mics = @ + 1]
    /\ Announce(p, "join")
    /\ UNCHANGED <<won, voice, link, offers, mounts, breaks>>

\* Faulty variant: the object of hidden controls keeps its connections.
KeepPeers(v) == [NewVoice EXCEPT !.peers = v.peers]
Disposed(v) == NewVoice

\* dispose(): the last microphone is stopped, connections are closed, signals
\* are no longer listened to.  Requests under way go on without an object.
Dispose(p) ==
    /\ voice' = [voice EXCEPT ![p] = Disposed(voice[p])]
    /\ orphans' = [orphans EXCEPT ![p].asks = @ + voice[p].asks,
                                  ![p].mics = @ + IF Streaming(p) THEN voice[p].mics - 1 ELSE 0]
Hide(p) ==
    /\ voice[p].shown
    /\ Dispose(p)
    /\ IF Streaming(p) THEN Announce(p, "leave") ELSE UNCHANGED <<members, pipe, outbox, unsaid>>
    /\ UNCHANGED <<won, link, offers, mounts, breaks>>

\* The player finishes; the controls go when the page hears of it.
Win(p) ==
    /\ p \notin won
    /\ won' = won \cup {p}
    /\ UNCHANGED <<members, voice, orphans, pipe, Links, offers, mounts>>

-----------------------------------------------------------------------------
(* The connection of the page, and control of the seat. *)

Breaks == breaks < MaxBreaks /\ breaks' = breaks + 1

\* Another device of the player takes control, and goes again.
Lapse(p) ==
    /\ link[p] = "heard" /\ Breaks
    /\ link' = [link EXCEPT ![p] = "unheard"]
    /\ UNCHANGED <<won, members, voice, orphans, pipe, outbox, unsaid, offers, mounts>>
Resume(p) ==
    /\ link[p] = "unheard"
    /\ link' = [link EXCEPT ![p] = "heard"]
    /\ UNCHANGED <<won, members, voice, orphans, pipe, outbox, unsaid, offers, mounts, breaks>>

\* What is under way is lost with the connection.
Break(p) ==
    /\ Reached(p) /\ Breaks
    /\ link' = [link EXCEPT ![p] = "lost"]
    /\ pipe' = [pipe EXCEPT ![p] = <<>>] /\ outbox' = [outbox EXCEPT ![p] = <<>>]
    /\ unsaid' = unsaid \cup {q \in {p} : \E i \in 1..Len(outbox[q]) : outbox[q][i] = "leave"}
    /\ UNCHANGED <<won, members, voice, orphans, offers, mounts>>

\* A page that is not connected has no controls, and keeps what they said last.
Notice(p) ==
    /\ link[p] = "lost"
    /\ link' = [link EXCEPT ![p] = "off"]
    /\ Dispose(p)
    /\ outbox' = IF Streaming(p) THEN [outbox EXCEPT ![p] = Append(@, "leave")] ELSE outbox
    /\ UNCHANGED <<won, members, pipe, unsaid, offers, mounts, breaks>>

\* The room forgets a player without a connection, and tells nobody.
Forget(p) ==
    /\ link[p] \in {"lost", "off"} /\ p \in members
    /\ members' = members \ {p}
    /\ UNCHANGED <<won, voice, orphans, pipe, Links, offers, mounts>>

\* The device that joins last has control.
Rejoin(p) ==
    /\ link[p] = "off"
    /\ link' = [link EXCEPT ![p] = "heard"]
    /\ UNCHANGED <<won, members, voice, orphans, pipe, outbox, unsaid, offers, mounts, breaks>>
Flush(p) ==
    /\ Reached(p) /\ outbox[p] # <<>>
    /\ Relay(p, Head(outbox[p]))
    /\ outbox' = [outbox EXCEPT ![p] = Tail(@)]
    /\ UNCHANGED <<won, voice, orphans, link, offers, mounts, breaks>>

-----------------------------------------------------------------------------
(* handle(): what a signal starts, and what follows its first await. *)

\* ensurePeer: a known connection is used as it is; only a new one is given
\* the tracks of the microphone.
EnsurePeer(p, q) ==
    IF q \in DOMAIN voice[p].peers THEN voice[p].peers
    ELSE [x \in DOMAIN voice[p].peers \cup {q} |->
            IF x = q THEN NewPeer(Streaming(p)) ELSE voice[p].peers[x]]

WithoutPeer(p, q) == [x \in DOMAIN voice[p].peers \ {q} |-> voice[p].peers[x]]
Later(p, kind, q) == voice[p].work \cup {[kind |-> kind, peer |-> q]}

\* A remote offer replaces an own one that is not answered yet.
TakeOffer(pc, d) == [pc EXCEPT !.state = "have-remote", !.own = 0, !.remote = d]
\* An answer is taken only to the own offer; anything else fails and is dropped.
TakeAnswer(pc, d) ==
    IF pc.state # "have-local" THEN pc
    ELSE [pc EXCEPT !.state = "stable", !.own = 0,
                    !.session = IF d.n = pc.own
                                THEN [n |-> d.n, mine |-> pc.track, theirs |-> d.sends]
                                ELSE NoSession]

Put(v, q, pc) == [v EXCEPT !.peers = [v.peers EXCEPT ![q] = pc]]

Heard(p, s) ==
    LET v   == voice[p]
        q   == s.from
        pcs == EnsurePeer(p, q)
    IN  CASE s.kind = "join"   -> [v EXCEPT !.peers = pcs, !.work = Later(p, "offer", q)]
          [] s.kind = "leave"  -> [v EXCEPT !.peers = WithoutPeer(p, q),
                                            !.work = {w \in v.work : w.peer # q}]
          [] s.kind = "offer"  -> [v EXCEPT !.peers = [pcs EXCEPT ![q] = TakeOffer(pcs[q], s.data)],
                                            !.work = Later(p, "answer", q)]
          [] s.kind = "answer" -> IF q \in DOMAIN v.peers
                                  THEN Put(v, q, TakeAnswer(v.peers[q], s.data)) ELSE v
          [] OTHER             -> [v EXCEPT !.peers = pcs]

\* Without controls nobody listens, and the signal is lost.
Receive(p) ==
    /\ pipe[p] # <<>>
    /\ voice' = IF voice[p].shown THEN [voice EXCEPT ![p] = Heard(p, Head(pipe[p]))] ELSE voice
    /\ pipe' = [pipe EXCEPT ![p] = Tail(@)]
    /\ UNCHANGED <<won, members, orphans, Links, offers, mounts>>

\* What follows the first await of a handler is no longer to be done.
Done(v, w) == [v EXCEPT !.work = @ \ {w}]

\* createOffer, setLocalDescription, send.  It fails while a remote offer is
\* being answered.
SendOffer(p, w) ==
    /\ w \in voice[p].work /\ w.kind = "offer" /\ offers < MaxOffers
    /\ LET q  == w.peer
           pc == voice[p].peers[q]
           n  == offers + 1
           open == q \in DOMAIN voice[p].peers /\ pc.state # "have-remote"
       IN  IF ~open
           THEN voice' = [voice EXCEPT ![p] = Done(voice[p], w)] /\ UNCHANGED <<pipe, members, offers>>
           ELSE /\ offers' = n
                /\ voice' = [voice EXCEPT ![p] =
                     Put(Done(voice[p], w), q, [pc EXCEPT !.state = "have-local", !.own = n])]
                /\ Tell(p, q, "offer", [n |-> n, sends |-> pc.track])
    /\ UNCHANGED <<won, orphans, Links, mounts>>

\* createAnswer, setLocalDescription, send.  Audio is answered only on a line
\* that the offer had.
SendAnswer(p, w) ==
    /\ w \in voice[p].work /\ w.kind = "answer"
    /\ LET q  == w.peer
           pc == voice[p].peers[q]
           open == q \in DOMAIN voice[p].peers /\ pc.state = "have-remote"
           mine == pc.track /\ pc.remote.sends
           session == [n |-> pc.remote.n, mine |-> mine, theirs |-> pc.remote.sends]
       IN  IF ~open
           THEN voice' = [voice EXCEPT ![p] = Done(voice[p], w)] /\ UNCHANGED <<pipe, members>>
           ELSE /\ voice' = [voice EXCEPT ![p] =
                     Put(Done(voice[p], w), q, [pc EXCEPT !.state = "stable", !.session = session])]
                /\ Tell(p, q, "answer", [n |-> pc.remote.n, sends |-> mine])
    /\ UNCHANGED <<won, orphans, Links, offers, mounts>>

\* A connection that was agreed on fails: whoever has a microphone offers anew.
Reconnect(p, q) ==
    /\ Streaming(p) /\ q \in DOMAIN voice[p].peers /\ voice[p].peers[q].session.n # 0
    /\ voice' = [voice EXCEPT ![p].work = Later(p, "offer", q)]
    /\ UNCHANGED <<won, members, orphans, pipe, Links, offers, mounts>>

Next ==
    \E p \in Players :
       \/ Show(p) \/ Enable(p) \/ Granted(p) \/ Denied(p) \/ GrantedLate(p)
       \/ Hide(p) \/ Win(p) \/ Receive(p)
       \/ Lapse(p) \/ Resume(p) \/ Break(p) \/ Notice(p) \/ Forget(p) \/ Rejoin(p) \/ Flush(p)
       \/ \E q \in DOMAIN voice[p].peers : Reconnect(p, q)
       \/ \E w \in voice[p].work : SendOffer(p, w) \/ SendAnswer(p, w)

Spec == Init /\ [][Next]_vars

-----------------------------------------------------------------------------
(* Properties. *)

Known(p, q) == q \in DOMAIN voice[p].peers
\* The two ends have agreed on the same offer.
Connected(p, q) ==
    /\ Known(p, q) /\ Known(q, p)
    /\ voice[p].peers[q].session.n # 0
    /\ voice[p].peers[q].session.n = voice[q].peers[p].session.n
Hears(p, q) == Connected(p, q) /\ voice[p].peers[q].session.theirs
Settled == \A p \in Players :
    /\ pipe[p] = <<>> /\ voice[p].work = {} /\ voice[p].asks = 0 /\ orphans[p].asks = 0
    /\ outbox[p] = <<>> /\ link[p] # "lost"

\* Nobody's voice leaves the browser without their doing: whoever is heard has
\* controls on the page and a microphone that was asked for, whatever signals
\* are still on their way.
NobodyIsOverheard ==
    \A p, q \in Players : Hears(p, q) => voice[q].shown /\ Streaming(q)

\* A player who had voice and whose controls went while still in the match, by
\* choice or with the connection, is forgotten once all signals have arrived
\* and lost connections are made again or noticed: the place among the members
\* is free (it is what MaxVoice counts) and nobody holds a line he would speak
\* on; unless the last leave was lost, or refused because another device had
\* control.
LeaversAreForgotten ==
    Settled => \A q \in Players :
      \/ Streaming(q) \/ q \in won \/ orphans[q].mics > 0 \/ q \in unsaid
      \/ /\ q \notin members
         /\ \A p \in Players : Known(p, q) => ~voice[p].peers[q].session.theirs

=============================================================================
