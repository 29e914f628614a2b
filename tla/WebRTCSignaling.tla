-------------------------- MODULE WebRTCSignaling --------------------------
(***************************************************************************)
(* The room/peer session manager of static/sdk/webRTC.js: the WebRTC      *)
(* facade with its relay-socket handlers (the signaling router), the      *)
(* WebRTCRoom roster and join state, and one WebRTCPeer session per       *)
(* remote peer wrapping a SimplePeer transport.                           *)
(*                                                                         *)
(* The relay socket, the remote peers and the SimplePeer transports are   *)
(* external: they appear as environment actions that deliver the events  *)
(* the code subscribes to, in any order the relay and the transport       *)
(* allow.  Every handler of the code runs to completion in one step: the  *)
(* JavaScript event loop is single threaded and none of the handlers      *)
(* modelled here awaits anything.  Media (streams) are modelled in        *)
(* RoomMedia; this module abstracts every media call away.               *)
(***************************************************************************)
EXTENDS Naturals, Sequences, SequencesExt, FiniteSets

CONSTANTS
    Rooms,        \* room ids the application may open
    RemotePeers,  \* peer ids of the other participants
    PeerIds,      \* peer ids the relay may assign to this client ('open')
    NULL,         \* the JavaScript null
    MaxSessions,  \* bound on the number of WebRTCPeer objects ever built
    MaxOut,       \* bound on the relay messages buffered in the socket
    MaxTeardowns  \* bound on the destroy() calls counted per session

ASSUME RemotePeers \cap PeerIds = {}
ASSUME MaxSessions \in Nat /\ MaxOut \in Nat /\ MaxTeardowns \in Nat \ {0}

VARIABLES
    \* WebRTC (the facade)
    localPeerId,  \* this.localPeerId, set by the relay's 'open' event
    rooms,        \* the keys of this.peerRooms
    \* WebRTCRoom, one per room id
    roomPeerId,   \* room.localPeerId
    isJoined,     \* room.isJoined
    roster,       \* room.peers: a sequence of session ids
    \* WebRTCPeer objects, numbered in order of construction
    session,      \* session id -> the fields of that WebRTCPeer
    \* the relay socket and the server behind it (environment)
    sockUp,       \* the socket is connected
    opened,       \* the relay's 'open' event has arrived on this connection
    out,          \* messages emitted on the socket, not yet taken by the relay
    serverRooms,  \* << room, peer id >> pairs the relay has registered
    offered       \* <<room, peer>> pairs whose remote peer holds our offer

vars == << localPeerId, rooms, roomPeerId, isJoined, roster, session,
           sockUp, opened, out, serverRooms, offered >>

SessionIds == 1..MaxSessions

\* The states of a SimplePeer transport: "closing" is a transport that was
\* destroyed (by the code or by a failure) whose 'close' event is pending.
TStates == {"new", "connected", "closing", "closed"}

SessionRec == [roomId: Rooms, peerId: RemotePeers, initiator: BOOLEAN,
               localPeerId: PeerIds \cup {NULL}, tstate: TStates,
               destroys: Nat, remoteSet: BOOLEAN, pendingSignal: BOOLEAN]

\* Only the messages the relay acts on for this client are kept: 'join'
\* and 'offer'.  'answer' and 'leave' go to the remote peer, whose
\* behaviour is left free, so their emission changes nothing modelled.
Msg == [type: {"join", "offer"}, roomId: Rooms,
        peerId: PeerIds \cup {NULL}, to: RemotePeers \cup {NULL}]

TypeOK ==
    /\ localPeerId \in PeerIds \cup {NULL}
    /\ rooms \subseteq Rooms
    /\ roomPeerId \in [Rooms -> PeerIds \cup {NULL}]
    /\ isJoined \in [Rooms -> BOOLEAN]
    /\ roster \in [Rooms -> Seq(SessionIds)]
    /\ DOMAIN session \subseteq SessionIds
    /\ \A s \in DOMAIN session : session[s] \in SessionRec
    /\ sockUp \in BOOLEAN /\ opened \in BOOLEAN
    /\ out \in Seq(Msg)
    /\ serverRooms \subseteq Rooms \X (PeerIds \cup {NULL})
    /\ offered \subseteq Rooms \X RemotePeers

-----------------------------------------------------------------------------
(* Helpers of the code                                                     *)

\* The remote peer ids of the sessions in room r's roster.
RosterIds(r) == { session[s].peerId : s \in Range(roster[r]) }

\* WebRTCRoom.__peer(peerId): the first roster session with that peer id.
LookupPeer(r, p) == roster[r][SelectInSeq(roster[r], LAMBDA s : session[s].peerId = p)]

\* WebRTCRoom.join(): emit 'join' once, and only once localPeerId is known.
JoinMsg(r, id) == [type |-> "join", roomId |-> r, peerId |-> id, to |-> NULL]

CanJoin(r) == roomPeerId[r] # NULL /\ ~isJoined[r]

\* WebRTCPeer.destroy(): fire onLeave (counted in destroys) and destroy the
\* SimplePeer, which schedules its 'close' event unless already destroyed.
Destroyed(rec) ==
    [rec EXCEPT !.destroys = @ + 1,
                !.tstate = IF @ \in {"new", "connected"} THEN "closing" ELSE @]

DestroyAll(S) == [s \in DOMAIN session |->
                      IF s \in S THEN Destroyed(session[s]) ELSE session[s]]

\* WebRTCRoom.removePeer(peerId): destroy and splice the first session with
\* that peer id; a no-op when there is none.  Then change().
RemovePeer(r, p) ==
    IF p \in RosterIds(r)
    THEN LET s == LookupPeer(r, p) IN
         /\ session' = [session EXCEPT ![s] = Destroyed(@)]
         /\ roster' = [roster EXCEPT ![r] = RemoveFirst(@, s)]
    ELSE UNCHANGED << session, roster >>

\* WebRTCRoom.disconnect(): destroy every session, empty the roster and
\* forget the join.  (It does not call change().)
DisconnectRoom(R) ==
    /\ session' = DestroyAll(UNION { Range(roster[r]) : r \in R })
    /\ roster' = [r \in Rooms |-> IF r \in R THEN << >> ELSE roster[r]]
    /\ isJoined' = [r \in Rooms |-> IF r \in R THEN FALSE ELSE isJoined[r]]

\* The id the next WebRTCPeer constructed gets.
NextSession == Cardinality(DOMAIN session) + 1

\* Mutant of Known: the lookup in peer() never finds the existing session.
KnownMissed(r, p) == FALSE

\* WebRTCRoom.peer({peerId, initiator}): lookup-or-create.  Known is the
\* test `if(!peer)` on the result of __peer(peerId).  A new session copies
\* the room's localPeerId and is appended to the roster.
Known(r, p) == p \in RosterIds(r)

PeerFor(r, p) == IF Known(r, p) THEN LookupPeer(r, p) ELSE NextSession

CanPeer(r, p) == Known(r, p) \/ NextSession <= MaxSessions

\* Mutant of NewSession: the constructor copies the remote peer id into
\* localPeerId (this.localPeerId = peerId).
NewSessionSwappedIds(r, p, init) ==
    [roomId |-> r, peerId |-> p, initiator |-> init,
     localPeerId |-> p, tstate |-> "new", destroys |-> 0,
     remoteSet |-> FALSE, pendingSignal |-> init]

NewSession(r, p, init) ==
    [roomId |-> r, peerId |-> p, initiator |-> init,
     localPeerId |-> roomPeerId[r], tstate |-> "new", destroys |-> 0,
     remoteSet |-> FALSE, pendingSignal |-> init]

\* WebRTCPeer.receiveOffer / receiveAnswer: SimplePeer.signal(payload)
\* throws on a destroyed transport, which aborts the handler.  The remote
\* description is set when the payload fits the role (an answer for an
\* initiator, an offer otherwise); SimplePeer destroys itself when
\* setting a misplaced one fails, which TransportFail covers.  With
\* trickle off, a non-initiator answers every offer with one 'signal'.
Fits(rec, kind) == (kind = "answer") = rec.initiator

Fed(rec, kind) ==
    IF rec.tstate \in {"new", "connected"} /\ Fits(rec, kind)
    THEN [rec EXCEPT !.remoteSet = TRUE,
                     !.pendingSignal = @ \/ kind = "offer"]
    ELSE rec

PeerAndFeed(r, p, init, kind) ==
    LET s == PeerFor(r, p)
        rec == IF Known(r, p) THEN session[s] ELSE NewSession(r, p, init)
    IN /\ CanPeer(r, p)
       /\ session' = (s :> (IF kind = "none" THEN rec ELSE Fed(rec, kind))) @@ session
       /\ roster' = IF Known(r, p) THEN roster
                    ELSE [roster EXCEPT ![r] = Append(@, s)]

-----------------------------------------------------------------------------
(* Application calls                                                        *)

\* WebRTC.room(roomId): create the room on first reference; its
\* constructor calls join().
OpenRoom(r) ==
    /\ r \notin rooms
    /\ rooms' = rooms \cup {r}
    /\ roomPeerId' = [roomPeerId EXCEPT ![r] = localPeerId]
    /\ isJoined' = [isJoined EXCEPT ![r] = localPeerId # NULL]
    /\ out' = IF localPeerId # NULL
              THEN Append(out, JoinMsg(r, localPeerId))
              ELSE out
    /\ UNCHANGED << localPeerId, roster, session, sockUp, opened,
                    serverRooms, offered >>

\* room.join() called by the application.
Join(r) ==
    /\ r \in rooms
    /\ CanJoin(r)
    /\ isJoined' = [isJoined EXCEPT ![r] = TRUE]
    /\ out' = Append(out, JoinMsg(r, roomPeerId[r]))
    /\ UNCHANGED << localPeerId, rooms, roomPeerId, roster, session, sockUp,
                    opened, serverRooms, offered >>

\* room.removePeer(peerId) called by the application.
AppRemovePeer(r, p) ==
    /\ r \in rooms
    /\ RemovePeer(r, p)
    /\ UNCHANGED << localPeerId, rooms, roomPeerId, isJoined, sockUp, opened,
                    out, serverRooms, offered >>

\* room.disconnect() called by the application.
AppDisconnect(r) ==
    /\ r \in rooms
    /\ DisconnectRoom({r})
    /\ UNCHANGED << localPeerId, rooms, roomPeerId, sockUp, opened, out,
                    serverRooms, offered >>

\* room.leave(): destroy every session, but keep them in the roster and
\* keep isJoined.
Leave(r) ==
    /\ r \in rooms
    /\ \A s \in Range(roster[r]) : session[s].destroys < MaxTeardowns
    /\ session' = DestroyAll(Range(roster[r]))
    /\ UNCHANGED << localPeerId, rooms, roomPeerId, isJoined, roster, sockUp,
                    opened, out, serverRooms, offered >>

-----------------------------------------------------------------------------
(* Relay socket events and their handlers in WebRTC                         *)

\* The socket connects; WebRTC.__onConnect calls join() on every room.
\* 'connect' precedes the relay's 'open' on the same connection.
Connect ==
    LET J == { r \in rooms : CanJoin(r) }
    IN /\ ~sockUp
       /\ sockUp' = TRUE
       /\ opened' = FALSE
       /\ isJoined' = [r \in Rooms |-> isJoined[r] \/ r \in J]
       /\ out' = out \o SetToSeq({ JoinMsg(r, roomPeerId[r]) : r \in J })
       /\ UNCHANGED << localPeerId, rooms, roomPeerId, roster, session,
                       serverRooms, offered >>

\* WebRTC.__onOpen({peerId}): adopt the id assigned by the relay and copy
\* it into every room.  It does not call join().
Open(id) ==
    /\ sockUp /\ ~opened
    /\ opened' = TRUE
    /\ localPeerId' = id
    /\ roomPeerId' = [r \in Rooms |-> IF r \in rooms THEN id ELSE roomPeerId[r]]
    /\ UNCHANGED << rooms, isJoined, roster, session, sockUp, out,
                    serverRooms, offered >>

\* The connection drops; WebRTC.__onDisconnect calls disconnect() on every
\* room.  The relay forgets this client's rooms and our pending offers;
\* messages not yet taken by the relay stay buffered in the socket.
Disconnect ==
    /\ sockUp
    /\ sockUp' = FALSE
    /\ DisconnectRoom(rooms)
    /\ serverRooms' = {}
    /\ offered' = {}
    /\ UNCHANGED << localPeerId, rooms, roomPeerId, opened, out >>

\* The relay takes the oldest buffered message.  A 'join' registers the
\* client in the room under the peer id it carries; an offer reaches its remote peer.
RelayTake ==
    /\ sockUp /\ out # << >>
    /\ LET m == Head(out) IN
       /\ serverRooms' = IF m.type = "join"
                         THEN serverRooms \cup {<< m.roomId, m.peerId >>}
                         ELSE serverRooms
       /\ offered' = IF m.type = "offer" THEN offered \cup {<< m.roomId, m.to >>}
                     ELSE offered
    /\ out' = Tail(out)
    /\ UNCHANGED << localPeerId, rooms, roomPeerId, isJoined, roster, session,
                    sockUp, opened >>

\* Room-scoped events reach this client once the relay has it in the room.
RoomEvent(r) == sockUp /\ opened /\ \E id \in PeerIds : << r, id >> \in serverRooms

\* 'request': WebRTC.__onOfferRequested, room.peer({initiator: true}).
OnOfferRequested(r, p) ==
    /\ RoomEvent(r)
    /\ PeerAndFeed(r, p, TRUE, "none")
    /\ UNCHANGED << localPeerId, rooms, roomPeerId, isJoined, sockUp, opened,
                    out, serverRooms, offered >>

\* 'offer': WebRTC.__onReceiveOffer, room.peer({initiator: false}) then
\* peer.receiveOffer.
OnReceiveOffer(r, p) ==
    /\ RoomEvent(r)
    /\ PeerAndFeed(r, p, FALSE, "offer")
    /\ UNCHANGED << localPeerId, rooms, roomPeerId, isJoined, sockUp, opened,
                    out, serverRooms, offered >>

\* 'answer': WebRTC.__onReceiveAnswer, room.peer({initiator: false}) then
\* peer.receiveAnswer.  A remote peer answers only an offer it holds.
OnReceiveAnswer(r, p) ==
    /\ RoomEvent(r)
    /\ << r, p >> \in offered
    /\ PeerAndFeed(r, p, FALSE, "answer")
    /\ UNCHANGED << localPeerId, rooms, roomPeerId, isJoined, sockUp, opened,
                    out, serverRooms, offered >>

\* 'leave': WebRTC.__removeUser, room.removePeer(peerId).
OnRemoveUser(r, p) ==
    /\ RoomEvent(r)
    /\ RemovePeer(r, p)
    /\ UNCHANGED << localPeerId, rooms, roomPeerId, isJoined, sockUp, opened,
                    out, serverRooms, offered >>

-----------------------------------------------------------------------------
(* SimplePeer transport events and their handlers in WebRTCPeer            *)

Live(s) == session[s].tstate \in {"new", "connected"}

\* 'signal': emit 'offer' (initiator) or 'answer' with this.metadata.  An
\* initiator signals once on creation (trickle off); a non-initiator once
\* per offer it is fed.
OnSignal(s) ==
    /\ Live(s)
    /\ session[s].pendingSignal
    /\ session' = [session EXCEPT ![s].pendingSignal = FALSE]
    /\ out' = IF session[s].initiator
              THEN Append(out, [type |-> "offer", roomId |-> session[s].roomId,
                                peerId |-> session[s].localPeerId,
                                to |-> session[s].peerId])
              ELSE out
    /\ UNCHANGED << localPeerId, rooms, roomPeerId, isJoined, roster,
                    sockUp, opened, serverRooms, offered >>

\* 'connect': the remote description is in place on both sides.
OnConnect(s) ==
    /\ session[s].tstate = "new"
    /\ session[s].remoteSet
    /\ session' = [session EXCEPT ![s].tstate = "connected"]
    /\ UNCHANGED << localPeerId, rooms, roomPeerId, isJoined, roster, sockUp,
                    opened, out, serverRooms, offered >>

\* The transport fails (ICE failure, remote hang-up) and destroys itself.
TransportFail(s) ==
    /\ Live(s)
    /\ session' = [session EXCEPT ![s].tstate = "closing"]
    /\ UNCHANGED << localPeerId, rooms, roomPeerId, isJoined, roster, sockUp,
                    opened, out, serverRooms, offered >>

\* WebRTCRoom.__onPeerDisconnected({roomId, userId, peerId}), given the
\* sessions after the transport closed: destroy and splice the first roster
\* session of room r whose peerId equals the given peerId, then change().
\* The result is the pair << sessions, roster of r >>.
PeerDisconnected(sess, r, pid) ==
    LET i == SelectInSeq(roster[r], LAMBDA x : sess[x].peerId = pid)
    IN IF i = 0 THEN << sess, roster[r] >>
       ELSE << [sess EXCEPT ![roster[r][i]] = Destroyed(@)], RemoveAt(roster[r], i) >>

\* 'close': the handler passes this.metadata, whose peerId is the LOCAL
\* peer id (the remote one is in 'to'), to the room's disconnect callback,
\* and emits 'leave' with the same metadata (not kept, see Msg).
OnClose(s) ==
    LET rec == session[s]
        r == rec.roomId
        res == PeerDisconnected([session EXCEPT ![s].tstate = "closed"], r,
                                rec.localPeerId)
    IN /\ rec.tstate = "closing"
       /\ session' = res[1]
       /\ roster' = [roster EXCEPT ![r] = res[2]]
       /\ UNCHANGED << localPeerId, rooms, roomPeerId, isJoined, sockUp, opened,
                       out, serverRooms, offered >>

-----------------------------------------------------------------------------

Init ==
    /\ localPeerId = NULL
    /\ rooms = {}
    /\ roomPeerId = [r \in Rooms |-> NULL]
    /\ isJoined = [r \in Rooms |-> FALSE]
    /\ roster = [r \in Rooms |-> << >>]
    /\ session = [s \in {} |-> NULL]
    /\ sockUp = FALSE
    /\ opened = FALSE
    /\ out = << >>
    /\ serverRooms = {}
    /\ offered = {}

Next ==
    \/ \E r \in Rooms : OpenRoom(r) \/ Join(r) \/ AppDisconnect(r) \/ Leave(r)
    \/ \E r \in Rooms, p \in RemotePeers :
          \/ AppRemovePeer(r, p)
          \/ OnOfferRequested(r, p)
          \/ OnReceiveOffer(r, p)
          \/ OnReceiveAnswer(r, p)
          \/ OnRemoveUser(r, p)
    \/ Connect \/ Disconnect \/ RelayTake
    \/ \E id \in PeerIds : Open(id)
    \/ \E s \in DOMAIN session :
          OnSignal(s) \/ OnConnect(s) \/ TransportFail(s) \/ OnClose(s)

\* The relay delivers what it was sent and assigns an id on every
\* connection; SimplePeer emits 'close' on the tick after destroy().
\* Application calls, remote peers, network failures and reconnects are
\* not assumed to happen.
Fairness ==
    /\ WF_vars(RelayTake)
    /\ WF_vars(\E id \in PeerIds : Open(id))
    /\ \A s \in SessionIds : WF_vars(s \in DOMAIN session /\ OnClose(s))

Spec == Init /\ [][Next]_vars /\ Fairness

\* Keeps the socket buffer finite.
OutBound == Len(out) <= MaxOut

-----------------------------------------------------------------------------
(* Properties                                                              *)

\* The roster as WebRTCRoom's users see it: the sessions of each room as a
\* set, the remote peer each session was built for, and the sessions whose
\* destroy() has run.
AR == INSTANCE AbstractRoom WITH
    Sessions <- SessionIds,
    members <- [r \in Rooms |-> Range(roster[r])],
    peerOf <- [s \in SessionIds |->
                  IF s \in DOMAIN session THEN session[s].peerId ELSE NULL],
    torn <- { s \in DOMAIN session : session[s].destroys >= 1 }

\* However 'request', 'offer', 'answer' and 'leave' events, transport
\* closes, app calls and socket drops interleave, every step of the code
\* is a step of AbstractRoom: peer() never builds a second session for a
\* peer the room holds, every path out of a roster (removePeer, disconnect,
\* the close callback) runs destroy(), and no session returns to a roster.
AbstractRoomRefined == AR!ASpec

\* Spec section 3: a session is destroyed when its transport reports
\* 'close'; no roster keeps a session whose transport has closed.
ClosedSessionsLeaveRoster ==
    \A r \in Rooms : \A s \in Range(roster[r]) : session[s].tstate # "closed"

\* Spec section 3: join is deferred until localPeerId is set, and the join
\* message carries that id.  Once the relay has assigned an id on a live
\* connection, the relay eventually holds every open room joined under
\* that id (or the connection drops): neither a room opened before 'open'
\* nor the rejoin that __onConnect sends on a reconnect may leave a room
\* unjoined or joined under the id of the previous connection.
RoomsJoinedUnderCurrentId ==
    \A r \in Rooms :
        (r \in rooms /\ sockUp /\ opened)
            ~> (<< r, localPeerId >> \in serverRooms \/ ~sockUp)

=============================================================================
