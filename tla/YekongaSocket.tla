---------------------------- MODULE YekongaSocket ----------------------------
(***************************************************************************)
(* The reconnecting WebSocket client of static/sdk/yekonga.io.js: connect *)
(* with exponential-backoff reconnection, the queue of messages sent      *)
(* while disconnected and its flush on open, acknowledgement correlation  *)
(* with a timeout per acked message, and room membership re-sent on       *)
(* every reconnect.                                                       *)
(*                                                                         *)
(* The WebSocket and the server behind it are environment.  A socket      *)
(* that is connecting either opens or fails; an open one may fail; a      *)
(* failed or closed socket reports 'close' later.  The server reads the   *)
(* client's messages in order, keeps room membership per connection and   *)
(* may or may not acknowledge an emit.  Every handler runs to completion *)
(* in one step, except onopen's flush loop, which is a step per           *)
(* iteration so that a loop that never ends can be observed; while it    *)
(* runs no other event is dispatched.  Backoff delays are abstracted:     *)
(* a scheduled timer fires at some later point.                          *)
(***************************************************************************)
EXTENDS Naturals, Sequences, SequencesExt, FiniteSets

CONSTANTS
    Msgs,                 \* messages emitted with an ack callback
    Rooms,                \* room names the application joins
    Poison,               \* messages whose JSON.stringify throws
    NoMsg,                \* the msg field of a message that is not an emit
    ReconnectionAttempts, \* _opts.reconnectionAttempts
    MaxWire,              \* bound on join/leave messages in flight
    MaxStale              \* bound on replaced sockets still to close

ASSUME Poison \subseteq Msgs /\ NoMsg \notin Msgs
ASSUME ReconnectionAttempts \in Nat /\ MaxWire \in Nat /\ MaxStale \in Nat

VARIABLES
    ws,           \* readyState of this._ws, "closing" until onclose ran
    connected,    \* this.connected
    connecting,   \* this._connecting
    attempts,     \* this._reconnectAttempts
    timer,        \* this._reconnectTimer is set
    reconnection, \* this._opts.reconnection
    pending,      \* this._pendingMessages: the msgs of the queued emits
    pendingAcks,  \* the keys of this._pendingAcks
    timers,       \* m -> number of live ack-timeout timers of m
    rooms,        \* the keys of this._rooms
    flushing,     \* onopen is inside the _flushPendingMessages loop
    stale,        \* replaced sockets whose onclose (bound to this) is due
    \* the connection and the server (environment)
    wire,         \* messages sent on the current connection, unread
    replies,      \* acks sent by the server on the current connection
    srvRooms,     \* rooms the server has this connection in
    \* history, for the properties
    emitOrder,    \* the acked emits, in the order emit() was called
    delivered,    \* the acked emits the server read, in order
    outcomes      \* m -> the results passed to m's ack callback, in order

vars == << ws, connected, connecting, attempts, timer, reconnection,
           pending, pendingAcks, timers, rooms, flushing, stale, wire, replies,
           srvRooms, emitOrder, delivered, outcomes >>

WireMsg == [type: {"emit", "join", "leave", "rejoinRooms"},
            msg: Msgs \cup {NoMsg}, rooms: SUBSET Rooms]

EmitMsg(m) == [type |-> "emit", msg |-> m, rooms |-> {}]
RoomMsg(t, R) == [type |-> t, msg |-> NoMsg, rooms |-> R]

TypeOK ==
    /\ ws \in {"connecting", "open", "closing", "closed"}
    /\ connected \in BOOLEAN /\ connecting \in BOOLEAN
    /\ attempts \in 0..ReconnectionAttempts
    /\ timer \in BOOLEAN /\ reconnection \in BOOLEAN /\ flushing \in BOOLEAN
    /\ stale \in Nat
    /\ pending \in Seq(Msgs)
    /\ pendingAcks \subseteq Msgs
    /\ timers \in [Msgs -> Nat]
    /\ rooms \subseteq Rooms /\ srvRooms \subseteq Rooms
    /\ wire \in Seq(WireMsg) /\ replies \in Seq(Msgs)
    /\ emitOrder \in Seq(Msgs) /\ delivered \in Seq(Msgs)
    /\ outcomes \in [Msgs -> Seq({"ok", "err"})]

-----------------------------------------------------------------------------
(* Helpers of the code                                                     *)

\* isOpen && this.connected, the test at the top of _send.
CanSend == connected /\ ws = "open"

\* _send(message) for a message without an ack (join, leave, rejoinRooms):
\* written to the socket when open, dropped otherwise.
SendPlain(w) == wire' = IF CanSend THEN Append(wire, w) ELSE wire

\* _send(message, ack) for an acked emit of m, with q the queue it is
\* re-queued on.  Queued when disconnected; otherwise an ack entry with a
\* fresh timeout is registered first (replacing, not clearing, an earlier
\* entry of the same msgId), then JSON.stringify + ws.send runs, and a
\* throw re-queues the message.
SendAcked(m, q) ==
    IF ~CanSend
    THEN /\ pending' = Append(q, m)
         /\ UNCHANGED << pendingAcks, timers, wire >>
    ELSE /\ pendingAcks' = pendingAcks \cup {m}
         /\ timers' = [timers EXCEPT ![m] = @ + 1]
         /\ IF m \in Poison
            THEN pending' = Append(q, m) /\ UNCHANGED wire
            ELSE wire' = Append(wire, EmitMsg(m)) /\ pending' = q

\* _scheduleReconnect: at most one timer; each schedule counts an attempt.
ScheduleReconnect ==
    IF timer THEN UNCHANGED << timer, attempts >>
    ELSE timer' = TRUE /\ attempts' = attempts + 1

\* connect(): a no-op while a connection attempt is in progress.
\* Otherwise this._ws is overwritten by a new WebSocket, whatever the
\* state of the old one: an old socket that has not closed yet keeps its
\* handlers, bound to this, and becomes stale.  The new connection starts
\* empty; what the old one carried is not followed further.
ConnectBody ==
    IF connecting
    THEN UNCHANGED << connecting, ws, stale, wire, replies, srvRooms >>
    ELSE /\ connecting' = TRUE
         /\ ws' = "connecting"
         /\ stale' = IF ws = "closed" THEN stale ELSE stale + 1
         /\ wire' = << >> /\ replies' = << >> /\ srvRooms' = {}

\* The ack callback of m runs with result r.
Resolve(m, r) == outcomes' = [outcomes EXCEPT ![m] = Append(@, r)]

-----------------------------------------------------------------------------
(* Application calls                                                       *)

\* emit(event, data, ack) and to(room, event, data, ack) with an ack.
Emit(m) ==
    /\ ~flushing
    /\ m \notin ToSet(emitOrder)
    /\ emitOrder' = Append(emitOrder, m)
    /\ SendAcked(m, pending)
    /\ UNCHANGED << stale, ws, connected, connecting, attempts, timer, reconnection,
                    rooms, flushing, replies, srvRooms, delivered, outcomes >>

\* join(room): only a room not yet joined is recorded and sent.
Join(r) ==
    /\ ~flushing /\ Len(wire) < MaxWire
    /\ r \notin rooms
    /\ rooms' = rooms \cup {r}
    /\ SendPlain(RoomMsg("join", {r}))
    /\ UNCHANGED << stale, ws, connected, connecting, attempts, timer, reconnection,
                    pending, pendingAcks, timers, flushing, replies,
                    srvRooms, emitOrder, delivered, outcomes >>

\* leave(room)
Leave(r) ==
    /\ ~flushing /\ Len(wire) < MaxWire
    /\ r \in rooms
    /\ rooms' = rooms \ {r}
    /\ SendPlain(RoomMsg("leave", {r}))
    /\ UNCHANGED << stale, ws, connected, connecting, attempts, timer, reconnection,
                    pending, pendingAcks, timers, flushing, replies,
                    srvRooms, emitOrder, delivered, outcomes >>

\* connect() called by the application (after disconnect(), to reconnect
\* by hand).  It does not turn reconnection back on.
AppConnect ==
    /\ ~flushing /\ ~connecting /\ stale < MaxStale
    /\ ConnectBody
    /\ UNCHANGED << connected, attempts, timer, reconnection, pending,
                    pendingAcks, timers, rooms, flushing, emitOrder,
                    delivered, outcomes >>

\* disconnect(): reconnection off for good, the timer cleared, ws.close().
Disconnect ==
    /\ ~flushing /\ reconnection
    /\ reconnection' = FALSE
    /\ timer' = FALSE
    /\ ws' = IF ws \in {"connecting", "open"} THEN "closing" ELSE ws
    /\ UNCHANGED << stale, connected, connecting, attempts, pending, pendingAcks,
                    timers, rooms, flushing, wire, replies, srvRooms,
                    emitOrder, delivered, outcomes >>

-----------------------------------------------------------------------------
(* Timers and WebSocket events                                             *)

\* The reconnect timer fires: _reconnectTimer = null; connect().
TimerFires ==
    /\ ~flushing /\ timer
    /\ timer' = FALSE
    /\ ConnectBody
    /\ UNCHANGED << connected, attempts, reconnection, pending, pendingAcks,
                    timers, rooms, flushing, emitOrder, delivered, outcomes >>

\* onopen, up to the flush loop: connected, the attempt count reset, the
\* reconnect timer cleared.
OnOpen ==
    /\ ~flushing /\ ws = "connecting"
    /\ ws' = "open"
    /\ connected' = TRUE
    /\ connecting' = FALSE
    /\ attempts' = 0
    /\ timer' = FALSE
    /\ flushing' = TRUE
    /\ UNCHANGED << stale, reconnection, pending, pendingAcks, timers, rooms, wire,
                    replies, srvRooms, emitOrder, delivered, outcomes >>

\* Mutant of FlushStep: the loop takes the newest queued message (pop)
\* instead of the oldest (shift).
FlushStepPop ==
    /\ flushing /\ pending # << >>
    /\ SendAcked(Last(pending), Front(pending))
    /\ UNCHANGED << stale, ws, connected, connecting, attempts, timer, reconnection,
                    rooms, flushing, replies, srvRooms, emitOrder,
                    delivered, outcomes >>

\* One iteration of _flushPendingMessages: shift the oldest queued message
\* and _send it again.  (connected cannot change inside the loop.)
FlushStep ==
    /\ flushing /\ pending # << >>
    /\ SendAcked(Head(pending), Tail(pending))
    /\ UNCHANGED << stale, ws, connected, connecting, attempts, timer, reconnection,
                    rooms, flushing, replies, srvRooms, emitOrder,
                    delivered, outcomes >>

\* Mutant of FlushDone: onopen does not call _rejoinRooms.
FlushDoneNoRejoin ==
    /\ flushing /\ pending = << >>
    /\ flushing' = FALSE
    /\ UNCHANGED << stale, ws, connected, connecting, attempts, timer, reconnection,
                    pending, pendingAcks, timers, rooms, replies, srvRooms,
                    emitOrder, delivered, outcomes, wire >>

\* The loop ends; onopen goes on with _rejoinRooms (one message naming
\* every joined room, if any) and the local 'connect' event.
FlushDone ==
    /\ flushing /\ pending = << >>
    /\ flushing' = FALSE
    /\ IF rooms # {} THEN SendPlain(RoomMsg("rejoinRooms", rooms))
                     ELSE UNCHANGED wire
    /\ UNCHANGED << stale, ws, connected, connecting, attempts, timer, reconnection,
                    pending, pendingAcks, timers, rooms, replies, srvRooms,
                    emitOrder, delivered, outcomes >>

\* The connection attempt is refused, or the open connection is lost.
WsFail ==
    /\ ~flushing /\ ws \in {"connecting", "open"}
    /\ ws' = "closing"
    /\ UNCHANGED << stale, connected, connecting, attempts, timer, reconnection,
                    pending, pendingAcks, timers, rooms, flushing, wire,
                    replies, srvRooms, emitOrder, delivered, outcomes >>

\* Mutant of OnClose: the attempt limit is tested with <=.
OnCloseOffByOne ==
    /\ ~flushing /\ ws = "closing"
    /\ ws' = "closed"
    /\ connected' = FALSE
    /\ connecting' = FALSE
    /\ wire' = << >> /\ replies' = << >> /\ srvRooms' = {}
    /\ IF reconnection /\ attempts <= ReconnectionAttempts
       THEN ScheduleReconnect ELSE UNCHANGED << timer, attempts >>
    /\ UNCHANGED << stale, reconnection, pending, pendingAcks, timers, rooms,
                    flushing, emitOrder, delivered, outcomes >>

\* Mutant of OnClose: _connecting is not reset.
OnCloseKeepsConnecting ==
    /\ ~flushing /\ ws = "closing"
    /\ ws' = "closed"
    /\ connected' = FALSE
    /\ wire' = << >> /\ replies' = << >> /\ srvRooms' = {}
    /\ IF reconnection /\ attempts < ReconnectionAttempts
       THEN ScheduleReconnect ELSE UNCHANGED << timer, attempts >>
    /\ UNCHANGED << stale, reconnection, pending, pendingAcks, timers, rooms,
                    flushing, emitOrder, delivered, outcomes, connecting >>

\* onclose: disconnected, and a reconnect scheduled while reconnection is
\* on and attempts remain.  What the connection still carried is lost and
\* the server forgets its rooms.
OnClose ==
    /\ ~flushing /\ ws = "closing"
    /\ ws' = "closed"
    /\ connected' = FALSE
    /\ connecting' = FALSE
    /\ wire' = << >> /\ replies' = << >> /\ srvRooms' = {}
    /\ IF reconnection /\ attempts < ReconnectionAttempts
       THEN ScheduleReconnect ELSE UNCHANGED << timer, attempts >>
    /\ UNCHANGED << stale, reconnection, pending, pendingAcks, timers, rooms,
                    flushing, emitOrder, delivered, outcomes >>

\* A replaced socket closes.  Its onclose is bound to this, not to the
\* socket it came from, so it marks the client disconnected and may
\* schedule a reconnect, whatever state the current this._ws is in.
StaleClose ==
    /\ ~flushing /\ stale > 0
    /\ stale' = stale - 1
    /\ connected' = FALSE
    /\ connecting' = FALSE
    /\ IF reconnection /\ attempts < ReconnectionAttempts
       THEN ScheduleReconnect ELSE UNCHANGED << timer, attempts >>
    /\ UNCHANGED << ws, reconnection, pending, pendingAcks, timers, rooms,
                    flushing, wire, replies, srvRooms, emitOrder, delivered,
                    outcomes >>

\* onmessage for an ack: clear the entry's timeout (a no-op on a timer that
\* has fired), resolve and forget the entry if one is registered; a late
\* ack (after the timeout) is ignored.
OnAck ==
    /\ ~flushing /\ ws = "open" /\ replies # << >>
    /\ replies' = Tail(replies)
    /\ LET m == Head(replies) IN
       IF m \in pendingAcks
       THEN /\ timers' = [timers EXCEPT ![m] = IF @ > 0 THEN @ - 1 ELSE 0]
            /\ Resolve(m, "ok")
            /\ pendingAcks' = pendingAcks \ {m}
       ELSE UNCHANGED << timers, outcomes, pendingAcks >>
    /\ UNCHANGED << stale, ws, connected, connecting, attempts, timer, reconnection,
                    pending, rooms, flushing, wire, srvRooms, emitOrder,
                    delivered >>

\* Mutant of AckTimeout: the timeout reports the Error but keeps the entry.
AckTimeoutKeepsEntry(m) ==
    /\ ~flushing /\ timers[m] > 0
    /\ timers' = [timers EXCEPT ![m] = @ - 1]
    /\ IF m \in pendingAcks
       THEN Resolve(m, "err") /\ UNCHANGED pendingAcks
       ELSE UNCHANGED << outcomes, pendingAcks >>
    /\ UNCHANGED << stale, ws, connected, connecting, attempts, timer, reconnection,
                    pending, rooms, flushing, wire, replies, srvRooms,
                    emitOrder, delivered >>

\* An ack timeout of m fires: ack(Error) if an entry of m is registered.
AckTimeout(m) ==
    /\ ~flushing /\ timers[m] > 0
    /\ timers' = [timers EXCEPT ![m] = @ - 1]
    /\ IF m \in pendingAcks
       THEN Resolve(m, "err") /\ pendingAcks' = pendingAcks \ {m}
       ELSE UNCHANGED << outcomes, pendingAcks >>
    /\ UNCHANGED << stale, ws, connected, connecting, attempts, timer, reconnection,
                    pending, rooms, flushing, wire, replies, srvRooms,
                    emitOrder, delivered >>

\* The server reads the oldest message of the connection (environment):
\* an emit is received and possibly acknowledged; join, leave and
\* rejoinRooms update the connection's membership.
ServerRecv ==
    /\ ~flushing /\ ws \in {"open", "closing"} /\ wire # << >>
    /\ wire' = Tail(wire)
    /\ LET w == Head(wire) IN
       IF w.type = "emit"
       THEN /\ delivered' = Append(delivered, w.msg)
            /\ \E acked \in BOOLEAN :
                 replies' = IF acked THEN Append(replies, w.msg) ELSE replies
            /\ UNCHANGED srvRooms
       ELSE /\ srvRooms' = IF w.type = "leave" THEN srvRooms \ w.rooms
                                               ELSE srvRooms \cup w.rooms
            /\ UNCHANGED << delivered, replies >>
    /\ UNCHANGED << stale, ws, connected, connecting, attempts, timer, reconnection,
                    pending, pendingAcks, timers, rooms, flushing,
                    emitOrder, outcomes >>

-----------------------------------------------------------------------------

\* The constructor's connect(): a first WebSocket is connecting.
Init ==
    /\ ws = "connecting"
    /\ connected = FALSE /\ connecting = TRUE
    /\ attempts = 0 /\ timer = FALSE /\ reconnection = TRUE
    /\ pending = << >> /\ pendingAcks = {} /\ timers = [m \in Msgs |-> 0]
    /\ rooms = {} /\ flushing = FALSE /\ stale = 0
    /\ wire = << >> /\ replies = << >> /\ srvRooms = {}
    /\ emitOrder = << >> /\ delivered = << >>
    /\ outcomes = [m \in Msgs |-> << >>]

Next ==
    \/ \E m \in Msgs : Emit(m) \/ AckTimeout(m)
    \/ \E r \in Rooms : Join(r) \/ Leave(r)
    \/ AppConnect \/ Disconnect \/ StaleClose
    \/ TimerFires \/ OnOpen \/ FlushStep \/ FlushDone
    \/ WsFail \/ OnClose \/ OnAck \/ ServerRecv

\* Timers fire, the browser settles a connecting socket and dispatches
\* close, onopen's loop continues, and a live connection is read.  The
\* application and failures of the network are not fair.
Fairness ==
    /\ WF_vars(TimerFires) /\ WF_vars(OnClose)
    /\ WF_vars(OnOpen \/ (ws = "connecting" /\ WsFail))
    /\ WF_vars(FlushStep) /\ WF_vars(FlushDone)
    /\ WF_vars(ServerRecv) /\ WF_vars(OnAck)
    /\ \A m \in Msgs : WF_vars(AckTimeout(m))

Spec == Init /\ [][Next]_vars /\ Fairness

-----------------------------------------------------------------------------
(* Properties                                                              *)

\* The ack callback of an emit runs at most once: the timeout and the ack
\* of a message race (_send's timer against onmessage), and whichever
\* comes second must find the entry gone.
AtMostOneOutcome == \A m \in Msgs : Len(outcomes[m]) <= 1

\* Once a connection is open, onopen has finished and the server has read
\* everything sent on it, the server has this client in exactly the rooms
\* of this._rooms: joins and leaves made while disconnected are carried by
\* _rejoinRooms, and those made while connected by join() and leave().
RoomsRestored ==
    (CanSend /\ ~flushing /\ wire = << >>) => srvRooms = rooms

\* The client implements AckChannel: the server reads each acked emit at
\* most once and in emission order (queued emits are flushed oldest first,
\* before any newer emit can be sent), an ack reports success only for a
\* message the server read, and a reported outcome is never revised.
AbsStatus ==
    [m \in Msgs |-> IF outcomes[m] # << >> THEN Last(outcomes[m])
                    ELSE IF m \in ToSet(emitOrder) THEN "waiting" ELSE "idle"]

AC == INSTANCE AckChannel WITH status <- AbsStatus, recv <- delivered,
                                order <- emitOrder

AckChannelRefined == AC!Spec

\* After a close, the client keeps reconnecting until a connection opens,
\* disconnect() turns reconnection off, or reconnectionAttempts is used up:
\* onclose schedules the timer and the timer's connect() starts a socket.
ReconnectsUntilGivingUp ==
    (~connected /\ reconnection)
        ~> (connected \/ ~reconnection \/ attempts = ReconnectionAttempts)

\* Every iteration of onopen's flush loop shortens the queue.  The loop
\* runs while the queue is non-empty and nothing else can run meanwhile,
\* so an iteration that re-queues what it took (a send that throws) makes
\* the page spin in onopen for ever.
FlushMakesProgress ==
    [][flushing /\ pending # << >> => Len(pending') < Len(pending)]_vars

\* this.connected is the test _send makes before writing: once onopen has
\* run on the current socket, the client counts as connected for as long
\* as that socket is open.  A manual connect() while the previous socket
\* is still closing (after disconnect()) or still open lets the old
\* socket's onclose clear connected under the new, open one; _send then
\* queues every emit, and nothing flushes the queue before this socket
\* closes and another opens (never, when disconnect() turned reconnection
\* off).
OpenSocketConnected == (ws = "open" /\ ~flushing) => connected

=============================================================================
