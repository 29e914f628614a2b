# TLA+ models of the yekonga browser SDK

This directory holds TLA+ models of the browser SDK under
`src/yekonga/static/sdk/`, and the TLC configurations that check them.
`PROJECT.json` lists every component, run, mutant, finding and hazard.
Its `map` ties each definition to the source lines it translates.

## 1. Inventory

### Components

| Component | Source | State it keeps | Operations |
|---|---|---|---|
| SignalingRouter (`WebRTC`) | webRTC.js 4-166 | `localPeerId`, `peerRooms` | `room`, `peer`, handlers of the relay events `connect`, `open`, `request`, `offer`, `answer`, `leave`, `disconnect` |
| Room roster (`WebRTCRoom`) | webRTC.js 168-419, 602-611 | `localPeerId`, `isJoined`, `peers`, callback slots | `join`, `peer` (lookup-or-create), `removePeer`, `disconnect`, `leave`, `change`, `sendData`, `__onPeerDisconnected` |
| Room media (`WebRTCRoom`) | webRTC.js 266-332, 421-600 | `__streamSourceType`, `__streamStored`, `__streamSent`, `__streamMuted`, preview, file video | `sendStream`, `start`, `startWebcam`, `startScreenShare`, `setSource`, `mute`, `stop`, `setPreview`, `__resetStreamSource` (awaits a capture) |
| PeerSession (`WebRTCPeer`) | webRTC.js 614-881 | identity, `initiator`, `remoteStream`, `remoteProfile`, `__streamSent`, callbacks, a SimplePeer | `receiveOffer`, `receiveAnswer`, `sendData`, `sendStream`, `destroy`, and the handlers of the transport events `connect`, `signal`, `stream`, `data`, `close` |
| SimplePeer transport | external | negotiation state, connected, added streams | `signal`, `send`, `addStream`, `destroy` |
| Relay server | not in the repository | room membership, id per socket | forwards join, offer, answer, leave and request |
| YekongaSocket | yekonga.io.js | `_ws`, `connected`, `_connecting`, `_reconnectAttempts`, `_reconnectTimer`, `_pendingMessages`, `_pendingAcks`, `_rooms`, listeners | `connect`, `onopen`, `onclose`, `onmessage`, `emit`, `to`, `join`, `leave`, `disconnect`, `_send`, `_flushPendingMessages`, `_scheduleReconnect`, `_rejoinRooms` |
| Live queries (`YekongaCloudFunction`) | yekonga.js | `_listeners` (query, callback, loading), sockets, `_webRTC` | `live`, `liveUpdate`, `liveRemove`, `graphql`, `_graphqlSocket`, `_refreshListeners`, the socket `connect`, `graphql-response` and `database` handlers |
| Formatting helpers | `getBrowser`, `copyCandidate`, `uuid`, `url`, `log` | none | pure string functions |

### How they interact

The application calls `WebRTC.room(id)`, and the room's methods.
The relay socket (`window.io`) delivers events to the `WebRTC` handlers.
Those handlers resolve the room (creating it if needed) and then
lookup-or-create the session through `room.peer(...)`.

A session owns one SimplePeer. The SimplePeer's `signal` events are emitted
on the socket as `offer` or `answer`. Its `close` event calls back into the
room (`__onPeerDisconnected`) and emits `leave`. The room hands its
`__streamSent` to every session by reference.

`YekongaSocket` is a separate client used by `YekongaCloudFunction` for live
GraphQL queries. The `WebRTC` facade uses `window.io`, not YekongaSocket.

Everything runs on one JavaScript event loop. Interleaving comes from:
- the order in which relay events, transport events and application calls
  arrive;
- the `await`s in the media paths (capture requests), which let other
  handlers run between the start of `startWebcam()` and its fan-out.

### What is hard

- **Ordering of relay events.** `connect` comes before `open`.
  Reconnects happen at any moment. An answer can arrive after its peer was
  removed.
- **Transport failure.** A SimplePeer can close at any time, and `destroy()`
  closes it one tick later. The close handler has to clean up the roster.
- **Several teardown paths.** `removePeer`, `disconnect`, `leave`, the
  socket drop and the transport close can all hit the same session.
- **Overlapping media changes.** Each one awaits a capture, and the
  results land in any order.
- **The reconnecting socket.** Backoff timers, a pending queue, ack
  timeouts racing late acks, and the `_connecting` flag.
- **Live-query `loading` flags.** They are cleared only by a response
  that may never come.

### What makes each component correct

- Roster: one session per remote peer. A session leaves the roster only
  by being torn down, never comes back, and is torn down exactly once. A
  closed transport's session leaves the roster.
- Join: a room is joined once the id is known, under the current id.
- Media: when no change is in flight, every session sends the room's
  current stream, and the sent stream is the stored one (or a copy of its
  tracks while muted), as the current mute flag says. The spec's mute
  round trip (`mute(); mute()` restores the sent stream) is not what the
  code does: the second `mute()` makes a fresh copy, and with nothing
  stored it opens the camera. A unit test reaches that, so no run checks
  it. A connected transport
  carries exactly the session's current stream.
- Callbacks: the last callback registered on the room is the one a
  session fires on `connect` and on teardown, whenever the session was
  built (spec section 4.1).
- Socket: an acked message gets exactly one ack outcome. Queued messages
  are flushed in order. `connected` tracks the current socket, whatever
  earlier sockets do. Reconnection keeps going until it succeeds or the
  attempts run out, and stops after `disconnect()`.
- Live queries: every listener eventually gets the result of its current
  query, and no listener stays loading forever.

`PROJECT.json` `hazards` lists each of these risks at the source line where
it bites.

## 2. Plan

Modules, in order of importance:

1. **WebRTCSignaling** (done). The router, the room roster and join
   state, and the session lifecycle. SimplePeer and the relay are
   environment.
2. **YekongaSocket** with its abstract **AckChannel** (done). The
   reconnecting client, with the WebSocket as environment and timers as
   actions. It is shown to implement AckChannel through `INSTANCE ... WITH`.
3. **LiveQueries** (done). The `YekongaCloudFunction` listener table
   over a socket that can drop.
4. **RoomMedia** (done). The room's media state, with every capture
   `await` split into a start step and a completion step, the fan-out
   loops, and the per-session `__streamSent` with the transport's added
   streams.
5. **AbstractRoom** refinement (done). The roster's promise as an
   abstract spec, with WebRTCSignaling mapped onto it.
6. **Callback slots** of the room (done, in RoomMedia: `onConnected`
   and `onLeave`, copied into a session when it is built,
   webRTC.js:356). `change()` snapshots are still open.
7. **Composition** of RoomMedia with WebRTCSignaling's roster, so that
   sessions created and removed by relay events receive media.

## 3. WebRTCSignaling

### State

| Variable | Code |
|---|---|
| `localPeerId` | `WebRTC.localPeerId` |
| `rooms` | keys of `peerRooms` |
| `roomPeerId` | `room.localPeerId` |
| `isJoined` | `room.isJoined` |
| `roster` | `room.peers`, as session ids in order |
| `session[s]` | the WebRTCPeer built `s`-th |

`session[s]` holds the fields the properties need:
- `roomId`, `peerId`, `initiator`, and the copied `localPeerId`;
- the transport state `tstate` (`new`, `connected`, `closing`, `closed`);
- `destroys`, the number of `destroy()` calls, which equals the number of
  times `onLeave` fired;
- `remoteSet`, whether a remote description was set;
- `pendingSignal`, whether SimplePeer owes a `signal`.

Environment variables:
- `sockUp` and `opened`: the socket state, and whether `open` has
  arrived on this connection;
- `out`: the socket's buffer of `join` and `offer` emits;
- `serverRooms`: the `<<room, peer id>>` pairs the relay has registered
  from our `join` messages;
- `offered`: the remote peers that hold our offer.

### Actions

There is one action per handler, and each runs the whole handler in one step.

- **Application calls:**
  - `OpenRoom` is `WebRTC.room` plus the room constructor's `join()`;
  - `Join`, `AppRemovePeer`, `AppDisconnect` and `Leave` are the room
    methods of the same names.
- **Relay events:**
  - `Connect` is `__onConnect`, which joins every room that can be joined;
  - `Open` is `__onOpen`;
  - `Disconnect` is `__onDisconnect`, which disconnects every room;
  - `OnOfferRequested`, `OnReceiveOffer`, `OnReceiveAnswer` and
    `OnRemoveUser` are the other relay-event handlers;
  - `RelayTake` is the relay consuming the socket buffer.
- **Transport events:**
  - `OnSignal`, `OnConnect` and `OnClose` are the WebRTCPeer handlers.
    `OnClose` runs `PeerDisconnected` with the metadata exactly as the
    code passes it.
  - `TransportFail` is SimplePeer destroying itself after an error.

Answers and leaves we emit are not kept in `out`. They go to the remote
peer, whose behaviour is left free.

Environment assumptions:
- Room-scoped events reach the client only after `open` on the current
  connection, and only once the relay has taken our `join` for that room.
  The relay sends `open` on connection, ahead of any reply to our emits.
- A remote peer answers only an offer it holds.

### Refinement: AbstractRoom

`AbstractRoom.tla` states what a room's roster promises, with no
transport, relay or join state. Its variables are:
- `members`: the sessions of each room;
- `peerOf`: the remote peer each session was built for;
- `torn`: the sessions whose teardown ran.

It has three actions:
- `Create`: a fresh session, for a peer the room does not hold;
- `Remove`: sessions leave their rosters and are torn down in the same step;
- `TearDown`: sessions are torn down but stay (`leave()`).

WebRTCSignaling maps onto it with `AR == INSTANCE AbstractRoom WITH ...`:
- `members` is the range of each room's `roster` sequence;
- `peerOf` is `session[s].peerId`;
- `torn` is the set of sessions with `destroys >= 1`.

`AbstractRoomRefined == AR!ASpec` is checked as a temporal property. It
catches the following:
- a lookup in `peer()` that misses and builds a second session for a peer;
- a removal path that does not call `destroy()`;
- a session that returns to a roster.

A transport close that finds nothing to remove (the ghost of
webRTC.js:724) is a stuttering step, so the refinement holds despite it.
`ClosedSessionsLeaveRoster` reports that bug.

### Runs

| Run | Checks | Result |
|---|---|---|
| `signaling_safety` | `TypeOK`, `AbstractRoomRefined` | pass (about 1.0M distinct states, 90 s) |
| `close_leaves_ghost` | `ClosedSessionsLeaveRoster` | violation: the close handler passes the local id (webRTC.js:724) |
| `never_joined` | `RoomsJoinedUnderCurrentId` | violation: `connect`, then room created, then `open`, then nothing ever joins |

`RoomsJoinedUnderCurrentId` requires the relay to hold each open room
under the current id. It has two causes in the code:
- **webRTC.js:81**: `open` never joins. This is the trace TLC prints.
- **webRTC.js:195**: `connect` rejoins with the previous connection's id.

We checked the second cause with a copy of the model whose `Open` also
joins. TLC then reports a room that was opened between `connect` and
`open` of a reconnect. That room is joined under the old id and never
rejoined.

### Bounds

The configuration uses:
- one room;
- two remote peers;
- two relay-assigned ids, so a reconnect can bring a new id;
- `MaxSessions = 2`;
- `MaxOut = 2` buffered emits;
- `MaxTeardowns = 2`.

Two sessions are enough for both interesting shapes:
- two peers, each with a session;
- one peer removed and then re-created.

Two teardowns per session are enough for `leave()` followed by a removal
to be reached. Reconnects are
unbounded: the connection state is finite. Three sessions raise the state
count past what fits in five minutes. The safety run uses symmetry over
peers and ids.

### Fairness

Three things are fair:
- `RelayTake`: the relay reads what is sent;
- `Open`: the relay assigns an id on every connection;
- `OnClose`: SimplePeer emits `close` on the tick after `destroy()`.

Nothing else is fair: application calls, remote peers, transport
failures and reconnects may never happen.

## 4. YekongaSocket and AckChannel

`YekongaSocket.tla` models `yekonga.io.js`.

### State

| Variable | Code |
|---|---|
| `ws` | `this._ws.readyState`; `closing` until `onclose` has run |
| `connected`, `connecting`, `attempts`, `timer`, `reconnection` | `connected`, `_connecting`, `_reconnectAttempts`, `_reconnectTimer`, `_opts.reconnection` |
| `pending` | `_pendingMessages` (the queued acked emits) |
| `pendingAcks`, `timers` | keys of `_pendingAcks`; live ack-timeout timers per message |
| `rooms` | keys of `_rooms` |
| `flushing` | `onopen` is inside the `_flushPendingMessages` loop |
| `stale` | sockets `connect()` replaced before they closed, whose `onclose` is still due |

Environment variables:
- `wire` and `replies`: what the current connection carries each way;
- `srvRooms`: the rooms the server has this connection in.

History variables, read only by the properties:
- `emitOrder`: the acked emits, in call order;
- `delivered`: the acked emits the server read;
- `outcomes`: the results each ack callback received.

### Actions

- **Application calls:**
  - `Emit` is `emit` with an ack, through `_send`;
  - `Join`, `Leave` and `Disconnect` are the methods of the same names;
  - `AppConnect` is `connect()` called by the application.
  `connect()` overwrites `this._ws` whenever `_connecting` is false, and
  that includes an old socket that is still open or closing. The new
  connection starts empty. The model does not follow the old
  connection's traffic further.
- **Socket events:**
  - `OnOpen` starts the flush;
  - `FlushStep` is one iteration of the flush loop;
  - `FlushDone` ends it and runs `_rejoinRooms`;
  - `OnClose` runs `_scheduleReconnect`;
  - `StaleClose` is a replaced socket's `onclose`. The handler is bound to
    the client, so it clears `connected` and `_connecting` and may
    schedule a reconnect, whatever the current socket is doing;
  - `OnAck` is `onmessage` with an ack;
  - `TimerFires` is the reconnect timer;
  - `AckTimeout` is a message's ack timer.
- **Environment:**
  - `WsFail`: the socket fails;
  - `ServerRecv`: the server reads the oldest message, and may ack an emit.

The flush loop is one step per iteration, so that a loop that never ends
can be seen. While it runs, nothing else is dispatched.

`_send`'s catch branch (stringify or send throws) re-queues the message.
The messages in `Poison` take that path.

### Refinement

`AckChannel.tla` states what the client promises for acked messages. Each
message is:
- emitted once;
- delivered at most once, and in emit order;
- resolved exactly once, `ok` only if it was delivered.

`YekongaSocket` maps onto it with
`INSTANCE AckChannel WITH status <- AbsStatus, recv <- delivered,
order <- emitOrder`. Here `AbsStatus` is the last ack result, or `waiting`
for a message emitted and not yet resolved. `AckChannelRefined` checks the
abstract `Spec` as a temporal property.

### Fairness

These are weakly fair:
- the reconnect timer and ack timers, since timers fire;
- `onclose` dispatch;
- a connecting socket settling, by opening or failing;
- the flush loop;
- the server reading and acking;
- `onmessage`.

Application calls and failures are not fair.

### Runs

| Run | Checks | Result |
|---|---|---|
| `socket_safety` | `TypeOK`, `AtMostOneOutcome`, `RoomsRestored`, `AckChannelRefined`, `ReconnectsUntilGivingUp` | pass (about 151k distinct states, 14 s) |
| `flush_spins` | `FlushMakesProgress` | violation: a message that `_send` re-queues keeps `onopen`'s loop spinning |
| `stale_onclose` | `OpenSocketConnected` | violation: `connect()`, the new socket opens, then the old socket's `onclose` clears `connected` |

The trace TLC prints for `stale_onclose` calls `connect()` on an open
client. We also checked `connect()` restricted to after `disconnect()`.
That path reaches the violation in 7 steps, and there `reconnection`
stays off, so nothing ever flushes the queue again.

Replaced sockets only close in the model. A replaced socket that was
connecting could still open, and a replaced open one could still deliver
acks, because their handlers are bound to the client. Neither is followed.

Bounds: two messages, two rooms, `ReconnectionAttempts = 2`,
`MaxWire = 2` and `MaxStale = 1`. Two messages are enough for the in-order delivery to be
tested. Two attempts reach both the retry and the giving-up branch.

## 5. LiveQueries

`LiveQueries.tla` models `yekonga.js`.

The state is:
- `lst`: `_listeners`, each with its model, id, query and `loading`;
- `sock`: none until `_initSocket`'s interval finds the library, then
  down or open;
- `reqs` and `resps`: requests and responses in flight;
- `got`: the query whose result each callback received last.

Each `live()` or `liveUpdate()` call makes a new query number, so that a
result can be traced to the query it answers.

Actions are the three application calls plus `SocketInit`, `OnConnect`,
`SockDrop`, `ServerAnswer`, `OnResponse` and `OnDatabase`. Socket
creation, reconnection, the server and response handling are weakly fair.

| Run | Checks | Result |
|---|---|---|
| `live_types` | `TypeOK` | pass (about 396k distinct states, 7 s) |
| `stuck_loading` | `NoListenerStuckLoading` | violation: a request lost to a drop leaves `loading` set for ever |
| `stale_query` | `CurrentQueryServed` | violation: `liveUpdate()` while loading never sends the new query |

The passing run checks only the type invariant. Each deeper property of
the listener table (no stuck listener, the current query served) is
violated by the code, and those runs show it.

## 6. RoomMedia

`RoomMedia.tla` models the media half of `WebRTCRoom` and `WebRTCPeer`
in `webRTC.js`.

### State

| Variable | Code |
|---|---|
| `srcType`, `stored`, `sent`, `muted` | `__streamSourceType`, `__streamStored`, `__streamSent`, `__streamMuted` |
| `video` | `__video` exists (a file is playing) |
| `jobs` | the captures in flight, as a bag of `[phase, fan]` records |
| `media` | per stream, the stream whose tracks it copies (0 for none) |
| `roster`, `tconn` | `room.peers`; whether each session's transport has connected |
| `pSent`, `added` | each session's `__streamSent`; the streams added to its transport |
| `roomCb` | the room's `__onConnectedCallback` and `__onLeaveCallback`, as the number of the last registration (0 for none) |
| `sessCb` | the copy of those two slots each session took in `peer()` |

Streams are numbered in creation order.

### Actions

Each `await` on a capture splits its method into two steps:
- the call (`StartWebcam`, `StartScreenShare`, `SetSource`, `Mute`,
  `StartStream`, `OnPlaying`) runs up to the capture and adds a job;
- a completion (`WebcamDone`, `DisplayDone`, then `VoiceDone` for an
  unmuted screen share) runs the rest of `__resetStreamSource` and the
  caller's fan-out loop.

Captures may fail, and they finish in any order. An `await` that needs no
capture only yields to the microtask queue, so it is part of the calling
step.

The other actions:
- `PeerCreated` is `room.peer`, which hands the new session the sent
  stream and copies the room's callback slots into it;
- `OnCallback` is `room.onConnected(cb)` or `room.onLeave(cb)`, which the
  application may call at any time;
- `PeerRemoved` is `removePeer`;
- `TransportConnect` is the `connect` handler's `__addStream`.

### Runs

| Run | Checks | Result |
|---|---|---|
| `media_safety` | `TypeOK`, `ConnectedSendsCurrent`, `SentDerivedFromStored` | pass (about 8.1M distinct states, 90 s) |
| `media_not_current` | `RosterSendsCurrentMedia` | violation: once no capture is in flight, a session or its transport still has an old stream |
| `callbacks_stale` | `LastRegistrationWins` (action property) | violation: a session fires the callback copied when it was built, not the last one registered |

`RosterSendsCurrentMedia` has two causes, and each alone breaks it:
`setSource()` never fans out (webRTC.js:309), and `__removeStream` is a
no-op, so streams pile up on a connected transport (webRTC.js:854).
With both fixed in a scratch copy, the invariant holds.

Bounds:
- `MaxStreams = 4` (a stream, a capture and a clone, with one to spare);
- `MaxSessions = 2`;
- `MaxJobs = 2`, so two captures overlap;
- `MaxReg = 1` registration per slot, enough for a session built before
  it and one after.

No fairness is assumed and deadlock is not checked. Every step is an
application call or a browser event, and a page with no further input
rightly stops.

## 7. Findings

See `PROJECT.json` `findings` for the details.

1. **The transport-close handler never removes its session** (webRTC.js:724).
   It passes `this.metadata`, whose `peerId` is the local id. A session
   whose transport failed stays in the roster as a ghost.
2. **A room created before the relay's `open` is never joined**.
   `__onOpen` sets the id but does not call `join()`. After a reconnect
   the join carries the previous connection's id.
3. **An unserialisable acked emit hangs `onopen`** (yekonga.io.js:332).
   `_send` re-queues it, and the flush loop takes it again for ever.
4. **A lost live-query request leaves its listener loading for ever**
   (yekonga.js:56). `loading` then suppresses every refresh.
5. **`liveUpdate()` while loading never sends the new query**
   (yekonga.js:40). The old query's result clears `loading` instead.
6. **Sessions do not carry the room's current media** (run
   `media_not_current`). `setSource()` does not fan out (webRTC.js:309),
   so sessions keep the old stream. Streams also pile up on a connected
   transport (webRTC.js:854): the remote side receives every stream the
   room ever switched to.
7. **Callbacks registered after a session exists never reach it**
   (webRTC.js:356). `peer()` copies the room's callbacks into the new
   session, which fires only its copy. The spec says the last
   registration wins.
8. **A replaced socket's `onclose` disconnects the new one**
   (yekonga.io.js:78). `connect()` called before the old socket closed,
   for example right after `disconnect()`, lets the late `onclose` clear
   `connected` while the new socket is open. `_send` then queues every
   emit.

We also found a sequential bug while modelling. `room.leave()` destroys
every session but keeps them in the roster. A later `disconnect()` or
`removePeer()` destroys them again, so `onLeave` fires twice for one
remote (webRTC.js:334). Two calls in a row show it, and a unit test
reaches it, so no run is kept for it. AbstractRoom allows a second
teardown.

## 8. Not modelled, and why

- **Relay server and SimplePeer internals.** They are not in the
  repository. Only the behaviour the code relies on appears, as
  environment.
- **`WebRTC.peer(roomId, peerId)`.** It passes a string to `room.peer`,
  which destructures a descriptor. The WebRTCPeer constructor then throws
  and the call returns `null`. This is a sequential bug that a unit test
  finds.
- **Malformed relay payloads.** Missing ids throw inside the handler
  before any state changes, which is the same as a dropped event.
- **Data payloads, profiles and the preview element.** No property tells
  them apart.
- **`change()`, `sendData` and the `onJoin`, `onStream`, `onData`,
  `onChange` slots.** `onJoin` fires at creation with the copy just made,
  so it cannot be stale. The others only forward payloads, which no
  property tells apart.
- **The formatting helpers**: `getBrowser`, `copyCandidate`, `uuid`,
  `url`, `log`.
- **YekongaSocket's listener registry** (`on`, `off`, `once`,
  `_emitLocal`), emit without an ack, `createChannel` and the `id`
  message. They change no client state that a property reads.
- **A WebSocket constructor that throws.** A fixed URL throws on every
  attempt, so the client never connects whatever `_connecting` holds. The
  stuck flag changes no outcome, and no property is kept for it.
- **Acked emits queued after `disconnect()`.** They wait for a later
  `connect()` by design, so their ack may never run. No property claims
  otherwise.
- **LiveQueries:** the HTTP path of `graphql`, `webRTC()`, `setChannel`,
  `setSocket` and `of`, and the unused second socket `socketSystem`.
- **Mute filtering.** The muted stream is a copy of every track, the
  audio track included. Spec §9 already records this as an open question.
- **`room.stop()`.** It calls `peer.stop()`, which calls the no-op
  `__removeStream`, so no state changes.
- **The preview element.** It is presentation only.
