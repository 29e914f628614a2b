------------------------------ MODULE RoomMedia ------------------------------
(***************************************************************************)
(* The media side of a WebRTCRoom and its WebRTCPeer sessions            *)
(* (static/sdk/webRTC.js): the room's source kind, stored stream, sent   *)
(* stream and mute flag; the asynchronous source changes (sendStream,     *)
(* start, startWebcam, startScreenShare, setSource, mute and a playing    *)
(* video file) that await a capture; and the fan-out of the sent stream  *)
(* to every session, which adds it to a connected transport.             *)
(*                                                                         *)
(* A capture in flight is a job; captures finish in any order, and the   *)
(* code after the await runs as one step when its capture finishes.  An  *)
(* await on a change that needs no capture only yields to the microtask  *)
(* queue and is taken as part of the calling step.  Streams are numbered *)
(* in order of creation; a stream's only modelled content is which       *)
(* stream's tracks it copies.  The roster is WebRTCSignaling's, reduced  *)
(* to membership and whether the transport has connected.  The room's   *)
(* onConnected and onLeave slots are kept as registration numbers, since *)
(* peer() copies them into the session and the session fires its copy.  *)
(***************************************************************************)
EXTENDS Naturals, Sequences, FiniteSets, Bags

CONSTANTS
    NULL,           \* null
    MaxStreams,     \* bound on the MediaStream objects created
    MaxSessions,    \* bound on the WebRTCPeer objects created
    MaxJobs,        \* bound on the captures in flight at once
    MaxReg          \* bound on the callback registrations per slot

ASSUME MaxStreams \in Nat /\ MaxSessions \in Nat /\ MaxJobs \in Nat /\ MaxReg \in Nat

VARIABLES
    \* WebRTCRoom
    srcType,  \* __streamSourceType
    stored,   \* __streamStored: a stream number or NULL
    sent,     \* __streamSent
    muted,    \* __streamMuted
    video,    \* __video: "none", or "loaded" (a file video element exists)
    jobs,     \* bag of captures in flight: [phase, fan]
    roomCb,   \* slot -> number of the callback registered last (0: none)
    \* MediaStream objects
    media,    \* media[i]: the stream whose tracks stream i copies (0: none)
    \* sessions
    roster,   \* sessions in room.peers
    created,  \* number of sessions created
    tconn,    \* s -> its transport has connected
    pSent,    \* s -> the session's __streamSent
    added,    \* s -> streams added to the session's transport
    sessCb    \* s -> slot -> the callback the session holds

vars == << srcType, stored, sent, muted, video, jobs, media, roster, created,
           tconn, pSent, added, roomCb, sessCb >>

\* The callback state, left alone by every media step.
cbVars == << roomCb, sessCb >>

Streams == 1..MaxStreams
SessionIds == 1..MaxSessions
SrcTypes == {"none", "webcam", "screen"}

\* The callback slots whose callback fires after the session is built.
Slots == {"connected", "leave"}

\* A capture in flight: webcam (getUserMedia), display (getDisplayMedia),
\* or voice (the microphone getUserMedia of a screen share); fan: whether
\* the awaiting call pushes the result to the sessions afterwards.

Job == [phase: {"webcam", "display", "voice"}, fan: BOOLEAN]

TypeOK ==
    /\ srcType \in SrcTypes
    /\ stored \in Streams \cup {NULL} /\ sent \in Streams \cup {NULL}
    /\ muted \in BOOLEAN /\ video \in {"none", "loaded"}
    /\ IsABag(jobs) /\ BagToSet(jobs) \subseteq Job
    /\ media \in Seq(0..MaxStreams) /\ Len(media) <= MaxStreams
    /\ roster \subseteq SessionIds /\ created \in 0..MaxSessions
    /\ tconn \in [SessionIds -> BOOLEAN]
    /\ pSent \in [SessionIds -> Streams \cup {NULL}]
    /\ added \in [SessionIds -> SUBSET Streams]
    /\ roomCb \in [Slots -> 0..MaxReg]
    /\ sessCb \in [SessionIds -> [Slots -> 0..MaxReg]]

-----------------------------------------------------------------------------
(* Helpers of the code                                                     *)

\* Room stream creation stays within the bound (a capture and its muted
\* clone are at most two new streams).
CanCreate == Len(media) + 2 <= MaxStreams

\* __stopVideoFile(): the file video element is paused and dropped.
StopVideoFile == video' = "none"

\* for (const peer of this.peers) peer.sendStream(x): each session takes
\* x if it is a stream, then __addStream adds its stream to a connected
\* transport (__removeStream removes nothing).
FanOut(x) ==
    /\ pSent' = [s \in SessionIds |->
                    IF s \in roster /\ x # NULL THEN x ELSE pSent[s]]
    /\ added' = [s \in SessionIds |->
                    IF s \in roster /\ tconn[s] /\ pSent'[s] # NULL
                    THEN added[s] \cup {pSent'[s]} ELSE added[s]]

\* The end of __resetStreamSource once the capture gave st (with au the
\* streams so far): stored = st; if st is a stream, sent = st, or a new
\* stream with the same tracks when muted.  Then, if the caller fans out,
\* the sessions get the room's sent stream.
FinishWith(st, mu, fan, au) ==
    LET clone == st # NULL /\ mu
        au2 == IF clone THEN Append(au, st) ELSE au
        s2 == IF st = NULL THEN sent ELSE IF clone THEN Len(au2) ELSE st
    IN /\ stored' = st
       /\ sent' = s2
       /\ media' = au2
       /\ IF fan THEN FanOut(s2) ELSE UNCHANGED << pSent, added >>

\* __resetStreamSource() called with source t0 and stored stream st0: with
\* no known source and nothing stored it falls back to the webcam; a webcam
\* or screen source starts a capture, anything else finishes at once.
Reset(t0, st0, mu, fan, au) ==
    LET t == IF t0 \notin {"webcam", "screen"} /\ st0 = NULL
             THEN "webcam" ELSE t0
    IN /\ srcType' = t
       /\ IF t \in {"webcam", "screen"}
          THEN /\ BagCardinality(jobs) < MaxJobs
               /\ jobs' = jobs (+) SetToBag({[phase |-> IF t = "webcam"
                                                       THEN "webcam"
                                                       ELSE "display",
                                               fan |-> fan]})
               /\ stored' = st0 /\ media' = au
               /\ UNCHANGED << sent, pSent, added >>
          ELSE /\ UNCHANGED jobs
               /\ FinishWith(st0, mu, fan, au)

-----------------------------------------------------------------------------
(* Application calls                                                       *)

\* start(stream) with a MediaStream: __stopVideoFile(),
\* then sendStream(stream), which makes it the stored stream of source
\* 'none' and pushes it to the sessions.
StartStream ==
    /\ CanCreate
    /\ StopVideoFile
    /\ Reset("none", Len(media) + 1, muted, TRUE, Append(media, 0))
    /\ UNCHANGED << muted, roster, created, tconn >>
    /\ UNCHANGED cbVars

\* start(url): __playVideoFile creates the video element and plays it.
StartFile ==
    /\ video = "none"
    /\ video' = "loaded"
    /\ UNCHANGED << srcType, stored, sent, muted, jobs, media, roster, created,
                    tconn, pSent, added >>
    /\ UNCHANGED cbVars

\* startWebcam() / startScreenShare(): set the source, stop a file video,
\* capture, then push the sent stream to every session.
StartWebcam ==
    /\ StopVideoFile
    /\ Reset("webcam", stored, muted, TRUE, media)
    /\ UNCHANGED << muted, roster, created, tconn >>
    /\ UNCHANGED cbVars

StartScreenShare ==
    /\ StopVideoFile
    /\ Reset("screen", stored, muted, TRUE, media)
    /\ UNCHANGED << muted, roster, created, tconn >>
    /\ UNCHANGED cbVars

\* setSource(value): set the source and capture; no fan-out.
SetSource(v) ==
    /\ CanCreate
    /\ Reset(v, stored, muted, FALSE, media)
    /\ UNCHANGED << muted, video, roster, created, tconn >>
    /\ UNCHANGED cbVars

\* Mutant of Mute: the flag is toggled but the source is not re-sent.
MuteFlagOnly ==
    /\ CanCreate
    /\ muted' = ~muted
    /\ UNCHANGED << srcType, stored, sent, video, jobs, media, roster, created,
                    tconn, pSent, added >>
    /\ UNCHANGED cbVars

\* mute(): toggle the flag, then start(__streamStored): a stored stream is
\* re-sent as the source 'none'; with nothing stored, sendStream(null)
\* keeps the source (and so may capture).
Mute ==
    /\ CanCreate
    /\ muted' = ~muted
    /\ StopVideoFile
    /\ IF stored # NULL
       THEN Reset("none", stored, ~muted, TRUE, media)
       ELSE Reset(srcType, NULL, ~muted, TRUE, media)
    /\ UNCHANGED << roster, created, tconn >>
    /\ UNCHANGED cbVars

-----------------------------------------------------------------------------
(* Capture results and media events                                        *)

\* __startCaptureWebcam resumes: a new stream, or null when the
\* capture fails.
WebcamDone(j) ==
    /\ j.phase = "webcam" /\ BagIn(j, jobs)
    /\ jobs' = jobs (-) SetToBag({j})
    /\ \/ CanCreate /\ FinishWith(Len(media) + 1, muted, j.fan, Append(media, 0))
       \/ FinishWith(NULL, muted, j.fan, media)
    /\ UNCHANGED << srcType, muted, video, roster, created, tconn >>
    /\ UNCHANGED cbVars

\* __startCaptureScreen after getDisplayMedia: a failure stores null; when
\* muted the display stream alone is stored; otherwise the microphone
\* is requested next.
DisplayDone(j) ==
    /\ j.phase = "display" /\ BagIn(j, jobs)
    /\ \/ /\ jobs' = jobs (-) SetToBag({j})
          /\ FinishWith(NULL, muted, j.fan, media)
       \/ /\ muted /\ CanCreate
          /\ jobs' = jobs (-) SetToBag({j})
          /\ FinishWith(Len(media) + 1, muted, j.fan, Append(media, 0))
       \/ /\ ~muted
          /\ jobs' = (jobs (-) SetToBag({j}))
                       (+) SetToBag({[j EXCEPT !.phase = "voice"]})
          /\ UNCHANGED << stored, sent, media, pSent, added >>
    /\ UNCHANGED << srcType, muted, video, roster, created, tconn >>
    /\ UNCHANGED cbVars

\* The microphone capture of a screen share resumes: the display and voice
\* tracks in a new stream, or null (the whole share) when it fails.
VoiceDone(j) ==
    /\ j.phase = "voice" /\ BagIn(j, jobs)
    /\ jobs' = jobs (-) SetToBag({j})
    /\ \/ CanCreate /\ FinishWith(Len(media) + 1, muted, j.fan, Append(media, 0))
       \/ FinishWith(NULL, muted, j.fan, media)
    /\ UNCHANGED << srcType, muted, video, roster, created, tconn >>
    /\ UNCHANGED cbVars

\* The file video's onplaying (at start and after every stall): the
\* captured stream is stored and sent with sendStream.
OnPlaying ==
    /\ video = "loaded" /\ CanCreate
    /\ Reset("none", Len(media) + 1, muted, TRUE, Append(media, 0))
    /\ UNCHANGED << muted, video, roster, created, tconn >>
    /\ UNCHANGED cbVars

-----------------------------------------------------------------------------
(* Sessions                                                                *)

\* room.peer(...) creates a session, copies the room's callbacks into it
\* and hands it the room's sent stream.
PeerCreated ==
    /\ created < MaxSessions
    /\ LET s == created + 1 IN
       /\ created' = s
       /\ roster' = roster \cup {s}
       /\ pSent' = [pSent EXCEPT ![s] = sent]
       /\ sessCb' = [sessCb EXCEPT ![s] = roomCb]
    /\ UNCHANGED << srcType, stored, sent, muted, video, jobs, media, tconn,
                    added, roomCb >>

\* The session leaves the roster (removePeer, disconnect, a socket drop).
PeerRemoved(s) ==
    /\ s \in roster
    /\ roster' = roster \ {s}
    /\ UNCHANGED << srcType, stored, sent, muted, video, jobs, media, created,
                    tconn, pSent, added >>
    /\ UNCHANGED cbVars

\* Mutant of TransportConnect: __addStream without the instanceof test.
TransportConnectUnchecked(s) ==
    /\ s \in roster /\ ~tconn[s]
    /\ tconn' = [tconn EXCEPT ![s] = TRUE]
    /\ added' = [added EXCEPT ![s] = @ \cup {pSent[s]}]
    /\ UNCHANGED << srcType, stored, sent, muted, video, jobs, media, roster,
                    created, pSent >>
    /\ UNCHANGED cbVars

\* Mutant of TransportConnect: the handler does not call __addStream.
TransportConnectNoAdd(s) ==
    /\ s \in roster /\ ~tconn[s]
    /\ tconn' = [tconn EXCEPT ![s] = TRUE]
    /\ UNCHANGED << srcType, stored, sent, muted, video, jobs, media, roster,
                    created, pSent, added >>
    /\ UNCHANGED cbVars

\* The transport's 'connect' handler: the session's onConnected callback
\* runs, then __addStream adds the session's stream.
TransportConnect(s) ==
    /\ s \in roster /\ ~tconn[s]
    /\ tconn' = [tconn EXCEPT ![s] = TRUE]
    /\ added' = IF pSent[s] # NULL
                THEN [added EXCEPT ![s] = @ \cup {pSent[s]}] ELSE added
    /\ UNCHANGED << srcType, stored, sent, muted, video, jobs, media, roster,
                    created, pSent >>
    /\ UNCHANGED cbVars

\* room.onConnected(cb) / room.onLeave(cb), called by the application at
\* any time: the room's slot takes the new callback.
OnCallback(k) ==
    /\ roomCb[k] < MaxReg
    /\ roomCb' = [roomCb EXCEPT ![k] = @ + 1]
    /\ UNCHANGED << srcType, stored, sent, muted, video, jobs, media, roster,
                    created, tconn, pSent, added, sessCb >>

-----------------------------------------------------------------------------

Init ==
    /\ srcType = "none" /\ stored = NULL /\ sent = NULL /\ muted = FALSE
    /\ video = "none" /\ jobs = EmptyBag /\ media = << >>
    /\ roster = {} /\ created = 0
    /\ tconn = [s \in SessionIds |-> FALSE]
    /\ pSent = [s \in SessionIds |-> NULL]
    /\ added = [s \in SessionIds |-> {}]
    /\ roomCb = [k \in Slots |-> 0]
    /\ sessCb = [s \in SessionIds |-> [k \in Slots |-> 0]]

Next ==
    \/ StartStream
    \/ StartFile \/ StartWebcam \/ StartScreenShare \/ Mute
    \/ \E v \in SrcTypes : SetSource(v)
    \/ \E j \in BagToSet(jobs) : WebcamDone(j) \/ DisplayDone(j) \/ VoiceDone(j)
    \/ OnPlaying \/ PeerCreated
    \/ \E s \in SessionIds : PeerRemoved(s) \/ TransportConnect(s)
    \/ \E k \in Slots : OnCallback(k)

Spec == Init /\ [][Next]_vars

-----------------------------------------------------------------------------
(* Properties                                                              *)

\* Spec sections 4.1 and 4.2: once no capture is in flight, every session
\* in the roster holds the room's sent stream, and a connected transport
\* carries that stream and no other.  Whichever of several overlapping
\* source changes finishes last, its fan-out must reach every session,
\* including one created while the captures were pending, and must take
\* the previous stream off the transport.
RosterSendsCurrentMedia ==
    (jobs = EmptyBag /\ sent # NULL) =>
        \A s \in roster : /\ pSent[s] = sent
                         /\ tconn[s] => added[s] = {sent}

\* A connected session's transport carries the stream the session was last
\* given, whether it was given before the transport connected (the
\* 'connect' handler adds it) or after (sendStream adds it).
ConnectedSendsCurrent ==
    \A s \in roster : tconn[s] /\ pSent[s] # NULL => pSent[s] \in added[s]

\* Spec section 2 (sentMedia derived from storedMedia): once no capture is
\* in flight, the sent stream is the stored one, or while muted a copy of
\* its tracks, as the mute flag read last says.  __resetStreamSource and
\* __startCaptureScreen read __streamMuted after their awaits, so a mute()
\* or a second capture finishing while a prompt is open must not leave a
\* sent stream that disagrees with the flag or with the stored stream.
\* (It does not say that mute() twice restores the earlier sent stream:
\* the second mute() makes a fresh copy, or a new capture when nothing is
\* stored.)
SentDerivedFromStored ==
    (jobs = EmptyBag /\ stored # NULL) =>
        IF muted THEN media[sent] = stored ELSE sent = stored

\* Spec section 4.1: each registration operation accepts one callback and
\* the last registration wins.  The callback a transport 'connect' or a
\* teardown fires is the one the room holds at that moment, also for a
\* session the relay created before the application registered it.
LastRegistrationWins ==
    [][\A s \in SessionIds :
         /\ (~tconn[s] /\ tconn'[s]) => sessCb[s]["connected"] = roomCb["connected"]
         /\ (s \in roster /\ s \notin roster') => sessCb[s]["leave"] = roomCb["leave"]
      ]_vars

=============================================================================
