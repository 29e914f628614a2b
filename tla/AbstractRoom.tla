--------------------------- MODULE AbstractRoom ---------------------------
(***************************************************************************)
(* What a WebRTCRoom's roster promises its users (spec section 4.1 and    *)
(* the lifecycle of section 3), with no transport, relay or join state:   *)
(*                                                                         *)
(*  - a session is created once, for one remote peer, in one room, and    *)
(*    only when that room holds no session for the same peer;             *)
(*  - a session leaves a roster only by being torn down (destroy());      *)
(*  - a session that left never comes back;                                *)
(*  - teardown may also happen to a session that stays (room.leave()).    *)
(*                                                                         *)
(* WebRTCSignaling implements this module under the mapping given there   *)
(* (the roster sequence read as a set, a session torn down once its       *)
(* destroy() ran).                                                         *)
(***************************************************************************)
EXTENDS FiniteSets

CONSTANTS Rooms, RemotePeers, Sessions, NULL

VARIABLES
    members,  \* room -> the sessions in its roster
    peerOf,   \* session -> its remote peer, NULL before it is created
    torn      \* the sessions whose teardown has run

avars == << members, peerOf, torn >>

Created == { s \in Sessions : peerOf[s] # NULL }

PeersIn(r) == { peerOf[s] : s \in members[r] }

AInit ==
    /\ members = [r \in Rooms |-> {}]
    /\ peerOf = [s \in Sessions |-> NULL]
    /\ torn = {}

\* A fresh session for a peer the room does not hold yet.
Create(r, s, p) ==
    /\ peerOf[s] = NULL
    /\ p \notin PeersIn(r)
    /\ members' = [members EXCEPT ![r] = @ \cup {s}]
    /\ peerOf' = [peerOf EXCEPT ![s] = p]
    /\ UNCHANGED torn

\* Sessions leave their rosters, all of them torn down in the same step.
Remove(S) ==
    /\ S # {}
    /\ S \subseteq UNION { members[r] : r \in Rooms }
    /\ members' = [r \in Rooms |-> members[r] \ S]
    /\ torn' = torn \cup S
    /\ UNCHANGED peerOf

\* Created sessions are torn down and stay where they are.
TearDown(S) ==
    /\ S # {}
    /\ S \subseteq Created
    /\ torn' = torn \cup S
    /\ UNCHANGED << members, peerOf >>

ANext ==
    \/ \E r \in Rooms, s \in Sessions, p \in RemotePeers : Create(r, s, p)
    \/ \E S \in SUBSET Sessions : Remove(S) \/ TearDown(S)

ASpec == AInit /\ [][ANext]_avars

=============================================================================
