------------------------- MODULE MC_WebRTCSignaling -------------------------
(* Model-checking instance of WebRTCSignaling: model values for the ids.   *)
EXTENDS WebRTCSignaling, TLC

CONSTANTS r1, r2, p1, p2, id1, id2

MC_Rooms == {r1}
MC_Rooms2 == {r1, r2}
MC_RemotePeers == {p1, p2}
MC_PeerIds == {id1, id2}
MC_PeerIds1 == {id1}

\* Remote peers and assigned ids are interchangeable; sound for safety runs.
MC_Symmetry == Permutations(MC_RemotePeers) \cup Permutations(MC_PeerIds)

=============================================================================
