CONSTANTS
    r1 = r1
    r2 = r2
    p1 = p1
    p2 = p2
    id1 = id1
    id2 = id2
    NULL = NULL
    Rooms <- MC_Rooms
    RemotePeers <- MC_RemotePeers
    PeerIds <- MC_PeerIds
    MaxSessions = 2
    MaxOut = 2
    MaxTeardowns = 2
SPECIFICATION Spec
CONSTRAINT OutBound
INVARIANT ClosedSessionsLeaveRoster
