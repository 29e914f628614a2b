CONSTANTS
    m1 = m1
    m2 = m2
    ra = ra
    rb = rb
    NoMsg = NoMsg
    Msgs <- MC_Msgs
    Rooms <- MC_Rooms2
    Poison <- MC_NoPoison
    ReconnectionAttempts = 2
    MaxWire = 2
    MaxStale = 1
SPECIFICATION Spec
INVARIANT OpenSocketConnected
