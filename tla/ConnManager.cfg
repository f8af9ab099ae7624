SPECIFICATION MCSpec
CONSTANTS
    m1 = m1
    m2 = m2
    m3 = m3
    m4 = m4
    p1 = p1
    p2 = p2
    Peers = {p1, p2}
    Muxers = {m1, m2, m3, m4}
    PeerOf <- Owner
    DirOf <- Direction
    MaxConnsPerPeer = 2
    Waiters = {w1, w2}
    Events = {e1, e2}
    Expecters = {x1, x2}
    Droppers = {d1, d2}
    MaxStops = 1
    None = None
    Casts = {{p1, m1, m2, w1, w2, e1, e2, d1, d2},
             {p1, m1, m2, m3, x1},
             {p1, m1, m2, x1, x2},
             {p1, p2, m1, m4, w1, e1, d1, "stop"},
             {p1, p2, m1, m4, x1, d1, "stop"}}
INVARIANTS WellFormed NoGhostPeer NoStrandedWaiter ExpectationReachable JoinedUnlessFirstLost
PROPERTY StopTerminates
CHECK_DEADLOCK FALSE
