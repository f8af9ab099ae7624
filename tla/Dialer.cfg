SPECIFICATION MCSpec
CONSTANTS
    d1 = d1
    d2 = d2
    d3 = d3
    d4 = d4
    d5 = d5
    i1 = i1
    i2 = i2
    p1 = p1
    p2 = p2
    Casts = {{d1, d2, d3, i1}, {d1, d4, d5, i1}}
    Dials = {d1, d2, d3, d4, d5}
    Target <- Targets
    Forced = {d4, d5}
    Reuse = {d1, d2, d3}
    Incoming = {i1, i2}
    FromPeer <- Sources
    Peers = {p1, p2}
    Cap = 2
    Backoff = TRUE
    Stops = TRUE
    None = None
CHECK_DEADLOCK FALSE
INVARIANT WellFormed
PROPERTIES SlotsImplemented EveryDialEnds
