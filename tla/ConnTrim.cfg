SPECIFICATION Spec
CONSTANTS
    m1 = m1
    m2 = m2
    m3 = m3
    m4 = m4
    p1 = p1
    p2 = p2
    p3 = p3
    Muxers = {m1, m2, m3, m4}
    Peers = {p1, p2, p3}
    PeerOf <- Owner
    Outbound <- Ours
    Tags = {t1}
    LowWater = 1
    HighWater = 1
    GracePeriod = 1
    SilencePeriod = 2
    OutboundBonus = 1
    MaxTime = 3
    MaxValue = 1
    Envs <- Behaviours
    None = None
CHECK_DEADLOCK FALSE
INVARIANTS WellFormed
PROPERTIES TrimSpares TrimKeepsTheBest
