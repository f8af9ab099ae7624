SPECIFICATION Spec
CONSTANTS
    x = x
    y = y
    p1 = p1
    p2 = p2
    p3 = p3
    p4 = p4
    p5 = p5
    Topics = {x, y}
    Peers = {p1, p2, p3, p4, p5}
    Envs <- Surroundings
    Params <- Parameters
    PruneBackoff = 1
    MaxBackoff = 2
    UnsubscribeBackoff = 1
    FanoutTTL = 1
    MaxOpportunisticGraftPeers = 2
    TopicsHigh = 1
    PublishThreshold <- MinusTwo
    GraylistThreshold <- MinusThree
    None = None
CHECK_DEADLOCK FALSE
SYMMETRY Alike
INVARIANTS WellFormed
PROPERTIES GraftRespectsBackoff HeartbeatMendsMesh
