SPECIFICATION Spec
CONSTANTS
    p1 = p1
    p2 = p2
    p3 = p3
    m1 = m1
    m2 = m2
    k1 = k1
    Msgs = {m1, m2}
    Peers = {p1, p2, p3}
    Author <- Authors
    Tasks = {k1, k2}
    HistoryLength = 3
    HistoryGossip = 2
    DLazy = 1
    GossipFactor = 100
    IHaveMaxLength = 1
    IHaveBudget = 1
    IDontWantMaxCount = 1
    MaxDelivered = 2
    Envs <- Behaviours
    None = None
CONSTRAINT Bounded
CHECK_DEADLOCK FALSE
INVARIANTS WellFormed DeliveredOnce
PROPERTIES LeavesAsItShould
