SPECIFICATION MCSpec
CONSTANTS
    h1 = h1
    h2 = h2
    m1 = m1
    l1 = l1
    Casts = {{h1, h2, l1, o1, o2}, {h1, m1, l1, o1}, {h1, l1, l2, o1}}
    Msgs = {h1, h2, m1, l1, l2}
    Prio <- Priorities
    Hellos = {o1, o2}
    MaxHigh = 2
    MaxMedium = 1
    MaxLow = 1
    None = None
CHECK_DEADLOCK FALSE
INVARIANTS WellFormed
PROPERTIES QueuedWaitsForHigh SendsEnd
