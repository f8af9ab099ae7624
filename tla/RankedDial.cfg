SPECIFICATION Spec
CONSTANTS
    a1 = a1
    a2 = a2
    a3 = a3
    a4 = a4
    n1 = n1
    n2 = n2
    Direct = {a1, a2}
    Names = {n1, n2}
    AddrsOf <- Found
    Rank <- Ranks
    MaxDialCandidates = 3
    MaxParallelDials = 2
INVARIANT WellFormed
PROPERTIES GivesUpOnlyWhenDone DialReturns
CHECK_DEADLOCK FALSE
