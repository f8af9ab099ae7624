CONSTANTS
    Requests <- MCRequests
    Replies <- MCReplies
    None = None
    Mains = {"echo", "gossipsub", "kad", "relay", "peerstore", "metrics", "service_disco", "libp2p_mobile_check"}
    LOOKUP_ATTEMPTS = 30
SPECIFICATION Spec
INVARIANTS WellFormed OwnsItsWaiter ReadsItsReply SucceedsUnlessTroubled
PROPERTIES StatusTellsTruth MainEnds
CHECK_DEADLOCK FALSE
