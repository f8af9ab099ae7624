SPECIFICATION MCSpec
CONSTANTS
    Topics = {x}
    Peers = {a, b}
    Troubles = {{"unsubscribe"}, {"close"}}
    MaxInFlight = 1
    Params <- Parameters
    PruneBackoff = 3
    MaxBackoff = 8
    UnsubscribeBackoff = 2
    FanoutTTL = 1
    MaxOpportunisticGraftPeers = 2
    TopicsHigh = 2
    PublishThreshold <- MinusTwo
    GraylistThreshold <- MinusThree
    None = None
CHECK_DEADLOCK FALSE
PROPERTIES EventuallyMeshed SubscriptionReachesPeer
