CONSTANTS
    Keys = {k1, k2, k3}
    Dials = {d1, d2, d3}
    Forced = {d3}
    Configs <- MCConfigs
    MaxBackoffEntries = 2
    MaxFailures = 5
    Limit = 8
    None = None
SPECIFICATION Spec
INVARIANT WellFormed
PROPERTIES WaitsAsPromised ForgetsTheLeast RetryComes
CHECK_DEADLOCK FALSE
