SPECIFICATION FairSpec
CONSTANTS
    Requests = {r1, r2}
    Channels = {"EMAIL"}
    None = None
    MaxRetryCount = 3
    BatchSize = 1
    PageLimit = 1
    FaultKinds = {"kafka", "db", "crash"}
    MaxFaults = 1
    Sends = {s1, s2}
    RelayTicks = {t1, t2}
    RetryTicks = {}
    Workers = {}
    ChannelOf <- MCEmailWorkers

PROPERTIES
    PendingIsRelayed
CHECK_DEADLOCK FALSE
