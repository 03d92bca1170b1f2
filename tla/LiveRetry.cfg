SPECIFICATION FairSpec
CONSTANTS
    Requests = {r1}
    Channels = {"EMAIL"}
    None = None
    MaxRetryCount = 3
    BatchSize = 1
    PageLimit = 1
    FaultKinds = {"db"}
    MaxFaults = 1
    Sends = {s1, s2}
    RelayTicks = {}
    RetryTicks = {t1, t2}
    Workers = {w1}
    ChannelOf <- MCEmailWorkers

PROPERTIES
    WaitingIsDelivered
CHECK_DEADLOCK FALSE
