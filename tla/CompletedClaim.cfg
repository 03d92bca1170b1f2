SPECIFICATION FairSpec
CONSTANTS
    Requests = {r1}
    Channels = {"EMAIL"}
    None = None
    MaxRetryCount = 3
    BatchSize = 1
    PageLimit = 1
    FaultKinds = {}
    MaxFaults = 0
    Sends = {s1}
    RelayTicks = {}
    RetryTicks = {}
    Workers = {w1}
    ChannelOf <- MCEmailWorkers

PROPERTIES
    DeliveredEndsCompleted
CHECK_DEADLOCK FALSE
