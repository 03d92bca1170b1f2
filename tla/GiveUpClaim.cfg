SPECIFICATION Spec
CONSTANTS
    Requests = {r1}
    Channels = {"EMAIL"}
    None = None
    MaxRetryCount = 3
    BatchSize = 1
    PageLimit = 1
    FaultKinds = {"db"}
    MaxFaults = 4
    Sends = {s1}
    RelayTicks = {}
    RetryTicks = {t1}
    Workers = {w1}
    ChannelOf <- MCEmailWorkers
INVARIANTS
    RetriesAreBounded

CHECK_DEADLOCK FALSE
