SPECIFICATION Spec
CONSTANTS
    Requests = {r1}
    Channels = {"EMAIL"}
    None = None
    MaxRetryCount = 3
    BatchSize = 1
    PageLimit = 1
    FaultKinds = {"db"}
    MaxFaults = 1
    Sends = {s1}
    RelayTicks = {}
    RetryTicks = {}
    Workers = {w1}
    ChannelOf <- MCEmailWorkers
INVARIANTS
    FailureIsRetried

CHECK_DEADLOCK FALSE
