SPECIFICATION Spec
CONSTANTS
    Requests = {r1}
    Channels = {"EMAIL"}
    None = None
    MaxRetryCount = 3
    BatchSize = 1
    PageLimit = 1
    FaultKinds = {"kafka"}
    MaxFaults = 2
    Sends = {s1}
    RelayTicks = {t1}
    RetryTicks = {}
    Workers = {}
    ChannelOf <- MCEmailWorkers
INVARIANTS
    KafkaFailureKeepsPending

CHECK_DEADLOCK FALSE
