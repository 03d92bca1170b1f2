SPECIFICATION Spec
CONSTANTS
    Requests = {r1}
    Channels = {"EMAIL"}
    None = None
    MaxRetryCount = 3
    BatchSize = 1
    PageLimit = 1
    FaultKinds = {"db", "kafka", "kafkaAck", "crash", "rebalance", "purge"}
    MaxFaults = 2
    Sends = {s1}
    RelayTicks = {t1}
    RetryTicks = {t1}
    Workers = {w1, w2}
    ChannelOf <- MCEmailWorkers
SYMMETRY MCSymmetry
INVARIANTS
    CompletedIsBacked
    OneSuccessPerOvertake
    RescheduledIsPublished
PROPERTIES
    DeliveredIsFinal
    LifecycleSpec
CHECK_DEADLOCK FALSE
