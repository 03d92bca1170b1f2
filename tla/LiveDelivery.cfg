SPECIFICATION FairSpec
CONSTANTS
    Requests = {r1}
    Channels = {"EMAIL", "CHAT"}
    None = None
    MaxRetryCount = 3
    BatchSize = 1
    PageLimit = 1
    FaultKinds = {"kafka", "kafkaAck", "crash", "rebalance"}
    MaxFaults = 1
    Sends = {s1, s2}
    RelayTicks = {t1}
    RetryTicks = {}
    Workers = {w1}
    ChannelOf <- MCEmailWorkers

PROPERTIES
    PublishedIsDelivered
    GroupsCatchUp
CHECK_DEADLOCK FALSE
