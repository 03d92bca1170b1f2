SPECIFICATION FairSpec
CONSTANTS
    Requests = {r1}
    Channels = {"EMAIL"}
    None = None
    MaxRetryCount = 0
    BatchSize = 1
    PageLimit = 1
    FaultKinds = {"db", "dbAck", "kafka", "kafkaAck", "crash"}
    MaxFaults = 3
    Sends = {s1}
    RelayTicks = {}
    RetryTicks = {}
    Workers = {w1}
    ChannelOf <- MCEmailWorkers
INVARIANTS
    DeadLettersFailed
    DeadLetterRowsExplained
    OnlyTiesAreMissed

    
CHECK_DEADLOCK FALSE
