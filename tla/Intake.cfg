SPECIFICATION Spec
CONSTANTS
    Requests = {r1}
    Channels = {"EMAIL"}
    None = None
    MaxRetryCount = 3
    BatchSize = 1
    PageLimit = 1
    FaultKinds = {"db", "dbAck", "kafka", "kafkaAck", "crash", "purge"}
    MaxFaults = 2
    Sends = {s1, s2}
    RelayTicks = {t1, t2}
    RetryTicks = {}
    Workers = {}
    ChannelOf <- MCEmailWorkers
INVARIANTS
    TypeOK
    UnpublishedIsRecoverable
    AcknowledgedIsPublished
    UnavailableIsStored
    SingleCreator
PROPERTIES
    LifecycleSpec
CHECK_DEADLOCK FALSE
