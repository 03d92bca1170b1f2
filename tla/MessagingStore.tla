--------------------------- MODULE MessagingStore ---------------------------
(***************************************************************************)
(* The state every component of the messaging server shares: the rows of   *)
(* the PostgreSQL tables and the two Kafka topics.  The component modules  *)
(* (Gateway, OutboxRelay, RetryScheduler, Worker, DlqConsumer) EXTEND this *)
(* one and read and write these variables; Pipeline composes them.         *)
(*                                                                         *)
(* A row keeps the columns the code branches on.  Repository.save (TypeORM)*)
(* writes every column of the entity it is given, whatever another process *)
(* wrote since that entity was read: a component that saves an entity      *)
(* keeps the copy it read and writes the whole copy back.                  *)
(***************************************************************************)
EXTENDS Naturals, FiniteSets, Sequences

CONSTANTS
    Requests,       \* the request ids clients choose (dto.requestId)
    Channels,       \* the channels clients name (dto.channel)
    None,           \* "no request"
    MaxRetryCount,  \* maxRetryCount of a new dispatch row; the code writes 3
    BatchSize,      \* rows one cron tick takes; the code takes 100
    FaultKinds,     \* the kinds of fault the environment may inject
    MaxFaults       \* bound: how many faults one behaviour has

\* db: a query is rejected; dbAck: a write is committed but reported as
\* failed; kafka, kafkaAck: the same two of a produce call; crash: a process
\* dies; rebalance: the broker moves a partition while its record is being
\* handled; purge: an operator deletes a payload row.
AllFaultKinds ==
    {"db", "dbAck", "kafka", "kafkaAck", "crash", "rebalance", "purge"}

ASSUME StoreAssumption ==
    /\ None \notin Requests
    /\ MaxRetryCount \in Nat
    /\ BatchSize \in Nat \ {0}
    /\ FaultKinds \subseteq AllFaultKinds
    /\ MaxFaults \in Nat

VARIABLES
    request,    \* tb_message_request, by request_id (UNIQUE)
    payload,    \* requests whose tb_message_payload row exists
    outbox,     \* tb_message_outbox, by event_key
    dispatch,   \* tb_message_dispatch, in insertion order; the index is the id
    topic,      \* how many events the topic message.send holds for a request
    dlqTopic,   \* message.dlq: the ids of the dispatches published, in order
    faults      \* faults injected so far

storeVars == <<request, payload, outbox, dispatch, topic, dlqTopic, faults>>

-----------------------------------------------------------------------------
RequestStatus == {"ABSENT", "VALIDATED", "QUEUED", "COMPLETED", "FAILED"}

NoChannel == "NONE"

RequestRow ==
    [status: RequestStatus, queuedAt: BOOLEAN, completedAt: BOOLEAN,
     channel: Channels \cup {NoChannel}]

AbsentRow ==
    [status |-> "ABSENT", queuedAt |-> FALSE, completedAt |-> FALSE,
     channel |-> NoChannel]

\* createdAt orders the outbox rows; rows are never deleted.
OutboxRow == [status: {"ABSENT", "PENDING", "PUBLISHED", "FAILED"}, createdAt: Nat]

\* nextRetryAt is null, still ahead of the clock ("future"), or reached ("due").
DispatchRow ==
    [req: Requests,
     status: {"PROCESSING", "SUCCESS", "RETRY_WAIT", "FAILED"},
     retryCount: Nat,
     nextRetryAt: {"null", "future", "due"}]

StoreTypeOK ==
    /\ request \in [Requests -> RequestRow]
    /\ payload \in SUBSET Requests
    /\ outbox \in [Requests -> OutboxRow]
    /\ dispatch \in Seq(DispatchRow)
    /\ topic \in [Requests -> Nat]
    /\ dlqTopic \in Seq(Nat)
    /\ faults \in 0..MaxFaults

StoreInit ==
    /\ request = [r \in Requests |-> AbsentRow]
    /\ payload = {}
    /\ outbox = [r \in Requests |-> [status |-> "ABSENT", createdAt |-> 0]]
    /\ dispatch = << >>
    /\ topic = [r \in Requests |-> 0]
    /\ dlqTopic = << >>
    /\ faults = 0

-----------------------------------------------------------------------------
Committed(r) == request[r].status # "ABSENT"

Pending == {r \in Requests : outbox[r].status = "PENDING"}

\* The dispatch rows of r that hold the given status.
DispatchesOf(r, status) ==
    {i \in DOMAIN dispatch : dispatch[i].req = r /\ dispatch[i].status = status}

\* A fault of this kind happens now, within the bound on faults.
Fault(kind) ==
    /\ kind \in FaultKinds
    /\ faults < MaxFaults
    /\ faults' = faults + 1

DbLosesAck == "dbAck" \in FaultKinds

\* What a table holds after save() threw: the old rows, or the new ones when
\* the commit went through and only its acknowledgement was lost.
AfterFailedSave(old, new) ==
    {old} \cup {t \in {new} : DbLosesAck}

\* KafkaService.publish appends the event under key requestId.
Appended(r) == [topic EXCEPT ![r] = @ + 1]

\* What the topic holds after producer.send threw.
AfterFailedSend(r) ==
    {topic} \cup {t \in {Appended(r)} : "kafkaAck" \in FaultKinds}

-----------------------------------------------------------------------------
\* An operator deletes the payload row of a committed request: nothing in the
\* code does, but both readers of the table handle a missing row.
PurgePayload(r) ==
    /\ r \in payload
    /\ Fault("purge")
    /\ payload' = payload \ {r}
    /\ UNCHANGED <<request, outbox, dispatch, topic, dlqTopic>>

\* The clock reaches the nextRetryAt of dispatch i.
BackoffElapses(i) ==
    /\ dispatch[i].nextRetryAt = "future"
    /\ dispatch' = [dispatch EXCEPT ![i].nextRetryAt = "due"]
    /\ UNCHANGED <<request, payload, outbox, topic, dlqTopic, faults>>
=============================================================================
