------------------------- MODULE PipelineProperties -------------------------
(***************************************************************************)
(* What the delivery pipeline promises, and what its documents say of it.  *)
(***************************************************************************)
EXTENDS Pipeline

Published(r) == topic[r] > 0

-----------------------------------------------------------------------------
(* Intake: api-gateway and the outbox relay. *)

\* As long as no event of a stored request is in Kafka, the request is still
\* VALIDATED, so that a client's repetition publishes it, and its outbox row
\* has not been closed as PUBLISHED by the gateway or by any relay run.
UnpublishedIsRecoverable ==
    \A r \in Requests :
       Committed(r) /\ ~Published(r) =>
          /\ request[r].status = "VALIDATED"
          /\ outbox[r].status \in {"PENDING", "FAILED"}

\* A call answered with success has an event of its request in Kafka, also
\* when it only found the row of a concurrent or earlier call.
AcknowledgedIsPublished ==
    \A s \in Sends :
       send[s].response = "ok" =>
          Committed(send[s].req) /\ Published(send[s].req)

\* The 503 of the gateway (MSG_KAFKA_PUBLISH_FAILED) is given for stored
\* requests only: calling again with the same requestId is then enough.
UnavailableIsStored ==
    \A s \in Sends :
       send[s].response = "unavailable" => Committed(send[s].req)

\* Concurrent calls with one requestId: one of them gets past the transaction
\* with a row of its own, so two never publish the request as its creator.
SingleCreator ==
    \A s, q \in Sends :
       /\ s # q
       /\ send[s].pc \in {"publish", "markPublished", "markQueued"}
       /\ send[q].pc \in {"publish", "markPublished", "markQueued"}
       => send[s].req # send[q].req

-----------------------------------------------------------------------------
(* Delivery: the workers and the retry scheduler. *)

\* A request is COMPLETED only while one of its dispatches is SUCCESS.
CompletedIsBacked ==
    \A r \in Requests :
       request[r].status = "COMPLETED" => DispatchesOf(r, "SUCCESS") # {}

\* Duplicate events, crashes and retries leave a request one SUCCESS dispatch:
\* a second one needs a handler that lost its partition midway, and each such
\* loss explains one.  (Rows that are SUCCESS now: a handler whose log write
\* fails after its save takes its own row back, and the retry makes another.)
OneSuccessPerOvertake ==
    \A r \in Requests :
       Cardinality(DispatchesOf(r, "SUCCESS")) <= 1 + overtaken[r]

\* A dispatch that a run of the scheduler turned back to PROCESSING has its
\* event in the topic, beside the event that brought the request there.
Rescheduled(r) ==
    {i \in DispatchesOf(r, "PROCESSING") : dispatch[i].retryCount > 0}

RescheduledIsPublished ==
    \A r \in Requests :
       Rescheduled(r) # {} => topic[r] > Cardinality(Rescheduled(r))

\* The handlers that may still change a dispatch row after its SUCCESS.
Revisits(w, i) ==
    /\ worker[w].pc \in {"logSuccess", "saveCompleted", "saveRetry", "saveFailed"}
    /\ worker[w].id = i

\* Once its own handler is done with it, a SUCCESS dispatch stays SUCCESS:
\* no other handler, no scheduler run with an old batch takes it back.
DeliveredIsFinal ==
    [][\A i \in DOMAIN dispatch :
          /\ dispatch[i].status = "SUCCESS"
          /\ \A w \in Workers : ~Revisits(w, i)
          => dispatch'[i].status = "SUCCESS"]_vars

\* The dead letters are dispatches that failed for good, each sent once.
DeadLettersFailed ==
    \A k \in DOMAIN dlqTopic :
       /\ dispatch[dlqTopic[k]].status = "FAILED"
       /\ \A l \in DOMAIN dlqTopic : dlqTopic[k] = dlqTopic[l] => k = l

\* Rows of tb_message_dlq come from the topic; a dispatch has more than one
\* only through a restart of the consumer, so never more than faults happened
\* (one of them is the failure that was dead-lettered).
RowsFor(i) == {k \in DOMAIN dlqTable : dlqTable[k] = i}

DeadLetterRowsExplained ==
    \A k \in DOMAIN dlqTable :
       /\ \E l \in DOMAIN dlqTopic : dlqTopic[l] = dlqTable[k]
       /\ Cardinality(RowsFor(dlqTable[k])) <= faults

\* A reading that went through all pages has shown every dead letter that was
\* stored when it began, although new rows shift the old ones from page to
\* page and may be older than they are.  Only rows with one failedAt, whose
\* order changes from query to query, can slip from a later page to an
\* earlier one unseen.
OnlyTiesAreMissed ==
    walk.pc = "done" =>
       \A k \in 1..walk.begun :
          \/ k \in walk.shown
          \/ \E j \in Rows \ {k} :
               /\ dlqTable[j] \in DOMAIN walk.failedAt
               /\ walk.failedAt[dlqTable[j]] = walk.failedAt[dlqTable[k]]

-----------------------------------------------------------------------------
(* Refinement: the pipeline implements MessageLifecycle. *)

\* A handler that is done with its SUCCESS row, or gone, has delivered.
Delivered(r) ==
    \E i \in DispatchesOf(r, "SUCCESS") : \A w \in Workers : ~Revisits(w, i)

Stage(r) ==
    CASE ~Committed(r) -> "absent"
      [] Committed(r) /\ Delivered(r) -> "delivered"
      [] Committed(r) /\ ~Delivered(r) /\ Published(r) -> "published"
      [] Committed(r) /\ ~Delivered(r) /\ ~Published(r) -> "stored"

Told(r) ==
    {a \in {"ok", "unavailable"} :
       \E s \in Sends : send[s].req = r /\ send[s].response = a}

Lifecycle ==
    INSTANCE MessageLifecycle
      WITH stage <- [r \in Requests |-> Stage(r)],
           told <- [r \in Requests |-> Told(r)]

\* Clients see a request go from stored to published to delivered, one stage
\* at a time and never back, and no answer promises a stage not yet reached:
\* whatever the handlers, cron runs and workers of the pipeline do, in any
\* order and with any of the faults, is a step of that life or none.
LifecycleSpec == Lifecycle!Spec

-----------------------------------------------------------------------------
(* Liveness, under FairSpec. *)

\* No outbox row stays PENDING, however the relay runs overlap and whatever
\* produce calls fail: the relay publishes it or marks it FAILED.
PendingIsRelayed ==
    \A r \in Requests :
       outbox[r].status = "PENDING" ~> outbox[r].status # "PENDING"

Served(r) == \E w \in Workers : ChannelOf[w] = request[r].channel

\* A crash sends a group that has never committed to the end of the topic.
Uncommitted(r) ==
    /\ faults > 0
    /\ \E c \in Channels : request[r].channel = c /\ committed[c][r] = NoOffset

\* A request that reached the topic is delivered for good if its channel has a
\* worker, whatever produce calls fail and whichever process dies when: only a
\* group without a committed offset may have lost its event to a restart.
PublishedIsDelivered ==
    \A r \in Requests :
       Published(r) /\ Served(r)
         ~> [](DispatchesOf(r, "SUCCESS") # {}) \/ <>Uncommitted(r)

\* Every group that has a worker catches up with the whole topic, events of
\* the channels nobody serves included.
GroupsCatchUp ==
    \A w \in Workers, r \in Requests :
       <>[](position[ChannelOf[w]][r] = topic[r])

\* One failure of a delivery attempt is repaired: backoff, scheduler and a
\* second attempt end in a SUCCESS dispatch that stays.
WaitingIsDelivered ==
    \A r \in Requests :
       DispatchesOf(r, "RETRY_WAIT") # {} ~> [](DispatchesOf(r, "SUCCESS") # {})

\* Dead letters end up in tb_message_dlq.  Each took a fault to become one, and
\* each that stays out of the table takes a further fault of its own: a failing
\* insert loses its letter and none behind it, a restart none.  Only a group
\* without a committed offset may lose all that wait, to one restart.
Missing == {k \in DOMAIN dlqTopic : RowsFor(dlqTopic[k]) = {}}


-----------------------------------------------------------------------------
(* What the repository's documents and comments say, and the code does not. *)

\* README.md:128: when publishing to Kafka fails, the outbox record stays
\* PENDING and the relay publishes it again every 30 seconds.
KafkaFailureKeepsPending ==
    \A r \in Requests :
       Committed(r) /\ ~Published(r) => outbox[r].status = "PENDING"

\* README.md:136: a failed delivery attempt becomes RETRY_WAIT.  A dispatch
\* that waits for nobody is a failed attempt that did not.
FailureIsRetried ==
    \A i \in DOMAIN dispatch :
       dispatch[i].status = "PROCESSING" /\ dispatch[i].retryCount = 0 =>
          \E w \in Workers : ~WorkerAt(w, "idle") /\ worker[w].id = i

\* README.md:136 and 178: the waits between attempts grow, 1, 5, 15 minutes, and
\* past the maximum of retries the message goes to message.dlq.  So no more than
\* MaxRetryCount failed attempts of a request are turned into another retry.
RetriesAreBounded ==
    \A r \in Requests :
       Cardinality({i \in DOMAIN dispatch :
                      dispatch[i].req = r /\ dispatch[i].retryCount > 0})
         <= MaxRetryCount

\* What the code does instead, with any positive maximum: nothing is given up.
\* The branch that does needs a row whose retryCount reached maxRetryCount, but
\* every event starts a row at 0.
NothingIsGivenUp ==
    MaxRetryCount > 0 =>
       /\ dlqTopic = << >>
       /\ \A r \in Requests : request[r].status # "FAILED"

\* README.md:41-43: once the dispatch is stored, the request is COMPLETED.
DeliveredEndsCompleted ==
    \A r \in Requests :
       DispatchesOf(r, "SUCCESS") # {} ~> [](request[r].status = "COMPLETED")
=============================================================================
