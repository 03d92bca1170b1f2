------------------------------- MODULE Worker -------------------------------
(***************************************************************************)
(* BaseWorkerService, the Kafka consumer that worker-email, worker-sms and *)
(* worker-kakao extend.  The workers of one channel form a consumer group; *)
(* every group reads the whole topic and drops the events of the other     *)
(* channels.  The events of a request have one key, so they lie in one     *)
(* partition: their group handles them one after another, by offset.  All  *)
(* events of a request carry the same data; an event is (request, offset). *)
(* A worker record holds the await process() is at, the request entity it  *)
(* read and the id of the dispatch row it inserted; every other column of  *)
(* that row is written by this handler alone until it leaves process().    *)
(***************************************************************************)
EXTENDS MessagingStore, Integers

CONSTANTS
    Workers,        \* the worker processes
    ChannelOf       \* the channelType of each

ASSUME WorkerAssumption == ChannelOf \in [Workers -> Channels]

VARIABLES
    worker,
    position,       \* by group and request: the next offset to hand out
    committed,      \* by group and request: the offset committed to Kafka
    overtaken       \* by request: handlers that lost their partition midway

workerVars == <<worker, position, committed, overtaken>>

WorkerPc ==
    {"idle", "findRequest", "findSuccess", "createDispatch", "logRequest",
     "saveSuccess", "logSuccess", "saveCompleted",
     "saveRetry", "logRetry",
     "saveFailed", "logFail", "saveRequestFailed", "publishDlq"}

\* live: the group still regards this worker as the owner of the partition.
WorkerRecord ==
    [pc: WorkerPc, req: Requests \cup {None}, live: BOOLEAN,
     entity: RequestRow, id: Nat]

NoOffset == -1

\* From here on the handler has a dispatch row.
HasRow(w) ==
    worker[w].pc \notin {"idle", "findRequest", "findSuccess", "createDispatch"}

WorkerTypeOK ==
    /\ worker \in [Workers -> WorkerRecord]
    /\ \A w \in Workers :
         /\ worker[w].pc # "idle" => worker[w].req \in Requests
         /\ HasRow(w) => worker[w].id \in DOMAIN dispatch
    /\ position \in [Channels -> [Requests -> Nat]]
    /\ committed \in [Channels -> [Requests -> Nat \cup {NoOffset}]]
    /\ overtaken \in [Requests -> Nat]

WorkerIdle ==
    [pc |-> "idle", req |-> None, live |-> FALSE, entity |-> AbsentRow, id |-> 0]

\* The groups are up before the first event; they have committed an offset
\* for the partition before, or never have.
WorkerInit ==
    /\ worker = [w \in Workers |-> WorkerIdle]
    /\ position = [c \in Channels |-> [r \in Requests |-> 0]]
    /\ \E o \in {0, NoOffset} :
         committed = [c \in Channels |-> [r \in Requests |-> o]]
    /\ overtaken = [r \in Requests |-> 0]

-----------------------------------------------------------------------------
WorkerAt(w, pc) == worker[w].pc = pc

WorkerGoto(w, pc) == worker' = [worker EXCEPT ![w].pc = pc]

Handles(w, c, r) ==
    /\ ~WorkerAt(w, "idle")
    /\ worker[w].live
    /\ worker[w].req = r
    /\ ChannelOf[w] = c

\* Mutant: the last event of the partition is never fetched.
Unread_OffByOne(c, r) ==
    /\ position[c][r] + 1 < topic[r]
    /\ ~ \E w \in Workers : Handles(w, c, r)

Unread(c, r) ==
    /\ position[c][r] < topic[r]
    /\ ~ \E w \in Workers : Handles(w, c, r)

\* The event counts as consumed; the offset is committed now or, when the
\* commit is late, with a later event.
Consume(c, r) ==
    /\ position' = [position EXCEPT ![c][r] = @ + 1]
    /\ \/ committed' = [committed EXCEPT ![c][r] = position[c][r] + 1]
       \/ UNCHANGED committed

\* Where the group resumes a partition: at its commit; without one, because
\* of fromBeginning: false, at the end of the topic.
RestartOffset(c, r) ==
    IF committed[c][r] = NoOffset THEN topic[r] ELSE committed[c][r]

Restart(c, r) == position' = [position EXCEPT ![c][r] = RestartOffset(c, r)]

\* eachMessage returns.  A worker that lost the partition commits nothing.
Return(w) ==
    /\ worker' = [worker EXCEPT ![w] = WorkerIdle]
    /\ IF worker[w].live
         THEN Consume(ChannelOf[w], worker[w].req)
         ELSE UNCHANGED <<position, committed>>
    /\ UNCHANGED overtaken

-----------------------------------------------------------------------------
\* eachMessage gets an event of its channel.
Deliver(w, r) ==
    /\ WorkerAt(w, "idle")
    /\ Unread(ChannelOf[w], r)
    /\ request[r].channel = ChannelOf[w]
    /\ worker' = [worker EXCEPT ![w] = [WorkerIdle EXCEPT !.pc = "findRequest",
                                          !.req = r, !.live = TRUE]]
    /\ UNCHANGED <<storeVars, position, committed, overtaken>>

\* Mutant: a skipped event is not consumed.
SkipOtherChannel_NotConsumed(w, r) ==
    /\ WorkerAt(w, "idle")
    /\ Unread(ChannelOf[w], r)
    /\ request[r].channel # ChannelOf[w]
    /\ UNCHANGED <<storeVars, workerVars>>

\* eachMessage returns at once for an event of another channel.
SkipOtherChannel(w, r) ==
    /\ WorkerAt(w, "idle")
    /\ Unread(ChannelOf[w], r)
    /\ request[r].channel # ChannelOf[w]
    /\ Consume(ChannelOf[w], r)
    /\ UNCHANGED <<storeVars, worker, overtaken>>

FindRequest(w) ==
    LET row == request[worker[w].req] IN
    /\ WorkerAt(w, "findRequest")
    /\ IF row.status = "ABSENT"
         THEN Return(w)
         ELSE /\ worker' = [worker EXCEPT ![w].pc = "findSuccess",
                                          ![w].entity = row]
              /\ UNCHANGED <<position, committed, overtaken>>
    /\ UNCHANGED storeVars

\* Mutant: the check for an earlier SUCCESS is missing.
FindSuccess_NoCheck(w) ==
    /\ WorkerAt(w, "findSuccess")
    /\ WorkerGoto(w, "createDispatch")
    /\ UNCHANGED <<storeVars, position, committed, overtaken>>

\* A request that has a SUCCESS dispatch is not dispatched again.
FindSuccess(w) ==
    /\ WorkerAt(w, "findSuccess")
    /\ \/ /\ DispatchesOf(worker[w].req, "SUCCESS") # {}
          /\ Return(w)
       \/ /\ DispatchesOf(worker[w].req, "SUCCESS") = {}
          /\ WorkerGoto(w, "createDispatch")
          /\ UNCHANGED <<position, committed, overtaken>>
    /\ UNCHANGED storeVars

\* Mutant: retryCount and maxRetryCount are swapped.
NewDispatch_Swapped(r) ==
    [req |-> r, status |-> "PROCESSING", retryCount |-> MaxRetryCount,
     nextRetryAt |-> "null"]

\* Every event, a retry's too, gets a new row with retryCount 0.
NewDispatch(r) ==
    [req |-> r, status |-> "PROCESSING", retryCount |-> 0, nextRetryAt |-> "null"]

\* Mutant: the request's first dispatch row is reused for every event.
CreateDispatch_Upsert(w) ==
    LET rows == {i \in DOMAIN dispatch : dispatch[i].req = worker[w].req}
        id == IF rows = {} THEN Len(dispatch) + 1
              ELSE CHOOSE i \in rows : \A j \in rows : i <= j IN
    /\ WorkerAt(w, "createDispatch")
    /\ dispatch' = IF rows = {} THEN Append(dispatch, NewDispatch(worker[w].req))
                   ELSE [dispatch EXCEPT ![id] = NewDispatch(worker[w].req)]
    /\ worker' = [worker EXCEPT ![w].pc = "logRequest", ![w].id = id]
    /\ UNCHANGED <<request, payload, outbox, topic, dlqTopic, faults>>
    /\ UNCHANGED <<position, committed, overtaken>>

CreateDispatch(w) ==
    /\ WorkerAt(w, "createDispatch")
    /\ dispatch' = Append(dispatch, NewDispatch(worker[w].req))
    /\ worker' = [worker EXCEPT ![w].pc = "logRequest",
                                ![w].id = Len(dispatch) + 1]
    /\ UNCHANGED <<request, payload, outbox, topic, dlqTopic, faults>>
    /\ UNCHANGED <<position, committed, overtaken>>

\* Mutant: the request is completed without the dispatch being saved.
WriteLog_CompleteFirst(w) ==
    /\ \/ WorkerAt(w, "logRequest") /\ WorkerGoto(w, "saveCompleted")
       \/ WorkerAt(w, "logFail") /\ WorkerGoto(w, "saveRequestFailed")
    /\ UNCHANGED <<storeVars, position, committed, overtaken>>

\* A row of tb_message_dispatch_log is written: no other table changes.
WriteLog(w) ==
    /\ \/ WorkerAt(w, "logRequest") /\ WorkerGoto(w, "saveSuccess")
       \/ WorkerAt(w, "logSuccess") /\ WorkerGoto(w, "saveCompleted")
       \/ WorkerAt(w, "logFail") /\ WorkerGoto(w, "saveRequestFailed")
    /\ UNCHANGED <<storeVars, position, committed, overtaken>>

-----------------------------------------------------------------------------
SucceededDispatch(w) == [dispatch EXCEPT ![worker[w].id].status = "SUCCESS"]

SaveSuccess(w) ==
    /\ WorkerAt(w, "saveSuccess")
    /\ dispatch' = SucceededDispatch(w)
    /\ WorkerGoto(w, "logSuccess")
    /\ UNCHANGED <<request, payload, outbox, topic, dlqTopic, faults>>
    /\ UNCHANGED <<position, committed, overtaken>>

\* The entity read before the dispatch, with the columns it had then.
CompletedEntity(w) ==
    [worker[w].entity EXCEPT !.status = "COMPLETED", !.completedAt = TRUE]

CompletedRequest(w) == [request EXCEPT ![worker[w].req] = CompletedEntity(w)]

SaveCompleted(w) ==
    /\ WorkerAt(w, "saveCompleted")
    /\ request' = CompletedRequest(w)
    /\ Return(w)
    /\ UNCHANGED <<payload, outbox, dispatch, topic, dlqTopic, faults>>

CanRetry(w) == dispatch[worker[w].id].retryCount < MaxRetryCount

\* The catch of process(): an error of any await of the try, the ones after
\* the dispatch was saved as SUCCESS included.
Caught(w, entity) ==
    worker' = [worker EXCEPT
                 ![w].pc = IF CanRetry(w) THEN "saveRetry" ELSE "saveFailed",
                 ![w].entity = entity]

TryFails(w) ==
    /\ Fault("db")
    /\ \/ /\ WorkerAt(w, "saveSuccess")
          /\ dispatch' \in AfterFailedSave(dispatch, SucceededDispatch(w))
          /\ Caught(w, worker[w].entity)
          /\ UNCHANGED request
       \/ /\ WorkerAt(w, "logSuccess")
          /\ Caught(w, worker[w].entity)
          /\ UNCHANGED <<request, dispatch>>
       \/ /\ WorkerAt(w, "saveCompleted")
          /\ request' \in AfterFailedSave(request, CompletedRequest(w))
          /\ Caught(w, CompletedEntity(w))
          /\ UNCHANGED dispatch
    /\ UNCHANGED <<payload, outbox, topic, dlqTopic, position, committed, overtaken>>

-----------------------------------------------------------------------------
\* Mutant: nextRetryAt is not computed.
WaitingDispatch_NoBackoff(w) ==
    [dispatch EXCEPT ![worker[w].id].status = "RETRY_WAIT",
                     ![worker[w].id].retryCount = @ + 1]

WaitingDispatch(w) ==
    [dispatch EXCEPT ![worker[w].id].status = "RETRY_WAIT",
                     ![worker[w].id].retryCount = @ + 1,
                     ![worker[w].id].nextRetryAt = "future"]

SaveRetry(w) ==
    /\ WorkerAt(w, "saveRetry")
    /\ dispatch' = WaitingDispatch(w)
    /\ WorkerGoto(w, "logRetry")
    /\ UNCHANGED <<request, payload, outbox, topic, dlqTopic, faults>>
    /\ UNCHANGED <<position, committed, overtaken>>

\* The last await of a retried event; its error changes nothing.
LogRetry(w) ==
    /\ WorkerAt(w, "logRetry")
    /\ Return(w)
    /\ UNCHANGED storeVars

\* Mutant: the status of a given-up dispatch is not set.
FailedDispatch_NoStatus(w) == dispatch

FailedDispatch(w) == [dispatch EXCEPT ![worker[w].id].status = "FAILED"]

SaveFailed(w) ==
    /\ WorkerAt(w, "saveFailed")
    /\ dispatch' = FailedDispatch(w)
    /\ WorkerGoto(w, "logFail")
    /\ UNCHANGED <<request, payload, outbox, topic, dlqTopic, faults>>
    /\ UNCHANGED <<position, committed, overtaken>>

FailedRequest(w) ==
    [request EXCEPT ![worker[w].req] =
                      [worker[w].entity EXCEPT !.status = "FAILED"]]

SaveRequestFailed(w) ==
    /\ WorkerAt(w, "saveRequestFailed")
    /\ request' = FailedRequest(w)
    /\ WorkerGoto(w, "publishDlq")
    /\ UNCHANGED <<payload, outbox, dispatch, topic, dlqTopic, faults>>
    /\ UNCHANGED <<position, committed, overtaken>>

\* Best effort: an error of the produce call is logged and dropped.
PublishDlq(w) ==
    /\ WorkerAt(w, "publishDlq")
    /\ \/ /\ dlqTopic' = Append(dlqTopic, worker[w].id)
          /\ UNCHANGED faults
       \/ /\ Fault("kafka")
          /\ \/ UNCHANGED dlqTopic
             \/ /\ "kafkaAck" \in FaultKinds
                /\ dlqTopic' = Append(dlqTopic, worker[w].id)
    /\ Return(w)
    /\ UNCHANGED <<request, payload, outbox, dispatch, topic>>

\* An await outside the try, or in its catch, throws: eachMessage logs the
\* error and returns, and the event is consumed.  A payload that cannot be
\* decrypted ends the same way.
EventFails(w) ==
    /\ Fault("db")
    /\ \/ /\ worker[w].pc \in {"findRequest", "findSuccess", "logRequest", "logFail"}
          /\ UNCHANGED <<request, dispatch>>
       \/ /\ WorkerAt(w, "createDispatch")
          /\ dispatch' \in AfterFailedSave(
                             dispatch, Append(dispatch, NewDispatch(worker[w].req)))
          /\ UNCHANGED request
       \/ /\ WorkerAt(w, "saveRetry")
          /\ dispatch' \in AfterFailedSave(dispatch, WaitingDispatch(w))
          /\ UNCHANGED request
       \/ /\ WorkerAt(w, "saveFailed")
          /\ dispatch' \in AfterFailedSave(dispatch, FailedDispatch(w))
          /\ UNCHANGED request
       \/ /\ WorkerAt(w, "saveRequestFailed")
          /\ request' \in AfterFailedSave(request, FailedRequest(w))
          /\ UNCHANGED dispatch
    /\ Return(w)
    /\ UNCHANGED <<payload, outbox, topic, dlqTopic>>

-----------------------------------------------------------------------------
\* The worker process dies; another member resumes the partition.
WorkerCrash(w) ==
    /\ ~WorkerAt(w, "idle")
    /\ Fault("crash")
    /\ worker' = [worker EXCEPT ![w] = WorkerIdle]
    /\ IF worker[w].live
         THEN Restart(ChannelOf[w], worker[w].req)
         ELSE UNCHANGED position
    /\ UNCHANGED <<request, payload, outbox, dispatch, topic, dlqTopic>>
    /\ UNCHANGED <<committed, overtaken>>

\* A worker dies between two events of the partition of r.
IdleCrash(w, r) ==
    LET c == ChannelOf[w] IN
    /\ WorkerAt(w, "idle")
    /\ ~ \E v \in Workers : Handles(v, c, r)
    /\ position[c][r] # RestartOffset(c, r)
    /\ Fault("crash")
    /\ Restart(c, r)
    /\ UNCHANGED <<request, payload, outbox, dispatch, topic, dlqTopic>>
    /\ UNCHANGED <<worker, committed, overtaken>>

\* The session of a busy worker expires: the group gives its partition to
\* another member, while the handler goes on without knowing it.
Rebalance(w) ==
    /\ ~WorkerAt(w, "idle")
    /\ worker[w].live
    /\ Fault("rebalance")
    /\ worker' = [worker EXCEPT ![w].live = FALSE]
    /\ overtaken' = [overtaken EXCEPT ![worker[w].req] = @ + 1]
    /\ Restart(ChannelOf[w], worker[w].req)
    /\ UNCHANGED <<request, payload, outbox, dispatch, topic, dlqTopic, committed>>

-----------------------------------------------------------------------------
WorkerStep(w) ==
    \/ \E r \in Requests : Deliver(w, r) \/ SkipOtherChannel(w, r)
    \/ FindRequest(w) \/ FindSuccess(w) \/ CreateDispatch(w) \/ WriteLog(w)
    \/ SaveSuccess(w) \/ SaveCompleted(w) \/ TryFails(w)
    \/ SaveRetry(w) \/ LogRetry(w)
    \/ SaveFailed(w) \/ SaveRequestFailed(w) \/ PublishDlq(w)
    \/ EventFails(w)

WorkerNext ==
    \E w \in Workers :
       \/ WorkerStep(w)
       \/ WorkerCrash(w)
       \/ \E r \in Requests : IdleCrash(w, r)
       \/ Rebalance(w)
=============================================================================
