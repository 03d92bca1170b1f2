---------------------------- MODULE DispatchProofs ----------------------------
(***************************************************************************)
(* The rows of tb_message_dispatch and the handlers and scheduler runs     *)
(* that write them, for every set of workers and runs, under every fault.  *)
(* The argument: from its insertion to its RETRY_WAIT a row belongs to one *)
(* handler and to no batch of the scheduler; from then on it belongs to    *)
(* the batches, and no run finds a row in a batch that is SUCCESS.         *)
(***************************************************************************)
EXTENDS PipelineProofs

\* Handler w may still write row i.
Owns(w, i) == HasRow(w) /\ ~WorkerAt(w, "logRetry") /\ worker[w].id = i

RowsHaveOneHandler ==
    \A v, w \in Workers :
       v # w /\ HasRow(v) /\ HasRow(w) => worker[v].id # worker[w].id

\* Where a handler is tells the status of its row.
FollowsRow(w) ==
    LET row == dispatch[worker[w].id] IN
    /\ row.req = worker[w].req
    /\ worker[w].pc \in {"logRequest", "saveSuccess"} => row.status = "PROCESSING"
    /\ worker[w].pc \in {"logSuccess", "saveCompleted"} => row.status = "SUCCESS"
    /\ worker[w].pc \in {"saveRetry", "saveFailed"} => row.status \in {"PROCESSING", "SUCCESS"}
    /\ worker[w].pc \in {"logFail", "saveRequestFailed", "publishDlq"} => row.status = "FAILED"
    /\ worker[w].pc # "logRetry" => row.retryCount = 0

RowsFollowHandlers == \A w \in Workers : HasRow(w) => FollowsRow(w)

WaitingIsCounted ==
    \A i \in DOMAIN dispatch :
       dispatch[i].status = "RETRY_WAIT" => dispatch[i].retryCount > 0

BatchesAreOfNobody ==
    \A t \in RetryTicks : \A i \in retry[t].batch :
       /\ dispatch[i].status # "SUCCESS"
       /\ dispatch[i].retryCount > 0
       /\ \A w \in Workers : ~Owns(w, i)

RowsArePublished == \A i \in DOMAIN dispatch : Published(dispatch[i].req)

RowsInv ==
    /\ RowsHaveOneHandler
    /\ RowsFollowHandlers
    /\ WaitingIsCounted
    /\ BatchesAreOfNobody
    /\ RowsArePublished

-----------------------------------------------------------------------------
(***************************************************************************)
(* What a step does to the table.  nextRetryAt is left out: no invariant   *)
(* is about it.                                                            *)
(***************************************************************************)
Keeps(i) ==
    /\ dispatch'[i].req = dispatch[i].req
    /\ dispatch'[i].status = dispatch[i].status
    /\ dispatch'[i].retryCount = dispatch[i].retryCount

\* No row is written, or only its nextRetryAt.
Rests ==
    /\ DOMAIN dispatch' = DOMAIN dispatch
    /\ \A j \in DOMAIN dispatch : Keeps(j)

\* Row i gets this status, and counts n retries more.
Saves(i, status, n) ==
    /\ i \in DOMAIN dispatch
    /\ DOMAIN dispatch' = DOMAIN dispatch
    /\ \A j \in DOMAIN dispatch \ {i} : Keeps(j)
    /\ dispatch'[i].req = dispatch[i].req
    /\ dispatch'[i].status = status
    /\ dispatch'[i].retryCount = dispatch[i].retryCount + n

NextId == Len(dispatch) + 1

Inserts(r) ==
    /\ NextId \notin DOMAIN dispatch
    /\ DOMAIN dispatch' = DOMAIN dispatch \cup {NextId}
    /\ \A j \in DOMAIN dispatch : Keeps(j)
    /\ dispatch'[NextId] = NewDispatch(r)

LEMMA RowTyping ==
    ASSUME StoreTypeOK
    PROVE  /\ \A i \in DOMAIN dispatch : dispatch[i] \in DispatchRow
           /\ DOMAIN dispatch \subseteq Nat /\ IsFiniteSet(DOMAIN dispatch)
           /\ \A i \in DOMAIN dispatch : dispatch[i].retryCount \in Nat
  <1>1. Len(dispatch) \in Nat /\ DOMAIN dispatch = 1..Len(dispatch)
    BY LenProperties DEF StoreTypeOK
  <1>2. IsFiniteSet(DOMAIN dispatch)
    BY <1>1, FS_Interval
  <1>3. \A i \in DOMAIN dispatch : dispatch[i] \in DispatchRow
    BY ElementOfSeq, <1>1 DEF StoreTypeOK
  <1> QED BY <1>1, <1>2, <1>3 DEF DispatchRow

LEMMA RowsRest ==
    ASSUME UNCHANGED dispatch
    PROVE  Rests
  BY DEF Rests, Keeps

LEMMA BackoffRests ==
    ASSUME StoreTypeOK, NEW i \in DOMAIN dispatch, BackoffElapses(i)
    PROVE  Rests
  <1>1. dispatch[i] \in DispatchRow
    BY RowTyping
  <1>2. dispatch' = [dispatch EXCEPT ![i].nextRetryAt = "due"]
    BY DEF BackoffElapses
  <1> QED BY <1>1, <1>2 DEF Rests, Keeps, DispatchRow

LEMMA RowInserted ==
    ASSUME StoreTypeOK, NEW r \in Requests,
           dispatch' = Append(dispatch, NewDispatch(r))
    PROVE  Inserts(r)
  <1>1. Len(dispatch) \in Nat /\ DOMAIN dispatch = 1..Len(dispatch)
    BY LenProperties DEF StoreTypeOK
  <1>2. NewDispatch(r) \in DispatchRow
    BY DEF NewDispatch, DispatchRow
  <1>3. Len(dispatch') = Len(dispatch) + 1 /\ dispatch' \in Seq(DispatchRow)
    BY <1>2, AppendProperties DEF StoreTypeOK
  <1>4. DOMAIN dispatch' = 1..(Len(dispatch) + 1)
    BY <1>3, LenProperties
  <1>5. \A j \in DOMAIN dispatch : dispatch'[j] = dispatch[j]
    BY <1>2, ExtendedTable DEF StoreTypeOK
  <1>6. dispatch'[Len(dispatch) + 1] = NewDispatch(r)
    BY <1>2, ExtendedTable DEF StoreTypeOK
  <1> QED BY <1>1, <1>4, <1>5, <1>6 DEF Inserts, Keeps, NextId

\* The rows a handler writes.
LEMMA HandlerSaves ==
    ASSUME StoreTypeOK, WorkerTypeOK, NEW w \in Workers, HasRow(w)
    PROVE  /\ dispatch' = SucceededDispatch(w) => Saves(worker[w].id, "SUCCESS", 0)
           /\ dispatch' = FailedDispatch(w) => Saves(worker[w].id, "FAILED", 0)
           /\ dispatch' = WaitingDispatch(w) => Saves(worker[w].id, "RETRY_WAIT", 1)
  <1>1. PICK i \in DOMAIN dispatch : i = worker[w].id
    BY DEF WorkerTypeOK
  <1>2. dispatch[i] \in DispatchRow /\ dispatch[i].retryCount \in Nat
    BY RowTyping
  <1>3. dispatch' = SucceededDispatch(w) => Saves(i, "SUCCESS", 0)
    BY <1>1, <1>2 DEF SucceededDispatch, Saves, Keeps, DispatchRow
  <1>4. dispatch' = FailedDispatch(w) => Saves(i, "FAILED", 0)
    BY <1>1, <1>2 DEF FailedDispatch, Saves, Keeps, DispatchRow
  <1>5. dispatch' = WaitingDispatch(w) => Saves(i, "RETRY_WAIT", 1)
    <2> DEFINE row == [dispatch[i] EXCEPT !.status = "RETRY_WAIT", !.retryCount = @ + 1,
                                          !.nextRetryAt = "future"]
    <2>1. /\ row.req = dispatch[i].req /\ row.status = "RETRY_WAIT"
          /\ row.retryCount = dispatch[i].retryCount + 1
      BY <1>2 DEF DispatchRow
    <2>2. WaitingDispatch(w) = [dispatch EXCEPT ![i] = row]
      BY <1>1 DEF WaitingDispatch
    <2> HIDE DEF row
    <2> QED BY <2>1, <2>2 DEF Saves, Keeps
  <1> QED BY <1>1, <1>3, <1>4, <1>5

\* The rows a scheduler run writes.
LEMMA RunSaves ==
    ASSUME StoreTypeOK, RetryTypeOK, NEW t \in RetryTicks, ~RetryAt(t, "idle")
    PROVE  /\ retry[t].id \in DOMAIN dispatch /\ retry[t].id \in retry[t].batch
           /\ dispatch' = MissingDispatch(t) => Saves(retry[t].id, "FAILED", 0)
           /\ dispatch' = RescheduledDispatch(t) => Saves(retry[t].id, "PROCESSING", 0)
  <1>1. PICK i \in DOMAIN dispatch : i = retry[t].id /\ i \in retry[t].batch
    BY DEF RetryTypeOK, RetryAt
  <1>2. dispatch[i] \in DispatchRow /\ dispatch[i].retryCount \in Nat
    BY RowTyping
  <1>3. dispatch' = MissingDispatch(t) => Saves(i, "FAILED", 0)
    BY <1>1, <1>2 DEF MissingDispatch, Saves, Keeps, DispatchRow
  <1>4. dispatch' = RescheduledDispatch(t) => Saves(i, "PROCESSING", 0)
    BY <1>1, <1>2 DEF RescheduledDispatch, Saves, Keeps, DispatchRow
  <1> QED BY <1>1, <1>3, <1>4

-----------------------------------------------------------------------------
(***************************************************************************)
(* The turns of a handler: what an await of process() may do to the record *)
(* of its worker, to the row and to the request.                           *)
(***************************************************************************)
NothingSaved == UNCHANGED <<request, dispatch>>

Leaves(w) == worker'[w] = WorkerIdle /\ UNCHANGED overtaken

GoesTo(w, pcs) ==
    /\ worker'[w].pc \in pcs
    /\ worker'[w].req = worker[w].req
    /\ worker'[w].live = worker[w].live
    /\ UNCHANGED overtaken

KeepsChannel(w) == worker'[w].entity.channel = worker[w].entity.channel

\* ... with the row it has.
Goes(w, pcs) ==
    /\ GoesTo(w, pcs)
    /\ worker'[w].id = worker[w].id
    /\ KeepsChannel(w)

Stays(w) == UNCHANGED <<worker, overtaken, request, dispatch>>

Takes(w, r) ==
    /\ WorkerAt(w, "idle")
    /\ Unread(ChannelOf[w], r)
    /\ request[r].channel = ChannelOf[w]
    /\ worker'[w].pc = "findRequest" /\ worker'[w].req = r /\ worker'[w].live
    /\ UNCHANGED overtaken
    /\ NothingSaved

Loses(w) ==
    /\ ~WorkerAt(w, "idle") /\ worker[w].live
    /\ worker' = [worker EXCEPT ![w].live = FALSE]
    /\ overtaken' = [overtaken EXCEPT ![worker[w].req] = @ + 1]
    /\ NothingSaved

Drops(w) == ~WorkerAt(w, "idle") /\ Leaves(w) /\ NothingSaved

\* ... reading or logging.
Reads(w) ==
    /\ NothingSaved
    /\ \/ WorkerAt(w, "logRequest") /\ Goes(w, {"saveSuccess"})
       \/ WorkerAt(w, "logSuccess") /\ Goes(w, {"saveCompleted"})
       \/ WorkerAt(w, "logFail") /\ Goes(w, {"saveRequestFailed"})

ReadsRequest(w) ==
    /\ WorkerAt(w, "findRequest") /\ GoesTo(w, {"findSuccess"}) /\ NothingSaved
    /\ worker'[w].entity = request[worker[w].req]

ReadsNoSuccess(w) ==
    /\ WorkerAt(w, "findSuccess") /\ GoesTo(w, {"createDispatch"}) /\ NothingSaved
    /\ DispatchesOf(worker[w].req, "SUCCESS") = {}
    /\ worker'[w].entity = worker[w].entity

\* ... writing the row.
Creates(w) ==
    /\ WorkerAt(w, "createDispatch") /\ Inserts(worker[w].req) /\ UNCHANGED request
    /\ \/ Leaves(w)
       \/ GoesTo(w, {"logRequest"}) /\ worker'[w].id = NextId /\ KeepsChannel(w)

Succeeds(w) ==
    /\ WorkerAt(w, "saveSuccess") /\ Saves(worker[w].id, "SUCCESS", 0) /\ UNCHANGED request
    /\ Goes(w, {"logSuccess", "saveRetry", "saveFailed"})
    /\ worker'[w].pc = "saveFailed" => ~CanRetry(w)

Waits(w) ==
    /\ WorkerAt(w, "saveRetry") /\ Saves(worker[w].id, "RETRY_WAIT", 1) /\ UNCHANGED request
    /\ Leaves(w) \/ Goes(w, {"logRetry"})

GivesUp(w) ==
    /\ WorkerAt(w, "saveFailed") /\ Saves(worker[w].id, "FAILED", 0) /\ UNCHANGED request
    /\ Leaves(w) \/ Goes(w, {"logFail"})

\* ... writing the request, or trying to.
Catches(w) ==
    /\ worker[w].pc \in {"saveSuccess", "logSuccess", "saveCompleted"}
    /\ Goes(w, {"saveRetry", "saveFailed"})
    /\ worker'[w].pc = "saveFailed" => ~CanRetry(w)
    /\ UNCHANGED dispatch
    /\ \/ UNCHANGED request
       \/ WorkerAt(w, "saveCompleted") /\ DbLosesAck /\ request' = CompletedRequest(w)

Completes(w) ==
    /\ WorkerAt(w, "saveCompleted") /\ Leaves(w) /\ UNCHANGED dispatch
    /\ request' = CompletedRequest(w)

FailsRequest(w) ==
    /\ WorkerAt(w, "saveRequestFailed") /\ UNCHANGED dispatch
    /\ request' = FailedRequest(w)
    /\ Leaves(w) \/ Goes(w, {"publishDlq"})

Turn(w) ==
    \/ Stays(w) \/ Loses(w) \/ Drops(w)
    \/ \E r \in Requests : Takes(w, r)
    \/ Reads(w) \/ ReadsRequest(w) \/ ReadsNoSuccess(w)
    \/ Creates(w) \/ Succeeds(w) \/ Waits(w) \/ GivesUp(w)
    \/ Catches(w) \/ Completes(w) \/ FailsRequest(w)

\* Every step of the workers is a turn of one of them.
LEMMA WorkerTurns ==
    ASSUME TypeOK, WorkerNext
    PROVE  /\ UNCHANGED <<outbox, topic>>
           /\ \E w \in Workers : /\ \A v \in Workers \ {w} : worker'[v] = worker[v]
                                 /\ Turn(w)
  <1> USE DEF TypeOK
  <1>1. PICK w \in Workers : \/ WorkerStep(w)
                             \/ WorkerCrash(w)
                             \/ \E q \in Requests : IdleCrash(w, q)
                             \/ Rebalance(w)
    BY DEF WorkerNext
  <1>2. \A v \in Workers \ {w} : worker'[v] = worker[v]
    BY <1>1
    DEF WorkerStep, Deliver, SkipOtherChannel, FindRequest, FindSuccess, CreateDispatch,
        WriteLog, SaveSuccess, SaveCompleted, TryFails, SaveRetry, LogRetry, SaveFailed,
        SaveRequestFailed, PublishDlq, EventFails, WorkerCrash, IdleCrash, Rebalance,
        workerVars, WorkerTypeOK, WorkerGoto, Return, Caught
  <1>0. UNCHANGED <<outbox, topic>>
    BY <1>1
    DEF WorkerStep, Deliver, SkipOtherChannel, FindRequest, FindSuccess, CreateDispatch,
        WriteLog, SaveSuccess, SaveCompleted, TryFails, SaveRetry, LogRetry, SaveFailed,
        SaveRequestFailed, PublishDlq, EventFails, WorkerCrash, IdleCrash, Rebalance,
        storeVars
  <1> SUFFICES Turn(w)
    BY <1>0, <1>2
  <1>3. /\ worker \in [Workers -> WorkerRecord]
        /\ ~WorkerAt(w, "idle") => worker[w].req \in Requests
    BY DEF WorkerTypeOK, WorkerAt
  <1>4. ASSUME NEW pc, WorkerGoto(w, pc), UNCHANGED overtaken
        PROVE  Goes(w, {pc})
    BY <1>3, <1>4 DEF WorkerGoto, Goes, GoesTo, KeepsChannel, WorkerRecord
  <1>5. ASSUME NEW pc, NEW row, UNCHANGED overtaken,
               worker' = [worker EXCEPT ![w].pc = pc, ![w].entity = row]
        PROVE  /\ GoesTo(w, {pc}) /\ worker'[w].entity = row
               /\ row.channel = worker[w].entity.channel => Goes(w, {pc})
    BY <1>3, <1>5 DEF Goes, GoesTo, KeepsChannel, WorkerRecord
  <1>6. ASSUME Return(w) PROVE Leaves(w)
    BY <1>3, <1>6 DEF Return, Leaves
  <1>7. ASSUME NEW r \in Requests, Deliver(w, r) PROVE Takes(w, r)
    BY <1>3, <1>7 DEF Deliver, Takes, WorkerIdle, WorkerRecord, storeVars, NothingSaved
  <1>8. ASSUME NEW r \in Requests, SkipOtherChannel(w, r) \/ IdleCrash(w, r) PROVE Stays(w)
    <2>1. CASE SkipOtherChannel(w, r)
      BY <2>1 DEF SkipOtherChannel, Stays, storeVars
    <2>2. CASE IdleCrash(w, r)
      BY <2>2 DEF IdleCrash, Stays
    <2> QED BY <1>8, <2>1, <2>2
  <1>9. CASE FindRequest(w)
    <2>1. WorkerAt(w, "findRequest") /\ ~WorkerAt(w, "idle") /\ NothingSaved
      BY <1>9 DEF FindRequest, WorkerAt, NothingSaved, storeVars
    <2>2. CASE Return(w)
      BY <2>1, <2>2, <1>6 DEF Turn, Drops
    <2>3. CASE ~Return(w)
      <3>1. /\ worker' = [worker EXCEPT ![w].pc = "findSuccess",
                                        ![w].entity = request[worker[w].req]]
            /\ UNCHANGED overtaken
        BY <1>9, <2>3 DEF FindRequest
      <3>2. GoesTo(w, {"findSuccess"}) /\ worker'[w].entity = request[worker[w].req]
        BY <3>1, <1>5
      <3> QED BY <2>1, <3>2 DEF Turn, ReadsRequest
    <2> QED BY <2>2, <2>3
  <1>10. CASE FindSuccess(w)
    <2>1. WorkerAt(w, "findSuccess") /\ ~WorkerAt(w, "idle") /\ NothingSaved
      BY <1>10 DEF FindSuccess, WorkerAt, NothingSaved, storeVars
    <2>2. CASE Return(w)
      BY <2>1, <2>2, <1>6 DEF Turn, Drops
    <2>3. CASE ~Return(w)
      <3>1. WorkerGoto(w, "createDispatch") /\ DispatchesOf(worker[w].req, "SUCCESS") = {}
            /\ UNCHANGED overtaken
        BY <1>10, <2>3 DEF FindSuccess
      <3>2. worker'[w].entity = worker[w].entity /\ GoesTo(w, {"createDispatch"})
        BY <3>1, <1>3, <1>4 DEF WorkerGoto, WorkerRecord, Goes
      <3> QED BY <2>1, <3>1, <3>2 DEF Turn, ReadsNoSuccess
    <2> QED BY <2>2, <2>3
  <1>11. CASE CreateDispatch(w)
    <2>1. WorkerAt(w, "createDispatch") /\ worker[w].req \in Requests
      BY <1>11, <1>3 DEF CreateDispatch, WorkerAt
    <2>2. Inserts(worker[w].req)
      BY <1>11, <2>1, RowInserted DEF CreateDispatch
    <2>3. GoesTo(w, {"logRequest"}) /\ worker'[w].id = NextId /\ KeepsChannel(w)
      BY <1>11, <1>3 DEF CreateDispatch, GoesTo, NextId, KeepsChannel, WorkerRecord
    <2> QED BY <1>11, <2>1, <2>2, <2>3 DEF CreateDispatch, Creates, Turn
  <1>12. CASE WriteLog(w)
    <2>1. NothingSaved /\ UNCHANGED overtaken
      BY <1>12 DEF WriteLog, NothingSaved, storeVars
    <2>2. CASE WorkerAt(w, "logRequest") /\ WorkerGoto(w, "saveSuccess")
      BY <2>1, <2>2, <1>4 DEF Reads, Turn
    <2>3. CASE WorkerAt(w, "logSuccess") /\ WorkerGoto(w, "saveCompleted")
      BY <2>1, <2>3, <1>4 DEF Reads, Turn
    <2>4. CASE WorkerAt(w, "logFail") /\ WorkerGoto(w, "saveRequestFailed")
      BY <2>1, <2>4, <1>4 DEF Reads, Turn
    <2> QED BY <1>12, <2>2, <2>3, <2>4 DEF WriteLog
  <1>13. CASE SaveSuccess(w)
    <2>1. WorkerAt(w, "saveSuccess") /\ HasRow(w)
      BY <1>13 DEF SaveSuccess, WorkerAt, HasRow
    <2>2. Saves(worker[w].id, "SUCCESS", 0) /\ UNCHANGED <<request, overtaken>>
      BY <1>13, <2>1, HandlerSaves DEF SaveSuccess
    <2>3. Goes(w, {"logSuccess"})
      BY <1>13, <2>2, <1>4 DEF SaveSuccess
    <2> QED BY <2>1, <2>2, <2>3 DEF Goes, GoesTo, Succeeds, Turn
  <1>14. CASE SaveCompleted(w)
    BY <1>14, <1>6 DEF SaveCompleted, Completes, Turn
  <1>15. CASE TryFails(w)
    <2>1. UNCHANGED overtaken /\ worker[w].pc \in {"saveSuccess", "logSuccess", "saveCompleted"} /\ HasRow(w)
      BY <1>15 DEF TryFails, WorkerAt, HasRow
    <2>0. CompletedEntity(w).channel = worker[w].entity.channel
      BY <1>3 DEF CompletedEntity, WorkerRecord, RequestRow
    <2>2. PICK row : Caught(w, row) /\ row.channel = worker[w].entity.channel
      BY <1>15, <2>0 DEF TryFails
    <2>3. /\ Goes(w, {"saveRetry", "saveFailed"})
          /\ worker'[w].pc = "saveFailed" => ~CanRetry(w)
      BY <2>1, <2>2, <1>5 DEF Caught, Goes, GoesTo
    <2>4. CASE WorkerAt(w, "saveSuccess")
      <3>1. UNCHANGED request /\ (dispatch' = dispatch \/ dispatch' = SucceededDispatch(w))
        BY <1>15, <2>4 DEF TryFails, WorkerAt, AfterFailedSave
      <3>2. dispatch' = dispatch => Turn(w)
        BY <2>1, <2>3, <3>1 DEF Catches, Turn
      <3>3. Goes(w, {"logSuccess", "saveRetry", "saveFailed"})
        BY <2>3 DEF Goes, GoesTo
      <3>4. dispatch' = SucceededDispatch(w) => Turn(w)
        BY <2>1, <2>3, <2>4, <3>1, <3>3, HandlerSaves DEF Succeeds, Turn
      <3> QED BY <3>1, <3>2, <3>4
    <2>5. CASE ~WorkerAt(w, "saveSuccess")
      <3>1. /\ UNCHANGED dispatch
            /\ \/ UNCHANGED request
               \/ /\ WorkerAt(w, "saveCompleted") /\ DbLosesAck
                  /\ request' = CompletedRequest(w)
        BY <1>15, <2>5 DEF TryFails, AfterFailedSave
      <3> QED BY <2>1, <2>3, <3>1 DEF Catches, Turn
    <2> QED BY <2>4, <2>5
  <1>16. CASE SaveRetry(w)
    <2>1. WorkerAt(w, "saveRetry") /\ HasRow(w)
      BY <1>16 DEF SaveRetry, WorkerAt, HasRow
    <2>2. Saves(worker[w].id, "RETRY_WAIT", 1) /\ Goes(w, {"logRetry"}) /\ UNCHANGED request
      BY <1>16, <2>1, <1>4, HandlerSaves DEF SaveRetry
    <2> QED BY <2>1, <2>2 DEF Waits, Turn
  <1>17. CASE SaveFailed(w)
    <2>1. WorkerAt(w, "saveFailed") /\ HasRow(w)
      BY <1>17 DEF SaveFailed, WorkerAt, HasRow
    <2>2. Saves(worker[w].id, "FAILED", 0) /\ Goes(w, {"logFail"}) /\ UNCHANGED request
      BY <1>17, <2>1, <1>4, HandlerSaves DEF SaveFailed
    <2> QED BY <2>1, <2>2 DEF GivesUp, Turn
  <1>18. CASE SaveRequestFailed(w)
    BY <1>18, <1>4 DEF SaveRequestFailed, FailsRequest, Turn
  <1>19. CASE LogRetry(w) \/ PublishDlq(w) \/ WorkerCrash(w)
    <2>1. ~WorkerAt(w, "idle") /\ NothingSaved
      BY <1>19 DEF LogRetry, PublishDlq, WorkerCrash, WorkerAt, NothingSaved, storeVars
    <2>2. Leaves(w)
      BY <1>19, <1>3, <1>6 DEF LogRetry, PublishDlq, WorkerCrash, Leaves
    <2> QED BY <2>1, <2>2 DEF Drops, Turn
  <1>20. CASE EventFails(w)
    <2>1. Leaves(w) /\ ~WorkerAt(w, "idle")
      BY <1>20, <1>6 DEF EventFails, WorkerAt
    <2>2. NothingSaved => Turn(w)
      BY <2>1 DEF Drops, Turn
    <2>3. CASE worker[w].pc \in {"findRequest", "findSuccess", "logRequest", "logFail"}
      BY <1>20, <2>2, <2>3 DEF EventFails, NothingSaved, WorkerAt
    <2>4. CASE WorkerAt(w, "createDispatch")
      <3>1. /\ UNCHANGED request
            /\ \/ dispatch' = dispatch
               \/ dispatch' = Append(dispatch, NewDispatch(worker[w].req))
        BY <1>20, <2>4 DEF EventFails, WorkerAt, AfterFailedSave
      <3>2. dispatch' = Append(dispatch, NewDispatch(worker[w].req)) => Turn(w)
        BY <1>3, <2>1, <2>4, <3>1, RowInserted DEF Creates, Turn
      <3> QED BY <2>2, <3>1, <3>2 DEF NothingSaved
    <2>5. CASE WorkerAt(w, "saveRetry")
      <3>1. UNCHANGED request /\ (dispatch' = dispatch \/ dispatch' = WaitingDispatch(w))
        BY <1>20, <2>5 DEF EventFails, WorkerAt, AfterFailedSave
      <3>2. dispatch' = WaitingDispatch(w) => Turn(w)
        BY <2>1, <2>5, <3>1, HandlerSaves DEF Waits, Turn, HasRow, WorkerAt
      <3> QED BY <2>2, <3>1, <3>2 DEF NothingSaved
    <2>6. CASE WorkerAt(w, "saveFailed")
      <3>1. UNCHANGED request /\ (dispatch' = dispatch \/ dispatch' = FailedDispatch(w))
        BY <1>20, <2>6 DEF EventFails, WorkerAt, AfterFailedSave
      <3>2. dispatch' = FailedDispatch(w) => Turn(w)
        BY <2>1, <2>6, <3>1, HandlerSaves DEF GivesUp, Turn, HasRow, WorkerAt
      <3> QED BY <2>2, <3>1, <3>2 DEF NothingSaved
    <2>7. CASE WorkerAt(w, "saveRequestFailed")
      BY <1>20, <2>1, <2>2, <2>7 DEF EventFails, WorkerAt, AfterFailedSave, NothingSaved, FailsRequest, Turn
    <2> QED BY <1>20, <2>3, <2>4, <2>5, <2>6, <2>7 DEF EventFails
  <1>21. CASE Rebalance(w)
    BY <1>21 DEF Rebalance, Loses, NothingSaved, Turn
  <1> QED
    BY <1>1, <1>7, <1>8, <1>9, <1>10, <1>11, <1>12, <1>13, <1>14, <1>15, <1>16, <1>17,
       <1>18, <1>19, <1>20, <1>21 DEF WorkerStep, Turn

-----------------------------------------------------------------------------
(***************************************************************************)
(* The turns of a scheduler run.                                           *)
(***************************************************************************)
RunStarts(t) ==
    /\ \A i \in retry'[t].batch : i \in DOMAIN dispatch /\ dispatch[i].status = "RETRY_WAIT"
    /\ retry'[t].pc # "saveProcessing"
    /\ UNCHANGED <<dispatch, topic>>

RunGoesOn(t) ==
    /\ retry'[t].batch \subseteq retry[t].batch
    /\ retry'[t].pc # "saveProcessing"
    /\ UNCHANGED topic
    /\ \/ UNCHANGED dispatch
       \/ /\ retry[t].id \in retry[t].batch
          /\ \/ RetryAt(t, "markFailed") /\ Saves(retry[t].id, "FAILED", 0)
             \/ RetryAt(t, "saveProcessing") /\ Saves(retry[t].id, "PROCESSING", 0)

RunSends(t) ==
    /\ RetryAt(t, "publish") /\ retry[t].id \in retry[t].batch
    /\ retry'[t].batch \subseteq retry[t].batch
    /\ retry'[t].pc = "saveProcessing" => retry'[t].id = retry[t].id
    /\ topic' = Appended(RetryRequest(t))
    /\ UNCHANGED dispatch

RunTurn(t) == RunStarts(t) \/ RunGoesOn(t) \/ RunSends(t)

LEMMA RetryTurns ==
    ASSUME TypeOK, RetryNext
    PROVE  /\ UNCHANGED request
           /\ \E t \in RetryTicks : /\ \A u \in RetryTicks \ {t} : retry'[u] = retry[u]
                                    /\ RunTurn(t)
  <1> USE DEF TypeOK
  <1>1. PICK t \in RetryTicks : RetryStep(t) \/ RetryCrash(t)
    BY DEF RetryNext
  <1>2. retry \in [RetryTicks -> RetryRecord]
    BY DEF RetryTypeOK
  <1>3. UNCHANGED request
    BY <1>1
    DEF RetryStep, RetryFind, LoadEvent, MarkFailed, RetryPublish, SaveProcessing,
        RetryFails, RetryCrash, storeVars
  <1>4. \A u \in RetryTicks \ {t} : retry'[u] = retry[u]
    BY <1>1, <1>2
    DEF RetryStep, RetryFind, LoadEvent, MarkFailed, RetryPublish, SaveProcessing,
        RetryFails, RetryCrash, RetryGoto, NextDispatch
  <1> SUFFICES RunTurn(t)
    BY <1>3, <1>4
  <1>6. NextDispatch(t) =>
           retry'[t].batch \subseteq retry[t].batch /\ retry'[t].pc # "saveProcessing"
    BY <1>2 DEF NextDispatch, RetryIdle
  <1>7. ~RetryAt(t, "idle") => retry[t].id \in retry[t].batch
    BY DEF RetryTypeOK, RetryAt
  <1>8. ASSUME NEW pc, RetryGoto(t, pc)
        PROVE  /\ retry'[t].pc = pc /\ retry'[t].batch = retry[t].batch
               /\ retry'[t].id = retry[t].id
    BY <1>2, <1>8 DEF RetryGoto, RetryRecord
  <1>9. CASE RetryFind(t)
    <2>1. PICK B \in SUBSET Due : \E i \in B :
             retry' = [retry EXCEPT ![t] = [pc |-> "load", batch |-> B, id |-> i]]
      BY <1>9 DEF RetryFind
    <2>2. retry'[t].batch = B /\ retry'[t].pc = "load"
      BY <1>2, <2>1
    <2> QED BY <1>9, <2>2 DEF RetryFind, Due, storeVars, RunTurn, RunStarts
  <1>10. CASE LoadEvent(t)
    <2>1. PICK pc \in {"publish", "markFailed"} : RetryGoto(t, pc)
      BY <1>10 DEF LoadEvent
    <2> QED BY <1>10, <1>8, <2>1 DEF LoadEvent, storeVars, RunTurn, RunGoesOn
  <1>11. CASE MarkFailed(t)
    <2>1. RetryAt(t, "markFailed") /\ ~RetryAt(t, "idle")
      BY <1>11 DEF MarkFailed, RetryAt
    <2> QED BY <1>11, <1>6, <1>7, <2>1, RunSaves DEF MarkFailed, RunTurn, RunGoesOn
  <1>12. CASE RetryPublish(t)
    <2>1. RetryAt(t, "publish") /\ ~RetryAt(t, "idle")
      BY <1>12 DEF RetryPublish, RetryAt
    <2> QED BY <1>12, <1>7, <1>8, <2>1 DEF RetryPublish, RunTurn, RunSends
  <1>13. CASE SaveProcessing(t)
    <2>1. RetryAt(t, "saveProcessing") /\ ~RetryAt(t, "idle")
      BY <1>13 DEF SaveProcessing, RetryAt
    <2> QED BY <1>13, <1>6, <1>7, <2>1, RunSaves DEF SaveProcessing, RunTurn, RunGoesOn
  <1>14. CASE RetryFails(t)
    <2>1. /\ ~RetryAt(t, "idle")
          /\ retry'[t].batch \subseteq retry[t].batch /\ retry'[t].pc # "saveProcessing"
          /\ retry[t].id \in retry[t].batch
      BY <1>14, <1>6, <1>7 DEF RetryFails, RetryAt
    <2>2. CASE UNCHANGED <<dispatch, topic>>
      BY <2>1, <2>2 DEF RunTurn, RunGoesOn
    <2>3. CASE RetryAt(t, "markFailed") /\ dispatch' = MissingDispatch(t) /\ UNCHANGED topic
      BY <2>1, <2>3, RunSaves DEF RunTurn, RunGoesOn
    <2>4. CASE RetryAt(t, "publish") /\ topic' = Appended(RetryRequest(t)) /\ UNCHANGED dispatch
      BY <2>1, <2>4 DEF RunTurn, RunSends
    <2>5. CASE /\ RetryAt(t, "saveProcessing") /\ dispatch' = RescheduledDispatch(t)
               /\ UNCHANGED topic
      BY <2>1, <2>5, RunSaves DEF RunTurn, RunGoesOn
    <2> QED
      BY <1>14, <2>2, <2>3, <2>4, <2>5 DEF RetryFails, AfterFailedSave, AfterFailedSend
  <1>15. CASE RetryCrash(t)
    <2>1. retry'[t].batch = {} /\ retry'[t].pc = "idle"
      BY <1>2, <1>15 DEF RetryCrash, RetryIdle
    <2> QED BY <1>15, <2>1 DEF RetryCrash, RunTurn, RunGoesOn
  <1> QED BY <1>1, <1>9, <1>10, <1>11, <1>12, <1>13, <1>14, <1>15 DEF RetryStep

-----------------------------------------------------------------------------
(***************************************************************************)
(* RowsInv is inductive.                                                   *)
(***************************************************************************)
\* Nobody writes a row or moves, and no event leaves the topic.
LEMMA RowsFrame ==
    ASSUME TypeOK, RowsInv, Rests, UNCHANGED <<worker, retry>>, Grows
    PROVE  RowsInv'
  <1>1. \A w \in Workers : HasRow(w) => worker[w].id \in DOMAIN dispatch
    BY DEF TypeOK, WorkerTypeOK
  <1>2. \A t \in RetryTicks : retry[t].batch \subseteq DOMAIN dispatch
    BY DEF TypeOK, RetryTypeOK
  <1>3. \A i \in DOMAIN dispatch : dispatch[i].req \in Requests
    BY RowTyping DEF TypeOK, DispatchRow
  <1>4. RowsHaveOneHandler'
    BY DEF RowsInv, RowsHaveOneHandler, HasRow
  <1>5. RowsFollowHandlers'
    BY <1>1 DEF RowsInv, RowsFollowHandlers, FollowsRow, HasRow, Rests, Keeps
  <1>6. WaitingIsCounted'
    BY DEF RowsInv, WaitingIsCounted, Rests, Keeps
  <1>7. BatchesAreOfNobody'
    BY <1>2 DEF RowsInv, BatchesAreOfNobody, Owns, WorkerAt, HasRow, Rests, Keeps
  <1>8. RowsArePublished'
    BY <1>3 DEF RowsInv, RowsArePublished, Grows, Rests, Keeps, Published
  <1> QED BY <1>4, <1>5, <1>6, <1>7, <1>8 DEF RowsInv

\* A run takes waiting rows, which no handler writes any more, and gives no
\* row the status SUCCESS.
LEMMA RetryRows ==
    ASSUME TypeOK, RowsInv, RetryNext, Grows, UNCHANGED worker
    PROVE  RowsInv'
  <1> USE DEF TypeOK
  <1>1. PICK t \in RetryTicks : /\ \A u \in RetryTicks \ {t} : retry'[u] = retry[u]
                                /\ RunTurn(t)
    BY RetryTurns
  <1>2. \A w \in Workers : HasRow(w) => worker[w].id \in DOMAIN dispatch
    BY DEF WorkerTypeOK
  <1>3. \A u \in RetryTicks : retry[u].batch \subseteq DOMAIN dispatch
    BY DEF RetryTypeOK
  <1>4. \A i \in DOMAIN dispatch : /\ dispatch[i].req \in Requests
                                   /\ dispatch[i].retryCount \in Nat
    BY RowTyping DEF DispatchRow
  <1>5. \/ UNCHANGED dispatch
        \/ \E i \in retry[t].batch, status \in {"FAILED", "PROCESSING"} : Saves(i, status, 0)
    BY <1>1 DEF RunTurn, RunStarts, RunGoesOn, RunSends
  <1>6. \A i \in retry'[t].batch :
           i \in retry[t].batch \/ (i \in DOMAIN dispatch /\ dispatch[i].status = "RETRY_WAIT")
    BY <1>1 DEF RunTurn, RunStarts, RunGoesOn, RunSends
  <1>7. /\ DOMAIN dispatch' = DOMAIN dispatch
        /\ \A i \in DOMAIN dispatch :
              /\ dispatch'[i].req = dispatch[i].req
              /\ dispatch'[i].retryCount = dispatch[i].retryCount
              /\ \/ dispatch'[i].status = dispatch[i].status
                 \/ /\ i \in retry[t].batch
                    /\ dispatch'[i].status \in {"FAILED", "PROCESSING"}
    BY <1>3, <1>4, <1>5 DEF Saves, Keeps
  <1>8. RowsHaveOneHandler'
    BY DEF RowsInv, RowsHaveOneHandler, HasRow
  <1>9. RowsFollowHandlers'
    <2> SUFFICES ASSUME NEW w \in Workers, HasRow(w) PROVE FollowsRow(w)'
      BY DEF RowsFollowHandlers, HasRow
    <2>1. PICK i \in DOMAIN dispatch : i = worker[w].id
      BY <1>2
    <2>2. FollowsRow(w)
      BY DEF RowsInv, RowsFollowHandlers
    <2>3. CASE i \notin retry[t].batch
      BY <1>7, <2>1, <2>2, <2>3 DEF FollowsRow
    <2>4. CASE i \in retry[t].batch
      <3>1. worker[w].pc = "logRetry"
        BY <2>1, <2>4 DEF RowsInv, BatchesAreOfNobody, Owns, WorkerAt
      <3> QED BY <1>7, <2>1, <2>2, <3>1 DEF FollowsRow
    <2> QED BY <2>3, <2>4
  <1>10. WaitingIsCounted'
    BY <1>7 DEF RowsInv, WaitingIsCounted
  <1>11. \A i \in DOMAIN dispatch, w \in Workers : dispatch[i].status = "RETRY_WAIT" => ~Owns(w, i)
    BY DEF RowsInv, RowsFollowHandlers, FollowsRow, Owns, WorkerAt, HasRow, WorkerTypeOK,
           WorkerRecord, WorkerPc
  <1>12. BatchesAreOfNobody'
    <2> SUFFICES ASSUME NEW u \in RetryTicks, NEW i \in retry'[u].batch
                 PROVE  /\ dispatch'[i].status # "SUCCESS" /\ dispatch'[i].retryCount > 0
                        /\ \A w \in Workers : ~Owns(w, i)'
      BY DEF BatchesAreOfNobody
    <2>1. /\ i \in DOMAIN dispatch
          /\ dispatch[i].status # "SUCCESS" /\ dispatch[i].retryCount > 0
          /\ \A w \in Workers : ~Owns(w, i)
      BY <1>1, <1>3, <1>6, <1>11 DEF RowsInv, BatchesAreOfNobody, WaitingIsCounted
    <2> QED BY <1>7, <2>1 DEF Owns, WorkerAt, HasRow
  <1>13. RowsArePublished'
    BY <1>4, <1>7 DEF RowsInv, RowsArePublished, Grows, Published
  <1> QED BY <1>8, <1>9, <1>10, <1>12, <1>13 DEF RowsInv

\* Every row stays in the table, and only those w may write change.
WritesOwn(w) ==
    /\ DOMAIN dispatch \subseteq DOMAIN dispatch'
    /\ \A i \in DOMAIN dispatch : dispatch'[i].req = dispatch[i].req
    /\ \A i \in DOMAIN dispatch : ~Owns(w, i) => Keeps(i)

LEMMA TableOwner ==
    ASSUME TypeOK, NEW w \in Workers
    PROVE  /\ UNCHANGED dispatch => WritesOwn(w) /\ DOMAIN dispatch' = DOMAIN dispatch
           /\ \A r : Inserts(r) => WritesOwn(w)
           /\ \A status, n :
                 /\ HasRow(w) /\ ~WorkerAt(w, "logRetry")
                 /\ Saves(worker[w].id, status, n)
                 => WritesOwn(w)
  BY DEF WritesOwn, Inserts, Saves, Keeps, Owns

\* One handler moves, on its row or to a new one.
LEMMA HandlerMoves ==
    ASSUME TypeOK, RowsInv, Grows, UNCHANGED retry, NEW w \in Workers,
           \A v \in Workers \ {w} : worker'[v] = worker[v],
           WritesOwn(w),
           \A i \in DOMAIN dispatch' :
              Owns(w, i) \/ i \notin DOMAIN dispatch =>
                 /\ dispatch'[i].status = "RETRY_WAIT" => dispatch'[i].retryCount > 0
                 /\ Published(dispatch[i].req)',
           HasRow(w)' => /\ FollowsRow(w)'
                         /\ worker'[w].id \in DOMAIN dispatch => Owns(w, worker'[w].id)
    PROVE  RowsInv'
  <1>1. \A v \in Workers : HasRow(v) => worker[v].id \in DOMAIN dispatch
    BY DEF TypeOK, WorkerTypeOK
  <1>2. \A t \in RetryTicks : retry[t].batch \subseteq DOMAIN dispatch
    BY DEF TypeOK, RetryTypeOK
  <1>3. \A i \in DOMAIN dispatch : dispatch[i].req \in Requests
    BY RowTyping DEF TypeOK, DispatchRow
  <1>4. \A v \in Workers \ {w} : HasRow(v)' <=> HasRow(v)
    BY DEF HasRow
  <1>5. \A v \in Workers \ {w} : HasRow(v) => ~Owns(w, worker[v].id)
    BY DEF RowsInv, RowsHaveOneHandler, Owns
  <1>6. \A v \in Workers \ {w} : HasRow(v) /\ HasRow(w)' => worker'[w].id # worker[v].id
    BY <1>1, <1>5
  <1>7. RowsHaveOneHandler'
    BY <1>4, <1>6 DEF RowsInv, RowsHaveOneHandler
  <1>8. RowsFollowHandlers'
    <2> SUFFICES ASSUME NEW v \in Workers \ {w}, HasRow(v) PROVE FollowsRow(v)'
      BY <1>4 DEF RowsFollowHandlers
    <2>1. Keeps(worker[v].id) /\ FollowsRow(v)
      BY <1>1, <1>5 DEF WritesOwn, RowsInv, RowsFollowHandlers
    <2> QED BY <2>1 DEF Keeps, FollowsRow
  <1>9. WaitingIsCounted'
    BY DEF RowsInv, WaitingIsCounted, WritesOwn, Keeps
  <1>10. BatchesAreOfNobody'
    <2> SUFFICES ASSUME NEW t \in RetryTicks, NEW i \in retry[t].batch
                 PROVE  /\ dispatch'[i].status # "SUCCESS" /\ dispatch'[i].retryCount > 0
                        /\ \A v \in Workers : ~Owns(v, i)'
      BY DEF BatchesAreOfNobody
    <2>1. /\ i \in DOMAIN dispatch /\ \A v \in Workers : ~Owns(v, i)
          /\ dispatch[i].status # "SUCCESS" /\ dispatch[i].retryCount > 0
      BY <1>2 DEF RowsInv, BatchesAreOfNobody
    <2>2. \A v \in Workers \ {w} : ~Owns(v, i)'
      BY <2>1 DEF Owns, WorkerAt, HasRow
    <2>3. ~Owns(w, i)'
      BY <2>1 DEF Owns
    <2> QED BY <2>1, <2>2, <2>3 DEF WritesOwn, Keeps
  <1>11. RowsArePublished'
    BY <1>3 DEF RowsInv, RowsArePublished, WritesOwn, Keeps, Grows, Published
  <1> QED BY <1>7, <1>8, <1>9, <1>10, <1>11 DEF RowsInv

\* A handler returns, or dies.
LEMMA HandlerLeaves ==
    ASSUME TypeOK, NEW w \in Workers, Leaves(w)
    PROVE  ~HasRow(w)'
  BY DEF Leaves, WorkerIdle, HasRow

LEMMA WorkerRows ==
    ASSUME TypeOK, RowsInv, HandlersHoldEvents, Grows, WorkerNext, UNCHANGED retry
    PROVE  RowsInv'
  <1>1. PICK w \in Workers : /\ \A v \in Workers \ {w} : worker'[v] = worker[v]
                             /\ Turn(w)
    BY WorkerTurns
  <1>2. HasRow(w) => /\ worker[w].id \in DOMAIN dispatch /\ FollowsRow(w)
                     /\ dispatch[worker[w].id] \in DispatchRow
                     /\ dispatch[worker[w].id].retryCount \in Nat
                     /\ Published(dispatch[worker[w].id].req)
    BY RowTyping DEF TypeOK, WorkerTypeOK, RowsInv, RowsFollowHandlers, RowsArePublished
  <1>3. \A i \in DOMAIN dispatch : dispatch[i].req \in Requests
    BY RowTyping DEF TypeOK, DispatchRow
  <1>4. ASSUME UNCHANGED dispatch,
               HasRow(w)' => /\ FollowsRow(w)'
                             /\ HasRow(w) /\ ~WorkerAt(w, "logRetry")
                             /\ worker'[w].id = worker[w].id
        PROVE  RowsInv'
    <2>1. WritesOwn(w)
      BY <1>4, TableOwner
    <2>2. \A i \in DOMAIN dispatch' :
             /\ dispatch'[i].status = "RETRY_WAIT" => dispatch'[i].retryCount > 0
             /\ Published(dispatch[i].req)'
      BY <1>3, <1>4 DEF RowsInv, WaitingIsCounted, RowsArePublished, Grows, Published
    <2> QED BY <1>1, <1>4, <2>1, <2>2, HandlerMoves DEF Owns
  <1>5. ASSUME HasRow(w), ~WorkerAt(w, "logRetry"),
               NEW status, NEW n, Saves(worker[w].id, status, n),
               status = "RETRY_WAIT" => n = 1,
               HasRow(w)' => FollowsRow(w)' /\ worker'[w].id = worker[w].id
        PROVE  RowsInv'
    <2>1. WritesOwn(w) /\ DOMAIN dispatch' = DOMAIN dispatch
      BY <1>5, TableOwner DEF Saves
    <2>2. \A i \in DOMAIN dispatch' : Owns(w, i) =>
             /\ dispatch'[i].status = "RETRY_WAIT" => dispatch'[i].retryCount > 0
             /\ Published(dispatch[i].req)'
      BY <1>2, <1>3, <1>5, <2>1 DEF Saves, Owns, Grows, Published
    <2> QED BY <1>1, <1>5, <2>1, <2>2, HandlerMoves DEF Owns
  <1>6. CASE Stays(w) \/ Loses(w)
    <2>1. UNCHANGED dispatch /\ \A v \in Workers : /\ worker'[v].pc = worker[v].pc
                                                  /\ worker'[v].req = worker[v].req
                                                  /\ worker'[v].id = worker[v].id
      BY <1>6 DEF Stays, Loses, NothingSaved, TypeOK, WorkerTypeOK, WorkerRecord
    <2> QED
      BY <2>1, <1>3 DEF RowsInv, RowsHaveOneHandler, RowsFollowHandlers, FollowsRow, HasRow,
                   WaitingIsCounted, BatchesAreOfNobody, Owns, WorkerAt, RowsArePublished,
                   Grows, Published
  <1>7. CASE Drops(w) \/ Completes(w)
    BY <1>4, <1>7, HandlerLeaves DEF Drops, Completes, NothingSaved
  <1>8. CASE ReadsRequest(w) \/ ReadsNoSuccess(w) \/ \E r \in Requests : Takes(w, r)
    <2>1. UNCHANGED dispatch /\ ~HasRow(w)'
      BY <1>8 DEF ReadsRequest, ReadsNoSuccess, Takes, GoesTo, NothingSaved, HasRow
    <2> QED BY <2>1, <1>4
  <1>9. CASE Reads(w) \/ Catches(w)
    <2>1. /\ UNCHANGED dispatch /\ HasRow(w) /\ ~WorkerAt(w, "logRetry")
          /\ worker'[w].id = worker[w].id
      BY <1>9 DEF Reads, Catches, Goes, NothingSaved, HasRow, WorkerAt
    <2>2. FollowsRow(w)'
      BY <1>2, <1>9, <2>1 DEF Reads, Catches, Goes, GoesTo, WorkerAt, FollowsRow
    <2> QED BY <2>1, <2>2, <1>4
  <1>10. CASE Creates(w)
    <2>1. PICK r \in Requests : r = worker[w].req /\ Published(r) /\ Inserts(r)
      BY <1>10 DEF Creates, WorkerAt, TypeOK, WorkerTypeOK, HandlersHoldEvents
    <2>2. WritesOwn(w)
      BY <2>1, TableOwner
    <2>3. ~HasRow(w) /\ \A i : ~Owns(w, i)
      BY <1>10 DEF Creates, WorkerAt, HasRow, Owns
    <2>4. \A i \in DOMAIN dispatch' : i \notin DOMAIN dispatch =>
             /\ dispatch'[i].status # "RETRY_WAIT"
             /\ Published(dispatch[i].req)'
      BY <2>1 DEF Inserts, NewDispatch, Grows, Published
    <2>5. HasRow(w)' => FollowsRow(w)' /\ worker'[w].id \notin DOMAIN dispatch
      <3>1. CASE Leaves(w)
        BY <3>1, HandlerLeaves
      <3>2. CASE GoesTo(w, {"logRequest"}) /\ worker'[w].id = NextId
        BY <2>1, <3>2 DEF GoesTo, Inserts, NewDispatch, FollowsRow
      <3> QED BY <1>10, <3>1, <3>2 DEF Creates
    <2> QED BY <1>1, <2>2, <2>3, <2>4, <2>5, HandlerMoves
  <1>11. CASE Succeeds(w)
    <2>1. /\ HasRow(w) /\ ~WorkerAt(w, "logRetry") /\ worker'[w].id = worker[w].id
          /\ Saves(worker[w].id, "SUCCESS", 0)
      BY <1>11 DEF Succeeds, Goes, HasRow, WorkerAt
    <2>2. FollowsRow(w)'
      BY <1>2, <1>11, <2>1 DEF Succeeds, Goes, GoesTo, WorkerAt, Saves, FollowsRow
    <2> QED BY <2>1, <2>2, <1>5
  <1>12. CASE Waits(w)
    <2>1. HasRow(w) /\ ~WorkerAt(w, "logRetry") /\ Saves(worker[w].id, "RETRY_WAIT", 1)
      BY <1>12 DEF Waits, HasRow, WorkerAt
    <2>2. HasRow(w)' => FollowsRow(w)' /\ worker'[w].id = worker[w].id
      BY <1>2, <1>12, <2>1, HandlerLeaves
      DEF Waits, Goes, GoesTo, WorkerAt, Saves, FollowsRow
    <2> QED BY <2>1, <2>2, <1>5
  <1>13. CASE GivesUp(w)
    <2>1. HasRow(w) /\ ~WorkerAt(w, "logRetry") /\ Saves(worker[w].id, "FAILED", 0)
      BY <1>13 DEF GivesUp, HasRow, WorkerAt
    <2>2. HasRow(w)' => FollowsRow(w)' /\ worker'[w].id = worker[w].id
      BY <1>2, <1>13, <2>1, HandlerLeaves
      DEF GivesUp, Goes, GoesTo, WorkerAt, Saves, FollowsRow
    <2> QED BY <2>1, <2>2, <1>5
  <1>14. CASE FailsRequest(w)
    <2>1. HasRow(w) /\ ~WorkerAt(w, "logRetry") /\ UNCHANGED dispatch
      BY <1>14 DEF FailsRequest, HasRow, WorkerAt
    <2>2. HasRow(w)' => FollowsRow(w)' /\ worker'[w].id = worker[w].id
      BY <1>2, <1>14, <2>1, HandlerLeaves DEF FailsRequest, Goes, GoesTo, WorkerAt, FollowsRow
    <2> QED BY <2>1, <2>2, <1>4
  <1> QED
    BY <1>1, <1>6, <1>7, <1>8, <1>9, <1>10, <1>11, <1>12, <1>13, <1>14 DEF Turn

-----------------------------------------------------------------------------
(***************************************************************************)
(* The invariant.                                                          *)
(***************************************************************************)
DispatchInv == IntakeInv /\ RowsInv

LEMMA StepGrows ==
    ASSUME IntakeInv, [Next]_vars
    PROVE  Grows
  <1> USE DEF IntakeInv
  <1>1. CASE \/ DlqNext /\ UNCHANGED <<send, relay, retry, workerVars, walk>>
             \/ EnvironmentNext /\ UNCHANGED <<send, relay, retry, workerVars, dlqVars, walk>>
             \/ AdminNext /\ UNCHANGED <<send, relay, retry, workerVars>>
             \/ UNCHANGED vars
    <2>1. UNCHANGED <<request, outbox, topic>>
      BY <1>1
      DEF DlqNext, DlqStep, SaveDlqEntry, SaveDlqEntryFails, DlqCrash, EnvironmentNext,
          AdminNext, PurgePayload, BackoffElapses, storeVars, vars
    <2> QED BY <2>1, NothingWritten
  <1> QED BY <1>1, GatewayIntake, RelayIntake, RetryIntake, WorkerIntake DEF Next

\* Only the workers, the scheduler and the clock write dispatch rows.
LEMMA OthersRest ==
    ASSUME TypeOK, [Next]_vars,
           ~(WorkerNext /\ UNCHANGED <<send, relay, retry, dlqVars, walk>>),
           ~(RetryNext /\ UNCHANGED <<send, relay, workerVars, dlqVars, walk>>)
    PROVE  Rests /\ UNCHANGED <<workerVars, retry>>
  <1> USE DEF TypeOK
  <1>1. CASE EnvironmentNext /\ UNCHANGED <<send, relay, retry, workerVars, dlqVars, walk>>
    BY <1>1, RowsRest, BackoffRests DEF EnvironmentNext, PurgePayload
  <1>2. CASE UNCHANGED vars
    BY <1>2, RowsRest DEF vars, storeVars
  <1>3. CASE AdminNext /\ UNCHANGED <<send, relay, retry, workerVars>>
    BY <1>3, RowsRest DEF AdminNext, storeVars
  <1> QED
    BY <1>1, <1>2, <1>3, GatewayTyping, RelayTyping, DlqTyping, RowsRest DEF Next

LEMMA DispatchInit == Init => DispatchInv
  <1> SUFFICES ASSUME Init PROVE RowsInv
    BY IntakeInit DEF DispatchInv
  <1>1. \A w \in Workers : worker[w].pc = "idle"
    BY DEF Init, WorkerInit, WorkerIdle
  <1>2. \A t \in RetryTicks : retry[t].batch = {}
    BY DEF Init, RetryInit, RetryIdle
  <1>3. DOMAIN dispatch = {}
    BY DEF Init, StoreInit
  <1> QED
    BY <1>1, <1>2, <1>3
    DEF RowsInv, RowsHaveOneHandler, RowsFollowHandlers, WaitingIsCounted,
        BatchesAreOfNobody, RowsArePublished, HasRow

LEMMA DispatchStep == DispatchInv /\ [Next]_vars => DispatchInv'
  <1> SUFFICES ASSUME DispatchInv, [Next]_vars PROVE RowsInv'
    BY IntakeStep DEF DispatchInv
  <1>1. TypeOK /\ HandlersHoldEvents /\ RowsInv /\ Grows
    BY StepGrows DEF DispatchInv, IntakeInv
  <1>2. CASE WorkerNext /\ UNCHANGED <<send, relay, retry, dlqVars, walk>>
    BY <1>1, <1>2, WorkerRows
  <1>3. CASE RetryNext /\ UNCHANGED <<send, relay, workerVars, dlqVars, walk>>
    BY <1>1, <1>3, RetryRows DEF workerVars
  <1> QED BY <1>1, <1>2, <1>3, OthersRest, RowsFrame DEF workerVars

LEMMA DispatchInvariance == Spec => []DispatchInv
  BY DispatchInit, DispatchStep, PTL DEF Spec

-----------------------------------------------------------------------------
(***************************************************************************)
(* Delivered rows.                                                         *)
(***************************************************************************)
\* A SUCCESS row its handler is done with.
Final(i) == dispatch[i].status = "SUCCESS" /\ \A w \in Workers : ~Revisits(w, i)

\* A turn writes the row of its handler, and takes no row another one had.
LEMMA TurnOwner ==
    ASSUME TypeOK, NEW w \in Workers, Turn(w)
    PROVE  /\ WritesOwn(w)
           /\ \A i \in DOMAIN dispatch : Owns(w, i)' => Owns(w, i)
  <1>1. CASE Stays(w) \/ Loses(w)
    <2>1. /\ UNCHANGED dispatch /\ worker'[w].pc = worker[w].pc
          /\ worker'[w].id = worker[w].id
      BY <1>1 DEF Stays, Loses, NothingSaved, TypeOK, WorkerTypeOK, WorkerRecord
    <2> QED BY <2>1, TableOwner DEF Owns, WorkerAt, HasRow
  <1>2. CASE Drops(w) \/ Completes(w)
    BY <1>2, TableOwner, HandlerLeaves DEF Drops, Completes, NothingSaved, Owns
  <1>3. CASE ReadsRequest(w) \/ ReadsNoSuccess(w) \/ \E r \in Requests : Takes(w, r)
    BY <1>3, TableOwner
    DEF ReadsRequest, ReadsNoSuccess, Takes, GoesTo, NothingSaved, Owns, HasRow
  <1>4. CASE Reads(w) \/ Catches(w)
    BY <1>4, TableOwner DEF Reads, Catches, Goes, NothingSaved, Owns, HasRow, WorkerAt
  <1>5. CASE Creates(w)
    <2>1. Inserts(worker[w].req) /\ WritesOwn(w)
      BY <1>5, TableOwner DEF Creates
    <2>2. ~HasRow(w)' \/ worker'[w].id = NextId
      BY <1>5, HandlerLeaves DEF Creates
    <2> QED BY <2>1, <2>2 DEF Owns, Inserts
  <1>6. CASE Succeeds(w) \/ Waits(w) \/ GivesUp(w)
    <2>1. HasRow(w) /\ ~WorkerAt(w, "logRetry")
      BY <1>6 DEF Succeeds, Waits, GivesUp, HasRow, WorkerAt
    <2>2. WritesOwn(w)
      BY <1>6, <2>1, TableOwner DEF Succeeds, Waits, GivesUp
    <2>3. ~HasRow(w)' \/ worker'[w].id = worker[w].id
      BY <1>6, HandlerLeaves DEF Succeeds, Waits, GivesUp, Goes
    <2> QED BY <2>1, <2>2, <2>3 DEF Owns
  <1>7. CASE FailsRequest(w)
    <2>1. HasRow(w) /\ ~WorkerAt(w, "logRetry") /\ UNCHANGED dispatch
      BY <1>7 DEF FailsRequest, HasRow, WorkerAt
    <2>2. ~HasRow(w)' \/ worker'[w].id = worker[w].id
      BY <1>7, HandlerLeaves DEF FailsRequest, Goes
    <2> QED BY <2>1, <2>2, TableOwner DEF Owns
  <1> QED BY <1>1, <1>2, <1>3, <1>4, <1>5, <1>6, <1>7 DEF Turn

\* What a scheduler run leaves alone.
LEMMA RunKeeps ==
    ASSUME TypeOK, NEW t \in RetryTicks, RunTurn(t)
    PROVE  /\ DOMAIN dispatch' = DOMAIN dispatch
           /\ \A i \in DOMAIN dispatch : i \notin retry[t].batch => Keeps(i)
           /\ \A i \in DOMAIN dispatch :
                 /\ dispatch'[i].req = dispatch[i].req
                 /\ dispatch'[i].status = "SUCCESS" => dispatch[i].status = "SUCCESS"
  BY DEF RunTurn, RunStarts, RunGoesOn, RunSends, Saves, Keeps

\* Whoever has a row to write finds it in a status that Final excludes.
LEMMA FinalStays ==
    ASSUME DispatchInv, [Next]_vars, NEW i \in DOMAIN dispatch, Final(i)
    PROVE  Final(i)' /\ i \in DOMAIN dispatch' /\ Keeps(i)
  <1> USE DEF DispatchInv, IntakeInv
  <1>1. \A w \in Workers : ~Owns(w, i)
    BY DEF Final, Revisits, RowsInv, RowsFollowHandlers, FollowsRow, Owns, HasRow, WorkerAt,
           TypeOK, WorkerTypeOK, WorkerRecord, WorkerPc
  <1>2. \A w \in Workers : Revisits(w, i)' => Owns(w, i)'
    BY DEF Revisits, Owns, HasRow, WorkerAt
  <1>3. CASE WorkerNext /\ UNCHANGED <<send, relay, retry, dlqVars, walk>>
    <2>1. PICK w \in Workers : /\ \A v \in Workers \ {w} : worker'[v] = worker[v]
                               /\ Turn(w)
      BY <1>3, WorkerTurns
    <2>2. WritesOwn(w) /\ ~Owns(w, i)'
      BY <1>1, <2>1, TurnOwner
    <2>3. \A v \in Workers : ~Owns(v, i)'
      BY <1>1, <2>1, <2>2 DEF Owns, WorkerAt, HasRow
    <2> QED BY <1>1, <1>2, <2>2, <2>3 DEF WritesOwn, Keeps, Final
  <1>4. CASE RetryNext /\ UNCHANGED <<send, relay, workerVars, dlqVars, walk>>
    <2>1. PICK t \in RetryTicks : RunTurn(t)
      BY <1>4, RetryTurns
    <2>2. i \notin retry[t].batch
      BY DEF Final, RowsInv, BatchesAreOfNobody
    <2>3. Keeps(i) /\ DOMAIN dispatch' = DOMAIN dispatch
      BY <2>1, <2>2, RunKeeps
    <2> QED BY <1>4, <2>3 DEF Keeps, Final, Revisits, workerVars
  <1>5. CASE Rests /\ UNCHANGED <<workerVars, retry>>
    BY <1>5 DEF Rests, Keeps, Final, Revisits, workerVars
  <1> QED BY <1>3, <1>4, <1>5, OthersRest

\* Once its handler is done with it, a SUCCESS row is SUCCESS for good: no other
\* handler writes it, and no scheduler run has it in a batch, however old.
THEOREM SuccessIsFinal == Spec => DeliveredIsFinal
  <1>1. DispatchInv /\ [Next]_vars =>
          [\A i \in DOMAIN dispatch :
              /\ dispatch[i].status = "SUCCESS"
              /\ \A w \in Workers : ~Revisits(w, i)
              => dispatch'[i].status = "SUCCESS"]_vars
    BY FinalStays DEF Final
  <1> QED BY <1>1, DispatchInvariance, PTL DEF Spec, DeliveredIsFinal

-----------------------------------------------------------------------------
(***************************************************************************)
(* Completed requests.                                                     *)
(***************************************************************************)
\* The gateway writes rows that are VALIDATED or QUEUED.
LEMMA GatewayWrites ==
    ASSUME TypeOK, GatewayNext, NEW r \in Requests
    PROVE  request'[r] = request[r] \/ request'[r].status \in {"VALIDATED", "QUEUED"}
  <1> USE DEF TypeOK
  <1>1. PICK s \in Sends : \/ \E q \in Requests : Receive(s, q)
                           \/ SendStep(s)
                           \/ GatewayCrash(s)
    BY DEF GatewayNext
  <1>2. QueuedEntity(s).status = "QUEUED" /\ \A c \in Channels : NewRow(c).status = "VALIDATED"
    BY DEF QueuedEntity, NewRow, GatewayTypeOK, SendRecord, RequestRow
  <1>3. \/ UNCHANGED request
        \/ request' = [request EXCEPT ![send[s].req] = QueuedEntity(s)]
        \/ \E c \in Channels : request' = [request EXCEPT ![send[s].req] = NewRow(c)]
    BY <1>1
    DEF SendStep, Receive, FindExisting, FindTemplate, FindAccess, FindVariables,
        ReadFails, Commit, CommitFails, CommitConflict, Publish, MarkPublished, MarkQueued, SendFails, FindPayload,
        Republish, RepublishFails, MarkRequeued, MarkRequeuedFails, GatewayCrash, storeVars,
        InsertRows, AfterFailedSave
  <1> QED BY <1>2, <1>3 DEF StoreTypeOK

\* Only the gateway and the workers write requests.
LEMMA OthersKeepRequests ==
    ASSUME TypeOK, [Next]_vars,
           ~(GatewayNext /\ UNCHANGED <<relay, retry, workerVars, dlqVars, walk>>),
           ~(WorkerNext /\ UNCHANGED <<send, relay, retry, dlqVars, walk>>)
    PROVE  UNCHANGED request
  <1>1. CASE RelayNext
    BY <1>1
    DEF RelayNext, RelayStep, RelayFind, RelayPublish, RelayPublishFails, RelaySave,
        RelaySaveFails, RelayCrash, storeVars
  <1>2. CASE DlqNext \/ EnvironmentNext
    BY <1>2
    DEF DlqNext, DlqStep, SaveDlqEntry, SaveDlqEntryFails, DlqCrash, EnvironmentNext,
        PurgePayload, BackoffElapses, storeVars
  <1>3. CASE AdminNext \/ UNCHANGED vars
    BY <1>3 DEF AdminNext, vars, storeVars
  <1> QED BY <1>1, <1>2, <1>3, RetryTurns DEF Next

\* Which requests a turn completes.
LEMMA TurnWrites ==
    ASSUME TypeOK, NEW w \in Workers, Turn(w), NEW r \in Requests
    PROVE  \/ request'[r] = request[r]
           \/ /\ WorkerAt(w, "saveCompleted") /\ worker[w].req = r
              /\ DbLosesAck \/ Completes(w)
              /\ request'[r] = CompletedEntity(w)
           \/ /\ WorkerAt(w, "saveRequestFailed") /\ worker[w].req = r
              /\ request'[r] = [worker[w].entity EXCEPT !.status = "FAILED"]
              /\ request'[r].status = "FAILED"
  <1> USE DEF TypeOK, StoreTypeOK
  <1>1. worker[w].entity \in RequestRow
    BY DEF WorkerTypeOK, WorkerRecord
  <1>2. [worker[w].entity EXCEPT !.status = "FAILED"].status = "FAILED"
    BY <1>1 DEF RequestRow
  <1>3. CASE Catches(w)
    BY <1>3 DEF Catches, CompletedRequest
  <1>4. CASE Completes(w)
    BY <1>4 DEF Completes, CompletedRequest
  <1>5. CASE FailsRequest(w)
    BY <1>2, <1>5 DEF FailsRequest, FailedRequest
  <1>6. CASE UNCHANGED request
    BY <1>6
  <1> QED
    BY <1>3, <1>4, <1>5, <1>6
    DEF Turn, Stays, Loses, Drops, Takes, Reads, ReadsRequest, ReadsNoSuccess, Creates,
        Succeeds, Waits, GivesUp, NothingSaved

CompletedIsDelivered ==
    \A r \in Requests : request[r].status = "COMPLETED" => Delivered(r)

LEMMA DeliveredStays ==
    ASSUME DispatchInv, [Next]_vars, NEW r \in Requests, Delivered(r)
    PROVE  Delivered(r)'
  <1>1. PICK i \in DOMAIN dispatch : Final(i) /\ dispatch[i].req = r
    BY DEF Delivered, DispatchesOf, Final
  <1> QED BY <1>1, FinalStays DEF Delivered, DispatchesOf, Final, Keeps

LEMMA CompletedStep ==
    ASSUME "dbAck" \notin FaultKinds, DispatchInv, CompletedIsDelivered, [Next]_vars
    PROVE  CompletedIsDelivered'
  <1> SUFFICES ASSUME NEW r \in Requests, request'[r].status = "COMPLETED"
               PROVE  Delivered(r)'
    BY DEF CompletedIsDelivered
  <1> USE DEF DispatchInv, IntakeInv
  <1>1. request[r].status = "COMPLETED" => Delivered(r)'
    BY DeliveredStays DEF CompletedIsDelivered
  <1>2. CASE GatewayNext /\ UNCHANGED <<relay, retry, workerVars, dlqVars, walk>>
    BY <1>1, <1>2, GatewayWrites
  <1>3. CASE WorkerNext /\ UNCHANGED <<send, relay, retry, dlqVars, walk>>
    <2>1. PICK w \in Workers : /\ \A v \in Workers \ {w} : worker'[v] = worker[v]
                               /\ Turn(w)
      BY <1>3, WorkerTurns
    <2>2. CASE Completes(w) /\ worker[w].req = r
      <3>1. HasRow(w) /\ WorkerAt(w, "saveCompleted")
        BY <2>2 DEF Completes, HasRow, WorkerAt
      <3>2. PICK i \in DOMAIN dispatch : i = worker[w].id
        BY <3>1 DEF TypeOK, WorkerTypeOK
      <3>3. dispatch[i].status = "SUCCESS" /\ dispatch[i].req = r
        BY <2>2, <3>1, <3>2 DEF RowsInv, RowsFollowHandlers, FollowsRow, WorkerAt
      <3>4. \A v \in Workers \ {w} : ~Revisits(v, i)'
        BY <2>1, <3>1, <3>2 DEF RowsInv, RowsHaveOneHandler, HasRow, Revisits
      <3>5. ~Revisits(w, i)'
        BY <2>2 DEF Completes, Leaves, WorkerIdle, Revisits
      <3> QED BY <2>2, <3>3, <3>4, <3>5 DEF Completes, Delivered, DispatchesOf
    <2> QED BY <1>1, <2>1, <2>2, TurnWrites DEF DbLosesAck
  <1> QED BY <1>1, <1>2, <1>3, OthersKeepRequests

\* A request is COMPLETED only while one of its dispatches is SUCCESS, unless a
\* write may be committed and reported as failed: then the handler takes its
\* SUCCESS row back although the request was completed.
THEOREM CompletedBacked ==
    ASSUME "dbAck" \notin FaultKinds
    PROVE  Spec => []CompletedIsBacked
  <1>1. Init => CompletedIsDelivered
    BY DEF Init, StoreInit, AbsentRow, CompletedIsDelivered
  <1>2. DispatchInv /\ CompletedIsDelivered /\ [Next]_vars => CompletedIsDelivered'
    BY CompletedStep
  <1>3. CompletedIsDelivered => CompletedIsBacked
    BY DEF CompletedIsDelivered, Delivered, CompletedIsBacked
  <1> QED BY <1>1, <1>2, <1>3, DispatchInvariance, PTL DEF Spec

-----------------------------------------------------------------------------
(***************************************************************************)
(* Rescheduled rows.                                                       *)
(***************************************************************************)
\* The topic gets one event or none.
TopicGrows ==
    \A r \in Requests : topic[r] \in Nat /\ topic'[r] \in Nat /\ topic'[r] >= topic[r]

LEMMA StepTopic ==
    ASSUME TypeOK, [Next]_vars
    PROVE  TopicGrows
  <1>1. ASSUME NEW x, topic' = Appended(x)
        PROVE  TopicGrows
    <2>1. \A r \in Requests : topic'[r] = IF r = x THEN topic[r] + 1 ELSE topic[r]
      BY <1>1 DEF TypeOK, StoreTypeOK, Appended
    <2>2. \A r \in Requests : topic[r] \in Nat
      BY DEF TypeOK, StoreTypeOK
    <2>3. \A r \in Requests : topic'[r] = topic[r] + 1 \/ topic'[r] = topic[r]
      BY <2>1
    <2> QED BY <2>2, <2>3 DEF TopicGrows
  <1>2. UNCHANGED topic => TopicGrows
    BY DEF TypeOK, StoreTypeOK, TopicGrows
  <1>3. CASE GatewayNext
    <2>1. PICK s \in Sends : \/ \E q \in Requests : Receive(s, q)
                             \/ SendStep(s)
                             \/ GatewayCrash(s)
      BY <1>3 DEF GatewayNext
    <2>2. UNCHANGED topic \/ topic' = Appended(send[s].req)
      BY <2>1
      DEF SendStep, Receive, FindExisting, FindTemplate, FindAccess, FindVariables, ReadFails,
          Commit, CommitFails, CommitConflict, Publish, MarkPublished, MarkQueued, SendFails,
          FindPayload, Republish, RepublishFails, MarkRequeued, MarkRequeuedFails,
          GatewayCrash, storeVars, AfterFailedSend
    <2> QED BY <1>1, <1>2, <2>2
  <1>4. CASE RelayNext
    <2>1. PICK t \in RelayTicks : RelayStep(t) \/ RelayCrash(t)
      BY <1>4 DEF RelayNext
    <2>2. UNCHANGED topic \/ \E r \in relay[t].batch : topic' = Appended(r)
      BY <2>1
      DEF RelayStep, RelayFind, RelayPublish, RelayPublishFails, RelaySave, RelaySaveFails,
          RelayCrash, storeVars, AfterFailedSend
    <2> QED BY <1>1, <1>2, <2>2
  <1>5. CASE RetryNext
    <2>1. PICK t \in RetryTicks : RunTurn(t)
      BY <1>5, RetryTurns
    <2>2. UNCHANGED topic \/ topic' = Appended(RetryRequest(t))
      BY <2>1 DEF RunTurn, RunStarts, RunGoesOn, RunSends
    <2> QED BY <1>1, <1>2, <2>2
  <1>6. CASE DlqNext \/ EnvironmentNext
    BY <1>2, <1>6
    DEF DlqNext, DlqStep, SaveDlqEntry, SaveDlqEntryFails, DlqCrash, EnvironmentNext,
        PurgePayload, BackoffElapses, storeVars
  <1>7. CASE AdminNext \/ UNCHANGED vars
    BY <1>2, <1>7 DEF AdminNext, vars, storeVars
  <1> QED BY <1>2, <1>3, <1>4, <1>5, <1>6, <1>7, WorkerTurns DEF Next

\* The rows of r whose event a scheduler run sent: saved, or about to be.
Resent(r) ==
    {i \in DOMAIN dispatch :
       /\ dispatch[i].req = r
       /\ dispatch[i].retryCount > 0
       /\ \/ dispatch[i].status = "PROCESSING"
          \/ \E t \in RetryTicks : RetryAt(t, "saveProcessing") /\ retry[t].id = i}

\* Each of them has an event of its own, and the request had one before.
ResentIsPublished ==
    \A r \in Requests : Published(r) => topic[r] > Cardinality(Resent(r))

LEMMA ResentFinite ==
    ASSUME TypeOK, NEW r
    PROVE  /\ IsFiniteSet(Resent(r)) /\ Cardinality(Resent(r)) \in Nat
           /\ \A S \in SUBSET Resent(r) :
                 IsFiniteSet(S) /\ Cardinality(S) \in Nat /\ Cardinality(S) <= Cardinality(Resent(r))
  <1>1. IsFiniteSet(DOMAIN dispatch)
    BY RowTyping DEF TypeOK
  <1>2. IsFiniteSet(Resent(r))
    BY <1>1, FS_Subset DEF Resent
  <1> QED BY <1>2, FS_Subset, FS_CardinalityType

\* Only sending the event of a row adds a row.
LEMMA ResentGrows ==
    ASSUME DispatchInv, [Next]_vars, NEW r \in Requests
    PROVE  \/ Resent(r)' \subseteq Resent(r)
           \/ \E i : /\ Resent(r)' \subseteq Resent(r) \cup {i}
                     /\ Published(r)
                     /\ topic'[r] = topic[r] + 1
  <1> USE DEF DispatchInv, IntakeInv
  <1>1. CASE WorkerNext /\ UNCHANGED <<send, relay, retry, dlqVars, walk>>
    <2>1. PICK w \in Workers : Turn(w)
      BY <1>1, WorkerTurns
    <2>2. WritesOwn(w)
      BY <2>1, TurnOwner
    <2> SUFFICES ASSUME NEW i \in Resent(r)' PROVE i \in Resent(r)
      OBVIOUS
    <2>3. /\ i \in DOMAIN dispatch' /\ dispatch'[i].req = r /\ dispatch'[i].retryCount > 0
          /\ \/ dispatch'[i].status = "PROCESSING"
             \/ \E t \in RetryTicks : RetryAt(t, "saveProcessing") /\ retry[t].id = i
      BY <1>1 DEF Resent, RetryAt
    <2>4. (\E t \in RetryTicks : RetryAt(t, "saveProcessing") /\ retry[t].id = i)
             => i \in DOMAIN dispatch /\ ~Owns(w, i)
      BY DEF RetryAt, TypeOK, RetryTypeOK, RowsInv, BatchesAreOfNobody
    <2>5. dispatch'[i].status = "PROCESSING" => i \in DOMAIN dispatch /\ ~Owns(w, i)
      <3>1. CASE Creates(w)
        BY <2>3, <3>1 DEF Creates, Inserts, NewDispatch, Owns, HasRow, WorkerAt
      <3>2. CASE Succeeds(w) \/ Waits(w) \/ GivesUp(w)
        BY <2>3, <3>2 DEF Succeeds, Waits, GivesUp, Saves, Owns
      <3>3. CASE UNCHANGED dispatch
        BY <2>3, <3>3 DEF Owns, RowsInv, RowsFollowHandlers, FollowsRow, WorkerAt
      <3> QED
        BY <2>1, <3>1, <3>2, <3>3
        DEF Turn, Stays, Loses, Drops, Takes, Reads, ReadsRequest, ReadsNoSuccess, Catches,
            Completes, FailsRequest, NothingSaved
    <2>6. i \in DOMAIN dispatch /\ Keeps(i)
      BY <2>2, <2>3, <2>4, <2>5 DEF WritesOwn
    <2> QED BY <2>3, <2>6 DEF Resent, Keeps
  <1>2. CASE RetryNext /\ UNCHANGED <<send, relay, workerVars, dlqVars, walk>>
    <2>1. PICK t \in RetryTicks : /\ \A u \in RetryTicks \ {t} : retry'[u] = retry[u]
                                  /\ RunTurn(t)
      BY <1>2, RetryTurns
    <2>2. /\ DOMAIN dispatch' = DOMAIN dispatch
          /\ \A i \in DOMAIN dispatch : dispatch'[i].req = dispatch[i].req
      BY <2>1, RunKeeps
    <2>3. \A i \in DOMAIN dispatch :
             /\ dispatch[i].retryCount \in Nat
             /\ dispatch'[i].retryCount = dispatch[i].retryCount
             /\ dispatch'[i].status = "PROCESSING" =>
                   \/ dispatch[i].status = "PROCESSING"
                   \/ RetryAt(t, "saveProcessing") /\ retry[t].id = i
      <3>1. \A i \in DOMAIN dispatch : dispatch[i].retryCount \in Nat
        BY RowTyping DEF TypeOK
      <3> QED BY <2>1, <3>1 DEF RunTurn, RunStarts, RunGoesOn, RunSends, Saves, Keeps
    <2>4. \A u \in RetryTicks \ {t} : RetryAt(u, "saveProcessing")' <=> RetryAt(u, "saveProcessing")
      BY <2>1 DEF RetryAt
    <2>5. ASSUME ~RetryAt(t, "saveProcessing")'
          PROVE  Resent(r)' \subseteq Resent(r)
      BY <2>1, <2>2, <2>3, <2>4, <2>5 DEF Resent
    <2>6. CASE RetryAt(t, "saveProcessing")'
      <3>1. RunSends(t) /\ retry'[t].id = retry[t].id
        BY <2>1, <2>6 DEF RunTurn, RunStarts, RunGoesOn, RunSends, RetryAt
      <3>2. Resent(r)' \subseteq Resent(r) \cup {retry[t].id}
        BY <2>1, <2>2, <2>3, <2>4, <3>1 DEF Resent
      <3>3. CASE RetryRequest(t) = r
        <4>1. retry[t].id \in DOMAIN dispatch
          BY <3>1 DEF RunSends, RetryAt, TypeOK, RetryTypeOK
        <4>2. Published(r)
          BY <3>3, <4>1 DEF RowsInv, RowsArePublished, RetryRequest
        <4>3. topic'[r] = topic[r] + 1
          BY <3>1, <3>3 DEF RunSends, Appended, TypeOK, StoreTypeOK
        <4> QED BY <3>2, <4>2, <4>3
      <3>4. CASE RetryRequest(t) # r
        <4>1. \A i \in Resent(r)' : i # retry[t].id
          BY <2>2, <3>4 DEF Resent, RetryRequest
        <4> QED BY <3>2, <4>1
      <3> QED BY <3>3, <3>4
    <2> QED BY <2>5, <2>6
  <1>3. CASE Rests /\ UNCHANGED <<workerVars, retry>>
    BY <1>3 DEF Rests, Keeps, Resent, RetryAt
  <1> QED BY <1>1, <1>2, <1>3, OthersRest

LEMMA ResentStep ==
    ASSUME DispatchInv, ResentIsPublished, [Next]_vars
    PROVE  ResentIsPublished'
  <1> SUFFICES ASSUME NEW r \in Requests, Published(r)' PROVE topic'[r] > Cardinality(Resent(r)')
    BY DEF ResentIsPublished
  <1>1. TypeOK /\ TopicGrows /\ RowsInv
    BY StepTopic DEF DispatchInv, IntakeInv
  <1>2. topic[r] \in Nat /\ topic'[r] \in Nat /\ topic'[r] >= topic[r]
    BY <1>1 DEF TopicGrows
  <1>3. /\ IsFiniteSet(Resent(r)) /\ Cardinality(Resent(r)) \in Nat
    BY <1>1, ResentFinite
  <1>4. CASE ~Published(r)
    <2>1. Resent(r) = {}
      BY <1>1, <1>4 DEF Resent, RowsInv, RowsArePublished
    <2>2. Resent(r)' = {}
      BY <1>4, <2>1, ResentGrows
    <2> QED BY <1>2, <2>2, FS_EmptySet DEF Published
  <1>5. CASE Published(r)
    <2>1. topic[r] > Cardinality(Resent(r))
      BY <1>5 DEF ResentIsPublished
    <2>2. CASE Resent(r)' \subseteq Resent(r)
      <3>1. Cardinality(Resent(r)') \in Nat /\ Cardinality(Resent(r)') <= Cardinality(Resent(r))
        BY <1>1, <2>2, ResentFinite
      <3> QED BY <1>2, <1>3, <2>1, <3>1
    <2>3. ASSUME NEW i, Resent(r)' \subseteq Resent(r) \cup {i}, topic'[r] = topic[r] + 1
          PROVE  topic'[r] > Cardinality(Resent(r)')
      <3>1. /\ IsFiniteSet(Resent(r) \cup {i})
            /\ Cardinality(Resent(r) \cup {i}) <= Cardinality(Resent(r)) + 1
            /\ Cardinality(Resent(r) \cup {i}) \in Nat
        BY <1>3, FS_AddElement, FS_CardinalityType
      <3>2. /\ Cardinality(Resent(r)') \in Nat
            /\ Cardinality(Resent(r)') <= Cardinality(Resent(r) \cup {i})
        BY <2>3, <3>1, FS_Subset, FS_CardinalityType
      <3> QED BY <1>2, <1>3, <2>1, <2>3, <3>1, <3>2
    <2> QED BY <2>2, <2>3, ResentGrows
  <1> QED BY <1>4, <1>5

\* Every row the scheduler turned back to PROCESSING has an event in the topic
\* beside the one that brought the request there: the row is only saved after
\* its event was sent, however runs overlap and fail.
THEOREM RescheduledPublished == Spec => []RescheduledIsPublished
  <1>1. Init => ResentIsPublished
    BY DEF Init, StoreInit, Published, ResentIsPublished
  <1>2. DispatchInv /\ ResentIsPublished /\ [Next]_vars => ResentIsPublished'
    BY ResentStep
  <1>3. DispatchInv /\ ResentIsPublished => RescheduledIsPublished
    <2> SUFFICES ASSUME DispatchInv, ResentIsPublished,
                        NEW r \in Requests, Rescheduled(r) # {}
                 PROVE  topic[r] > Cardinality(Rescheduled(r))
      BY DEF RescheduledIsPublished
    <2>1. TypeOK /\ RowsInv /\ topic[r] \in Nat
      BY DEF DispatchInv, IntakeInv, TypeOK, StoreTypeOK
    <2>2. Rescheduled(r) \subseteq Resent(r)
      BY DEF Rescheduled, DispatchesOf, Resent
    <2>3. Published(r)
      BY <2>1 DEF Rescheduled, DispatchesOf, RowsInv, RowsArePublished
    <2>4. /\ Cardinality(Resent(r)) \in Nat /\ Cardinality(Rescheduled(r)) \in Nat
          /\ Cardinality(Rescheduled(r)) <= Cardinality(Resent(r))
      BY <2>1, <2>2, ResentFinite
    <2> QED BY <2>1, <2>3, <2>4 DEF ResentIsPublished
  <1> QED BY <1>1, <1>2, <1>3, DispatchInvariance, PTL DEF Spec
=============================================================================
