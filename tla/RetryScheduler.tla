--------------------------- MODULE RetryScheduler ---------------------------
(***************************************************************************)
(* RetrySchedulerService of the main application: a cron job that every    *)
(* minute re-publishes the event of every dispatch whose backoff is over,  *)
(* and turns the dispatch row back to PROCESSING.  Runs overlap as in the  *)
(* outbox relay.  A run holds the entities it read; between its find and   *)
(* its save only another run writes such a row, and both change no column  *)
(* but the status and nextRetryAt, so the batch is kept as a set of ids:   *)
(* the copy of each holds RETRY_WAIT and a nextRetryAt that was reached.   *)
(***************************************************************************)
EXTENDS MessagingStore

CONSTANT RetryTicks     \* the runs of the cron job that may overlap

VARIABLE retry

RetryPc == {"idle", "load", "markFailed", "publish", "saveProcessing"}

\* id is the dispatch the loop is at; 0 between two of them.
RetryRecord == [pc: RetryPc, batch: SUBSET Nat, id: Nat]

RetryTypeOK ==
    /\ retry \in [RetryTicks -> RetryRecord]
    /\ \A t \in RetryTicks :
         /\ retry[t].batch \subseteq DOMAIN dispatch
         /\ retry[t].pc # "idle" => retry[t].id \in retry[t].batch

RetryIdle == [pc |-> "idle", batch |-> {}, id |-> 0]

RetryInit == retry = [t \in RetryTicks |-> RetryIdle]

-----------------------------------------------------------------------------
RetryAt(t, pc) == retry[t].pc = pc

RetryGoto(t, pc) == retry' = [retry EXCEPT ![t].pc = pc]

\* status RETRY_WAIT and nextRetryAt <= now.
Due ==
    {i \in DOMAIN dispatch : /\ dispatch[i].status = "RETRY_WAIT"
                             /\ dispatch[i].nextRetryAt = "due"}

\* find takes BatchSize due rows in no order.  With none, or when the query
\* throws, the run ends here and leaves no trace.
RetryFind(t) ==
    /\ RetryAt(t, "idle")
    /\ \E B \in SUBSET Due :
         /\ B # {}
         /\ Cardinality(B) <= BatchSize
         /\ B # Due => Cardinality(B) = BatchSize
         /\ \E i \in B :
              retry' = [retry EXCEPT
                          ![t] = [pc |-> "load", batch |-> B, id |-> i]]
    /\ UNCHANGED storeVars

\* The loop ends with this dispatch, or goes on with another of the batch.
NextDispatch(t) ==
    LET rest == retry[t].batch \ {retry[t].id} IN
    \/ /\ rest = {}
       /\ retry' = [retry EXCEPT ![t] = RetryIdle]
    \/ \E i \in rest :
         retry' = [retry EXCEPT ![t] = [pc |-> "load", batch |-> rest, id |-> i]]

RetryRequest(t) == dispatch[retry[t].id].req

\* Mutant: the row is saved before its event is published.
LoadEvent_SaveFirst(t) ==
    /\ RetryAt(t, "load")
    /\ IF RetryRequest(t) \in payload
         THEN RetryGoto(t, "saveProcessing")
         ELSE RetryGoto(t, "markFailed")
    /\ UNCHANGED storeVars

\* Request and recipient are never deleted; the payload may be missing.
LoadEvent(t) ==
    /\ RetryAt(t, "load")
    /\ IF RetryRequest(t) \in payload
         THEN RetryGoto(t, "publish")
         ELSE RetryGoto(t, "markFailed")
    /\ UNCHANGED storeVars

\* The copy that is saved was read when the row was due.
MissingDispatch(t) ==
    [dispatch EXCEPT ![retry[t].id].status = "FAILED",
                     ![retry[t].id].nextRetryAt = "due"]

MarkFailed(t) ==
    /\ RetryAt(t, "markFailed")
    /\ dispatch' = MissingDispatch(t)
    /\ NextDispatch(t)
    /\ UNCHANGED <<request, payload, outbox, topic, dlqTopic, faults>>

RescheduledDispatch(t) ==
    [dispatch EXCEPT ![retry[t].id].status = "PROCESSING",
                     ![retry[t].id].nextRetryAt = "null"]

RetryPublish(t) ==
    /\ RetryAt(t, "publish")
    /\ topic' = Appended(RetryRequest(t))
    /\ RetryGoto(t, "saveProcessing")
    /\ UNCHANGED <<request, payload, outbox, dispatch, dlqTopic, faults>>

SaveProcessing(t) ==
    /\ RetryAt(t, "saveProcessing")
    /\ dispatch' = RescheduledDispatch(t)
    /\ NextDispatch(t)
    /\ UNCHANGED <<request, payload, outbox, topic, dlqTopic, faults>>

\* The catch of retryDispatch: any await may throw, the error is logged and
\* the loop goes on; the row keeps RETRY_WAIT and a later run takes it again.
RetryFails(t) ==
    /\ \/ /\ RetryAt(t, "load")
          /\ Fault("db")
          /\ UNCHANGED <<dispatch, topic>>
       \/ /\ RetryAt(t, "markFailed")
          /\ Fault("db")
          /\ dispatch' \in AfterFailedSave(dispatch, MissingDispatch(t))
          /\ UNCHANGED topic
       \/ /\ RetryAt(t, "publish")
          /\ Fault("kafka")
          /\ topic' \in AfterFailedSend(RetryRequest(t))
          /\ UNCHANGED dispatch
       \/ /\ RetryAt(t, "saveProcessing")
          /\ Fault("db")
          /\ dispatch' \in AfterFailedSave(dispatch, RescheduledDispatch(t))
          /\ UNCHANGED topic
    /\ NextDispatch(t)
    /\ UNCHANGED <<request, payload, outbox, dlqTopic>>

\* The main process dies under the run.
RetryCrash(t) ==
    /\ ~RetryAt(t, "idle")
    /\ Fault("crash")
    /\ retry' = [retry EXCEPT ![t] = RetryIdle]
    /\ UNCHANGED <<request, payload, outbox, dispatch, topic, dlqTopic>>

-----------------------------------------------------------------------------
RetryStep(t) ==
    \/ RetryFind(t) \/ LoadEvent(t) \/ MarkFailed(t)
    \/ RetryPublish(t) \/ SaveProcessing(t) \/ RetryFails(t)

RetryNext == \E t \in RetryTicks : RetryStep(t) \/ RetryCrash(t)
=============================================================================
