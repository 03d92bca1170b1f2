--------------------------- MODULE PipelineProofs ---------------------------
(***************************************************************************)
(* Proofs about the delivery pipeline, for every set of requests, calls,   *)
(* cron runs and workers, every batch size, fault set and fault bound.     *)
(***************************************************************************)
EXTENDS PipelineProperties, SequenceTheorems, FiniteSetTheorems, TLAPS

(***************************************************************************)
(* Updating or appending a row keeps the table a sequence of rows.         *)
(***************************************************************************)
LEMMA UpdatedTable ==
    ASSUME NEW T, NEW t \in Seq(T), NEW i \in DOMAIN t, NEW e \in T
    PROVE  /\ [t EXCEPT ![i] = e] \in Seq(T)
           /\ DOMAIN [t EXCEPT ![i] = e] = DOMAIN t
  BY ExceptSeq

LEMMA ExtendedTable ==
    ASSUME NEW T, NEW t \in Seq(T), NEW e \in T
    PROVE  /\ Append(t, e) \in Seq(T)
           /\ Len(t) + 1 \in DOMAIN Append(t, e)
           /\ DOMAIN t \subseteq DOMAIN Append(t, e)
           /\ Append(t, e)[Len(t) + 1] = e
           /\ \A i \in DOMAIN t : Append(t, e)[i] = t[i]
  <1>1. Append(t, e) \in Seq(T) /\ Len(Append(t, e)) = Len(t) + 1
    BY AppendProperties
  <1>2. \A i \in 1..Len(t) : Append(t, e)[i] = t[i]
    BY AppendProperties
  <1>3. Append(t, e)[Len(t) + 1] = e
    BY AppendProperties
  <1>4. DOMAIN t = 1..Len(t) /\ Len(t) \in Nat /\ DOMAIN Append(t, e) = 1..Len(Append(t, e))
    BY <1>1, LenProperties
  <1> QED BY <1>1, <1>2, <1>3, <1>4

LEMMA WaitingRow ==
    ASSUME NEW row \in DispatchRow, NEW n \in Nat
    PROVE  [row EXCEPT !.status = "RETRY_WAIT", !.retryCount = n,
                       !.nextRetryAt = "future"] \in DispatchRow
  <1>1. [row EXCEPT !.status = "RETRY_WAIT"] \in DispatchRow
    BY DEF DispatchRow
  <1>2. [[row EXCEPT !.status = "RETRY_WAIT"] EXCEPT !.retryCount = n] \in DispatchRow
    BY <1>1 DEF DispatchRow
  <1>3. [[[row EXCEPT !.status = "RETRY_WAIT"] EXCEPT !.retryCount = n]
           EXCEPT !.nextRetryAt = "future"] \in DispatchRow
    BY <1>2 DEF DispatchRow
  <1> QED BY <1>3

-----------------------------------------------------------------------------
(***************************************************************************)
(* Type correctness, component by component.                               *)
(***************************************************************************)
LEMMA FaultTyping ==
    ASSUME StoreTypeOK, NEW kind, Fault(kind)
    PROVE  faults' \in 0..MaxFaults
  BY StoreAssumption DEF StoreTypeOK, Fault

LEMMA FailedSaveTyping ==
    ASSUME NEW T, NEW old \in T, NEW new \in T, NEW t \in AfterFailedSave(old, new)
    PROVE  t \in T
  BY DEF AfterFailedSave

LEMMA AppendedTyping ==
    ASSUME StoreTypeOK, NEW r \in Requests
    PROVE  /\ Appended(r) \in [Requests -> Nat]
           /\ \A t \in AfterFailedSend(r) : t \in [Requests -> Nat]
  BY DEF StoreTypeOK, Appended, AfterFailedSend

LEMMA ClockTyping == Now \in Nat
  <1>1. IsFiniteSet({s \in Sends : send[s].startedAt > 0})
    BY GatewayAssumption, FS_Subset
  <1> QED BY <1>1, FS_CardinalityType DEF Now

LEMMA GatewayTyping ==
    ASSUME StoreTypeOK, GatewayTypeOK, GatewayNext
    PROVE  StoreTypeOK' /\ GatewayTypeOK' /\ UNCHANGED dispatch
  <1>1. PICK s \in Sends : \/ \E r \in Requests : Receive(s, r)
                           \/ SendStep(s)
                           \/ GatewayCrash(s)
    BY DEF GatewayNext
  <1> DEFINE r == send[s].req
  <1>2. /\ send \in [Sends -> SendRecord]
        /\ send[s] \in SendRecord
        /\ send[s].entity \in RequestRow
        /\ send[s].pc # "idle" => r \in Requests
    BY DEF GatewayTypeOK, SendRecord
  <1>3. QueuedEntity(s) \in RequestRow
    <2>1. [send[s].entity EXCEPT !.status = "QUEUED"] \in RequestRow
      BY <1>2 DEF RequestRow, RequestStatus
    <2> QED BY <2>1 DEF QueuedEntity, RequestRow
  <1>4. \A c \in Channels : NewRow(c) \in RequestRow
    BY DEF NewRow, RequestRow, RequestStatus
  <1>5. NewOutboxRow(s) \in OutboxRow
    BY <1>2 DEF NewOutboxRow, OutboxRow, SendRecord
  <1>6. \A q \in Requests : [outbox EXCEPT ![q].status = "PUBLISHED"] \in [Requests -> OutboxRow]
    BY DEF StoreTypeOK, OutboxRow
  <1>7. \A q \in Requests, row \in RequestRow :
           [request EXCEPT ![q] = row] \in [Requests -> RequestRow]
    BY DEF StoreTypeOK
  \* How the handler record changes.
  <1>9. ASSUME r \in Requests, NEW p \in SendPc, SendGoto(s, p)
        PROVE  GatewayTypeOK'
    <2>1. [send[s] EXCEPT !.pc = p] \in SendRecord
      BY <1>9, <1>2 DEF SendRecord
    <2> QED BY <1>9, <1>2, <2>1 DEF SendGoto, GatewayTypeOK
  <1>10. ASSUME r \in Requests, NEW a \in Responses, Respond(s, a)
         PROVE  GatewayTypeOK'
    BY <1>10, <1>2 DEF Respond, GatewayTypeOK, SendRecord, SendPc
  <1>11. ASSUME UNCHANGED <<request, payload, outbox, dispatch, topic, dlqTopic>>,
                UNCHANGED faults \/ \E kind \in AllFaultKinds : Fault(kind)
         PROVE  StoreTypeOK'
    BY <1>11, FaultTyping DEF StoreTypeOK
  <1>12. CASE \E q \in Requests : Receive(s, q)
    <2>1. GatewayTypeOK'
      <3>1. PICK q \in Requests : Receive(s, q)
        BY <1>12
      <3>2. [send[s] EXCEPT !.pc = "findExisting", !.req = q] \in SendRecord
        BY <1>2 DEF SendRecord, SendPc
      <3> QED BY <3>1, <3>2, <1>2 DEF Receive, GatewayTypeOK, SendRecord
    <2> QED BY <1>12, <1>11, <2>1 DEF Receive, storeVars
  <1>13. CASE FindExisting(s)
    <2>1. r \in Requests /\ request[r] \in RequestRow
      BY <1>13, <1>2 DEF FindExisting, SendAt, StoreTypeOK
    <2>2. GatewayTypeOK'
      <3>1. CASE SendGoto(s, "findTemplate")
        BY <3>1, <2>1, <1>9 DEF SendPc
      <3>2. CASE send' = [send EXCEPT ![s].pc = "findPayload", ![s].entity = request[r]]
        BY <3>2, <2>1, <1>2 DEF GatewayTypeOK, SendRecord, SendPc
      <3>3. CASE Respond(s, "ok")
        BY <3>3, <2>1, <1>10 DEF Responses
      <3> QED BY <1>13, <3>1, <3>2, <3>3 DEF FindExisting
    <2> QED BY <1>13, <1>11, <2>2 DEF FindExisting, storeVars
  <1>14. CASE FindVariables(s)
    <2>1. r \in Requests
      BY <1>14, <1>2 DEF FindVariables, SendAt
    <2>2. CASE send' = [send EXCEPT ![s].pc = "commit", ![s].startedAt = Now]
      <3>1. GatewayTypeOK'
        BY <2>1, <2>2, <1>2, ClockTyping DEF GatewayTypeOK, SendRecord, SendPc
      <3> QED BY <3>1, <1>14, <1>11 DEF FindVariables, storeVars
    <2>3. CASE Respond(s, "rejected")
      <3>1. GatewayTypeOK'
        BY <2>1, <2>3, <1>10 DEF Responses
      <3> QED BY <3>1, <1>14, <1>11 DEF FindVariables, storeVars
    <2> QED BY <1>14, <2>2, <2>3 DEF FindVariables
  <1>15. CASE ReadFails(s)
    <2>1. r \in Requests
      BY <1>15, <1>2 DEF ReadFails
    <2>2. GatewayTypeOK'
      BY <2>1, <1>15, <1>10 DEF ReadFails, Responses
    <2> QED BY <2>2, <1>15, <1>11 DEF ReadFails, AllFaultKinds
  <1>16. ASSUME NEW c \in Channels, r \in Requests, InsertRows(s, c),
                UNCHANGED <<dispatch, topic, dlqTopic>>, faults' \in 0..MaxFaults
         PROVE  StoreTypeOK'
    BY <1>16, <1>4, <1>5 DEF InsertRows, StoreTypeOK
  <1>17. CASE \E c \in Channels : Commit(s, c)
    <2>1. PICK c \in Channels : Commit(s, c)
      BY <1>17
    <2>2. r \in Requests
      BY <2>1, <1>2 DEF Commit, SendAt
    <2>3. GatewayTypeOK'
      BY <2>1, <2>2, <1>2, <1>4 DEF Commit, GatewayTypeOK, SendRecord, SendPc
    <2> QED BY <2>1, <2>2, <2>3, <1>16 DEF Commit, StoreTypeOK
  <1>18. CASE \E c \in Channels : CommitFails(s, c)
    <2>1. PICK c \in Channels : CommitFails(s, c)
      BY <1>18
    <2>2. r \in Requests
      BY <2>1, <1>2 DEF CommitFails, SendAt
    <2>3. GatewayTypeOK'
      BY <2>1, <2>2, <1>10 DEF CommitFails, Responses
    <2>4. faults' \in 0..MaxFaults
      BY <2>1, FaultTyping DEF CommitFails
    <2>5. StoreTypeOK'
      <3>1. CASE UNCHANGED <<request, payload, outbox>>
        BY <3>1, <2>1, <2>4 DEF CommitFails, StoreTypeOK
      <3>2. CASE InsertRows(s, c)
        BY <3>2, <2>1, <2>2, <2>4, <1>16 DEF CommitFails
      <3> QED BY <2>1, <3>1, <3>2 DEF CommitFails
    <2> QED BY <2>1, <2>3, <2>5 DEF CommitFails
  <1>19. CASE CommitConflict(s)
    <2>1. r \in Requests
      BY <1>19, <1>2 DEF CommitConflict, SendAt
    <2>2. GatewayTypeOK'
      BY <2>1, <1>19, <1>10 DEF CommitConflict, Responses
    <2> QED BY <2>2, <1>19, <1>11 DEF CommitConflict, storeVars
  <1>20. CASE Publish(s) \/ Republish(s)
    <2>1. r \in Requests
      BY <1>20, <1>2 DEF Publish, Republish, SendAt
    <2>2. GatewayTypeOK'
      BY <2>1, <1>20, <1>9 DEF Publish, Republish, SendPc
    <2> QED BY <2>1, <2>2, <1>20, AppendedTyping DEF Publish, Republish, StoreTypeOK
  <1>21. CASE MarkPublished(s)
    <2>1. r \in Requests
      BY <1>21, <1>2 DEF MarkPublished, SendAt
    <2>2. GatewayTypeOK'
      BY <2>1, <1>21, <1>9 DEF MarkPublished, SendPc
    <2> QED BY <2>1, <2>2, <1>21, <1>6 DEF MarkPublished, StoreTypeOK
  <1>22. CASE MarkQueued(s) \/ MarkRequeued(s)
    <2>1. r \in Requests
      BY <1>22, <1>2 DEF MarkQueued, MarkRequeued, SendAt
    <2>2. GatewayTypeOK'
      BY <2>1, <1>22, <1>10 DEF MarkQueued, MarkRequeued, Responses
    <2> QED BY <2>1, <2>2, <1>22, <1>3, <1>7 DEF MarkQueued, MarkRequeued, StoreTypeOK
  <1>23. CASE SendFails(s)
    <2>1. r \in Requests
      BY <1>23, <1>2 DEF SendFails, SendAt
    <2>2. GatewayTypeOK'
      BY <2>1, <1>23, <1>10 DEF SendFails, Responses
    <2>3. faults' \in 0..MaxFaults
      BY <1>23, FaultTyping DEF SendFails
    <2>4. topic' \in [Requests -> Nat]
      BY <1>23, <2>1, AppendedTyping DEF SendFails, StoreTypeOK
    <2>5. outbox' \in [Requests -> OutboxRow]
      BY <1>23, <2>1, <1>6 DEF SendFails, StoreTypeOK, AfterFailedSave
    <2>6. request' \in [Requests -> RequestRow]
      BY <1>23, <2>1, <1>3, <1>7 DEF SendFails, StoreTypeOK, AfterFailedSave
    <2> QED BY <1>23, <2>2, <2>3, <2>4, <2>5, <2>6 DEF SendFails, StoreTypeOK
  <1>24. CASE FindPayload(s)
    <2>1. r \in Requests
      BY <1>24, <1>2 DEF FindPayload, SendAt
    <2>2. GatewayTypeOK'
      BY <2>1, <1>24, <1>9, <1>10 DEF FindPayload, SendPc, Responses
    <2> QED BY <2>2, <1>24, <1>11 DEF FindPayload, storeVars
  <1>25. CASE RepublishFails(s)
    <2>1. r \in Requests
      BY <1>25, <1>2 DEF RepublishFails, SendAt
    <2>2. GatewayTypeOK'
      BY <2>1, <1>25, <1>10 DEF RepublishFails, Responses
    <2>3. faults' \in 0..MaxFaults
      BY <1>25, FaultTyping DEF RepublishFails
    <2> QED BY <2>1, <2>2, <2>3, <1>25, AppendedTyping DEF RepublishFails, StoreTypeOK
  <1>26. CASE MarkRequeuedFails(s)
    <2>1. r \in Requests
      BY <1>26, <1>2 DEF MarkRequeuedFails, SendAt
    <2>2. GatewayTypeOK'
      BY <2>1, <1>26, <1>10 DEF MarkRequeuedFails, Responses
    <2>3. faults' \in 0..MaxFaults
      BY <1>26, FaultTyping DEF MarkRequeuedFails
    <2>4. request' \in [Requests -> RequestRow]
      BY <1>26, <2>1, <1>3, <1>7 DEF MarkRequeuedFails, StoreTypeOK, AfterFailedSave
    <2> QED BY <1>26, <2>2, <2>3, <2>4 DEF MarkRequeuedFails, StoreTypeOK
  <1>27. CASE GatewayCrash(s)
    <2>1. r \in Requests
      BY <1>27, <1>2 DEF GatewayCrash
    <2>2. GatewayTypeOK'
      BY <2>1, <1>27, <1>10 DEF GatewayCrash, Responses
    <2> QED BY <2>2, <1>27, <1>11 DEF GatewayCrash, AllFaultKinds
  <1>28. CASE FindTemplate(s) \/ FindAccess(s)
    <2>1. r \in Requests
      BY <1>28, <1>2 DEF FindTemplate, FindAccess, SendAt
    <2>2. CASE SendGoto(s, "findAccess") \/ SendGoto(s, "findVariables")
      BY <2>1, <2>2, <1>9, <1>28, <1>11 DEF FindTemplate, FindAccess, storeVars, SendPc
    <2>3. CASE Respond(s, "rejected")
      BY <2>1, <2>3, <1>10, <1>28, <1>11
      DEF FindTemplate, FindAccess, storeVars, Responses
    <2> QED BY <1>28, <2>2, <2>3 DEF FindTemplate, FindAccess
  <1> QED
    BY <1>1, <1>12, <1>13, <1>14, <1>15, <1>17, <1>18, <1>19, <1>20, <1>21,
       <1>22, <1>23, <1>24, <1>25, <1>26, <1>27, <1>28 DEF SendStep

LEMMA RelayTyping ==
    ASSUME StoreTypeOK, RelayTypeOK, RelayNext
    PROVE  StoreTypeOK' /\ RelayTypeOK' /\ UNCHANGED dispatch
  <1>1. PICK t \in RelayTicks : RelayStep(t) \/ RelayCrash(t)
    BY DEF RelayNext
  <1>2. /\ relay \in [RelayTicks -> RelayRecord]
        /\ relay[t] \in RelayRecord
        /\ relay[t].batch \subseteq Requests
    BY DEF RelayTypeOK, RelayRecord
  <1>3. RelayIdle \in RelayRecord
    BY DEF RelayIdle, RelayRecord, RelayPc
  <1>4. ASSUME NEW rec \in RelayRecord, relay' = [relay EXCEPT ![t] = rec],
               rec.pc \in {"savePublished", "saveFailed"} => rec.entry \in Requests
        PROVE  RelayTypeOK'
    BY <1>4, <1>2 DEF RelayTypeOK
  <1>5. ASSUME relay' = [relay EXCEPT ![t] = RelayIdle]
        PROVE  RelayTypeOK'
    BY <1>5, <1>4, <1>3 DEF RelayIdle
  <1>6. ASSUME NEW r \in Requests, NEW p \in RelayPc, TakeEntry(t, r, p)
        PROVE  RelayTypeOK'
    <2>1. [relay[t] EXCEPT !.pc = p, !.entry = r] \in RelayRecord
      BY <1>6, <1>2 DEF RelayRecord
    <2>2. [relay[t] EXCEPT !.pc = p, !.entry = r].entry = r
      BY <1>2 DEF RelayRecord
    <2>3. relay' = [relay EXCEPT ![t] = [relay[t] EXCEPT !.pc = p, !.entry = r]]
      BY <1>6, <1>2 DEF TakeEntry
    <2> QED BY <1>6, <1>4, <2>1, <2>2, <2>3
  <1>7. ASSUME relay[t].pc \in {"savePublished", "saveFailed"}
        PROVE  SavedEntry(t) \in [Requests -> OutboxRow]
    <2>1. EntryStatus(t) \in {"PUBLISHED", "FAILED"}
      BY DEF EntryStatus
    <2> QED BY <1>7, <2>1 DEF SavedEntry, StoreTypeOK, OutboxRow
  <1>8. CASE RelayFind(t)
    <2>1. PICK B \in SUBSET Pending :
             relay' = [relay EXCEPT ![t].pc = "publish", ![t].batch = B]
      BY <1>8 DEF RelayFind
    <2>2. B \subseteq Requests
      BY <2>1 DEF Pending
    <2>3. [relay[t] EXCEPT !.pc = "publish", !.batch = B] \in RelayRecord
      BY <2>2, <1>2 DEF RelayRecord, RelayPc
    <2>4. [relay[t] EXCEPT !.pc = "publish", !.batch = B].pc = "publish"
      BY <1>2 DEF RelayRecord
    <2>5. RelayTypeOK'
      <3>1. relay' = [relay EXCEPT ![t] = [relay[t] EXCEPT !.pc = "publish", !.batch = B]]
        BY <2>1, <1>2
      <3> QED BY <3>1, <2>3, <2>4, <1>4
    <2> QED BY <1>8, <2>5 DEF RelayFind, storeVars, StoreTypeOK
  <1>9. CASE RelayPublish(t)
    <2>1. PICK r \in relay[t].batch : /\ topic' = Appended(r)
                                      /\ TakeEntry(t, r, "savePublished")
      BY <1>9 DEF RelayPublish
    <2>2. RelayTypeOK'
      BY <2>1, <1>2, <1>6 DEF RelayPc
    <2> QED BY <1>9, <2>1, <2>2, <1>2, AppendedTyping DEF RelayPublish, StoreTypeOK
  <1>10. CASE RelayPublishFails(t)
    <2>1. PICK r \in relay[t].batch : /\ topic' \in AfterFailedSend(r)
                                      /\ TakeEntry(t, r, "saveFailed")
      BY <1>10 DEF RelayPublishFails
    <2>2. RelayTypeOK'
      BY <2>1, <1>2, <1>6 DEF RelayPc
    <2>3. faults' \in 0..MaxFaults
      BY <1>10, FaultTyping DEF RelayPublishFails
    <2> QED BY <1>10, <2>1, <2>2, <2>3, <1>2, AppendedTyping DEF RelayPublishFails, StoreTypeOK
  <1>11. CASE RelaySave(t)
    <2>1. RelayTypeOK'
      <3> DEFINE rest == relay[t].batch \ {relay[t].entry}
                 rec == [pc |-> "publish", batch |-> rest, entry |-> None]
      <3>1. rec \in RelayRecord
        BY <1>2 DEF RelayRecord, RelayPc
      <3>2. \/ relay' = [relay EXCEPT ![t] = RelayIdle]
            \/ relay' = [relay EXCEPT ![t] = rec]
        BY <1>11 DEF RelaySave, NextEntry
      <3> QED BY <3>1, <3>2, <1>4, <1>5
    <2> QED BY <1>11, <1>7, <2>1 DEF RelaySave, StoreTypeOK
  <1>12. CASE RelaySaveFails(t)
    <2>1. faults' \in 0..MaxFaults
      BY <1>12, FaultTyping DEF RelaySaveFails
    <2>2. outbox' \in [Requests -> OutboxRow]
      BY <1>12, <1>7 DEF RelaySaveFails, AfterFailedSave, StoreTypeOK
    <2> QED BY <1>12, <1>5, <2>1, <2>2 DEF RelaySaveFails, StoreTypeOK
  <1>13. CASE RelayCrash(t)
    <2>1. faults' \in 0..MaxFaults
      BY <1>13, FaultTyping DEF RelayCrash
    <2> QED BY <1>13, <1>5, <2>1 DEF RelayCrash, StoreTypeOK
  <1> QED
    BY <1>1, <1>8, <1>9, <1>10, <1>11, <1>12, <1>13 DEF RelayStep

(***************************************************************************)
(* The scheduler and the workers change the dispatch table; rows come, and *)
(* none goes.                                                              *)
(***************************************************************************)
LEMMA RetryTyping ==
    ASSUME StoreTypeOK, RetryTypeOK, RetryNext
    PROVE  /\ StoreTypeOK' /\ RetryTypeOK'
           /\ DOMAIN dispatch' = DOMAIN dispatch
  <1>1. PICK t \in RetryTicks : RetryStep(t) \/ RetryCrash(t)
    BY DEF RetryNext
  <1> DEFINE i == retry[t].id
  <1>2. /\ retry \in [RetryTicks -> RetryRecord]
        /\ retry[t] \in RetryRecord
        /\ retry[t].batch \subseteq DOMAIN dispatch
        /\ retry[t].pc # "idle" => i \in DOMAIN dispatch
    BY DEF RetryTypeOK
  <1>3. dispatch \in Seq(DispatchRow) /\ DOMAIN dispatch \subseteq Nat
    <2>1. dispatch \in Seq(DispatchRow)
      BY DEF StoreTypeOK
    <2> QED BY <2>1, LenProperties
  <1>4. ASSUME DOMAIN dispatch' = DOMAIN dispatch, NEW rec \in RetryRecord,
               retry' = [retry EXCEPT ![t] = rec], rec.batch \subseteq DOMAIN dispatch,
               rec.pc # "idle" => rec.id \in rec.batch
        PROVE  RetryTypeOK'
    BY <1>4, <1>2 DEF RetryTypeOK
  <1>5. ASSUME DOMAIN dispatch' = DOMAIN dispatch,
               retry' = [retry EXCEPT ![t] = RetryIdle]
        PROVE  RetryTypeOK'
    <2>1. RetryIdle \in RetryRecord
      BY DEF RetryIdle, RetryRecord, RetryPc
    <2> QED BY <1>5, <1>4, <2>1 DEF RetryIdle
  <1>6. ASSUME NEW B \in SUBSET DOMAIN dispatch, NEW k \in B,
               DOMAIN dispatch' = DOMAIN dispatch,
               retry' = [retry EXCEPT ![t] = [pc |-> "load", batch |-> B, id |-> k]]
        PROVE  RetryTypeOK'
    <2>1. [pc |-> "load", batch |-> B, id |-> k] \in RetryRecord
      BY <1>3, <1>6 DEF RetryRecord, RetryPc
    <2> QED BY <1>6, <1>4, <2>1
  <1>7. ASSUME DOMAIN dispatch' = DOMAIN dispatch, NextDispatch(t)
        PROVE  RetryTypeOK'
    <2> DEFINE rest == retry[t].batch \ {retry[t].id}
    <2>1. rest \in SUBSET DOMAIN dispatch
      BY <1>2
    <2> QED BY <1>7, <2>1, <1>5, <1>6 DEF NextDispatch
  <1>8. ASSUME retry[t].pc # "idle", DOMAIN dispatch' = DOMAIN dispatch,
               NEW p \in RetryPc, RetryGoto(t, p)
        PROVE  RetryTypeOK'
    <2>1. [retry[t] EXCEPT !.pc = p] \in RetryRecord
      BY <1>2 DEF RetryRecord
    <2>2. retry' = [retry EXCEPT ![t] = [retry[t] EXCEPT !.pc = p]]
      BY <1>8, <1>2 DEF RetryGoto
    <2>3. i \in retry[t].batch
      BY <1>8 DEF RetryTypeOK
    <2> QED BY <1>8, <1>2, <1>4, <2>1, <2>2, <2>3 DEF RetryRecord
  <1>9. ASSUME retry[t].pc # "idle"
        PROVE  /\ RetryRequest(t) \in Requests
               /\ MissingDispatch(t) \in Seq(DispatchRow)
               /\ DOMAIN MissingDispatch(t) = DOMAIN dispatch
               /\ RescheduledDispatch(t) \in Seq(DispatchRow)
               /\ DOMAIN RescheduledDispatch(t) = DOMAIN dispatch
    <2>1. i \in DOMAIN dispatch /\ dispatch[i] \in DispatchRow
      BY <1>9, <1>2, <1>3, ElementOfSeq, LenProperties
    <2>2. [dispatch[i] EXCEPT !.status = "FAILED", !.nextRetryAt = "due"] \in DispatchRow
      BY <2>1 DEF DispatchRow
    <2>3. [dispatch[i] EXCEPT !.status = "PROCESSING", !.nextRetryAt = "null"] \in DispatchRow
      BY <2>1 DEF DispatchRow
    <2>4. MissingDispatch(t) =
            [dispatch EXCEPT ![i] = [dispatch[i] EXCEPT !.status = "FAILED",
                                                         !.nextRetryAt = "due"]]
      BY <2>1 DEF MissingDispatch
    <2>5. RescheduledDispatch(t) =
            [dispatch EXCEPT ![i] = [dispatch[i] EXCEPT !.status = "PROCESSING",
                                                         !.nextRetryAt = "null"]]
      BY <2>1 DEF RescheduledDispatch
    <2>6. RetryRequest(t) \in Requests
      BY <2>1 DEF RetryRequest, DispatchRow
    <2> QED BY <2>1, <2>2, <2>3, <2>4, <2>5, <2>6, <1>3, UpdatedTable
  <1>10. CASE RetryFind(t)
    <2>1. PICK B \in SUBSET Due : \E k \in B :
             retry' = [retry EXCEPT ![t] = [pc |-> "load", batch |-> B, id |-> k]]
      BY <1>10 DEF RetryFind
    <2>2. B \in SUBSET DOMAIN dispatch
      BY <2>1 DEF Due
    <2>3. DOMAIN dispatch' = DOMAIN dispatch
      BY <1>10 DEF RetryFind, storeVars
    <2> QED BY <1>10, <2>1, <2>2, <2>3, <1>6 DEF RetryFind, storeVars, StoreTypeOK
  <1>11. CASE LoadEvent(t)
    <2>1. RetryTypeOK'
      BY <1>11, <1>8 DEF LoadEvent, RetryAt, RetryPc, storeVars
    <2> QED BY <1>11, <2>1 DEF LoadEvent, storeVars, StoreTypeOK
  <1>12. CASE MarkFailed(t)
    BY <1>12, <1>7, <1>9 DEF MarkFailed, RetryAt, StoreTypeOK
  <1>13. CASE RetryPublish(t)
    <2>1. RetryTypeOK'
      BY <1>13, <1>8 DEF RetryPublish, RetryAt, RetryPc
    <2>2. topic' \in [Requests -> Nat]
      BY <1>13, <1>9, AppendedTyping DEF RetryPublish, RetryAt
    <2> QED BY <1>13, <2>1, <2>2 DEF RetryPublish, StoreTypeOK
  <1>14. CASE SaveProcessing(t)
    BY <1>14, <1>7, <1>9 DEF SaveProcessing, RetryAt, StoreTypeOK
  <1>15. CASE RetryFails(t)
    <2>1. retry[t].pc # "idle"
      BY <1>15 DEF RetryFails, RetryAt
    <2>2. faults' \in 0..MaxFaults
      BY <1>15, FaultTyping DEF RetryFails
    <2>3. dispatch' \in Seq(DispatchRow) /\ DOMAIN dispatch' = DOMAIN dispatch
      BY <1>15, <1>9, <2>1, <1>3 DEF RetryFails, AfterFailedSave
    <2>4. topic' \in [Requests -> Nat]
      BY <1>15, <1>9, <2>1, AppendedTyping DEF RetryFails, StoreTypeOK
    <2>5. RetryTypeOK'
      BY <1>15, <2>3, <1>7 DEF RetryFails
    <2> QED BY <1>15, <2>2, <2>3, <2>4, <2>5 DEF RetryFails, StoreTypeOK
  <1>16. CASE RetryCrash(t)
    <2>1. faults' \in 0..MaxFaults
      BY <1>16, FaultTyping DEF RetryCrash
    <2> QED BY <1>16, <1>5, <2>1 DEF RetryCrash, StoreTypeOK
  <1> QED
    BY <1>1, <1>10, <1>11, <1>12, <1>13, <1>14, <1>15, <1>16 DEF RetryStep

\* What a handler's record may become in one step.
LEMMA HandlerTyping ==
    ASSUME WorkerTypeOK, NEW w \in Workers, DOMAIN dispatch \subseteq DOMAIN dispatch',
           UNCHANGED <<position, committed, overtaken>>,
           NEW rec \in WorkerRecord, worker' = [worker EXCEPT ![w] = rec],
           rec.pc # "idle" => rec.req \in Requests,
           rec.pc \notin {"idle", "findRequest", "findSuccess", "createDispatch"}
             => rec.id \in DOMAIN dispatch'
    PROVE  WorkerTypeOK'
  <1>1. worker' \in [Workers -> WorkerRecord]
    BY DEF WorkerTypeOK
  <1>2. \A v \in Workers : worker'[v] = IF v = w THEN rec ELSE worker[v]
    BY DEF WorkerTypeOK
  <1>3. \A v \in Workers : worker'[v].pc # "idle" => worker'[v].req \in Requests
    BY <1>2 DEF WorkerTypeOK
  <1>4. \A v \in Workers : HasRow(v)' => worker'[v].id \in DOMAIN dispatch'
    BY <1>2 DEF WorkerTypeOK, HasRow
  <1> QED BY <1>1, <1>3, <1>4 DEF WorkerTypeOK

LEMMA ReturnTyping ==
    ASSUME WorkerTypeOK, NEW w \in Workers, ~WorkerAt(w, "idle"),
           DOMAIN dispatch \subseteq DOMAIN dispatch', Return(w)
    PROVE  WorkerTypeOK'
  <1> DEFINE c == ChannelOf[w]
             r == worker[w].req
  <1>1. WorkerIdle \in WorkerRecord
    BY DEF WorkerIdle, WorkerRecord, WorkerPc, AbsentRow, RequestRow, RequestStatus
  <1>2. c \in Channels /\ r \in Requests
    BY WorkerAssumption DEF WorkerTypeOK, WorkerAt
  <1>3. position[c][r] \in Nat
    BY <1>2 DEF WorkerTypeOK
  <1>4. position' \in [Channels -> [Requests -> Nat]]
    <2>1. CASE position' = [position EXCEPT ![c][r] = @ + 1]
      BY <2>1, <1>2, <1>3 DEF WorkerTypeOK
    <2>2. CASE UNCHANGED position
      BY <2>2 DEF WorkerTypeOK
    <2> QED BY <2>1, <2>2 DEF Return, Consume
  <1>5. committed' \in [Channels -> [Requests -> Nat \cup {NoOffset}]]
    <2>1. CASE committed' = [committed EXCEPT ![c][r] = position[c][r] + 1]
      BY <2>1, <1>2, <1>3 DEF WorkerTypeOK
    <2>2. CASE UNCHANGED committed
      BY <2>2 DEF WorkerTypeOK
    <2> QED BY <2>1, <2>2 DEF Return, Consume
  <1>6. overtaken' \in [Requests -> Nat]
    BY DEF Return, WorkerTypeOK
  <1>7. \A v \in Workers : worker'[v] = IF v = w THEN WorkerIdle ELSE worker[v]
    BY DEF Return, WorkerTypeOK
  <1>8. worker' \in [Workers -> WorkerRecord]
    BY <1>1 DEF Return, WorkerTypeOK
  <1>9. \A v \in Workers : worker'[v].pc # "idle" => worker'[v].req \in Requests
    BY <1>7 DEF WorkerTypeOK, WorkerIdle
  <1>10. \A v \in Workers : HasRow(v)' => worker'[v].id \in DOMAIN dispatch'
    BY <1>7 DEF WorkerTypeOK, HasRow, WorkerIdle
  <1> QED BY <1>4, <1>5, <1>6, <1>8, <1>9, <1>10 DEF WorkerTypeOK

LEMMA RestartTyping ==
    ASSUME StoreTypeOK, WorkerTypeOK, NEW c \in Channels, NEW r \in Requests, Restart(c, r)
    PROVE  position' \in [Channels -> [Requests -> Nat]]
  <1>1. RestartOffset(c, r) \in Nat
    BY DEF RestartOffset, StoreTypeOK, WorkerTypeOK
  <1> QED BY <1>1 DEF Restart, WorkerTypeOK

\* The tables and entities a handler computes from its own row.
LEMMA HandlerRows ==
    ASSUME StoreTypeOK, WorkerTypeOK, NEW w \in Workers, ~WorkerAt(w, "idle")
    PROVE  /\ worker[w].req \in Requests
           /\ CompletedEntity(w) \in RequestRow
           /\ CompletedRequest(w) \in [Requests -> RequestRow]
           /\ FailedRequest(w) \in [Requests -> RequestRow]
           /\ HasRow(w) =>
                /\ SucceededDispatch(w) \in Seq(DispatchRow)
                /\ DOMAIN SucceededDispatch(w) = DOMAIN dispatch
                /\ WaitingDispatch(w) \in Seq(DispatchRow)
                /\ DOMAIN WaitingDispatch(w) = DOMAIN dispatch
                /\ FailedDispatch(w) \in Seq(DispatchRow)
                /\ DOMAIN FailedDispatch(w) = DOMAIN dispatch
  <1> DEFINE i == worker[w].id
             e == worker[w].entity
  <1>1. worker[w].req \in Requests /\ e \in RequestRow
    BY DEF WorkerTypeOK, WorkerAt, WorkerRecord
  <1>2. [e EXCEPT !.status = "COMPLETED"] \in RequestRow
    BY <1>1 DEF RequestRow, RequestStatus
  <1>3. CompletedEntity(w) \in RequestRow
    BY <1>2 DEF CompletedEntity, RequestRow
  <1>4. [e EXCEPT !.status = "FAILED"] \in RequestRow
    BY <1>1 DEF RequestRow, RequestStatus
  <1>5. /\ CompletedRequest(w) \in [Requests -> RequestRow]
        /\ FailedRequest(w) \in [Requests -> RequestRow]
    BY <1>1, <1>3, <1>4 DEF CompletedRequest, FailedRequest, StoreTypeOK
  <1>6. ASSUME HasRow(w)
        PROVE  /\ SucceededDispatch(w) \in Seq(DispatchRow)
               /\ DOMAIN SucceededDispatch(w) = DOMAIN dispatch
               /\ WaitingDispatch(w) \in Seq(DispatchRow)
               /\ DOMAIN WaitingDispatch(w) = DOMAIN dispatch
               /\ FailedDispatch(w) \in Seq(DispatchRow)
               /\ DOMAIN FailedDispatch(w) = DOMAIN dispatch
    <2>1. dispatch \in Seq(DispatchRow) /\ i \in DOMAIN dispatch
      BY <1>6 DEF StoreTypeOK, WorkerTypeOK
    <2>2. dispatch[i] \in DispatchRow
      BY <2>1, ElementOfSeq, LenProperties
    <2>3. \A st \in {"SUCCESS", "FAILED"} : [dispatch[i] EXCEPT !.status = st] \in DispatchRow
      BY <2>2 DEF DispatchRow
    <2>4. [dispatch[i] EXCEPT !.status = "RETRY_WAIT",
                              !.retryCount = dispatch[i].retryCount + 1,
                              !.nextRetryAt = "future"] \in DispatchRow
      <3>1. dispatch[i].retryCount + 1 \in Nat
        BY <2>2 DEF DispatchRow
      <3> QED BY <2>2, <3>1, WaitingRow
    <2>5. /\ SucceededDispatch(w) = [dispatch EXCEPT ![i] = [dispatch[i] EXCEPT !.status = "SUCCESS"]]
          /\ FailedDispatch(w) = [dispatch EXCEPT ![i] = [dispatch[i] EXCEPT !.status = "FAILED"]]
      BY <2>1 DEF SucceededDispatch, FailedDispatch
    <2>6. WaitingDispatch(w) =
            [dispatch EXCEPT ![i] = [dispatch[i] EXCEPT !.status = "RETRY_WAIT",
                                       !.retryCount = dispatch[i].retryCount + 1,
                                       !.nextRetryAt = "future"]]
      BY <2>1, <2>2 DEF WaitingDispatch, DispatchRow
    <2> QED BY <2>1, <2>3, <2>4, <2>5, <2>6, UpdatedTable
  <1> QED BY <1>1, <1>3, <1>5, <1>6

\* A step that only moves the handler of w to another await.
LEMMA MoveTyping ==
    ASSUME StoreTypeOK, WorkerTypeOK, NEW w \in Workers, ~WorkerAt(w, "idle"),
           DOMAIN dispatch \subseteq DOMAIN dispatch',
           UNCHANGED <<position, committed, overtaken>>,
           NEW pc \in WorkerPc \ {"idle"}, NEW row \in RequestRow,
           HasRow(w) \/ pc \in {"findSuccess", "createDispatch"},
           \/ worker' = [worker EXCEPT ![w].pc = pc, ![w].entity = row]
           \/ worker' = [worker EXCEPT ![w].pc = pc]
    PROVE  WorkerTypeOK'
  <1>1. worker[w] \in WorkerRecord /\ worker[w].req \in Requests
    BY DEF WorkerTypeOK, WorkerAt
  <1>2. HasRow(w) => worker[w].id \in DOMAIN dispatch'
    BY DEF WorkerTypeOK
  <1> DEFINE moved == [worker[w] EXCEPT !.pc = pc]
             read == [worker[w] EXCEPT !.pc = pc, !.entity = row]
  <1>3. moved \in WorkerRecord /\ moved.req = worker[w].req /\ moved.id = worker[w].id /\ moved.pc = pc
    BY <1>1 DEF WorkerRecord
  <1>4. read \in WorkerRecord /\ read.req = worker[w].req /\ read.id = worker[w].id /\ read.pc = pc
    BY <1>1 DEF WorkerRecord
  <1>5. CASE worker' = [worker EXCEPT ![w].pc = pc]
    <2>1. worker' = [worker EXCEPT ![w] = moved]
      BY <1>5 DEF WorkerTypeOK
    <2> HIDE DEF moved
    <2> QED BY <2>1, <1>1, <1>2, <1>3, HandlerTyping
  <1>6. CASE worker' = [worker EXCEPT ![w].pc = pc, ![w].entity = row]
    <2>1. worker' = [worker EXCEPT ![w] = read]
      BY <1>6, <1>1 DEF WorkerTypeOK
    <2> HIDE DEF read
    <2> QED BY <2>1, <1>1, <1>2, <1>4, HandlerTyping
  <1> QED BY <1>5, <1>6

LEMMA StepTyping ==
    ASSUME StoreTypeOK, WorkerTypeOK, NEW w \in Workers, WorkerStep(w)
    PROVE  /\ StoreTypeOK' /\ WorkerTypeOK'
           /\ DOMAIN dispatch \subseteq DOMAIN dispatch'
  <1>1. ~WorkerAt(w, "idle") =>
           /\ worker[w].req \in Requests
           /\ worker[w].entity \in RequestRow
           /\ NewDispatch(worker[w].req) \in DispatchRow
    BY StoreAssumption
    DEF WorkerTypeOK, WorkerAt, WorkerRecord, NewDispatch, DispatchRow
  <1>2. HasRow(w) => ~WorkerAt(w, "idle")
    BY DEF HasRow, WorkerAt
  <1>3. \A r \in Requests : request[r] \in RequestRow
    BY DEF StoreTypeOK
  <1>4. ASSUME NEW r \in Requests, Deliver(w, r)
        PROVE  StoreTypeOK' /\ WorkerTypeOK' /\ dispatch' = dispatch
    <2> DEFINE rec == [WorkerIdle EXCEPT !.pc = "findRequest", !.req = r, !.live = TRUE]
    <2>1. rec \in WorkerRecord /\ rec.pc = "findRequest" /\ rec.req = r
      BY DEF WorkerIdle, WorkerRecord, WorkerPc, AbsentRow, RequestRow, RequestStatus
    <2>2. worker' = [worker EXCEPT ![w] = rec]
      BY <1>4 DEF Deliver
    <2> HIDE DEF rec
    <2> QED BY <1>4, <2>1, <2>2, HandlerTyping DEF Deliver, storeVars, StoreTypeOK
  <1>5. ASSUME NEW r \in Requests, SkipOtherChannel(w, r)
        PROVE  StoreTypeOK' /\ WorkerTypeOK' /\ dispatch' = dispatch
    <2> DEFINE c == ChannelOf[w]
    <2>1. c \in Channels /\ position[c][r] \in Nat
      BY WorkerAssumption DEF WorkerTypeOK
    <2>2. position' \in [Channels -> [Requests -> Nat]]
      BY <1>5, <2>1 DEF SkipOtherChannel, Consume, WorkerTypeOK
    <2>3. committed' \in [Channels -> [Requests -> Nat \cup {NoOffset}]]
      <3>1. CASE committed' = [committed EXCEPT ![c][r] = position[c][r] + 1]
        BY <3>1, <2>1 DEF WorkerTypeOK
      <3>2. CASE UNCHANGED committed
        BY <3>2 DEF WorkerTypeOK
      <3> QED BY <3>1, <3>2, <1>5 DEF SkipOtherChannel, Consume
    <2> QED
      BY <1>5, <2>2, <2>3
      DEF SkipOtherChannel, storeVars, StoreTypeOK, WorkerTypeOK, HasRow
  <1>6. CASE FindRequest(w)
    <2>1. ~WorkerAt(w, "idle") /\ StoreTypeOK' /\ dispatch' = dispatch
      BY <1>6 DEF FindRequest, WorkerAt, storeVars, StoreTypeOK
    <2>2. CASE Return(w)
      BY <2>1, <2>2, ReturnTyping
    <2>3. CASE ~Return(w)
      <3>1. /\ worker' = [worker EXCEPT ![w].pc = "findSuccess",
                                        ![w].entity = request[worker[w].req]]
            /\ UNCHANGED <<position, committed, overtaken>>
        BY <1>6, <2>3 DEF FindRequest
      <3>2. request[worker[w].req] \in RequestRow
        BY <1>1, <1>3, <2>1
      <3>3. "findSuccess" \in WorkerPc \ {"idle"}
        BY DEF WorkerPc
      <3> QED BY <2>1, <3>1, <3>2, <3>3, MoveTyping
    <2> QED BY <2>1, <2>2, <2>3
  <1>7. CASE FindSuccess(w)
    <2>1. ~WorkerAt(w, "idle") /\ StoreTypeOK' /\ dispatch' = dispatch
      BY <1>7 DEF FindSuccess, WorkerAt, storeVars, StoreTypeOK
    <2>2. CASE Return(w)
      BY <2>1, <2>2, ReturnTyping
    <2>3. CASE ~Return(w)
      <3>1. /\ worker' = [worker EXCEPT ![w].pc = "createDispatch"]
            /\ UNCHANGED <<position, committed, overtaken>>
        BY <1>7, <2>3 DEF FindSuccess, WorkerGoto
      <3>2. "createDispatch" \in WorkerPc \ {"idle"}
        BY DEF WorkerPc
      <3> QED BY <2>1, <3>1, <3>2, <1>1, MoveTyping
    <2> QED BY <2>1, <2>2, <2>3
  <1>8. CASE CreateDispatch(w)
    <2> DEFINE n == Len(dispatch) + 1
               rec == [worker[w] EXCEPT !.pc = "logRequest", !.id = n]
    <2>1. ~WorkerAt(w, "idle")
      BY <1>8 DEF CreateDispatch, WorkerAt
    <2>2. /\ dispatch' \in Seq(DispatchRow)
          /\ DOMAIN dispatch \subseteq DOMAIN dispatch'
          /\ n \in DOMAIN dispatch'
      BY <1>8, <2>1, <1>1, ExtendedTable DEF CreateDispatch, StoreTypeOK
    <2>3. n \in Nat
      BY LenProperties DEF StoreTypeOK
    <2>4. worker' = [worker EXCEPT ![w] = rec]
      BY <1>8 DEF CreateDispatch, WorkerTypeOK, WorkerRecord
    <2>5. rec \in WorkerRecord /\ rec.req = worker[w].req /\ rec.id = n
      <3> HIDE DEF n
      <3>1. worker[w] \in WorkerRecord
        BY DEF WorkerTypeOK
      <3> QED BY <2>3, <3>1 DEF WorkerRecord, WorkerPc
    <2>6. WorkerTypeOK'
      <3> HIDE DEF rec, n
      <3> QED BY <1>8, <2>1, <2>2, <2>4, <2>5, <1>1, HandlerTyping DEF CreateDispatch
    <2> QED BY <1>8, <2>2, <2>6 DEF CreateDispatch, StoreTypeOK
  <1>9. CASE WriteLog(w)
    <2>1. HasRow(w)
      BY <1>9 DEF WriteLog, HasRow, WorkerAt
    <2>2. PICK pc \in WorkerPc \ {"idle"} : worker' = [worker EXCEPT ![w].pc = pc]
      BY <1>9 DEF WriteLog, WorkerGoto, WorkerPc
    <2> QED
      BY <1>9, <2>1, <2>2, <1>1, <1>2, MoveTyping DEF WriteLog, storeVars, StoreTypeOK
  <1>10. CASE SaveSuccess(w) \/ SaveRetry(w) \/ SaveFailed(w)
    <2>1. HasRow(w)
      BY <1>10 DEF SaveSuccess, SaveRetry, SaveFailed, HasRow, WorkerAt
    <2>2. PICK pc \in WorkerPc \ {"idle"} : worker' = [worker EXCEPT ![w].pc = pc]
      BY <1>10 DEF SaveSuccess, SaveRetry, SaveFailed, WorkerGoto, WorkerPc
    <2>3. dispatch' \in Seq(DispatchRow) /\ DOMAIN dispatch' = DOMAIN dispatch
      BY <1>10, <2>1, <1>2, HandlerRows DEF SaveSuccess, SaveRetry, SaveFailed
    <2>4. UNCHANGED <<position, committed, overtaken, request, payload, outbox,
                      topic, dlqTopic, faults>>
      BY <1>10 DEF SaveSuccess, SaveRetry, SaveFailed
    <2>5. WorkerTypeOK'
      BY <2>1, <2>2, <2>3, <2>4, <1>1, <1>2, MoveTyping
    <2> QED BY <2>3, <2>4, <2>5 DEF StoreTypeOK
  <1>11. CASE SaveCompleted(w)
    <2>1. ~WorkerAt(w, "idle")
      BY <1>11 DEF SaveCompleted, WorkerAt
    <2>2. request' \in [Requests -> RequestRow]
      BY <1>11, <2>1, HandlerRows DEF SaveCompleted
    <2> QED BY <1>11, <2>1, <2>2, ReturnTyping DEF SaveCompleted, StoreTypeOK
  <1>12. CASE TryFails(w)
    <2>1. HasRow(w)
      BY <1>12 DEF TryFails, HasRow, WorkerAt
    <2>2. /\ dispatch' \in Seq(DispatchRow) /\ DOMAIN dispatch' = DOMAIN dispatch
          /\ request' \in [Requests -> RequestRow]
      BY <1>12, <2>1, <1>2, HandlerRows DEF TryFails, AfterFailedSave, StoreTypeOK
    <2>3. faults' \in 0..MaxFaults
      BY <1>12, FaultTyping DEF TryFails
    <2>4. PICK row \in RequestRow, pc \in WorkerPc \ {"idle"} :
             worker' = [worker EXCEPT ![w].pc = pc, ![w].entity = row]
      <3>1. PICK row \in RequestRow : Caught(w, row)
        BY <1>12, <2>1, <1>1, <1>2, HandlerRows DEF TryFails
      <3>2. (IF CanRetry(w) THEN "saveRetry" ELSE "saveFailed") \in WorkerPc \ {"idle"}
        BY DEF WorkerPc
      <3> QED BY <3>1, <3>2 DEF Caught
    <2>5. WorkerTypeOK'
      BY <1>12, <2>1, <2>2, <2>4, <1>2, MoveTyping DEF TryFails
    <2> QED BY <1>12, <2>2, <2>3, <2>5 DEF TryFails, StoreTypeOK
  <1>13. CASE LogRetry(w)
    BY <1>13, ReturnTyping DEF LogRetry, WorkerAt, storeVars, StoreTypeOK
  <1>14. CASE SaveRequestFailed(w)
    <2>1. HasRow(w)
      BY <1>14 DEF SaveRequestFailed, HasRow, WorkerAt
    <2>2. "publishDlq" \in WorkerPc \ {"idle"}
      BY DEF WorkerPc
    <2>3. request' \in [Requests -> RequestRow]
      BY <1>14, <2>1, <1>2, HandlerRows DEF SaveRequestFailed
    <2>4. WorkerTypeOK'
      BY <1>14, <2>1, <2>2, <1>1, <1>2, MoveTyping DEF SaveRequestFailed, WorkerGoto
    <2> QED BY <1>14, <2>3, <2>4 DEF SaveRequestFailed, StoreTypeOK
  <1>15. CASE PublishDlq(w)
    <2>1. ~WorkerAt(w, "idle") /\ worker[w].id \in Nat
      BY <1>15 DEF PublishDlq, WorkerAt, WorkerTypeOK, WorkerRecord
    <2>2. Append(dlqTopic, worker[w].id) \in Seq(Nat)
      BY <2>1, AppendProperties DEF StoreTypeOK
    <2>3. dlqTopic' \in Seq(Nat)
      BY <1>15, <2>2 DEF PublishDlq, StoreTypeOK
    <2>4. faults' \in 0..MaxFaults
      BY <1>15, FaultTyping DEF PublishDlq, StoreTypeOK
    <2>5. WorkerTypeOK'
      BY <1>15, <2>1, ReturnTyping DEF PublishDlq
    <2> QED BY <1>15, <2>3, <2>4, <2>5 DEF PublishDlq, StoreTypeOK
  <1>16. CASE EventFails(w)
    <2>1. ~WorkerAt(w, "idle")
      BY <1>16 DEF EventFails, WorkerAt
    <2>2. /\ dispatch' \in Seq(DispatchRow)
          /\ DOMAIN dispatch \subseteq DOMAIN dispatch'
          /\ request' \in [Requests -> RequestRow]
      <3>1. CASE /\ worker[w].pc \in {"findRequest", "findSuccess", "logRequest", "logFail"}
                 /\ UNCHANGED <<request, dispatch>>
        BY <3>1 DEF StoreTypeOK
      <3>2. CASE /\ dispatch' \in AfterFailedSave(
                             dispatch, Append(dispatch, NewDispatch(worker[w].req)))
                 /\ UNCHANGED request
        <4> DEFINE row == NewDispatch(worker[w].req)
        <4>1. Append(dispatch, row) \in Seq(DispatchRow)
              /\ DOMAIN dispatch \subseteq DOMAIN Append(dispatch, row)
          BY <2>1, <1>1, ExtendedTable DEF StoreTypeOK
        <4>2. dispatch' = dispatch \/ dispatch' = Append(dispatch, row)
          BY <3>2 DEF AfterFailedSave
        <4> QED BY <3>2, <4>1, <4>2 DEF StoreTypeOK
      <3>3. CASE /\ WorkerAt(w, "saveRetry")
                 /\ dispatch' \in AfterFailedSave(dispatch, WaitingDispatch(w))
                 /\ UNCHANGED request
        BY <3>3, <2>1, HandlerRows DEF StoreTypeOK, AfterFailedSave, HasRow, WorkerAt
      <3>4. CASE /\ WorkerAt(w, "saveFailed")
                 /\ dispatch' \in AfterFailedSave(dispatch, FailedDispatch(w))
                 /\ UNCHANGED request
        BY <3>4, <2>1, HandlerRows DEF StoreTypeOK, AfterFailedSave, HasRow, WorkerAt
      <3>5. CASE /\ request' \in AfterFailedSave(request, FailedRequest(w))
                 /\ UNCHANGED dispatch
        BY <3>5, <2>1, HandlerRows DEF StoreTypeOK, AfterFailedSave
      <3> QED BY <1>16, <3>1, <3>2, <3>3, <3>4, <3>5 DEF EventFails
    <2>3. faults' \in 0..MaxFaults
      BY <1>16, FaultTyping DEF EventFails
    <2>4. WorkerTypeOK'
      BY <1>16, <2>1, <2>2, ReturnTyping DEF EventFails
    <2> QED BY <1>16, <2>2, <2>3, <2>4 DEF EventFails, StoreTypeOK
  <1> QED
    BY <1>4, <1>5, <1>6, <1>7, <1>8, <1>9, <1>10, <1>11, <1>12, <1>13, <1>14,
       <1>15, <1>16 DEF WorkerStep

LEMMA WorkerTyping ==
    ASSUME StoreTypeOK, WorkerTypeOK, WorkerNext
    PROVE  /\ StoreTypeOK' /\ WorkerTypeOK'
           /\ DOMAIN dispatch \subseteq DOMAIN dispatch'
  <1>1. PICK w \in Workers : \/ WorkerStep(w)
                             \/ WorkerCrash(w)
                             \/ \E r \in Requests : IdleCrash(w, r)
                             \/ Rebalance(w)
    BY DEF WorkerNext
  <1> DEFINE c == ChannelOf[w]
  <1>2. /\ c \in Channels
        /\ ~WorkerAt(w, "idle") => worker[w].req \in Requests
        /\ WorkerIdle \in WorkerRecord
        /\ WorkerIdle.pc = "idle"
    BY WorkerAssumption
    DEF WorkerTypeOK, WorkerAt, WorkerIdle, WorkerRecord, WorkerPc, AbsentRow,
        RequestRow, RequestStatus
  <1>3. CASE WorkerCrash(w)
    <2>1. faults' \in 0..MaxFaults
      BY <1>3, FaultTyping DEF WorkerCrash
    <2>2. position' \in [Channels -> [Requests -> Nat]]
      <3>1. CASE Restart(c, worker[w].req)
        BY <3>1, <1>2, <1>3, RestartTyping DEF WorkerCrash
      <3>2. CASE UNCHANGED position
        BY <3>2 DEF WorkerTypeOK
      <3> QED BY <3>1, <3>2, <1>3 DEF WorkerCrash
    <2>3. \A v \in Workers : worker'[v] = IF v = w THEN WorkerIdle ELSE worker[v]
      BY <1>3 DEF WorkerCrash, WorkerTypeOK
    <2>4. /\ worker' \in [Workers -> WorkerRecord]
          /\ \A v \in Workers : worker'[v].pc # "idle" => worker'[v].req \in Requests
          /\ \A v \in Workers : HasRow(v)' => worker'[v].id \in DOMAIN dispatch'
      BY <1>2, <1>3, <2>3 DEF WorkerCrash, WorkerTypeOK, HasRow
    <2> QED BY <1>3, <2>1, <2>2, <2>4 DEF WorkerCrash, StoreTypeOK, WorkerTypeOK
  <1>4. CASE \E r \in Requests : IdleCrash(w, r)
    <2>1. PICK r \in Requests : IdleCrash(w, r)
      BY <1>4
    <2>2. faults' \in 0..MaxFaults
      BY <2>1, FaultTyping DEF IdleCrash
    <2>3. position' \in [Channels -> [Requests -> Nat]]
      BY <2>1, <1>2, RestartTyping DEF IdleCrash
    <2> QED BY <2>1, <2>2, <2>3 DEF IdleCrash, StoreTypeOK, WorkerTypeOK, HasRow
  <1>5. CASE Rebalance(w)
    <2> DEFINE r == worker[w].req
    <2>1. faults' \in 0..MaxFaults
      BY <1>5, FaultTyping DEF Rebalance
    <2>2. position' \in [Channels -> [Requests -> Nat]]
      BY <1>5, <1>2, RestartTyping DEF Rebalance
    <2>3. overtaken' \in [Requests -> Nat]
      BY <1>5, <1>2 DEF Rebalance, WorkerTypeOK
    <2>4. /\ worker' \in [Workers -> WorkerRecord]
          /\ \A v \in Workers : /\ worker'[v].pc = worker[v].pc
                                /\ worker'[v].req = worker[v].req
                                /\ worker'[v].id = worker[v].id
      BY <1>5 DEF Rebalance, WorkerTypeOK, WorkerRecord
    <2> QED
      BY <1>5, <2>1, <2>2, <2>3, <2>4 DEF Rebalance, StoreTypeOK, WorkerTypeOK, HasRow
  <1> QED BY <1>1, <1>3, <1>4, <1>5, StepTyping

LEMMA DlqTyping ==
    ASSUME StoreTypeOK, DlqTypeOK, DlqNext
    PROVE  StoreTypeOK' /\ DlqTypeOK' /\ UNCHANGED dispatch
  <1>1. Len(dlqTopic) \in Nat
    BY LenProperties DEF StoreTypeOK
  <1>2. DlqUnread => DlqEntry \in Nat
    <2> SUFFICES ASSUME DlqUnread PROVE DlqEntry \in Nat
      OBVIOUS
    <2>1. dlqPosition + 1 \in 1..Len(dlqTopic)
      BY <1>1 DEF DlqUnread, DlqTypeOK
    <2> QED BY <2>1, ElementOfSeq DEF DlqEntry, StoreTypeOK
  <1>3. DlqUnread => Append(dlqTable, DlqEntry) \in Seq(Nat)
    BY <1>2, AppendProperties DEF DlqTypeOK
  <1>4. CASE SaveDlqEntry
    BY <1>4, <1>3 DEF SaveDlqEntry, DlqConsumed, DlqTypeOK, StoreTypeOK, storeVars
  <1>5. CASE SaveDlqEntryFails
    <2>1. faults' \in 0..MaxFaults
      BY <1>5, FaultTyping DEF SaveDlqEntryFails
    <2>2. dlqTable' \in Seq(Nat)
      BY <1>5, <1>3 DEF SaveDlqEntryFails, AfterFailedSave, DlqTypeOK
    <2> QED
      BY <1>5, <2>1, <2>2 DEF SaveDlqEntryFails, DlqConsumed, DlqTypeOK, StoreTypeOK
  <1>6. CASE DlqCrash
    <2>1. faults' \in 0..MaxFaults
      BY <1>6, FaultTyping DEF DlqCrash
    <2>2. dlqPosition' \in Nat
      BY <1>6, <1>1 DEF DlqCrash, DlqTypeOK
    <2> QED BY <1>6, <2>1, <2>2 DEF DlqCrash, DlqTypeOK, StoreTypeOK
  <1> QED BY <1>4, <1>5, <1>6 DEF DlqNext, DlqStep

LEMMA EnvironmentTyping ==
    ASSUME StoreTypeOK, EnvironmentNext
    PROVE  StoreTypeOK' /\ DOMAIN dispatch' = DOMAIN dispatch
  <1>1. CASE \E r \in Requests : PurgePayload(r)
    <2>1. PICK r \in Requests : PurgePayload(r)
      BY <1>1
    <2>2. faults' \in 0..MaxFaults
      BY <2>1, FaultTyping DEF PurgePayload
    <2> QED BY <2>1, <2>2 DEF PurgePayload, StoreTypeOK
  <1>2. CASE \E i \in DOMAIN dispatch : BackoffElapses(i)
    <2>1. PICK i \in DOMAIN dispatch : BackoffElapses(i)
      BY <1>2
    <2>2. dispatch[i] \in DispatchRow
      BY ElementOfSeq, LenProperties DEF StoreTypeOK
    <2>3. [dispatch[i] EXCEPT !.nextRetryAt = "due"] \in DispatchRow
      BY <2>2 DEF DispatchRow
    <2>4. dispatch' = [dispatch EXCEPT ![i] = [dispatch[i] EXCEPT !.nextRetryAt = "due"]]
      BY <2>1 DEF BackoffElapses
    <2>5. dispatch' \in Seq(DispatchRow) /\ DOMAIN dispatch' = DOMAIN dispatch
      BY <2>3, <2>4, UpdatedTable DEF StoreTypeOK
    <2> QED BY <2>1, <2>5 DEF BackoffElapses, StoreTypeOK
  <1> QED BY <1>1, <1>2 DEF EnvironmentNext

\* A page shows rows of the table.
LEMMA AdminTyping ==
    ASSUME AdminTypeOK, DlqTypeOK, AdminNext
    PROVE  AdminTypeOK'
  <1>1. Rows \subseteq Nat
    BY LenProperties DEF Rows, DlqTypeOK
  <1>2. CASE Begin
    <2>1. Len(dlqTable) \in Nat
      BY LenProperties DEF DlqTypeOK
    <2> QED BY <1>2, <2>1 DEF Begin, AdminTypeOK
  <1>3. CASE ReadPage
    <2>0. PICK failedAt \in FailureTimes : \E order \in NewestFirst(failedAt) :
             LET rows == PageRows(order, walk.page) IN
             walk' = [walk EXCEPT
                        !.shown = @ \cup rows,
                        !.page = @ + 1,
                        !.failedAt = failedAt,
                        !.pc = IF Cardinality(rows) < PageLimit THEN "done" ELSE @]
      BY <1>3 DEF ReadPage
    <2>1. PICK order \in NewestFirst(failedAt) :
             LET rows == PageRows(order, walk.page) IN
             walk' = [walk EXCEPT
                        !.shown = @ \cup rows,
                        !.page = @ + 1,
                        !.failedAt = failedAt,
                        !.pc = IF Cardinality(rows) < PageLimit THEN "done" ELSE @]
      BY <2>0
    <2>2. PageRows(order, walk.page) \subseteq Nat
      BY <1>1 DEF PageRows, NewestFirst
    <2>3. \A k \in Rows : dlqTable[k] \in Nat
      BY ElementOfSeq, LenProperties DEF Rows, DlqTypeOK
    <2>4. \A i \in DOMAIN failedAt : i \in Nat /\ failedAt[i] \in Nat
      BY <2>3, StoreAssumption DEF FailureTimes
    <2> QED BY <2>1, <2>2, <2>4 DEF AdminTypeOK
  <1> QED BY <1>2, <1>3 DEF AdminNext

\* What the other components hold stays typed: rows are never deleted.
LEMMA FrameTyping ==
    ASSUME DOMAIN dispatch \subseteq DOMAIN dispatch'
    PROVE  /\ GatewayTypeOK /\ UNCHANGED send => GatewayTypeOK'
           /\ RelayTypeOK /\ UNCHANGED relay => RelayTypeOK'
           /\ RetryTypeOK /\ UNCHANGED retry => RetryTypeOK'
           /\ WorkerTypeOK /\ UNCHANGED workerVars => WorkerTypeOK'
           /\ DlqTypeOK /\ UNCHANGED dlqVars => DlqTypeOK'
           /\ AdminTypeOK /\ UNCHANGED walk => AdminTypeOK'
  <1>1. GatewayTypeOK /\ UNCHANGED send => GatewayTypeOK'
    BY DEF GatewayTypeOK
  <1>2. RelayTypeOK /\ UNCHANGED relay => RelayTypeOK'
    BY DEF RelayTypeOK
  <1>3. RetryTypeOK /\ UNCHANGED retry => RetryTypeOK'
    BY DEF RetryTypeOK
  <1>4. WorkerTypeOK /\ UNCHANGED workerVars => WorkerTypeOK'
    BY DEF WorkerTypeOK, workerVars, HasRow
  <1>5. DlqTypeOK /\ UNCHANGED dlqVars => DlqTypeOK'
    BY DEF DlqTypeOK, dlqVars
  <1>6. AdminTypeOK /\ UNCHANGED walk => AdminTypeOK'
    BY DEF AdminTypeOK
  <1> QED BY <1>1, <1>2, <1>3, <1>4, <1>5, <1>6

LEMMA TypeInit == Init => TypeOK
  <1> SUFFICES ASSUME Init PROVE TypeOK
    OBVIOUS
  <1>1. AbsentRow \in RequestRow
    BY DEF AbsentRow, RequestRow, RequestStatus
  <1>2. StoreTypeOK
    <2>1. << >> \in Seq(DispatchRow) /\ << >> \in Seq(Nat)
      BY EmptySeq
    <2> QED BY <1>1, <2>1, StoreAssumption DEF Init, StoreInit, StoreTypeOK, OutboxRow
  <1>3. GatewayTypeOK
    <2> DEFINE rec == [pc |-> "idle", req |-> None, entity |-> AbsentRow,
                       startedAt |-> 0, response |-> "none"]
    <2>1. rec \in SendRecord
      BY <1>1 DEF SendRecord, SendPc, Responses
    <2>2. send = [s \in Sends |-> rec]
      BY DEF Init, GatewayInit
    <2>3. rec.pc = "idle"
      OBVIOUS
    <2> HIDE DEF rec
    <2> QED BY <2>1, <2>2, <2>3 DEF GatewayTypeOK
  <1>4. RelayTypeOK
    BY DEF Init, RelayInit, RelayTypeOK, RelayRecord, RelayIdle, RelayPc
  <1>5. RetryTypeOK
    BY DEF Init, RetryInit, RetryTypeOK, RetryRecord, RetryIdle, RetryPc
  <1>6. WorkerTypeOK
    BY <1>1 DEF Init, WorkerInit, WorkerTypeOK, WorkerRecord, WorkerIdle, WorkerPc,
                HasRow, NoOffset
  <1>7. DlqTypeOK
    BY EmptySeq DEF Init, DlqInit, DlqTypeOK
  <1>8. AdminTypeOK
    BY DEF Init, AdminInit, AdminTypeOK
  <1> QED BY <1>2, <1>3, <1>4, <1>5, <1>6, <1>7, <1>8 DEF TypeOK

LEMMA TypeStep == TypeOK /\ [Next]_vars => TypeOK'
  <1> SUFFICES ASSUME TypeOK, [Next]_vars PROVE TypeOK'
    OBVIOUS
  <1> USE DEF TypeOK
  <1>1. CASE GatewayNext /\ UNCHANGED <<relay, retry, workerVars, dlqVars, walk>>
    BY <1>1, GatewayTyping, FrameTyping
  <1>2. CASE RelayNext /\ UNCHANGED <<send, retry, workerVars, dlqVars, walk>>
    BY <1>2, RelayTyping, FrameTyping
  <1>3. CASE RetryNext /\ UNCHANGED <<send, relay, workerVars, dlqVars, walk>>
    BY <1>3, RetryTyping, FrameTyping
  <1>4. CASE WorkerNext /\ UNCHANGED <<send, relay, retry, dlqVars, walk>>
    BY <1>4, WorkerTyping, FrameTyping
  <1>5. CASE DlqNext /\ UNCHANGED <<send, relay, retry, workerVars, walk>>
    BY <1>5, DlqTyping, FrameTyping
  <1>6. CASE EnvironmentNext /\ UNCHANGED <<send, relay, retry, workerVars, dlqVars, walk>>
    BY <1>6, EnvironmentTyping, FrameTyping
  <1>7. CASE UNCHANGED vars
    BY <1>7, FrameTyping DEF vars, storeVars, StoreTypeOK
  <1>8. CASE AdminNext /\ UNCHANGED <<send, relay, retry, workerVars>>
    <2>1. AdminTypeOK'
      BY <1>8, AdminTyping
    <2>2. UNCHANGED storeVars /\ UNCHANGED dlqVars
      BY <1>8 DEF AdminNext
    <2>3. StoreTypeOK' /\ UNCHANGED dispatch
      BY <2>2 DEF storeVars, StoreTypeOK
    <2> QED BY <1>8, <2>1, <2>2, <2>3, FrameTyping
  <1> QED BY <1>1, <1>2, <1>3, <1>4, <1>5, <1>6, <1>7, <1>8 DEF Next

\* Every table, topic and local record keeps its type, and a handler or a
\* scheduler run that holds a dispatch id holds one that exists.
THEOREM TypeCorrect == Spec => []TypeOK
  BY TypeInit, TypeStep, PTL DEF Spec

-----------------------------------------------------------------------------
(* What a client is told is true: the safety of the intake.  The argument:  *)
(* a row, once committed, is only ever overwritten by copies of a committed *)
(* row, and every writer that moves a request away from VALIDATED, or an    *)
(* outbox row to PUBLISHED, has sent or received an event of it before.     *)

\* Calls past the transaction, or past the lookup of a VALIDATED row.
Holding == {"publish", "markPublished", "markQueued",
            "findPayload", "republish", "markRequeued"}

Sent == {"markPublished", "markQueued", "markRequeued"}

HoldersAreStored ==
    \A s \in Sends :
       send[s].pc \in Holding =>
          Committed(send[s].req) /\ send[s].entity.status # "ABSENT"

SendersPublished ==
    \A s \in Sends : send[s].pc \in Sent => Published(send[s].req)

RelaysPublished ==
    \A t \in RelayTicks : relay[t].pc = "savePublished" => Published(relay[t].entry)

HandlersHoldEvents ==
    \A w \in Workers :
       /\ worker[w].pc # "idle" => Published(worker[w].req)
       /\ worker[w].pc \notin {"idle", "findRequest"} => worker[w].entity.status # "ABSENT"

AnswersAreLast ==
    \A s \in Sends : send[s].response # "none" => send[s].pc = "done"

\* What the calls hold and were answered.
CallsInv ==
    /\ AnswersAreLast
    /\ AcknowledgedIsPublished
    /\ UnavailableIsStored
    /\ SingleCreator
    /\ HoldersAreStored
    /\ SendersPublished

IntakeInv ==
    /\ TypeOK
    /\ UnpublishedIsRecoverable
    /\ CallsInv
    /\ RelaysPublished
    /\ HandlersHoldEvents

-----------------------------------------------------------------------------
(***************************************************************************)
(* What may happen to the tables and the topic.                            *)
(***************************************************************************)
\* A committed request stays committed, a published one published.
Grows ==
    \A r \in Requests : /\ Committed(r) => Committed(r)'
                        /\ Published(r) => Published(r)'

LEMMA NothingWritten ==
    ASSUME UnpublishedIsRecoverable, UNCHANGED <<request, outbox, topic>>
    PROVE  Grows /\ UnpublishedIsRecoverable'
  BY DEF Grows, UnpublishedIsRecoverable, Committed, Published

LEMMA EventSent ==
    ASSUME StoreTypeOK, UnpublishedIsRecoverable, NEW r \in Requests,
           topic' = Appended(r), UNCHANGED <<request, outbox>>
    PROVE  Grows /\ UnpublishedIsRecoverable' /\ Published(r)'
  <1>1. \A q \in Requests : topic[q] \in Nat
                            /\ topic'[q] = IF q = r THEN topic[q] + 1 ELSE topic[q]
    BY DEF StoreTypeOK, Appended
  <1>2. Published(r)' /\ \A q \in Requests : Published(q) => Published(q)'
    BY <1>1 DEF Published
  <1>3. \A q \in Requests : Committed(q) <=> Committed(q)'
    BY DEF Committed
  <1> QED BY <1>2, <1>3 DEF Grows, UnpublishedIsRecoverable

LEMMA SendFailed ==
    ASSUME StoreTypeOK, UnpublishedIsRecoverable, NEW r \in Requests,
           topic' \in AfterFailedSend(r), UNCHANGED <<request, outbox>>
    PROVE  Grows /\ UnpublishedIsRecoverable'
  <1>1. topic' = Appended(r) \/ UNCHANGED topic
    BY DEF AfterFailedSend
  <1> QED BY <1>1, EventSent, NothingWritten

LEMMA RequestSaved ==
    ASSUME StoreTypeOK, UnpublishedIsRecoverable, NEW r \in Requests, Published(r),
           NEW row, row.status # "ABSENT",
           request' = [request EXCEPT ![r] = row], UNCHANGED <<outbox, topic>>
    PROVE  Grows /\ UnpublishedIsRecoverable'
  <1>1. \A q \in Requests : request'[q] = IF q = r THEN row ELSE request[q]
    BY DEF StoreTypeOK
  <1> QED BY <1>1 DEF Grows, UnpublishedIsRecoverable, Committed, Published

LEMMA OutboxSaved ==
    ASSUME StoreTypeOK, UnpublishedIsRecoverable, NEW r \in Requests,
           NEW status \in {"PUBLISHED", "FAILED"}, status = "PUBLISHED" => Published(r),
           outbox' = [outbox EXCEPT ![r].status = status], UNCHANGED <<request, topic>>
    PROVE  Grows /\ UnpublishedIsRecoverable'
  <1>1. \A q \in Requests : outbox'[q].status = IF q = r THEN status ELSE outbox[q].status
    BY DEF StoreTypeOK, OutboxRow
  <1> QED BY <1>1 DEF Grows, UnpublishedIsRecoverable, Committed, Published

LEMMA RowsInserted ==
    ASSUME StoreTypeOK, UnpublishedIsRecoverable, NEW s \in Sends, NEW c \in Channels,
           NEW r \in Requests, send[s].req = r, InsertRows(s, c), UNCHANGED topic
    PROVE  /\ Grows /\ UnpublishedIsRecoverable'
           /\ Committed(r)'
           /\ NewRow(c).status # "ABSENT"
  <1>1. \A q \in Requests :
           /\ request'[q] = IF q = r THEN NewRow(c) ELSE request[q]
           /\ outbox'[q] = IF q = r THEN NewOutboxRow(s) ELSE outbox[q]
    BY DEF StoreTypeOK, InsertRows
  <1>2. NewRow(c).status = "VALIDATED" /\ NewOutboxRow(s).status = "PENDING"
    BY DEF NewRow, NewOutboxRow
  <1> QED BY <1>1, <1>2 DEF Grows, UnpublishedIsRecoverable, Committed, Published

-----------------------------------------------------------------------------
(***************************************************************************)
(* The processes.                                                          *)
(***************************************************************************)
\* One call changes its record; the others keep what they hold.
LEMMA CallMoves ==
    ASSUME GatewayTypeOK, CallsInv, Grows, NEW s \in Sends,
           \A q \in Sends \ {s} : send'[q] = send[q],
           send'[s].response # "none" => send'[s].pc = "done",
           send'[s].pc \in Holding =>
              Committed(send[s].req)' /\ send'[s].entity.status # "ABSENT",
           send'[s].pc \in Sent => Published(send[s].req)',
           send'[s].response = "ok" =>
              Committed(send[s].req)' /\ Published(send[s].req)',
           send'[s].response = "unavailable" => Committed(send[s].req)',
           send'[s].pc \in {"publish", "markPublished", "markQueued"} =>
              \A q \in Sends \ {s} :
                 send[q].pc \in {"publish", "markPublished", "markQueued"} =>
                    send[q].req # send'[s].req
    PROVE  CallsInv'
  <1>1. \A q \in Sends \ {s} :
           send[q].pc \in Holding \/ send[q].response # "none" => send[q].req \in Requests
    BY DEF GatewayTypeOK, CallsInv, AnswersAreLast, Holding
  <1>2. AnswersAreLast'
    BY DEF CallsInv, AnswersAreLast
  <1>3. AcknowledgedIsPublished'
    BY <1>1 DEF CallsInv, AcknowledgedIsPublished, Grows, Committed, Published
  <1>4. UnavailableIsStored'
    BY <1>1 DEF CallsInv, UnavailableIsStored, Grows, Committed, Published
  <1>5. SingleCreator'
    BY DEF CallsInv, SingleCreator
  <1>6. HoldersAreStored'
    BY <1>1 DEF CallsInv, HoldersAreStored, Grows, Committed, Published
  <1>7. SendersPublished'
    BY <1>1 DEF CallsInv, SendersPublished, Grows, Committed, Published, Holding, Sent
  <1> QED BY <1>2, <1>3, <1>4, <1>5, <1>6, <1>7 DEF CallsInv

LEMMA CallAnswered ==
    ASSUME GatewayTypeOK, CallsInv, Grows, NEW s \in Sends,
           NEW r, send[s].req = r, NEW answer, Respond(s, answer),
           answer = "ok" => Committed(r)' /\ Published(r)',
           answer = "unavailable" => Committed(r)'
    PROVE  CallsInv'
  <1>1. /\ send'[s].pc = "done" /\ send'[s].response = answer /\ send'[s].req = r
        /\ \A q \in Sends \ {s} : send'[q] = send[q]
    BY DEF GatewayTypeOK, SendRecord, Respond
  <1>2. answer = "ok" => Committed(send[s].req)' /\ Published(send[s].req)'
    BY <1>1 DEF Committed, Published
  <1>3. answer = "unavailable" => Committed(send[s].req)'
    BY <1>1 DEF Committed
  <1> QED BY <1>1, <1>2, <1>3, CallMoves DEF Holding, Sent

LEMMA CallGoesOn ==
    ASSUME GatewayTypeOK, CallsInv, Grows, NEW s \in Sends, NEW r \in Requests,
           send[s].req = r, send[s].pc # "done", NEW pc, SendGoto(s, pc),
           pc \in Holding => send[s].pc \in Holding,
           pc \in Sent => Published(r)',
           pc \in {"publish", "markPublished", "markQueued"} =>
              \A q \in Sends \ {s} :
                 send[q].pc \in {"publish", "markPublished", "markQueued"} => send[q].req # r
    PROVE  CallsInv'
  <1>1. send[s].response = "none"
    BY DEF CallsInv, AnswersAreLast
  <1>2. /\ send'[s].pc = pc /\ send'[s].response = "none" /\ send'[s].req = r
        /\ send'[s].entity = send[s].entity
        /\ \A q \in Sends \ {s} : send'[q] = send[q]
    BY <1>1 DEF GatewayTypeOK, SendRecord, SendGoto
  <1>3. pc \in Holding => Committed(send[s].req)' /\ send'[s].entity.status # "ABSENT"
    <2>1. pc \in Holding => Committed(r) /\ send[s].entity.status # "ABSENT"
      BY DEF CallsInv, HoldersAreStored
    <2> QED BY <1>2, <2>1 DEF Grows, Committed
  <1>4. pc \in Sent => Published(send[s].req)'
    BY <1>2 DEF Published
  <1> QED BY <1>2, <1>3, <1>4, CallMoves

\* A call between two awaits, whose answer is still out.
LEMMA GatewayIntake ==
    ASSUME TypeOK, UnpublishedIsRecoverable, CallsInv, GatewayNext
    PROVE  Grows /\ UnpublishedIsRecoverable' /\ CallsInv'
  <1> USE DEF TypeOK
  <1>1. PICK s \in Sends : \/ \E r \in Requests : Receive(s, r)
                           \/ SendStep(s)
                           \/ GatewayCrash(s)
    BY DEF GatewayNext
  <1> PICK r : r = send[s].req
    OBVIOUS
  <1> DEFINE creating == {"publish", "markPublished", "markQueued"}
  <1>2. /\ send[s].pc # "idle" => r \in Requests
        /\ send[s].pc \in Holding => Committed(r) /\ send[s].entity.status # "ABSENT"
        /\ send[s].pc \in Sent => Published(r)
        /\ send[s].pc # "done" => send[s].response = "none"
    BY DEF GatewayTypeOK, CallsInv, HoldersAreStored, SendersPublished, AnswersAreLast
  <1>3. send[s].pc \in creating =>
           \A q \in Sends \ {s} : send[q].pc \in creating => send[q].req # r
    BY DEF CallsInv, SingleCreator
  <1>4. QueuedEntity(s).status # "ABSENT"
    BY DEF QueuedEntity, GatewayTypeOK, SendRecord, RequestRow
  <1>5. \A q \in Requests : request[q].status \notin {"ABSENT", "VALIDATED"}
                              => Committed(q) /\ Published(q)
    BY DEF UnpublishedIsRecoverable, Committed
  <1> HIDE DEF creating
  <1>6. CASE \E q \in Requests : Receive(s, q)
    <2>1. PICK q \in Requests : Receive(s, q)
      BY <1>6
    <2>2. Grows /\ UnpublishedIsRecoverable'
      BY <2>1, NothingWritten DEF Receive, storeVars
    <2>3. /\ send'[s].pc = "findExisting" /\ send'[s].response = "none"
          /\ \A p \in Sends \ {s} : send'[p] = send[p]
      BY <2>1, <1>2 DEF Receive, SendAt, GatewayTypeOK, SendRecord
    <2> QED BY <2>2, <2>3, CallMoves DEF Holding, Sent
  <1>7. CASE FindExisting(s)
    <2>1. Grows /\ UnpublishedIsRecoverable' /\ r \in Requests
      BY <1>7, <1>2, NothingWritten DEF FindExisting, SendAt, storeVars
    <2>2. UNCHANGED <<request, topic>> /\ send[s].pc = "findExisting"
      BY <1>7 DEF FindExisting, SendAt, storeVars
    <2>3. CASE SendGoto(s, "findTemplate")
      BY <2>1, <2>2, <2>3, CallGoesOn DEF Holding, Sent
    <2>4. CASE /\ request[r].status = "VALIDATED"
               /\ send' = [send EXCEPT ![s].pc = "findPayload", ![s].entity = request[r]]
      <3>1. /\ send'[s].pc = "findPayload" /\ send'[s].response = "none"
            /\ send'[s].req = r /\ send'[s].entity.status # "ABSENT"
            /\ \A p \in Sends \ {s} : send'[p] = send[p]
        BY <1>2, <2>2, <2>4 DEF GatewayTypeOK, SendRecord
      <3>2. Committed(send[s].req)'
        BY <2>2, <2>4, <3>1 DEF Committed
      <3> QED BY <2>1, <3>1, <3>2, CallMoves DEF Holding, Sent
    <2>5. CASE request[r].status \notin {"ABSENT", "VALIDATED"} /\ Respond(s, "ok")
      BY <2>1, <2>5, <1>5, CallAnswered DEF Grows
    <2> QED BY <1>7, <2>1, <2>3, <2>4, <2>5 DEF FindExisting
  <1>8. CASE FindVariables(s)
    <2>1. Grows /\ UnpublishedIsRecoverable' /\ r \in Requests
      BY <1>8, <1>2, NothingWritten DEF FindVariables, SendAt, storeVars
    <2>2. CASE send' = [send EXCEPT ![s].pc = "commit", ![s].startedAt = Now]
      <3>1. /\ send'[s].pc = "commit" /\ send'[s].response = "none"
            /\ \A p \in Sends \ {s} : send'[p] = send[p]
        BY <1>8, <1>2, <2>2 DEF FindVariables, SendAt, GatewayTypeOK, SendRecord
      <3> QED BY <2>1, <3>1, CallMoves DEF Holding, Sent
    <2>3. CASE Respond(s, "rejected")
      BY <2>1, <2>3, CallAnswered
    <2> QED BY <1>8, <2>1, <2>2, <2>3 DEF FindVariables
  <1>9. CASE ReadFails(s) \/ CommitConflict(s) \/ GatewayCrash(s)
    <2>1. Grows /\ UnpublishedIsRecoverable'
      BY <1>9, NothingWritten DEF ReadFails, CommitConflict, GatewayCrash, storeVars
    <2>2. PICK answer \in {"error", "lost"} : Respond(s, answer)
      BY <1>9 DEF ReadFails, CommitConflict, GatewayCrash
    <2> QED BY <2>1, <2>2, CallAnswered
  <1>10. CASE \E c \in Channels : Commit(s, c)
    <2>1. PICK c \in Channels : Commit(s, c)
      BY <1>10
    <2>2. r \in Requests /\ send[s].pc = "commit" /\ ~Committed(r)
      BY <2>1, <1>2 DEF Commit, SendAt, Committed
    <2>3. /\ Grows /\ UnpublishedIsRecoverable' /\ Committed(r)'
          /\ NewRow(c).status # "ABSENT"
      BY <2>1, <2>2, RowsInserted DEF Commit
    <2>4. /\ send'[s].pc = "publish" /\ send'[s].response = "none"
          /\ send'[s].req = r /\ send'[s].entity.status # "ABSENT"
          /\ \A p \in Sends \ {s} : send'[p] = send[p]
      <3>1. send' = [send EXCEPT ![s].pc = "publish", ![s].entity = NewRow(c)]
        BY <2>1 DEF Commit
      <3> QED BY <1>2, <2>2, <2>3, <3>1 DEF GatewayTypeOK, SendRecord
    <2>5. Committed(send[s].req)'
      BY <2>3, <2>4 DEF Committed
    <2>6. \A q \in Sends \ {s} : send[q].pc \in creating => send[q].req # r
      BY <2>2 DEF creating, CallsInv, HoldersAreStored, Holding
    <2>7. CallsInv'
      BY <2>3, <2>4, <2>5, <2>6, CallMoves DEF creating, Sent
    <2> QED BY <2>3, <2>7
  <1>11. CASE \E c \in Channels : CommitFails(s, c)
    <2>1. PICK c \in Channels : CommitFails(s, c)
      BY <1>11
    <2>2. r \in Requests /\ Respond(s, "error")
      BY <2>1, <1>2 DEF CommitFails, SendAt
    <2>3. Grows /\ UnpublishedIsRecoverable'
      BY <2>1, <2>2, RowsInserted, NothingWritten DEF CommitFails
    <2> QED BY <2>2, <2>3, CallAnswered
  <1>12. CASE Publish(s)
    <2>1. send[s].pc = "publish" /\ r \in Requests /\ Committed(r)
      BY <1>12, <1>2 DEF Publish, SendAt, Holding
    <2>2. Grows /\ UnpublishedIsRecoverable' /\ Published(r)'
      BY <1>12, <2>1, EventSent DEF Publish
    <2>3. Committed(r)'
      BY <2>1, <2>2 DEF Grows
    <2>4. CallsInv'
      BY <1>12, <2>1, <2>2, <2>3, <1>3, CallGoesOn
      DEF Publish, creating, Holding, Sent
    <2> QED BY <2>2, <2>4
  <1>13. CASE MarkPublished(s)
    <2>1. send[s].pc = "markPublished" /\ r \in Requests /\ Committed(r) /\ Published(r)
      BY <1>13, <1>2 DEF MarkPublished, SendAt, Holding, Sent
    <2>2. Grows /\ UnpublishedIsRecoverable'
      BY <1>13, <2>1, OutboxSaved DEF MarkPublished
    <2>3. Committed(r)' /\ Published(r)'
      BY <2>1, <2>2 DEF Grows
    <2>4. CallsInv'
      BY <1>13, <2>1, <2>2, <2>3, <1>3, CallGoesOn
      DEF MarkPublished, creating, Holding, Sent
    <2> QED BY <2>2, <2>4
  <1>14. CASE MarkQueued(s) \/ MarkRequeued(s)
    <2>1. r \in Requests /\ Committed(r) /\ Published(r)
      BY <1>14, <1>2 DEF MarkQueued, MarkRequeued, SendAt, Holding, Sent
    <2>2. Grows /\ UnpublishedIsRecoverable'
      BY <1>14, <1>4, <2>1, RequestSaved DEF MarkQueued, MarkRequeued
    <2>3. Respond(s, "ok") /\ Committed(r)' /\ Published(r)'
      BY <1>14, <2>1, <2>2 DEF MarkQueued, MarkRequeued, Grows
    <2> QED BY <2>2, <2>3, CallAnswered
  <1>15. CASE SendFails(s)
    <2>1. r \in Requests /\ Committed(r)
      BY <1>15, <1>2 DEF SendFails, SendAt, Holding
    <2>2. ASSUME topic' \in AfterFailedSend(r), UNCHANGED <<request, outbox>>
          PROVE  Grows /\ UnpublishedIsRecoverable'
      BY <2>1, <2>2, SendFailed
    <2>3. ASSUME Published(r), UNCHANGED <<request, topic>>,
                 outbox' \in AfterFailedSave(
                              outbox, [outbox EXCEPT ![r].status = "PUBLISHED"])
          PROVE  Grows /\ UnpublishedIsRecoverable'
      <3>1. outbox' = outbox \/ outbox' = [outbox EXCEPT ![r].status = "PUBLISHED"]
        BY <2>3 DEF AfterFailedSave
      <3> QED BY <2>1, <2>3, <3>1, OutboxSaved, NothingWritten
    <2>4. ASSUME Published(r), UNCHANGED <<outbox, topic>>,
                 request' \in AfterFailedSave(
                               request, [request EXCEPT ![r] = QueuedEntity(s)])
          PROVE  Grows /\ UnpublishedIsRecoverable'
      <3>1. request' = request \/ request' = [request EXCEPT ![r] = QueuedEntity(s)]
        BY <2>4 DEF AfterFailedSave
      <3> QED BY <2>1, <2>4, <3>1, <1>4, RequestSaved, NothingWritten
    <2>5. Grows /\ UnpublishedIsRecoverable'
      BY <1>15, <1>2, <2>2, <2>3, <2>4 DEF SendFails, SendAt, Sent
    <2>6. Respond(s, "unavailable") /\ Committed(r)'
      BY <1>15, <2>1, <2>5 DEF SendFails, Grows
    <2> QED BY <2>5, <2>6, CallAnswered
  <1>16. CASE FindPayload(s)
    <2>1. /\ send[s].pc = "findPayload" /\ r \in Requests /\ Committed(r)
          /\ UNCHANGED <<request, outbox, topic>>
      BY <1>16, <1>2 DEF FindPayload, SendAt, Holding, storeVars
    <2>2. Grows /\ UnpublishedIsRecoverable'
      BY <2>1, NothingWritten
    <2>3. Committed(r)'
      BY <2>1, <2>2 DEF Grows
    <2>4. CASE SendGoto(s, "republish")
      BY <2>1, <2>2, <2>3, <2>4, CallGoesOn DEF Holding, Sent
    <2>5. CASE Respond(s, "error")
      BY <2>2, <2>5, CallAnswered
    <2> QED BY <1>16, <2>2, <2>4, <2>5 DEF FindPayload
  <1>17. CASE Republish(s)
    <2>1. send[s].pc = "republish" /\ r \in Requests /\ Committed(r)
      BY <1>17, <1>2 DEF Republish, SendAt, Holding
    <2>2. Grows /\ UnpublishedIsRecoverable' /\ Published(r)'
      BY <1>17, <2>1, EventSent DEF Republish
    <2>3. Committed(r)'
      BY <2>1, <2>2 DEF Grows
    <2>4. CallsInv'
      BY <1>17, <2>1, <2>2, <2>3, CallGoesOn DEF Republish, Holding, Sent
    <2> QED BY <2>2, <2>4
  <1>18. CASE RepublishFails(s)
    <2>1. r \in Requests /\ Committed(r)
      BY <1>18, <1>2 DEF RepublishFails, SendAt, Holding
    <2>2. Grows /\ UnpublishedIsRecoverable'
      BY <1>18, <2>1, SendFailed DEF RepublishFails
    <2>3. Respond(s, "unavailable") /\ Committed(r)'
      BY <1>18, <2>1, <2>2 DEF RepublishFails, Grows
    <2> QED BY <2>2, <2>3, CallAnswered
  <1>19. CASE MarkRequeuedFails(s)
    <2>1. /\ r \in Requests /\ Published(r)
          /\ UNCHANGED <<outbox, topic>>
          /\ \/ UNCHANGED request
             \/ request' = [request EXCEPT ![r] = QueuedEntity(s)]
      BY <1>19, <1>2 DEF MarkRequeuedFails, SendAt, AfterFailedSave, Sent
    <2>2. Grows /\ UnpublishedIsRecoverable'
      BY <2>1, <1>4, RequestSaved, NothingWritten
    <2>3. Respond(s, "error")
      BY <1>19 DEF MarkRequeuedFails
    <2> QED BY <2>2, <2>3, CallAnswered
  <1>20. CASE FindTemplate(s) \/ FindAccess(s)
    <2>1. Grows /\ UnpublishedIsRecoverable' /\ r \in Requests
      BY <1>20, <1>2, NothingWritten DEF FindTemplate, FindAccess, SendAt, storeVars
    <2>2. send[s].pc # "done"
      BY <1>20 DEF FindTemplate, FindAccess, SendAt
    <2>3. ASSUME NEW pc \in {"findAccess", "findVariables"}, SendGoto(s, pc)
          PROVE  CallsInv'
      BY <2>1, <2>2, <2>3, CallGoesOn DEF Holding, Sent
    <2>4. CASE Respond(s, "rejected")
      BY <2>1, <2>4, CallAnswered
    <2> QED BY <1>20, <2>1, <2>3, <2>4 DEF FindTemplate, FindAccess
  <1> QED
    BY <1>1, <1>6, <1>7, <1>8, <1>9, <1>10, <1>11, <1>12, <1>13, <1>14, <1>15,
       <1>16, <1>17, <1>18, <1>19, <1>20 DEF SendStep

LEMMA RelayIntake ==
    ASSUME TypeOK, UnpublishedIsRecoverable, RelaysPublished, RelayNext
    PROVE  Grows /\ UnpublishedIsRecoverable' /\ RelaysPublished'
  <1> USE DEF TypeOK
  <1>1. PICK t \in RelayTicks : RelayStep(t) \/ RelayCrash(t)
    BY DEF RelayNext
  <1>2. \A q \in RelayTicks : relay[q].pc = "savePublished" => relay[q].entry \in Requests
    BY DEF RelayTypeOK
  <1>3. ASSUME Grows, \A q \in RelayTicks \ {t} : relay'[q] = relay[q],
               relay'[t].pc # "savePublished"
        PROVE  RelaysPublished'
    BY <1>2, <1>3 DEF RelaysPublished, Grows, Published
  <1>4. CASE RelayFind(t)
    <2>1. Grows /\ UnpublishedIsRecoverable'
      BY <1>4, NothingWritten DEF RelayFind, storeVars
    <2>2. relay'[t].pc = "publish" /\ \A q \in RelayTicks \ {t} : relay'[q] = relay[q]
      BY <1>4 DEF RelayFind, RelayTypeOK, RelayRecord
    <2> QED BY <2>1, <2>2, <1>3
  <1>5. CASE RelayPublish(t)
    <2>1. PICK r \in relay[t].batch : topic' = Appended(r) /\ TakeEntry(t, r, "savePublished")
      BY <1>5 DEF RelayPublish
    <2>2. r \in Requests
      BY <2>1 DEF RelayTypeOK, RelayRecord
    <2>3. Grows /\ UnpublishedIsRecoverable' /\ Published(r)'
      BY <1>5, <2>1, <2>2, EventSent DEF RelayPublish
    <2>4. relay'[t].entry = r /\ \A q \in RelayTicks \ {t} : relay'[q] = relay[q]
      BY <2>1 DEF TakeEntry, RelayTypeOK, RelayRecord
    <2>5. RelaysPublished'
      BY <2>3, <2>4, <1>2 DEF RelaysPublished, Grows, Published
    <2> QED BY <2>3, <2>5
  <1>6. CASE RelayPublishFails(t)
    <2>1. PICK r \in relay[t].batch : topic' \in AfterFailedSend(r)
                                      /\ TakeEntry(t, r, "saveFailed")
      BY <1>6 DEF RelayPublishFails
    <2>2. r \in Requests
      BY <2>1 DEF RelayTypeOK, RelayRecord
    <2>3. Grows /\ UnpublishedIsRecoverable'
      BY <1>6, <2>1, <2>2, SendFailed DEF RelayPublishFails
    <2>4. relay'[t].pc = "saveFailed" /\ \A q \in RelayTicks \ {t} : relay'[q] = relay[q]
      BY <2>1 DEF TakeEntry, RelayTypeOK, RelayRecord
    <2> QED BY <2>3, <2>4, <1>3
  <1>7. CASE RelaySave(t) \/ RelaySaveFails(t)
    <2>1. PICK r : r = relay[t].entry
      OBVIOUS
    <2>2. r \in Requests /\ EntryStatus(t) \in {"PUBLISHED", "FAILED"}
          /\ (EntryStatus(t) = "PUBLISHED" => Published(r))
      BY <1>7, <2>1
      DEF RelaySave, RelaySaveFails, RelayTypeOK, EntryStatus, RelayAt, RelaysPublished
    <2>3. outbox' = outbox \/ outbox' = [outbox EXCEPT ![r].status = EntryStatus(t)]
      BY <1>7, <2>1 DEF RelaySave, RelaySaveFails, AfterFailedSave, SavedEntry
    <2>4. UNCHANGED <<request, topic>>
      BY <1>7 DEF RelaySave, RelaySaveFails
    <2>5. Grows /\ UnpublishedIsRecoverable'
      BY <2>2, <2>3, <2>4, OutboxSaved, NothingWritten
    <2>6. relay'[t].pc # "savePublished" /\ \A q \in RelayTicks \ {t} : relay'[q] = relay[q]
      BY <1>7 DEF RelaySave, RelaySaveFails, NextEntry, RelayIdle, RelayTypeOK, RelayRecord
    <2> QED BY <2>5, <2>6, <1>3
  <1>8. CASE RelayCrash(t)
    <2>1. Grows /\ UnpublishedIsRecoverable'
      BY <1>8, NothingWritten DEF RelayCrash
    <2>2. relay'[t].pc # "savePublished" /\ \A q \in RelayTicks \ {t} : relay'[q] = relay[q]
      BY <1>8 DEF RelayCrash, RelayIdle, RelayTypeOK
    <2> QED BY <2>1, <2>2, <1>3
  <1> QED BY <1>1, <1>4, <1>5, <1>6, <1>7, <1>8 DEF RelayStep

LEMMA RetryIntake ==
    ASSUME TypeOK, UnpublishedIsRecoverable, RetryNext
    PROVE  Grows /\ UnpublishedIsRecoverable'
  <1> USE DEF TypeOK
  <1>1. PICK t \in RetryTicks : RetryStep(t) \/ RetryCrash(t)
    BY DEF RetryNext
  <1>2. PICK r : r = RetryRequest(t)
    OBVIOUS
  <1>3. ASSUME ~RetryAt(t, "idle") PROVE r \in Requests
    <2>1. retry[t].id \in DOMAIN dispatch
      BY <1>3 DEF RetryTypeOK, RetryAt
    <2>2. dispatch[retry[t].id] \in DispatchRow
      BY <2>1, ElementOfSeq, LenProperties DEF StoreTypeOK
    <2> QED BY <1>2, <2>2 DEF RetryRequest, DispatchRow
  <1>4. CASE RetryPublish(t)
    <2>1. topic' = Appended(r) /\ UNCHANGED <<request, outbox>> /\ r \in Requests
      BY <1>2, <1>3, <1>4 DEF RetryPublish, RetryAt
    <2> QED BY <2>1, EventSent
  <1>5. CASE RetryFails(t)
    <2>1. UNCHANGED <<request, outbox>> /\ r \in Requests
      BY <1>3, <1>5 DEF RetryFails, RetryAt
    <2>2. UNCHANGED topic \/ topic' \in AfterFailedSend(r)
      BY <1>2, <1>5 DEF RetryFails
    <2> QED BY <2>1, <2>2, SendFailed, NothingWritten
  <1>6. CASE ~RetryPublish(t) /\ ~RetryFails(t)
    <2>1. UNCHANGED <<request, outbox, topic>>
      BY <1>1, <1>6
      DEF RetryStep, RetryFind, LoadEvent, MarkFailed, SaveProcessing, RetryCrash, storeVars
    <2> QED BY <2>1, NothingWritten
  <1> QED BY <1>4, <1>5, <1>6

\* The handler of an event: the event is in the topic.
LEMMA WorkerIntake ==
    ASSUME TypeOK, UnpublishedIsRecoverable, HandlersHoldEvents, WorkerNext
    PROVE  Grows /\ UnpublishedIsRecoverable' /\ HandlersHoldEvents'
  <1> USE DEF TypeOK
  <1>1. PICK w \in Workers : \/ WorkerStep(w)
                             \/ WorkerCrash(w)
                             \/ \E q \in Requests : IdleCrash(w, q)
                             \/ Rebalance(w)
    BY DEF WorkerNext
  <1>2. PICK r : r = worker[w].req
    OBVIOUS
  <1>3. /\ ~WorkerAt(w, "idle") => r \in Requests /\ Published(r)
        /\ worker[w].pc \notin {"idle", "findRequest"} => worker[w].entity.status # "ABSENT"
        /\ CompletedEntity(w).status # "ABSENT"
        /\ worker[w].entity \in RequestRow
    BY <1>2 DEF WorkerTypeOK, WorkerAt, HandlersHoldEvents, CompletedEntity, WorkerRecord,
       RequestRow
  <1>4. UNCHANGED <<outbox, topic>>
    BY <1>1
    DEF WorkerStep, Deliver, SkipOtherChannel, FindRequest, FindSuccess, CreateDispatch,
        WriteLog, SaveSuccess, SaveCompleted, TryFails, SaveRetry, LogRetry, SaveFailed,
        SaveRequestFailed, PublishDlq, EventFails, WorkerCrash, IdleCrash, Rebalance,
        storeVars
  <1>5. \/ UNCHANGED request
        \/ /\ ~WorkerAt(w, "idle")
           /\ \/ request' = CompletedRequest(w)
              \/ request' = FailedRequest(w)
    BY <1>1
    DEF WorkerStep, Deliver, SkipOtherChannel, FindRequest, FindSuccess, CreateDispatch,
        WriteLog, SaveSuccess, SaveCompleted, TryFails, SaveRetry, LogRetry, SaveFailed,
        SaveRequestFailed, PublishDlq, EventFails, WorkerCrash, IdleCrash, Rebalance,
        storeVars, AfterFailedSave, WorkerAt
  <1>6. PICK row :
           /\ row.status # "ABSENT"
           /\ \/ UNCHANGED request
              \/ ~WorkerAt(w, "idle") /\ request' = [request EXCEPT ![r] = row]
    <2>1. [worker[w].entity EXCEPT !.status = "FAILED"].status = "FAILED"
      BY <1>3 DEF RequestRow
    <2> QED BY <1>2, <1>3, <1>5, <2>1 DEF CompletedRequest, FailedRequest
  <1>7. Grows /\ UnpublishedIsRecoverable'
    BY <1>3, <1>4, <1>6, RequestSaved, NothingWritten
  <1>8. \A v \in Workers \ {w} : worker'[v] = worker[v]
    BY <1>1
    DEF WorkerStep, Deliver, SkipOtherChannel, FindRequest, FindSuccess, CreateDispatch,
        WriteLog, SaveSuccess, SaveCompleted, TryFails, SaveRetry, LogRetry, SaveFailed,
        SaveRequestFailed, PublishDlq, EventFails, WorkerCrash, IdleCrash, Rebalance,
        workerVars, WorkerTypeOK, WorkerGoto, Return, Caught
  <1>9. \/ worker'[w] = worker[w]
        \/ worker'[w].pc = "idle"
        \/ /\ worker'[w].pc = "findRequest"
           /\ worker'[w].req \in Requests /\ Published(worker'[w].req)
        \/ /\ worker[w].pc # "idle" /\ worker'[w].req = r
           /\ worker'[w].entity.status # "ABSENT"
    <2>1. worker \in [Workers -> WorkerRecord] /\ WorkerIdle.pc = "idle"
      BY DEF WorkerTypeOK, WorkerIdle
    <2>2. ASSUME NEW q \in Requests, Deliver(w, q)
          PROVE  /\ worker'[w].pc = "findRequest"
                 /\ worker'[w].req \in Requests /\ Published(worker'[w].req)
      <3>1. worker'[w].pc = "findRequest" /\ worker'[w].req = q
        BY <2>1, <2>2 DEF Deliver, WorkerIdle, WorkerRecord
      <3>2. ChannelOf[w] \in Channels
        BY WorkerAssumption
      <3>3. position[ChannelOf[w]][q] \in Nat /\ topic[q] \in Nat
        BY <3>2 DEF WorkerTypeOK, StoreTypeOK
      <3> QED BY <2>2, <3>1, <3>3 DEF Deliver, Unread, Published
    <2>3. CASE FindRequest(w)
      <3>1. CASE Return(w)
        BY <2>1, <3>1 DEF Return
      <3>2. CASE ~Return(w)
        <4>1. /\ request[r].status # "ABSENT" /\ worker[w].pc # "idle"
              /\ worker' = [worker EXCEPT ![w].pc = "findSuccess",
                                          ![w].entity = request[r]]
          BY <1>2, <2>3, <3>2 DEF FindRequest, WorkerAt
        <4> QED BY <1>2, <2>1, <4>1 DEF WorkerRecord
      <3> QED BY <3>1, <3>2
    <2>4. CASE TryFails(w)
      <3>1. PICK copy : copy.status # "ABSENT" /\ Caught(w, copy) /\ worker[w].pc # "idle"
        BY <1>3, <2>4 DEF TryFails, WorkerAt
      <3> QED BY <1>2, <2>1, <3>1 DEF Caught, WorkerRecord
    <2>5. CASE Rebalance(w) \/ \E q \in Requests : SkipOtherChannel(w, q) \/ IdleCrash(w, q)
      <3>1. CASE Rebalance(w)
        <4>1. /\ worker'[w].pc = worker[w].pc /\ worker'[w].req = r
              /\ worker'[w].entity = worker[w].entity
          BY <1>2, <2>1, <3>1 DEF Rebalance, WorkerRecord
        <4> QED BY <1>3, <3>1, <4>1 DEF Rebalance, WorkerAt
      <3>2. ASSUME NEW q \in Requests, SkipOtherChannel(w, q) \/ IdleCrash(w, q)
            PROVE  worker' = worker
        <4>1. CASE SkipOtherChannel(w, q)
          BY <4>1 DEF SkipOtherChannel, storeVars
        <4>2. CASE IdleCrash(w, q)
          BY <4>2 DEF IdleCrash, storeVars
        <4> QED BY <3>2, <4>1, <4>2
      <3> QED BY <2>5, <3>1, <3>2
    <2>6. CASE \/ FindSuccess(w) \/ CreateDispatch(w) \/ WriteLog(w) \/ SaveSuccess(w)
               \/ SaveRetry(w) \/ SaveFailed(w) \/ SaveRequestFailed(w)
      <3>1. worker[w].entity.status # "ABSENT" /\ worker[w].pc # "idle"
        BY <1>3, <2>6
        DEF FindSuccess, CreateDispatch, WriteLog, SaveSuccess, SaveRetry, SaveFailed,
            SaveRequestFailed, WorkerAt
      <3>2. \/ worker'[w] = WorkerIdle
            \/ worker'[w].entity = worker[w].entity /\ worker'[w].req = r
        <4>1. CASE CreateDispatch(w)
          BY <1>2, <2>1, <4>1 DEF CreateDispatch, WorkerRecord
        <4>2. CASE FindSuccess(w)
          <5>1. Return(w) => worker'[w] = WorkerIdle
            BY <2>1 DEF Return
          <5>2. worker' = [worker EXCEPT ![w].pc = "createDispatch"] =>
                   worker'[w].entity = worker[w].entity /\ worker'[w].req = r
            BY <1>2, <2>1 DEF WorkerRecord
          <5> QED BY <4>2, <5>1, <5>2 DEF FindSuccess, WorkerGoto
        <4>3. CASE \/ WriteLog(w) \/ SaveSuccess(w) \/ SaveRetry(w) \/ SaveFailed(w)
                   \/ SaveRequestFailed(w)
          BY <1>2, <2>1, <4>3
          DEF WriteLog, SaveSuccess, SaveRetry, SaveFailed, SaveRequestFailed, WorkerGoto,
              WorkerRecord
        <4> QED BY <2>6, <4>1, <4>2, <4>3
      <3> QED BY <2>1, <3>1, <3>2
    <2>7. CASE \/ SaveCompleted(w) \/ LogRetry(w) \/ PublishDlq(w) \/ EventFails(w)
               \/ WorkerCrash(w)
      BY <2>1, <2>7 DEF SaveCompleted, LogRetry, PublishDlq, EventFails, WorkerCrash, Return
    <2> QED
      BY <1>1, <2>2, <2>3, <2>4, <2>5, <2>6, <2>7 DEF WorkerStep
  <1>10. HandlersHoldEvents'
    <2>1. \A v \in Workers : worker[v].pc # "idle" =>
             worker[v].req \in Requests /\ topic[worker[v].req] > 0
      BY DEF WorkerTypeOK, HandlersHoldEvents, Published
    <2>2. worker'[w].pc # "idle" => topic[worker'[w].req] > 0
      BY <1>9, <1>2, <2>1 DEF Published
    <2>3. worker'[w].pc \notin {"idle", "findRequest"} => worker'[w].entity.status # "ABSENT"
      BY <1>9 DEF HandlersHoldEvents
    <2> QED BY <1>4, <1>8, <2>1, <2>2, <2>3 DEF HandlersHoldEvents, Published
  <1> QED BY <1>7, <1>10

-----------------------------------------------------------------------------
LEMMA IntakeInit == Init => IntakeInv
  <1> SUFFICES ASSUME Init PROVE IntakeInv
    OBVIOUS
  <1>1. TypeOK
    BY TypeInit
  <1>2. UnpublishedIsRecoverable
    BY DEF Init, StoreInit, UnpublishedIsRecoverable, Committed, AbsentRow
  <1>3. \A s \in Sends : send[s].pc = "idle" /\ send[s].response = "none"
    BY DEF Init, GatewayInit
  <1>4. CallsInv
    BY <1>3 DEF CallsInv, AnswersAreLast, AcknowledgedIsPublished, UnavailableIsStored,
                SingleCreator, HoldersAreStored, SendersPublished, Holding, Sent
  <1>5. RelaysPublished
    BY DEF Init, RelayInit, RelayIdle, RelaysPublished
  <1>6. HandlersHoldEvents
    BY DEF Init, WorkerInit, WorkerIdle, HandlersHoldEvents
  <1> QED BY <1>1, <1>2, <1>4, <1>5, <1>6 DEF IntakeInv

\* What a process holds stays true while only the others move.
LEMMA IntakeFrame ==
    ASSUME TypeOK, Grows
    PROVE  /\ CallsInv /\ UNCHANGED send => CallsInv'
           /\ RelaysPublished /\ UNCHANGED relay => RelaysPublished'
           /\ HandlersHoldEvents /\ UNCHANGED workerVars => HandlersHoldEvents'
  <1>1. ASSUME CallsInv, UNCHANGED send PROVE CallsInv'
    <2>1. \A s \in Sends :
             send[s].pc \in Holding \/ send[s].response # "none" => send[s].req \in Requests
      BY <1>1 DEF TypeOK, GatewayTypeOK, CallsInv, AnswersAreLast, Holding
    <2>2. AnswersAreLast' /\ SingleCreator'
      BY <1>1 DEF CallsInv, AnswersAreLast, SingleCreator
    <2>3. AcknowledgedIsPublished' /\ UnavailableIsStored'
      BY <1>1, <2>1
      DEF CallsInv, AcknowledgedIsPublished, UnavailableIsStored, Grows, Committed, Published
    <2>4. HoldersAreStored' /\ SendersPublished'
      BY <1>1, <2>1
      DEF CallsInv, HoldersAreStored, SendersPublished, Holding, Sent, Grows, Committed,
          Published
    <2> QED BY <2>2, <2>3, <2>4 DEF CallsInv
  <1>2. RelaysPublished /\ UNCHANGED relay => RelaysPublished'
    BY DEF RelaysPublished, TypeOK, RelayTypeOK, Grows, Published
  <1>3. HandlersHoldEvents /\ UNCHANGED workerVars => HandlersHoldEvents'
    BY DEF HandlersHoldEvents, TypeOK, WorkerTypeOK, Grows, Published, workerVars
  <1> QED BY <1>1, <1>2, <1>3

LEMMA IntakeStep == IntakeInv /\ [Next]_vars => IntakeInv'
  <1> SUFFICES ASSUME IntakeInv, [Next]_vars PROVE IntakeInv'
    OBVIOUS
  <1> USE DEF IntakeInv
  <1>1. TypeOK'
    BY TypeStep
  <1>2. CASE GatewayNext /\ UNCHANGED <<relay, retry, workerVars, dlqVars, walk>>
    BY <1>1, <1>2, GatewayIntake, IntakeFrame
  <1>3. CASE RelayNext /\ UNCHANGED <<send, retry, workerVars, dlqVars, walk>>
    BY <1>1, <1>3, RelayIntake, IntakeFrame
  <1>4. CASE RetryNext /\ UNCHANGED <<send, relay, workerVars, dlqVars, walk>>
    BY <1>1, <1>4, RetryIntake, IntakeFrame
  <1>5. CASE WorkerNext /\ UNCHANGED <<send, relay, retry, dlqVars, walk>>
    BY <1>1, <1>5, WorkerIntake, IntakeFrame
  <1>6. CASE \/ DlqNext /\ UNCHANGED <<send, relay, retry, workerVars, walk>>
             \/ EnvironmentNext /\ UNCHANGED <<send, relay, retry, workerVars, dlqVars, walk>>
             \/ AdminNext /\ UNCHANGED <<send, relay, retry, workerVars>>
             \/ UNCHANGED vars
    <2>1. UNCHANGED <<request, outbox, topic, send, relay, workerVars>>
      BY <1>6
      DEF DlqNext, DlqStep, SaveDlqEntry, SaveDlqEntryFails, DlqCrash, EnvironmentNext,
          AdminNext, PurgePayload, BackoffElapses, storeVars, vars
    <2> QED BY <1>1, <2>1, NothingWritten, IntakeFrame
  <1> QED BY <1>2, <1>3, <1>4, <1>5, <1>6 DEF Next

-----------------------------------------------------------------------------
\* A stored request that is not in Kafka can still be published by a client's
\* repetition (status VALIDATED), and no writer of its outbox row has closed
\* it: no interleaving of calls, relay runs and workers with any fault loses
\* a request for good.
THEOREM StoredIsRecoverable == Spec => []UnpublishedIsRecoverable
  <1>1. IntakeInv => UnpublishedIsRecoverable
    BY DEF IntakeInv
  <1> QED BY <1>1, IntakeInit, IntakeStep, PTL DEF Spec

\* The gateway answers success only for a request that is stored and has an
\* event in Kafka.
THEOREM SuccessIsPublished == Spec => []AcknowledgedIsPublished
  <1>1. IntakeInv => AcknowledgedIsPublished
    BY DEF IntakeInv, CallsInv
  <1> QED BY <1>1, IntakeInit, IntakeStep, PTL DEF Spec

\* The gateway answers 503 only for a request that is stored.
THEOREM RefusalIsStored == Spec => []UnavailableIsStored
  <1>1. IntakeInv => UnavailableIsStored
    BY DEF IntakeInv, CallsInv
  <1> QED BY <1>1, IntakeInit, IntakeStep, PTL DEF Spec

\* Of the concurrent calls with one requestId one creates the request.
THEOREM OneCreator == Spec => []SingleCreator
  <1>1. IntakeInv => SingleCreator
    BY DEF IntakeInv, CallsInv
  <1> QED BY <1>1, IntakeInit, IntakeStep, PTL DEF Spec
=============================================================================
