--------------------------- MODULE DeliveryProofs ---------------------------
(***************************************************************************)
(* How deliveries end, for every set of workers and runs: nothing is given *)
(* up while maxRetryCount is positive, dead letters are rows that failed   *)
(* for good, and a request is delivered twice only when a handler lost its *)
(* partition midway.                                                       *)
(***************************************************************************)
EXTENDS DispatchProofs

\* The handler that gives up: w, which sends the row it holds and returns.
SendsLetter(w) ==
    /\ WorkerAt(w, "publishDlq") /\ Leaves(w) /\ NothingSaved
    /\ \A v \in Workers \ {w} : worker'[v] = worker[v]
    /\ dlqTopic' = Append(dlqTopic, worker[w].id)

LEMMA LetterSent ==
    ASSUME TypeOK, [Next]_vars
    PROVE  \/ UNCHANGED dlqTopic
           \/ /\ \E w \in Workers : SendsLetter(w)
              /\ WorkerNext /\ UNCHANGED <<send, relay, retry, dlqVars, walk>>
  <1> USE DEF TypeOK
  <1>1. CASE GatewayNext
    BY <1>1
    DEF GatewayNext, SendStep, Receive, FindExisting, FindTemplate, FindAccess, FindVariables,
        ReadFails, Commit, CommitFails, CommitConflict, Publish, MarkPublished, MarkQueued,
        SendFails, FindPayload, Republish, RepublishFails, MarkRequeued, MarkRequeuedFails,
        GatewayCrash, storeVars
  <1>2. CASE RelayNext
    BY <1>2
    DEF RelayNext, RelayStep, RelayFind, RelayPublish, RelayPublishFails, RelaySave,
        RelaySaveFails, RelayCrash, storeVars
  <1>3. CASE RetryNext
    BY <1>3
    DEF RetryNext, RetryStep, RetryFind, LoadEvent, MarkFailed, RetryPublish, SaveProcessing,
        RetryFails, RetryCrash, storeVars
  <1>4. CASE DlqNext \/ EnvironmentNext \/ AdminNext \/ UNCHANGED vars
    BY <1>4
    DEF DlqNext, DlqStep, SaveDlqEntry, SaveDlqEntryFails, DlqCrash, EnvironmentNext,
        PurgePayload, BackoffElapses, AdminNext, storeVars, vars
  <1>5. CASE WorkerNext /\ UNCHANGED <<send, relay, retry, dlqVars, walk>>
    <2>1. PICK w \in Workers : \/ WorkerStep(w)
                               \/ WorkerCrash(w)
                               \/ \E q \in Requests : IdleCrash(w, q)
                               \/ Rebalance(w)
      BY <1>5 DEF WorkerNext
    <2>2. \/ UNCHANGED dlqTopic
          \/ PublishDlq(w) /\ dlqTopic' = Append(dlqTopic, worker[w].id)
      BY <2>1
      DEF WorkerStep, Deliver, SkipOtherChannel, FindRequest, FindSuccess, CreateDispatch,
          WriteLog, SaveSuccess, SaveCompleted, TryFails, SaveRetry, LogRetry, SaveFailed,
          SaveRequestFailed, EventFails, WorkerCrash, IdleCrash, Rebalance, PublishDlq, storeVars
    <2>3. PublishDlq(w) =>
             /\ WorkerAt(w, "publishDlq") /\ Leaves(w) /\ NothingSaved
             /\ \A v \in Workers \ {w} : worker'[v] = worker[v]
      BY DEF PublishDlq, Return, Leaves, NothingSaved, WorkerTypeOK
    <2> QED BY <1>5, <2>2, <2>3 DEF SendsLetter
  <1> QED BY <1>1, <1>2, <1>3, <1>4, <1>5 DEF Next

-----------------------------------------------------------------------------
(***************************************************************************)
(* Nothing is given up.  A handler decides on the retryCount of the row it *)
(* inserted with 0: no other handler holds that row and the scheduler      *)
(* leaves the column alone.                                                *)
(***************************************************************************)
GivingUp == {"saveFailed", "logFail", "saveRequestFailed", "publishDlq"}

NobodyGivesUp == \A w \in Workers : worker[w].pc \notin GivingUp

NoRequestFailed == \A r \in Requests : request[r].status # "FAILED"

GiveUpInv ==
    /\ dlqTopic = << >>
    /\ NobodyGivesUp
    /\ NoRequestFailed

LEMMA WorkerGiveUp ==
    ASSUME DispatchInv, MaxRetryCount > 0, NobodyGivesUp, NoRequestFailed, WorkerNext
    PROVE  NobodyGivesUp' /\ NoRequestFailed'
  <1> USE DEF DispatchInv, IntakeInv
  <1>1. PICK w \in Workers : /\ \A v \in Workers \ {w} : worker'[v] = worker[v]
                             /\ Turn(w)
    BY WorkerTurns
  <1>2. worker[w].pc \notin GivingUp
    BY DEF NobodyGivesUp
  <1>3. ASSUME worker[w].pc \in {"saveSuccess", "logSuccess", "saveCompleted"}
        PROVE  CanRetry(w)
    BY <1>3, StoreAssumption DEF RowsInv, RowsFollowHandlers, FollowsRow, HasRow, CanRetry
  <1>4. worker'[w].pc \notin GivingUp
    <2>1. CASE Stays(w) \/ Loses(w)
      BY <1>2, <2>1 DEF Stays, Loses, TypeOK, WorkerTypeOK, WorkerRecord
    <2>2. CASE Drops(w) \/ Completes(w)
      BY <2>2 DEF Drops, Completes, Leaves, WorkerIdle, GivingUp
    <2>3. CASE \/ ReadsRequest(w) \/ ReadsNoSuccess(w) \/ Reads(w)
               \/ \E r \in Requests : Takes(w, r)
      BY <1>2, <2>3
      DEF ReadsRequest, ReadsNoSuccess, Reads, Takes, Goes, GoesTo, WorkerAt, GivingUp
    <2>4. CASE Creates(w) \/ Waits(w) \/ GivesUp(w) \/ FailsRequest(w)
      BY <1>2, <2>4
      DEF Creates, Waits, GivesUp, FailsRequest, Goes, GoesTo, Leaves, WorkerIdle, WorkerAt,
          GivingUp
    <2>5. CASE Succeeds(w) \/ Catches(w)
      BY <1>3, <2>5 DEF Succeeds, Catches, Goes, GoesTo, WorkerAt, GivingUp
    <2> QED BY <1>1, <2>1, <2>2, <2>3, <2>4, <2>5 DEF Turn
  <1>5. NobodyGivesUp'
    BY <1>1, <1>4 DEF NobodyGivesUp
  <1>6. ASSUME NEW r \in Requests PROVE request'[r].status # "FAILED"
    <2>1. worker[w].entity \in RequestRow
      BY DEF TypeOK, WorkerTypeOK, WorkerRecord
    <2>2. CompletedEntity(w).status = "COMPLETED"
      BY <2>1 DEF CompletedEntity, RequestRow
    <2> QED BY <1>1, <1>2, <2>2, TurnWrites DEF NoRequestFailed, GivingUp, WorkerAt
  <1> QED BY <1>5, <1>6 DEF NoRequestFailed

LEMMA GiveUpStep ==
    ASSUME DispatchInv, MaxRetryCount > 0, GiveUpInv, [Next]_vars
    PROVE  GiveUpInv'
  <1> USE DEF DispatchInv, IntakeInv
  <1>1. UNCHANGED dlqTopic
    BY LetterSent DEF GiveUpInv, NobodyGivesUp, GivingUp, SendsLetter, WorkerAt
  <1>2. CASE WorkerNext /\ UNCHANGED <<send, relay, retry, dlqVars, walk>>
    BY <1>1, <1>2, WorkerGiveUp DEF GiveUpInv
  <1>3. CASE GatewayNext /\ UNCHANGED <<relay, retry, workerVars, dlqVars, walk>>
    <2>1. NoRequestFailed'
      BY <1>3, GatewayWrites DEF GiveUpInv, NoRequestFailed
    <2> QED BY <1>1, <1>3, <2>1 DEF GiveUpInv, NobodyGivesUp, workerVars
  <1>4. ASSUME ~(WorkerNext /\ UNCHANGED <<send, relay, retry, dlqVars, walk>>)
        PROVE  UNCHANGED worker
    BY <1>4 DEF Next, vars, workerVars
  <1> QED
    BY <1>1, <1>2, <1>3, <1>4, OthersKeepRequests DEF GiveUpInv, NobodyGivesUp, NoRequestFailed

\* That retries go past their maximum is no accident of the small instance: with
\* any positive maxRetryCount (the code writes 3), whatever fails and however
\* often, no request ever becomes FAILED and message.dlq stays empty, as every
\* event is counted on a row of its own.
THEOREM NothingGivenUp == Spec => []NothingIsGivenUp
  <1>1. Init => GiveUpInv
    BY DEF Init, StoreInit, WorkerInit, WorkerIdle, AbsentRow, GiveUpInv, NobodyGivesUp,
           NoRequestFailed, GivingUp
  <1>2. DispatchInv /\ (MaxRetryCount > 0 => GiveUpInv) /\ [Next]_vars
           => (MaxRetryCount > 0 => GiveUpInv)'
    BY GiveUpStep
  <1>3. (MaxRetryCount > 0 => GiveUpInv) => NothingIsGivenUp
    BY DEF GiveUpInv, NoRequestFailed, NothingIsGivenUp
  <1> QED BY <1>1, <1>2, <1>3, DispatchInvariance, PTL DEF Spec

-----------------------------------------------------------------------------
(***************************************************************************)
(* Dead letters.                                                           *)
(***************************************************************************)
\* A FAILED row that no handler and no scheduler run has.
Left(i) ==
    /\ i \in DOMAIN dispatch
    /\ dispatch[i].status = "FAILED"
    /\ \A t \in RetryTicks : i \notin retry[t].batch
    /\ \A w \in Workers : HasRow(w) => worker[w].id # i

\* A handler takes no row that is in the table.
LEMMA TurnHolds ==
    ASSUME TypeOK, NEW w \in Workers, Turn(w),
           HasRow(w)', worker'[w].id \in DOMAIN dispatch
    PROVE  HasRow(w) /\ worker'[w].id = worker[w].id
  <1>1. CASE Stays(w) \/ Loses(w)
    BY <1>1 DEF Stays, Loses, TypeOK, WorkerTypeOK, WorkerRecord, HasRow
  <1>2. CASE Creates(w)
    BY <1>2, HandlerLeaves DEF Creates, Inserts
  <1>3. CASE Drops(w) \/ Completes(w)
    BY <1>3, HandlerLeaves DEF Drops, Completes
  <1>4. CASE ReadsRequest(w) \/ ReadsNoSuccess(w) \/ \E r \in Requests : Takes(w, r)
    BY <1>4 DEF ReadsRequest, ReadsNoSuccess, Takes, GoesTo, HasRow
  <1>5. CASE \/ Reads(w) \/ Catches(w) \/ Succeeds(w)
             \/ Waits(w) \/ GivesUp(w) \/ FailsRequest(w)
    BY <1>5, HandlerLeaves
    DEF Reads, Catches, Succeeds, Waits, GivesUp, FailsRequest, Goes, HasRow, WorkerAt
  <1> QED BY <1>1, <1>2, <1>3, <1>4, <1>5 DEF Turn

LEMMA LeftStays ==
    ASSUME DispatchInv, [Next]_vars, NEW i, Left(i)
    PROVE  Left(i)'
  <1> USE DEF DispatchInv, IntakeInv
  <1>1. CASE WorkerNext /\ UNCHANGED <<send, relay, retry, dlqVars, walk>>
    <2>1. PICK w \in Workers : /\ \A v \in Workers \ {w} : worker'[v] = worker[v]
                               /\ Turn(w)
      BY <1>1, WorkerTurns
    <2>2. i \in DOMAIN dispatch' /\ Keeps(i)
      BY <2>1, TurnOwner DEF WritesOwn, Left, Owns
    <2>3. HasRow(w)' => worker'[w].id # i
      BY <2>1, TurnHolds DEF Left
    <2>4. \A v \in Workers : HasRow(v)' => worker'[v].id # i
      BY <2>1, <2>3 DEF Left, HasRow
    <2> QED BY <1>1, <2>2, <2>4 DEF Left, Keeps
  <1>2. CASE RetryNext /\ UNCHANGED <<send, relay, workerVars, dlqVars, walk>>
    <2>1. PICK t \in RetryTicks : /\ \A u \in RetryTicks \ {t} : retry'[u] = retry[u]
                                  /\ RunTurn(t)
      BY <1>2, RetryTurns
    <2>2. i \in DOMAIN dispatch' /\ Keeps(i)
      BY <2>1, RunKeeps DEF Left
    <2>3. i \notin retry'[t].batch
      BY <2>1 DEF Left, RunTurn, RunStarts, RunGoesOn, RunSends
    <2> QED BY <1>2, <2>1, <2>2, <2>3 DEF Left, Keeps, HasRow, workerVars
  <1>3. CASE Rests /\ UNCHANGED <<workerVars, retry>>
    BY <1>3 DEF Rests, Keeps, Left, HasRow, workerVars
  <1> QED BY <1>1, <1>2, <1>3, OthersRest

DeadLettersAreLeft ==
    \A k \in DOMAIN dlqTopic :
       /\ Left(dlqTopic[k])
       /\ \A l \in DOMAIN dlqTopic : dlqTopic[k] = dlqTopic[l] => k = l

\* The letter is behind the others, and its row leaves with its handler.
LEMMA LetterIsLeft ==
    ASSUME DispatchInv, NEW w \in Workers, SendsLetter(w), UNCHANGED retry,
           NEW i, i = worker[w].id
    PROVE  /\ Left(i)'
           /\ ~Left(i)
           /\ DOMAIN dlqTopic' = DOMAIN dlqTopic \cup {Len(dlqTopic) + 1}
           /\ Len(dlqTopic) + 1 \notin DOMAIN dlqTopic
           /\ dlqTopic'[Len(dlqTopic) + 1] = i
           /\ \A k \in DOMAIN dlqTopic : dlqTopic'[k] = dlqTopic[k]
  <1> USE DEF DispatchInv, IntakeInv, TypeOK
  <1>1. HasRow(w) /\ Owns(w, i)
    BY DEF SendsLetter, WorkerAt, HasRow, Owns
  <1>2. /\ i \in DOMAIN dispatch
        /\ dispatch[i].status = "FAILED"
        /\ \A t \in RetryTicks : i \notin retry[t].batch
    BY <1>1
    DEF WorkerTypeOK, RowsInv, RowsFollowHandlers, FollowsRow, SendsLetter, WorkerAt,
        BatchesAreOfNobody
  <1>3. \A v \in Workers : HasRow(v)' => worker'[v].id # i
    BY <1>1, HandlerLeaves DEF SendsLetter, RowsInv, RowsHaveOneHandler, HasRow
  <1>4. i \in Nat /\ dlqTopic \in Seq(Nat)
    BY DEF WorkerTypeOK, WorkerRecord, StoreTypeOK
  <1>5. /\ Len(dlqTopic) \in Nat /\ DOMAIN dlqTopic = 1..Len(dlqTopic)
        /\ Len(dlqTopic') = Len(dlqTopic) + 1 /\ DOMAIN dlqTopic' = 1..Len(dlqTopic')
    BY <1>4, LenProperties, AppendProperties DEF SendsLetter
  <1>6. /\ dlqTopic'[Len(dlqTopic) + 1] = worker[w].id
        /\ \A k \in DOMAIN dlqTopic : dlqTopic'[k] = dlqTopic[k]
    BY <1>4, ExtendedTable DEF SendsLetter
  <1>7. Left(i)'
    BY <1>2, <1>3 DEF Left, SendsLetter, NothingSaved
  <1>8. ~Left(i)
    BY <1>1 DEF Left
  <1> QED BY <1>5, <1>6, <1>7, <1>8

LEMMA DeadLettersStep ==
    ASSUME DispatchInv, DeadLettersAreLeft, [Next]_vars
    PROVE  DeadLettersAreLeft'
  <1>1. \A k \in DOMAIN dlqTopic : \A i : i = dlqTopic[k] => Left(i)'
    BY LeftStays DEF DeadLettersAreLeft
  <1>2. CASE UNCHANGED dlqTopic
    BY <1>1, <1>2 DEF DeadLettersAreLeft
  <1>3. ASSUME NEW w \in Workers, SendsLetter(w), UNCHANGED retry
        PROVE  DeadLettersAreLeft'
    <2>1. PICK i : i = worker[w].id
      OBVIOUS
    <2>2. \A k \in DOMAIN dlqTopic : dlqTopic[k] # i
      BY <1>3, <2>1, LetterIsLeft DEF DeadLettersAreLeft
    <2>3. ASSUME NEW k \in DOMAIN dlqTopic'
          PROVE  /\ Left(dlqTopic[k])'
                 /\ \A l \in DOMAIN dlqTopic' : dlqTopic'[k] = dlqTopic'[l] => k = l
      BY <1>1, <1>3, <2>1, <2>2, LetterIsLeft DEF DeadLettersAreLeft
    <2> QED BY <2>3 DEF DeadLettersAreLeft
  <1> QED BY <1>2, <1>3, LetterSent DEF DispatchInv, IntakeInv

\* message.dlq holds dispatches that are FAILED for good, each of them once: a
\* handler sends the row it alone holds, and returns.
THEOREM DeadLettersAreFailed == Spec => []DeadLettersFailed
  <1>1. Init => DeadLettersAreLeft
    BY DEF Init, StoreInit, DeadLettersAreLeft
  <1>2. DispatchInv /\ DeadLettersAreLeft /\ [Next]_vars => DeadLettersAreLeft'
    BY DeadLettersStep
  <1>3. DeadLettersAreLeft => DeadLettersFailed
    BY DEF DeadLettersAreLeft, Left, DeadLettersFailed
  <1> QED BY <1>1, <1>2, <1>3, DispatchInvariance, PTL DEF Spec

-----------------------------------------------------------------------------
(***************************************************************************)
(* Rows of tb_message_dlq.  Each fault pays for one row more: the failure  *)
(* that was dead-lettered for the first, a restart of the consumer for     *)
(* each other one.                                                         *)
(***************************************************************************)
LEMMA FaultsCount ==
    ASSUME TypeOK, [Next]_vars
    PROVE  faults \in Nat /\ faults' \in Nat /\ (faults' = faults \/ faults' = faults + 1)
  <1>1. faults \in Nat /\ MaxFaults \in Nat
    BY StoreAssumption DEF TypeOK, StoreTypeOK
  <1> SUFFICES faults' = faults \/ faults' = faults + 1
    BY <1>1
  <1>2. CASE GatewayNext
    BY <1>2
    DEF GatewayNext, SendStep, Receive, FindExisting, FindTemplate, FindAccess, FindVariables,
        ReadFails, Commit, CommitFails, CommitConflict, Publish, MarkPublished, MarkQueued,
        SendFails, FindPayload, Republish, RepublishFails, MarkRequeued, MarkRequeuedFails,
        GatewayCrash, storeVars, Fault
  <1>3. CASE RelayNext
    BY <1>3
    DEF RelayNext, RelayStep, RelayFind, RelayPublish, RelayPublishFails, RelaySave,
        RelaySaveFails, RelayCrash, storeVars, Fault
  <1>4. CASE RetryNext
    BY <1>4
    DEF RetryNext, RetryStep, RetryFind, LoadEvent, MarkFailed, RetryPublish, SaveProcessing,
        RetryFails, RetryCrash, storeVars, Fault
  <1>5. CASE DlqNext \/ EnvironmentNext \/ AdminNext \/ UNCHANGED vars
    BY <1>5
    DEF DlqNext, DlqStep, SaveDlqEntry, SaveDlqEntryFails, DlqCrash, EnvironmentNext,
        PurgePayload, BackoffElapses, AdminNext, storeVars, vars, Fault
  <1>6. CASE WorkerNext
    <2>1. PICK w \in Workers : \/ WorkerStep(w)
                               \/ WorkerCrash(w)
                               \/ \E q \in Requests : IdleCrash(w, q)
                               \/ Rebalance(w)
      BY <1>6 DEF WorkerNext
    <2> QED
      BY <2>1
      DEF WorkerStep, Deliver, SkipOtherChannel, FindRequest, FindSuccess, CreateDispatch,
          WriteLog, SaveSuccess, SaveCompleted, TryFails, SaveRetry, LogRetry, SaveFailed,
          SaveRequestFailed, EventFails, WorkerCrash, IdleCrash, Rebalance, PublishDlq,
          storeVars, Fault
  <1> QED BY <1>2, <1>3, <1>4, <1>5, <1>6 DEF Next

\* Nobody gives up before a failure.
FaultBefore ==
    /\ ~NobodyGivesUp => faults > 0
    /\ dlqTopic # << >> => faults > 0

LEMMA GivingUpIsAFault ==
    ASSUME TypeOK, FaultBefore, WorkerNext, ~NobodyGivesUp'
    PROVE  ~NobodyGivesUp \/ faults' = faults + 1
  <1> USE DEF TypeOK
  <1>1. PICK w \in Workers : \/ WorkerStep(w)
                             \/ WorkerCrash(w)
                             \/ \E q \in Requests : IdleCrash(w, q)
                             \/ Rebalance(w)
    BY DEF WorkerNext
  <1>2. SUFFICES ASSUME NobodyGivesUp, worker'[w].pc \in GivingUp
                 PROVE  faults' = faults + 1
    <2>1. \A v \in Workers \ {w} : worker'[v] = worker[v]
      BY <1>1
      DEF WorkerStep, Deliver, SkipOtherChannel, FindRequest, FindSuccess, CreateDispatch,
          WriteLog, SaveSuccess, SaveCompleted, TryFails, SaveRetry, LogRetry, SaveFailed,
          SaveRequestFailed, PublishDlq, EventFails, WorkerCrash, IdleCrash, Rebalance,
          workerVars, WorkerTypeOK, WorkerGoto, Return, Caught
    <2> QED BY <1>2, <2>1 DEF NobodyGivesUp
  <1>3. worker \in [Workers -> WorkerRecord] /\ worker[w].pc \notin GivingUp
    BY <1>2 DEF WorkerTypeOK, NobodyGivesUp
  <1>4. CASE TryFails(w) \/ EventFails(w) \/ WorkerCrash(w) \/ Rebalance(w)
    BY <1>4 DEF TryFails, EventFails, WorkerCrash, Rebalance, Fault
  <1>5. CASE \E q \in Requests : IdleCrash(w, q)
    BY <1>5 DEF IdleCrash, Fault
  <1>6. ASSUME NEW r \in Requests, Deliver(w, r) \/ SkipOtherChannel(w, r)
        PROVE  worker'[w].pc \notin GivingUp
    <2>1. CASE Deliver(w, r)
      BY <1>3, <2>1 DEF Deliver, WorkerIdle, WorkerRecord, GivingUp
    <2>2. CASE SkipOtherChannel(w, r)
      BY <1>3, <2>2 DEF SkipOtherChannel
    <2> QED BY <1>6, <2>1, <2>2
  <1>7. CASE FindRequest(w) \/ FindSuccess(w) \/ CreateDispatch(w) \/ WriteLog(w) \/ SaveSuccess(w)
    BY <1>2, <1>3, <1>7
    DEF FindRequest, FindSuccess, CreateDispatch, WriteLog, SaveSuccess, WorkerGoto, WorkerAt,
        Return, WorkerIdle, WorkerRecord, GivingUp
  <1>8. CASE SaveCompleted(w) \/ SaveRetry(w) \/ LogRetry(w) \/ PublishDlq(w)
    BY <1>2, <1>3, <1>8
    DEF SaveCompleted, SaveRetry, LogRetry, PublishDlq, WorkerGoto, WorkerAt, Return,
        WorkerIdle, WorkerRecord, GivingUp
  <1>9. CASE SaveFailed(w) \/ SaveRequestFailed(w)
    BY <1>3, <1>9 DEF SaveFailed, SaveRequestFailed, WorkerAt, GivingUp
  <1> QED BY <1>1, <1>2, <1>4, <1>5, <1>6, <1>7, <1>8, <1>9 DEF WorkerStep

LEMMA FaultBeforeStep ==
    ASSUME TypeOK, FaultBefore, [Next]_vars
    PROVE  FaultBefore'
  <1>1. faults \in Nat /\ (faults' = faults \/ faults' = faults + 1)
    BY FaultsCount
  <1>2. dlqTopic' # << >> => faults' > 0
    BY <1>1, LetterSent DEF FaultBefore, SendsLetter, NobodyGivesUp, GivingUp, WorkerAt
  <1>3. CASE WorkerNext /\ UNCHANGED <<send, relay, retry, dlqVars, walk>>
    BY <1>1, <1>2, <1>3, GivingUpIsAFault DEF FaultBefore
  <1>4. ASSUME ~(WorkerNext /\ UNCHANGED <<send, relay, retry, dlqVars, walk>>)
        PROVE  UNCHANGED worker
    BY <1>4 DEF Next, vars, workerVars
  <1>5. UNCHANGED worker => (NobodyGivesUp' <=> NobodyGivesUp)
    BY DEF NobodyGivesUp
  <1> QED BY <1>1, <1>2, <1>3, <1>4, <1>5 DEF FaultBefore

\* What the rows of tb_message_dlq and the consumer's position have cost.
RowsOf(i) == Cardinality(RowsFor(i))

Awaited(l) == IF l > dlqPosition THEN 1 ELSE 0

LettersInv ==
    /\ \A k \in DOMAIN dlqTable : \E l \in DOMAIN dlqTopic : dlqTopic[l] = dlqTable[k]
    /\ \A l \in DOMAIN dlqTopic : RowsOf(dlqTopic[l]) + Awaited(l) <= faults

LEMMA RowsForTyping ==
    ASSUME TypeOK, NEW i
    PROVE  /\ IsFiniteSet(RowsFor(i)) /\ RowsOf(i) \in Nat
           /\ \A l : Awaited(l) \in {0, 1}
  <1>1. IsFiniteSet(DOMAIN dlqTable)
    BY LenProperties, FS_Interval DEF TypeOK, DlqTypeOK
  <1> QED BY <1>1, FS_Subset, FS_CardinalityType DEF RowsFor, RowsOf, Awaited

\* The consumer inserts the row of its letter.
LEMMA DlqRowInserted ==
    ASSUME TypeOK, NEW e \in Nat, dlqTable' = Append(dlqTable, e), NEW i
    PROVE  /\ DOMAIN dlqTable' = DOMAIN dlqTable \cup {Len(dlqTable) + 1}
           /\ dlqTable'[Len(dlqTable) + 1] = e
           /\ \A k \in DOMAIN dlqTable : dlqTable'[k] = dlqTable[k]
           /\ RowsOf(i)' = IF i = e THEN RowsOf(i) + 1 ELSE RowsOf(i)
  <1>1. dlqTable \in Seq(Nat)
    BY DEF TypeOK, DlqTypeOK
  <1>2. /\ Len(dlqTable) \in Nat /\ DOMAIN dlqTable = 1..Len(dlqTable)
        /\ Len(dlqTable') = Len(dlqTable) + 1 /\ DOMAIN dlqTable' = 1..Len(dlqTable')
    BY <1>1, LenProperties, AppendProperties
  <1>3. /\ dlqTable'[Len(dlqTable) + 1] = e
        /\ \A k \in DOMAIN dlqTable : dlqTable'[k] = dlqTable[k]
    BY <1>1, ExtendedTable
  <1>4. /\ DOMAIN dlqTable' = DOMAIN dlqTable \cup {Len(dlqTable) + 1}
        /\ Len(dlqTable) + 1 \notin DOMAIN dlqTable
    BY <1>2
  <1>5. CASE i = e
    <2>1. RowsFor(i)' = RowsFor(i) \cup {Len(dlqTable) + 1} /\ Len(dlqTable) + 1 \notin RowsFor(i)
      BY <1>3, <1>4, <1>5 DEF RowsFor
    <2>2. Cardinality(RowsFor(i) \cup {Len(dlqTable) + 1}) = Cardinality(RowsFor(i)) + 1
      BY <2>1, RowsForTyping, FS_AddElement
    <2> QED BY <1>3, <1>4, <1>5, <2>1, <2>2 DEF RowsOf
  <1>6. CASE i # e
    <2>1. RowsFor(i)' = RowsFor(i)
      BY <1>3, <1>4, <1>6 DEF RowsFor
    <2> QED BY <1>3, <1>4, <1>6, <2>1 DEF RowsOf
  <1> QED BY <1>5, <1>6

\* One letter is read: it is no longer awaited, and has a row more or not.
LEMMA LetterRead ==
    ASSUME TypeOK, DeadLettersAreLeft, LettersInv, UNCHANGED dlqTopic,
           DlqUnread, dlqPosition' = dlqPosition + 1, faults \in Nat, faults' \in Nat,
           faults' >= faults,
           UNCHANGED dlqTable \/ dlqTable' = Append(dlqTable, DlqEntry)
    PROVE  LettersInv'
  <1>1. PICK p : p = dlqPosition + 1
    OBVIOUS
  <1>2. p \in DOMAIN dlqTopic /\ DlqEntry = dlqTopic[p] /\ dlqTopic[p] \in Nat
    <2>1. p \in 1..Len(dlqTopic) /\ DOMAIN dlqTopic = 1..Len(dlqTopic)
      BY <1>1, LenProperties DEF TypeOK, StoreTypeOK, DlqTypeOK, DlqUnread
    <2> QED BY <1>1, <2>1, ElementOfSeq DEF TypeOK, StoreTypeOK, DlqEntry
  <1>3. /\ p \in Nat /\ dlqPosition \in Nat
        /\ Awaited(p) = 1 /\ Awaited(p)' = 0
        /\ \A l \in DOMAIN dlqTopic : l # p => Awaited(l)' = Awaited(l)
    BY <1>1, LenProperties DEF TypeOK, StoreTypeOK, DlqTypeOK, Awaited
  <1>4. CASE UNCHANGED dlqTable
    <2>1. \A i : RowsOf(i)' = RowsOf(i)
      BY <1>4 DEF RowsOf, RowsFor
    <2>2. ASSUME NEW l \in DOMAIN dlqTopic, NEW i, i = dlqTopic[l]
          PROVE  RowsOf(i)' + Awaited(l)' <= faults'
      BY <1>3, <2>1, <2>2, RowsForTyping DEF LettersInv
    <2> QED BY <1>4, <2>2 DEF LettersInv
  <1>5. CASE dlqTable' = Append(dlqTable, DlqEntry)
    <2>1. ASSUME NEW l \in DOMAIN dlqTopic, NEW i, i = dlqTopic[l]
          PROVE  RowsOf(i)' + Awaited(l)' <= faults'
      <3>1. RowsOf(i)' = IF i = dlqTopic[p] THEN RowsOf(i) + 1 ELSE RowsOf(i)
        BY <1>2, <1>5, DlqRowInserted
      <3>2. RowsOf(i) \in Nat /\ Awaited(l) \in {0, 1} /\ RowsOf(i) + Awaited(l) <= faults
        BY <2>1, RowsForTyping DEF LettersInv
      <3>3. i = dlqTopic[p] => l = p
        BY <1>2, <2>1 DEF DeadLettersAreLeft
      <3> QED BY <1>3, <2>1, <3>1, <3>2, <3>3
    <2>2. \A k \in DOMAIN dlqTable' :
             dlqTable'[k] = dlqTopic[p] \/ (k \in DOMAIN dlqTable /\ dlqTable'[k] = dlqTable[k])
      BY <1>2, <1>5, DlqRowInserted
    <2> QED BY <1>2, <2>1, <2>2 DEF LettersInv
  <1> QED BY <1>4, <1>5

LEMMA LettersStep ==
    ASSUME DispatchInv, DeadLettersAreLeft, FaultBefore, LettersInv, [Next]_vars
    PROVE  LettersInv'
  <1> USE DEF DispatchInv, IntakeInv
  <1>1. /\ faults \in Nat /\ faults' \in Nat /\ faults' >= faults
        /\ (faults' = faults \/ faults' = faults + 1)
    BY FaultsCount
  <1>2. ASSUME UNCHANGED dlqTable PROVE \A i : RowsOf(i)' = RowsOf(i)
    BY <1>2 DEF RowsOf, RowsFor
  <1>3. CASE UNCHANGED <<dlqTopic, dlqTable, dlqPosition>>
    <2>1. \A l : Awaited(l)' = Awaited(l)
      BY <1>3 DEF Awaited
    <2>2. ASSUME NEW l \in DOMAIN dlqTopic, NEW i, i = dlqTopic[l]
          PROVE  RowsOf(i)' + Awaited(l)' <= faults'
      BY <1>1, <1>2, <1>3, <2>1, <2>2, RowsForTyping DEF LettersInv
    <2> QED BY <1>3, <2>2 DEF LettersInv
  <1>4. CASE DlqNext /\ UNCHANGED <<send, relay, retry, workerVars, walk>>
    <2>1. CASE DlqStep
      BY <1>1, <2>1, LetterRead
      DEF DlqStep, SaveDlqEntry, SaveDlqEntryFails, DlqConsumed, AfterFailedSave, storeVars
    <2>2. CASE DlqCrash
      <3>1. UNCHANGED <<dlqTopic, dlqTable>> /\ faults' = faults + 1
        BY <2>2 DEF DlqCrash, Fault
      <3>2. ASSUME NEW l \in DOMAIN dlqTopic, NEW i, i = dlqTopic[l]
            PROVE  RowsOf(i)' + Awaited(l)' <= faults'
        <4>1. Awaited(l) \in {0, 1} /\ Awaited(l)' \in {0, 1} /\ RowsOf(i) \in Nat
          BY RowsForTyping DEF Awaited
        <4>2. RowsOf(i) + Awaited(l) <= faults
          BY <3>2 DEF LettersInv
        <4> QED BY <1>1, <1>2, <3>1, <4>1, <4>2
      <3> QED BY <3>1, <3>2 DEF LettersInv
    <2> QED BY <1>4, <2>1, <2>2 DEF DlqNext
  <1>5. ASSUME NEW w \in Workers, SendsLetter(w), UNCHANGED <<retry, dlqVars>>
        PROVE  LettersInv'
    <2>1. PICK e : e = worker[w].id
      OBVIOUS
    <2>2. /\ DOMAIN dlqTopic' = DOMAIN dlqTopic \cup {Len(dlqTopic) + 1}
          /\ Len(dlqTopic) + 1 \notin DOMAIN dlqTopic
          /\ dlqTopic'[Len(dlqTopic) + 1] = e
          /\ \A k \in DOMAIN dlqTopic : dlqTopic'[k] = dlqTopic[k]
          /\ ~Left(e)
      BY <1>5, <2>1, LetterIsLeft
    <2>3. faults > 0
      BY <1>5 DEF FaultBefore, NobodyGivesUp, GivingUp, SendsLetter, WorkerAt
    <2>4. RowsOf(e) = 0
      <3>1. RowsFor(e) = {}
        BY <2>2 DEF RowsFor, LettersInv, DeadLettersAreLeft
      <3> QED BY <3>1, FS_EmptySet DEF RowsOf
    <2>5. \A l, i : RowsOf(i)' = RowsOf(i) /\ Awaited(l)' = Awaited(l)
      BY <1>2, <1>5 DEF dlqVars, Awaited
    <2>6. ASSUME NEW l \in DOMAIN dlqTopic', NEW i, i = dlqTopic'[l]
          PROVE  RowsOf(i)' + Awaited(l)' <= faults'
      <3>1. Awaited(l) \in {0, 1} /\ RowsOf(i) \in Nat
        BY RowsForTyping
      <3>2. CASE l \in DOMAIN dlqTopic
        <4>1. RowsOf(i) + Awaited(l) <= faults
          BY <2>2, <2>6, <3>2 DEF LettersInv
        <4> QED BY <1>1, <2>5, <3>1, <4>1
      <3>3. CASE l = Len(dlqTopic) + 1
        BY <1>1, <2>2, <2>3, <2>4, <2>5, <2>6, <3>1, <3>3
      <3> QED BY <2>2, <2>6, <3>2, <3>3
    <2>7. \A k \in DOMAIN dlqTable' : \E l \in DOMAIN dlqTopic' : dlqTopic'[l] = dlqTable'[k]
      BY <1>5, <2>2 DEF LettersInv, dlqVars
    <2> QED BY <2>6, <2>7 DEF LettersInv
  <1>6. ASSUME ~(DlqNext /\ UNCHANGED <<send, relay, retry, workerVars, walk>>)
        PROVE  UNCHANGED <<dlqTable, dlqPosition>>
    BY <1>6 DEF Next, vars, dlqVars, AdminNext
  <1> QED BY <1>3, <1>4, <1>5, <1>6, LetterSent DEF dlqVars

\* A row of tb_message_dlq has its event in message.dlq, and a dispatch has no
\* more rows than there were faults: the first is paid by the failure that was
\* dead-lettered, every other one by a restart of the consumer.
THEOREM DeadLetterRowsPaid == Spec => []DeadLetterRowsExplained
  <1>1. Init => DeadLettersAreLeft /\ FaultBefore /\ LettersInv
    BY DEF Init, StoreInit, WorkerInit, WorkerIdle, DlqInit, DeadLettersAreLeft, FaultBefore,
           NobodyGivesUp, GivingUp, LettersInv
  <1>2. DispatchInv /\ DeadLettersAreLeft /\ FaultBefore /\ LettersInv /\ [Next]_vars
           => (DeadLettersAreLeft /\ FaultBefore /\ LettersInv)'
    BY DeadLettersStep, FaultBeforeStep, LettersStep DEF DispatchInv, IntakeInv
  <1>3. DispatchInv /\ LettersInv => DeadLetterRowsExplained
    <2> SUFFICES ASSUME DispatchInv, LettersInv, NEW k \in DOMAIN dlqTable
                 PROVE  /\ \E l \in DOMAIN dlqTopic : dlqTopic[l] = dlqTable[k]
                        /\ RowsOf(dlqTable[k]) <= faults
      BY DEF DeadLetterRowsExplained, RowsOf
    <2>1. PICK l \in DOMAIN dlqTopic : dlqTopic[l] = dlqTable[k]
      BY DEF LettersInv
    <2>2. RowsOf(dlqTable[k]) \in Nat /\ Awaited(l) \in {0, 1} /\ faults \in Nat
      <3>1. TypeOK
        BY DEF DispatchInv, IntakeInv
      <3>2. faults \in Nat
        BY <3>1, StoreAssumption DEF TypeOK, StoreTypeOK
      <3> QED BY <3>1, <3>2, RowsForTyping
    <2>3. RowsOf(dlqTable[k]) + Awaited(l) <= faults
      BY <2>1 DEF LettersInv
    <2> QED BY <2>1, <2>2, <2>3
  <1> QED BY <1>1, <1>2, <1>3, DispatchInvariance, PTL DEF Spec

-----------------------------------------------------------------------------
(***************************************************************************)
(* What a turn of a call, and of a relay run, does to the tables.          *)
(***************************************************************************)
Stores(s) ==
    /\ SendAt(s, "commit") /\ ~Committed(send[s].req)
    /\ \E c \in Channels : InsertRows(s, c)
    /\ UNCHANGED topic

Publishes(s) ==
    /\ send[s].pc \in {"publish", "republish"}
    /\ topic' = Appended(send[s].req)
    /\ UNCHANGED <<request, outbox>>

MarksPublished(s) ==
    /\ SendAt(s, "markPublished")
    /\ outbox' = [outbox EXCEPT ![send[s].req].status = "PUBLISHED"]
    /\ UNCHANGED <<request, topic>>

Queues(s) ==
    /\ send[s].pc \in {"markQueued", "markRequeued"}
    /\ request' = [request EXCEPT ![send[s].req] = QueuedEntity(s)]
    /\ UNCHANGED <<outbox, topic>>

CallTurn(s) ==
    /\ \/ UNCHANGED <<request, outbox, topic>>
       \/ Stores(s) \/ Publishes(s) \/ MarksPublished(s) \/ Queues(s)
    /\ send'[s].pc \in Holding =>
          /\ send'[s].req = send[s].req
          /\ \/ send[s].pc \in Holding /\ send'[s].entity = send[s].entity
             \/ send'[s].entity = request'[send[s].req]
    /\ send[s].pc # "idle" => send'[s].req = send[s].req
    /\ send'[s].response = "ok" => UNCHANGED topic /\ ~Stores(s)
    /\ send'[s].response = "unavailable" =>
          send[s].response = "unavailable" \/ send[s].pc \in Holding

LEMMA CallTurns ==
    ASSUME TypeOK, AnswersAreLast, GatewayNext
    PROVE  \E s \in Sends : /\ \A q \in Sends \ {s} : send'[q] = send[q]
                            /\ send[s].pc # "done"
                            /\ CallTurn(s)
  <1> USE DEF TypeOK
  <1>1. PICK s \in Sends : \/ \E q \in Requests : Receive(s, q)
                           \/ SendStep(s)
                           \/ GatewayCrash(s)
    BY DEF GatewayNext
  <1>2. \A q \in Sends \ {s} : send'[q] = send[q]
    BY <1>1
    DEF SendStep, Receive, FindExisting, FindTemplate, FindAccess, FindVariables, ReadFails,
        Commit, CommitFails, CommitConflict, Publish, MarkPublished, MarkQueued, SendFails,
        FindPayload, Republish, RepublishFails, MarkRequeued, MarkRequeuedFails, GatewayCrash,
        Respond, SendGoto, GatewayTypeOK
  <1>3. send[s].pc # "done"
    BY <1>1
    DEF SendStep, Receive, FindExisting, FindTemplate, FindAccess, FindVariables, ReadFails,
        Commit, CommitFails, CommitConflict, Publish, MarkPublished, MarkQueued, SendFails,
        FindPayload, Republish, RepublishFails, MarkRequeued, MarkRequeuedFails, GatewayCrash,
        SendAt
  <1>4. send \in [Sends -> SendRecord] /\ send[s].response = "none"
    BY <1>3 DEF GatewayTypeOK, AnswersAreLast
  <1>5. ASSUME NEW a, Respond(s, a)
        PROVE  /\ send'[s].pc = "done" /\ send'[s].response = a
               /\ send'[s].req = send[s].req
    BY <1>4, <1>5 DEF Respond, SendRecord
  <1>6. ASSUME NEW pc, SendGoto(s, pc)
        PROVE  /\ send'[s].pc = pc /\ send'[s].response = "none"
               /\ send'[s].req = send[s].req /\ send'[s].entity = send[s].entity
    BY <1>4, <1>6 DEF SendGoto, SendRecord
  <1> SUFFICES CallTurn(s)
    BY <1>2, <1>3
  <1> DEFINE Silent == UNCHANGED <<request, outbox, topic>>
  <1>7. CASE \E q \in Requests : Receive(s, q)
    BY <1>4, <1>7 DEF Receive, SendAt, storeVars, CallTurn, Holding, SendRecord
  <1>8. CASE FindExisting(s)
    <2>1. Silent
      BY <1>8 DEF FindExisting, storeVars
    <2>2. CASE SendGoto(s, "findTemplate") \/ Respond(s, "ok")
      <3>1. ~Stores(s)
        BY <1>8 DEF FindExisting, Stores, SendAt
      <3> QED BY <1>5, <1>6, <2>1, <2>2, <3>1 DEF CallTurn, Holding
    <2>3. CASE send' = [send EXCEPT ![s].pc = "findPayload",
                                    ![s].entity = request[send[s].req]]
      <3>1. /\ send'[s].pc = "findPayload" /\ send'[s].entity = request[send[s].req]
            /\ send'[s].req = send[s].req /\ send'[s].response = "none"
        BY <1>4, <2>3 DEF SendRecord
      <3> QED BY <2>1, <3>1 DEF CallTurn
    <2> QED BY <1>8, <2>2, <2>3 DEF FindExisting
  <1>9. CASE FindTemplate(s) \/ FindAccess(s)
    <2>1. Silent /\ \/ SendGoto(s, "findVariables") \/ SendGoto(s, "findAccess")
                    \/ Respond(s, "rejected")
      BY <1>9 DEF FindTemplate, FindAccess, storeVars
    <2> QED BY <1>5, <1>6, <2>1 DEF CallTurn, Holding
  <1>10. CASE FindVariables(s)
    <2>1. Silent
      BY <1>10 DEF FindVariables, storeVars
    <2>2. CASE Respond(s, "rejected")
      BY <1>5, <2>1, <2>2 DEF CallTurn, Holding
    <2>3. CASE send' = [send EXCEPT ![s].pc = "commit", ![s].startedAt = Now]
      <3>1. /\ send'[s].pc = "commit" /\ send'[s].req = send[s].req
            /\ send'[s].response = "none"
        BY <1>4, <2>3 DEF SendRecord
      <3> QED BY <2>1, <3>1 DEF CallTurn, Holding
    <2> QED BY <1>10, <2>2, <2>3 DEF FindVariables
  <1>11. CASE ReadFails(s) \/ CommitConflict(s) \/ GatewayCrash(s)
    <2>1. Silent /\ \E a \in {"error", "lost"} : Respond(s, a)
      BY <1>11 DEF ReadFails, CommitConflict, GatewayCrash, storeVars
    <2> QED BY <1>5, <2>1 DEF CallTurn, Holding
  <1>12. ASSUME NEW c \in Channels, Commit(s, c) PROVE CallTurn(s)
    <2>1. Stores(s)
      BY <1>12 DEF Commit, Stores, Committed
    <2>2. /\ send'[s].req = send[s].req /\ send'[s].entity = NewRow(c)
          /\ send'[s].response = "none"
      BY <1>4, <1>12 DEF Commit, SendRecord
    <2>3. request'[send[s].req] = NewRow(c)
      BY <1>12 DEF Commit, InsertRows, StoreTypeOK, GatewayTypeOK, SendAt
    <2> QED BY <2>1, <2>2, <2>3 DEF CallTurn
  <1>13. ASSUME NEW c \in Channels, CommitFails(s, c) PROVE CallTurn(s)
    <2>1. Silent \/ Stores(s)
      BY <1>13 DEF CommitFails, Stores, Committed
    <2> QED BY <1>5, <1>13, <2>1 DEF CommitFails, CallTurn, Holding
  <1>14. CASE Publish(s) \/ Republish(s)
    <2>1. /\ Publishes(s) /\ send[s].pc \in Holding
          /\ SendGoto(s, "markPublished") \/ SendGoto(s, "markRequeued")
      BY <1>14 DEF Publish, Republish, Publishes, SendAt, Holding
    <2> QED BY <1>6, <2>1 DEF CallTurn
  <1>15. CASE MarkPublished(s)
    <2>1. MarksPublished(s) /\ send[s].pc \in Holding /\ SendGoto(s, "markQueued")
      BY <1>15 DEF MarkPublished, MarksPublished, SendAt, Holding
    <2> QED BY <1>6, <2>1 DEF CallTurn
  <1>16. CASE MarkQueued(s) \/ MarkRequeued(s)
    <2>1. Queues(s) /\ Respond(s, "ok") /\ ~Stores(s)
      BY <1>16 DEF MarkQueued, MarkRequeued, Queues, Stores, SendAt
    <2> QED BY <1>5, <2>1 DEF CallTurn, Queues, Holding
  <1>17. CASE SendFails(s)
    <2>1. /\ send[s].pc \in Holding /\ Respond(s, "unavailable")
          /\ Silent \/ Publishes(s) \/ MarksPublished(s) \/ Queues(s)
      BY <1>17
      DEF SendFails, AfterFailedSend, AfterFailedSave, Publishes, MarksPublished, Queues,
          SendAt, Holding
    <2> QED BY <1>5, <2>1 DEF CallTurn, Holding
  <1>18. CASE FindPayload(s)
    <2>1. /\ Silent /\ send[s].pc \in Holding
          /\ SendGoto(s, "republish") \/ Respond(s, "error")
      BY <1>18 DEF FindPayload, SendAt, Holding, storeVars
    <2> QED BY <1>5, <1>6, <2>1 DEF CallTurn, Holding
  <1>19. CASE RepublishFails(s)
    <2>1. /\ send[s].pc \in Holding /\ Respond(s, "unavailable")
          /\ Silent \/ Publishes(s)
      BY <1>19 DEF RepublishFails, AfterFailedSend, Publishes, SendAt, Holding
    <2> QED BY <1>5, <2>1 DEF CallTurn, Holding
  <1>20. CASE MarkRequeuedFails(s)
    <2>1. Respond(s, "error") /\ (Silent \/ Queues(s))
      BY <1>20 DEF MarkRequeuedFails, AfterFailedSave, Queues, SendAt
    <2> QED BY <1>5, <2>1 DEF CallTurn, Holding
  <1> QED
    BY <1>1, <1>7, <1>8, <1>9, <1>10, <1>11, <1>12, <1>13, <1>14, <1>15, <1>16, <1>17,
       <1>18, <1>19, <1>20 DEF SendStep

RelayTurn(t) ==
    /\ \A r \in relay'[t].batch : r \in relay[t].batch \/ outbox[r].status = "PENDING"
    /\ \A r \in Requests : outbox'[r].status = "PENDING" => outbox[r].status = "PENDING"
    /\ \/ UNCHANGED topic
       \/ \E r \in relay[t].batch : topic' = Appended(r)

LEMMA RelayTurns ==
    ASSUME TypeOK, RelayNext
    PROVE  /\ UNCHANGED request
           /\ \E t \in RelayTicks : /\ \A u \in RelayTicks \ {t} : relay'[u] = relay[u]
                                    /\ RelayTurn(t)
  <1> USE DEF TypeOK
  <1>1. PICK t \in RelayTicks : RelayStep(t) \/ RelayCrash(t)
    BY DEF RelayNext
  <1>2. relay \in [RelayTicks -> RelayRecord] /\ outbox \in [Requests -> OutboxRow]
    BY DEF RelayTypeOK, StoreTypeOK
  <1>3. UNCHANGED request /\ \A u \in RelayTicks \ {t} : relay'[u] = relay[u]
    BY <1>1, <1>2
    DEF RelayStep, RelayFind, RelayPublish, RelayPublishFails, RelaySave, RelaySaveFails,
        RelayCrash, TakeEntry, NextEntry, storeVars
  <1>4. /\ RelayIdle.batch = {}
        /\ NextEntry(t) => relay'[t].batch \subseteq relay[t].batch
        /\ \A r, pc : TakeEntry(t, r, pc) => relay'[t].batch = relay[t].batch
    BY <1>2 DEF RelayIdle, NextEntry, TakeEntry, RelayRecord
  <1> SUFFICES RelayTurn(t)
    BY <1>3
  <1>5. CASE RelayFind(t)
    <2>1. PICK B \in SUBSET Pending :
             relay' = [relay EXCEPT ![t].pc = "publish", ![t].batch = B]
      BY <1>5 DEF RelayFind
    <2>2. relay'[t].batch = B
      BY <1>2, <2>1 DEF RelayRecord
    <2> QED BY <1>5, <2>2 DEF RelayFind, Pending, storeVars, RelayTurn
  <1>6. CASE RelayPublish(t) \/ RelayPublishFails(t)
    <2>1. PICK r \in relay[t].batch : /\ topic' = Appended(r) \/ UNCHANGED topic
                                      /\ \E pc : TakeEntry(t, r, pc)
      BY <1>6 DEF RelayPublish, RelayPublishFails, AfterFailedSend
    <2> QED BY <1>4, <1>6, <2>1 DEF RelayPublish, RelayPublishFails, RelayTurn
  <1>7. CASE RelaySave(t) \/ RelaySaveFails(t) \/ RelayCrash(t)
    <2>1. /\ relay'[t].batch \subseteq relay[t].batch /\ UNCHANGED topic
          /\ UNCHANGED outbox \/ outbox' = SavedEntry(t)
      BY <1>2, <1>4, <1>7 DEF RelaySave, RelaySaveFails, RelayCrash, AfterFailedSave
    <2>2. \A r \in Requests : outbox'[r].status = "PENDING" => outbox[r].status = "PENDING"
      BY <1>2, <2>1 DEF SavedEntry, EntryStatus, OutboxRow
    <2> QED BY <2>1, <2>2 DEF RelayTurn
  <1> QED BY <1>1, <1>5, <1>6, <1>7 DEF RelayStep

-----------------------------------------------------------------------------
(***************************************************************************)
(* What is sent was stored, and a request keeps its channel.               *)
(***************************************************************************)
PublishedIsStored == \A r \in Requests : Published(r) => Committed(r)

PendingIsStored == \A r \in Requests : outbox[r].status = "PENDING" => Committed(r)

BatchesAreStored == \A t \in RelayTicks : \A r \in relay[t].batch : Committed(r)

HandlersAgree ==
    \A w \in Workers :
       /\ worker[w].pc # "idle" => request[worker[w].req].channel = ChannelOf[w]
       /\ worker[w].pc \notin {"idle", "findRequest"} =>
             worker[w].entity.channel = request[worker[w].req].channel

CallsAgree ==
    \A s \in Sends :
       send[s].pc \in Holding => send[s].entity.channel = request[send[s].req].channel

StoredInv ==
    /\ PublishedIsStored
    /\ PendingIsStored
    /\ BatchesAreStored
    /\ HandlersAgree
    /\ CallsAgree

KeepsChannels == \A r \in Requests : Committed(r) => request'[r].channel = request[r].channel

\* An event is sent for a committed request only.
TopicIsStored ==
    \/ UNCHANGED topic
    \/ \E r \in Requests : Committed(r) /\ topic' = Appended(r)

LEMMA StoredChanges ==
    ASSUME DispatchInv, StoredInv, [Next]_vars
    PROVE  /\ KeepsChannels
           /\ TopicIsStored
           /\ \A r \in Requests : outbox'[r].status = "PENDING" =>
                 outbox[r].status = "PENDING" \/ Committed(r)'
           /\ \A t \in RelayTicks : \A r \in relay'[t].batch :
                 r \in relay[t].batch \/ outbox[r].status = "PENDING"
           /\ \A s \in Sends : send'[s].pc \in Holding =>
                 \/ /\ send[s].pc \in Holding
                    /\ send'[s].entity = send[s].entity /\ send'[s].req = send[s].req
                 \/ send'[s].entity = request'[send'[s].req]
  <1> USE DEF DispatchInv, IntakeInv, TypeOK, StoreTypeOK
  <1>0. UNCHANGED request => KeepsChannels
    BY DEF KeepsChannels
  <1>1. CASE GatewayNext /\ UNCHANGED <<relay, retry, workerVars, dlqVars, walk>>
    <2>0. AnswersAreLast
      BY DEF CallsInv
    <2>1. PICK s \in Sends : /\ \A q \in Sends \ {s} : send'[q] = send[q]
                             /\ CallTurn(s)
      BY <1>1, <2>0, CallTurns
    <2>2. PICK r : r = send[s].req
      OBVIOUS
    <2>3. send[s].pc \in Holding => r \in Requests /\ Committed(r)
      BY <2>2 DEF GatewayTypeOK, Holding, CallsInv, HoldersAreStored
    <2>4. CASE UNCHANGED <<request, outbox, topic>>
      BY <1>0, <1>1, <2>1, <2>4 DEF CallTurn, TopicIsStored
    <2>5. CASE Stores(s)
      <3>1. PICK c \in Channels : InsertRows(s, c)
        BY <2>5 DEF Stores
      <3>2. /\ request' = [request EXCEPT ![r] = NewRow(c)]
            /\ outbox' = [outbox EXCEPT ![r] = NewOutboxRow(s)]
            /\ ~Committed(r) /\ r \in Requests
        BY <2>2, <2>5, <3>1 DEF InsertRows, Stores, SendAt, GatewayTypeOK
      <3>3. KeepsChannels
        BY <3>2 DEF KeepsChannels, Committed
      <3>4. NewRow(c).status = "VALIDATED"
        BY DEF NewRow
      <3>5. Committed(r)'
        BY <3>2, <3>4 DEF Committed
      <3>6. \A q \in Requests : outbox'[q].status = "PENDING" =>
               outbox[q].status = "PENDING" \/ Committed(q)'
        BY <3>2, <3>5
      <3> QED BY <1>1, <2>1, <2>2, <2>5, <3>3, <3>6 DEF CallTurn, Stores, TopicIsStored
    <2>6. CASE Publishes(s)
      <3>1. TopicIsStored
        BY <2>2, <2>3, <2>6 DEF Publishes, TopicIsStored, Holding
      <3> QED BY <1>0, <1>1, <2>1, <2>6, <3>1 DEF CallTurn, Publishes
    <2>7. CASE MarksPublished(s)
      <3>1. \A q \in Requests : outbox'[q].status = "PENDING" => outbox[q].status = "PENDING"
        BY <2>7 DEF MarksPublished, OutboxRow
      <3> QED BY <1>0, <1>1, <2>1, <2>7, <3>1 DEF CallTurn, MarksPublished, TopicIsStored
    <2>8. CASE Queues(s)
      <3>1. QueuedEntity(s).channel = request[r].channel
        BY <2>2, <2>8 DEF Queues, QueuedEntity, StoredInv, CallsAgree, Holding, GatewayTypeOK, SendRecord, RequestRow
      <3>2. KeepsChannels
        BY <2>2, <2>8, <3>1 DEF Queues, KeepsChannels
      <3> QED BY <1>1, <2>1, <2>8, <3>2 DEF CallTurn, Queues, TopicIsStored
    <2> QED BY <2>1, <2>4, <2>5, <2>6, <2>7, <2>8 DEF CallTurn
  <1>2. CASE RelayNext /\ UNCHANGED <<send, retry, workerVars, dlqVars, walk>>
    <2>1. PICK t \in RelayTicks : /\ \A u \in RelayTicks \ {t} : relay'[u] = relay[u]
                                  /\ RelayTurn(t)
      BY <1>2, RelayTurns
    <2>2. UNCHANGED request /\ relay[t].batch \subseteq Requests
      BY <1>2, RelayTurns DEF RelayTypeOK, RelayRecord
    <2>3. TopicIsStored
      BY <2>1, <2>2 DEF RelayTurn, TopicIsStored, StoredInv, BatchesAreStored
    <2> QED BY <1>0, <1>2, <2>1, <2>2, <2>3 DEF RelayTurn
  <1>3. CASE RetryNext /\ UNCHANGED <<send, relay, workerVars, dlqVars, walk>>
    <2>1. PICK t \in RetryTicks : RunTurn(t)
      BY <1>3, RetryTurns
    <2>2. UNCHANGED <<request, outbox>>
      BY <1>3
      DEF RetryNext, RetryStep, RetryFind, LoadEvent, MarkFailed, RetryPublish,
          SaveProcessing, RetryFails, RetryCrash, storeVars
    <2>3. ~RetryAt(t, "idle") =>
             RetryRequest(t) \in Requests /\ Committed(RetryRequest(t))
      BY RowTyping
      DEF RetryTypeOK, RetryAt, RetryRequest, DispatchRow, RowsInv, RowsArePublished,
          StoredInv, PublishedIsStored
    <2>4. TopicIsStored
      BY <2>1, <2>3
      DEF RunTurn, RunStarts, RunGoesOn, RunSends, RetryAt, TopicIsStored
    <2> QED BY <1>0, <1>3, <2>2, <2>4
  <1>4. CASE WorkerNext /\ UNCHANGED <<send, relay, retry, dlqVars, walk>>
    <2>1. PICK w \in Workers : Turn(w)
      BY <1>4, WorkerTurns
    <2>2. ASSUME NEW r \in Requests
          PROVE  request'[r].channel = request[r].channel
      <3>1. worker[w].entity \in RequestRow
        BY DEF WorkerTypeOK, WorkerRecord
      <3>2. /\ CompletedEntity(w).channel = worker[w].entity.channel
            /\ [worker[w].entity EXCEPT !.status = "FAILED"].channel = worker[w].entity.channel
        BY <3>1 DEF CompletedEntity, RequestRow
      <3>3. \/ request'[r] = request[r]
            \/ /\ WorkerAt(w, "saveCompleted") \/ WorkerAt(w, "saveRequestFailed")
               /\ worker[w].req = r
               /\ \/ request'[r] = CompletedEntity(w)
                  \/ request'[r] = [worker[w].entity EXCEPT !.status = "FAILED"]
        BY <2>1, TurnWrites
      <3>4. WorkerAt(w, "saveCompleted") \/ WorkerAt(w, "saveRequestFailed") =>
               worker[w].entity.channel = request[worker[w].req].channel
        BY DEF StoredInv, HandlersAgree, WorkerAt
      <3> QED BY <3>2, <3>3, <3>4
    <2> QED BY <1>4, <2>2, WorkerTurns DEF KeepsChannels, TopicIsStored
  <1>5. CASE \/ DlqNext /\ UNCHANGED <<send, relay, retry, workerVars, walk>>
             \/ AdminNext /\ UNCHANGED <<send, relay, retry, workerVars>>
             \/ EnvironmentNext /\ UNCHANGED <<send, relay, retry, workerVars, dlqVars, walk>>
             \/ UNCHANGED vars
    <2>1. UNCHANGED <<request, outbox, topic, send, relay>>
      BY <1>5
      DEF DlqNext, DlqStep, SaveDlqEntry, SaveDlqEntryFails, DlqCrash, AdminNext,
          EnvironmentNext, PurgePayload, BackoffElapses, storeVars, vars
    <2> QED BY <1>0, <2>1 DEF TopicIsStored
  <1> QED BY <1>1, <1>2, <1>3, <1>4, <1>5 DEF Next

LEMMA HandlersAgreeStep ==
    ASSUME DispatchInv, StoredInv, KeepsChannels, [Next]_vars
    PROVE  HandlersAgree'
  <1> USE DEF DispatchInv, IntakeInv
  <1>1. \A v \in Workers : worker[v].pc # "idle" =>
           /\ worker[v].req \in Requests
           /\ request'[worker[v].req].channel = request[worker[v].req].channel
           /\ request[worker[v].req].channel = ChannelOf[v]
    BY DEF TypeOK, WorkerTypeOK, HandlersHoldEvents, StoredInv, PublishedIsStored,
           KeepsChannels, HandlersAgree
  <1>2. \A v \in Workers :
           worker[v].pc \notin {"idle", "findRequest"} =>
              worker[v].entity.channel = request'[worker[v].req].channel
    BY <1>1 DEF StoredInv, HandlersAgree
  <1>3. UNCHANGED worker => HandlersAgree'
    BY <1>1, <1>2 DEF HandlersAgree
  <1>4. CASE WorkerNext /\ UNCHANGED <<send, relay, retry, dlqVars, walk>>
    <2>1. PICK w \in Workers : /\ \A v \in Workers \ {w} : worker'[v] = worker[v]
                               /\ Turn(w)
      BY <1>4, WorkerTurns
    <2> SUFFICES /\ worker'[w].pc # "idle" => request'[worker'[w].req].channel = ChannelOf[w]
                 /\ worker'[w].pc \notin {"idle", "findRequest"} =>
                       worker'[w].entity.channel = request'[worker'[w].req].channel
      BY <1>1, <1>2, <2>1 DEF HandlersAgree
    <2>2. CASE Stays(w) \/ Loses(w)
      <3>1. /\ worker'[w].pc = worker[w].pc /\ worker'[w].req = worker[w].req
            /\ worker'[w].entity = worker[w].entity
        BY <2>2 DEF Stays, Loses, TypeOK, WorkerTypeOK, WorkerRecord
      <3> QED BY <1>1, <1>2, <3>1
    <2>3. CASE Leaves(w)
      BY <2>3 DEF Leaves, WorkerIdle
    <2>4. CASE \E r \in Requests : Takes(w, r)
      BY <2>4 DEF Takes, NothingSaved
    <2>5. CASE ReadsRequest(w)
      BY <1>1, <2>5 DEF ReadsRequest, GoesTo, WorkerAt, NothingSaved
    <2>6. ASSUME worker[w].pc \notin {"idle", "findRequest"},
                 worker'[w].req = worker[w].req, KeepsChannel(w)
          PROVE  /\ request'[worker'[w].req].channel = ChannelOf[w]
                 /\ worker'[w].entity.channel = request'[worker'[w].req].channel
      BY <1>1, <1>2, <2>6 DEF KeepsChannel
    <2>7. CASE ReadsNoSuccess(w) \/ Reads(w) \/ Succeeds(w) \/ Catches(w)
      BY <2>6, <2>7
      DEF ReadsNoSuccess, Reads, Succeeds, Catches, Goes, GoesTo, KeepsChannel, WorkerAt
    <2>8. CASE \/ Creates(w) \/ Waits(w) \/ GivesUp(w) \/ FailsRequest(w)
      BY <2>3, <2>6, <2>8
      DEF Creates, Waits, GivesUp, FailsRequest, Goes, GoesTo, WorkerAt
    <2> QED
      BY <2>1, <2>2, <2>3, <2>4, <2>5, <2>7, <2>8 DEF Turn, Drops, Completes
  <1>5. ASSUME ~(WorkerNext /\ UNCHANGED <<send, relay, retry, dlqVars, walk>>)
        PROVE  UNCHANGED worker
    BY <1>5 DEF Next, vars, workerVars
  <1> QED BY <1>3, <1>4, <1>5

LEMMA StoredStep ==
    ASSUME DispatchInv, StoredInv, [Next]_vars
    PROVE  StoredInv'
  <1>1. KeepsChannels /\ Grows /\ TypeOK /\ TypeOK'
    BY StoredChanges, StepGrows, TypeStep DEF DispatchInv, IntakeInv
  <1>2. PublishedIsStored'
    <2> SUFFICES ASSUME NEW q \in Requests, Published(q)' PROVE Committed(q)'
      BY DEF PublishedIsStored
    <2>1. ASSUME NEW r \in Requests, topic' = Appended(r), q # r
          PROVE  Published(q)
      BY <1>1, <2>1 DEF TypeOK, StoreTypeOK, Appended, Published
    <2>2. Published(q) \/ Committed(q)
      BY <2>1, StoredChanges DEF TopicIsStored, Published
    <2> QED BY <1>1, <2>2 DEF StoredInv, PublishedIsStored, Grows
  <1>3. PendingIsStored'
    BY <1>1, StoredChanges DEF StoredInv, PendingIsStored, Grows
  <1>4. BatchesAreStored'
    <2> SUFFICES ASSUME NEW t \in RelayTicks, NEW r \in relay'[t].batch PROVE Committed(r)'
      BY DEF BatchesAreStored
    <2>1. r \in Requests
      BY <1>1 DEF TypeOK, RelayTypeOK, RelayRecord
    <2>2. Committed(r)
      BY <2>1, StoredChanges DEF StoredInv, BatchesAreStored, PendingIsStored
    <2> QED BY <1>1, <2>1, <2>2 DEF Grows
  <1>5. CallsAgree'
    <2> SUFFICES ASSUME NEW s \in Sends, send'[s].pc \in Holding
                 PROVE  send'[s].entity.channel = request'[send'[s].req].channel
      BY DEF CallsAgree
    <2>1. CASE send'[s].entity = request'[send'[s].req]
      BY <2>1
    <2>2. CASE /\ send[s].pc \in Holding
               /\ send'[s].entity = send[s].entity /\ send'[s].req = send[s].req
      <3>1. send[s].req \in Requests /\ Committed(send[s].req)
        BY <2>2
        DEF DispatchInv, IntakeInv, CallsInv, HoldersAreStored, TypeOK, GatewayTypeOK, Holding
      <3> QED BY <1>1, <2>2, <3>1 DEF KeepsChannels, StoredInv, CallsAgree
    <2> QED BY <2>1, <2>2, StoredChanges
  <1> QED BY <1>1, <1>2, <1>3, <1>4, <1>5, HandlersAgreeStep DEF StoredInv

LEMMA StoredInit == Init => StoredInv
  <1> SUFFICES ASSUME Init PROVE StoredInv
    OBVIOUS
  <1>1. /\ \A r \in Requests : topic[r] = 0 /\ outbox[r].status = "ABSENT"
        /\ \A t \in RelayTicks : relay[t].batch = {}
        /\ \A s \in Sends : send[s].pc = "idle"
        /\ \A w \in Workers : worker[w].pc = "idle"
    BY DEF Init, StoreInit, RelayInit, RelayIdle, GatewayInit, WorkerInit, WorkerIdle
  <1> QED
    BY <1>1 DEF StoredInv, PublishedIsStored, PendingIsStored, BatchesAreStored,
                HandlersAgree, CallsAgree, Published, Holding

-----------------------------------------------------------------------------
(***************************************************************************)
(* At most one delivery, and one more for each handler that lost its       *)
(* partition.  The handlers of a request that the group still regards as   *)
(* owners are one at most; every other one was counted when it was         *)
(* overtaken; and a handler attempts a delivery only after it saw no       *)
(* SUCCESS row.                                                            *)
(***************************************************************************)
Handling(r) == {w \in Workers : worker[w].pc # "idle" /\ worker[w].req = r}

Outlived(r) == {w \in Handling(r) : ~worker[w].live}

\* ... between the check and the SUCCESS row.
Attempting(r) ==
    {w \in Handling(r) : worker[w].pc \in {"createDispatch", "logRequest", "saveSuccess"}}

OneLive ==
    \A v, w \in Workers :
       /\ v # w
       /\ worker[v].pc # "idle" /\ worker[v].live
       /\ worker[w].pc # "idle" /\ worker[w].live
       => worker[v].req # worker[w].req

HandlersAreFew ==
    \A r \in Requests :
       IsFiniteSet(Handling(r)) /\ Cardinality(Outlived(r)) <= overtaken[r]

AttemptsAreCounted ==
    \A r \in Requests :
       Cardinality(DispatchesOf(r, "SUCCESS")) + Cardinality(Attempting(r)) <= 1 + overtaken[r]

AttemptsInv ==
    /\ OneLive
    /\ HandlersAreFew
    /\ AttemptsAreCounted

LEMMA SmallerSet ==
    ASSUME NEW T, IsFiniteSet(T), NEW S, S \subseteq T
    PROVE  /\ IsFiniteSet(S)
           /\ Cardinality(S) \in Nat /\ Cardinality(T) \in Nat
           /\ Cardinality(S) <= Cardinality(T)
  BY FS_Subset, FS_CardinalityType

LEMMA OneMore ==
    ASSUME NEW T, IsFiniteSet(T), NEW x, NEW S, S \subseteq T \cup {x}
    PROVE  /\ IsFiniteSet(S)
           /\ Cardinality(S) \in Nat /\ Cardinality(T) \in Nat
           /\ Cardinality(S) <= Cardinality(T) + 1
  <1>1. /\ IsFiniteSet(T \cup {x}) /\ Cardinality(T) \in Nat
        /\ Cardinality(T \cup {x}) \in Nat
        /\ Cardinality(T \cup {x}) <= Cardinality(T) + 1
    BY FS_AddElement, FS_CardinalityType
  <1>2. /\ IsFiniteSet(S) /\ Cardinality(S) \in Nat
        /\ Cardinality(S) <= Cardinality(T \cup {x})
    BY <1>1, SmallerSet
  <1> QED BY <1>1, <1>2

LEMMA HandlersBound ==
    ASSUME TypeOK, OneLive, HandlersAreFew, NEW r \in Requests
    PROVE  Cardinality(Handling(r)) \in Nat /\ Cardinality(Handling(r)) <= 1 + overtaken[r]
  <1>1. IsFiniteSet(Handling(r)) /\ overtaken[r] \in Nat /\ Cardinality(Outlived(r)) <= overtaken[r]
    BY DEF HandlersAreFew, TypeOK, WorkerTypeOK
  <1>2. IsFiniteSet(Outlived(r)) /\ Cardinality(Outlived(r)) \in Nat
    BY <1>1, SmallerSet DEF Outlived
  <1>3. CASE \E w \in Handling(r) : worker[w].live
    <2>1. PICK w \in Handling(r) : worker[w].live
      BY <1>3
    <2>2. Handling(r) \subseteq Outlived(r) \cup {w}
      BY <2>1 DEF OneLive, Handling, Outlived
    <2>3. /\ Cardinality(Handling(r)) \in Nat
          /\ Cardinality(Handling(r)) <= Cardinality(Outlived(r)) + 1
      BY <1>2, <2>2, OneMore
    <2> QED BY <1>1, <1>2, <2>3
  <1>4. CASE \A w \in Handling(r) : ~worker[w].live
    <2>1. Handling(r) = Outlived(r)
      BY <1>4 DEF Outlived
    <2> QED BY <1>1, <1>2, <2>1
  <1> QED BY <1>3, <1>4

\* What a turn does to the handlers of a request and to its delivered rows.
LEMMA TurnAttempts ==
    ASSUME TypeOK, RowsInv, NEW w \in Workers, Turn(w),
           \A v \in Workers \ {w} : worker'[v] = worker[v],
           NEW r \in Requests
    PROVE  /\ Handling(r)' \subseteq Handling(r) \cup {w}
           /\ \/ overtaken'[r] = overtaken[r] /\ Outlived(r)' \subseteq Outlived(r)
              \/ overtaken'[r] = overtaken[r] + 1 /\ Outlived(r)' \subseteq Outlived(r) \cup {w}
           /\ \/ Attempting(r)' \subseteq Attempting(r)
              \/ /\ ReadsNoSuccess(w) /\ worker[w].req = r /\ UNCHANGED dispatch
                 /\ Handling(r)' \subseteq Handling(r)
           /\ \/ DispatchesOf(r, "SUCCESS")' \subseteq DispatchesOf(r, "SUCCESS")
              \/ /\ w \in Attempting(r) /\ Attempting(r)' \subseteq Attempting(r) \ {w}
                 /\ \E i : DispatchesOf(r, "SUCCESS")' \subseteq DispatchesOf(r, "SUCCESS") \cup {i}
  <1> USE DEF TypeOK
  <1> DEFINE Same == worker'[w].req = worker[w].req /\ worker'[w].live = worker[w].live
  <1>1. Handling(r)' \subseteq Handling(r) \cup {w}
    BY DEF Handling
  <1>2. ASSUME worker'[w].pc # "idle" => worker[w].pc # "idle" /\ Same
        PROVE  Outlived(r)' \subseteq Outlived(r) /\ Handling(r)' \subseteq Handling(r)
    BY <1>2 DEF Outlived, Handling
  <1>3. ASSUME worker'[w].pc \notin {"createDispatch", "logRequest", "saveSuccess"}
        PROVE  Attempting(r)' \subseteq Attempting(r) \ {w}
    BY <1>3 DEF Attempting, Handling
  <1>4. ASSUME worker[w].pc \in {"createDispatch", "logRequest", "saveSuccess"}, Same
        PROVE  Attempting(r)' \subseteq Attempting(r)
    BY <1>4 DEF Attempting, Handling
  <1>5. UNCHANGED dispatch => DispatchesOf(r, "SUCCESS")' = DispatchesOf(r, "SUCCESS")
    BY DEF DispatchesOf
  <1>6. CASE Stays(w)
    BY <1>1, <1>5, <1>6 DEF Stays, Handling, Outlived, Attempting
  <1>7. CASE Loses(w)
    <2>1. worker[w].req \in Requests
      BY <1>7 DEF Loses, WorkerAt, WorkerTypeOK
    <2>2. /\ worker'[w].pc = worker[w].pc /\ worker'[w].req = worker[w].req
          /\ overtaken'[r] = IF worker[w].req = r THEN overtaken[r] + 1 ELSE overtaken[r]
      BY <1>7, <2>1 DEF Loses, WorkerTypeOK, WorkerRecord
    <2>3. IF worker[w].req = r THEN Outlived(r)' \subseteq Outlived(r) \cup {w}
                               ELSE Outlived(r)' \subseteq Outlived(r)
      BY <2>2 DEF Outlived, Handling
    <2>4. Attempting(r)' \subseteq Attempting(r)
      BY <2>2 DEF Attempting, Handling
    <2> QED BY <1>1, <1>5, <1>7, <2>2, <2>3, <2>4 DEF Loses, NothingSaved
  <1>8. CASE Drops(w) \/ Completes(w)
    <2>1. worker'[w].pc = "idle" /\ UNCHANGED <<dispatch, overtaken>>
      BY <1>8 DEF Drops, Completes, Leaves, WorkerIdle, NothingSaved
    <2> QED BY <1>1, <1>2, <1>3, <1>5, <2>1
  <1>9. CASE \E q \in Requests : Takes(w, q)
    <2>1. /\ worker'[w].pc = "findRequest" /\ worker'[w].live
          /\ UNCHANGED <<dispatch, overtaken>>
      BY <1>9 DEF Takes, NothingSaved
    <2>2. Outlived(r)' \subseteq Outlived(r)
      BY <2>1 DEF Outlived, Handling
    <2> QED BY <1>1, <1>3, <1>5, <2>1, <2>2
  <1>10. CASE ReadsRequest(w) \/ Reads(w) \/ Catches(w) \/ FailsRequest(w)
    <2>1. /\ UNCHANGED <<dispatch, overtaken>> /\ worker[w].pc # "idle"
          /\ worker'[w].pc # "idle" => Same
      BY <1>10
      DEF ReadsRequest, Reads, Catches, FailsRequest, Leaves, WorkerIdle, Goes, GoesTo,
          NothingSaved, WorkerAt
    <2>2. \/ worker'[w].pc \notin {"createDispatch", "logRequest", "saveSuccess"}
          \/ worker[w].pc = "logRequest" /\ Same
      BY <1>10
      DEF ReadsRequest, Reads, Catches, FailsRequest, Leaves, WorkerIdle, Goes, GoesTo, WorkerAt
    <2> QED BY <1>1, <1>2, <1>3, <1>4, <1>5, <2>1, <2>2
  <1>11. CASE ReadsNoSuccess(w)
    <2>1. UNCHANGED <<dispatch, overtaken>> /\ worker[w].pc # "idle" /\ Same
      BY <1>11 DEF ReadsNoSuccess, GoesTo, NothingSaved, WorkerAt
    <2>2. worker[w].req # r => Attempting(r)' \subseteq Attempting(r)
      BY <2>1 DEF Attempting, Handling
    <2> QED BY <1>1, <1>2, <1>5, <1>11, <2>1, <2>2
  <1>12. CASE Creates(w)
    <2>1. /\ worker[w].pc = "createDispatch" /\ UNCHANGED overtaken
          /\ worker'[w].pc # "idle" => Same
      BY <1>12 DEF Creates, Leaves, WorkerIdle, GoesTo, WorkerAt
    <2>2. \/ worker'[w].pc \notin {"createDispatch", "logRequest", "saveSuccess"}
          \/ Same
      BY <1>12 DEF Creates, Leaves, WorkerIdle, GoesTo
    <2>3. DispatchesOf(r, "SUCCESS")' \subseteq DispatchesOf(r, "SUCCESS")
      BY <1>12 DEF Creates, Inserts, NewDispatch, Keeps, DispatchesOf
    <2> QED BY <1>1, <1>2, <1>3, <1>4, <2>1, <2>2, <2>3
  <1>13. CASE Succeeds(w)
    <2>1. /\ worker[w].pc = "saveSuccess" /\ UNCHANGED overtaken /\ Same
          /\ worker'[w].pc \notin {"createDispatch", "logRequest", "saveSuccess"}
      BY <1>13 DEF Succeeds, Goes, GoesTo, WorkerAt
    <2>2. dispatch[worker[w].id].req = worker[w].req
      BY <2>1 DEF RowsInv, RowsFollowHandlers, FollowsRow, HasRow
    <2>3. CASE worker[w].req = r
      <3>1. w \in Attempting(r)
        BY <2>1, <2>3 DEF Attempting, Handling
      <3>2. DispatchesOf(r, "SUCCESS")' \subseteq DispatchesOf(r, "SUCCESS") \cup {worker[w].id}
        BY <1>13 DEF Succeeds, Saves, Keeps, DispatchesOf
      <3> QED BY <1>1, <1>2, <1>3, <2>1, <3>1, <3>2
    <2>4. CASE worker[w].req # r
      <3>1. DispatchesOf(r, "SUCCESS")' \subseteq DispatchesOf(r, "SUCCESS")
        BY <1>13, <2>2, <2>4 DEF Succeeds, Saves, Keeps, DispatchesOf
      <3> QED BY <1>1, <1>2, <1>3, <2>1, <3>1
    <2> QED BY <2>3, <2>4
  <1>14. CASE Waits(w) \/ GivesUp(w)
    <2>1. /\ worker[w].pc # "idle" /\ UNCHANGED overtaken
          /\ worker'[w].pc # "idle" => Same
          /\ worker'[w].pc \notin {"createDispatch", "logRequest", "saveSuccess"}
      BY <1>14 DEF Waits, GivesUp, Leaves, WorkerIdle, Goes, GoesTo, WorkerAt
    <2>2. DispatchesOf(r, "SUCCESS")' \subseteq DispatchesOf(r, "SUCCESS")
      BY <1>14 DEF Waits, GivesUp, Saves, Keeps, DispatchesOf
    <2> QED BY <1>1, <1>2, <1>3, <2>1, <2>2
  <1> QED
    BY <1>6, <1>7, <1>8, <1>9, <1>10, <1>11, <1>12, <1>13, <1>14 DEF Turn

LEMMA OneLiveStep ==
    ASSUME TypeOK, HandlersAgree, OneLive, NEW w \in Workers, Turn(w),
           \A v \in Workers \ {w} : worker'[v] = worker[v]
    PROVE  OneLive'
  <1> USE DEF TypeOK
  <1>1. ASSUME worker'[w].pc # "idle" /\ worker'[w].live =>
                  /\ worker[w].pc # "idle" /\ worker[w].live
                  /\ worker'[w].req = worker[w].req
        PROVE  OneLive'
    BY <1>1 DEF OneLive
  <1>2. CASE Stays(w) \/ Loses(w)
    BY <1>1, <1>2 DEF Stays, Loses, WorkerTypeOK, WorkerRecord
  <1>3. CASE Drops(w) \/ Completes(w)
    BY <1>1, <1>3 DEF Drops, Completes, Leaves, WorkerIdle
  <1>4. CASE \E r \in Requests : Takes(w, r)
    <2>1. PICK r \in Requests : Takes(w, r)
      BY <1>4
    <2>2. \A v \in Workers \ {w} :
             worker[v].pc # "idle" /\ worker[v].live => worker[v].req # r
      BY <2>1 DEF Takes, Unread, Handles, WorkerAt, HandlersAgree
    <2> QED BY <2>1, <2>2 DEF OneLive, Takes
  <1>5. CASE ReadsRequest(w) \/ ReadsNoSuccess(w) \/ Reads(w) \/ Succeeds(w) \/ Catches(w)
    BY <1>1, <1>5
    DEF ReadsRequest, ReadsNoSuccess, Reads, Succeeds, Catches, Goes, GoesTo, WorkerAt
  <1>6. CASE Creates(w) \/ Waits(w) \/ GivesUp(w) \/ FailsRequest(w)
    BY <1>1, <1>6
    DEF Creates, Waits, GivesUp, FailsRequest, Leaves, WorkerIdle, Goes, GoesTo, WorkerAt
  <1> QED BY <1>2, <1>3, <1>4, <1>5, <1>6 DEF Turn

\* The sums: a turn keeps both counts within what was overtaken.
LEMMA HandlersFewStep ==
    ASSUME TypeOK, RowsInv, HandlersAreFew, NEW w \in Workers, Turn(w),
           \A v \in Workers \ {w} : worker'[v] = worker[v],
           NEW r \in Requests
    PROVE  IsFiniteSet(Handling(r))' /\ Cardinality(Outlived(r))' <= overtaken'[r]
  <1>1. /\ IsFiniteSet(Handling(r)) /\ overtaken[r] \in Nat
        /\ Cardinality(Outlived(r)) <= overtaken[r]
        /\ Outlived(r) \subseteq Handling(r)
    BY DEF HandlersAreFew, TypeOK, WorkerTypeOK, Outlived
  <1>2. IsFiniteSet(Handling(r)')
    BY <1>1, TurnAttempts, OneMore
  <1>3. IsFiniteSet(Outlived(r)) /\ Cardinality(Outlived(r)) \in Nat
    BY <1>1, SmallerSet
  <1>4. CASE overtaken'[r] = overtaken[r] /\ Outlived(r)' \subseteq Outlived(r)
    <2>1. /\ Cardinality(Outlived(r)') \in Nat
          /\ Cardinality(Outlived(r)') <= Cardinality(Outlived(r))
      BY <1>3, <1>4, SmallerSet
    <2> QED BY <1>1, <1>2, <1>3, <1>4, <2>1
  <1>5. CASE overtaken'[r] = overtaken[r] + 1 /\ Outlived(r)' \subseteq Outlived(r) \cup {w}
    <2>1. /\ Cardinality(Outlived(r)') \in Nat
          /\ Cardinality(Outlived(r)') <= Cardinality(Outlived(r)) + 1
      BY <1>3, <1>5, OneMore
    <2> QED BY <1>1, <1>2, <1>3, <1>5, <2>1
  <1> QED BY <1>4, <1>5, TurnAttempts

LEMMA SuccessesFinite ==
    ASSUME TypeOK, NEW r \in Requests
    PROVE  IsFiniteSet(DispatchesOf(r, "SUCCESS"))
  <1>1. IsFiniteSet(DOMAIN dispatch)
    BY RowTyping DEF TypeOK
  <1> QED BY <1>1, FS_Subset DEF DispatchesOf

LEMMA AttemptsCountedStep ==
    ASSUME TypeOK, RowsInv, AttemptsInv, NEW w \in Workers, Turn(w),
           \A v \in Workers \ {w} : worker'[v] = worker[v],
           NEW r \in Requests
    PROVE  Cardinality(DispatchesOf(r, "SUCCESS"))' + Cardinality(Attempting(r))'
              <= 1 + overtaken'[r]
  <1> DEFINE N == 1 + overtaken[r]
  <1>1. /\ IsFiniteSet(Handling(r)) /\ Attempting(r) \subseteq Handling(r)
        /\ overtaken[r] \in Nat
        /\ overtaken'[r] = overtaken[r] \/ overtaken'[r] = overtaken[r] + 1
    BY TurnAttempts DEF AttemptsInv, HandlersAreFew, TypeOK, WorkerTypeOK, Attempting
  <1>2. IsFiniteSet(Attempting(r)) /\ Cardinality(Attempting(r)) \in Nat
    BY <1>1, SmallerSet
  <1>3. /\ IsFiniteSet(DispatchesOf(r, "SUCCESS"))
        /\ Cardinality(DispatchesOf(r, "SUCCESS")) \in Nat
    BY SuccessesFinite, FS_CardinalityType
  <1>4. Cardinality(DispatchesOf(r, "SUCCESS")) + Cardinality(Attempting(r)) <= N
    BY DEF AttemptsInv, AttemptsAreCounted
  <1>5. SUFFICES /\ Cardinality(DispatchesOf(r, "SUCCESS")') \in Nat
                 /\ Cardinality(Attempting(r)') \in Nat
                 /\ Cardinality(DispatchesOf(r, "SUCCESS")') + Cardinality(Attempting(r)') <= N
    BY <1>1
  <1>6. CASE /\ Attempting(r)' \subseteq Attempting(r)
             /\ DispatchesOf(r, "SUCCESS")' \subseteq DispatchesOf(r, "SUCCESS")
    <2>1. /\ Cardinality(Attempting(r)') \in Nat
          /\ Cardinality(Attempting(r)') <= Cardinality(Attempting(r))
      BY <1>2, <1>6, SmallerSet
    <2>2. /\ Cardinality(DispatchesOf(r, "SUCCESS")') \in Nat
          /\ Cardinality(DispatchesOf(r, "SUCCESS")') <= Cardinality(DispatchesOf(r, "SUCCESS"))
      BY <1>3, <1>6, SmallerSet
    <2> QED BY <1>1, <1>2, <1>3, <1>4, <2>1, <2>2
  <1>7. CASE /\ ReadsNoSuccess(w) /\ worker[w].req = r /\ UNCHANGED dispatch
             /\ Handling(r)' \subseteq Handling(r)
    <2>1. DispatchesOf(r, "SUCCESS")' = {}
      BY <1>7 DEF ReadsNoSuccess, DispatchesOf
    <2>2. Attempting(r)' \subseteq Handling(r)
      BY <1>7 DEF Attempting
    <2>3. /\ Cardinality(Attempting(r)') \in Nat
          /\ Cardinality(Attempting(r)') <= Cardinality(Handling(r))
      BY <1>1, <2>2, SmallerSet
    <2>4. Cardinality(Handling(r)) \in Nat /\ Cardinality(Handling(r)) <= N
      BY HandlersBound DEF AttemptsInv
    <2> QED BY <1>1, <2>1, <2>3, <2>4, FS_EmptySet
  <1>8. CASE /\ w \in Attempting(r) /\ Attempting(r)' \subseteq Attempting(r) \ {w}
             /\ \E i : DispatchesOf(r, "SUCCESS")' \subseteq DispatchesOf(r, "SUCCESS") \cup {i}
    <2>1. /\ IsFiniteSet(Attempting(r) \ {w})
          /\ Cardinality(Attempting(r) \ {w}) = Cardinality(Attempting(r)) - 1
      BY <1>2, <1>8, FS_RemoveElement
    <2>2. /\ Cardinality(Attempting(r)') \in Nat
          /\ Cardinality(Attempting(r)') <= Cardinality(Attempting(r) \ {w})
      BY <1>8, <2>1, SmallerSet
    <2>3. /\ Cardinality(DispatchesOf(r, "SUCCESS")') \in Nat
          /\ Cardinality(DispatchesOf(r, "SUCCESS")')
               <= Cardinality(DispatchesOf(r, "SUCCESS")) + 1
      BY <1>3, <1>8, OneMore
    <2> QED BY <1>1, <1>2, <1>3, <1>4, <2>1, <2>2, <2>3
  <1> QED BY <1>6, <1>7, <1>8, TurnAttempts

\* A step of another process hands out no request and delivers none.
LEMMA AttemptsFrame ==
    ASSUME TypeOK, AttemptsInv, UNCHANGED workerVars,
           \A i \in DOMAIN dispatch' : /\ i \in DOMAIN dispatch
                                       /\ dispatch'[i].req = dispatch[i].req
                                       /\ dispatch'[i].status = "SUCCESS" =>
                                             dispatch[i].status = "SUCCESS"
    PROVE  AttemptsInv'
  <1>1. OneLive' /\ HandlersAreFew'
    BY DEF AttemptsInv, OneLive, HandlersAreFew, Outlived, Handling, workerVars
  <1>2. ASSUME NEW r \in Requests
        PROVE  Cardinality(DispatchesOf(r, "SUCCESS"))' + Cardinality(Attempting(r))'
                  <= 1 + overtaken'[r]
    <2>1. Attempting(r)' = Attempting(r) /\ overtaken'[r] = overtaken[r] /\ overtaken[r] \in Nat
      BY DEF Attempting, Handling, workerVars, TypeOK, WorkerTypeOK
    <2>2. DispatchesOf(r, "SUCCESS")' \subseteq DispatchesOf(r, "SUCCESS")
      BY DEF DispatchesOf
    <2>3. /\ Cardinality(DispatchesOf(r, "SUCCESS")') \in Nat
          /\ Cardinality(DispatchesOf(r, "SUCCESS")) \in Nat
          /\ Cardinality(DispatchesOf(r, "SUCCESS")') <= Cardinality(DispatchesOf(r, "SUCCESS"))
      BY <2>2, SuccessesFinite, SmallerSet
    <2>4. IsFiniteSet(Attempting(r)) /\ Cardinality(Attempting(r)) \in Nat
      BY SmallerSet DEF AttemptsInv, HandlersAreFew, Attempting
    <2>5. Cardinality(DispatchesOf(r, "SUCCESS")) + Cardinality(Attempting(r)) <= 1 + overtaken[r]
      BY DEF AttemptsInv, AttemptsAreCounted
    <2> QED BY <2>1, <2>3, <2>4, <2>5
  <1> QED BY <1>1, <1>2 DEF AttemptsInv, AttemptsAreCounted

LEMMA AttemptsStep ==
    ASSUME DispatchInv, StoredInv, AttemptsInv, [Next]_vars
    PROVE  AttemptsInv'
  <1> USE DEF DispatchInv, IntakeInv
  <1>1. CASE WorkerNext /\ UNCHANGED <<send, relay, retry, dlqVars, walk>>
    <2>1. PICK w \in Workers : /\ \A v \in Workers \ {w} : worker'[v] = worker[v]
                               /\ Turn(w)
      BY <1>1, WorkerTurns
    <2>2. OneLive'
      BY <2>1, OneLiveStep DEF StoredInv, AttemptsInv
    <2>3. HandlersAreFew'
      BY <2>1, HandlersFewStep DEF HandlersAreFew, AttemptsInv
    <2>4. AttemptsAreCounted'
      BY <2>1, AttemptsCountedStep DEF AttemptsAreCounted
    <2> QED BY <2>2, <2>3, <2>4 DEF AttemptsInv
  <1>2. CASE RetryNext /\ UNCHANGED <<send, relay, workerVars, dlqVars, walk>>
    <2>1. PICK t \in RetryTicks : RunTurn(t)
      BY <1>2, RetryTurns
    <2> QED BY <1>2, <2>1, RunKeeps, AttemptsFrame
  <1>3. CASE Rests /\ UNCHANGED workerVars
    BY <1>3, AttemptsFrame DEF Rests, Keeps
  <1> QED BY <1>1, <1>2, <1>3, OthersRest

\* Duplicate events, crashes and retries leave a request at most one dispatch row
\* that is SUCCESS, and one more at most for each handler that lost its partition
\* midway.  A row taken back after its SUCCESS is not counted: the handler whose
\* log write fails saves it as RETRY_WAIT, and the retry hands the request to the
\* sender again.
THEOREM OneDelivery == Spec => []OneSuccessPerOvertake
  <1> DEFINE Inv == DispatchInv /\ StoredInv /\ AttemptsInv
  <1>1. Init => AttemptsInv
    <2> SUFFICES ASSUME Init PROVE AttemptsInv
      OBVIOUS
    <2>1. /\ \A w \in Workers : worker[w].pc = "idle"
          /\ \A r \in Requests : overtaken[r] = 0
          /\ dispatch = <<>>
      BY DEF Init, StoreInit, WorkerInit, WorkerIdle
    <2>2. IsFiniteSet({}) /\ Cardinality({}) = 0
      BY FS_EmptySet
    <2>3. ASSUME NEW r \in Requests
          PROVE  /\ Handling(r) = {} /\ Outlived(r) = {}
                 /\ Attempting(r) = {} /\ DispatchesOf(r, "SUCCESS") = {}
      <3>1. Handling(r) = {}
        BY <2>1 DEF Handling
      <3>2. Outlived(r) = {} /\ Attempting(r) = {}
        BY <3>1 DEF Outlived, Attempting
      <3>3. DOMAIN dispatch = {}
        BY <2>1
      <3> QED BY <3>1, <3>2, <3>3 DEF DispatchesOf
    <2>4. HandlersAreFew
      <3> SUFFICES ASSUME NEW r \in Requests
                   PROVE  IsFiniteSet(Handling(r)) /\ Cardinality(Outlived(r)) <= overtaken[r]
        BY DEF HandlersAreFew
      <3>1. /\ IsFiniteSet(Handling(r)) /\ Cardinality(Outlived(r)) = 0
            /\ overtaken[r] = 0
        BY <2>1, <2>2, <2>3
      <3> QED BY <3>1
    <2>5. ASSUME NEW r \in Requests
          PROVE  Cardinality(DispatchesOf(r, "SUCCESS")) + Cardinality(Attempting(r))
                    <= 1 + overtaken[r]
      <3>1. /\ Cardinality(DispatchesOf(r, "SUCCESS")) = 0
            /\ Cardinality(Attempting(r)) = 0 /\ overtaken[r] = 0
        BY <2>1, <2>2, <2>3
      <3> QED BY <3>1
    <2> QED BY <2>1, <2>4, <2>5 DEF AttemptsInv, OneLive, AttemptsAreCounted
  <1>2. Init => Inv
    BY <1>1, DispatchInit, StoredInit
  <1>3. Inv /\ [Next]_vars => Inv'
    BY DispatchStep, StoredStep, AttemptsStep
  <1>4. Inv => OneSuccessPerOvertake
    <2> SUFFICES ASSUME Inv, NEW r \in Requests
                 PROVE  Cardinality(DispatchesOf(r, "SUCCESS")) <= 1 + overtaken[r]
      BY DEF OneSuccessPerOvertake
    <2>1. TypeOK /\ overtaken[r] \in Nat
      BY DEF DispatchInv, IntakeInv, TypeOK, WorkerTypeOK
    <2>2. Cardinality(DispatchesOf(r, "SUCCESS")) \in Nat
      BY <2>1, SuccessesFinite, FS_CardinalityType
    <2>3. IsFiniteSet(Attempting(r)) /\ Cardinality(Attempting(r)) \in Nat
      BY SmallerSet DEF AttemptsInv, HandlersAreFew, Attempting
    <2> QED BY <2>1, <2>2, <2>3 DEF AttemptsInv, AttemptsAreCounted
  <1> QED BY <1>2, <1>3, <1>4, PTL DEF Spec

-----------------------------------------------------------------------------
(***************************************************************************)
(* Reading the dead letters page by page.                                  *)
(***************************************************************************)

\* The rows that come before row k whatever the order of ties, and whether one
\* shares its place with k, by what a query knew of failedAt.
Later(failedAt, k) ==
    {j \in Rows : /\ dlqTable[j] \in DOMAIN failedAt
                  /\ failedAt[dlqTable[j]] > failedAt[dlqTable[k]]}

Tied(failedAt, k) ==
    \E j \in Rows \ {k} : /\ dlqTable[j] \in DOMAIN failedAt
                          /\ failedAt[dlqTable[j]] = failedAt[dlqTable[k]]

\* Row k has been shown, shares its place, or has at least offset rows before
\* it: it cannot be on a page before that offset.
Ahead(k, offset) ==
    \/ k \in walk.shown
    \/ Tied(walk.failedAt, k)
    \/ Cardinality(Later(walk.failedAt, k)) >= offset

WalkInv ==
    /\ walk.begun <= Len(dlqTable)
    /\ DOMAIN walk.failedAt \subseteq {dlqTable[k] : k \in Rows}
    /\ walk.pc = "reading" =>
         /\ walk.page >= 1
         /\ walk.page > 1 =>
              \A k \in 1..walk.begun :
                 /\ dlqTable[k] \in DOMAIN walk.failedAt
                 /\ Ahead(k, (walk.page - 1) * PageLimit)
    /\ walk.pc = "done" =>
         \A k \in 1..walk.begun : k \in walk.shown \/ Tied(walk.failedAt, k)

LEMMA RowsTyping ==
    ASSUME TypeOK
    PROVE  /\ Len(dlqTable) \in Nat /\ Rows = 1..Len(dlqTable) /\ IsFiniteSet(Rows)
           /\ \A f, k : IsFiniteSet(Later(f, k)) /\ Cardinality(Later(f, k)) \in Nat
  <1>1. Len(dlqTable) \in Nat /\ Rows = 1..Len(dlqTable)
    BY LenProperties DEF TypeOK, DlqTypeOK, Rows
  <1>2. IsFiniteSet(Rows)
    BY <1>1, FS_Interval
  <1>3. ASSUME NEW f, NEW k PROVE Later(f, k) \in SUBSET Rows
    BY DEF Later
  <1> QED BY <1>1, <1>2, <1>3, FS_Subset, FS_CardinalityType

\* The place of a row that shares it with none: after the later ones.
LEMMA PlaceOfRow ==
    ASSUME TypeOK, NEW f \in FailureTimes, NEW order \in NewestFirst(f),
           NEW k \in Rows, ~Tied(f, k)
    PROVE  \E m \in Rows : order[m] = k /\ Cardinality(Later(f, k)) = m - 1
  <1> DEFINE n == Len(dlqTable)
  <1>1. n \in Nat /\ Rows = 1..n /\ IsFiniteSet(Rows)
    BY RowsTyping
  <1>2. /\ DOMAIN f = {dlqTable[j] : j \in Rows}
        /\ \A j \in Rows : f[dlqTable[j]] \in Nat
    <2>1. f \in [{dlqTable[j] : j \in Rows} -> 1..(1 + MaxFaults)] /\ MaxFaults \in Nat
      BY StoreAssumption DEF FailureTimes
    <2> QED BY <2>1
  <1> DEFINE time == [j \in Rows |-> f[dlqTable[j]]]
  <1>3. time \in [Rows -> Nat] /\ \A j \in Rows : f[dlqTable[j]] = time[j]
    BY <1>2
  <1>4. /\ order \in [Rows -> Rows]
        /\ \A i, j \in Rows : i < j => /\ order[i] # order[j]
                                       /\ time[order[i]] >= time[order[j]]
    BY <1>3 DEF NewestFirst
  <1>5. \A j \in Rows : j \in Later(f, k) <=> time[j] > time[k]
    BY <1>2, <1>3 DEF Later
  <1>6. \A j \in Rows : j # k => time[j] # time[k]
    BY <1>2, <1>3 DEF Tied
  <1> HIDE DEF time
  <1>7. \A i, j \in Rows : i # j => order[i] # order[j]
    BY <1>1, <1>4
  <1>8. PICK m \in Rows : order[m] = k
    <2>1. order \in Injection(Rows, Rows)
      BY <1>4, <1>7 DEF Injection, IsInjective
    <2>2. order \in Surjection(Rows, Rows)
      BY <1>1, <2>1, FS_Injection
    <2> QED BY <2>2 DEF Surjection
  <1>9. \A i \in Rows : order[i] \in Later(f, k) <=> i < m
    <2> SUFFICES ASSUME NEW i \in Rows PROVE order[i] \in Later(f, k) <=> i < m
      OBVIOUS
    <2>1. /\ i \in Nat /\ m \in Nat /\ order[i] \in Rows
          /\ time[order[i]] \in Nat /\ time[k] \in Nat
      <3>1. order[i] \in Rows
        BY <1>4
      <3>2. time[order[i]] \in Nat /\ time[k] \in Nat
        BY <1>3, <3>1
      <3>3. i \in Nat /\ m \in Nat
        BY <1>1
      <3> QED BY <3>1, <3>2, <3>3
    <2>2. CASE i < m
      <3>1. /\ order[i] # k /\ time[order[i]] >= time[k]
        BY <1>4, <1>8, <2>2
      <3>2. time[order[i]] # time[k]
        BY <1>6, <2>1, <3>1
      <3>3. time[order[i]] > time[k]
        BY <2>1, <3>1, <3>2
      <3> QED BY <1>5, <2>1, <2>2, <3>3
    <2>3. CASE i = m
      BY <1>8, <1>5, <2>1, <2>3
    <2>4. CASE i > m
      <3>1. time[k] >= time[order[i]]
        BY <1>4, <1>8, <2>1, <2>4
      <3>2. ~(time[order[i]] > time[k]) /\ ~(i < m)
        BY <2>1, <2>4, <3>1
      <3> QED BY <1>5, <2>1, <3>2
    <2> QED BY <2>1, <2>2, <2>3, <2>4
  <1>10. Cardinality(Later(f, k)) = m - 1
    <2> DEFINE I == 1..(m - 1)
               g == [i \in I |-> order[i]]
    <2>1. m \in Nat /\ m >= 1 /\ I \subseteq Rows /\ \A i \in Rows : i \in I <=> i < m
      BY <1>1
    <2>2. \A i \in I : order[i] \in Later(f, k)
      BY <1>9, <2>1
    <2>3. \A j \in Later(f, k) : \E i \in I : order[i] = j
      <3>1. order \in Surjection(Rows, Rows)
        BY <1>1, <1>4, <1>7, FS_Injection DEF Injection, IsInjective
      <3> SUFFICES ASSUME NEW j \in Later(f, k) PROVE \E i \in I : order[i] = j
        OBVIOUS
      <3>2. j \in Rows
        BY DEF Later
      <3>3. PICK i \in Rows : order[i] = j
        BY <3>1, <3>2 DEF Surjection
      <3> QED BY <1>9, <2>1, <3>3
    <2>4. g \in Bijection(I, Later(f, k))
      <3>1. g \in [I -> Later(f, k)]
        BY <2>2
      <3>2. g \in Injection(I, Later(f, k))
        BY <1>7, <2>1, <3>1 DEF Injection, IsInjective
      <3>3. g \in Surjection(I, Later(f, k))
        BY <2>3, <3>1 DEF Surjection
      <3> QED BY <3>2, <3>3 DEF Bijection
    <2>5. ExistsBijection(I, Later(f, k))
      BY <2>4 DEF ExistsBijection
    <2>6. IsFiniteSet(I) /\ Cardinality(I) = m - 1
      BY <2>1, FS_Interval
    <2> HIDE DEF I
    <2> QED BY <2>5, <2>6, FS_Bijection
  <1> QED BY <1>8, <1>10

\* Only the last page is not full.
LEMMA ShortPage ==
    ASSUME TypeOK, NEW f \in FailureTimes, NEW order \in NewestFirst(f),
           NEW page \in Nat, page >= 1, NEW a \in Nat, a = (page - 1) * PageLimit,
           a + PageLimit = page * PageLimit,
           Cardinality(PageRows(order, page)) < PageLimit
    PROVE  Len(dlqTable) < a + PageLimit
  <1> SUFFICES ASSUME Len(dlqTable) >= a + PageLimit PROVE FALSE
    BY RowsTyping, AdminDlqAssumption
  <1> DEFINE I == (a + 1)..(a + PageLimit)
             g == [k \in I |-> order[k]]
  <1>1. /\ PageLimit \in Nat \ {0} /\ Len(dlqTable) \in Nat /\ Rows = 1..Len(dlqTable)
        /\ IsFiniteSet(Rows)
    BY RowsTyping, AdminDlqAssumption
  <1>2. I \subseteq Rows /\ Rows \cap I = I
    BY <1>1
  <1>3. PageRows(order, page) = {order[k] : k \in I}
    BY <1>2 DEF PageRows
  <1>4. /\ order \in [Rows -> Rows]
        /\ \A i, j \in Rows : i # j => order[i] # order[j]
    <2>1. \A i, j \in Rows : i < j => order[i] # order[j]
      BY DEF NewestFirst
    <2> QED BY <1>1, <2>1 DEF NewestFirst
  <1>5. IsFiniteSet(I) /\ Cardinality(I) = PageLimit
    <2>1. PICK b \in Int, c \in Int : b = a + 1 /\ c = a + PageLimit
      BY <1>1
    <2>2. IsFiniteSet(b..c) /\ Cardinality(b..c) = IF b > c THEN 0 ELSE c - b + 1
      BY <2>1, FS_Interval
    <2>3. b <= c /\ c - b + 1 = PageLimit
      BY <1>1, <2>1
    <2> QED BY <2>1, <2>2, <2>3
  <1> HIDE DEF I
  <1>6. g \in Bijection(I, PageRows(order, page))
    <2>1. g \in [I -> PageRows(order, page)]
      BY <1>3
    <2>2. g \in Injection(I, PageRows(order, page))
      BY <1>2, <1>4, <2>1 DEF Injection, IsInjective
    <2>3. g \in Surjection(I, PageRows(order, page))
      BY <1>3, <2>1 DEF Surjection
    <2> QED BY <2>2, <2>3 DEF Bijection
  <1>7. ExistsBijection(I, PageRows(order, page))
    BY <1>6 DEF ExistsBijection
  <1>8. Cardinality(PageRows(order, page)) = PageLimit
    BY <1>5, <1>7, FS_Bijection
  <1> QED BY <1>1, <1>8

\* What a later query knows of failedAt extends what an earlier one knew.
LEMMA KnownTimes ==
    ASSUME TypeOK, WalkInv, NEW f \in FailureTimes, NEW k \in Rows,
           dlqTable[k] \in DOMAIN walk.failedAt
    PROVE  /\ Tied(walk.failedAt, k) => Tied(f, k)
           /\ Cardinality(Later(walk.failedAt, k)) <= Cardinality(Later(f, k))
  <1>1. /\ DOMAIN f = {dlqTable[j] : j \in Rows}
        /\ \A i \in DOMAIN walk.failedAt : f[i] = walk.failedAt[i]
    BY DEF FailureTimes
  <1>2. DOMAIN walk.failedAt \subseteq DOMAIN f
    BY <1>1 DEF WalkInv
  <1>3. Tied(walk.failedAt, k) => Tied(f, k)
    BY <1>1, <1>2 DEF Tied
  <1>4. Later(walk.failedAt, k) \in SUBSET Later(f, k)
    BY <1>1, <1>2 DEF Later
  <1>5. Cardinality(Later(walk.failedAt, k)) <= Cardinality(Later(f, k))
    BY <1>4, RowsTyping, FS_Subset
  <1> QED BY <1>3, <1>5

\* Where a page begins and ends.
LEMMA Product ==
    ASSUME NEW n \in Nat, NEW L \in Nat
    PROVE  n * L \in Nat /\ (n - 1) * L + L = n * L /\ (1 - 1) * L = 0
  OBVIOUS

\* One page is read.
LEMMA PageRead ==
    ASSUME TypeOK, WalkInv, ReadPage, UNCHANGED dlqTable
    PROVE  WalkInv'
  <1>1. PICK f \in FailureTimes : \E order \in NewestFirst(f) :
           LET rows == PageRows(order, walk.page) IN
           walk' = [walk EXCEPT
                      !.shown = @ \cup rows,
                      !.page = @ + 1,
                      !.failedAt = f,
                      !.pc = IF Cardinality(rows) < PageLimit THEN "done" ELSE @]
    BY DEF ReadPage
  <1>2. PICK order \in NewestFirst(f) :
           LET rows == PageRows(order, walk.page) IN
           walk' = [walk EXCEPT
                      !.shown = @ \cup rows,
                      !.page = @ + 1,
                      !.failedAt = f,
                      !.pc = IF Cardinality(rows) < PageLimit THEN "done" ELSE @]
    BY <1>1
  <1>3. PICK p \in Nat : p = walk.page /\ p >= 1
    BY DEF TypeOK, AdminTypeOK, WalkInv, ReadPage
  <1> DEFINE rows == PageRows(order, p)
  <1>4. /\ walk'.shown = walk.shown \cup rows /\ walk'.page = p + 1
        /\ walk'.failedAt = f /\ walk'.begun = walk.begun
        /\ walk'.pc = IF Cardinality(rows) < PageLimit THEN "done" ELSE "reading"
    BY <1>2, <1>3 DEF TypeOK, AdminTypeOK, ReadPage
  <1>5. /\ Len(dlqTable) \in Nat /\ Rows = 1..Len(dlqTable) /\ PageLimit \in Nat \ {0}
        /\ walk.begun \in Nat /\ walk.begun <= Len(dlqTable) /\ walk.pc = "reading"
        /\ \A k : Cardinality(Later(f, k)) \in Nat
    BY RowsTyping, AdminDlqAssumption DEF TypeOK, AdminTypeOK, WalkInv, ReadPage
  <1>6. PICK a \in Nat : a = (p - 1) * PageLimit
    <2>1. p - 1 \in Nat
      BY <1>3
    <2> QED BY <1>5, <2>1, Product
  <1>7. a + PageLimit = p * PageLimit /\ (p = 1 => a = 0)
    BY <1>3, <1>5, <1>6, Product
  <1>8. ASSUME NEW k \in 1..walk.begun, ~Tied(f, k), k \notin walk'.shown
        PROVE  /\ Cardinality(Later(f, k)) >= a + PageLimit
               /\ Len(dlqTable) >= a + PageLimit
    <2>1. k \in Rows
      BY <1>5
    <2>2. PICK m \in Rows : order[m] = k /\ Cardinality(Later(f, k)) = m - 1
      BY <1>8, <2>1, PlaceOfRow
    <2>3. m \in Nat /\ m >= 1 /\ m <= Len(dlqTable)
      BY <1>5, <2>2
    <2>4. m > a
      <3>1. CASE p = 1
        BY <1>7, <2>3, <3>1
      <3>2. CASE p > 1
        <4>1. dlqTable[k] \in DOMAIN walk.failedAt /\ Ahead(k, a)
          BY <1>3, <1>5, <1>6, <3>2 DEF WalkInv
        <4>2. k \notin walk.shown
          BY <1>4, <1>8
        <4>3. Cardinality(Later(walk.failedAt, k)) >= a
          BY <1>8, <2>1, <4>1, <4>2, KnownTimes DEF Ahead
        <4>4. Cardinality(Later(walk.failedAt, k)) \in Nat
          BY RowsTyping
        <4> QED BY <2>1, <2>2, <2>3, <4>1, <4>3, <4>4, <1>5, KnownTimes
      <3> QED BY <1>3, <3>1, <3>2
    <2>5. m > a + PageLimit
      <3> SUFFICES ASSUME m <= a + PageLimit PROVE FALSE
        BY <1>5, <2>3
      <3>1. m \in Rows \cap ((p - 1) * PageLimit + 1 .. p * PageLimit)
        BY <1>5, <1>6, <1>7, <2>2, <2>3, <2>4
      <3>2. k \in rows
        BY <2>2, <3>1 DEF PageRows
      <3> QED BY <1>4, <1>8, <3>2
    <2> QED BY <1>5, <2>2, <2>3, <2>5
  <1>9. \A k : Tied(f, k)' <=> Tied(f, k)
    BY DEF Tied, Rows
  <1>10. \A k : Later(f, k)' = Later(f, k)
    BY DEF Later, Rows
  <1>11. \A k \in 1..walk.begun : dlqTable[k] \in DOMAIN f
    BY <1>5 DEF FailureTimes
  <1>12. DOMAIN f = {dlqTable[k] : k \in Rows}
    BY DEF FailureTimes
  <1>13. CASE Cardinality(rows) < PageLimit
    <2>1. Len(dlqTable) < a + PageLimit
      BY <1>3, <1>6, <1>7, <1>13, ShortPage
    <2>2. \A k \in 1..walk.begun : k \in walk'.shown \/ Tied(f, k)
      BY <1>5, <1>8, <2>1
    <2>3. walk'.pc = "done"
      BY <1>4, <1>13
    <2> QED BY <1>4, <1>5, <1>9, <1>12, <2>2, <2>3 DEF WalkInv, Rows
  <1>14. CASE ~(Cardinality(rows) < PageLimit)
    <2>1. (walk'.page - 1) * PageLimit = a + PageLimit /\ walk'.page >= 1
      BY <1>3, <1>4, <1>5, <1>7
    <2>2. \A k \in 1..walk.begun : Ahead(k, a + PageLimit)'
      BY <1>4, <1>8, <1>9, <1>10 DEF Ahead
    <2>3. walk'.pc = "reading"
      BY <1>4, <1>14
    <2> QED BY <1>4, <1>5, <1>11, <1>12, <2>1, <2>2, <2>3 DEF WalkInv, Rows
  <1> QED BY <1>13, <1>14

\* A new row comes after the others in the table: who was tied stays tied, and
\* no row loses one that comes before it.
LEMMA WalkKept ==
    ASSUME TypeOK, WalkInv, UNCHANGED walk, NEW e \in Nat,
           \/ UNCHANGED dlqTable
           \/ dlqTable' = Append(dlqTable, e)
    PROVE  WalkInv'
  <1>1. CASE UNCHANGED dlqTable
    <2>1. \A f, k : (Tied(f, k)' <=> Tied(f, k)) /\ Later(f, k)' = Later(f, k)
      BY <1>1 DEF Tied, Later, Rows
    <2>2. \A k, m : Ahead(k, m)' <=> Ahead(k, m)
      BY <2>1 DEF Ahead
    <2> QED BY <1>1, <2>1, <2>2 DEF WalkInv, Rows
  <1>2. CASE dlqTable' = Append(dlqTable, e)
    <2>1. /\ DOMAIN dlqTable' = DOMAIN dlqTable \cup {Len(dlqTable) + 1}
          /\ \A k \in DOMAIN dlqTable : dlqTable'[k] = dlqTable[k]
      BY <1>2, DlqRowInserted
    <2>2. /\ Len(dlqTable) \in Nat /\ Rows = 1..Len(dlqTable)
          /\ Len(dlqTable') = Len(dlqTable) + 1 /\ IsFiniteSet(Rows')
      <3>1. Len(dlqTable') = Len(dlqTable) + 1
        BY <1>2, AppendProperties DEF TypeOK, DlqTypeOK
      <3>2. IsFiniteSet(Rows')
        <4>1. Rows' = Rows \cup {Len(dlqTable) + 1}
          BY <2>1 DEF Rows
        <4> QED BY <4>1, RowsTyping, FS_AddElement
      <3> QED BY <3>1, <3>2, RowsTyping
    <2>3. Rows \subseteq Rows' /\ \A k \in Rows : dlqTable'[k] = dlqTable[k]
      BY <2>1 DEF Rows
    <2>4. ASSUME NEW k \in Rows
          PROVE  /\ Tied(walk.failedAt, k) => Tied(walk.failedAt, k)'
                 /\ \A m \in Nat : Ahead(k, m) => Ahead(k, m)'
      <3>1. Tied(walk.failedAt, k) => Tied(walk.failedAt, k)'
        BY <2>3 DEF Tied
      <3>2. Later(walk.failedAt, k) \subseteq Later(walk.failedAt, k)'
        BY <2>3 DEF Later
      <3>3. IsFiniteSet(Later(walk.failedAt, k)')
        <4>1. Later(walk.failedAt, k)' \subseteq Rows'
          BY DEF Later
        <4> QED BY <2>2, <4>1, FS_Subset
      <3>4. /\ Cardinality(Later(walk.failedAt, k)) <= Cardinality(Later(walk.failedAt, k)')
            /\ Cardinality(Later(walk.failedAt, k)) \in Nat
            /\ Cardinality(Later(walk.failedAt, k)') \in Nat
        BY <3>2, <3>3, RowsTyping, FS_Subset, FS_CardinalityType
      <3>5. Cardinality(Later(walk.failedAt, k))' = Cardinality(Later(walk.failedAt, k)')
        OBVIOUS
      <3> QED BY <3>1, <3>4, <3>5 DEF Ahead
    <2>5. /\ walk.begun \in Nat /\ walk.begun <= Len(dlqTable)
          /\ \A k \in 1..walk.begun : k \in Rows
      BY <2>2 DEF WalkInv, TypeOK, AdminTypeOK
    <2>6. DOMAIN walk.failedAt \subseteq {dlqTable'[k] : k \in Rows'}
      BY <2>3 DEF WalkInv
    <2>7. ASSUME walk.pc = "reading", walk.page > 1, NEW k \in 1..walk.begun
          PROVE  /\ dlqTable'[k] \in DOMAIN walk.failedAt
                 /\ Ahead(k, (walk.page - 1) * PageLimit)'
      <3>1. /\ dlqTable[k] \in DOMAIN walk.failedAt
            /\ Ahead(k, (walk.page - 1) * PageLimit)
        BY <2>7 DEF WalkInv
      <3>2. PICK n \in Nat : n = walk.page - 1
        BY <2>7 DEF TypeOK, AdminTypeOK
      <3>3. PICK m \in Nat : m = (walk.page - 1) * PageLimit
        BY <3>2, Product, AdminDlqAssumption
      <3>4. Ahead(k, m)'
        BY <2>4, <2>5, <3>1, <3>3
      <3> QED BY <2>3, <2>5, <3>1, <3>3, <3>4
    <2>8. ASSUME walk.pc = "done", NEW k \in 1..walk.begun
          PROVE  k \in walk.shown \/ Tied(walk.failedAt, k)'
      BY <2>4, <2>5, <2>8 DEF WalkInv
    <2>9. walk.begun <= Len(dlqTable')
      BY <2>2, <2>5
    <2> QED BY <2>6, <2>7, <2>8, <2>9 DEF WalkInv
  <1> QED BY <1>1, <1>2

LEMMA LetterTyping ==
    ASSUME TypeOK, DlqStep
    PROVE  DlqEntry \in Nat
  <1>1. PICK p : p = dlqPosition + 1
    OBVIOUS
  <1>2. p \in 1..Len(dlqTopic) /\ DOMAIN dlqTopic = 1..Len(dlqTopic)
    BY <1>1, LenProperties
    DEF TypeOK, StoreTypeOK, DlqTypeOK, DlqUnread, DlqStep, SaveDlqEntry, SaveDlqEntryFails
  <1> QED BY <1>1, <1>2, ElementOfSeq DEF TypeOK, StoreTypeOK, DlqEntry

LEMMA WalkStep ==
    ASSUME TypeOK, WalkInv, [Next]_vars
    PROVE  WalkInv'
  <1>1. ASSUME UNCHANGED <<dlqTable, walk>> PROVE WalkInv'
    BY <1>1, WalkKept
  <1>2. CASE AdminNext /\ UNCHANGED <<send, relay, retry, workerVars>>
    <2>1. UNCHANGED dlqTable
      BY <1>2 DEF AdminNext, dlqVars
    <2>2. CASE ReadPage
      BY <2>1, <2>2, PageRead
    <2>3. CASE Begin
      <3>1. /\ walk'.pc = "reading" /\ walk'.page = 1 /\ walk'.begun = Len(dlqTable)
            /\ walk'.failedAt = walk.failedAt
        BY <2>3 DEF Begin, TypeOK, AdminTypeOK
      <3> QED BY <2>1, <3>1, RowsTyping DEF WalkInv, Rows
    <2> QED BY <1>2, <2>2, <2>3 DEF AdminNext
  <1>3. CASE DlqNext /\ UNCHANGED <<send, relay, retry, workerVars, walk>>
    <2>1. CASE DlqStep
      <3>1. DlqEntry \in Nat
        BY <2>1, LetterTyping
      <3>2. dlqTable' = dlqTable \/ dlqTable' = Append(dlqTable, DlqEntry)
        BY <2>1 DEF DlqStep, SaveDlqEntry, SaveDlqEntryFails, AfterFailedSave
      <3> QED BY <1>3, <3>1, <3>2, WalkKept
    <2>2. CASE DlqCrash
      BY <1>1, <1>3, <2>2 DEF DlqCrash
    <2> QED BY <1>3, <2>1, <2>2 DEF DlqNext
  <1>4. CASE GatewayNext /\ UNCHANGED <<relay, retry, workerVars, dlqVars, walk>>
    BY <1>1, <1>4 DEF dlqVars
  <1>5. CASE RelayNext /\ UNCHANGED <<send, retry, workerVars, dlqVars, walk>>
    BY <1>1, <1>5 DEF dlqVars
  <1>6. CASE RetryNext /\ UNCHANGED <<send, relay, workerVars, dlqVars, walk>>
    BY <1>1, <1>6 DEF dlqVars
  <1>7. CASE WorkerNext /\ UNCHANGED <<send, relay, retry, dlqVars, walk>>
    BY <1>1, <1>7 DEF dlqVars
  <1>8. CASE EnvironmentNext /\ UNCHANGED <<send, relay, retry, workerVars, dlqVars, walk>>
    BY <1>1, <1>8 DEF dlqVars
  <1>9. CASE UNCHANGED vars
    BY <1>1, <1>9 DEF vars, dlqVars
  <1> QED BY <1>2, <1>3, <1>4, <1>5, <1>6, <1>7, <1>8, <1>9 DEF Next

\* An administrator who pages through the dead letters to the end, while the
\* DLQ consumer inserts new ones in any place of the order, has seen every row
\* that was there at the start, but for rows that share their failedAt with
\* another: for every page size and every number of rows.
THEOREM OnlyTiesMissed == Spec => []OnlyTiesAreMissed
  <1>1. Init => WalkInv
    <2> SUFFICES ASSUME Init PROVE WalkInv
      OBVIOUS
    <2>1. /\ walk.pc = "idle" /\ walk.begun = 0 /\ walk.failedAt = << >>
          /\ dlqTable = << >>
      BY DEF Init, AdminInit, DlqInit
    <2>2. Len(dlqTable) = 0 /\ DOMAIN walk.failedAt = {}
      BY <2>1
    <2> QED BY <2>1, <2>2 DEF WalkInv
  <1>2. TypeOK /\ WalkInv /\ [Next]_vars => WalkInv'
    BY WalkStep
  <1>3. WalkInv => OnlyTiesAreMissed
    BY DEF WalkInv, OnlyTiesAreMissed, Tied
  <1>4. Spec => []TypeOK
    BY TypeCorrect
  <1> QED BY <1>1, <1>2, <1>3, <1>4, PTL DEF Spec
=============================================================================
