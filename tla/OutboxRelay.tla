---------------------------- MODULE OutboxRelay -----------------------------
(***************************************************************************)
(* OutboxRelayService of the main application: a cron job that every 30    *)
(* seconds publishes the oldest PENDING outbox rows one after another.     *)
(* The cron decorator starts a run whether or not the last one ended, so   *)
(* several runs (members of RelayTicks) overlap, each with the rows it     *)
(* read.  A run holds whole entities, but every writer of the table leaves *)
(* createdAt alone and writes the other columns together with the status,  *)
(* so the batch is kept as the set of their keys.                          *)
(***************************************************************************)
EXTENDS MessagingStore

CONSTANT RelayTicks     \* the runs of the cron job that may overlap

VARIABLE relay

RelayPc == {"idle", "publish", "savePublished", "saveFailed"}

RelayRecord ==
    [pc: RelayPc, batch: SUBSET Requests, entry: Requests \cup {None}]

RelayTypeOK ==
    /\ relay \in [RelayTicks -> RelayRecord]
    /\ \A t \in RelayTicks :
         relay[t].pc \in {"savePublished", "saveFailed"} => relay[t].entry \in Requests

RelayIdle == [pc |-> "idle", batch |-> {}, entry |-> None]

RelayInit == relay = [t \in RelayTicks |-> RelayIdle]

-----------------------------------------------------------------------------
RelayAt(t, pc) == relay[t].pc = pc

\* Mutant: the limit of the query is off by one.
IsOldestPending_OffByOne(B) ==
    /\ B \subseteq Pending
    /\ Cardinality(B) < BatchSize
    /\ \A b \in B, p \in Pending \ B : outbox[b].createdAt <= outbox[p].createdAt

\* find: status PENDING, order createdAt ASC, take BatchSize.
IsOldestPending(B) ==
    /\ B \subseteq Pending
    /\ Cardinality(B) <= BatchSize
    /\ B # Pending => Cardinality(B) = BatchSize
    /\ \A b \in B, p \in Pending \ B : outbox[b].createdAt <= outbox[p].createdAt

\* The loop goes through the batch in the order it was read.
IsFirst(r, B) ==
    /\ r \in B
    /\ \A b \in B : outbox[r].createdAt <= outbox[b].createdAt

\* A cron run reads its batch.  With nothing pending, or when the query
\* throws, the run ends here and leaves no trace.
RelayFind(t) ==
    /\ RelayAt(t, "idle")
    /\ \E B \in SUBSET Pending :
         /\ B # {}
         /\ IsOldestPending(B)
         /\ relay' = [relay EXCEPT ![t].pc = "publish", ![t].batch = B]
    /\ UNCHANGED storeVars

TakeEntry(t, r, pc) ==
    relay' = [relay EXCEPT ![t].pc = pc, ![t].entry = r]

\* The entry is published even if another run or the gateway published it
\* since this run read it.
RelayPublish(t) ==
    /\ RelayAt(t, "publish")
    /\ \E r \in relay[t].batch :
         /\ IsFirst(r, relay[t].batch)
         /\ topic' = Appended(r)
         /\ TakeEntry(t, r, "savePublished")
    /\ UNCHANGED <<request, payload, outbox, dispatch, dlqTopic, faults>>

RelayPublishFails(t) ==
    /\ RelayAt(t, "publish")
    /\ Fault("kafka")
    /\ \E r \in relay[t].batch :
         /\ IsFirst(r, relay[t].batch)
         /\ topic' \in AfterFailedSend(r)
         /\ TakeEntry(t, r, "saveFailed")
    /\ UNCHANGED <<request, payload, outbox, dispatch, dlqTopic>>

-----------------------------------------------------------------------------
\* Mutant: the catch forgets to mark the entry.
EntryStatus_AlwaysPublished(t) == "PUBLISHED"

\* The status the catch or the end of the try left in the entity.
EntryStatus(t) == IF RelayAt(t, "savePublished") THEN "PUBLISHED" ELSE "FAILED"

SavedEntry(t) == [outbox EXCEPT ![relay[t].entry].status = EntryStatus(t)]

NextEntry(t) ==
    LET rest == relay[t].batch \ {relay[t].entry} IN
    relay' = [relay EXCEPT
                ![t] = IF rest = {} THEN RelayIdle
                       ELSE [pc |-> "publish", batch |-> rest, entry |-> None]]

\* The save is after the try/catch: one await for both outcomes.
RelaySave(t) ==
    /\ relay[t].pc \in {"savePublished", "saveFailed"}
    /\ outbox' = SavedEntry(t)
    /\ NextEntry(t)
    /\ UNCHANGED <<request, payload, dispatch, topic, dlqTopic, faults>>

\* Its error leaves relayPendingEvents: the rest of the batch is dropped.
RelaySaveFails(t) ==
    /\ relay[t].pc \in {"savePublished", "saveFailed"}
    /\ Fault("db")
    /\ outbox' \in AfterFailedSave(outbox, SavedEntry(t))
    /\ relay' = [relay EXCEPT ![t] = RelayIdle]
    /\ UNCHANGED <<request, payload, dispatch, topic, dlqTopic>>

\* The main process dies under the run.
RelayCrash(t) ==
    /\ ~RelayAt(t, "idle")
    /\ Fault("crash")
    /\ relay' = [relay EXCEPT ![t] = RelayIdle]
    /\ UNCHANGED <<request, payload, outbox, dispatch, topic, dlqTopic>>

-----------------------------------------------------------------------------
RelayStep(t) ==
    \/ RelayFind(t)
    \/ RelayPublish(t) \/ RelayPublishFails(t)
    \/ RelaySave(t) \/ RelaySaveFails(t)

RelayNext == \E t \in RelayTicks : RelayStep(t) \/ RelayCrash(t)
=============================================================================
