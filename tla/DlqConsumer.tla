---------------------------- MODULE DlqConsumer -----------------------------
(***************************************************************************)
(* DlqConsumerService of the main application: it copies the events of the *)
(* topic message.dlq into tb_message_dlq, one row per event it is handed.  *)
(* There is one consumer; its group committed an offset before or never.   *)
(***************************************************************************)
EXTENDS MessagingStore, Integers

VARIABLES
    dlqTable,       \* tb_message_dlq: the dispatch ids of its rows, in order
    dlqPosition,    \* the offset of the next event to hand out
    dlqCommitted    \* the committed offset, -1 when there is none

dlqVars == <<dlqTable, dlqPosition, dlqCommitted>>

DlqTypeOK ==
    /\ dlqTable \in Seq(Nat)
    /\ dlqPosition \in Nat
    /\ dlqCommitted \in Nat \cup {-1}

DlqInit ==
    /\ dlqTable = << >>
    /\ dlqPosition = 0
    /\ dlqCommitted \in {0, -1}

-----------------------------------------------------------------------------

DlqUnread == dlqPosition < Len(dlqTopic)

DlqEntry == dlqTopic[dlqPosition + 1]

\* Mutant: the offset does not advance.
DlqConsumed_NoAdvance == UNCHANGED <<dlqPosition, dlqCommitted>>

DlqConsumed ==
    /\ dlqPosition' = dlqPosition + 1
    /\ dlqCommitted' \in {dlqCommitted, dlqPosition + 1}

\* The row is inserted, whether or not the event was handed out before.
SaveDlqEntry ==
    /\ DlqUnread
    /\ dlqTable' = Append(dlqTable, DlqEntry)
    /\ DlqConsumed
    /\ UNCHANGED storeVars

\* The insert throws: the error is logged and the event is consumed.
SaveDlqEntryFails ==
    /\ DlqUnread
    /\ Fault("db")
    /\ dlqTable' \in AfterFailedSave(dlqTable, Append(dlqTable, DlqEntry))
    /\ DlqConsumed
    /\ UNCHANGED <<request, payload, outbox, dispatch, topic, dlqTopic>>

\* The main process dies and resumes at the commit, or at the end of the topic.
DlqCrash ==
    LET restart == IF dlqCommitted = -1 THEN Len(dlqTopic) ELSE dlqCommitted IN
    /\ dlqPosition # restart
    /\ Fault("crash")
    /\ dlqPosition' = restart
    /\ UNCHANGED <<dlqTable, dlqCommitted>>
    /\ UNCHANGED <<request, payload, outbox, dispatch, topic, dlqTopic>>

DlqStep == SaveDlqEntry \/ SaveDlqEntryFails

DlqNext == DlqStep \/ DlqCrash
=============================================================================
