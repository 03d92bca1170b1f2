------------------------------ MODULE Gateway -------------------------------
(***************************************************************************)
(* POST /messages/send in api-gateway, MessageRequestService.send and      *)
(* handleExistingRequest, from the moment the guards let the call through. *)
(* A handler is a record of send: pc names the await it is at, entity is   *)
(* the MessageRequestEntity it holds in memory.  Every await is a step of  *)
(* its own, so the handlers of two calls, the relay, the scheduler and the *)
(* workers interleave between any two of them.  A call happens once; a     *)
(* client that calls again is another member of Sends.                     *)
(***************************************************************************)
EXTENDS MessagingStore

CONSTANT Sends      \* the HTTP calls of one behaviour

ASSUME GatewayAssumption == IsFiniteSet(Sends)

VARIABLE send

SendPc ==
    {"idle", "findExisting", "findTemplate", "findAccess", "findVariables", "commit",
     "publish", "markPublished", "markQueued",
     "findPayload", "republish", "markRequeued", "done"}

Responses == {"none", "ok", "rejected", "unavailable", "error", "lost"}

SendRecord ==
    [pc: SendPc, req: Requests \cup {None}, entity: RequestRow,
     startedAt: Nat, response: Responses]

GatewayTypeOK ==
    /\ send \in [Sends -> SendRecord]
    /\ \A s \in Sends : send[s].pc # "idle" => send[s].req \in Requests

GatewayInit ==
    send = [s \in Sends |->
              [pc |-> "idle", req |-> None, entity |-> AbsentRow,
               startedAt |-> 0, response |-> "none"]]

-----------------------------------------------------------------------------
SendAt(s, pc) == send[s].pc = pc

SendGoto(s, pc) == send' = [send EXCEPT ![s].pc = pc]

Respond(s, response) ==
    send' = [send EXCEPT ![s].pc = "done", ![s].response = response]

\* Mutant: the wrong member of the status enum is written.
QueuedEntity_WrongStatus(s) ==
    [send[s].entity EXCEPT !.status = "PROCESSING", !.queuedAt = TRUE]

\* The entity in memory, turned QUEUED; every other column stays as it was
\* when the entity was read or inserted.
QueuedEntity(s) ==
    [send[s].entity EXCEPT !.status = "QUEUED", !.queuedAt = TRUE]

\* A call for request r passes the guards and enters send().
Receive(s, r) ==
    /\ SendAt(s, "idle")
    /\ send' = [send EXCEPT ![s].pc = "findExisting", ![s].req = r]
    /\ UNCHANGED storeVars

\* Mutant: every existing request is answered with its current state.
FindExisting_NoReplay(s) ==
    /\ SendAt(s, "findExisting")
    /\ IF request[send[s].req].status = "ABSENT"
         THEN SendGoto(s, "findTemplate")
         ELSE Respond(s, "ok")
    /\ UNCHANGED storeVars

\* findOne by requestId: only a VALIDATED request goes on to be re-published.
FindExisting(s) ==
    /\ SendAt(s, "findExisting")
    /\ LET row == request[send[s].req] IN
         \/ /\ row.status = "ABSENT"
            /\ SendGoto(s, "findTemplate")
         \/ /\ row.status = "VALIDATED"
            /\ send' = [send EXCEPT ![s].pc = "findPayload", ![s].entity = row]
         \/ /\ row.status \notin {"ABSENT", "VALIDATED"}
            /\ Respond(s, "ok")
    /\ UNCHANGED storeVars

\* The time of the database clock: later than every transaction begun so far.
Now == 1 + Cardinality({s \in Sends : send[s].startedAt > 0})

\* No code writes the template tables: what they hold is a choice.  An active
\* template has the code, PUBLIC or not, or the call is refused.
FindTemplate(s) ==
    /\ SendAt(s, "findTemplate")
    /\ \/ SendGoto(s, "findVariables")
       \/ SendGoto(s, "findAccess")
       \/ Respond(s, "rejected")
    /\ UNCHANGED storeVars

\* The client app is allowed to use a template that is not PUBLIC, or not.
FindAccess(s) ==
    /\ SendAt(s, "findAccess")
    /\ SendGoto(s, "findVariables") \/ Respond(s, "rejected")
    /\ UNCHANGED storeVars

\* The values match the variables of the template and the transaction begins,
\* or the call is refused.
FindVariables(s) ==
    /\ SendAt(s, "findVariables")
    /\ \/ send' = [send EXCEPT ![s].pc = "commit", ![s].startedAt = Now]
       \/ Respond(s, "rejected")
    /\ UNCHANGED storeVars

\* A query before the transaction, or of a replay, is rejected.
ReadFails(s) ==
    /\ send[s].pc \in {"findExisting", "findTemplate", "findAccess",
                       "findVariables", "findPayload"}
    /\ Fault("db")
    /\ Respond(s, "error")
    /\ UNCHANGED <<request, payload, outbox, dispatch, topic, dlqTopic>>

-----------------------------------------------------------------------------
NewRow(c) ==
    [status |-> "VALIDATED", queuedAt |-> FALSE, completedAt |-> FALSE,
     channel |-> c]

\* created_at defaults to now(), the time the transaction began: of two rows
\* the one that is visible first may be the later one.
NewOutboxRow(s) == [status |-> "PENDING", createdAt |-> send[s].startedAt]

InsertRows(s, c) ==
    LET r == send[s].req IN
    /\ request' = [request EXCEPT ![r] = NewRow(c)]
    /\ payload' = payload \cup {r}
    /\ outbox' = [outbox EXCEPT ![r] = NewOutboxRow(s)]

\* Mutant: no UNIQUE constraint on request_id.
Commit_NotUnique(s, c) ==
    /\ SendAt(s, "commit")
    /\ InsertRows(s, c)
    /\ send' = [send EXCEPT ![s].pc = "publish", ![s].entity = NewRow(c)]
    /\ UNCHANGED <<dispatch, topic, dlqTopic, faults>>

\* The transaction inserts request, payload, recipient and outbox rows at once.
Commit(s, c) ==
    /\ SendAt(s, "commit")
    /\ request[send[s].req].status = "ABSENT"
    /\ InsertRows(s, c)
    /\ send' = [send EXCEPT ![s].pc = "publish", ![s].entity = NewRow(c)]
    /\ UNCHANGED <<dispatch, topic, dlqTopic, faults>>

\* A concurrent call inserted the same request_id first: the UNIQUE
\* constraint rolls this transaction back and the call ends in a 500.
CommitConflict(s) ==
    /\ SendAt(s, "commit")
    /\ Committed(send[s].req)
    /\ Respond(s, "error")
    /\ UNCHANGED storeVars

\* Mutant: the transaction is inside the try that answers 503.
CommitFails_Unavailable(s, c) ==
    /\ SendAt(s, "commit")
    /\ request[send[s].req].status = "ABSENT"
    /\ Fault("db")
    /\ \/ UNCHANGED <<request, payload, outbox>>
       \/ DbLosesAck /\ InsertRows(s, c)
    /\ Respond(s, "unavailable")
    /\ UNCHANGED <<dispatch, topic, dlqTopic>>

\* The transaction throws: rolled back, or committed with the answer lost.
CommitFails(s, c) ==
    /\ SendAt(s, "commit")
    /\ request[send[s].req].status = "ABSENT"
    /\ Fault("db")
    /\ \/ UNCHANGED <<request, payload, outbox>>
       \/ DbLosesAck /\ InsertRows(s, c)
    /\ Respond(s, "error")
    /\ UNCHANGED <<dispatch, topic, dlqTopic>>

-----------------------------------------------------------------------------
Publish(s) ==
    /\ SendAt(s, "publish")
    /\ topic' = Appended(send[s].req)
    /\ SendGoto(s, "markPublished")
    /\ UNCHANGED <<request, payload, outbox, dispatch, dlqTopic, faults>>

MarkPublished(s) ==
    /\ SendAt(s, "markPublished")
    /\ outbox' = [outbox EXCEPT ![send[s].req].status = "PUBLISHED"]
    /\ SendGoto(s, "markQueued")
    /\ UNCHANGED <<request, payload, dispatch, topic, dlqTopic, faults>>

\* The entity of the transaction is saved: VALIDATED as it was then, with
\* completedAt null, whatever a worker has written to the row since.
MarkQueued(s) ==
    /\ SendAt(s, "markQueued")
    /\ request' = [request EXCEPT ![send[s].req] = QueuedEntity(s)]
    /\ Respond(s, "ok")
    /\ UNCHANGED <<payload, outbox, dispatch, topic, dlqTopic, faults>>

\* The catch of send(): an error of any of the three awaits is answered 503.
SendFails(s) ==
    LET r == send[s].req IN
    /\ \/ /\ SendAt(s, "publish")
          /\ Fault("kafka")
          /\ topic' \in AfterFailedSend(r)
          /\ UNCHANGED <<request, outbox>>
       \/ /\ SendAt(s, "markPublished")
          /\ Fault("db")
          /\ outbox' \in AfterFailedSave(
                           outbox, [outbox EXCEPT ![r].status = "PUBLISHED"])
          /\ UNCHANGED <<request, topic>>
       \/ /\ SendAt(s, "markQueued")
          /\ Fault("db")
          /\ request' \in AfterFailedSave(
                            request, [request EXCEPT ![r] = QueuedEntity(s)])
          /\ UNCHANGED <<outbox, topic>>
    /\ Respond(s, "unavailable")
    /\ UNCHANGED <<payload, dispatch, dlqTopic>>

-----------------------------------------------------------------------------
\* Mutant: a request without payload is answered with its current state.
FindPayload_Silent(s) ==
    /\ SendAt(s, "findPayload")
    /\ IF send[s].req \in payload
         THEN SendGoto(s, "republish")
         ELSE Respond(s, "ok")
    /\ UNCHANGED storeVars

\* handleExistingRequest reads the payload; its metadata and its recipient
\* were committed with the request and are never deleted.
FindPayload(s) ==
    /\ SendAt(s, "findPayload")
    /\ IF send[s].req \in payload
         THEN SendGoto(s, "republish")
         ELSE Respond(s, "error")
    /\ UNCHANGED storeVars

Republish(s) ==
    /\ SendAt(s, "republish")
    /\ topic' = Appended(send[s].req)
    /\ SendGoto(s, "markRequeued")
    /\ UNCHANGED <<request, payload, outbox, dispatch, dlqTopic, faults>>

RepublishFails(s) ==
    /\ SendAt(s, "republish")
    /\ Fault("kafka")
    /\ topic' \in AfterFailedSend(send[s].req)
    /\ Respond(s, "unavailable")
    /\ UNCHANGED <<request, payload, outbox, dispatch, dlqTopic>>

\* The outbox row stays PENDING: a replay never marks it.
MarkRequeued(s) ==
    /\ SendAt(s, "markRequeued")
    /\ request' = [request EXCEPT ![send[s].req] = QueuedEntity(s)]
    /\ Respond(s, "ok")
    /\ UNCHANGED <<payload, outbox, dispatch, topic, dlqTopic, faults>>

\* This save is outside the try: its error is a 500.
MarkRequeuedFails(s) ==
    /\ SendAt(s, "markRequeued")
    /\ Fault("db")
    /\ request' \in AfterFailedSave(
                      request,
                      [request EXCEPT ![send[s].req] = QueuedEntity(s)])
    /\ Respond(s, "error")
    /\ UNCHANGED <<payload, outbox, dispatch, topic, dlqTopic>>

\* The gateway process dies: the handler's memory and its answer are gone.
GatewayCrash(s) ==
    /\ send[s].pc \notin {"idle", "done"}
    /\ Fault("crash")
    /\ Respond(s, "lost")
    /\ UNCHANGED <<request, payload, outbox, dispatch, topic, dlqTopic>>

-----------------------------------------------------------------------------
\* The steps of a call that is under way, failures of its awaits included.
SendStep(s) ==
    \/ FindExisting(s) \/ FindTemplate(s) \/ FindAccess(s) \/ FindVariables(s)
    \/ ReadFails(s)
    \/ \E c \in Channels : Commit(s, c) \/ CommitFails(s, c)
    \/ CommitConflict(s)
    \/ Publish(s) \/ MarkPublished(s) \/ MarkQueued(s) \/ SendFails(s)
    \/ FindPayload(s) \/ Republish(s) \/ RepublishFails(s)
    \/ MarkRequeued(s) \/ MarkRequeuedFails(s)

GatewayNext ==
    \E s \in Sends :
       \/ \E r \in Requests : Receive(s, r)
       \/ SendStep(s)
       \/ GatewayCrash(s)
=============================================================================
