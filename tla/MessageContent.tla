--------------------------- MODULE MessageContent ----------------------------
(***************************************************************************)
(* What the calls of one client read and what becomes of the variables it  *)
(* sends: the GET handlers of TemplateController, MessageRequestService    *)
(* with validation, masking and encryption, every way an event gets into   *)
(* the topic, and the worker that opens it.  Pipeline has the same steps   *)
(* with their rows and no content; the columns only Pipeline needs (outbox *)
(* status, dispatches, offsets) are left out here, so the relay, the retry *)
(* scheduler and redelivery may act whenever they have something to send.  *)
(* No code writes the template tables: an editor changes them at any time. *)
(***************************************************************************)
EXTENDS TemplateRules

CONSTANTS
    Calls,          \* the HTTP calls of one behaviour
    None,           \* no template, request, channel, call
    Requests,
    Channels,
    Inputs,         \* pairs: what a template declares, what a client sends
    EncryptionKeys, \* values of PAYLOAD_ENCRYPTION_KEY
    MaxEdits,       \* bound: changes to the template tables as one call reads
    MaxFaults       \* bound: failing awaits and restarts

ASSUME ContentAssumption ==
    /\ None \notin Templates \cup Requests \cup Channels \cup Calls
    /\ \A input \in Inputs :
         /\ \A k \in DOMAIN input.variables : input.variables[k].type \in DataTypes
         /\ IsDocument(input.document)
    /\ EncryptionKeys # {}
    /\ MaxEdits \in Nat
    /\ MaxFaults \in Nat

VARIABLES
    table,      \* tb_message_template and tb_client_template_access
    call,
    row,        \* tb_message_request and tb_message_payload, by request id
    wire,       \* the events of a request in the topic message.send
    handled,    \* what process() of a worker was called with, by request
    key,        \* the encryption key each application was started with
    faults

vars == <<table, call, row, wire, handled, key, faults>>

Kinds == {"template", "variables", "list", "send"}

\* The steps of a call that read the template tables.
ReadingPcs == {"findTemplate", "findAccess", "findAccesses", "findAvailable"}

CallPc ==
    {"idle", "findExisting", "findVariables", "commit", "publish", "markQueued",
     "republish", "markRequeued", "done"} \cup ReadingPcs

\* An answer: the HTTP status, the error code, and of a message request the
\* template and the channel it names.
Answer(status, code) ==
    [status |-> status, code |-> code, template |-> None, channel |-> None]

NoAnswer == Answer(0, "none")

OkAnswer(t, c) == [Answer(201, "none") EXCEPT !.template = t, !.channel = c]

\* HttpExceptionFilter.resolveException: an AppException keeps its status and
\* code, any other HttpException its status; everything else is a 500.
AppException(code, status) == [class |-> "app", code |-> code, status |-> status]

HttpException(status) == [class |-> "http", code |-> "none", status |-> status]

OtherError == [class |-> "other", code |-> "none", status |-> 0]

Resolve(exception) ==
    IF exception.class = "other"
      THEN Answer(500, "SYS_INTERNAL_ERROR")
      ELSE Answer(exception.status, exception.code)

NoDocument == <<>>

\* The columns of tb_message_request and tb_message_payload; event: the one
\* built in the transaction, in memory and in the outbox row.  by, variables
\* and sent are history: the call that stored the request, what its values
\* were checked against, and what it asked for.
AbsentRow ==
    [status |-> "ABSENT", template |-> None, channel |-> None,
     payload |-> NoDocument, masked |-> NoDocument, event |-> NoDocument,
     by |-> None, variables |-> NoDocument, sent |-> NoDocument]

\* accesses: what the first query of a listing found; served: the templates
\* given away to the call.  History, until the template tables have been read:
\* always, ever: the templates usable at every, at some moment of the reading;
\* edited: the changes in that time.
IdleCall ==
    [kind |-> "list", pc |-> "idle", code |-> None, req |-> None, channel |-> None,
     accesses |-> {}, served |-> {}, answer |-> NoAnswer,
     always |-> {}, ever |-> {}, edited |-> 0]

TypeOK ==
    /\ table \in [Templates -> TemplateRow]
    /\ DOMAIN call = Calls
    /\ \A c \in Calls :
         /\ call[c].kind \in Kinds
         /\ call[c].pc \in CallPc
         /\ call[c].code \in Templates \cup {None}
         /\ call[c].req \in Requests \cup {None}
         /\ call[c].accesses \cup call[c].served \subseteq Templates
         /\ call[c].always \subseteq call[c].ever
         /\ call[c].answer.status \in {0, 200, 201, 400, 404, 500, 503}
    /\ DOMAIN row = Requests
    /\ \A r \in Requests :
         /\ row[r].status \in {"ABSENT", "VALIDATED", "QUEUED"}
         /\ row[r].status # "ABSENT" => row[r].by \in Calls /\ row[r].channel \in Channels
    /\ DOMAIN wire = Requests
    /\ DOMAIN handled = Requests
    /\ key \in [{"gateway", "worker"} -> EncryptionKeys]
    /\ faults \in 0..MaxFaults

Init ==
    /\ table \in [Templates -> TemplateRow]
    /\ call = [c \in Calls |-> IdleCall]
    /\ row = [r \in Requests |-> AbsentRow]
    /\ wire = [r \in Requests |-> {}]
    /\ handled = [r \in Requests |-> {}]
    /\ \E k \in EncryptionKeys : key = [app \in {"gateway", "worker"} |-> k]
    /\ faults = 0

-----------------------------------------------------------------------------
At(c, pc) == call[c].pc = pc

Goto(c, pc) == call' = [call EXCEPT ![c].pc = pc]

\* Of a finished call only what it was answered is kept, and to which request.
Finished(c, answer, served) ==
    [IdleCall EXCEPT !.pc = "done", !.req = call[c].req,
                     !.served = served, !.answer = answer]

Done(c, answer, served) == call' = [call EXCEPT ![c] = Finished(c, answer, served)]

Throws(c, exception) == Done(c, Resolve(exception), {})

contentVars == <<row, wire, handled, key>>

UsableNow == {t \in Templates : Usable(table[t])}

\* A call gets past the guards; the templates usable now are what its reading
\* starts from.  Bound: a call that only reads, which no other call can notice,
\* has the behaviour to itself.
Receive(c) ==
    /\ At(c, "idle")
    /\ \E kind \in Kinds, t \in Templates, r \in Requests :
         /\ \A d \in Calls \ {c} :
              At(d, "idle") \/ (kind = "send" /\ call[d].req # None)
         /\ call' = [call EXCEPT
                         ![c] = [IdleCall EXCEPT
                                   !.kind = kind,
                                   !.pc = CASE kind = "send" -> "findExisting"
                                            [] kind = "list" -> "findAccesses"
                                            [] OTHER -> "findTemplate",
                                   !.code = IF kind = "list" THEN None ELSE t,
                                   !.req = IF kind = "send" THEN r ELSE None,
                                   !.always = UsableNow, !.ever = UsableNow]]
    /\ UNCHANGED <<table, contentVars, faults>>

\* ValidationPipe: the body is not of the DTO.
RefuseBody(c) ==
    /\ At(c, "findExisting")
    /\ Throws(c, HttpException(400))
    /\ UNCHANGED <<table, contentVars, faults>>

-----------------------------------------------------------------------------
(* TemplateService *)

\* The template was found and may be used: what the call does next.
Granted(c) ==
    IF call[c].kind = "template"
      THEN Done(c, Answer(200, "none"), {call[c].code})
      ELSE call' = [call EXCEPT ![c].pc = "findVariables", ![c].served = {call[c].code},
                                ![c].always = {}, ![c].ever = {}, ![c].edited = 0]

NotFound(c) == Throws(c, AppException("MSG_TEMPLATE_NOT_FOUND", 404))

\* Mutant: an inactive template is found as well.
FindTemplate_Inactive(c) ==
    LET template == table[call[c].code] IN
    /\ At(c, "findTemplate")
    /\ IF template.scope = "PUBLIC" THEN Granted(c) ELSE Goto(c, "findAccess")
    /\ UNCHANGED <<table, contentVars, faults>>

\* getTemplateByCode: the active template of this code.
FindTemplate(c) ==
    LET template == table[call[c].code] IN
    /\ At(c, "findTemplate")
    /\ IF ~template.active THEN NotFound(c)
       ELSE IF template.scope = "PUBLIC" THEN Granted(c)
       ELSE Goto(c, "findAccess")
    /\ UNCHANGED <<table, contentVars, faults>>

\* assertTemplateAccessible, for a template that was not PUBLIC when read.
FindAccess(c) ==
    /\ At(c, "findAccess")
    /\ IF table[call[c].code].allowed THEN Granted(c) ELSE NotFound(c)
    /\ UNCHANGED <<table, contentVars, faults>>

\* getClientAvailableTemplates, its two queries.
FindAccesses(c) ==
    /\ At(c, "findAccesses")
    /\ call' = [call EXCEPT ![c].pc = "findAvailable", ![c].accesses = Accesses(table)]
    /\ UNCHANGED <<table, contentVars, faults>>

FindAvailable(c) ==
    /\ At(c, "findAvailable")
    /\ Done(c, Answer(200, "none"), Available(table, call[c].accesses))
    /\ UNCHANGED <<table, contentVars, faults>>

-----------------------------------------------------------------------------
(* MessageRequestService.send *)

Stored(r) == row[r].status # "ABSENT"

\* A stored request is answered, or re-published if it is still VALIDATED,
\* whatever the values, the template and the channel of this call are.
FindExisting(c) ==
    LET found == row[call[c].req] IN
    /\ At(c, "findExisting")
    /\ CASE found.status = "ABSENT" -> Goto(c, "findTemplate")
         [] found.status = "VALIDATED" -> Goto(c, "republish")
         [] found.status = "QUEUED" ->
              Done(c, OkAnswer(found.template, found.channel), {})
    /\ UNCHANGED <<table, contentVars, faults>>

\* The variables the template declares are read, and answered or, in send(),
\* held against the document of the call, which stays with it until the commit.
FindVariables(c) ==
    /\ At(c, "findVariables")
    /\ IF call[c].kind = "variables"
         THEN Done(c, Answer(200, "none"), {})
         ELSE \E input \in Inputs :
                IF Fits(input.variables, input.document)
                  THEN call' = [call EXCEPT ![c].pc = "commit", ![c].served = {}]
                  ELSE Throws(c, AppException("MSG_INVALID_VARIABLES", 400))
    /\ UNCHANGED <<table, contentVars, faults>>

Event(template, channel, variables) ==
    [template |-> template, channel |-> channel, variables |-> variables]

\* Mutant: the client's metadata are spread last.
MetadataChannel_SpreadLast(own, channel) == IF own = None THEN channel ELSE own

\* metadata.channel: the client's metadata, which may have a channel of their
\* own, are spread first.
MetadataChannel(own, channel) == channel

\* The rows of the transaction, under the channel the call names; own is the
\* channel in the metadata of the call.
NewRow(c, input, channel, own) ==
    LET envelope == Encrypt(key["gateway"], input.document) IN
    [status |-> "VALIDATED", template |-> call[c].code,
     channel |-> MetadataChannel(own, channel),
     payload |-> envelope, masked |-> JsonData(Mask(input.document)),
     event |-> Event(call[c].code, channel, envelope),
     by |-> c, variables |-> input.variables,
     sent |-> Event(call[c].code, channel, input.document)]

InsertRows(c, channel) ==
    \E input \in Inputs, own \in Channels \cup {None} :
       /\ Fits(input.variables, input.document)
       /\ row' = [row EXCEPT ![call[c].req] = NewRow(c, input, channel, own)]

\* The channel, the metadata and the document of the call, one that fits, are
\* not looked at before and are chosen here.
Commit(c) ==
    /\ At(c, "commit")
    /\ ~Stored(call[c].req)
    /\ \E channel \in Channels :
         /\ InsertRows(c, channel)
         /\ call' = [call EXCEPT ![c].pc = "publish", ![c].channel = channel]
    /\ UNCHANGED <<table, wire, handled, key, faults>>

\* @ValidateNested lets a body without receiver pass; receiverToRecord throws.
CommitWithoutReceiver(c) ==
    /\ At(c, "commit")
    /\ Throws(c, OtherError)
    /\ UNCHANGED <<table, contentVars, faults>>

\* The UNIQUE constraint on request_id.
CommitConflict(c) ==
    /\ At(c, "commit")
    /\ Stored(call[c].req)
    /\ Throws(c, OtherError)
    /\ UNCHANGED <<table, contentVars, faults>>

Send(r, event) == wire' = [wire EXCEPT ![r] = @ \cup {event}]

\* The event built in the transaction.
Publish(c) ==
    /\ At(c, "publish")
    /\ Send(call[c].req, row[call[c].req].event)
    /\ Goto(c, "markQueued")
    /\ UNCHANGED <<table, row, handled, key, faults>>

\* Mutant: what is in the topic counts as completed.
Queued_Completed(r) == [row EXCEPT ![r].status = "COMPLETED"]

Queued(r) == [row EXCEPT ![r].status = "QUEUED"]

\* toResponse(savedRequest, dto.channel).
MarkQueued(c) ==
    /\ At(c, "markQueued")
    /\ row' = Queued(call[c].req)
    /\ Done(c, OkAnswer(row[call[c].req].template, call[c].channel), {})
    /\ UNCHANGED <<table, wire, handled, key, faults>>

\* handleExistingRequest: the event is built from the stored rows.
StoredEvent(r) == Event(row[r].template, row[r].channel, row[r].payload)

\* Mutant: the variables of the repeated call are sent.
Republish_OwnValues(c) ==
    /\ At(c, "republish")
    /\ \E input \in Inputs :
         Send(call[c].req,
              [StoredEvent(call[c].req) EXCEPT
                 !.variables = Encrypt(key["gateway"], input.document)])
    /\ Goto(c, "markRequeued")
    /\ UNCHANGED <<table, row, handled, key, faults>>

Republish(c) ==
    /\ At(c, "republish")
    /\ Send(call[c].req, StoredEvent(call[c].req))
    /\ Goto(c, "markRequeued")
    /\ UNCHANGED <<table, row, handled, key, faults>>

MarkRequeued(c) ==
    LET r == call[c].req IN
    /\ At(c, "markRequeued")
    /\ row' = Queued(r)
    /\ Done(c, OkAnswer(row[r].template, row[r].channel), {})
    /\ UNCHANGED <<table, wire, handled, key, faults>>

\* A query, the transaction or the produce call throws, with or without its
\* effect.  The try of send() answers 503, and so does the try around the
\* produce call of a replay; anything else ends in the filter as it is.
CallFails(c) ==
    LET r == call[c].req
        failed == IF call[c].pc \in {"publish", "markQueued", "republish"}
                    THEN AppException("MSG_KAFKA_PUBLISH_FAILED", 503)
                    ELSE OtherError IN
    /\ call[c].pc \notin {"idle", "done"}
    /\ faults < MaxFaults
    /\ faults' = faults + 1
    /\ \/ UNCHANGED <<row, wire>>
       \/ /\ At(c, "commit")
          /\ ~Stored(r)
          /\ \E channel \in Channels : InsertRows(c, channel)
          /\ UNCHANGED wire
       \/ At(c, "publish") /\ Send(r, row[r].event) /\ UNCHANGED row
       \/ At(c, "republish") /\ Send(r, StoredEvent(r)) /\ UNCHANGED row
       \/ /\ call[c].pc \in {"markQueued", "markRequeued"}
          /\ row' = Queued(r)
          /\ UNCHANGED wire
    /\ Throws(c, failed)
    /\ UNCHANGED <<table, handled, key>>

-----------------------------------------------------------------------------
(* The other processes *)

\* OutboxRelayService publishes the payload of the outbox row.
RelayPublishes(r) ==
    /\ Stored(r)
    /\ Send(r, row[r].event)
    /\ UNCHANGED <<table, call, row, handled, key, faults>>

\* RetrySchedulerService builds the event from the rows; a dispatch waits for
\* it only after a worker has handled an event.
RetryPublishes(r) ==
    /\ handled[r] # {}
    /\ Send(r, StoredEvent(r))
    /\ UNCHANGED <<table, call, row, handled, key, faults>>

\* eachMessage: encrypted variables are decrypted before process() is called;
\* when that throws, the event is consumed and nothing else happens.
Opens(event) == IsEncrypted(event.variables) => Decryptable(key["worker"], event.variables)

Opened(event) ==
    IF IsEncrypted(event.variables)
      THEN [event EXCEPT !.variables = Decrypt(@)]
      ELSE event

Handle(r) ==
    /\ \E event \in wire[r] :
         /\ Opens(event)
         /\ handled' = [handled EXCEPT ![r] = @ \cup {Opened(event)}]
    /\ UNCHANGED <<table, call, row, wire, key, faults>>

\* An application is started again with another PAYLOAD_ENCRYPTION_KEY; the
\* calls the gateway had under way are lost.
Restart(app) ==
    /\ faults < MaxFaults
    /\ faults' = faults + 1
    /\ \E k \in EncryptionKeys : key' = [key EXCEPT ![app] = k]
    /\ call' = [c \in Calls |->
                  IF app = "gateway" /\ call[c].pc \notin {"idle", "done"}
                    THEN Finished(c, NoAnswer, {}) ELSE call[c]]
    /\ UNCHANGED <<table, row, wire, handled>>

\* Somebody changes one column of one row of the template tables.  Bounds: a
\* call that reads them sees at most MaxEdits changes, and is the first of the
\* calls; what the tables hold when a call comes in is arbitrary anyway.
Edit(t) ==
    \E c \in Calls :
    /\ call[c].pc \in ReadingPcs \cup {"findExisting"}
    /\ \A d \in Calls \ {c} : At(d, "idle")
    /\ call[c].edited < MaxEdits
    /\ \/ table' = [table EXCEPT ![t].active = ~@]
       \/ table' = [table EXCEPT ![t].allowed = ~@]
       \/ \E scope \in {"PUBLIC", "PRIVATE"} \ {table[t].scope} :
            table' = [table EXCEPT ![t].scope = scope]
    /\ call' = [call EXCEPT ![c].always = @ \cap UsableNow',
                            ![c].ever = @ \cup UsableNow',
                            ![c].edited = @ + 1]
    /\ UNCHANGED <<contentVars, faults>>

Next ==
    \/ \E c \in Calls :
         \/ Receive(c) \/ RefuseBody(c)
         \/ FindTemplate(c) \/ FindAccess(c) \/ FindAccesses(c) \/ FindAvailable(c)
         \/ FindExisting(c) \/ FindVariables(c)
         \/ Commit(c) \/ CommitWithoutReceiver(c) \/ CommitConflict(c)
         \/ Publish(c) \/ MarkQueued(c) \/ Republish(c) \/ MarkRequeued(c) \/ CallFails(c)
    \/ \E r \in Requests : RelayPublishes(r) \/ RetryPublishes(r) \/ Handle(r)
    \/ \E app \in {"gateway", "worker"} : Restart(app)
    \/ \E t \in Templates : Edit(t)

Spec == Init /\ [][Next]_vars

-----------------------------------------------------------------------------
(* Properties *)

\* A step in which call c has read the template tables to the end; lookup and
\* listing need two queries for it, without a transaction.
HasRead(c) == call[c].pc \in ReadingPcs /\ call'[c].pc \notin ReadingPcs

\* A template that stayed usable for as long as a call read the tables is in
\* the list the call gets, and is not refused to it as unknown, if the tables
\* change at most once in between.
UsableIsServed ==
    [][\A c \in Calls :
          HasRead(c) /\ call[c].edited <= 1 =>
             /\ call[c].kind = "list" /\ call'[c].answer.status = 200 =>
                   call[c].always \subseteq call'[c].served
             /\ call'[c].answer.code = "MSG_TEMPLATE_NOT_FOUND" =>
                   call[c].code \notin call[c].always]_vars

\* The other way round: what is listed, given away or used for a message was
\* usable at one moment of the reading, again if the tables change at most
\* once in between.
ServedWasUsable ==
    [][\A c \in Calls :
          HasRead(c) /\ call[c].edited <= 1 =>
             call'[c].served \subseteq call[c].ever]_vars

\* Whichever way the event came (first send, repeated call, relay, retry) and
\* whatever the repeated call asked for, process() gets the template, the
\* channel and the variables of the call that stored the request, or nothing.
HandledIsSent ==
    \A r \in Requests :
       \A event \in handled[r] :
          event = [row[r].sent EXCEPT !.variables = JsonData(@)]

\* What was checked at the door still holds behind JSON and encryption: the
\* worker gets values that fit the variables the template declared.
HandledFits ==
    \A r \in Requests :
       \A event \in handled[r] : Fits(row[r].variables, event.variables)

\* An answer to a send is true of the tables and the topic: a 4xx call stored
\* nothing, a 503 one is stored, and success names the template and channel
\* of the stored request, also to a caller that named others.
AnswerTellsOutcome ==
    \A c \in {d \in Calls : call[d].req # None /\ call[d].pc = "done"} :
       LET answer == call[c].answer
           found == row[call[c].req] IN
       /\ answer.status \in {400, 404} => found.by # c
       /\ answer.status = 503 => found.status # "ABSENT"
       /\ answer.status = 201 =>
            /\ wire[call[c].req] # {}
            /\ answer.template = found.sent.template
            /\ answer.channel = found.sent.channel

\* m is the start of part, shorter than part unless part has fewer than least
\* characters, and at most most characters of it; then stars and tail.
ShowsStart(m, part, tail, most, least) ==
    \E n \in 0..AtMost(most, Len(part)) :
       /\ m = SubSeq(part, 1, n) \o Stars \o tail
       /\ Len(part) >= least => n < Len(part)

\* m is s with stars for its digits, but not for the last four.
ShowsLastFour(m, s) ==
    LET digits == {i \in DOMAIN s : s[i] = "0"}
        shown == {i \in digits : m[i] = "0"} IN
    /\ Len(m) = Len(s)
    /\ \A i \in DOMAIN s \ shown : m[i] = IF i \in digits THEN "*" ELSE s[i]
    /\ Cardinality(shown) = AtMost(4, Cardinality(digits))
    /\ \A i \in shown, j \in digits \ shown : j < i

RevealsLittle(k, v, m) ==
    IF v.type # "string" THEN m = JsonLeaf(v)
    ELSE \/ /\ "email" \in Words[k]
            /\ \E i \in DOMAIN v.chars :
                 /\ v.chars[i] = "@"
                 /\ ShowsStart(m.chars, SubSeq(v.chars, 1, i - 1),
                               SubSeq(v.chars, i, Len(v.chars)), 2, 2)
         \/ "phone" \in Words[k] /\ ShowsLastFour(m.chars, v.chars)
         \/ "name" \in Words[k] /\ ShowsStart(m.chars, v.chars, <<>>, 2, 3)
         \/ ShowsStart(m.chars, v.chars, <<>>, (Len(v.chars) + 2) \div 3, 2)

\* The masked copy of a stored document has its keys, nested ones too, and of
\* every string value shows two characters and the domain, the last four
\* digits, two characters, or a third: never the whole of a value that is
\* longer than that.
MaskedRevealsLittle ==
    \A r \in {q \in Requests : Stored(q)} :
       LET sent == row[r].sent.variables
           masked == row[r].masked IN
       /\ DOMAIN masked = DOMAIN sent
       /\ \A k \in DOMAIN sent :
            IF sent[k].type = "object"
              THEN \A f \in DOMAIN sent[k].fields :
                     RevealsLittle(f, sent[k].fields[f], masked[k].fields[f])
              ELSE RevealsLittle(k, sent[k], masked[k])
=============================================================================
