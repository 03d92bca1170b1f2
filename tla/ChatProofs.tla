----------------------------- MODULE ChatProofs -----------------------------
(***************************************************************************)
(* What holds of RealtimeChat for all sockets, users, events, calls and    *)
(* faults.                                                                 *)
(***************************************************************************)
EXTENDS RealtimeChat, TLAPS

\* A message is stored by its own handler, between its lookup and its emit.
EventOf(e) ==
    /\ event[e].pc # "idle" => event[e].socket \in Sockets /\ event[e].user \in Users
    /\ event[e].pc = "emit" => e \in stored
    /\ e \in stored => event[e].pc \in {"emit", "done"}
    /\ e \in stored /\ event[e].pc = "done" => e \in emitted \/ faults > 0

\* A call marks a stored message for a user, and is answered when that is done.
MarkOf(m) ==
    /\ mark[m].pc # "idle" => mark[m].msg \in stored /\ mark[m].user \in Users
    /\ mark[m].response \in {"ok", "conflict"} =>
          mark[m].pc = "done" /\ <<mark[m].msg, mark[m].user>> \in reads

ChatInv ==
    /\ ChatTypeOK
    /\ \A e \in Events : EventOf(e)
    /\ \A m \in Marks : MarkOf(m)
    /\ HeardIsStored

LEMMA ChatInvInit == ChatInit => ChatInv
<1> SUFFICES ASSUME ChatInit PROVE ChatInv
  OBVIOUS
<1>1. ChatTypeOK
  <2>1. event \in [Events -> EventRecord]
    BY DEF ChatInit, EventRecord
  <2>2. mark \in [Marks -> MarkRecord]
    BY DEF ChatInit, MarkRecord
  <2>3. /\ socket \in [Sockets -> {"away", "handshake", "accepted", "gone"}]
        /\ heard \in [Sockets -> SUBSET Events]
    BY DEF ChatInit
  <2> QED BY <2>1, <2>2, <2>3, ChatAssumption, FaultAssumption DEF ChatInit, ChatTypeOK
<1>2. \A e \in Events : EventOf(e)
  BY DEF ChatInit, EventOf
<1>3. \A m \in Marks : MarkOf(m)
  BY DEF ChatInit, MarkOf
<1>4. HeardIsStored
  BY DEF ChatInit, HeardIsStored
<1> QED BY <1>1, <1>2, <1>3, <1>4 DEF ChatInv

-----------------------------------------------------------------------------
\* Connections come and go.
LEMMA SocketSteps ==
    ASSUME ChatInv, NEW x \in Sockets,
           Connect(x) \/ Accept(x) \/ Reject(x) \/ Disconnect(x)
    PROVE  ChatInv'
<1>1. /\ UNCHANGED <<member, event, stored, emitted, heard, mark, reads, faults>>
      /\ socket' \in [Sockets -> {"away", "handshake", "accepted", "gone"}]
      /\ inRoom' \subseteq inRoom
  BY DEF Connect, Accept, Reject, Disconnect, Close, ChatInv, ChatTypeOK
<1> QED BY <1>1 DEF ChatInv, ChatTypeOK, EventOf, MarkOf, HeardIsStored

\* When the process ends only handlers and connections are lost.
LEMMA ServerStopsStep ==
    ASSUME ChatInv, NEW kind, Fault(kind), ServerStops
    PROVE  ChatInv'
<1>0. UNCHANGED <<member, stored, emitted, heard, reads>>
  BY DEF ServerStops
<1>1. faults' \in 0..MaxFaults /\ faults' > 0
  BY FaultAssumption DEF Fault, ChatInv, ChatTypeOK
<1>2. socket' \in [Sockets -> {"away", "handshake", "accepted", "gone"}]
  BY DEF ServerStops, ChatInv, ChatTypeOK
<1>3. ASSUME NEW e \in Events
      PROVE  /\ event'[e] \in EventRecord
             /\ event'[e] = event[e] \/ event'[e] = [event[e] EXCEPT !.pc = "done"]
             /\ EventOf(e)'
  <2>1. event[e] \in EventRecord /\ EventOf(e)
    BY DEF ChatInv, ChatTypeOK
  <2>2. CASE event'[e] = event[e] /\ event[e].pc = "idle"
    BY <1>1, <2>1, <2>2 DEF ServerStops, EventOf
  <2>3. CASE event'[e] = [event[e] EXCEPT !.pc = "done"] /\ event[e].pc # "idle"
    <3>1. /\ event'[e].pc = "done" /\ event'[e].socket = event[e].socket
          /\ event'[e].user = event[e].user /\ event'[e] \in EventRecord
      BY <2>1, <2>3 DEF EventRecord
    <3> QED BY <1>1, <2>1, <2>3, <3>1 DEF ServerStops, EventOf
  <2> QED BY <2>2, <2>3 DEF ServerStops, EventAt
<1>4. event' \in [Events -> EventRecord]
  BY <1>3 DEF ServerStops
<1>5. ASSUME NEW m \in Marks
      PROVE  mark'[m] \in MarkRecord /\ MarkOf(m)'
  <2>1. mark[m] \in MarkRecord /\ MarkOf(m)
    BY DEF ChatInv, ChatTypeOK
  <2>2. CASE mark'[m] = mark[m]
    BY <1>0, <2>1, <2>2 DEF MarkOf
  <2>3. CASE /\ mark'[m] = [mark[m] EXCEPT !.pc = "done", !.response = "error"]
             /\ mark[m].pc # "idle"
    <3>1. /\ mark'[m].pc = "done" /\ mark'[m].response = "error"
          /\ mark'[m].msg = mark[m].msg /\ mark'[m].user = mark[m].user
          /\ mark'[m] \in MarkRecord
      BY <2>1, <2>3 DEF MarkRecord
    <3> QED BY <1>0, <2>1, <2>3, <3>1 DEF MarkOf
  <2> QED BY <2>2, <2>3 DEF ServerStops, MarkAt
<1>6. mark' \in [Marks -> MarkRecord]
  BY <1>5 DEF ServerStops
<1>7. HeardIsStored'
  BY DEF ServerStops, ChatInv, HeardIsStored
<1> QED
  BY <1>1, <1>2, <1>3, <1>4, <1>5, <1>6, <1>7 DEF ServerStops, ChatInv, ChatTypeOK

-----------------------------------------------------------------------------
(* The handlers of a socket's events.                                       *)

\* What a handler that goes to pc leaves alone, and what it has to show.
LEMMA HandlerStep ==
    ASSUME ChatInv, NEW e \in Events,
           NEW pc \in {"findMember", "join", "save", "emit", "done"}, EventGoto(e, pc),
           event[e].pc \notin {"idle", "done"},
           UNCHANGED <<socket, member, mark, reads>>,
           faults' \in 0..MaxFaults, faults' >= faults,
           inRoom' \subseteq Sockets,
           stored \subseteq stored', stored' \subseteq stored \cup {e},
           emitted \subseteq emitted', emitted' \subseteq emitted \cup {e},
           heard' \in [Sockets -> SUBSET Events], HeardIsStored',
           pc = "emit" => e \in stored',
           e \in stored' => pc \in {"emit", "done"},
           e \in stored' /\ pc = "done" => e \in emitted' \/ faults' > 0
    PROVE  ChatInv'
<1>1. event[e] \in EventRecord /\ EventOf(e) /\ event \in [Events -> EventRecord]
  BY DEF ChatInv, ChatTypeOK
<1>2. /\ event' \in [Events -> EventRecord]
      /\ event'[e].pc = pc /\ event'[e].socket = event[e].socket
      /\ event'[e].user = event[e].user
  BY <1>1 DEF EventGoto, EventRecord
<1>3. EventOf(e)'
  BY <1>1, <1>2 DEF EventOf
<1>4. ASSUME NEW d \in Events, d # e PROVE EventOf(d)'
  <2>1. event'[d] = event[d] /\ EventOf(d)
    BY <1>1, <1>4 DEF EventGoto, ChatInv
  <2>2. d \in stored' <=> d \in stored
    BY <1>4
  <2>3. faults > 0 => faults' > 0
    BY DEF ChatInv, ChatTypeOK
  <2> QED BY <2>1, <2>2, <2>3 DEF EventOf
<1>5. \A m \in Marks : MarkOf(m)'
  BY DEF ChatInv, MarkOf
<1>6. stored' \in SUBSET Events /\ emitted' \in SUBSET Events
  BY DEF ChatInv, ChatTypeOK
<1>7. ChatTypeOK'
  BY <1>2, <1>6 DEF ChatInv, ChatTypeOK
<1> QED BY <1>3, <1>4, <1>5, <1>7 DEF ChatInv

\* Each step of a handler is of that kind.
LEMMA EventSteps ==
    ASSUME ChatInv, NEW e \in Events, EventStep(e)
    PROVE  ChatInv'
<1>1. /\ event[e] \in EventRecord /\ EventOf(e) /\ faults \in 0..MaxFaults
      /\ inRoom \subseteq Sockets /\ heard \in [Sockets -> SUBSET Events]
      /\ HeardIsStored
  BY DEF ChatInv, ChatTypeOK
<1>2. \A kind : Fault(kind) => faults' \in 0..MaxFaults /\ faults' > faults /\ faults' > 0
  BY <1>1, FaultAssumption DEF Fault
<1>3. UNCHANGED inRoom => inRoom' \subseteq Sockets
  BY <1>1
<1>4. UNCHANGED heard /\ stored \subseteq stored' =>
        heard' \in [Sockets -> SUBSET Events] /\ HeardIsStored'
  BY <1>1 DEF HeardIsStored
<1>5. CASE FindRoom(e)
  <2>1. \E pc \in {"findMember", "done"} : EventGoto(e, pc)
    BY <1>5 DEF FindRoom
  <2> QED BY <1>1, <1>3, <1>4, <1>5, <2>1, HandlerStep DEF FindRoom, EventAt, EventOf
<1>6. CASE FindMember(e)
  <2>1. \E pc \in {"join", "save", "done"} : EventGoto(e, pc)
    BY <1>6 DEF FindMember, AfterMember
  <2> QED BY <1>1, <1>3, <1>4, <1>6, <2>1, HandlerStep DEF FindMember, EventAt, EventOf
<1>7. CASE FindFails(e)
  BY <1>1, <1>2, <1>3, <1>4, <1>7, HandlerStep DEF FindFails, EventOf
<1>8. CASE Join(e)
  <2>1. event[e].socket \in Sockets
    BY <1>1, <1>8 DEF Join, EventAt, EventOf
  <2>2. inRoom' \subseteq Sockets
    BY <1>1, <1>8, <2>1 DEF Join, SocketJoin
  <2> QED BY <1>1, <1>4, <1>8, <2>2, HandlerStep DEF Join, SocketJoin, EventAt, EventOf
<1>9. CASE Leave(e)
  <2>1. inRoom' \subseteq Sockets
    BY <1>1, <1>9 DEF Leave
  <2> QED BY <1>1, <1>4, <1>9, <2>1, HandlerStep DEF Leave, EventAt, EventOf
<1>10. CASE Save(e)
  BY <1>1, <1>3, <1>4, <1>10, HandlerStep DEF Save, EventAt, EventOf
<1>11. CASE SaveFails(e)
  <2>1. stored' = stored \/ stored' = stored \cup {e}
    BY <1>11 DEF SaveFails, AfterFailedSave
  <2> QED BY <1>1, <1>2, <1>3, <1>4, <1>11, <2>1, HandlerStep
          DEF SaveFails, EventAt, EventOf
<1>12. CASE Emit(e)
  <2>1. e \in stored
    BY <1>1, <1>12 DEF Emit, EventAt, EventOf
  <2>2. heard' \in [Sockets -> SUBSET Events]
    BY <1>1, <1>12 DEF Emit
  <2>3. HeardIsStored'
    BY <1>1, <1>12, <2>1 DEF Emit, HeardIsStored
  <2> QED BY <1>1, <1>3, <1>12, <2>1, <2>2, <2>3, HandlerStep DEF Emit, EventAt, EventOf
<1> QED
  BY <1>5, <1>6, <1>7, <1>8, <1>9, <1>10, <1>11, <1>12 DEF EventStep

LEMMA ReceiveStep ==
    ASSUME ChatInv, NEW e \in Events, NEW kind \in {"join", "leave", "send"},
           NEW x \in Sockets, NEW u \in Users, ReceiveEvent(e, kind, x, u)
    PROVE  ChatInv'
<1> DEFINE rec == [pc |-> IF kind = "leave" THEN "leave" ELSE "findRoom",
                   kind |-> kind, socket |-> x, user |-> u]
<1>1. event \in [Events -> EventRecord] /\ EventOf(e) /\ event[e].pc = "idle"
  BY DEF ChatInv, ChatTypeOK, ReceiveEvent, EventAt
<1>2. rec \in EventRecord /\ rec.pc \in {"leave", "findRoom"}
      /\ rec.socket \in Sockets /\ rec.user \in Users
  BY DEF EventRecord
<1>3. event' = [event EXCEPT ![e] = rec]
  BY DEF ReceiveEvent
<1> HIDE DEF rec
<1>4. ASSUME NEW d \in Events PROVE EventOf(d)'
  <2>1. CASE d = e
    BY <1>1, <1>2, <1>3, <2>1 DEF ReceiveEvent, EventOf
  <2>2. CASE d # e
    BY <1>1, <1>3, <2>2 DEF ReceiveEvent, EventOf, ChatInv
  <2> QED BY <2>1, <2>2
<1>5. event' \in [Events -> EventRecord]
  BY <1>1, <1>2, <1>3
<1> QED
  BY <1>4, <1>5 DEF ReceiveEvent, ChatInv, ChatTypeOK, MarkOf, HeardIsStored

-----------------------------------------------------------------------------
(* The read marks.                                                          *)

LEMMA MarkCallStep ==
    ASSUME ChatInv, NEW m \in Marks, mark' = [mark EXCEPT ![m] = mark'[m]],
           mark'[m] \in MarkRecord, MarkOf(m)',
           UNCHANGED <<chatVars, member, stored>>, faults' \in 0..MaxFaults,
           faults' >= faults, reads \subseteq reads', reads' \subseteq Events \X Users
    PROVE  ChatInv'
<1>1. mark' \in [Marks -> MarkRecord]
  BY DEF ChatInv, ChatTypeOK
<1>2. ASSUME NEW n \in Marks, n # m PROVE MarkOf(n)'
  <2>1. mark'[n] = mark[n] /\ MarkOf(n)
    BY <1>2 DEF ChatInv, ChatTypeOK
  <2> QED BY <2>1 DEF MarkOf
<1>3. ASSUME NEW e \in Events PROVE EventOf(e)'
  <2>1. EventOf(e) /\ faults \in 0..MaxFaults
    BY DEF ChatInv, ChatTypeOK
  <2> QED BY <2>1 DEF EventOf, chatVars
<1>4. HeardIsStored'
  BY DEF ChatInv, HeardIsStored, chatVars
<1> QED BY <1>1, <1>2, <1>3, <1>4 DEF ChatInv, ChatTypeOK, chatVars

LEMMA MarkSteps ==
    ASSUME ChatInv, NEW m \in Marks,
           \/ MarkStep(m)
           \/ \E msg \in Events, u \in Users : ReceiveMark(m, msg, u)
    PROVE  ChatInv'
<1>1. /\ mark \in [Marks -> MarkRecord] /\ mark[m] \in MarkRecord /\ MarkOf(m)
      /\ faults \in 0..MaxFaults /\ reads \subseteq Events \X Users
      /\ stored \subseteq Events
  BY DEF ChatInv, ChatTypeOK
<1>2. ASSUME NEW response \in {"ok", "conflict", "error"}, AnswerMark(m, response)
      PROVE  /\ mark' = [mark EXCEPT ![m] = mark'[m]]
             /\ mark'[m] \in MarkRecord
             /\ mark'[m].pc = "done" /\ mark'[m].response = response
             /\ mark'[m].msg = mark[m].msg /\ mark'[m].user = mark[m].user
  BY <1>1, <1>2 DEF AnswerMark, MarkRecord
<1>3. CASE \E msg \in Events, u \in Users : ReceiveMark(m, msg, u)
  <2>1. PICK msg \in Events, u \in Users : ReceiveMark(m, msg, u)
    BY <1>3
  <2>2. /\ mark' = [mark EXCEPT ![m] = mark'[m]]
        /\ mark'[m] \in MarkRecord
        /\ mark'[m].pc = "findRead" /\ mark'[m].msg = msg /\ mark'[m].user = u
        /\ mark'[m].response = mark[m].response /\ mark[m].pc = "idle"
    BY <1>1, <2>1 DEF ReceiveMark, MarkAt, MarkRecord
  <2>3. msg \in stored /\ UNCHANGED <<chatVars, member, stored, reads, faults>>
    BY <2>1 DEF ReceiveMark
  <2>4. MarkOf(m)'
    BY <1>1, <2>2, <2>3 DEF MarkOf
  <2> QED BY <1>1, <2>2, <2>3, <2>4, MarkCallStep
<1>4. CASE FindRead(m)
  <2>1. CASE AnswerMark(m, "ok") /\ <<mark[m].msg, mark[m].user>> \in reads
    <3>1. MarkOf(m)'
      BY <1>1, <1>2, <1>4, <2>1 DEF MarkOf, FindRead, MarkAt
    <3> QED BY <1>1, <1>2, <1>4, <2>1, <3>1, MarkCallStep DEF FindRead
  <2>2. CASE mark' = [mark EXCEPT ![m].pc = "saveRead"]
    <3>1. /\ mark' = [mark EXCEPT ![m] = mark'[m]]
          /\ mark'[m] \in MarkRecord /\ mark'[m].pc = "saveRead"
          /\ mark'[m].msg = mark[m].msg /\ mark'[m].user = mark[m].user
          /\ mark'[m].response = mark[m].response
      BY <1>1, <2>2 DEF MarkRecord
    <3>2. MarkOf(m)'
      BY <1>1, <1>4, <3>1 DEF MarkOf, FindRead, MarkAt
    <3> QED BY <1>1, <1>4, <3>1, <3>2, MarkCallStep DEF FindRead
  <2> QED BY <1>4, <2>1, <2>2 DEF FindRead
<1>5. CASE SaveRead(m) \/ SaveReadConflict(m) \/ MarkFails(m)
  <2>1. mark[m].msg \in stored /\ mark[m].user \in Users
    BY <1>1, <1>5 DEF SaveRead, SaveReadConflict, MarkFails, MarkAt, MarkOf
  <2>2. reads' = reads \/ reads' = reads \cup {<<mark[m].msg, mark[m].user>>}
    BY <1>5 DEF SaveRead, SaveReadConflict, MarkFails, AfterFailedSave
  <2>3. reads \subseteq reads' /\ reads' \subseteq Events \X Users
    BY <1>1, <2>1, <2>2
  <2>4. faults' \in 0..MaxFaults /\ faults' >= faults
    BY <1>1, <1>5, FaultAssumption DEF SaveRead, SaveReadConflict, MarkFails, Fault
  <2>5. CASE MarkFails(m)
    <3>1. MarkOf(m)'
      BY <1>1, <1>2, <2>1, <2>5 DEF MarkFails, MarkOf
    <3> QED BY <1>2, <2>3, <2>4, <2>5, <3>1, MarkCallStep DEF MarkFails
  <2>6. CASE SaveRead(m) \/ SaveReadConflict(m)
    <3>1. \E response \in {"ok", "conflict"} : AnswerMark(m, response)
      BY <2>6 DEF SaveRead, SaveReadConflict
    <3>2. /\ <<mark[m].msg, mark[m].user>> \in reads'
          /\ UNCHANGED <<chatVars, member, stored>>
      BY <2>6 DEF SaveRead, SaveReadConflict
    <3>3. MarkOf(m)'
      BY <1>2, <2>1, <3>1, <3>2 DEF MarkOf
    <3> QED BY <1>2, <2>3, <2>4, <3>1, <3>2, <3>3, MarkCallStep
  <2> QED BY <1>5, <2>5, <2>6
<1> QED BY <1>3, <1>4, <1>5 DEF MarkStep

-----------------------------------------------------------------------------
LEMMA ChatInvStep == ChatInv /\ [ChatNext]_roomVars => ChatInv'
<1> SUFFICES ASSUME ChatInv, [ChatNext]_roomVars PROVE ChatInv'
  OBVIOUS
<1>1. ASSUME NEW x \in Sockets, Connect(x) \/ HandshakeStep(x) \/ Disconnect(x)
      PROVE  ChatInv'
  BY <1>1, SocketSteps, ServerStopsStep DEF HandshakeStep, HandshakeFails
<1>2. ASSUME NEW e \in Events,
             \/ \E kind \in {"join", "leave", "send"}, x \in Sockets, u \in Users :
                   ReceiveEvent(e, kind, x, u)
             \/ EventStep(e)
      PROVE  ChatInv'
  BY <1>2, ReceiveStep, EventSteps
<1>3. ASSUME NEW m \in Marks,
             \/ \E msg \in Events, u \in Users : ReceiveMark(m, msg, u)
             \/ MarkStep(m)
      PROVE  ChatInv'
  BY <1>3, MarkSteps
<1>4. ASSUME NEW u \in Users, ChangeMembership(u) PROVE ChatInv'
  BY <1>4 DEF ChangeMembership, chatVars, ChatInv, ChatTypeOK, EventOf, MarkOf,
     HeardIsStored
<1>5. CASE ServerCrash
  BY <1>5, ServerStopsStep DEF ServerCrash
<1>6. CASE UNCHANGED roomVars
  BY <1>6 DEF roomVars, chatVars, ChatInv, ChatTypeOK, EventOf, MarkOf, HeardIsStored
<1> QED BY <1>1, <1>2, <1>3, <1>4, <1>5, <1>6 DEF ChatNext

LEMMA ChatInvariance == ChatSpec => []ChatInv
BY ChatInvInit, ChatInvStep, PTL DEF ChatSpec

\* Every connection, handler, call and table keeps its type.
THEOREM ChatTypeCorrect == ChatSpec => []ChatTypeOK
<1>1. ChatInv => ChatTypeOK
  BY DEF ChatInv
<1> QED BY <1>1, ChatInvariance, PTL

\* Whatever fails, nobody in the room is sent a message that is not stored.
THEOREM BroadcastIsStored == ChatSpec => []HeardIsStored
<1>1. ChatInv => HeardIsStored
  BY DEF ChatInv
<1> QED BY <1>1, ChatInvariance, PTL

\* A handler that ends without a fault told the room what it stored, even if its
\* own socket is gone.
THEOREM NoSilentStore == ChatSpec => []StoredIsEmitted
<1>1. ChatInv => StoredIsEmitted
  BY DEF ChatInv, EventOf, StoredIsEmitted, EventAt
<1> QED BY <1>1, ChatInvariance, PTL

\* Both calls of a race to mark one message find it marked when they are answered.
THEOREM AnswerMeansMarked == ChatSpec => []AnsweredIsMarked
<1>1. ChatInv => AnsweredIsMarked
  BY DEF ChatInv, MarkOf, AnsweredIsMarked
<1> QED BY <1>1, ChatInvariance, PTL

-----------------------------------------------------------------------------
(* Outsiders.                                                               *)

\* A step stores an event's message only if the event is past the check, and
\* brings an event past the check only for a participant.
LEMMA CheckedStep ==
    ASSUME ChatTypeOK, NEW e \in Events, EventStep(e)
    PROVE  /\ event'[e].user = event[e].user
           /\ PastCheck(e)' => PastCheck(e) \/ event[e].user \in member
           /\ stored' \subseteq stored \cup {d \in {e} : PastCheck(d)}
           /\ \A d \in Events : d # e => event'[d] = event[d]
<1>1. event \in [Events -> EventRecord] /\ event[e] \in EventRecord
  BY DEF ChatTypeOK
<1>2. ASSUME NEW pc, EventGoto(e, pc)
      PROVE  /\ event'[e].user = event[e].user /\ event'[e].pc = pc
             /\ \A d \in Events : d # e => event'[d] = event[d]
  BY <1>1, <1>2 DEF EventGoto, EventRecord
<1>3. CASE FindRoom(e)
  <2>1. \E pc \in {"findMember", "done"} : EventGoto(e, pc)
    BY <1>3 DEF FindRoom
  <2> QED BY <1>2, <1>3, <2>1 DEF FindRoom, PastCheck
<1>4. CASE FindMember(e)
  <2>1. \/ EventGoto(e, "done")
        \/ event[e].user \in member /\ \E pc : EventGoto(e, pc)
    BY <1>4 DEF FindMember
  <2> QED BY <1>2, <1>4, <2>1 DEF FindMember, PastCheck
<1>5. CASE FindFails(e) \/ Join(e) \/ Leave(e) \/ Emit(e)
  <2>1. EventGoto(e, "done") /\ stored' = stored
    BY <1>5 DEF FindFails, Join, Leave, Emit
  <2> QED BY <1>2, <2>1 DEF PastCheck
<1>6. CASE Save(e) \/ SaveFails(e)
  <2>1. /\ PastCheck(e)
        /\ stored' = stored \/ stored' = stored \cup {e}
        /\ \E pc : EventGoto(e, pc)
    BY <1>6 DEF Save, SaveFails, AfterFailedSave, EventAt, PastCheck
  <2> QED BY <1>2, <2>1
<1> QED BY <1>3, <1>4, <1>5, <1>6 DEF EventStep

LEMMA SilentStep ==
    ASSUME ChatInv, [ChatNext]_roomVars, NEW u \in Users, Out(u), u \notin member'
    PROVE  Out(u)' /\ \A e \in stored' \ stored : event[e].user # u
<1>1. event \in [Events -> EventRecord]
  BY DEF ChatInv, ChatTypeOK
<1>2. ASSUME NEW e \in Events, EventStep(e)
      PROVE  Out(u)' /\ \A d \in stored' \ stored : event[d].user # u
  <2>1. ChatTypeOK
    BY DEF ChatInv
  <2>2. ASSUME NEW d \in Events, event'[d].user = u PROVE ~PastCheck(d)'
    BY <1>2, <2>1, <2>2, CheckedStep DEF Out, PastCheck
  <2>3. \A d \in stored' \ stored : event[d].user # u
    BY <1>2, <2>1, CheckedStep DEF Out
  <2> QED BY <2>2, <2>3 DEF Out
<1>3. ASSUME NEW e \in Events, NEW kind \in {"join", "leave", "send"},
             NEW x \in Sockets, NEW v \in Users, ReceiveEvent(e, kind, x, v)
      PROVE  Out(u)' /\ \A d \in stored' \ stored : event[d].user # u
  <2>1. \A d \in Events : event'[d] = event[d] \/ event'[d].pc \in {"leave", "findRoom"}
    BY <1>1, <1>3 DEF ReceiveEvent
  <2> QED BY <1>3, <2>1 DEF ReceiveEvent, Out, PastCheck
<1>4. CASE ServerStops
  <2>1. \A d \in Events : event'[d] = event[d] \/ event'[d].pc = "done"
    BY <1>1, <1>4 DEF ServerStops, EventRecord
  <2> QED BY <1>4, <2>1 DEF ServerStops, Out, PastCheck
<1>5. CASE UNCHANGED <<event, stored>>
  BY <1>5 DEF Out, PastCheck
<1> QED
  BY <1>2, <1>3, <1>4, <1>5 DEF ChatNext, roomVars, chatVars, HandshakeStep, HandshakeFails,
     Connect, Accept, Reject, Disconnect, Close, ServerCrash, MarkStep, ReceiveMark,
     FindRead, SaveRead, SaveReadConflict, MarkFails, ChangeMembership

\* A user who was taken out stores and joins nothing more once his events that
\* had passed the check before are through.
THEOREM OutsidersStaySilent == ChatSpec => OutsidersAreSilent
<1>1. ChatInv /\ [ChatNext]_roomVars =>
        [\A u \in Users :
            Out(u) /\ u \notin member' =>
               /\ Out(u)'
               /\ \A e \in stored' \ stored : event[e].user # u]_roomVars
  BY SilentStep
<1> QED BY <1>1, ChatInvariance, PTL DEF ChatSpec, OutsidersAreSilent
=============================================================================
