---------------------------- MODULE RealtimeChat ----------------------------
(***************************************************************************)
(* One instance of realtime-chat and one of its rooms: ChatGateway with    *)
(* its sockets, ChatRoomService with its tables, and the read marks of     *)
(* POST /chat/rooms/:roomId/read.                                          *)
(*                                                                         *)
(* A socket is one connection; a client that connects again is another     *)
(* member of Sockets.  An event is one joinRoom, leaveRoom or sendMessage: *)
(* its handler is a record with a pc per await.  Handlers of one socket    *)
(* run concurrently, and beside its handshake.  The message an event       *)
(* stores is named after the event.                                        *)
(***************************************************************************)
EXTENDS Faults, FiniteSets

CONSTANTS
    Sockets, Users, None,
    Events,         \* the events sockets send in one behaviour
    Marks           \* the calls that mark a message as read

ASSUME ChatAssumption == None \notin Sockets \cup Users \cup Events

VARIABLES
    socket,         \* where each connection is
    inRoom,         \* the sockets in the room of the Socket.IO adapter
    member,         \* users whose row of tb_chat_room_participant is JOINED
    event,
    stored,         \* tb_chat_message
    emitted,        \* messages emitted to the room
    heard,          \* the messages each socket was sent
    mark,
    reads           \* tb_chat_message_read: pairs of message and user (UNIQUE)

chatVars == <<socket, inRoom, event, emitted, heard>>

roomVars == <<chatVars, member, stored, mark, reads, faults>>

EventRecord ==
    [pc: {"idle", "findRoom", "findMember", "join", "leave", "save", "emit", "done"},
     kind: {"join", "leave", "send"}, socket: Sockets \cup {None},
     user: Users \cup {None}]

MarkRecord ==
    [pc: {"idle", "findRead", "saveRead", "done"},
     msg: Events \cup {None}, user: Users \cup {None},
     response: {"none", "ok", "conflict", "error"}]

ChatTypeOK ==
    /\ socket \in [Sockets -> {"away", "handshake", "accepted", "gone"}]
    /\ inRoom \in SUBSET Sockets
    /\ member \in SUBSET Users
    /\ event \in [Events -> EventRecord]
    /\ stored \in SUBSET Events
    /\ emitted \in SUBSET Events
    /\ heard \in [Sockets -> SUBSET Events]
    /\ mark \in [Marks -> MarkRecord]
    /\ reads \in SUBSET (Events \X Users)
    /\ faults \in 0..MaxFaults

ChatInit ==
    /\ socket = [x \in Sockets |-> "away"]
    /\ inRoom = {}
    /\ member \in SUBSET Users
    /\ event = [e \in Events |->
                  [pc |-> "idle", kind |-> "join", socket |-> None, user |-> None]]
    /\ stored = {}
    /\ emitted = {}
    /\ heard = [x \in Sockets |-> {}]
    /\ mark = [m \in Marks |->
                 [pc |-> "idle", msg |-> None, user |-> None, response |-> "none"]]
    /\ reads = {}
    /\ faults = 0

-----------------------------------------------------------------------------
Connected(x) == socket[x] \in {"handshake", "accepted"}

EventAt(e, pc) == event[e].pc = pc

EventGoto(e, pc) == event' = [event EXCEPT ![e].pc = pc]

MarkAt(m, pc) == mark[m].pc = pc

AnswerMark(m, response) ==
    mark' = [mark EXCEPT ![m].pc = "done", ![m].response = response]

\* A closed socket leaves its rooms, and its later joins do nothing.
Close(x) ==
    /\ socket' = [socket EXCEPT ![x] = "gone"]
    /\ inRoom' = inRoom \ {x}
    /\ UNCHANGED <<member, event, stored, emitted, heard, mark, reads>>

Connect(x) ==
    /\ socket[x] = "away"
    /\ socket' = [socket EXCEPT ![x] = "handshake"]
    /\ UNCHANGED <<inRoom, member, event, stored, emitted, heard, mark, reads, faults>>

Accept(x) ==
    /\ socket[x] = "handshake"
    /\ socket' = [socket EXCEPT ![x] = "accepted"]
    /\ UNCHANGED <<inRoom, member, event, stored, emitted, heard, mark, reads, faults>>

\* authenticate() found no valid key: disconnect(true).
Reject(x) ==
    /\ socket[x] = "handshake"
    /\ Close(x)
    /\ UNCHANGED faults

Disconnect(x) ==
    /\ Connected(x)
    /\ Close(x)
    /\ UNCHANGED faults

\* The process ends: every socket is closed, every handler is gone.
ServerStops ==
    /\ socket' = [x \in Sockets |-> IF Connected(x) THEN "gone" ELSE socket[x]]
    /\ inRoom' = {}
    /\ event' = [e \in Events |->
                   IF EventAt(e, "idle") THEN event[e]
                                         ELSE [event[e] EXCEPT !.pc = "done"]]
    /\ mark' = [m \in Marks |->
                  IF mark[m].pc \in {"idle", "done"} THEN mark[m]
                  ELSE [mark[m] EXCEPT !.pc = "done", !.response = "error"]]
    /\ UNCHANGED <<member, stored, emitted, heard, reads>>

\* An error of authenticate() is nobody's to catch: Nest does not wait for
\* handleConnection, and Node ends on an unhandled rejection.
HandshakeFails(x) ==
    /\ socket[x] = "handshake"
    /\ Fault("db")
    /\ ServerStops

ServerCrash ==
    /\ Fault("crash")
    /\ ServerStops

-----------------------------------------------------------------------------
\* Messages of a socket are bound when it connects, not when it is accepted.
ReceiveEvent(e, kind, x, u) ==
    /\ EventAt(e, "idle")
    /\ Connected(x)
    /\ event' = [event EXCEPT
                   ![e] = [pc |-> IF kind = "leave" THEN "leave" ELSE "findRoom",
                           kind |-> kind, socket |-> x, user |-> u]]
    /\ UNCHANGED <<socket, inRoom, member, stored, emitted, heard, mark, reads, faults>>

\* The room exists, or the handler ends with an exception (as it does at once
\* when the content is blank).
FindRoom(e) ==
    /\ EventAt(e, "findRoom")
    /\ EventGoto(e, "findMember") \/ EventGoto(e, "done")
    /\ UNCHANGED <<socket, inRoom, member, stored, emitted, heard, mark, reads, faults>>

\* Mutant: the handler goes on with the event's own name.
AfterMember_Kind(e) == event[e].kind

AfterMember(e) == IF event[e].kind = "join" THEN "join" ELSE "save"

\* Mutant: whoever is in the database is a participant, LEFT or BLOCKED too.
FindMember_AnyStatus(e) ==
    /\ EventAt(e, "findMember")
    /\ EventGoto(e, AfterMember(e))
    /\ UNCHANGED <<socket, inRoom, member, stored, emitted, heard, mark, reads, faults>>

FindMember(e) ==
    /\ EventAt(e, "findMember")
    /\ EventGoto(e, IF event[e].user \in member THEN AfterMember(e) ELSE "done")
    /\ UNCHANGED <<socket, inRoom, member, stored, emitted, heard, mark, reads, faults>>

\* socket.join(), which the gateway calls unconditionally: Socket.IO ignores it
\* once the socket is closed.
SocketJoin(x) == inRoom' = inRoom \cup {y \in {x} : Connected(y)}

Join(e) ==
    /\ EventAt(e, "join")
    /\ SocketJoin(event[e].socket)
    /\ EventGoto(e, "done")
    /\ UNCHANGED <<socket, member, stored, emitted, heard, mark, reads, faults>>

Leave(e) ==
    /\ EventAt(e, "leave")
    /\ inRoom' = inRoom \ {event[e].socket}
    /\ EventGoto(e, "done")
    /\ UNCHANGED <<socket, member, stored, emitted, heard, mark, reads, faults>>

Save(e) ==
    /\ EventAt(e, "save")
    /\ stored' = stored \cup {e}
    /\ EventGoto(e, "emit")
    /\ UNCHANGED <<socket, inRoom, member, emitted, heard, mark, reads, faults>>

\* Mutant: a failing insert does not keep the message from the room.
SaveFails_EmitsAnyway(e) ==
    /\ EventAt(e, "save")
    /\ Fault("db")
    /\ stored' \in AfterFailedSave(stored, stored \cup {e})
    /\ EventGoto(e, "emit")
    /\ UNCHANGED <<socket, inRoom, member, emitted, heard, mark, reads>>

\* Any query of a handler fails: the sender gets an exception, nobody else
\* anything, even if the message was stored.
SaveFails(e) ==
    /\ EventAt(e, "save")
    /\ Fault("db")
    /\ stored' \in AfterFailedSave(stored, stored \cup {e})
    /\ EventGoto(e, "done")
    /\ UNCHANGED <<socket, inRoom, member, emitted, heard, mark, reads>>

FindFails(e) ==
    /\ event[e].pc \in {"findRoom", "findMember"}
    /\ Fault("db")
    /\ EventGoto(e, "done")
    /\ UNCHANGED <<socket, inRoom, member, stored, emitted, heard, mark, reads>>

\* Mutant: sent through the sender's socket, which may be closed by now.
Emit_OwnSocket(e) ==
    /\ EventAt(e, "emit")
    /\ emitted' = emitted \cup {d \in {e} : Connected(event[d].socket)}
    /\ heard' = [x \in Sockets |->
                   IF x \in inRoom THEN heard[x] \cup {e} ELSE heard[x]]
    /\ EventGoto(e, "done")
    /\ UNCHANGED <<socket, inRoom, member, stored, mark, reads, faults>>

\* server.to(room).emit: to whoever is in the room now, the sender's socket
\* included if it joined.
Emit(e) ==
    /\ EventAt(e, "emit")
    /\ emitted' = emitted \cup {e}
    /\ heard' = [x \in Sockets |->
                   IF x \in inRoom THEN heard[x] \cup {e} ELSE heard[x]]
    /\ EventGoto(e, "done")
    /\ UNCHANGED <<socket, inRoom, member, stored, mark, reads, faults>>

-----------------------------------------------------------------------------
\* A client knows the ids of stored messages only.
ReceiveMark(m, msg, u) ==
    /\ MarkAt(m, "idle")
    /\ msg \in stored
    /\ mark' = [mark EXCEPT ![m].pc = "findRead", ![m].msg = msg, ![m].user = u]
    /\ UNCHANGED <<chatVars, member, stored, reads, faults>>

\* Mutant: the lookup leaves out the user.
FindRead_AnyUser(m) ==
    /\ MarkAt(m, "findRead")
    /\ \/ /\ \E u \in Users : <<mark[m].msg, u>> \in reads
          /\ AnswerMark(m, "ok")
       \/ /\ \A u \in Users : <<mark[m].msg, u>> \notin reads
          /\ mark' = [mark EXCEPT ![m].pc = "saveRead"]
    /\ UNCHANGED <<chatVars, member, stored, reads, faults>>

FindRead(m) ==
    /\ MarkAt(m, "findRead")
    /\ \/ /\ <<mark[m].msg, mark[m].user>> \in reads
          /\ AnswerMark(m, "ok")
       \/ /\ <<mark[m].msg, mark[m].user>> \notin reads
          /\ mark' = [mark EXCEPT ![m].pc = "saveRead"]
    /\ UNCHANGED <<chatVars, member, stored, reads, faults>>

SaveRead(m) ==
    /\ MarkAt(m, "saveRead")
    /\ <<mark[m].msg, mark[m].user>> \notin reads
    /\ reads' = reads \cup {<<mark[m].msg, mark[m].user>>}
    /\ AnswerMark(m, "ok")
    /\ UNCHANGED <<chatVars, member, stored, faults>>

\* The same mark was stored since the lookup: UNIQUE, the call ends in a 500.
SaveReadConflict(m) ==
    /\ MarkAt(m, "saveRead")
    /\ <<mark[m].msg, mark[m].user>> \in reads
    /\ AnswerMark(m, "conflict")
    /\ UNCHANGED <<chatVars, member, stored, reads, faults>>

MarkFails(m) ==
    /\ mark[m].pc \in {"findRead", "saveRead"}
    /\ Fault("db")
    /\ \/ UNCHANGED reads
       \/ /\ MarkAt(m, "saveRead")
          /\ reads' \in AfterFailedSave(
                          reads, reads \cup {<<mark[m].msg, mark[m].user>>})
    /\ AnswerMark(m, "error")
    /\ UNCHANGED <<chatVars, member, stored>>

\* Another application lets a user in, or takes him out.
ChangeMembership(u) ==
    /\ \/ u \in member /\ member' = member \ {u}
       \/ u \notin member /\ member' = member \cup {u}
    /\ UNCHANGED <<chatVars, stored, mark, reads, faults>>

-----------------------------------------------------------------------------
HandshakeStep(x) == Accept(x) \/ Reject(x) \/ HandshakeFails(x)

EventStep(e) ==
    \/ FindRoom(e) \/ FindMember(e) \/ FindFails(e)
    \/ Join(e) \/ Leave(e)
    \/ Save(e) \/ SaveFails(e) \/ Emit(e)

MarkStep(m) == FindRead(m) \/ SaveRead(m) \/ SaveReadConflict(m) \/ MarkFails(m)

ChatNext ==
    \/ \E x \in Sockets : Connect(x) \/ HandshakeStep(x) \/ Disconnect(x)
    \/ \E e \in Events :
          \/ \E kind \in {"join", "leave", "send"}, x \in Sockets, u \in Users :
                ReceiveEvent(e, kind, x, u)
          \/ EventStep(e)
    \/ \E m \in Marks :
          \/ \E msg \in Events, u \in Users : ReceiveMark(m, msg, u)
          \/ MarkStep(m)
    \/ \E u \in Users : ChangeMembership(u)
    \/ ServerCrash

ChatSpec == ChatInit /\ [][ChatNext]_roomVars

-----------------------------------------------------------------------------
\* What a socket was sent is in the table: nobody hears a message whose insert
\* failed.
HeardIsStored == \A x \in Sockets : heard[x] \subseteq stored

\* A handler that stored a message has told the room when it ends, whatever
\* happened to its socket or to the sender's membership; only a fault excuses it.
StoredIsEmitted ==
    \A e \in Events :
       e \in stored /\ EventAt(e, "done") => e \in emitted \/ faults > 0

\* A user who is no participant, and none of whose events is past the check,
\* stores nothing and joins nothing until he is let in again.
PastCheck(e) == event[e].pc \in {"join", "save"}

Out(u) ==
    /\ u \notin member
    /\ \A e \in Events : event[e].user = u => ~PastCheck(e)

OutsidersAreSilent ==
    [][\A u \in Users :
          Out(u) /\ u \notin member' =>
             /\ Out(u)'
             /\ \A e \in stored' \ stored : event[e].user # u]_roomVars

\* Of two calls racing to mark one message for one user the loser gets an
\* error, but both, like every call that is answered, find the mark stored.
AnsweredIsMarked ==
    \A m \in Marks :
       mark[m].response \in {"ok", "conflict"} =>
          <<mark[m].msg, mark[m].user>> \in reads
=============================================================================
