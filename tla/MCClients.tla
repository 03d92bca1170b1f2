----------------------------- MODULE MCClients ------------------------------
(***************************************************************************)
(* Three modules that share no state, in one run: a behaviour is about one *)
(* of them, and the other two stay as they began.                          *)
(***************************************************************************)
EXTENDS RateLimiter, ClientAccess, RealtimeChat, TLC

VARIABLE part

Init ==
    /\ part \in {"rate", "access", "chat"}
    /\ RateInit
    /\ AccessInit
    /\ ChatInit
    /\ part # "chat" => member = {}

RatePart ==
    /\ part = "rate"
    /\ RateNext
    /\ UNCHANGED <<apiKey, audit, disclosed, call>>
    /\ UNCHANGED <<chatVars, member, stored, mark, reads>>

AccessPart ==
    /\ part = "access"
    /\ AccessNext
    /\ UNCHANGED <<attempt, limiter, clock>>
    /\ UNCHANGED <<chatVars, member, stored, mark, reads>>

ChatPart ==
    /\ part = "chat"
    /\ ChatNext
    /\ UNCHANGED <<attempt, limiter, clock>>
    /\ UNCHANGED <<apiKey, audit, disclosed, call>>

\* Attempts are interchangeable, and so are calls and marks: each of them gets
\* its number when it starts.
InOrder ==
    /\ \A i, j \in Attempts :
          i < j /\ attempt[i].pc = "idle" => attempt[j].pc = "idle"
    /\ \A i, j \in Calls : i < j /\ call[i].pc = "idle" => call[j].pc = "idle"
    /\ \A i, j \in Marks : i < j /\ mark[i].pc = "idle" => mark[j].pc = "idle"

\* What marks do and what sockets do meet in the stored messages only, which
\* stay: the marks may as well start when the handlers are done.
MarksLast ==
    (\E m \in Marks : mark[m].pc # "idle")
       => \A e \in Events : event[e].pc \in {"idle", "done"}

Next == (RatePart \/ AccessPart \/ ChatPart) /\ UNCHANGED part /\ InOrder' /\ MarksLast'

Spec == Init /\ [][Next]_<<part, rateVars, accessVars, roomVars>>

\* So are users, sockets and events.
MCSymmetry ==
    Permutations(Users) \cup Permutations(Sockets) \cup Permutations(Events)
=============================================================================
