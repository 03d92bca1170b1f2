-------------------------- MODULE MessageLifecycle ---------------------------
(***************************************************************************)
(* What the messaging server promises the client of a request, whatever    *)
(* tables, topics and processes stand behind it: a request is stored, then *)
(* its event is in Kafka, then it is delivered, one stage at a time and    *)
(* never back; and an answer tells the client no more than the stage that  *)
(* was reached.  PipelineProperties shows that the pipeline implements it. *)
(***************************************************************************)
CONSTANT Requests

VARIABLES
    stage,      \* how far a request has come
    told        \* the answers its clients were given so far

vars == <<stage, told>>

Stages == {"absent", "stored", "published", "delivered"}

Answers == {"ok", "unavailable"}

TypeOK ==
    /\ stage \in [Requests -> Stages]
    /\ told \in [Requests -> SUBSET Answers]

Init ==
    /\ stage = [r \in Requests |-> "absent"]
    /\ told = [r \in Requests |-> {}]

-----------------------------------------------------------------------------
Moves(r, from, to) ==
    /\ stage[r] = from
    /\ stage' = [stage EXCEPT ![r] = to]

Store(r) == Moves(r, "absent", "stored") /\ UNCHANGED told

Publish(r) == Moves(r, "stored", "published") /\ UNCHANGED told

Deliver(r) == Moves(r, "published", "delivered") /\ UNCHANGED told

Tell(r, answer) == told' = [told EXCEPT ![r] = @ \cup {answer}]

\* Success is announced once the event is in Kafka.
Confirm(r) ==
    /\ stage[r] \in {"published", "delivered"}
    /\ Tell(r, "ok")
    /\ UNCHANGED stage

\* A failure is announced for a request that is kept: its event is in Kafka
\* or not, and may have reached it in the very attempt that failed.
Apologise(r) ==
    /\ stage[r] # "absent"
    /\ Tell(r, "unavailable")
    /\ UNCHANGED stage \/ Moves(r, "stored", "published")

Next ==
    \E r \in Requests :
       Store(r) \/ Publish(r) \/ Deliver(r) \/ Confirm(r) \/ Apologise(r)

Spec == Init /\ [][Next]_vars
=============================================================================
