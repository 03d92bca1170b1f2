------------------------------ MODULE Pipeline ------------------------------
(***************************************************************************)
(* The delivery pipeline: the HTTP handlers of api-gateway, the cron jobs  *)
(* and the DLQ consumer of main and the channel workers, over the database *)
(* and the topics they share.  A step is a step of one process; the others *)
(* keep their local state.                                                 *)
(***************************************************************************)
EXTENDS Gateway, OutboxRelay, RetryScheduler, Worker, AdminDlq

vars == <<storeVars, send, relay, retry, workerVars, dlqVars, walk>>

TypeOK ==
    /\ StoreTypeOK
    /\ GatewayTypeOK
    /\ RelayTypeOK
    /\ RetryTypeOK
    /\ WorkerTypeOK
    /\ DlqTypeOK
    /\ AdminTypeOK

Init ==
    /\ StoreInit
    /\ GatewayInit
    /\ RelayInit
    /\ RetryInit
    /\ WorkerInit
    /\ DlqInit
    /\ AdminInit

EnvironmentNext ==
    \/ \E r \in Requests : PurgePayload(r)
    \/ \E i \in DOMAIN dispatch : BackoffElapses(i)

Next ==
    \/ GatewayNext /\ UNCHANGED <<relay, retry, workerVars, dlqVars, walk>>
    \/ RelayNext /\ UNCHANGED <<send, retry, workerVars, dlqVars, walk>>
    \/ RetryNext /\ UNCHANGED <<send, relay, workerVars, dlqVars, walk>>
    \/ WorkerNext /\ UNCHANGED <<send, relay, retry, dlqVars, walk>>
    \/ DlqNext /\ UNCHANGED <<send, relay, retry, workerVars, walk>>
    \/ AdminNext /\ UNCHANGED <<send, relay, retry, workerVars>>
    \/ EnvironmentNext /\ UNCHANGED <<send, relay, retry, workerVars, dlqVars, walk>>

Spec == Init /\ [][Next]_vars

\* A process that has an await under way gets its answer or its error, a cron
\* job runs again, a consumer polls, and the clock advances.  Nothing is owed
\* by the clients, and no fault has to happen.
Fairness ==
    /\ \A s \in Sends : WF_vars(SendStep(s) /\ UNCHANGED <<relay, retry, workerVars, dlqVars, walk>>)
    /\ \A t \in RelayTicks :
         WF_vars(RelayStep(t) /\ UNCHANGED <<send, retry, workerVars, dlqVars, walk>>)
    /\ \A t \in RetryTicks :
         WF_vars(RetryStep(t) /\ UNCHANGED <<send, relay, workerVars, dlqVars, walk>>)
    /\ \A w \in Workers :
         WF_vars(WorkerStep(w) /\ UNCHANGED <<send, relay, retry, dlqVars, walk>>)
    /\ WF_vars(DlqStep /\ UNCHANGED <<send, relay, retry, workerVars, walk>>)
    /\ WF_vars((\E i \in DOMAIN dispatch : BackoffElapses(i))
                 /\ UNCHANGED <<send, relay, retry, workerVars, dlqVars, walk>>)

FairSpec == Spec /\ Fairness

=============================================================================
