------------------------------ MODULE AdminDlq -------------------------------
(***************************************************************************)
(* GET /admin/dlq of admin-api (DlqController, DlqService): an             *)
(* administrator reads tb_message_dlq page by page, newest failure first,  *)
(* while the DLQ consumer goes on inserting rows.  GET /admin/audit-logs   *)
(* pages through its table in the same way.  What the client does between  *)
(* two pages is external: it asks for page 1, 2, ... until one is not full.*)
(***************************************************************************)
EXTENDS DlqConsumer, FiniteSets

CONSTANT PageLimit  \* rows of a page, after the cap of 100

ASSUME AdminDlqAssumption == PageLimit \in Nat \ {0}

VARIABLE walk   \* the administrator's reading

\* begun: how many rows the table had when page 1 was asked for; rows are
\* never deleted, so these are the rows 1 .. begun.  shown: rows seen so far.
\* failedAt: by dispatch, the column of the rows a query looked at so far.
AdminInit ==
    walk = [pc |-> "idle", page |-> 0, begun |-> 0, shown |-> {}, failedAt |-> << >>]

AdminTypeOK ==
    /\ DOMAIN walk = {"pc", "page", "begun", "shown", "failedAt"}
    /\ walk.pc \in {"idle", "reading", "done"}
    /\ walk.page \in Nat
    /\ walk.begun \in Nat
    /\ walk.shown \subseteq Nat
    /\ \A i \in DOMAIN walk.failedAt : i \in Nat /\ walk.failedAt[i] \in Nat

-----------------------------------------------------------------------------
Rows == DOMAIN dlqTable

\* new Date() of the worker that gave up, to the millisecond: workers have
\* clocks of their own, so it may be any time, but is the same for all rows of
\* a dispatch.  Bound: as many times as there are dead letters of one call.
FailureTimes ==
    {failedAt \in [{dlqTable[k] : k \in Rows} -> 1..(1 + MaxFaults)] :
       \A i \in DOMAIN walk.failedAt : failedAt[i] = walk.failedAt[i]}

\* ORDER BY failed_at DESC: rows with one failedAt come in any order, and in
\* another one the next time.
NewestFirst(failedAt) ==
    {order \in [Rows -> Rows] :
       \A i, j \in Rows :
          i < j => /\ order[i] # order[j]
                   /\ failedAt[dlqTable[order[i]]] >= failedAt[dlqTable[order[j]]]}

\* Mutant: pages are counted from 0.
PageRows_FromZero(order, page) ==
    {order[k] : k \in Rows \cap (page * PageLimit + 1 .. (page + 1) * PageLimit)}

\* skip (page - 1) * limit, take limit.
PageRows(order, page) ==
    {order[k] : k \in Rows \cap ((page - 1) * PageLimit + 1 .. page * PageLimit)}

\* Reading an empty table shows nothing and is left out.
Begin ==
    /\ walk.pc = "idle"
    /\ dlqTable # << >>
    /\ walk' = [walk EXCEPT !.pc = "reading", !.page = 1, !.begun = Len(dlqTable)]

ReadPage ==
    /\ walk.pc = "reading"
    /\ \E failedAt \in FailureTimes :
       \E order \in NewestFirst(failedAt) :
          LET rows == PageRows(order, walk.page) IN
          walk' = [walk EXCEPT
                     !.shown = @ \cup rows,
                     !.page = @ + 1,
                     !.failedAt = failedAt,
                     !.pc = IF Cardinality(rows) < PageLimit THEN "done" ELSE @]

AdminNext ==
    /\ Begin \/ ReadPage
    /\ UNCHANGED <<storeVars, dlqVars>>
=============================================================================
