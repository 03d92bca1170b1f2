--------------------------- MODULE LifecycleProofs ---------------------------
(***************************************************************************)
(* The pipeline implements MessageLifecycle, with the refinement mapping   *)
(* of PipelineProperties: the initial states map to its initial state, and *)
(* every step maps to one of its steps or to a stutter.                    *)
(***************************************************************************)
EXTENDS DeliveryProofs

LifeInv == DispatchInv /\ StoredInv

\* The stages of a request are reached in their order.
StagesInOrder ==
    \A r \in Requests :
       /\ Delivered(r) => Published(r)
       /\ Published(r) => Committed(r)
       /\ Stage(r) = "absent" <=> ~Committed(r)
       /\ Stage(r) = "stored" <=> Committed(r) /\ ~Published(r)
       /\ Stage(r) = "published" <=> Published(r) /\ ~Delivered(r)
       /\ Stage(r) = "delivered" <=> Delivered(r)

\* What a step may do to them.
Same(r) ==
    /\ Committed(r)' <=> Committed(r)
    /\ Published(r)' <=> Published(r)
    /\ Delivered(r)' <=> Delivered(r)

Enters(r) == ~Committed(r) /\ Committed(r)' /\ (Published(r)' <=> Published(r))

Emitted(r) == (Committed(r)' <=> Committed(r)) /\ (Delivered(r)' <=> Delivered(r))

Arrives(r) == (Committed(r)' <=> Committed(r)) /\ (Published(r)' <=> Published(r))

LEMMA LifeStep == LifeInv /\ [Next]_vars => LifeInv'
  BY DispatchStep, StoredStep DEF LifeInv

LEMMA StageOrder == LifeInv => StagesInOrder
  <1> SUFFICES ASSUME LifeInv, NEW r \in Requests
               PROVE  /\ Delivered(r) => Published(r)
                      /\ Published(r) => Committed(r)
                      /\ Stage(r) = "absent" <=> ~Committed(r)
                      /\ Stage(r) = "stored" <=> Committed(r) /\ ~Published(r)
                      /\ Stage(r) = "published" <=> Published(r) /\ ~Delivered(r)
                      /\ Stage(r) = "delivered" <=> Delivered(r)
    BY DEF StagesInOrder
  <1>1. Delivered(r) => Published(r)
    BY DEF LifeInv, DispatchInv, RowsInv, RowsArePublished, Delivered, DispatchesOf
  <1>2. Published(r) => Committed(r)
    BY DEF LifeInv, StoredInv, PublishedIsStored
  <1> QED BY <1>1, <1>2 DEF Stage

LEMMA StageMoves ==
    ASSUME LifeInv, [Next]_vars, NEW r \in Requests
    PROVE  /\ Same(r) => Stage(r)' = Stage(r)
           /\ Enters(r) => Stage(r) = "absent" /\ Stage(r)' = "stored"
           /\ Emitted(r) => \/ Stage(r)' = Stage(r)
                            \/ Stage(r) = "stored" /\ Stage(r)' = "published"
           /\ Arrives(r) => \/ Stage(r)' = Stage(r)
                            \/ Stage(r) = "published" /\ Stage(r)' = "delivered"
  <1>1. /\ Committed(r) => Committed(r)'
        /\ Published(r) => Published(r)'
        /\ Delivered(r) => Delivered(r)'
    BY StepGrows, DeliveredStays DEF LifeInv, DispatchInv, Grows
  <1>2. StagesInOrder' /\ StagesInOrder
    <2>1. LifeInv'
      BY LifeStep
    <2> QED BY <2>1, StageOrder, PTL
  <1> QED BY <1>1, <1>2 DEF StagesInOrder, Same, Enters, Emitted, Arrives

LEMMA StageMapMoves ==
    ASSUME NEW q \in Requests, \A r \in Requests \ {q} : Stage(r)' = Stage(r)
    PROVE  [r \in Requests |-> Stage(r)]'
             = [[r \in Requests |-> Stage(r)] EXCEPT ![q] = Stage(q)']
  OBVIOUS

LEMMA StageMapRests ==
    ASSUME \A r \in Requests : Stage(r)' = Stage(r)
    PROVE  [r \in Requests |-> Stage(r)]' = [r \in Requests |-> Stage(r)]
  OBVIOUS

LEMMA ToldMapRests ==
    ASSUME \A r \in Requests : Told(r)' = Told(r)
    PROVE  [r \in Requests |-> Told(r)]' = [r \in Requests |-> Told(r)]
  OBVIOUS

LEMMA ToldMapMoves ==
    ASSUME NEW q \in Requests, NEW a, Told(q)' = Told(q) \cup {a},
           \A r \in Requests \ {q} : Told(r)' = Told(r)
    PROVE  [r \in Requests |-> Told(r)]'
             = [[r \in Requests |-> Told(r)] EXCEPT ![q] = @ \cup {a}]
  OBVIOUS

LEMMA ToldRests == UNCHANGED send => \A r \in Requests : Told(r)' = Told(r)
  BY DEF Told

-----------------------------------------------------------------------------
(***************************************************************************)
(* Steps of the mapped state.                                              *)
(***************************************************************************)
LEMMA LifeRests ==
    ASSUME \A r \in Requests : Told(r)' = Told(r) /\ Stage(r)' = Stage(r)
    PROVE  UNCHANGED Lifecycle!vars
  BY StageMapRests, ToldMapRests DEF Lifecycle!vars

LEMMA LifeMoves ==
    ASSUME \A r \in Requests : Told(r)' = Told(r),
           NEW q \in Requests, \A r \in Requests \ {q} : Stage(r)' = Stage(r),
           \/ Stage(q) = "absent" /\ Stage(q)' = "stored"
           \/ Stage(q) = "stored" /\ Stage(q)' = "published"
           \/ Stage(q) = "published" /\ Stage(q)' = "delivered"
    PROVE  Lifecycle!Next
  <1>1. UNCHANGED [r \in Requests |-> Told(r)]
    BY ToldMapRests
  <1>2. CASE Stage(q) = "absent" /\ Stage(q)' = "stored"
    <2>1. Lifecycle!Store(q)
      BY <1>1, <1>2, StageMapMoves DEF Lifecycle!Store, Lifecycle!Moves
    <2> QED BY <2>1 DEF Lifecycle!Next
  <1>3. CASE Stage(q) = "stored" /\ Stage(q)' = "published"
    <2>1. Lifecycle!Publish(q)
      BY <1>1, <1>3, StageMapMoves DEF Lifecycle!Publish, Lifecycle!Moves
    <2> QED BY <2>1 DEF Lifecycle!Next
  <1>4. CASE Stage(q) = "published" /\ Stage(q)' = "delivered"
    <2>1. Lifecycle!Deliver(q)
      BY <1>1, <1>4, StageMapMoves DEF Lifecycle!Deliver, Lifecycle!Moves
    <2> QED BY <2>1 DEF Lifecycle!Next
  <1> QED BY <1>2, <1>3, <1>4

\* One request is concerned at most, and in one respect.
LEMMA LifeChanges ==
    ASSUME LifeInv, [Next]_vars, \A r \in Requests : Told(r)' = Told(r), NEW q \in Requests,
           \A r \in Requests \ {q} : Same(r),
           Same(q) \/ Enters(q) \/ Emitted(q) \/ Arrives(q)
    PROVE  [Lifecycle!Next]_(Lifecycle!vars)
  <1>1. \A r \in Requests \ {q} : Stage(r)' = Stage(r)
    BY StageMoves
  <1>2. CASE Stage(q)' = Stage(q)
    BY <1>1, <1>2, LifeRests
  <1>3. CASE Stage(q)' # Stage(q)
    BY <1>1, <1>3, StageMoves, LifeMoves
  <1> QED BY <1>2, <1>3

-----------------------------------------------------------------------------
(***************************************************************************)
(* The calls: they store, publish and answer.                              *)
(***************************************************************************)
LEMMA CallChanges ==
    ASSUME LifeInv, NEW s \in Sends, CallTurn(s), UNCHANGED <<dispatch, worker>>
    PROVE  \/ \A r \in Requests : Same(r)
           \/ \E q \in Requests :
                 /\ q = send[s].req
                 /\ \A r \in Requests \ {q} : Same(r)
                 /\ (Stores(s) /\ Enters(q)) \/ (Publishes(s) /\ Emitted(q))
  <1> USE DEF LifeInv, DispatchInv, IntakeInv, TypeOK, StoreTypeOK
  <1>1. \A r \in Requests : Delivered(r)' <=> Delivered(r)
    BY DEF Delivered, DispatchesOf, Revisits
  <1>2. UNCHANGED <<request, topic>> => \A r \in Requests : Same(r)
    BY <1>1 DEF Same, Committed, Published
  <1>3. send[s].pc # "idle" => send[s].req \in Requests
    BY DEF GatewayTypeOK
  <1>4. CASE Stores(s)
    <2>1. PICK q \in Requests : q = send[s].req
      BY <1>3, <1>4 DEF Stores, SendAt
    <2>2. PICK c \in Channels : request' = [request EXCEPT ![q] = NewRow(c)]
      BY <1>4, <2>1 DEF Stores, InsertRows
    <2>3. Committed(q)'
      BY <2>2 DEF Committed, NewRow
    <2>4. Enters(q)
      BY <1>4, <2>1, <2>3 DEF Stores, Enters, Published, Committed
    <2>5. \A r \in Requests \ {q} : Same(r)
      BY <1>1, <1>4, <2>2 DEF Stores, Same, Committed, Published
    <2> QED BY <1>4, <2>1, <2>4, <2>5
  <1>5. CASE Publishes(s)
    <2>1. PICK q \in Requests : q = send[s].req
      BY <1>3, <1>5 DEF Publishes
    <2>2. \A r \in Requests \ {q} : topic'[r] = topic[r]
      BY <1>5, <2>1 DEF Publishes, Appended
    <2>3. \A r \in Requests \ {q} : Same(r)
      BY <1>1, <1>5, <2>2 DEF Publishes, Same, Committed, Published
    <2>4. Emitted(q)
      BY <1>1, <1>5 DEF Publishes, Emitted, Committed
    <2> QED BY <1>5, <2>1, <2>3, <2>4
  <1>6. CASE MarksPublished(s)
    BY <1>2, <1>6 DEF MarksPublished
  <1>7. CASE Queues(s)
    <2>1. send[s].pc \in Holding /\ Committed(send[s].req) /\ send[s].req \in Requests
      BY <1>3, <1>7 DEF Queues, Holding, CallsInv, HoldersAreStored
    <2>2. send[s].entity \in RequestRow
      BY DEF GatewayTypeOK, SendRecord
    <2>3. QueuedEntity(s).status = "QUEUED"
      BY <2>2 DEF QueuedEntity, RequestRow
    <2>4. \A r \in Requests : Committed(r)' <=> Committed(r)
      BY <1>7, <2>1, <2>3 DEF Queues, Committed
    <2> QED BY <1>1, <1>7, <2>4 DEF Queues, Same, Published
  <1> QED BY <1>2, <1>4, <1>5, <1>6, <1>7 DEF CallTurn

LEMMA CallTells ==
    ASSUME NEW s \in Sends, send[s].response = "none",
           \A q \in Sends \ {s} : send'[q] = send[q],
           NEW r \in Requests
    PROVE  Told(r)' = IF /\ send'[s].req = r
                         /\ send'[s].response \in {"ok", "unavailable"}
                        THEN Told(r) \cup {send'[s].response}
                        ELSE Told(r)
  BY DEF Told

LEMMA CallLife ==
    ASSUME LifeInv, GatewayNext, UNCHANGED <<relay, retry, workerVars, dlqVars, walk>>
    PROVE  [Lifecycle!Next]_(Lifecycle!vars)
  <1>1. [Next]_vars /\ LifeInv'
    BY LifeStep DEF Next
  <1> USE DEF LifeInv, DispatchInv, IntakeInv, CallsInv
  <1>2. PICK s \in Sends : /\ \A q \in Sends \ {s} : send'[q] = send[q]
                           /\ send[s].pc # "done"
                           /\ CallTurn(s)
    BY CallTurns
  <1>3. send[s].response = "none" /\ UNCHANGED <<dispatch, worker>>
    BY <1>2, GatewayTyping DEF AnswersAreLast, TypeOK, workerVars
  <1>4. \/ \A r \in Requests : Same(r)
        \/ \E q \in Requests :
              /\ q = send[s].req
              /\ \A r \in Requests \ {q} : Same(r)
              /\ (Stores(s) /\ Enters(q)) \/ (Publishes(s) /\ Emitted(q))
    BY <1>2, <1>3, CallChanges
  <1>5. CASE send'[s].response \notin {"ok", "unavailable"}
    <2>1. \A r \in Requests : Told(r)' = Told(r)
      BY <1>2, <1>3, <1>5, CallTells
    <2>2. CASE \A r \in Requests : Same(r)
      BY <1>1, <2>1, <2>2, StageMoves, LifeRests
    <2>3. ASSUME NEW q \in Requests, \A r \in Requests \ {q} : Same(r), Enters(q) \/ Emitted(q)
          PROVE  [Lifecycle!Next]_(Lifecycle!vars)
      BY <1>1, <2>1, <2>3, LifeChanges
    <2> QED BY <1>4, <2>2, <2>3
  <1>6. CASE send'[s].response = "ok"
    <2>1. \A r \in Requests : Same(r)
      <3>1. UNCHANGED topic /\ ~Stores(s)
        BY <1>2, <1>6 DEF CallTurn
      <3>2. \A q \in Requests : Emitted(q) => Same(q)
        BY <3>1 DEF Emitted, Same, Published
      <3> QED BY <1>4, <3>1, <3>2
    <2>2. \A r \in Requests : Stage(r)' = Stage(r)
      BY <1>1, <2>1, StageMoves
    <2>3. PICK p \in Requests : p = send'[s].req /\ Published(p)'
      <3>1. /\ GatewayTypeOK' /\ AnswersAreLast' /\ AcknowledgedIsPublished'
        BY <1>1 DEF TypeOK
      <3>2. send'[s].req \in Requests
        BY <1>6, <3>1 DEF GatewayTypeOK, AnswersAreLast
      <3> QED BY <1>6, <3>1, <3>2 DEF AcknowledgedIsPublished, Published
    <2>4. Told(p)' = Told(p) \cup {"ok"} /\ \A r \in Requests \ {p} : Told(r)' = Told(r)
      BY <1>2, <1>3, <1>6, <2>3, CallTells
    <2>5. Stage(p) \in {"published", "delivered"}
      BY <2>1, <2>3, StageOrder DEF Same, StagesInOrder
    <2>6. Lifecycle!Confirm(p)
      BY <2>2, <2>4, <2>5, StageMapRests, ToldMapMoves DEF Lifecycle!Confirm, Lifecycle!Tell
    <2> QED BY <2>6 DEF Lifecycle!Next
  <1>7. CASE send'[s].response = "unavailable"
    <2>1. /\ send[s].pc \in Holding /\ ~Stores(s)
          /\ send'[s].req = send[s].req
      BY <1>2, <1>3, <1>7 DEF CallTurn, Holding, Stores, SendAt
    <2>2. PICK q \in Requests : q = send[s].req /\ Committed(q)
      BY <2>1 DEF HoldersAreStored, TypeOK, GatewayTypeOK, Holding
    <2>3. /\ \A r \in Requests \ {q} : Same(r)
          /\ Same(q) \/ Emitted(q)
      BY <1>4, <2>1, <2>2
    <2>4. /\ \A r \in Requests \ {q} : Stage(r)' = Stage(r)
          /\ Stage(q)' = Stage(q) \/ (Stage(q) = "stored" /\ Stage(q)' = "published")
          /\ Stage(q) # "absent"
      BY <1>1, <2>2, <2>3, StageMoves, StageOrder DEF StagesInOrder
    <2>5. /\ Told(q)' = Told(q) \cup {"unavailable"}
          /\ \A r \in Requests \ {q} : Told(r)' = Told(r)
      BY <1>2, <1>3, <1>7, <2>1, <2>2, CallTells
    <2>6. Lifecycle!Apologise(q)
      <3>1. Lifecycle!Tell(q, "unavailable")
        BY <2>5, ToldMapMoves DEF Lifecycle!Tell
      <3>2. CASE Stage(q)' = Stage(q)
        BY <2>4, <3>1, <3>2, StageMapRests DEF Lifecycle!Apologise
      <3>3. CASE Stage(q) = "stored" /\ Stage(q)' = "published"
        BY <2>4, <3>1, <3>3, StageMapMoves DEF Lifecycle!Apologise, Lifecycle!Moves
      <3> QED BY <2>4, <3>2, <3>3
    <2> QED BY <2>6 DEF Lifecycle!Next
  <1> QED BY <1>5, <1>6, <1>7

-----------------------------------------------------------------------------
(***************************************************************************)
(* The handlers: each can deliver the request it has.                      *)
(***************************************************************************)
LEMMA TurnInserts ==
    ASSUME NEW w \in Workers, Turn(w), NEW i \in DOMAIN dispatch', i \notin DOMAIN dispatch
    PROVE  dispatch'[i].status = "PROCESSING"
  BY DEF Turn, Stays, Loses, Drops, Takes, Reads, ReadsRequest, ReadsNoSuccess, Creates,
         Succeeds, Waits, GivesUp, Catches, Completes, FailsRequest, NothingSaved, Inserts,
         NewDispatch, Saves

LEMMA TurnDelivers ==
    ASSUME LifeInv, NEW w \in Workers, Turn(w),
           \A v \in Workers \ {w} : worker'[v] = worker[v],
           NEW r \in Requests, Delivered(r)', ~Delivered(r)
    PROVE  worker[w].req = r
  <1> USE DEF LifeInv, DispatchInv, IntakeInv
  <1>1. PICK i \in DOMAIN dispatch' :
           /\ dispatch'[i].req = r /\ dispatch'[i].status = "SUCCESS"
           /\ \A v \in Workers : ~Revisits(v, i)'
    BY DEF Delivered, DispatchesOf
  <1>2. i \in DOMAIN dispatch
    BY <1>1, TurnInserts
  <1>3. WritesOwn(w)
    BY TurnOwner
  <1>4. dispatch[i].req = r
    BY <1>1, <1>2, <1>3 DEF WritesOwn
  <1>5. CASE HasRow(w) /\ worker[w].id = i
    BY <1>4, <1>5 DEF RowsInv, RowsFollowHandlers, FollowsRow
  <1>6. CASE ~(HasRow(w) /\ worker[w].id = i)
    <2>1. dispatch[i].status = "SUCCESS"
      BY <1>1, <1>2, <1>3, <1>6 DEF WritesOwn, Keeps, Owns
    <2>2. \A v \in Workers : ~Revisits(v, i)
      BY <1>1, <1>6 DEF Revisits, HasRow
    <2> QED BY <1>2, <1>4, <2>1, <2>2 DEF Delivered, DispatchesOf
  <1> QED BY <1>5, <1>6

LEMMA WorkerLife ==
    ASSUME LifeInv, WorkerNext, UNCHANGED <<send, relay, retry, dlqVars, walk>>
    PROVE  [Lifecycle!Next]_(Lifecycle!vars)
  <1> USE DEF LifeInv, DispatchInv, IntakeInv
  <1>1. [Next]_vars
    BY DEF Next
  <1>2. UNCHANGED topic /\ \A r \in Requests : Told(r)' = Told(r)
    BY WorkerTurns, ToldRests
  <1>3. PICK w \in Workers : /\ \A v \in Workers \ {w} : worker'[v] = worker[v]
                             /\ Turn(w)
    BY WorkerTurns
  <1>4. \A r \in Requests : Committed(r)' <=> Committed(r)
    <2>1. Grows
      BY <1>1, StepGrows
    <2>2. ASSUME NEW r \in Requests, ~Committed(r)
          PROVE  request'[r] = request[r]
      <3>1. ~Published(r)
        BY <2>2 DEF StoredInv, PublishedIsStored
      <3>2. worker[w].pc # "idle" => worker[w].req # r
        BY <3>1 DEF HandlersHoldEvents
      <3> QED BY <1>3, <3>2, TurnWrites DEF WorkerAt
    <2> QED BY <2>1, <2>2 DEF Grows, Committed
  <1>5. \A r \in Requests : Published(r)' <=> Published(r)
    BY <1>2 DEF Published
  <1>6. \A r \in Requests : (Delivered(r)' <=> Delivered(r)) \/ worker[w].req = r
    BY <1>1, <1>3, TurnDelivers, DeliveredStays
  <1>7. CASE \A r \in Requests : Same(r)
    BY <1>1, <1>2, <1>7, StageMoves, LifeRests
  <1>8. CASE \E r \in Requests : ~Same(r)
    <2>1. PICK q \in Requests : q = worker[w].req
      BY <1>4, <1>5, <1>6, <1>8 DEF Same
    <2>2. /\ \A r \in Requests \ {q} : Same(r)
          /\ Arrives(q)
      BY <1>4, <1>5, <1>6, <2>1 DEF Same, Arrives
    <2> QED BY <1>1, <1>2, <2>2, LifeChanges
  <1> QED BY <1>7, <1>8

-----------------------------------------------------------------------------
(***************************************************************************)
(* Everything else sends events at most.                                   *)
(***************************************************************************)
LEMMA TopicLife ==
    ASSUME LifeInv, [Next]_vars, UNCHANGED <<request, send>>,
           \A r \in Requests : Delivered(r)' => Delivered(r)
    PROVE  [Lifecycle!Next]_(Lifecycle!vars)
  <1>1. \A r \in Requests : /\ Committed(r)' <=> Committed(r)
                            /\ Delivered(r)' <=> Delivered(r)
    BY DeliveredStays DEF LifeInv, Committed
  <1>2. \A r \in Requests : Told(r)' = Told(r)
    BY ToldRests
  <1>3. CASE UNCHANGED topic
    <2>1. \A r \in Requests : Same(r)
      BY <1>1, <1>3 DEF Same, Published
    <2> QED BY <1>2, <2>1, StageMoves, LifeRests
  <1>4. ASSUME NEW q \in Requests, topic' = Appended(q)
        PROVE  [Lifecycle!Next]_(Lifecycle!vars)
    <2>1. \A r \in Requests \ {q} : topic'[r] = topic[r]
      BY <1>4
      DEF Appended, LifeInv, DispatchInv, IntakeInv, TypeOK, StoreTypeOK
    <2>2. \A r \in Requests \ {q} : Same(r)
      BY <1>1, <2>1 DEF Same, Published
    <2>3. Emitted(q)
      BY <1>1 DEF Emitted
    <2> QED BY <1>2, <2>2, <2>3, LifeChanges
  <1> QED BY <1>3, <1>4, StoredChanges DEF LifeInv, TopicIsStored

LEMMA LifeImplemented ==
    LifeInv /\ [Next]_vars => [Lifecycle!Next]_(Lifecycle!vars)
  <1> SUFFICES ASSUME LifeInv, [Next]_vars PROVE [Lifecycle!Next]_(Lifecycle!vars)
    OBVIOUS
  <1>1. TypeOK
    BY DEF LifeInv, DispatchInv, IntakeInv
  <1>2. CASE GatewayNext /\ UNCHANGED <<relay, retry, workerVars, dlqVars, walk>>
    BY <1>2, CallLife
  <1>3. CASE WorkerNext /\ UNCHANGED <<send, relay, retry, dlqVars, walk>>
    BY <1>3, WorkerLife
  <1>4. CASE /\ ~(GatewayNext /\ UNCHANGED <<relay, retry, workerVars, dlqVars, walk>>)
             /\ ~(WorkerNext /\ UNCHANGED <<send, relay, retry, dlqVars, walk>>)
    <2>1. UNCHANGED <<request, send, worker>>
      BY <1>1, <1>4, OthersKeepRequests DEF Next, vars, workerVars
    <2>2. CASE RetryNext /\ UNCHANGED <<send, relay, workerVars, dlqVars, walk>>
      <3>1. PICK t \in RetryTicks : RunTurn(t)
        BY <1>1, <2>2, RetryTurns
      <3>2. \A r \in Requests : Delivered(r)' => Delivered(r)
        BY <1>1, <2>1, <3>1, RunKeeps DEF Delivered, DispatchesOf, Revisits
      <3> QED BY <2>1, <3>2, TopicLife
    <2>3. CASE Rests
      <3>1. \A r \in Requests : Delivered(r)' => Delivered(r)
        BY <2>1, <2>3 DEF Rests, Keeps, Delivered, DispatchesOf, Revisits
      <3> QED BY <2>1, <3>1, TopicLife
    <2> QED BY <1>1, <1>4, <2>2, <2>3, OthersRest
  <1> QED BY <1>2, <1>3, <1>4

LEMMA LifeBegins == Init => Lifecycle!Init
  <1> SUFFICES ASSUME Init PROVE Lifecycle!Init
    OBVIOUS
  <1>1. \A r \in Requests : Stage(r) = "absent"
    BY DEF Init, StoreInit, Stage, Committed, AbsentRow
  <1>2. \A s \in Sends : send[s].response = "none"
    BY DEF Init, GatewayInit
  <1>3. \A r \in Requests : Told(r) = {}
    BY <1>2 DEF Told
  <1> QED BY <1>1, <1>3 DEF Lifecycle!Init

\* The refinement, for every number of calls, runs, handlers and faults: what
\* the pipeline does to a request is a step of its life or none, and what the
\* calls answer is no more than the life allows.
THEOREM Implementation == Spec => LifecycleSpec
  <1>1. Init => LifeInv
    BY DispatchInit, StoredInit DEF LifeInv
  <1> QED
    BY <1>1, LifeStep, LifeBegins, LifeImplemented, PTL DEF Spec, LifecycleSpec, Lifecycle!Spec
=============================================================================
