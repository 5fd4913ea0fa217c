------------------------ MODULE EventPipelineProofs ------------------------
(***************************************************************************)
(* Proofs about EventPipeline, for any number of events, keys, workers and *)
(* faults, any batch sizes and any retention window.                       *)
(***************************************************************************)
EXTENDS EventPipeline, TLAPS

\* The name of a task is made of a worker, a loop and an entry.
LEMMA TaskParts ==
  ASSUME NEW t \in Tasks
  PROVE  Worker(t) \in Workers /\ Loop(t) \in Loops /\ Entry(t) \in Entries
BY DEF Tasks, Worker, Loop, Entry

\* LIMIT selects among the rows: Lowest returns a part of its argument.
LEMMA LowestSubset == ASSUME NEW S, NEW k PROVE Lowest(S, k) \subseteq S
BY DEF Lowest

\* A batch starts tasks of its entries and touches no other task.
LEMMA BatchTasks ==
  ASSUME NEW w, NEW loop, NEW batch, StartTasks(w, loop, batch), NEW u \in Tasks
  PROVE  \/ phase'[u] = phase[u]
         \/ phase'[u] = "queued" /\ Entry(u) \in batch
BY DEF StartTasks

-----------------------------------------------------------------------------
\* The steps of the database and of the pump keep the types.
LEMMA TypePump ==
  ASSUME TypeOK, NEW w \in Workers, PumpSelect(w) \/ PumpPublish(w) \/ PumpCommit(w)
  PROVE  TypeOK'
<1>1. CASE PumpSelect(w)
  <2>1. Selected \subseteq Events
    BY LowestSubset DEF Selected, TypeOK
  <2>. QED BY <1>1, <2>1 DEF PumpSelect, TypeOK, dbVars, redisVars, taskVars
<1>2. CASE PumpPublish(w)
  <2>1. PICK e \in Lowest(locked[w] \ sent[w], 1) :
               stream' = Append(stream, e) /\ sent' = [sent EXCEPT ![w] = @ \cup {e}]
    BY <1>2 DEF PumpPublish
  <2>2. e \in Events
    BY <2>1, LowestSubset DEF TypeOK
  <2>3. stream' \in Seq(Events) /\ Len(stream') = Len(stream) + 1
    BY <2>1, <2>2 DEF TypeOK
  <2>4. Len(stream') <= MaxEntries /\ lastDelivered' \in 0 .. Len(stream')
    BY <1>2, <2>3, BoundsAssumption DEF PumpPublish, TypeOK
  <2>. QED BY <1>2, <2>1, <2>2, <2>3, <2>4 DEF PumpPublish, TypeOK, dbVars, taskVars
<1>3. CASE PumpCommit(w)
  <2>1. {[event |-> e, at |-> clock] : e \in locked[w]} \subseteq [event : Events, at : Nat]
    BY DEF TypeOK
  <2>. QED BY <1>3, <2>1 DEF PumpCommit, TypeOK, redisVars, taskVars
<1>. QED BY <1>1, <1>2, <1>3

\* The steps of the consumer group keep the types.
LEMMA TypeGroup ==
  ASSUME TypeOK, NEW w \in Workers,
         EnsureGroup(w) \/ ConsumeBatch(w) \/ ReclaimPending(w)
  PROVE  TypeOK'
<1>1. CASE EnsureGroup(w)
  <2>1. Len(stream) \in Nat
    BY DEF TypeOK
  <2>. QED BY <1>1, <2>1 DEF EnsureGroup, GroupStart, TypeOK, dbVars, pumpVars, taskVars
<1>2. CASE ConsumeBatch(w)
  <2>1. LastOfBatch \in lastDelivered .. Len(stream)
    BY BoundsAssumption DEF LastOfBatch, TypeOK
  <2>2. pel' \subseteq 1 .. lastDelivered'
    BY <1>2, <2>1 DEF ConsumeBatch, TypeOK
  <2>3. phase' \in [Tasks -> Phases]
    BY <1>2 DEF ConsumeBatch, StartTasks, Phases, TypeOK
  <2>4. lastDelivered' \in 0 .. Len(stream') /\ idle' \subseteq pel'
    BY <1>2, <2>1 DEF ConsumeBatch, TypeOK
  <2>5. pc' \in [Workers -> {"pump", "publish", "consume", "down"}]
    BY <1>2 DEF ConsumeBatch, TypeOK
  <2>. QED BY <1>2, <2>2, <2>3, <2>4, <2>5 DEF ConsumeBatch, TypeOK, dbVars
<1>3. CASE ReclaimPending(w)
  <2>1. phase' \in [Tasks -> Phases]
    BY <1>3 DEF ReclaimPending, StartTasks, Phases, TypeOK
  <2>. QED BY <1>3, <2>1 DEF ReclaimPending, TypeOK, dbVars, pumpVars
<1>. QED BY <1>1, <1>2, <1>3

\* The steps of a task keep the types, and so does the failure of one.
LEMMA TypeTask ==
  ASSUME TypeOK, NEW t \in Tasks,
         TaskStep(t) \/ CommitAnswerLost(t) \/ TaskFails(t),
         phase[t] # "none" => Entry(t) <= lastDelivered
  PROVE  TypeOK'
<1>1. phase[t] # "none" => EventOf(t) \in Events
  BY TaskParts DEF TypeOK, EventOf, Entries
<1>2. CASE AcquireSemaphore(t) \/ RecordInbox(t) \/ LoadEvent(t)
  BY <1>2 DEF AcquireSemaphore, RecordInbox, LoadEvent, Goto, AfterDuplicate, Phases,
              TypeOK, dbVars, redisVars, pumpVars
<1>3. CASE CommitPipeline(t) \/ CommitAnswerLost(t)
  <2>1. CommitEffects(t)
    BY <1>3 DEF CommitPipeline, CommitAnswerLost
  <2>2. EventOf(t) \in Events
    BY <1>1, <2>1 DEF CommitEffects
  <2>3. Marker(t) \in [key : Keys, at : Nat]
    <3>1. KeyOf[EventOf(t)] \in Keys
      BY <2>2, KeyOfAssumption
    <3>2. markedAt[t] \in Nat
      BY DEF TypeOK
    <3>. QED BY <3>1, <3>2 DEF Marker, DedupeKey
  <2>4. inbox' \subseteq [key : Keys, at : Nat]
    BY <2>1, <2>3 DEF CommitEffects, TypeOK
  <2>5. orders' \in [Events -> Nat]
    BY <2>1, <2>2 DEF CommitEffects, TypeOK
  <2>6. phase' \in [Tasks -> Phases]
    BY <1>3 DEF CommitPipeline, CommitAnswerLost, Goto, Phases, TypeOK
  <2>7. markedAt' \in [Tasks -> Nat]
    BY <2>1 DEF CommitEffects, TypeOK
  <2>8. faults' \in Nat
    BY <1>3 DEF CommitPipeline, CommitAnswerLost, TypeOK
  <2>. QED BY <2>1, <2>4, <2>5, <2>6, <2>7, <2>8
           DEF CommitEffects, TypeOK, redisVars, pumpVars
<1>4. CASE RejectEvent(t) \/ TaskFails(t)
  <2>1. phase' \in [Tasks -> Phases]
    BY <1>4 DEF RejectEvent, TaskFails, Goto, AfterFailure, Phases, TypeOK
  <2>2. markedAt' \in [Tasks -> Nat]
    <3>1. markedAt' = [markedAt EXCEPT ![t] = 0]
      BY <1>4 DEF RejectEvent, TaskFails
    <3>. QED BY <3>1 DEF TypeOK
  <2>3. faults' \in Nat
    <3>1. faults' = faults \/ faults' = faults + 1
      BY <1>4 DEF RejectEvent, TaskFails
    <3>. QED BY <3>1 DEF TypeOK
  <2>. QED BY <1>4, <2>1, <2>2, <2>3
           DEF RejectEvent, TaskFails, TypeOK, dbVars, redisVars, pumpVars
<1>5. CASE PublishUi(t)
  <2>1. EventOf(t) \in Events
    BY <1>1, <1>5 DEF PublishUi
  <2>2. uiUpdates' \in [Events -> Nat]
    <3>1. uiUpdates' = [uiUpdates EXCEPT ![EventOf(t)] = @ + 1]
      BY <1>5 DEF PublishUi
    <3>. QED BY <2>1, <3>1 DEF TypeOK
  <2>3. phase' \in [Tasks -> Phases]
    <3>1. phase' = [phase EXCEPT ![t] = "handled"]
      BY <1>5 DEF PublishUi, Goto
    <3>. QED BY <3>1 DEF Phases, TypeOK
  <2>. QED BY <1>5, <2>2, <2>3 DEF PublishUi, TypeOK, dbVars, pumpVars
<1>6. CASE AckMessage(t)
  BY <1>6 DEF AckMessage, Goto, Phases, TypeOK, dbVars, pumpVars
<1>. QED BY <1>2, <1>3, <1>4, <1>5, <1>6 DEF TaskStep

\* Crash, restart, purge_history and the clock keep the types.
LEMMA TypeWorker ==
  ASSUME TypeOK, NEW w \in Workers, Crash(w) \/ Restart(w) \/ PurgeHistory(w)
  PROVE  TypeOK'
<1>1. CASE Crash(w)
  <2>1. phase' \in [Tasks -> Phases] /\ markedAt' \in [Tasks -> Nat]
    BY <1>1 DEF Crash, Phases, TypeOK
  <2>2. pc' \in [Workers -> {"pump", "publish", "consume", "down"}]
    BY <1>1 DEF Crash, TypeOK
  <2>3. locked' \in [Workers -> SUBSET Events] /\ sent' \in [Workers -> SUBSET Events]
    BY <1>1 DEF Crash, TypeOK
  <2>4. faults' \in Nat
    BY <1>1 DEF Crash, TypeOK
  <2>. QED BY <1>1, <2>1, <2>2, <2>3, <2>4 DEF Crash, TypeOK, dbVars, redisVars
<1>2. CASE Restart(w)
  BY <1>2 DEF Restart, TypeOK, dbVars, redisVars, taskVars
<1>3. CASE PurgeHistory(w)
  BY <1>3 DEF PurgeHistory, Kept, KeptMarkers, TypeOK, redisVars, pumpVars, taskVars
<1>. QED BY <1>1, <1>2, <1>3

\* No step of the system leaves the types; a task has an entry of the stream.
LEMMA TypeStep ==
  ASSUME TypeOK, Provenance, [Next]_vars
  PROVE  TypeOK'
<1>1. ASSUME NEW e \in Events, ReceiveWebhook(e) PROVE TypeOK'
  BY <1>1 DEF ReceiveWebhook, TypeOK, redisVars, pumpVars, taskVars
<1>2. ASSUME NEW n \in Entries, IdleTimeout(n) PROVE TypeOK'
  BY <1>2 DEF IdleTimeout, TypeOK, dbVars, pumpVars, taskVars
<1>3. CASE Tick
  <2>1. clock' \in Nat
    BY <1>3 DEF Tick, TypeOK
  <2>. QED BY <1>3, <2>1 DEF Tick, TypeOK, dbVars, redisVars, pumpVars, taskVars
<1>4. CASE UNCHANGED vars
  BY <1>4 DEF vars, TypeOK, dbVars, redisVars, pumpVars, taskVars
<1>5. \A t \in Tasks : phase[t] # "none" => Entry(t) <= lastDelivered
  BY DEF Provenance
<1>. QED BY <1>1, <1>2, <1>3, <1>4, <1>5, TypePump, TypeGroup, TypeTask, TypeWorker
         DEF Next, ConsumeStep

-----------------------------------------------------------------------------
\* Rows, entries and tasks stay about accepted events.
LEMMA ProvenancePump ==
  ASSUME TypeOK, Provenance, NEW w \in Workers,
         PumpSelect(w) \/ PumpPublish(w) \/ PumpCommit(w)
  PROVE  Provenance'
<1>1. CASE PumpSelect(w)
  <2>1. Selected \subseteq accepted
    BY LowestSubset DEF Selected, Provenance
  <2>2. \A v \in Workers : /\ sent'[v] \subseteq locked'[v]
                           /\ locked'[v] \subseteq accepted'
                           /\ pc'[v] # "publish" => locked'[v] = {}
    BY <1>1, <2>1 DEF PumpSelect, Provenance, TypeOK
  <2>. QED BY <1>1, <2>2 DEF PumpSelect, Provenance, EventIds, dbVars, redisVars, taskVars
<1>2. CASE PumpPublish(w)
  <2>1. PICK e \in Lowest(locked[w] \ sent[w], 1) :
               stream' = Append(stream, e) /\ sent' = [sent EXCEPT ![w] = @ \cup {e}]
    BY <1>2 DEF PumpPublish
  <2>2. e \in locked[w] /\ e \in accepted /\ e \in Events
    BY <2>1, LowestSubset DEF Provenance, TypeOK
  <2>3. \A v \in Workers : /\ sent'[v] \subseteq locked'[v]
                           /\ locked'[v] \subseteq accepted'
                           /\ pc'[v] # "publish" => locked'[v] = {}
    BY <1>2, <2>1, <2>2 DEF PumpPublish, Provenance, TypeOK
  <2>4. ASSUME NEW n \in 1 .. Len(stream') PROVE stream'[n] \in accepted'
    <3>1. stream'[n] = IF n = Len(stream) + 1 THEN e ELSE stream[n]
      BY <2>1, <2>2 DEF TypeOK
    <3>2. n \in 1 .. Len(stream) \/ n = Len(stream) + 1
      BY <2>1, <2>2 DEF TypeOK
    <3>. QED BY <1>2, <2>2, <3>1, <3>2 DEF PumpPublish, Provenance
  <2>. QED BY <1>2, <2>3, <2>4 DEF PumpPublish, Provenance, EventIds, dbVars, taskVars
<1>3. CASE PumpCommit(w)
  <2>1. \A v \in Workers : /\ sent'[v] \subseteq locked'[v]
                           /\ locked'[v] \subseteq accepted'
                           /\ pc'[v] # "publish" => locked'[v] = {}
    BY <1>3 DEF PumpCommit, Provenance, TypeOK
  <2>. QED BY <1>3, <2>1 DEF PumpCommit, Provenance, EventIds, redisVars, taskVars
<1>. QED BY <1>1, <1>2, <1>3

\* The steps of the consumer group bring in no entry from outside the stream.
LEMMA ProvenanceGroup ==
  ASSUME TypeOK, Provenance, NEW w \in Workers,
         EnsureGroup(w) \/ ConsumeBatch(w) \/ ReclaimPending(w)
  PROVE  Provenance'
<1>1. CASE EnsureGroup(w)
  <2>1. lastDelivered <= lastDelivered'
    BY <1>1 DEF EnsureGroup, GroupStart, TypeOK
  <2>2. \A t \in Tasks : phase'[t] # "none" => Entry(t) <= lastDelivered'
    BY <1>1, <2>1, TaskParts DEF EnsureGroup, GroupStart, Provenance, TypeOK, taskVars, Entries
  <2>. QED BY <1>1, <2>2 DEF EnsureGroup, Provenance, EventIds, dbVars, pumpVars
<1>2. CASE ConsumeBatch(w)
  <2>1. lastDelivered <= LastOfBatch /\ LastOfBatch \in Nat
    BY BoundsAssumption DEF LastOfBatch, TypeOK
  <2>2. ASSUME NEW t \in Tasks, phase'[t] # "none" PROVE Entry(t) <= lastDelivered'
    <3>1. phase'[t] = phase[t] \/ Entry(t) \in (lastDelivered + 1) .. LastOfBatch
      BY <1>2, BatchTasks DEF ConsumeBatch
    <3>. QED BY <1>2, <2>1, <2>2, <3>1, TaskParts DEF ConsumeBatch, Provenance, TypeOK, Entries
  <2>. QED BY <1>2, <2>2 DEF ConsumeBatch, Provenance, EventIds, dbVars
<1>3. CASE ReclaimPending(w)
  <2>1. Claimable \subseteq 1 .. lastDelivered
    BY LowestSubset DEF Claimable, TypeOK
  <2>2. ASSUME NEW t \in Tasks, phase'[t] # "none" PROVE Entry(t) <= lastDelivered'
    <3>1. phase'[t] = phase[t] \/ Entry(t) \in Claimable
      BY <1>3, BatchTasks DEF ReclaimPending
    <3>. QED BY <1>3, <2>1, <2>2, <3>1, TaskParts DEF ReclaimPending, Provenance, TypeOK, Entries
  <2>. QED BY <1>3, <2>2 DEF ReclaimPending, Provenance, EventIds, dbVars, pumpVars
<1>. QED BY <1>1, <1>2, <1>3

\* The steps of a task leave rows and entries about accepted events.
LEMMA ProvenanceTask ==
  ASSUME TypeOK, Provenance, NEW t \in Tasks,
         TaskStep(t) \/ CommitAnswerLost(t) \/ TaskFails(t)
  PROVE  Provenance'
<1>1. phase[t] # "none" /\ \A u \in Tasks : u # t => phase'[u] = phase[u]
  <2>1. phase[t] # "none"
    BY DEF TaskStep, AcquireSemaphore, RecordInbox, LoadEvent, CommitPipeline, RejectEvent,
           PublishUi, AckMessage, CommitAnswerLost, TaskFails, CommitEffects, Running
  <2>2. phase' = [phase EXCEPT ![t] = phase'[t]]
    <3>1. ASSUME NEW ph, Goto(t, ph) PROVE phase' = [phase EXCEPT ![t] = phase'[t]]
      BY <3>1 DEF Goto, TypeOK
    <3>2. CASE RecordInbox(t)
      BY <3>1, <3>2 DEF RecordInbox
    <3>3. CASE LoadEvent(t) \/ AcquireSemaphore(t) \/ PublishUi(t) \/ AckMessage(t)
      BY <3>1, <3>3 DEF LoadEvent, AcquireSemaphore, PublishUi, AckMessage
    <3>4. CASE CommitPipeline(t) \/ CommitAnswerLost(t) \/ RejectEvent(t) \/ TaskFails(t)
      BY <3>1, <3>4 DEF CommitPipeline, CommitAnswerLost, RejectEvent, TaskFails
    <3>. QED BY <3>2, <3>3, <3>4 DEF TaskStep
  <2>. QED BY <2>1, <2>2 DEF TypeOK
<1>2. UNCHANGED << tvEvents, unpublished, accepted, stream, lastDelivered, pumpVars >>
  BY DEF TaskStep, AcquireSemaphore, RecordInbox, LoadEvent, CommitPipeline, RejectEvent,
         PublishUi, AckMessage, CommitAnswerLost, TaskFails, CommitEffects,
         dbVars, redisVars
<1>3. \A u \in Tasks : phase'[u] # "none" => Entry(u) <= lastDelivered'
  BY <1>1, <1>2 DEF Provenance, TypeOK
<1>4. \A e \in Events : orders'[e] > 0 => e \in accepted'
  <2>1. CASE CommitEffects(t)
    <3>1. EventOf(t) \in accepted
      BY <1>1, TaskParts DEF Provenance, TypeOK, EventOf, Entries
    <3>. QED BY <1>2, <2>1, <3>1 DEF CommitEffects, Provenance, TypeOK
  <2>2. CASE UNCHANGED orders
    BY <1>2, <2>2 DEF Provenance
  <2>. QED BY <2>1, <2>2
       DEF TaskStep, AcquireSemaphore, RecordInbox, LoadEvent, CommitPipeline, RejectEvent,
           PublishUi, AckMessage, CommitAnswerLost, TaskFails, dbVars
<1>. QED BY <1>2, <1>3, <1>4 DEF Provenance, EventIds, pumpVars

\* Every step leaves rows, entries and tasks about accepted events.
LEMMA ProvenanceStep ==
  ASSUME TypeOK, Provenance, [Next]_vars
  PROVE  Provenance'
<1>1. ASSUME NEW e \in Events, ReceiveWebhook(e) PROVE Provenance'
  <2>1. EventIds' \subseteq accepted' /\ unpublished' \subseteq accepted'
    BY <1>1 DEF ReceiveWebhook, Provenance, EventIds
  <2>. QED BY <1>1, <2>1 DEF ReceiveWebhook, Provenance, redisVars, pumpVars, taskVars
<1>2. ASSUME NEW w \in Workers, Crash(w) PROVE Provenance'
  <2>1. \A v \in Workers : /\ sent'[v] \subseteq locked'[v]
                           /\ locked'[v] \subseteq accepted'
                           /\ pc'[v] # "publish" => locked'[v] = {}
    BY <1>2 DEF Crash, Provenance, TypeOK
  <2>2. \A t \in Tasks : phase'[t] # "none" => Entry(t) <= lastDelivered'
    BY <1>2 DEF Crash, Provenance, redisVars
  <2>. QED BY <1>2, <2>1, <2>2 DEF Crash, Provenance, EventIds, dbVars, redisVars
<1>3. ASSUME NEW w \in Workers, Restart(w) PROVE Provenance'
  BY <1>3 DEF Restart, Up, TypeOK, Provenance, EventIds, dbVars, redisVars, taskVars
<1>4. ASSUME NEW w \in Workers, PurgeHistory(w) PROVE Provenance'
  <2>1. EventIds' \subseteq EventIds
    BY <1>4 DEF PurgeHistory, Kept, EventIds
  <2>. QED BY <1>4, <2>1 DEF PurgeHistory, Provenance, redisVars, pumpVars, taskVars
<1>5. ASSUME NEW n \in Entries, IdleTimeout(n) PROVE Provenance'
  BY <1>5 DEF IdleTimeout, Provenance, EventIds, dbVars, pumpVars, taskVars
<1>6. CASE Tick \/ UNCHANGED vars
  BY <1>6 DEF Tick, vars, Provenance, EventIds, dbVars, redisVars, pumpVars, taskVars
<1>. QED BY <1>1, <1>2, <1>3, <1>4, <1>5, <1>6,
            ProvenancePump, ProvenanceGroup, ProvenanceTask DEF Next, ConsumeStep

-----------------------------------------------------------------------------
\* What the steps below have to preserve besides TypeOK and Provenance.
Core ==
  /\ Stamps /\ TxExclusive /\ MarkerOutlivesRow
  /\ LoadedIsFresh /\ UiFollowsOrder /\ AtMostOnce

\* The entry of a task is in the stream, and stays where it is.
LEMMA TaskEvent ==
  ASSUME TypeOK, Provenance, NEW t \in Tasks, phase[t] # "none"
  PROVE  EventOf(t) \in Events /\ DedupeKey(t) \in Keys
BY TaskParts, KeyOfAssumption DEF TypeOK, Provenance, EventOf, DedupeKey, Entries

\* A step that only drops tasks or moves them outside the transaction and the
\* publication of the result keeps the core.
Calm ==
  /\ UNCHANGED << tvEvents, inbox, orders, stream, uiUpdates, clock >>
  /\ \A t \in Tasks : \/ phase'[t] \in {"none", "queued", "started", "handled"}
                      \/ phase'[t] = phase[t] /\ markedAt'[t] = markedAt[t]

\* A calm step keeps the core.
LEMMA CalmStep == ASSUME TypeOK, Core, Calm PROVE Core'
<1>. USE DEF Calm
<1>1. Stamps'
  BY DEF Core, Stamps, InTx, EventOf
<1>2. TxExclusive'
  BY DEF Core, TxExclusive, InTx, InboxHas, InboxKeys, EventOf, DedupeKey
<1>3. MarkerOutlivesRow'
  BY DEF Core, MarkerOutlivesRow
<1>4. LoadedIsFresh'
  BY DEF Core, LoadedIsFresh, EventOf
<1>5. UiFollowsOrder'
  BY DEF Core, UiFollowsOrder, EventOf
<1>6. AtMostOnce'
  BY DEF Core, AtMostOnce
<1>. QED BY <1>1, <1>2, <1>3, <1>4, <1>5, <1>6 DEF Core

\* A newly accepted event has no order, no entry and no task yet.
LEMMA CoreReceive ==
  ASSUME TypeOK, Provenance, Core, NEW e \in Events, ReceiveWebhook(e)
  PROVE  Core'
<1>1. orders[e] = 0
  BY DEF ReceiveWebhook, Provenance, TypeOK
<1>2. \A t \in Tasks : phase[t] # "none" => EventOf(t) # e
  BY TaskParts DEF ReceiveWebhook, Provenance, TypeOK, EventOf, Entries
<1>3. Stamps'
  BY <1>2 DEF ReceiveWebhook, Core, Stamps, EventOf, InTx, TypeOK, redisVars, taskVars
<1>4. TxExclusive'
  BY DEF ReceiveWebhook, Core, TxExclusive, InboxHas, InboxKeys, EventOf, DedupeKey,
         redisVars, taskVars
<1>5. MarkerOutlivesRow'
  BY <1>1 DEF ReceiveWebhook, Core, MarkerOutlivesRow
<1>6. LoadedIsFresh' /\ UiFollowsOrder' /\ AtMostOnce'
  BY DEF ReceiveWebhook, Core, LoadedIsFresh, UiFollowsOrder, AtMostOnce, EventOf,
         redisVars, taskVars
<1>. QED BY <1>3, <1>4, <1>5, <1>6 DEF Core

\* Appending to the stream leaves the events of the entries before it.
LEMMA CorePublish ==
  ASSUME TypeOK, Provenance, Core, NEW w \in Workers, PumpPublish(w)
  PROVE  Core'
<1>1. PICK e \in Lowest(locked[w] \ sent[w], 1) : stream' = Append(stream, e)
  BY DEF PumpPublish
<1>2. e \in Events
  BY LowestSubset DEF TypeOK
<1>3. ASSUME NEW t \in Tasks, phase[t] # "none"
      PROVE  EventOf(t)' = EventOf(t)
  <2>1. Entry(t) \in 1 .. Len(stream)
    BY <1>3, TaskParts DEF Provenance, TypeOK, Entries
  <2>. QED BY <1>1, <1>2, <2>1 DEF EventOf, TypeOK
<1>4. Stamps'
  BY <1>3 DEF PumpPublish, Core, Stamps, InTx, dbVars, taskVars
<1>5. TxExclusive'
  BY <1>3 DEF PumpPublish, Core, TxExclusive, InboxHas, InboxKeys, InTx, DedupeKey,
              dbVars, taskVars
<1>6. MarkerOutlivesRow' /\ AtMostOnce'
  BY DEF PumpPublish, Core, MarkerOutlivesRow, AtMostOnce, dbVars
<1>7. LoadedIsFresh' /\ UiFollowsOrder'
  BY <1>3 DEF PumpPublish, Core, LoadedIsFresh, UiFollowsOrder, dbVars, taskVars
<1>. QED BY <1>4, <1>5, <1>6, <1>7 DEF Core

\* The insert of an inbox row leaves one open transaction per dedupe key.
LEMMA CoreRecord ==
  ASSUME TypeOK, Provenance, Core, NEW t \in Tasks, RecordInbox(t)
  PROVE  Core'
<1>1. UNCHANGED << tvEvents, inbox, orders, stream, uiUpdates, clock >>
  BY DEF RecordInbox, dbVars, redisVars
<1>2. CASE InboxHas(DedupeKey(t))
  <2>1. phase' = [phase EXCEPT ![t] = "handled"] /\ UNCHANGED markedAt
    BY <1>2 DEF RecordInbox, Goto, AfterDuplicate
  <2>2. \A u \in Tasks : \/ phase'[u] \in {"none", "queued", "started", "handled"}
                         \/ phase'[u] = phase[u] /\ markedAt'[u] = markedAt[u]
    BY <2>1 DEF TypeOK
  <2>. QED BY <1>1, <2>2, CalmStep DEF Calm
<1>3. CASE ~InboxHas(DedupeKey(t))
  <2>1. /\ phase' = [phase EXCEPT ![t] = "marked"]
        /\ markedAt' = [markedAt EXCEPT ![t] = clock]
        /\ ~InsertBlocked(t)
    BY <1>3 DEF RecordInbox, Goto
  <2>2. \A u \in Tasks \ {t} : phase'[u] = phase[u] /\ markedAt'[u] = markedAt[u]
    BY <2>1 DEF TypeOK
  <2>3. phase'[t] = "marked" /\ markedAt'[t] = clock
    BY <2>1 DEF TypeOK
  <2>4. Stamps'
    BY <1>1, <2>2, <2>3 DEF Core, Stamps, EventOf
  <2>5. TxExclusive'
    <3>1. ASSUME NEW u \in Tasks, phase'[u] \in InTx, u # t
          PROVE  DedupeKey(u) # DedupeKey(t) /\ phase[u] \in InTx
      BY <2>1, <2>2, <3>1 DEF InsertBlocked
    <3>2. \A u \in Tasks : DedupeKey(u)' = DedupeKey(u)
      BY <1>1 DEF DedupeKey, EventOf
    <3>. QED BY <1>1, <1>3, <3>1, <3>2 DEF Core, TxExclusive, InboxHas, InboxKeys
  <2>6. MarkerOutlivesRow' /\ AtMostOnce'
    BY <1>1 DEF Core, MarkerOutlivesRow, AtMostOnce
  <2>7. LoadedIsFresh' /\ UiFollowsOrder'
    BY <1>1, <2>2, <2>3 DEF Core, LoadedIsFresh, UiFollowsOrder, EventOf
  <2>. QED BY <2>4, <2>5, <2>6, <2>7 DEF Core
<1>. QED BY <1>2, <1>3

\* The event row is there and its key is not in the inbox: it has no order yet.
LEMMA CoreLoad ==
  ASSUME TypeOK, Provenance, Core, NEW t \in Tasks, LoadEvent(t)
  PROVE  Core'
<1>1. UNCHANGED << tvEvents, inbox, orders, stream, uiUpdates, clock, markedAt >>
  BY DEF LoadEvent, dbVars, redisVars
<1>2. phase[t] = "marked" /\ \A u \in Tasks \ {t} : phase'[u] = phase[u]
  BY DEF LoadEvent, Goto, TypeOK
<1>3. /\ phase'[t] \in {"loaded", "missing"}
      /\ phase'[t] = "loaded" => EventOf(t) \in EventIds
  BY DEF LoadEvent, Goto, TypeOK
<1>4. phase'[t] = "loaded" => orders[EventOf(t)] = 0
  <2>1. SUFFICES ASSUME EventOf(t) \in EventIds, orders[EventOf(t)] > 0
                 PROVE  FALSE
    BY <1>2, <1>3, TaskEvent DEF TypeOK
  <2>2. PICK r \in tvEvents : r.id = EventOf(t)
    BY <2>1 DEF EventIds
  <2>3. PICK m \in inbox : m.key = DedupeKey(t)
    BY <1>2, <2>1, <2>2, TaskEvent DEF Core, MarkerOutlivesRow, DedupeKey
  <2>. QED BY <1>2, <2>3 DEF Core, TxExclusive, InboxHas, InboxKeys, InTx
<1>5. Stamps'
  BY <1>1, <1>2, <1>3 DEF Core, Stamps, EventOf, InTx
<1>6. TxExclusive'
  BY <1>1, <1>2, <1>3 DEF Core, TxExclusive, InboxHas, InboxKeys, InTx, DedupeKey, EventOf
<1>7. MarkerOutlivesRow' /\ AtMostOnce'
  BY <1>1 DEF Core, MarkerOutlivesRow, AtMostOnce
<1>8. LoadedIsFresh' /\ UiFollowsOrder'
  BY <1>1, <1>2, <1>3, <1>4 DEF Core, LoadedIsFresh, UiFollowsOrder, EventOf
<1>. QED BY <1>5, <1>6, <1>7, <1>8 DEF Core

\* The order and the inbox row of a task become visible together.
LEMMA CoreCommit ==
  ASSUME TypeOK, Provenance, Core, NEW t \in Tasks,
         CommitPipeline(t) \/ CommitAnswerLost(t)
  PROVE  Core'
<1> DEFINE e == EventOf(t)
<1>1. CommitEffects(t)
  BY DEF CommitPipeline, CommitAnswerLost
<1>2. UNCHANGED << tvEvents, stream, uiUpdates, clock >>
  BY <1>1 DEF CommitEffects, redisVars
<1>3. e \in Events /\ orders[e] = 0
  BY <1>1, TaskEvent DEF CommitEffects, Core, LoadedIsFresh
<1>4. \A x \in Events : orders'[x] = IF x = e THEN 1 ELSE orders[x]
  BY <1>1, <1>3 DEF CommitEffects, TypeOK
<1>5. inbox' = inbox \cup {Marker(t)}
  BY <1>1 DEF CommitEffects
<1>6. \A u \in Tasks \ {t} : phase'[u] = phase[u] /\ markedAt'[u] = markedAt[u]
  <2>1. ASSUME NEW ph, Goto(t, ph) PROVE \A u \in Tasks \ {t} : phase'[u] = phase[u]
    BY <2>1 DEF Goto, TypeOK
  <2>2. \A u \in Tasks \ {t} : markedAt'[u] = markedAt[u]
    BY <1>1 DEF CommitEffects, TypeOK
  <2>. QED BY <2>1, <2>2 DEF CommitPipeline, CommitAnswerLost
<1>7. phase[t] = "loaded" /\ phase'[t] \in {"committed", "none"}
  BY <1>1 DEF CommitPipeline, CommitAnswerLost, CommitEffects, Goto, TypeOK
<1>8. \A u \in Tasks : EventOf(u)' = EventOf(u) /\ DedupeKey(u)' = DedupeKey(u)
  BY <1>2 DEF EventOf, DedupeKey
<1>9. Stamps'
  BY <1>2, <1>6, <1>7, <1>8 DEF Core, Stamps, InTx
<1>10. TxExclusive'
  <2>1. ASSUME NEW u \in Tasks, phase'[u] \in InTx
        PROVE  u # t /\ phase[u] \in InTx
    BY <1>6, <1>7, <2>1 DEF InTx
  <2>2. ASSUME NEW u \in Tasks, phase'[u] \in InTx
        PROVE  DedupeKey(u) # DedupeKey(t)
    BY <1>7, <2>1, <2>2 DEF Core, TxExclusive, InTx
  <2>3. ASSUME NEW k, InboxHas(k)', k # DedupeKey(t) PROVE InboxHas(k)
    BY <1>5, <2>3 DEF InboxHas, InboxKeys, Marker
  <2>. QED BY <1>8, <2>1, <2>2, <2>3 DEF Core, TxExclusive
<1>11. MarkerOutlivesRow'
  <2>1. \A r \in tvEvents : r.id = e => r.at <= Marker(t).at
    BY <1>7 DEF Core, Stamps, Marker, InTx
  <2>2. Marker(t).key = KeyOf[e]
    BY DEF Marker, DedupeKey
  <2>. QED BY <1>2, <1>4, <1>5, <2>1, <2>2 DEF Core, MarkerOutlivesRow
<1>12. LoadedIsFresh'
  <2>1. ASSUME NEW u \in Tasks, phase'[u] = "loaded"
        PROVE  u # t /\ phase[u] = "loaded" /\ EventOf(u) # e
    BY <1>6, <1>7, <2>1 DEF Core, TxExclusive, InTx, DedupeKey
  <2>2. ASSUME NEW u \in Tasks, phase'[u] = "loaded"
        PROVE  orders'[EventOf(u)] = 0
    BY <1>4, <2>1, <2>2, TaskEvent DEF Core, LoadedIsFresh
  <2>. QED BY <1>8, <2>2 DEF LoadedIsFresh
<1>13. UiFollowsOrder'
  <2>1. uiUpdates[e] = 0
    BY <1>3 DEF Core, UiFollowsOrder, TypeOK
  <2>2. ASSUME NEW u \in Tasks, u # t, phase'[u] = "committed"
        PROVE  phase[u] = "committed" /\ EventOf(u) \in Events /\ EventOf(u) # e
    BY <1>3, <1>6, <2>2, TaskEvent DEF Core, UiFollowsOrder
  <2>3. ASSUME NEW x \in Events PROVE uiUpdates[x] <= orders'[x]
    <3>1. CASE x = e
      BY <1>3, <1>4, <2>1, <3>1
    <3>2. CASE x # e
      BY <1>4, <3>2 DEF Core, UiFollowsOrder
    <3>. QED BY <3>1, <3>2
  <2>4. ASSUME NEW u \in Tasks, phase'[u] = "committed"
        PROVE  orders'[EventOf(u)] = 1 /\ uiUpdates[EventOf(u)] = 0
    BY <1>3, <1>4, <2>1, <2>2, <2>4 DEF Core, UiFollowsOrder
  <2>5. ASSUME NEW u \in Tasks, NEW v \in Tasks, phase'[u] = "committed",
               phase'[v] = "committed", EventOf(u) = EventOf(v)
        PROVE  u = v
    BY <2>2, <2>5 DEF Core, UiFollowsOrder
  <2>. QED BY <1>2, <1>8, <2>3, <2>4, <2>5 DEF UiFollowsOrder
<1>14. AtMostOnce'
  BY <1>4 DEF Core, AtMostOnce
<1>. QED BY <1>9, <1>10, <1>11, <1>12, <1>13, <1>14 DEF Core

\* The message of a task about to publish is the first about its event.
LEMMA CorePublishUi ==
  ASSUME TypeOK, Provenance, Core, NEW t \in Tasks, PublishUi(t)
  PROVE  Core'
<1> DEFINE e == EventOf(t)
<1>1. UNCHANGED << tvEvents, inbox, orders, stream, clock, markedAt >>
  BY DEF PublishUi, dbVars
<1>2. phase[t] = "committed" /\ phase'[t] = "handled"
  BY DEF PublishUi, Goto, TypeOK
<1>3. \A u \in Tasks \ {t} : phase'[u] = phase[u]
  BY DEF PublishUi, Goto, TypeOK
<1>4. e \in Events /\ orders[e] = 1 /\ uiUpdates[e] = 0
  BY <1>2, TaskEvent DEF Core, UiFollowsOrder
<1>5. \A x \in Events : uiUpdates'[x] = IF x = e THEN 1 ELSE uiUpdates[x]
  BY <1>4 DEF PublishUi, TypeOK
<1>6. Stamps' /\ TxExclusive'
  BY <1>1, <1>2, <1>3
     DEF Core, Stamps, TxExclusive, InTx, InboxHas, InboxKeys, EventOf, DedupeKey
<1>7. MarkerOutlivesRow' /\ LoadedIsFresh' /\ AtMostOnce'
  BY <1>1, <1>2, <1>3 DEF Core, MarkerOutlivesRow, LoadedIsFresh, AtMostOnce, EventOf
<1>8. UiFollowsOrder'
  <2>1. ASSUME NEW x \in Events PROVE uiUpdates'[x] <= orders'[x]
    BY <1>1, <1>4, <1>5 DEF Core, UiFollowsOrder
  <2>2. ASSUME NEW u \in Tasks, phase'[u] = "committed"
        PROVE  u # t /\ phase[u] = "committed" /\ EventOf(u) \in Events /\ EventOf(u) # e
    BY <1>2, <1>3, <2>2, TaskEvent DEF Core, UiFollowsOrder
  <2>3. ASSUME NEW u \in Tasks, phase'[u] = "committed"
        PROVE  orders[EventOf(u)] = 1 /\ uiUpdates'[EventOf(u)] = 0
    BY <1>5, <2>2, <2>3 DEF Core, UiFollowsOrder
  <2>. QED BY <1>1, <2>1, <2>2, <2>3 DEF Core, UiFollowsOrder, EventOf
<1>. QED BY <1>6, <1>7, <1>8 DEF Core

\* One cutoff for events and inbox: a purged inbox row takes its event's row along.
LEMMA CorePurge ==
  ASSUME TypeOK, Provenance, Core, NEW w \in Workers, PurgeHistory(w)
  PROVE  Core'
<1>1. UNCHANGED << orders, stream, uiUpdates, clock, phase, markedAt >>
  BY DEF PurgeHistory, redisVars, taskVars
<1>2. tvEvents' \subseteq tvEvents /\ inbox' \subseteq inbox
  BY DEF PurgeHistory, Kept, KeptMarkers
<1>3. Stamps' /\ TxExclusive'
  BY <1>1, <1>2 DEF Core, Stamps, TxExclusive, InboxHas, InboxKeys, EventOf, DedupeKey
<1>4. MarkerOutlivesRow'
  <2>1. ASSUME NEW r \in tvEvents', NEW m \in inbox, r.at <= m.at
        PROVE  m \in inbox'
    <3>1. r.at + Retention >= clock
      BY DEF PurgeHistory, Kept
    <3>2. r.at \in Nat /\ m.at \in Nat /\ clock \in Nat
      BY <1>2 DEF TypeOK
    <3>3. m.at + Retention >= clock
      BY <2>1, <3>1, <3>2, BoundsAssumption
    <3>. QED BY <3>3 DEF PurgeHistory, Kept, KeptMarkers
  <2>. QED BY <1>1, <1>2, <2>1 DEF Core, MarkerOutlivesRow
<1>5. LoadedIsFresh' /\ UiFollowsOrder' /\ AtMostOnce'
  BY <1>1 DEF Core, LoadedIsFresh, UiFollowsOrder, AtMostOnce, EventOf
<1>. QED BY <1>3, <1>4, <1>5 DEF Core

LEMMA CoreTick == ASSUME TypeOK, Core, Tick PROVE Core'
<1>1. UNCHANGED << tvEvents, inbox, orders, stream, uiUpdates, phase, markedAt >>
  BY DEF Tick, dbVars, redisVars, taskVars
<1>2. Stamps'
  <2>1. \A r \in tvEvents : r.at \in Nat /\ r.at <= clock
    BY DEF TypeOK, Core, Stamps
  <2>2. \A r \in tvEvents : r.at <= clock'
    BY <2>1 DEF Tick, TypeOK
  <2>. QED BY <1>1, <2>2 DEF Core, Stamps, EventOf
<1>3. TxExclusive' /\ MarkerOutlivesRow'
  BY <1>1 DEF Core, TxExclusive, MarkerOutlivesRow, InboxHas, InboxKeys, EventOf, DedupeKey
<1>4. LoadedIsFresh' /\ UiFollowsOrder' /\ AtMostOnce'
  BY <1>1 DEF Core, LoadedIsFresh, UiFollowsOrder, AtMostOnce, EventOf
<1>. QED BY <1>2, <1>3, <1>4 DEF Core

LEMMA CoreStep ==
  ASSUME TypeOK, Provenance, Core, [Next]_vars
  PROVE  Core'
<1>1. ASSUME NEW w \in Workers, PumpSelect(w) \/ PumpCommit(w) \/ EnsureGroup(w) \/ Restart(w)
      PROVE  Core'
  BY <1>1, CalmStep DEF PumpSelect, PumpCommit, EnsureGroup, Restart, Calm,
                        dbVars, redisVars, taskVars
<1>2. ASSUME NEW w \in Workers, ConsumeBatch(w) PROVE Core'
  <2>1. \A t \in Tasks : phase'[t] = phase[t] \/ phase'[t] = "queued"
    BY <1>2, BatchTasks DEF ConsumeBatch
  <2>. QED BY <1>2, <2>1, CalmStep DEF ConsumeBatch, Calm, dbVars
<1>3. ASSUME NEW w \in Workers, ReclaimPending(w) PROVE Core'
  <2>1. \A t \in Tasks : phase'[t] = phase[t] \/ phase'[t] = "queued"
    BY <1>3, BatchTasks DEF ReclaimPending
  <2>. QED BY <1>3, <2>1, CalmStep DEF ReclaimPending, Calm, dbVars
<1>4. ASSUME NEW w \in Workers, Crash(w) PROVE Core'
  <2>1. \A t \in Tasks : \/ phase'[t] = "none"
                         \/ phase'[t] = phase[t] /\ markedAt'[t] = markedAt[t]
    BY <1>4 DEF Crash
  <2>. QED BY <1>4, <2>1, CalmStep DEF Crash, Calm, dbVars, redisVars
<1>5. ASSUME NEW t \in Tasks,
             AcquireSemaphore(t) \/ RejectEvent(t) \/ AckMessage(t) \/ TaskFails(t)
      PROVE  Core'
  <2>1. UNCHANGED << tvEvents, inbox, orders, stream, uiUpdates, clock >>
    BY <1>5 DEF AcquireSemaphore, RejectEvent, AckMessage, TaskFails, dbVars, redisVars
  <2>2. phase'[t] \in {"none", "started"}
    BY <1>5 DEF AcquireSemaphore, RejectEvent, AckMessage, TaskFails, Goto, AfterFailure, TypeOK
  <2>3. \A u \in Tasks \ {t} : phase'[u] = phase[u]
    BY <1>5 DEF AcquireSemaphore, RejectEvent, AckMessage, TaskFails, Goto, TypeOK
  <2>4. \A u \in Tasks \ {t} : markedAt'[u] = markedAt[u]
    BY <1>5 DEF AcquireSemaphore, RejectEvent, AckMessage, TaskFails, TypeOK
  <2>. QED BY <2>1, <2>2, <2>3, <2>4, CalmStep DEF Calm
<1>6. ASSUME NEW n \in Entries, IdleTimeout(n) PROVE Core'
  BY <1>6, CalmStep DEF IdleTimeout, Calm, dbVars, taskVars
<1>7. CASE UNCHANGED vars
  BY <1>7, CalmStep DEF vars, Calm, dbVars, redisVars, taskVars
<1>. QED BY <1>1, <1>2, <1>3, <1>4, <1>5, <1>6, <1>7, CoreReceive, CorePublish, CoreRecord,
            CoreLoad, CoreCommit, CorePublishUi, CorePurge, CoreTick
         DEF Next, ConsumeStep, TaskStep

-----------------------------------------------------------------------------
LEMMA InitInv == Init => Inv
<1> SUFFICES ASSUME Init PROVE Inv
  OBVIOUS
<1>1. TypeOK
  BY BoundsAssumption DEF Init, TypeOK, Phases
<1>2. Provenance
  BY DEF Init, Provenance, EventIds
<1>3. Stamps /\ TxExclusive /\ MarkerOutlivesRow /\ LoadedIsFresh /\ UiFollowsOrder
  BY DEF Init, Stamps, TxExclusive, MarkerOutlivesRow, LoadedIsFresh, UiFollowsOrder, InTx
<1>4. AtMostOnce
  BY DEF Init, AtMostOnce
<1>. QED BY <1>1, <1>2, <1>3, <1>4 DEF Inv

\* The inductive invariant holds in every reachable state.
THEOREM InvHolds == Spec => []Inv
<1>1. Inv /\ [Next]_vars => Inv'
  BY TypeStep, ProvenanceStep, CoreStep DEF Inv, Core
<1>. QED BY InitInv, <1>1, PTL DEF Spec

\* Rows, entries, tasks and counters keep their types.
THEOREM TypeCorrect == Spec => []TypeOK
<1>1. Inv => TypeOK
  BY DEF Inv
<1>. QED BY InvHolds, <1>1, PTL

\* However often an event's entry is published, delivered, claimed or retried,
\* whichever worker dies, and whatever purge_history deletes, the pipeline of
\* the event commits at most one order.
THEOREM AtMostOnceHolds == Spec => []AtMostOnce
<1>1. Inv => AtMostOnce
  BY DEF Inv
<1>. QED BY InvHolds, <1>1, PTL

-----------------------------------------------------------------------------
\* Every step is a step of the promise to the sender, or changes nothing of it.
LEMMA PromiseStep == Inv /\ [Next]_vars => [Promise!Next]_(Promise!vars)
<1> SUFFICES ASSUME Inv, [Next]_vars PROVE [Promise!Next]_(Promise!vars)
  OBVIOUS
<1> USE DEF Promise!vars
<1>1. ASSUME NEW e \in Events, ReceiveWebhook(e) PROVE Promise!Accept(e)
  BY <1>1 DEF ReceiveWebhook, Promise!Accept, redisVars
<1>2. ASSUME NEW t \in Tasks, CommitPipeline(t) \/ CommitAnswerLost(t)
      PROVE  EventOf(t) \in Events /\ Promise!Execute(EventOf(t))
  <2>1. CommitEffects(t)
    BY <1>2 DEF CommitPipeline, CommitAnswerLost
  <2>2. EventOf(t) \in Events
    BY <2>1, TaskEvent DEF CommitEffects, Inv
  <2>3. orders[EventOf(t)] = 0
    BY <2>1 DEF CommitEffects, Inv, LoadedIsFresh
  <2>4. EventOf(t) \in accepted
    BY <2>1, TaskParts DEF CommitEffects, Inv, Provenance, TypeOK, EventOf, Entries
  <2>5. orders' = [orders EXCEPT ![EventOf(t)] = 1]
    BY <2>1, <2>3 DEF CommitEffects
  <2>. QED BY <2>1, <2>2, <2>3, <2>4, <2>5 DEF CommitEffects, Promise!Execute, redisVars
<1>3. ASSUME NEW t \in Tasks, PublishUi(t)
      PROVE  EventOf(t) \in Events /\ Promise!Notify(EventOf(t))
  <2>1. EventOf(t) \in Events
    BY <1>3, TaskEvent DEF PublishUi, Inv
  <2>2. orders[EventOf(t)] = 1 /\ uiUpdates[EventOf(t)] = 0
    BY <1>3 DEF PublishUi, Inv, UiFollowsOrder
  <2>3. uiUpdates' = [uiUpdates EXCEPT ![EventOf(t)] = 1]
    BY <1>3, <2>2 DEF PublishUi
  <2>. QED BY <1>3, <2>1, <2>2, <2>3 DEF PublishUi, Promise!Notify, dbVars
<1>4. ASSUME NEW t \in Tasks,
             \/ AcquireSemaphore(t) \/ RecordInbox(t) \/ LoadEvent(t)
             \/ RejectEvent(t) \/ AckMessage(t) \/ TaskFails(t)
      PROVE  UNCHANGED Promise!vars
  BY <1>4 DEF AcquireSemaphore, RecordInbox, LoadEvent, RejectEvent, AckMessage, TaskFails,
              dbVars, redisVars
<1>5. ASSUME NEW w \in Workers,
             \/ ConsumeStep(w) \/ EnsureGroup(w) \/ ReclaimPending(w)
             \/ PurgeHistory(w) \/ Crash(w) \/ Restart(w)
      PROVE  UNCHANGED Promise!vars
  BY <1>5 DEF ConsumeStep, PumpSelect, PumpPublish, PumpCommit, ConsumeBatch, EnsureGroup,
              ReclaimPending, PurgeHistory, Crash, Restart, dbVars, redisVars
<1>6. ASSUME NEW n \in Entries, IdleTimeout(n) PROVE UNCHANGED Promise!vars
  BY <1>6 DEF IdleTimeout, dbVars
<1>7. CASE Tick \/ UNCHANGED vars
  BY <1>7 DEF Tick, vars, dbVars, redisVars
<1>. QED BY <1>1, <1>2, <1>3, <1>4, <1>5, <1>6, <1>7 DEF Next, TaskStep, Promise!Next

\* The pipeline implements EffectivelyOnce: at most one order per accepted
\* event, and at most one ui_updates message, after the order.
THEOREM ImplementsPromiseHolds == Spec => ImplementsPromise
<1>1. Init => Promise!Init
  BY DEF Init, Promise!Init
<1>. QED BY <1>1, PromiseStep, InvHolds, PTL DEF Spec, ImplementsPromise, Promise!Spec

-----------------------------------------------------------------------------
\* The stream, the pending list and the counters of orders change only here.
LEMMA RedisFrame ==
  ASSUME [Next]_vars,
         ~(\E w \in Workers : PumpPublish(w) \/ ConsumeBatch(w) \/ EnsureGroup(w)),
         ~(\E t \in Tasks : AckMessage(t))
  PROVE  stream' = stream /\ lastDelivered' = lastDelivered /\ pel' = pel
BY DEF Next, vars, ReceiveWebhook, ConsumeStep, PumpSelect, PumpCommit, ReclaimPending,
       PurgeHistory, Crash, Restart, IdleTimeout, TaskStep, AcquireSemaphore, RecordInbox,
       LoadEvent, CommitPipeline, CommitAnswerLost, CommitEffects, RejectEvent, PublishUi,
       TaskFails, Tick, redisVars

LEMMA OrdersFrame ==
  ASSUME [Next]_vars, ~(\E t \in Tasks : CommitPipeline(t) \/ CommitAnswerLost(t))
  PROVE  orders' = orders
BY DEF Next, vars, dbVars, ReceiveWebhook, ConsumeStep, PumpSelect, PumpPublish, PumpCommit,
       EnsureGroup, ConsumeBatch, ReclaimPending, PurgeHistory, Crash, Restart, IdleTimeout,
       TaskStep, AcquireSemaphore, RecordInbox, LoadEvent, RejectEvent, PublishUi,
       AckMessage, TaskFails, Tick

\* An order once committed stays.
LEMMA DoneStays ==
  ASSUME Inv, [Next]_vars, NEW e, Done(e)
  PROVE  Done(e)'
<1>1. PICK x \in Events : KeyOf[x] = KeyOf[e] /\ orders[x] > 0
  BY DEF Done
<1>2. orders'[x] > 0
  <2>1. ASSUME NEW t \in Tasks, CommitPipeline(t) \/ CommitAnswerLost(t)
        PROVE  orders'[x] > 0
    <3>1. CommitEffects(t)
      BY <2>1 DEF CommitPipeline, CommitAnswerLost
    <3>2. orders'[x] \in {orders[x], orders[x] + 1}
      BY <3>1 DEF CommitEffects, Inv, TypeOK
    <3>. QED BY <1>1, <3>2 DEF Inv, TypeOK
  <2>. QED BY <1>1, <2>1, OrdersFrame
<1>. QED BY <1>1, <1>2 DEF Done

\* Nothing leaves the stream and the pending list before its key has an order.
LEMMA InStreamStays ==
  ASSUME Inv, NoLossInv, [Next]_vars, NEW e \in Events, InStream(e)
  PROVE  InStream(e)' \/ Done(e)
<1>1. PICK n \in 1 .. Len(stream) : stream[n] = e /\ (n > lastDelivered \/ n \in pel)
  BY DEF InStream
<1>2. ASSUME NEW w \in Workers, PumpPublish(w) PROVE InStream(e)'
  <2>1. PICK x \in Lowest(locked[w] \ sent[w], 1) : stream' = Append(stream, x)
    BY <1>2 DEF PumpPublish
  <2>2. x \in Events
    BY LowestSubset DEF Inv, TypeOK
  <2>3. n \in 1 .. Len(stream') /\ stream'[n] = e
    BY <1>1, <2>1, <2>2 DEF Inv, TypeOK
  <2>. QED BY <1>1, <1>2, <2>3 DEF PumpPublish, InStream
<1>3. ASSUME NEW w \in Workers, ConsumeBatch(w) PROVE InStream(e)'
  <2>1. n > lastDelivered => n \in (lastDelivered + 1) .. LastOfBatch \/ n > LastOfBatch
    BY BoundsAssumption DEF LastOfBatch, Inv, TypeOK
  <2>. QED BY <1>1, <1>3, <2>1 DEF ConsumeBatch, InStream
<1>4. ASSUME NEW t \in Tasks, AckMessage(t) PROVE InStream(e)' \/ Done(e)
  <2>1. CASE n = Entry(t)
    BY <1>1, <1>4, <2>1 DEF AckMessage, NoLossInv, EventOf
  <2>2. CASE n # Entry(t)
    BY <1>1, <1>4, <2>2 DEF AckMessage, InStream
  <2>. QED BY <2>1, <2>2
<1>5. ASSUME NEW w \in Workers, EnsureGroup(w) PROVE FALSE
  BY <1>5 DEF EnsureGroup, NoLossInv
<1>6. CASE stream' = stream /\ lastDelivered' = lastDelivered /\ pel' = pel
  BY <1>1, <1>6 DEF InStream
<1>. QED BY <1>2, <1>3, <1>4, <1>5, <1>6, RedisFrame

\* The entry of a task is not moved by a step.
LEMMA EventStays ==
  ASSUME Inv, [Next]_vars, NEW t \in Tasks, phase[t] # "none"
  PROVE  EventOf(t)' = EventOf(t)
<1>1. Entry(t) \in 1 .. Len(stream)
  BY TaskParts DEF Inv, Provenance, TypeOK, Entries
<1>2. ASSUME NEW w \in Workers, PumpPublish(w) PROVE EventOf(t)' = EventOf(t)
  <2>1. PICK x \in Lowest(locked[w] \ sent[w], 1) : stream' = Append(stream, x)
    BY <1>2 DEF PumpPublish
  <2>2. x \in Events
    BY LowestSubset DEF Inv, TypeOK
  <2>. QED BY <1>1, <2>1, <2>2 DEF EventOf, Inv, TypeOK
<1>3. ASSUME NEW w \in Workers, ConsumeBatch(w) \/ EnsureGroup(w)
      PROVE  EventOf(t)' = EventOf(t)
  BY <1>3 DEF ConsumeBatch, EnsureGroup, EventOf
<1>4. ASSUME NEW u \in Tasks, AckMessage(u) PROVE EventOf(t)' = EventOf(t)
  BY <1>4 DEF AckMessage, EventOf
<1>. QED BY <1>2, <1>3, <1>4, RedisFrame DEF EventOf

\* A task comes to its acknowledgement by a commit or by an inbox row it met.
LEMMA HandledEntry ==
  ASSUME Inv, [Next]_vars, NEW t \in Tasks, phase'[t] \in {"committed", "handled"}
  PROVE  \/ phase[t] \in {"committed", "handled"}
         \/ RecordInbox(t) /\ InboxHas(DedupeKey(t))
         \/ CommitPipeline(t)
<1>1. ASSUME NEW u \in Tasks, TaskStep(u) \/ CommitAnswerLost(u) \/ TaskFails(u)
      PROVE  \/ phase[t] \in {"committed", "handled"}
             \/ RecordInbox(t) /\ InboxHas(DedupeKey(t))
             \/ CommitPipeline(t)
  <2>0. ASSUME NEW ph, Goto(u, ph)
        PROVE  phase'[t] = IF t = u THEN ph ELSE phase[t]
    BY <2>0 DEF Goto, Inv, TypeOK
  <2>1. CASE RecordInbox(u)
    BY <2>0, <2>1 DEF RecordInbox
  <2>2. CASE AcquireSemaphore(u) \/ LoadEvent(u) \/ AckMessage(u)
    BY <2>0, <2>2 DEF AcquireSemaphore, LoadEvent, AckMessage
  <2>3. CASE PublishUi(u)
    BY <2>0, <2>3 DEF PublishUi
  <2>4. CASE CommitPipeline(u)
    BY <2>0, <2>4 DEF CommitPipeline
  <2>5. CASE CommitAnswerLost(u) \/ RejectEvent(u) \/ TaskFails(u)
    BY <2>0, <2>5 DEF CommitAnswerLost, RejectEvent, TaskFails, AfterFailure
  <2>. QED BY <1>1, <2>1, <2>2, <2>3, <2>4, <2>5 DEF TaskStep
<1>2. ASSUME NEW w \in Workers, ConsumeBatch(w) PROVE phase[t] \in {"committed", "handled"}
  BY <1>2, BatchTasks DEF ConsumeBatch
<1>3. ASSUME NEW w \in Workers, ReclaimPending(w) PROVE phase[t] \in {"committed", "handled"}
  BY <1>3, BatchTasks DEF ReclaimPending
<1>4. ASSUME NEW w \in Workers, Crash(w) PROVE phase[t] \in {"committed", "handled"}
  BY <1>4 DEF Crash
<1>5. CASE UNCHANGED phase
  BY <1>5
<1>. QED BY <1>1, <1>2, <1>3, <1>4, <1>5
     DEF Next, vars, taskVars, ReceiveWebhook, ConsumeStep, PumpSelect, PumpPublish,
         PumpCommit, EnsureGroup, PurgeHistory, Restart, IdleTimeout, Tick

\* A task that will be acknowledged is about a key that has an order.
LEMMA HandledIsDone ==
  ASSUME Inv, NoLossInv, [Next]_vars, NEW t \in Tasks, phase'[t] \in {"committed", "handled"}
  PROVE  Done(EventOf(t))'
<1>1. phase[t] # "none"
  BY HandledEntry DEF RecordInbox, CommitPipeline, CommitEffects
<1>2. PICK e \in Events : e = EventOf(t)
  BY <1>1, TaskEvent DEF Inv
<1>3. EventOf(t)' = e
  BY <1>1, <1>2, EventStays
<1>4. SUFFICES Done(e)'
  BY <1>3 DEF Done
<1>5. CASE phase[t] \in {"committed", "handled"}
  BY <1>2, <1>5, DoneStays DEF NoLossInv
<1>6. CASE InboxHas(DedupeKey(t))
  <2>1. PICK m \in inbox : m.key = KeyOf[e]
    BY <1>2, <1>6 DEF InboxHas, InboxKeys, DedupeKey
  <2>2. Done(e)
    BY <2>1 DEF NoLossInv, Done
  <2>. QED BY <2>2, DoneStays
<1>7. CASE CommitPipeline(t)
  <2>1. orders'[e] = orders[e] + 1
    BY <1>2, <1>7 DEF CommitPipeline, CommitEffects, Inv, TypeOK
  <2>. QED BY <2>1 DEF Done, Inv, TypeOK
<1>. QED BY <1>5, <1>6, <1>7, HandledEntry

LEMMA NoLossStep ==
  ASSUME Inv, NoLossInv, [Next]_vars
  PROVE  NoLossInv'
<1>1. groupExists'
  BY DEF NoLossInv, Next, vars, redisVars, ReceiveWebhook, ConsumeStep, PumpSelect, PumpPublish,
         PumpCommit, EnsureGroup, ConsumeBatch, ReclaimPending, PurgeHistory, Crash, Restart,
         IdleTimeout, TaskStep, AcquireSemaphore, RecordInbox, LoadEvent, CommitPipeline,
         CommitAnswerLost, CommitEffects, RejectEvent, PublishUi, AckMessage, TaskFails, Tick
<1>2. ASSUME NEW m \in inbox' PROVE (\E e \in Events : KeyOf[e] = m.key /\ orders[e] > 0)'
  <2>1. CASE m \in inbox
    <3>1. PICK e \in Events : KeyOf[e] = m.key /\ orders[e] > 0
      BY <2>1 DEF NoLossInv
    <3>2. Done(e)'
      BY <3>1, DoneStays DEF Done
    <3>. QED BY <3>1, <3>2 DEF Done
  <2>2. ASSUME NEW t \in Tasks, CommitEffects(t), m = Marker(t)
        PROVE  (\E e \in Events : KeyOf[e] = m.key /\ orders[e] > 0)'
    <3>1. PICK e \in Events : e = EventOf(t)
      BY <2>2, TaskEvent DEF CommitEffects, Inv
    <3>2. orders'[e] = orders[e] + 1
      BY <2>2, <3>1 DEF CommitEffects, Inv, TypeOK
    <3>3. KeyOf[e] = m.key
      BY <2>2, <3>1 DEF Marker, DedupeKey
    <3>. QED BY <3>2, <3>3 DEF Inv, TypeOK
  <2>3. m \in inbox \/ \E t \in Tasks : CommitEffects(t) /\ m = Marker(t)
    BY DEF Next, vars, dbVars, ReceiveWebhook, ConsumeStep, PumpSelect, PumpPublish,
           PumpCommit, EnsureGroup, ConsumeBatch, ReclaimPending, PurgeHistory, Kept,
           KeptMarkers, Crash, Restart, IdleTimeout, TaskStep, AcquireSemaphore, RecordInbox,
           LoadEvent, CommitPipeline, CommitAnswerLost, CommitEffects, RejectEvent, PublishUi,
           AckMessage, TaskFails, Tick
  <2>. QED BY <2>1, <2>2, <2>3
<1>3. ASSUME NEW t \in Tasks, phase'[t] \in {"committed", "handled"}
      PROVE  Done(EventOf(t))'
  BY <1>3, HandledIsDone
<1>4. ASSUME NEW w \in Workers, NEW e \in sent'[w]
      PROVE  Done(e)' \/ InStream(e)'
  <2>1. CASE e \in sent[w]
    BY <2>1, DoneStays, InStreamStays DEF NoLossInv, Inv, TypeOK
  <2>2. ASSUME NEW v \in Workers, PumpPublish(v), e \notin sent[w]
        PROVE  InStream(e)'
    <3>1. PICK x \in Lowest(locked[v] \ sent[v], 1) :
                 stream' = Append(stream, x) /\ sent' = [sent EXCEPT ![v] = @ \cup {x}]
      BY <2>2 DEF PumpPublish
    <3>2. x = e /\ x \in Events
      BY <2>2, <3>1, LowestSubset DEF Inv, TypeOK
    <3>3. /\ Len(stream) + 1 \in 1 .. Len(stream') /\ stream'[Len(stream) + 1] = e
          /\ Len(stream) + 1 > lastDelivered'
      BY <2>2, <3>1, <3>2 DEF PumpPublish, Inv, TypeOK
    <3>. QED BY <3>3 DEF InStream
  <2>3. e \in sent[w] \/ \E v \in Workers : PumpPublish(v)
    <3>1. ASSUME NEW v \in Workers, PumpCommit(v) \/ Crash(v)
          PROVE  e \in sent[w]
      BY <3>1 DEF PumpCommit, Crash, Inv, TypeOK
    <3>2. CASE UNCHANGED sent
      BY <3>2
    <3>. QED BY <3>1, <3>2
         DEF Next, vars, pumpVars, ReceiveWebhook, ConsumeStep, PumpSelect, EnsureGroup,
             ConsumeBatch, ReclaimPending, PurgeHistory, Restart, IdleTimeout, TaskStep,
             AcquireSemaphore, RecordInbox, LoadEvent, CommitPipeline, CommitAnswerLost,
             CommitEffects, RejectEvent, PublishUi, AckMessage, TaskFails, Tick
  <2>. QED BY <2>1, <2>2, <2>3
<1>5. ASSUME NEW e \in accepted'
      PROVE  Done(e)' \/ Waiting(e)'
  <2>0. e \in Events
    BY TypeStep DEF Inv, TypeOK
  <2>1. CASE e \notin accepted
    <3>1. ReceiveWebhook(e)
      BY <2>1 DEF Next, vars, ReceiveWebhook, ConsumeStep, PumpSelect, PumpPublish, PumpCommit,
             EnsureGroup, ConsumeBatch, ReclaimPending, PurgeHistory, Crash, Restart,
             IdleTimeout, TaskStep, AcquireSemaphore, RecordInbox, LoadEvent, CommitPipeline,
             CommitAnswerLost, CommitEffects, RejectEvent, PublishUi, AckMessage, TaskFails,
             Tick
    <3>. QED BY <3>1 DEF ReceiveWebhook, Waiting
  <2>2. CASE Done(e)
    BY <2>2, DoneStays
  <2>3. CASE InStream(e)
    BY <2>0, <2>3, InStreamStays, DoneStays DEF Waiting
  <2>4. ASSUME e \in unpublished, NEW w \in Workers, PumpCommit(w), e \in locked[w]
        PROVE  Done(e)' \/ InStream(e)'
    <3>1. e \in sent[w]
      BY <2>4 DEF PumpCommit
    <3>. QED BY <2>0, <3>1, InStreamStays, DoneStays DEF NoLossInv
  <2>5. CASE e \in unpublished
    <3>1. e \in unpublished' \/ \E w \in Workers : PumpCommit(w) /\ e \in locked[w]
      BY <2>5 DEF Next, vars, dbVars, ReceiveWebhook, ConsumeStep, PumpSelect, PumpPublish,
             PumpCommit, EnsureGroup, ConsumeBatch, ReclaimPending, PurgeHistory, Crash,
             Restart, IdleTimeout, TaskStep, AcquireSemaphore, RecordInbox, LoadEvent,
             CommitPipeline, CommitAnswerLost, CommitEffects, RejectEvent, PublishUi,
             AckMessage, TaskFails, Tick
    <3>. QED BY <2>4, <2>5, <3>1 DEF Waiting
  <2>. QED BY <2>1, <2>2, <2>3, <2>5 DEF NoLossInv, NoSilentLoss, Waiting
<1>. QED BY <1>1, <1>2, <1>3, <1>4, <1>5 DEF NoLossInv, NoSilentLoss

\* If the consumer group exists from the start, an accepted event whose dedupe
\* key has no order yet is in the outbox, in the stream or pending.
THEOREM NoSilentLossHolds ==
  ASSUME GroupReady = TRUE
  PROVE  Spec => []NoSilentLoss
<1>1. Init => NoLossInv
  BY DEF Init, NoLossInv, NoSilentLoss
<1>2. Inv /\ NoLossInv /\ [Next]_vars => NoLossInv'
  BY NoLossStep
<1>3. NoLossInv => NoSilentLoss
  BY DEF NoLossInv
<1>. QED BY <1>1, <1>2, <1>3, InvHolds, PTL DEF Spec

\* No entry is acknowledged before an order for its dedupe key is committed.
THEOREM AckAfterOrderHolds ==
  ASSUME GroupReady = TRUE
  PROVE  Spec => AckAfterOrder
<1>1. Init => NoLossInv
  BY DEF Init, NoLossInv, NoSilentLoss
<1>2. Inv /\ NoLossInv /\ [Next]_vars => NoLossInv'
  BY NoLossStep
<1>3. Inv /\ NoLossInv /\ [Next]_vars => [\A n \in pel \ pel' : Done(stream[n])]_vars
  <2> SUFFICES ASSUME Inv, NoLossInv, [Next]_vars, NEW n \in pel \ pel'
               PROVE  Done(stream[n])
    OBVIOUS
  <2>1. ASSUME NEW t \in Tasks, AckMessage(t) PROVE Done(stream[n])
    BY <2>1 DEF AckMessage, NoLossInv, EventOf
  <2>2. ASSUME NEW w \in Workers, PumpPublish(w) \/ ConsumeBatch(w) \/ EnsureGroup(w)
        PROVE  Done(stream[n])
    BY <2>2 DEF PumpPublish, ConsumeBatch, EnsureGroup
  <2>. QED BY <2>1, <2>2, RedisFrame
<1>. QED BY <1>1, <1>2, <1>3, InvHolds, PTL DEF Spec, AckAfterOrder
=============================================================================
