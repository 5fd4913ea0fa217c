---------------------------- MODULE EventPipeline ----------------------------
(***************************************************************************)
(* The path of a TradingView event through the system:                     *)
(*                                                                         *)
(*   receive_webhook  ->  tradingview_events + event_outbox   (one commit) *)
(*   flush_outbox     ->  Redis stream tv_events              (a worker)   *)
(*   consume_batch    ->  the pending list of group "pipeline"             *)
(*   process_pipeline_message -> inbox marker + orders        (one commit) *)
(*   ack              ->  entry leaves the pending list                    *)
(*                                                                         *)
(* Workers are processes that can die between any two steps.  A process    *)
(* runs two loops that handle messages, consume_forever ("consume") and    *)
(* reclaim_pending ("reclaim"), each starting one asyncio task per entry   *)
(* of its batch.  A task is named by its worker, its loop and its entry.   *)
(***************************************************************************)
EXTENDS Naturals, Sequences, FiniteSets

CONSTANTS
  Events,          \* ids of tradingview_events rows, ordered as the database orders them
  Keys,            \* dedupe keys
  KeyOf,           \* the dedupe key of each event: two requests may carry the same key
  Rejected,        \* events the pipeline steps raise on at every attempt
  Workers,         \* worker processes
  OutboxLimit,     \* rows flush_outbox takes in one call (limit=100)
  BatchSize,       \* settings.worker_batch_size
  Concurrency,     \* settings.worker_concurrency, one semaphore per loop
  Retention,       \* settings.retention_days, in ticks of the clock
  GroupReady,      \* does the consumer group exist when the system starts?
  MaxEntries,      \* bound: length of the stream
  MaxFaults,       \* bound: crashes, failed calls and transient pipeline errors
  MaxTime          \* bound: the clock

ASSUME EventsAssumption == Events \subseteq Nat /\ IsFiniteSet(Events)
ASSUME KeyOfAssumption == KeyOf \in [Events -> Keys]
ASSUME RejectedAssumption == Rejected \subseteq Events
ASSUME BoundsAssumption ==
  /\ OutboxLimit \in Nat \ {0}
  /\ BatchSize \in Nat \ {0}
  /\ Concurrency \in Nat \ {0}
  /\ Retention \in Nat
  /\ GroupReady \in BOOLEAN
  /\ MaxEntries \in Nat
  /\ MaxFaults \in Nat
  /\ MaxTime \in Nat

Loops == {"consume", "reclaim"}
Entries == 1 .. MaxEntries
Tasks == Workers \X Loops \X Entries

VARIABLES
  \* the database, as committed
  tvEvents,        \* rows of tradingview_events: id and received_at
  unpublished,     \* events whose event_outbox row has published_at NULL
  published,       \* the other event_outbox rows: event and published_at
  inbox,           \* rows of pipeline_inbox: dedupe key and processed_at
  orders,          \* how many times the pipeline of an event has committed an order
  \* Redis
  stream,          \* the entries of tv_events: each carries an event id
  groupExists,     \* has XGROUP CREATE succeeded?
  lastDelivered,   \* the group's last delivered entry
  pel,             \* pending entries: delivered and not acknowledged
  idle,            \* pending entries idle for pending_claim_idle_seconds
  uiUpdates,       \* how many ui_updates messages an event has produced
  \* the worker processes
  pc,              \* where consume_forever stands: "down" is a dead process
  locked,          \* outbox rows the pump's transaction has locked
  sent,            \* of these, the ones already written to the stream
  phase,           \* where a task stands in _handle_message: "none" is no task
  markedAt,        \* processed_at of the inbox row a task's transaction inserted
  \* history and bounds
  accepted,        \* events answered with 202 "accepted"
  clock,
  faults

dbVars == << tvEvents, unpublished, published, inbox, orders >>
redisVars == << stream, groupExists, lastDelivered, pel, idle, uiUpdates >>
pumpVars == << pc, locked, sent >>
taskVars == << phase, markedAt >>
vars == << dbVars, redisVars, pumpVars, taskVars, accepted, clock, faults >>

-----------------------------------------------------------------------------
Worker(t) == t[1]
Loop(t) == t[2]
Entry(t) == t[3]
EventOf(t) == stream[Entry(t)]
DedupeKey(t) == KeyOf[EventOf(t)]

Phases == {"none", "queued", "started", "marked", "loaded", "missing", "committed", "handled"}

\* Between the insert of the inbox row and the end of its transaction.
InTx == {"marked", "loaded", "missing"}

\* Inside the semaphore of _handle_message.
Running == Phases \ {"none", "queued"}

\* The k smallest members of S: ORDER BY id LIMIT k, and the order of the PEL.
Lowest(S, k) == {x \in S : Cardinality({y \in S : y < x}) < k}

EventIds == {r.id : r \in tvEvents}
OutboxEvents == unpublished \cup {r.event : r \in published}
InboxKeys == {m.key : m \in inbox}
Up(w) == pc[w] # "down"
Gathered(w, loop) == \A t \in Tasks : Worker(t) = w /\ Loop(t) = loop => phase[t] = "none"

Init ==
  /\ tvEvents = {} /\ unpublished = {} /\ published = {} /\ inbox = {}
  /\ orders = [e \in Events |-> 0]
  /\ stream = << >>
  /\ groupExists = GroupReady
  /\ lastDelivered = 0
  /\ pel = {} /\ idle = {}
  /\ uiUpdates = [e \in Events |-> 0]
  /\ pc = [w \in Workers |-> "pump"]
  /\ locked = [w \in Workers |-> {}]
  /\ sent = [w \in Workers |-> {}]
  /\ phase = [t \in Tasks |-> "none"]
  /\ markedAt = [t \in Tasks |-> 0]
  /\ accepted = {} /\ clock = 0 /\ faults = 0

-----------------------------------------------------------------------------
(* receive_webhook: the event row and its outbox row are inserted in one     *)
(* transaction.  Either unique dedupe_key already present rolls both back    *)
(* and answers "duplicate", which changes nothing.                           *)
KeyIsFree(e) == \A x \in EventIds \cup OutboxEvents : KeyOf[x] # KeyOf[e]

ReceiveWebhook(e) ==
  /\ e \notin accepted
  /\ KeyIsFree(e)
  /\ tvEvents' = tvEvents \cup {[id |-> e, at |-> clock]}
  /\ unpublished' = unpublished \cup {e}
  /\ accepted' = accepted \cup {e}
  /\ UNCHANGED << published, inbox, orders, redisVars, pumpVars, taskVars, clock, faults >>

-----------------------------------------------------------------------------
(* pump_outbox: SELECT ... FOR UPDATE SKIP LOCKED, one XADD per row through  *)
(* a pipeline that is not a Redis transaction, then published_at and commit. *)
LockedByAny == UNION {locked[w] : w \in Workers}
Selected == Lowest(unpublished \ LockedByAny, OutboxLimit)

PumpSelect(w) ==
  /\ pc[w] = "pump"
  /\ Gathered(w, "consume")
  /\ locked' = [locked EXCEPT ![w] = Selected]
  /\ pc' = [pc EXCEPT ![w] = IF Selected = {} THEN "consume" ELSE "publish"]
  /\ UNCHANGED << dbVars, redisVars, sent, taskVars, accepted, clock, faults >>

PumpPublish(w) ==
  /\ pc[w] = "publish"
  /\ Len(stream) < MaxEntries
  /\ \E e \in Lowest(locked[w] \ sent[w], 1) :
       /\ stream' = Append(stream, e)
       /\ sent' = [sent EXCEPT ![w] = @ \cup {e}]
  /\ UNCHANGED << dbVars, groupExists, lastDelivered, pel, idle, uiUpdates,
                  pc, locked, taskVars, accepted, clock, faults >>

PumpCommit(w) ==
  /\ pc[w] = "publish"
  /\ sent[w] = locked[w]
  /\ unpublished' = unpublished \ locked[w]
  /\ published' = published \cup {[event |-> e, at |-> clock] : e \in locked[w]}
  /\ locked' = [locked EXCEPT ![w] = {}]
  /\ sent' = [sent EXCEPT ![w] = {}]
  /\ pc' = [pc EXCEPT ![w] = "consume"]
  /\ UNCHANGED << tvEvents, inbox, orders, redisVars, taskVars, accepted, clock, faults >>

-----------------------------------------------------------------------------
(* The consumer group.  _ensure_group runs before every read of the group,   *)
(* by any loop of a worker, and creates it at "$": the end of the stream.    *)
GroupStart == Len(stream)

EnsureGroup(w) ==
  /\ Up(w)
  /\ ~groupExists
  /\ groupExists' = TRUE
  /\ lastDelivered' = GroupStart
  /\ UNCHANGED << dbVars, stream, pel, idle, uiUpdates, pumpVars, taskVars,
                  accepted, clock, faults >>

StartTasks(w, loop, batch) ==
  phase' = [t \in Tasks |-> IF Worker(t) = w /\ Loop(t) = loop /\ Entry(t) \in batch
                            THEN "queued" ELSE phase[t]]

\* Mutant of LastOfBatch: the batch is cut to its size, not to the stream's end.
PastTheEnd == lastDelivered + BatchSize

\* XREADGROUP with ">": new entries, which become pending.  None: a timeout.
LastOfBatch == IF lastDelivered + BatchSize <= Len(stream) THEN lastDelivered + BatchSize
                                                          ELSE Len(stream)

ConsumeBatch(w) ==
  LET batch == (lastDelivered + 1) .. LastOfBatch
  IN  /\ pc[w] = "consume"
      /\ groupExists
      /\ lastDelivered' = LastOfBatch
      /\ pel' = pel \cup batch
      /\ StartTasks(w, "consume", batch)
      /\ pc' = [pc EXCEPT ![w] = "pump"]
      /\ UNCHANGED << dbVars, stream, groupExists, idle, uiUpdates, locked, sent,
                      markedAt, accepted, clock, faults >>

\* Mutant of Claimable: nothing is ever reclaimed.
NothingClaimed == {}

\* XAUTOCLAIM from "0-0": the first idle pending entries, whoever holds them.
Claimable == Lowest(idle, BatchSize)

ReclaimPending(w) ==
  /\ Up(w)
  /\ groupExists
  /\ Gathered(w, "reclaim")
  /\ Claimable # {}
  /\ idle' = idle \ Claimable
  /\ StartTasks(w, "reclaim", Claimable)
  /\ UNCHANGED << dbVars, stream, groupExists, lastDelivered, pel, uiUpdates,
                  pumpVars, markedAt, accepted, clock, faults >>

\* Time passes: a pending entry, its handler dead or only slow, becomes claimable.
IdleTimeout(n) ==
  /\ n \in pel \ idle
  /\ idle' = idle \cup {n}
  /\ UNCHANGED << dbVars, stream, groupExists, lastDelivered, pel, uiUpdates,
                  pumpVars, taskVars, accepted, clock, faults >>

-----------------------------------------------------------------------------
(* _handle_message and process_pipeline_message.                             *)
Goto(t, ph) == phase' = [phase EXCEPT ![t] = ph]

\* Mutants of the two: a failure that is acknowledged, a duplicate that is not.
FailureAcked == "handled"
DuplicateKept == "none"

\* process_pipeline_message returns True for a duplicate, which is acknowledged,
\* and False for a failure, which stays pending.
AfterDuplicate == "handled"
AfterFailure == "none"

\* async with semaphore
AcquireSemaphore(t) ==
  /\ phase[t] = "queued"
  /\ Cardinality({u \in Tasks : Worker(u) = Worker(t) /\ Loop(u) = Loop(t)
                                /\ phase[u] \in Running}) < Concurrency
  /\ Goto(t, "started")
  /\ UNCHANGED << dbVars, redisVars, pumpVars, markedAt, accepted, clock, faults >>

\* Mutants: a dirty read of the markers of open transactions, an insert that
\* does not wait for them, and a window for the inbox shorter than the events'.
DirtyInboxHas(k) == k \in InboxKeys \/ \E u \in Tasks : phase[u] \in InTx /\ DedupeKey(u) = k
NeverBlocked(t) == FALSE
ShortWindow == {m \in inbox : m.at >= clock}

\* record_inbox.  A committed row with the key makes the insert fail; a row of
\* a transaction that is still open makes it wait for the end of that one.
InboxHas(k) == k \in InboxKeys
InsertBlocked(t) == \E u \in Tasks \ {t} : phase[u] \in InTx /\ DedupeKey(u) = DedupeKey(t)

RecordInbox(t) ==
  /\ phase[t] = "started"
  /\ IF InboxHas(DedupeKey(t))
     THEN Goto(t, AfterDuplicate) /\ UNCHANGED markedAt
     ELSE /\ ~InsertBlocked(t)
          /\ Goto(t, "marked")
          /\ markedAt' = [markedAt EXCEPT ![t] = clock]
  /\ UNCHANGED << dbVars, redisVars, pumpVars, accepted, clock, faults >>

\* The event row, if purge_history has left it.
LoadEvent(t) ==
  /\ phase[t] = "marked"
  /\ Goto(t, IF EventOf(t) \in EventIds THEN "loaded" ELSE "missing")
  /\ UNCHANGED << dbVars, redisVars, pumpVars, markedAt, accepted, clock, faults >>

\* The steps succeed and the transaction commits: marker and order together.
Marker(t) == [key |-> DedupeKey(t), at |-> markedAt[t]]

CommitEffects(t) ==
  /\ phase[t] = "loaded"
  /\ EventOf(t) \notin Rejected
  /\ inbox' = inbox \cup {Marker(t)}
  /\ orders' = [orders EXCEPT ![EventOf(t)] = @ + 1]
  /\ markedAt' = [markedAt EXCEPT ![t] = 0]
  /\ UNCHANGED << tvEvents, unpublished, published, redisVars, pumpVars, accepted, clock >>

CommitPipeline(t) == CommitEffects(t) /\ Goto(t, "committed") /\ UNCHANGED faults

\* The commit reaches the database, its answer does not reach the worker.
CommitAnswerLost(t) ==
  /\ faults < MaxFaults
  /\ faults' = faults + 1
  /\ CommitEffects(t)
  /\ Goto(t, "none")

\* A step raises: everything is rolled back and the message is not acknowledged.
\* Without its event row the snapshot step has no symbol.
RejectEvent(t) ==
  /\ phase[t] \in {"loaded", "missing"}
  /\ \/ (phase[t] = "missing" \/ EventOf(t) \in Rejected) /\ UNCHANGED faults
     \/ faults < MaxFaults /\ faults' = faults + 1
  /\ Goto(t, AfterFailure)
  /\ markedAt' = [markedAt EXCEPT ![t] = 0]
  /\ UNCHANGED << dbVars, redisVars, pumpVars, accepted, clock >>

PublishUi(t) ==
  /\ phase[t] = "committed"
  /\ uiUpdates' = [uiUpdates EXCEPT ![EventOf(t)] = @ + 1]
  /\ Goto(t, "handled")
  /\ UNCHANGED << dbVars, stream, groupExists, lastDelivered, pel, idle,
                  pumpVars, markedAt, accepted, clock, faults >>

AckMessage(t) ==
  /\ phase[t] = "handled"
  /\ pel' = pel \ {Entry(t)}
  /\ idle' = idle \ {Entry(t)}
  /\ Goto(t, "none")
  /\ UNCHANGED << dbVars, stream, groupExists, lastDelivered, uiUpdates,
                  pumpVars, markedAt, accepted, clock, faults >>

-----------------------------------------------------------------------------
(* Faults.  A call to Redis or the database that raises outside the try of   *)
(* process_pipeline_message ends the process when consume_forever made it,   *)
(* and only the task when run_loop catches it.  A dead process loses its     *)
(* tasks, and the database rolls back its open transactions.                 *)
TaskFails(t) ==
  /\ faults < MaxFaults
  /\ Loop(t) = "reclaim"
  /\ phase[t] \in Running \ {"loaded", "missing"}
  /\ Goto(t, "none")
  /\ markedAt' = [markedAt EXCEPT ![t] = 0]
  /\ faults' = faults + 1
  /\ UNCHANGED << dbVars, redisVars, pumpVars, accepted, clock >>

Crash(w) ==
  /\ Up(w)
  /\ faults < MaxFaults
  /\ pc' = [pc EXCEPT ![w] = "down"]
  /\ locked' = [locked EXCEPT ![w] = {}]
  /\ sent' = [sent EXCEPT ![w] = {}]
  /\ phase' = [t \in Tasks |-> IF Worker(t) = w THEN "none" ELSE phase[t]]
  /\ markedAt' = [t \in Tasks |-> IF Worker(t) = w THEN 0 ELSE markedAt[t]]
  /\ faults' = faults + 1
  /\ UNCHANGED << dbVars, redisVars, accepted, clock >>

Restart(w) ==
  /\ ~Up(w)
  /\ pc' = [pc EXCEPT ![w] = "pump"]
  /\ UNCHANGED << dbVars, redisVars, locked, sent, taskVars, accepted, clock, faults >>

-----------------------------------------------------------------------------
(* purge_history, one transaction with one cutoff for the three tables.      *)
Kept(rows) == {r \in rows : r.at + Retention >= clock}
KeptMarkers == Kept(inbox)

PurgeHistory(w) ==
  /\ Up(w)
  /\ published' = Kept(published)
  /\ inbox' = KeptMarkers
  /\ tvEvents' = Kept(tvEvents)
  /\ UNCHANGED << unpublished, orders, redisVars, pumpVars, taskVars, accepted, clock, faults >>

Tick ==
  /\ clock < MaxTime
  /\ clock' = clock + 1
  /\ UNCHANGED << dbVars, redisVars, pumpVars, taskVars, accepted, faults >>

-----------------------------------------------------------------------------
TaskStep(t) ==
  \/ AcquireSemaphore(t) \/ RecordInbox(t) \/ LoadEvent(t) \/ CommitPipeline(t)
  \/ RejectEvent(t) \/ PublishUi(t) \/ AckMessage(t)

ConsumeStep(w) == PumpSelect(w) \/ PumpPublish(w) \/ PumpCommit(w) \/ ConsumeBatch(w)

Next ==
  \/ \E e \in Events : ReceiveWebhook(e)
  \/ \E w \in Workers : \/ ConsumeStep(w) \/ EnsureGroup(w) \/ ReclaimPending(w)
                        \/ PurgeHistory(w) \/ Crash(w) \/ Restart(w)
  \/ \E n \in Entries : IdleTimeout(n)
  \/ \E t \in Tasks : TaskStep(t) \/ CommitAnswerLost(t) \/ TaskFails(t)
  \/ Tick

Spec == Init /\ [][Next]_vars

\* The event loop of a live process runs every ready coroutine, the loops are
\* endless, and time passes.  Nothing restarts a dead worker: docker-compose.yml
\* gives the worker no restart policy, so Restart is not fair.
Fairness ==
  /\ \A w \in Workers : /\ WF_vars(ConsumeStep(w))
                        /\ WF_vars(EnsureGroup(w))
                        /\ WF_vars(ReclaimPending(w))
  /\ \A n \in Entries : WF_vars(IdleTimeout(n))
  /\ \A t \in Tasks : WF_vars(TaskStep(t))

FairSpec == Spec /\ Fairness

-----------------------------------------------------------------------------
TypeOK ==
  /\ tvEvents \subseteq [id : Events, at : Nat]
  /\ unpublished \subseteq Events
  /\ published \subseteq [event : Events, at : Nat]
  /\ inbox \subseteq [key : Keys, at : Nat]
  /\ orders \in [Events -> Nat]
  /\ stream \in Seq(Events)
  /\ Len(stream) <= MaxEntries
  /\ groupExists \in BOOLEAN
  /\ lastDelivered \in 0 .. Len(stream)
  /\ pel \subseteq 1 .. lastDelivered
  /\ idle \subseteq pel
  /\ uiUpdates \in [Events -> Nat]
  /\ pc \in [Workers -> {"pump", "publish", "consume", "down"}]
  /\ locked \in [Workers -> SUBSET Events]
  /\ sent \in [Workers -> SUBSET Events]
  /\ phase \in [Tasks -> Phases]
  /\ markedAt \in [Tasks -> Nat]
  /\ accepted \subseteq Events
  /\ clock \in Nat
  /\ faults \in Nat

\* The pipeline of an event commits at most one order, however often its entry
\* is published, delivered, claimed and retried, and although purge_history
\* deletes the inbox rows that record_inbox relies on.
AtMostOnce == \A e \in Events : orders[e] <= 1

\* An order has been committed for the event or for another with its dedupe key.
Done(e) == \E x \in Events : KeyOf[x] = KeyOf[e] /\ orders[x] > 0

InStream(e) == \E n \in 1 .. Len(stream) : stream[n] = e /\ (n > lastDelivered \/ n \in pel)
Waiting(e) == e \in unpublished \/ InStream(e)

\* An event answered with "accepted" is not forgotten: until its dedupe key has
\* an order it is in the outbox, ahead of the group in the stream, or pending.
NoSilentLoss == \A e \in accepted : Done(e) \/ Waiting(e)

\* _handle_message acknowledges an entry only when its dedupe key has an order.
AckAfterOrder == [][\A n \in pel \ pel' : Done(stream[n])]_vars

\* Every accepted event that can be executed is, as long as one worker lives.
EventuallyExecuted == \A e \in Events \ Rejected : e \in accepted ~> orders[e] = 1

\* reclaim_pending: "Reprocess messages stranded by consumers that died
\* mid-message."  An entry that can be executed does not stay pending.
PendingDrains == \A n \in Entries : (n \in pel /\ stream[n] \notin Rejected) ~> n \notin pel

\* What the pipeline promises: see EffectivelyOnce.
Promise == INSTANCE EffectivelyOnce
             WITH Events <- Events, accepted <- accepted, orders <- orders, uiUpdates <- uiUpdates
ImplementsPromise == Promise!Spec
-----------------------------------------------------------------------------
(* The inductive invariant of the proofs: what the tables, the stream and    *)
(* the tasks have to say about each other for AtMostOnce to survive a step.  *)

\* Every row, entry and task is about an event that was accepted.
Provenance ==
  /\ EventIds \subseteq accepted
  /\ unpublished \subseteq accepted
  /\ \A w \in Workers : /\ sent[w] \subseteq locked[w]
                        /\ locked[w] \subseteq accepted
                        /\ pc[w] # "publish" => locked[w] = {}
  /\ \A n \in 1 .. Len(stream) : stream[n] \in accepted
  /\ \A t \in Tasks : phase[t] # "none" => Entry(t) <= lastDelivered
  /\ \A e \in Events : orders[e] > 0 => e \in accepted

\* A row is not stamped in the future, nor an inbox row before its event's row.
Stamps ==
  /\ \A r \in tvEvents : r.at <= clock
  /\ \A t \in Tasks : phase[t] \in InTx =>
       \A r \in tvEvents : r.id = EventOf(t) => r.at <= markedAt[t]

\* One open transaction per dedupe key, none for a key the inbox already has.
TxExclusive ==
  /\ \A t, u \in Tasks : phase[t] \in InTx /\ phase[u] \in InTx
                          /\ DedupeKey(t) = DedupeKey(u) => t = u
  /\ \A t \in Tasks : phase[t] \in InTx => ~InboxHas(DedupeKey(t))

\* As long as the row of an executed event can be loaded, an inbox row that is
\* no older, and so not purged before it, stands in the way of a second order.
MarkerOutlivesRow ==
  \A e \in Events : orders[e] > 0 =>
    \A r \in tvEvents : r.id = e => \E m \in inbox : m.key = KeyOf[e] /\ r.at <= m.at

LoadedIsFresh == \A t \in Tasks : phase[t] = "loaded" => orders[EventOf(t)] = 0

\* A task about to publish is the only one for its event and the first to do so.
UiFollowsOrder ==
  /\ \A e \in Events : uiUpdates[e] <= orders[e]
  /\ \A t \in Tasks : phase[t] = "committed" =>
       orders[EventOf(t)] = 1 /\ uiUpdates[EventOf(t)] = 0
  /\ \A t, u \in Tasks : phase[t] = "committed" /\ phase[u] = "committed"
                          /\ EventOf(t) = EventOf(u) => t = u

Inv ==
  /\ TypeOK /\ Provenance /\ Stamps /\ TxExclusive /\ MarkerOutlivesRow
  /\ LoadedIsFresh /\ UiFollowsOrder /\ AtMostOnce

\* What NoSilentLoss needs besides.
NoLossInv ==
  /\ groupExists
  /\ \A m \in inbox : \E e \in Events : KeyOf[e] = m.key /\ orders[e] > 0
  /\ \A t \in Tasks : phase[t] \in {"committed", "handled"} => Done(EventOf(t))
  /\ \A w \in Workers : \A e \in sent[w] : Done(e) \/ InStream(e)
  /\ NoSilentLoss
=============================================================================
