----------------------------- MODULE UiBroadcast -----------------------------
(***************************************************************************)
(* ui_updates on its way to the websocket clients of one server process.   *)
(* UiBroadcaster keeps one reader task for all clients; it reads the Redis *)
(* stream with XREAD and puts each entry in the bounded queue of every     *)
(* subscriber.  The websocket handlers take the messages out again and     *)
(* send them.  Entries are numbered 1, 2, ... as they are published.       *)
(***************************************************************************)
EXTENDS Integers, Sequences

CONSTANTS
  Clients,         \* websocket connections, one at a time under each name
  Attentive,       \* those whose browser takes what is sent to it
  QueueSize,       \* queue_size
  Count,           \* entries XREAD returns at most
  MaxPublished,    \* bound: length of the stream
  MaxFaults        \* bound: readers that fail

ASSUME ClientsAssumption == Attentive \subseteq Clients
ASSUME SizesAssumption == QueueSize \in Nat \ {0} /\ Count \in Nat \ {0}
ASSUME BoundsAssumption == MaxPublished \in Nat /\ MaxFaults \in Nat

VARIABLES
  published,       \* the entries of ui_updates are 1 .. published
  reader,          \* where _read_forever stands
  lastId,          \* last_id of iter_broadcast
  after, upto,     \* XREAD waits for entries behind after; it has those to upto
  subscribers,     \* UiBroadcaster._subscribers
  conn,            \* where the handler ws_updates stands
  queue,           \* the queue of its subscription
  inHand,          \* the message it is sending
  \* history and bounds
  handed,          \* what was put in the queue of a connection
  received,        \* what a client has received, over all its connections
  faults

readerVars == << reader, lastId, after, upto >>
clientVars == << subscribers, conn, queue, inHand >>
historyVars == << handed, received, faults >>
vars == << published, readerVars, clientVars, historyVars >>

Dollar == -1       \* the id "$": whatever comes after the call

\* "none" is a broadcaster without a reader; "failed" is a task that is done.
Readers == {"none", "idle", "blocked", "answered", "failed", "cancelled"}
Alive == {"idle", "blocked", "answered"}

Least(a, b) == IF a < b THEN a ELSE b

Init ==
  /\ published = 0
  /\ reader = "none" /\ lastId = Dollar /\ after = 0 /\ upto = 0
  /\ subscribers = {}
  /\ conn = [c \in Clients |-> "off"]
  /\ queue = [c \in Clients |-> << >>]
  /\ inHand = [c \in Clients |-> 0]
  /\ handed = [c \in Clients |-> << >>]
  /\ received = [c \in Clients |-> << >>]
  /\ faults = 0

-----------------------------------------------------------------------------
(* RedisStreamBus.publish and iter_broadcast.                                *)

\* An XREAD that is blocked answers with the entry that is added.
Publish ==
  /\ published < MaxPublished
  /\ published' = published + 1
  /\ IF reader = "blocked"
     THEN reader' = "answered" /\ upto' = published + 1
     ELSE UNCHANGED << reader, upto >>
  /\ UNCHANGED << lastId, after, clientVars, historyVars >>

\* "$" is the end of the stream at the time of each call.
Xread ==
  LET from == IF lastId = Dollar THEN published ELSE lastId
  IN  /\ reader = "idle"
      /\ after' = from
      /\ upto' = Least(from + Count, published)
      /\ reader' = IF from < published THEN "answered" ELSE "blocked"
      /\ UNCHANGED << published, lastId, clientVars, historyVars >>

\* Nothing came for a second: the loop calls XREAD again, with the same last_id.
BlockTimeout ==
  /\ reader = "blocked"
  /\ reader' = "idle"
  /\ UNCHANGED << published, lastId, after, upto, clientVars, historyVars >>

-----------------------------------------------------------------------------
(* UiBroadcaster.                                                            *)
Batch == [i \in 1 .. upto - after |-> after + i]

\* Mutants of Newest: the queue has no bound; what does not fit is dropped.
Everything(q) == q
Oldest(q) == SubSeq(q, 1, Least(Len(q), QueueSize))

\* A full queue loses its oldest message for the new one.
Newest(q) == SubSeq(q, Len(q) + 1 - Least(Len(q), QueueSize), Len(q))

\* Mutant of PutNowait: put instead of put_nowait.
WaitsForRoom == \A c \in subscribers : Len(queue[c] \o Batch) <= QueueSize
PutNowait == TRUE

\* There is no await between the entries of an answer.
HandOut ==
  /\ reader = "answered"
  /\ PutNowait
  /\ reader' = "idle"
  /\ lastId' = upto
  /\ queue' = [c \in Clients |-> IF c \in subscribers THEN Newest(queue[c] \o Batch) ELSE queue[c]]
  /\ handed' = [c \in Clients |-> IF c \in subscribers THEN handed[c] \o Batch ELSE handed[c]]
  /\ UNCHANGED << published, after, upto, subscribers, conn, inHand, received, faults >>

\* Redis is away, or an entry cannot be decoded: the exception is logged, the
\* task ends, and the subscribers stay.
ReaderFails ==
  /\ reader \in Alive
  /\ faults < MaxFaults
  /\ reader' = "failed"
  /\ faults' = faults + 1
  /\ UNCHANGED << published, lastId, after, upto, clientVars, handed, received >>

\* Mutants of FirstId: a new reader starts with the whole stream.
FromTheStart == 0
FirstId == Dollar

\* The handler of a new connection subscribes; the first to do so, or the first
\* after the reader has ended, starts a reader.
Subscribe(c) ==
  /\ conn[c] = "off"
  /\ conn' = [conn EXCEPT ![c] = "waiting"]
  /\ subscribers' = subscribers \cup {c}
  /\ queue' = [queue EXCEPT ![c] = << >>]
  /\ handed' = [handed EXCEPT ![c] = << >>]
  /\ IF reader \in {"none", "failed"}
     THEN reader' = "idle" /\ lastId' = FirstId
     ELSE UNCHANGED << reader, lastId >>
  /\ UNCHANGED << published, after, upto, inHand, received, faults >>

\* close: the task is cancelled and awaited, then the subscribers are forgotten.
CancelReader ==
  /\ reader \in Alive \cup {"failed"}
  /\ reader' = "cancelled"
  /\ UNCHANGED << published, lastId, after, upto, clientVars, historyVars >>

FinishClose ==
  /\ reader = "cancelled"
  /\ reader' = "none"
  /\ subscribers' = {}
  /\ UNCHANGED << published, lastId, after, upto, conn, queue, inHand, historyVars >>

-----------------------------------------------------------------------------
(* ws_updates.                                                               *)
Take(c) ==
  /\ conn[c] = "waiting"
  /\ queue[c] # << >>
  /\ conn' = [conn EXCEPT ![c] = "sending"]
  /\ inHand' = [inHand EXCEPT ![c] = Head(queue[c])]
  /\ queue' = [queue EXCEPT ![c] = Tail(@)]
  /\ UNCHANGED << published, readerVars, subscribers, historyVars >>

Sent(c) ==
  /\ conn[c] = "sending"
  /\ conn' = [conn EXCEPT ![c] = "waiting"]
  /\ received' = [received EXCEPT ![c] = Append(@, inHand[c])]
  /\ inHand' = [inHand EXCEPT ![c] = 0]
  /\ UNCHANGED << published, readerVars, subscribers, queue, handed, faults >>

\* The handler learns that the client is gone when it sends, and only then.
SendFails(c) ==
  /\ conn[c] = "sending"
  /\ conn' = [conn EXCEPT ![c] = "off"]
  /\ subscribers' = subscribers \ {c}
  /\ inHand' = [inHand EXCEPT ![c] = 0]
  /\ UNCHANGED << published, readerVars, queue, historyVars >>

Next ==
  \/ Publish \/ Xread \/ BlockTimeout \/ HandOut \/ ReaderFails
  \/ CancelReader \/ FinishClose
  \/ \E c \in Clients : Subscribe(c) \/ Take(c) \/ Sent(c) \/ SendFails(c)

Spec == Init /\ [][Next]_vars

\* The event loop runs the reader and the handlers that have something to do;
\* only an attentive client is sure to take what is sent to it.
Fairness ==
  /\ WF_vars(Xread) /\ WF_vars(HandOut)
  /\ \A c \in Attentive : WF_vars(Take(c)) /\ WF_vars(Sent(c))

FairSpec == Spec /\ Fairness

-----------------------------------------------------------------------------
TypeOK ==
  /\ published \in 0 .. MaxPublished
  /\ reader \in Readers
  /\ lastId \in {Dollar} \cup 0 .. published
  /\ after \in 0 .. published /\ upto \in 0 .. published
  /\ subscribers \subseteq Clients
  /\ conn \in [Clients -> {"off", "waiting", "sending"}]
  /\ queue \in [Clients -> Seq(1 .. published)]
  /\ \A c \in Clients : Len(queue[c]) <= QueueSize
  /\ inHand \in [Clients -> 0 .. published]
  /\ handed \in [Clients -> Seq(1 .. published)]
  /\ received \in [Clients -> Seq(1 .. published)]
  /\ faults \in 0 .. MaxFaults

Members(s) == {s[i] : i \in DOMAIN s}

\* UiBroadcaster: "Slow clients get their oldest messages dropped".  A message
\* that was put in the queue of a connected client has reached the client or its
\* handler, or it still waits, or a full queue of newer ones has replaced it.
OnlyOldestDropped ==
  \A c \in subscribers : \A i \in DOMAIN handed[c] :
    \/ i <= Len(handed[c]) - QueueSize
    \/ handed[c][i] \in Members(queue[c]) \cup Members(received[c]) \cup {inHand[c]}

\* "... instead of stalling the shared reader": what the reader has read while
\* an attentive client is subscribed is overtaken by what that client receives,
\* whatever the others do, unless the reader or the subscription ends first.
Caught(c, n) == received[c] # << >> /\ received[c][Len(received[c])] >= n
SlowClientsDoNotStall ==
  \A c \in Attentive, n \in 1 .. MaxPublished :
    (reader = "answered" /\ upto = n /\ c \in subscribers)
      ~> (Caught(c, n) \/ c \notin subscribers \/ reader \notin Alive)

\* No client receives a message twice or after a newer one, over all its
\* connections and whatever readers have come and gone: see LossyFeed.
Feed == INSTANCE LossyFeed
  WITH latest <- [c \in Clients |-> IF received[c] = << >> THEN 0
                                    ELSE received[c][Len(received[c])]]
ImplementsFeed == Feed!Spec
=============================================================================
