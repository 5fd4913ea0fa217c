--------------------------- MODULE UiBroadcastProofs ---------------------------
(***************************************************************************)
(* Theorems about UiBroadcast, for any number of clients, any queue size   *)
(* and any length of XREAD's answers: what a client receives is newer each *)
(* time, whatever readers come and go, and only a full queue loses         *)
(* messages, its oldest ones.                                              *)
(***************************************************************************)
EXTENDS UiBroadcast, SequenceTheorems, TLAPS

\* Whatever is handed out next is newer than this entry.
Mark ==
  IF reader \in {"blocked", "answered"} THEN after
  ELSE IF reader = "idle" /\ lastId # Dollar THEN lastId ELSE published

LastOf(s) == IF s = << >> THEN 0 ELSE s[Len(s)]
Last(c) == LastOf(received[c])

ReaderInv ==
  /\ reader \in {"blocked", "answered"} /\ lastId # Dollar => after = lastId
  /\ reader = "answered" => after <= upto

\* What a client has received, what its handler sends and what its queue holds
\* were published in this order, and before anything that is still to come.
Rising(q) == \A i, j \in 1 .. Len(q) : i < j => q[i] < q[j]
InOrder(c) ==
  /\ Rising(queue[c])
  /\ \A i \in 1 .. Len(queue[c]) :
       Last(c) < queue[c][i] /\ inHand[c] < queue[c][i] /\ queue[c][i] <= Mark
  /\ Last(c) <= Mark /\ inHand[c] <= Mark
  /\ conn[c] = "sending" => Last(c) < inHand[c]

HandInv == \A c \in Clients : inHand[c] > 0 <=> conn[c] = "sending"

\* A queue is the end of what was handed to its client, and what came before is
\* received, in hand, or older than a full queue.
EndOf(q, s) ==
  /\ Len(q) <= Len(s)
  /\ \A j \in 1 .. Len(q) : q[j] = s[Len(s) - Len(q) + j]
Accounted(c) ==
  /\ EndOf(queue[c], handed[c])
  /\ \A i \in 1 .. Len(handed[c]) - Len(queue[c]) :
       \/ i <= Len(handed[c]) - QueueSize
       \/ handed[c][i] \in Members(received[c]) \cup {inHand[c]}

OrderInv == TypeOK /\ HandInv /\ ReaderInv /\ \A c \in Clients : InOrder(c)
FeedInv ==
  /\ OrderInv
  /\ \A c \in subscribers : Accounted(c)

-----------------------------------------------------------------------------
(* Sequences of entries.                                                     *)

LEMMA SeqOfFunction ==
  ASSUME NEW S, NEW n \in Nat, NEW f \in [1 .. n -> S]
  PROVE  f \in Seq(S) /\ Len(f) = n
OBVIOUS

LEMMA NewestOf ==
  ASSUME NEW S, NEW q \in Seq(S)
  PROVE  /\ Newest(q) \in Seq(S)
         /\ Len(Newest(q)) = Least(Len(q), QueueSize)
         /\ \A j \in 1 .. Len(Newest(q)) : Newest(q)[j] = q[Len(q) - Len(Newest(q)) + j]
<1> DEFINE k == Least(Len(q), QueueSize)
<1>1. Len(q) \in Nat /\ k \in 0 .. Len(q)
  BY SizesAssumption DEF Least
<1>2. Newest(q) = SubSeq(q, Len(q) + 1 - k, Len(q))
  BY DEF Newest
<1> HIDE DEF k
<1>3. /\ Newest(q) \in Seq(S)
      /\ Len(Newest(q)) = k
      /\ \A j \in 1 .. k : Newest(q)[j] = q[Len(q) + 1 - k + j - 1]
  BY <1>1, <1>2, SubSeqProperties
<1> QED
  BY <1>1, <1>3 DEF k

LEMMA Joined ==
  ASSUME NEW S, NEW q \in Seq(S), NEW r \in Seq(S)
  PROVE  /\ q \o r \in Seq(S)
         /\ Len(q \o r) = Len(q) + Len(r)
         /\ \A i \in 1 .. Len(q) : (q \o r)[i] = q[i]
         /\ \A i \in 1 .. Len(r) : (q \o r)[Len(q) + i] = r[i]
OBVIOUS

LEMMA BatchOf ==
  ASSUME TypeOK
  PROVE  /\ Batch \in Seq(1 .. published)
         /\ after <= upto => Len(Batch) = upto - after
         /\ \A i \in 1 .. Len(Batch) : Batch[i] = after + i /\ after + i <= upto
<1>1. after \in 0 .. published /\ upto \in 0 .. published /\ published \in Nat
  BY BoundsAssumption DEF TypeOK
<1>2. CASE after <= upto
  <2>1. upto - after \in Nat
    BY <1>1, <1>2
  <2>2. \A i \in 1 .. upto - after : after + i \in 1 .. published
    BY <1>1, <1>2
  <2>3. Batch \in [1 .. upto - after -> 1 .. published]
    BY <2>2 DEF Batch
  <2>4. Batch \in Seq(1 .. published) /\ Len(Batch) = upto - after
    BY <2>1, <2>3, SeqOfFunction
  <2> QED
    BY <1>1, <2>1, <2>4 DEF Batch
<1>3. CASE upto < after
  <2>1. 1 .. upto - after = {}
    BY <1>1, <1>3
  <2>2. Batch = << >>
    BY <2>1 DEF Batch
  <2> QED
    BY <1>1, <1>3, <2>2
<1> QED
  BY <1>1, <1>2, <1>3

-----------------------------------------------------------------------------
(* Types.                                                                    *)

LEMMA InitTypes == Init => TypeOK
BY BoundsAssumption, SizesAssumption DEF Init, TypeOK, Readers, Dollar

\* What the steps of the reader leave to it.
LEMMA ReaderTypes ==
  ASSUME TypeOK, Xread \/ BlockTimeout \/ ReaderFails \/ CancelReader \/ FinishClose
  PROVE  TypeOK'
<1>1. CASE Xread
  <2>1. published \in Nat /\ Count \in Nat
    BY BoundsAssumption, SizesAssumption DEF TypeOK
  <2> QED
    BY <1>1, <2>1 DEF TypeOK, Xread, clientVars, historyVars, Least, Readers, Dollar
<1>2. CASE BlockTimeout
  BY <1>2 DEF TypeOK, BlockTimeout, clientVars, historyVars, Readers
<1>3. CASE ReaderFails
  BY <1>3, BoundsAssumption DEF TypeOK, ReaderFails, clientVars, Readers
<1>4. CASE CancelReader
  BY <1>4 DEF TypeOK, CancelReader, clientVars, historyVars, Readers
<1>5. CASE FinishClose
  BY <1>5 DEF TypeOK, FinishClose, historyVars, Readers
<1> QED
  BY <1>1, <1>2, <1>3, <1>4, <1>5

LEMMA PublishTypes ==
  ASSUME TypeOK, Publish
  PROVE  TypeOK'
<1>1. published \in Nat /\ published' = published + 1 /\ published' \in 0 .. MaxPublished
  BY BoundsAssumption DEF TypeOK, Publish
<1>2. \A q \in Seq(1 .. published) : q \in Seq(1 .. published')
  <2>1. 1 .. published \subseteq 1 .. published'
    BY <1>1
  <2> QED
    BY <2>1, SeqMonotonic
<1>3. /\ queue' \in [Clients -> Seq(1 .. published')]
      /\ handed' \in [Clients -> Seq(1 .. published')]
      /\ received' \in [Clients -> Seq(1 .. published')]
  BY <1>2 DEF TypeOK, Publish, clientVars, historyVars
<1>4. /\ reader' \in Readers /\ after' \in 0 .. published' /\ upto' \in 0 .. published'
      /\ lastId' \in {Dollar} \cup 0 .. published'
      /\ inHand' \in [Clients -> 0 .. published']
  BY <1>1 DEF TypeOK, Publish, clientVars, historyVars, Readers, Dollar
<1> QED
  BY <1>1, <1>3, <1>4 DEF TypeOK, Publish, clientVars, historyVars

LEMMA HandOutTypes ==
  ASSUME TypeOK, HandOut
  PROVE  TypeOK'
<1>1. Batch \in Seq(1 .. published)
  BY BatchOf
<1>2. /\ queue \in [Clients -> Seq(1 .. published)]
      /\ handed \in [Clients -> Seq(1 .. published)]
      /\ \A c \in Clients : Len(queue[c]) <= QueueSize
      /\ published' = published
  BY DEF TypeOK, HandOut
<1>3. \A c \in Clients : Len(queue[c] \o Batch) \in Nat
  BY <1>1, <1>2
<1>4. \A c \in Clients :
        /\ queue[c] \o Batch \in Seq(1 .. published)
        /\ handed[c] \o Batch \in Seq(1 .. published)
  BY <1>1, <1>2
<1>5. ASSUME NEW c \in Clients
      PROVE  /\ Newest(queue[c] \o Batch) \in Seq(1 .. published)
             /\ Len(Newest(queue[c] \o Batch)) <= QueueSize
  <2>1. Least(Len(queue[c] \o Batch), QueueSize) <= QueueSize
    BY <1>3, SizesAssumption DEF Least
  <2> QED
    BY <1>4, <2>1, NewestOf
<1>6. /\ queue' \in [Clients -> Seq(1 .. published)]
      /\ handed' \in [Clients -> Seq(1 .. published)]
      /\ \A c \in Clients : Len(queue'[c]) <= QueueSize
  BY <1>2, <1>4, <1>5 DEF HandOut
<1> QED
  BY <1>2, <1>6 DEF TypeOK, HandOut, Readers

LEMMA ClientTypes ==
  ASSUME TypeOK, HandInv, NEW c \in Clients, Subscribe(c) \/ Take(c) \/ Sent(c) \/ SendFails(c)
  PROVE  TypeOK'
<1>0. published \in Nat /\ QueueSize \in Nat \ {0}
  BY BoundsAssumption, SizesAssumption DEF TypeOK
<1>1. CASE Subscribe(c)
  <2>1. /\ queue' \in [Clients -> Seq(1 .. published)]
        /\ handed' \in [Clients -> Seq(1 .. published)]
        /\ \A d \in Clients : Len(queue'[d]) <= QueueSize
    BY <1>0, <1>1 DEF TypeOK, Subscribe
  <2> QED
    BY <1>1, <2>1 DEF TypeOK, Subscribe, Readers, FirstId
<1>2. CASE Take(c)
  <2>1. queue[c] \in Seq(1 .. published) /\ queue[c] # << >> /\ Len(queue[c]) <= QueueSize
    BY <1>2 DEF TypeOK, Take
  <2>2. /\ Head(queue[c]) \in 0 .. published
        /\ Tail(queue[c]) \in Seq(1 .. published)
        /\ Len(Tail(queue[c])) <= QueueSize
    <3>1. /\ Head(queue[c]) \in 1 .. published
          /\ Tail(queue[c]) \in Seq(1 .. published)
          /\ Len(Tail(queue[c])) = Len(queue[c]) - 1
      BY <2>1, HeadTailProperties
    <3> QED
      BY <1>0, <2>1, <3>1
  <2> QED
    BY <1>2, <2>2 DEF TypeOK, Take, readerVars, historyVars
<1>3. CASE Sent(c)
  <2>1. inHand[c] \in 1 .. published
    BY <1>0, <1>3 DEF TypeOK, HandInv, Sent
  <2>2. received' \in [Clients -> Seq(1 .. published)]
    BY <1>3, <2>1 DEF TypeOK, Sent
  <2> QED
    BY <1>0, <1>3, <2>2 DEF TypeOK, Sent, readerVars
<1>4. CASE SendFails(c)
  BY <1>0, <1>4 DEF TypeOK, SendFails, readerVars, historyVars
<1> QED
  BY <1>1, <1>2, <1>3, <1>4

LEMMA HandKept ==
  ASSUME TypeOK, HandInv, [Next]_vars
  PROVE  HandInv'
<1>1. ASSUME NEW c \in Clients, Take(c)
      PROVE  HandInv'
  <2>1. queue[c] \in Seq(1 .. published) /\ queue[c] # << >>
    BY <1>1 DEF TypeOK, Take
  <2>2. Head(queue[c]) \in 1 .. published
    BY <2>1, HeadTailProperties
  <2> QED
    BY <1>1, <2>2, BoundsAssumption DEF TypeOK, HandInv, Take
<1>2. ASSUME NEW c \in Clients, Subscribe(c) \/ Sent(c) \/ SendFails(c)
      PROVE  HandInv'
  BY <1>2 DEF TypeOK, HandInv, Subscribe, Sent, SendFails
<1>3. CASE UNCHANGED << conn, inHand >>
  BY <1>3 DEF HandInv
<1> QED
  BY <1>1, <1>2, <1>3 DEF Next, vars, clientVars, Publish, Xread, BlockTimeout, HandOut,
       ReaderFails, CancelReader, FinishClose

-----------------------------------------------------------------------------
(* The order of what a client receives.                                      *)

LEMMA Numbers ==
  ASSUME TypeOK
  PROVE  /\ published \in Nat /\ Mark \in 0 .. published
         /\ \A c \in Clients : Last(c) \in 0 .. published /\ inHand[c] \in 0 .. published
<1>1. published \in Nat
  BY BoundsAssumption DEF TypeOK
<1>2. ASSUME NEW c \in Clients
      PROVE  Last(c) \in 0 .. published
  <2>1. received[c] \in Seq(1 .. published)
    BY DEF TypeOK
  <2>2. CASE received[c] = << >>
    BY <1>1, <2>2 DEF Last, LastOf
  <2>3. CASE received[c] # << >>
    <3>1. Len(received[c]) \in 1 .. Len(received[c])
      BY <2>1, <2>3, EmptySeq
    <3>2. received[c][Len(received[c])] \in 1 .. published
      BY <2>1, <3>1, ElementOfSeq
    <3> QED
      BY <1>1, <2>3, <3>2 DEF Last, LastOf
  <2> QED
    BY <2>2, <2>3
<1> QED
  BY <1>1, <1>2 DEF TypeOK, Mark, Dollar

\* A step that does not touch a client may only move the mark on.
LEMMA OrderKept ==
  ASSUME OrderInv, TypeOK', Mark <= Mark', NEW c \in Clients,
         UNCHANGED << queue[c], inHand[c], received[c], conn[c] >>
  PROVE  InOrder(c)'
<1>1. /\ InOrder(c) /\ Last(c)' = Last(c)
      /\ queue[c] \in Seq(1 .. published)
  BY DEF OrderInv, TypeOK, Last
<1>2. /\ Mark \in Nat /\ Last(c) \in Nat /\ inHand[c] \in Nat
  BY Numbers DEF OrderInv
<1>3. Mark' \in Nat
  BY BoundsAssumption DEF TypeOK, Mark, Dollar
<1>4. \A i \in 1 .. Len(queue[c]) : queue[c][i] \in 1 .. published
  BY <1>1, ElementOfSeq
<1> QED
  BY <1>1, <1>2, <1>3, <1>4 DEF InOrder, Rising

LEMMA ReaderOrder ==
  ASSUME OrderInv, TypeOK',
         Publish \/ Xread \/ BlockTimeout \/ ReaderFails \/ CancelReader \/ FinishClose
  PROVE  ReaderInv' /\ \A c \in Clients : InOrder(c)'
<1>0. /\ published \in Nat /\ after \in 0 .. published /\ upto \in 0 .. published
      /\ lastId \in {Dollar} \cup 0 .. published /\ Count \in Nat \ {0}
  BY BoundsAssumption, SizesAssumption DEF OrderInv, TypeOK
<1>1. UNCHANGED << queue, inHand, received, conn >>
  BY DEF Publish, Xread, BlockTimeout, ReaderFails, CancelReader, FinishClose, clientVars, historyVars
<1>2. ReaderInv' /\ Mark <= Mark'
  <2>1. CASE Publish
    BY <1>0, <2>1 DEF OrderInv, ReaderInv, Mark, Publish, Dollar
  <2>2. CASE Xread
    BY <1>0, <2>2 DEF OrderInv, ReaderInv, Mark, Xread, Dollar, Least
  <2>3. CASE BlockTimeout
    BY <1>0, <2>3 DEF OrderInv, ReaderInv, Mark, BlockTimeout, Dollar
  <2>4. CASE ReaderFails
    BY <1>0, <2>4 DEF OrderInv, ReaderInv, Mark, ReaderFails, Alive, Dollar, clientVars
  <2>5. CASE CancelReader
    BY <1>0, <2>5 DEF OrderInv, ReaderInv, Mark, CancelReader, Alive, Dollar
  <2>6. CASE FinishClose
    BY <1>0, <2>6 DEF OrderInv, ReaderInv, Mark, FinishClose, Dollar
  <2> QED
    BY <2>1, <2>2, <2>3, <2>4, <2>5, <2>6
<1> QED
  BY <1>1, <1>2, OrderKept

LEMMA JoinedRises ==
  ASSUME NEW q \in Seq(Nat), NEW b \in Seq(Nat), NEW k \in Nat, NEW u \in Nat,
         Rising(q), \A i \in 1 .. Len(q) : q[i] <= k,
         Rising(b), \A i \in 1 .. Len(b) : k < b[i] /\ b[i] <= u,
         k <= u
  PROVE  /\ Rising(q \o b)
         /\ \A i \in 1 .. Len(q \o b) :
              /\ (q \o b)[i] <= u
              /\ \/ i <= Len(q) /\ (q \o b)[i] = q[i]
                 \/ k < (q \o b)[i]
<1> DEFINE r == q \o b
<1>1. /\ Len(q) \in Nat /\ Len(b) \in Nat /\ Len(r) = Len(q) + Len(b)
      /\ \A i \in 1 .. Len(r) : r[i] = IF i <= Len(q) THEN q[i] ELSE b[i - Len(q)]
  BY ConcatProperties
<1>2. /\ \A i \in 1 .. Len(q) : q[i] \in Nat
      /\ \A i \in 1 .. Len(b) : b[i] \in Nat
  BY ElementOfSeq
<1>3. \A i \in 1 .. Len(r) : i > Len(q) => i - Len(q) \in 1 .. Len(b)
  BY <1>1
<1> HIDE DEF r
<1>4. ASSUME NEW i \in 1 .. Len(r)
      PROVE  /\ r[i] <= u
             /\ \/ i <= Len(q) /\ r[i] = q[i]
                \/ k < r[i]
  <2>1. CASE i <= Len(q)
    <3>1. i \in 1 .. Len(q) /\ r[i] = q[i]
      BY <1>1, <2>1
    <3>2. q[i] \in Nat /\ q[i] <= k
      BY <1>2, <3>1
    <3> QED
      BY <2>1, <3>1, <3>2
  <2>2. CASE i > Len(q)
    <3>1. i - Len(q) \in 1 .. Len(b) /\ r[i] = b[i - Len(q)]
      BY <1>1, <2>2
    <3> QED
      BY <3>1
  <2> QED
    BY <1>1, <2>1, <2>2
<1>5. ASSUME NEW i \in 1 .. Len(r), NEW j \in 1 .. Len(r), i < j
      PROVE  r[i] < r[j]
  <2>1. CASE j <= Len(q)
    <3>1. i \in 1 .. Len(q) /\ j \in 1 .. Len(q) /\ r[i] = q[i] /\ r[j] = q[j]
      BY <1>1, <1>5, <2>1
    <3> QED
      BY <1>5, <3>1 DEF Rising
  <2>2. CASE i <= Len(q) /\ j > Len(q)
    <3>1. i \in 1 .. Len(q) /\ r[i] = q[i] /\ q[i] <= k /\ q[i] \in Nat
      BY <1>1, <1>2, <2>2
    <3>2. j - Len(q) \in 1 .. Len(b) /\ r[j] = b[j - Len(q)] /\ k < r[j] /\ r[j] \in Nat
      BY <1>1, <1>2, <2>2
    <3> QED
      BY <3>1, <3>2
  <2>3. CASE i > Len(q)
    <3> DEFINE m == i - Len(q)
               n == j - Len(q)
    <3>1. m \in 1 .. Len(b) /\ n \in 1 .. Len(b) /\ r[i] = b[m] /\ r[j] = b[n] /\ m < n
      BY <1>1, <1>5, <2>3
    <3> HIDE DEF m, n
    <3> QED
      BY <3>1 DEF Rising
  <2> QED
    BY <1>1, <2>1, <2>2, <2>3
<1>6. Rising(r)
  BY <1>5 DEF Rising
<1> QED
  BY <1>4, <1>6 DEF r

LEMMA NewestRises ==
  ASSUME NEW q \in Seq(Nat), Rising(q)
  PROVE  /\ Rising(Newest(q))
         /\ \A j \in 1 .. Len(Newest(q)) : \E i \in 1 .. Len(q) : Newest(q)[j] = q[i]
<1> DEFINE r == Newest(q)
<1>1. /\ Len(q) \in Nat /\ Len(r) \in 0 .. Len(q)
      /\ \A j \in 1 .. Len(r) : r[j] = q[Len(q) - Len(r) + j]
  <2>1. Len(q) \in Nat /\ Least(Len(q), QueueSize) \in 0 .. Len(q)
    BY SizesAssumption DEF Least
  <2> QED
    BY <2>1, NewestOf
<1> HIDE DEF r
<1>2. \A j \in 1 .. Len(r) : Len(q) - Len(r) + j \in 1 .. Len(q)
  BY <1>1
<1>3. ASSUME NEW i \in 1 .. Len(r), NEW j \in 1 .. Len(r), i < j
      PROVE  r[i] < r[j]
  <2> DEFINE m == Len(q) - Len(r) + i
             n == Len(q) - Len(r) + j
  <2>1. m \in 1 .. Len(q) /\ n \in 1 .. Len(q) /\ m < n /\ r[i] = q[m] /\ r[j] = q[n]
    BY <1>1, <1>2, <1>3
  <2> HIDE DEF m, n
  <2> QED
    BY <2>1 DEF Rising
<1>4. Rising(r)
  BY <1>3 DEF Rising
<1> QED
  BY <1>1, <1>2, <1>4 DEF r

LEMMA HandOutOrder ==
  ASSUME OrderInv, TypeOK', HandOut
  PROVE  ReaderInv' /\ \A c \in Clients : InOrder(c)'
<1>0. /\ published \in Nat /\ after \in 0 .. published /\ upto \in 0 .. published
      /\ reader = "answered" /\ after <= upto /\ Mark = after
  BY BoundsAssumption DEF OrderInv, TypeOK, ReaderInv, HandOut, Mark
<1>1. ReaderInv' /\ Mark' = upto
  BY <1>0 DEF HandOut, ReaderInv, Mark, Dollar
<1>2. ASSUME NEW c \in Clients \ subscribers
      PROVE  InOrder(c)'
  <2>1. UNCHANGED << queue[c], inHand[c], received[c], conn[c] >>
    BY DEF HandOut, OrderInv, TypeOK
  <2> QED
    BY <1>0, <1>1, <2>1, OrderKept
<1>3. ASSUME NEW c \in subscribers, c \in Clients
      PROVE  InOrder(c)'
  <2> DEFINE q == queue[c]
             r == q \o Batch
  <2>1. /\ queue'[c] = Newest(r)
        /\ inHand'[c] = inHand[c] /\ conn'[c] = conn[c] /\ Last(c)' = Last(c)
    BY <1>3 DEF HandOut, OrderInv, TypeOK, Last
  <2>2. /\ Last(c) \in Nat /\ inHand[c] \in Nat
        /\ Last(c) <= after /\ inHand[c] <= after
        /\ conn[c] = "sending" => Last(c) < inHand[c]
    BY <1>0, <1>3, Numbers DEF OrderInv, InOrder
  <2>3. /\ q \in Seq(Nat) /\ Batch \in Seq(Nat)
        /\ Len(Batch) = upto - after
        /\ \A i \in 1 .. Len(Batch) : Batch[i] = after + i /\ after + i <= upto
    <3>1. q \in Seq(1 .. published) /\ Batch \in Seq(1 .. published)
      BY <1>3, BatchOf DEF OrderInv, TypeOK
    <3>2. q \in Seq(Nat) /\ Batch \in Seq(Nat)
      BY <3>1, SeqMonotonic, 1 .. published \subseteq Nat
    <3> QED
      BY <1>0, <3>2, BatchOf DEF OrderInv
  <2>4. /\ Rising(q)
        /\ \A i \in 1 .. Len(q) : Last(c) < q[i] /\ inHand[c] < q[i] /\ q[i] <= after
    BY <1>0, <1>3 DEF OrderInv, InOrder
  <2>5. Rising(Batch)
    BY <1>0, <2>3 DEF Rising
  <2>6. /\ Rising(r)
        /\ \A i \in 1 .. Len(r) :
             r[i] <= upto /\ ((i <= Len(q) /\ r[i] = q[i]) \/ after < r[i])
    <3>1. after \in Nat /\ upto \in Nat
      BY <1>0
    <3>2. \A i \in 1 .. Len(Batch) : after < Batch[i] /\ Batch[i] <= upto
      BY <1>0, <2>3
    <3>3. \A i \in 1 .. Len(q) : q[i] <= after
      BY <2>4
    <3> QED
      BY <1>0, <2>3, <2>4, <2>5, <3>1, <3>2, <3>3, JoinedRises
  <2>7. r \in Seq(Nat)
    BY <2>3
  <2>8. \A i \in 1 .. Len(r) : Last(c) < r[i] /\ inHand[c] < r[i] /\ r[i] <= upto
    <3>1. \A i \in 1 .. Len(r) : r[i] \in Nat
      BY <2>7, ElementOfSeq
    <3>2. \A i \in 1 .. Len(q) : Last(c) < q[i] /\ inHand[c] < q[i]
      BY <2>4
    <3> HIDE DEF r, q
    <3>3. \A i \in 1 .. Len(r) : after < r[i] => Last(c) < r[i] /\ inHand[c] < r[i]
      BY <1>0, <2>2, <3>1
    <3> QED
      BY <2>6, <3>2, <3>3
  <2> HIDE DEF r, q
  <2>9. /\ Rising(Newest(r))
        /\ \A j \in 1 .. Len(Newest(r)) :
             Last(c) < Newest(r)[j] /\ inHand[c] < Newest(r)[j] /\ Newest(r)[j] <= upto
    BY <2>6, <2>7, <2>8, NewestRises
  <2>10. Last(c)' <= Mark' /\ inHand'[c] <= Mark'
    BY <1>0, <1>1, <2>1, <2>2
  <2> QED
    BY <1>1, <2>1, <2>2, <2>9, <2>10 DEF InOrder
<1> QED
  BY <1>1, <1>2, <1>3

LEMMA SubscribeOrder ==
  ASSUME OrderInv, TypeOK', NEW c \in Clients, Subscribe(c)
  PROVE  ReaderInv' /\ \A d \in Clients : InOrder(d)'
<1>0. published \in Nat /\ Mark \in 0 .. published /\ Last(c) \in 0 .. published
  BY Numbers DEF OrderInv
<1>1. ReaderInv' /\ Mark' = Mark
  BY DEF Subscribe, OrderInv, ReaderInv, Mark, FirstId
<1>2. ASSUME NEW d \in Clients \ {c}
      PROVE  InOrder(d)'
  <2>1. UNCHANGED << queue[d], inHand[d], received[d], conn[d] >>
    BY DEF Subscribe, OrderInv, TypeOK
  <2> QED
    BY <1>0, <1>1, <2>1, OrderKept
<1>3. InOrder(c)'
  <2>1. /\ queue'[c] = << >> /\ conn'[c] = "waiting" /\ inHand'[c] = inHand[c]
        /\ Last(c)' = Last(c)
    BY DEF Subscribe, OrderInv, TypeOK, Last
  <2>2. 1 .. Len(queue'[c]) = {}
    BY <2>1
  <2>3. Last(c) <= Mark /\ inHand[c] <= Mark
    BY DEF OrderInv, InOrder
  <2> QED
    BY <1>1, <2>1, <2>2, <2>3 DEF InOrder, Rising
<1> QED
  BY <1>1, <1>2, <1>3

LEMMA HandlerOrder ==
  ASSUME OrderInv, TypeOK', NEW c \in Clients, Take(c) \/ Sent(c) \/ SendFails(c)
  PROVE  ReaderInv' /\ \A d \in Clients : InOrder(d)'
<1>0. /\ published \in Nat /\ Mark \in 0 .. published
      /\ Last(c) \in 0 .. published /\ inHand[c] \in 0 .. published
  BY Numbers DEF OrderInv
<1>1. ReaderInv' /\ Mark' = Mark
  BY DEF Take, Sent, SendFails, readerVars, OrderInv, ReaderInv, Mark
<1>2. ASSUME NEW d \in Clients \ {c}
      PROVE  InOrder(d)'
  <2>1. UNCHANGED << queue[d], inHand[d], received[d], conn[d] >>
    BY DEF Take, Sent, SendFails, historyVars, OrderInv, TypeOK
  <2> QED
    BY <1>0, <1>1, <2>1, OrderKept
<1>3. /\ queue[c] \in Seq(1 .. published) /\ received[c] \in Seq(1 .. published)
      /\ \A i \in 1 .. Len(queue[c]) : queue[c][i] \in 1 .. published
  BY ElementOfSeq DEF OrderInv, TypeOK
<1>4. InOrder(c)
  BY DEF OrderInv
<1>5. CASE Take(c)
  <2> DEFINE q == queue[c]
             r == Tail(q)
  <2>1. /\ queue'[c] = r /\ inHand'[c] = Head(q) /\ Last(c)' = Last(c)
        /\ q # << >>
    BY <1>5 DEF Take, historyVars, OrderInv, TypeOK, Last
  <2>2. /\ Len(q) \in Nat \ {0} /\ Head(q) = q[1] /\ Len(r) = Len(q) - 1
        /\ \A i \in 1 .. Len(r) : i + 1 \in 1 .. Len(q) /\ r[i] = q[i + 1]
    <3>1. Len(q) \in Nat \ {0}
      BY <1>3, <2>1, EmptySeq
    <3> QED
      BY <1>3, <2>1, <3>1, HeadTailProperties
  <2> HIDE DEF r
  <2>3. 1 \in 1 .. Len(q) /\ Last(c) < q[1] /\ q[1] <= Mark
    BY <1>4, <2>2 DEF InOrder
  <2>4. \A i \in 1 .. Len(r) : q[1] < r[i] /\ Last(c) < r[i] /\ r[i] <= Mark
    BY <1>4, <2>2 DEF InOrder, Rising
  <2>5. Rising(r)
    BY <1>4, <2>2 DEF InOrder, Rising
  <2>6. Last(c) <= Mark
    BY <1>4 DEF InOrder
  <2>7. InOrder(c)'
    BY <1>1, <2>1, <2>2, <2>3, <2>4, <2>5, <2>6 DEF InOrder
  <2> QED
    BY <1>1, <1>2, <2>7
<1>6. CASE Sent(c)
  <2>1. /\ queue'[c] = queue[c] /\ inHand'[c] = 0 /\ conn'[c] = "waiting"
        /\ received'[c] = Append(received[c], inHand[c])
    BY <1>6 DEF Sent, OrderInv, TypeOK
  <2>2. Last(c)' = inHand[c]
    <3>1. /\ Len(Append(received[c], inHand[c])) = Len(received[c]) + 1
          /\ Append(received[c], inHand[c])[Len(received[c]) + 1] = inHand[c]
          /\ Append(received[c], inHand[c]) # << >>
      <4>1. inHand[c] \in 1 .. published
        BY <1>0, <1>6 DEF Sent, OrderInv, HandInv
      <4> QED
        BY <1>3, <4>1, AppendProperties
    <3> QED
      BY <2>1, <3>1 DEF Last, LastOf
  <2>3. \A i \in 1 .. Len(queue[c]) : 0 < queue[c][i]
    BY <1>0, <1>3
  <2> QED
    BY <1>0, <1>1, <1>2, <1>4, <2>1, <2>2, <2>3 DEF InOrder
<1>7. CASE SendFails(c)
  <2>1. /\ queue'[c] = queue[c] /\ inHand'[c] = 0 /\ conn'[c] = "off"
        /\ Last(c)' = Last(c)
    BY <1>7 DEF SendFails, historyVars, OrderInv, TypeOK, Last
  <2>2. \A i \in 1 .. Len(queue[c]) : 0 < queue[c][i]
    BY <1>0, <1>3
  <2> QED
    BY <1>0, <1>1, <1>2, <1>4, <2>1, <2>2 DEF InOrder
<1> QED
  BY <1>5, <1>6, <1>7

-----------------------------------------------------------------------------
(* What the feed promises.                                                   *)

LEMMA TypesKept ==
  ASSUME TypeOK, HandInv, [Next]_vars
  PROVE  TypeOK'
<1>1. CASE UNCHANGED vars
  BY <1>1 DEF TypeOK, vars, readerVars, clientVars, historyVars
<1> QED
  BY <1>1, PublishTypes, ReaderTypes, HandOutTypes, ClientTypes DEF Next

LEMMA OrderStep ==
  ASSUME OrderInv, [Next]_vars
  PROVE  OrderInv'
<1>1. TypeOK' /\ HandInv'
  BY TypesKept, HandKept DEF OrderInv
<1>2. CASE UNCHANGED vars
  <2>1. /\ ReaderInv' /\ Mark' = Mark
        /\ UNCHANGED << queue, inHand, received, conn >>
    BY <1>2 DEF vars, readerVars, clientVars, historyVars, OrderInv, ReaderInv, Mark
  <2>2. Mark \in Nat
    BY Numbers DEF OrderInv
  <2>3. Mark <= Mark'
    BY <2>1, <2>2
  <2>4. \A c \in Clients : InOrder(c)'
    BY <1>1, <2>1, <2>3, OrderKept
  <2> QED
    BY <1>1, <2>1, <2>4 DEF OrderInv
<1>3. CASE Next
  <2>1. ReaderInv' /\ \A c \in Clients : InOrder(c)'
    BY <1>1, <1>3, ReaderOrder, HandOutOrder, SubscribeOrder, HandlerOrder DEF Next
  <2> QED
    BY <1>1, <2>1 DEF OrderInv
<1> QED
  BY <1>2, <1>3

LEMMA InitOrder == Init => OrderInv
<1> SUFFICES ASSUME Init PROVE OrderInv
  OBVIOUS
<1>1. TypeOK
  BY InitTypes
<1>2. HandInv /\ ReaderInv /\ Mark = 0
  BY DEF Init, HandInv, ReaderInv, Mark, Dollar
<1>3. \A c \in Clients : InOrder(c)
  <2> SUFFICES ASSUME NEW c \in Clients PROVE InOrder(c)
    OBVIOUS
  <2>1. queue[c] = << >> /\ Last(c) = 0 /\ inHand[c] = 0 /\ conn[c] = "off"
    BY DEF Init, Last, LastOf
  <2>2. 1 .. Len(queue[c]) = {}
    BY <2>1
  <2> QED
    BY <1>2, <2>1, <2>2 DEF InOrder, Rising
<1> QED
  BY <1>1, <1>2, <1>3 DEF OrderInv

\* What a client has received, has in hand and has waiting is in the order of
\* publication, before everything its reader has still to hand out.
THEOREM OrderInvHolds == Spec => []OrderInv
<1> QED
  BY InitOrder, OrderStep, PTL DEF Spec

\* Queues stay within queue_size and hold entries of the stream, as do all
\* the other variables of UiBroadcaster and its handlers what they may.
THEOREM TypeCorrect == Spec => []TypeOK
<1>1. OrderInv => TypeOK
  BY DEF OrderInv
<1> QED
  BY <1>1, OrderInvHolds, PTL

LEMMA FeedStep ==
  ASSUME OrderInv, [Next]_vars
  PROVE  [Feed!Next]_(Feed!vars)
<1> DEFINE latest == [c \in Clients |-> IF received[c] = << >> THEN 0
                                        ELSE received[c][Len(received[c])]]
<1>1. ASSUME NEW c \in Clients, Sent(c)
      PROVE  Feed!Receive(c)
  <2>1. received[c] \in Seq(1 .. published) /\ received \in [Clients -> Seq(1 .. published)]
    BY DEF OrderInv, TypeOK
  <2>2. inHand[c] \in Last(c) + 1 .. published /\ inHand[c] \in 1 .. published
    BY <1>1, Numbers DEF OrderInv, InOrder, Sent, HandInv
  <2>3. received' = [received EXCEPT ![c] = Append(@, inHand[c])] /\ published' = published
    BY <1>1 DEF Sent
  <2>4. /\ Append(received[c], inHand[c]) # << >>
        /\ Append(received[c], inHand[c])[Len(Append(received[c], inHand[c]))] = inHand[c]
    BY <2>1, <2>2, AppendProperties
  <2>5. latest' = [latest EXCEPT ![c] = inHand[c]]
    BY <2>1, <2>3, <2>4
  <2>6. latest[c] = Last(c)
    BY DEF Last, LastOf
  <2> QED
    BY <2>2, <2>3, <2>5, <2>6 DEF Feed!Receive
<1>2. CASE Publish
  BY <1>2 DEF Publish, historyVars, Feed!Next, Feed!Publish
<1>3. CASE UNCHANGED << published, received >>
  BY <1>3 DEF Feed!vars
<1> QED
  BY <1>1, <1>2, <1>3 DEF Next, Feed!Next, vars, clientVars, historyVars, Xread, BlockTimeout,
       HandOut, ReaderFails, CancelReader, FinishClose, Subscribe, Take, SendFails

\* UiBroadcaster and ws_updates implement LossyFeed: no client receives a message
\* twice or after a newer one, over all its connections, whatever readers fail.
THEOREM ImplementsFeedHolds == Spec => ImplementsFeed
<1>1. Init => Feed!Init
  BY DEF Init, Feed!Init
<1> QED
  BY <1>1, FeedStep, OrderInvHolds, PTL DEF Spec, ImplementsFeed, Feed!Spec

-----------------------------------------------------------------------------
(* What a full queue loses.                                                  *)

LEMMA AccountedKept ==
  ASSUME NEW c \in Clients, Accounted(c),
         UNCHANGED << queue[c], handed[c], received[c], inHand[c] >>
  PROVE  Accounted(c)'
BY DEF Accounted, EndOf

LEMMA HandOutAccounts ==
  ASSUME TypeOK, HandOut, NEW c \in subscribers, Accounted(c)
  PROVE  Accounted(c)'
<1> DEFINE q == queue[c]
           s == handed[c]
           r == q \o Batch
           h == s \o Batch
<1>1. /\ q \in Seq(1 .. published) /\ s \in Seq(1 .. published) /\ Batch \in Seq(1 .. published)
      /\ queue'[c] = Newest(r) /\ handed'[c] = h
      /\ inHand'[c] = inHand[c] /\ received'[c] = received[c]
  BY BatchOf DEF TypeOK, HandOut
<1>2. /\ Len(q) \in Nat /\ Len(s) \in Nat /\ Len(Batch) \in Nat /\ QueueSize \in Nat \ {0}
      /\ Len(r) = Len(q) + Len(Batch) /\ Len(h) = Len(s) + Len(Batch)
      /\ \A i \in 1 .. Len(r) : r[i] = IF i <= Len(q) THEN q[i] ELSE Batch[i - Len(q)]
      /\ \A i \in 1 .. Len(h) : h[i] = IF i <= Len(s) THEN s[i] ELSE Batch[i - Len(s)]
  <2>1. Len(q) \in Nat /\ Len(s) \in Nat /\ Len(Batch) \in Nat /\ QueueSize \in Nat \ {0}
    BY <1>1, SizesAssumption
  <2>2. /\ Len(r) = Len(q) + Len(Batch)
        /\ \A i \in 1 .. Len(q) + Len(Batch) : r[i] = IF i <= Len(q) THEN q[i] ELSE Batch[i - Len(q)]
    BY <1>1, ConcatProperties
  <2>3. /\ Len(h) = Len(s) + Len(Batch)
        /\ \A i \in 1 .. Len(s) + Len(Batch) : h[i] = IF i <= Len(s) THEN s[i] ELSE Batch[i - Len(s)]
    BY <1>1, ConcatProperties
  <2> QED
    BY <2>1, <2>2, <2>3
<1>3. /\ Len(Newest(r)) = Least(Len(r), QueueSize)
      /\ \A j \in 1 .. Len(Newest(r)) : Newest(r)[j] = r[Len(r) - Len(Newest(r)) + j]
  <2>1. r \in Seq(1 .. published)
    BY <1>1
  <2> QED
    BY <2>1, NewestOf
<1>4. /\ Len(q) <= Len(s)
      /\ \A j \in 1 .. Len(q) : q[j] = s[Len(s) - Len(q) + j]
      /\ \A i \in 1 .. Len(s) - Len(q) :
           i <= Len(s) - QueueSize \/ s[i] \in Members(received[c]) \cup {inHand[c]}
  BY DEF Accounted, EndOf
<1> DEFINE n == Len(Newest(r))
<1>5. n \in Nat /\ n <= Len(r) /\ (n = QueueSize \/ n = Len(r))
  BY <1>2, <1>3 DEF Least
<1> HIDE DEF q, s, r, h, n
<1>6. \A i \in 1 .. Len(r) : r[i] = h[Len(h) - Len(r) + i]
  <2> SUFFICES ASSUME NEW i \in 1 .. Len(r)
               PROVE  r[i] = h[Len(h) - Len(r) + i]
    OBVIOUS
  <2> DEFINE m == Len(h) - Len(r) + i
  <2>1. m = Len(s) - Len(q) + i /\ m \in 1 .. Len(h)
    BY <1>2, <1>4
  <2>2. CASE i <= Len(q)
    <3>1. i \in 1 .. Len(q) /\ m <= Len(s)
      BY <1>2, <1>4, <2>1, <2>2
    <3>2. r[i] = q[i] /\ h[m] = s[m] /\ q[i] = s[m]
      BY <1>2, <1>4, <2>1, <3>1
    <3> QED
      BY <3>2
  <2>3. CASE i > Len(q)
    <3>1. ~(m <= Len(s)) /\ ~(i <= Len(q)) /\ m - Len(s) = i - Len(q)
      BY <1>2, <1>4, <2>1, <2>3
    <3>2. r[i] = Batch[i - Len(q)] /\ h[m] = Batch[m - Len(s)]
      BY <1>2, <2>1, <3>1
    <3> QED
      BY <3>1, <3>2
  <2> QED
    BY <1>2, <2>2, <2>3
<1>7. EndOf(Newest(r), h)
  <2>1. n <= Len(h)
    BY <1>2, <1>4, <1>5
  <2>2. ASSUME NEW j \in 1 .. n
        PROVE  Newest(r)[j] = h[Len(h) - n + j]
    <3>1. Len(r) - n + j \in 1 .. Len(r) /\ Len(h) - Len(r) + (Len(r) - n + j) = Len(h) - n + j
      BY <1>2, <1>5
    <3> QED
      BY <1>3, <1>6, <3>1 DEF n
  <2> QED
    BY <2>1, <2>2 DEF EndOf, n
<1>8. ASSUME NEW i \in 1 .. Len(h) - n
      PROVE  i <= Len(h) - QueueSize \/ h[i] \in Members(received[c]) \cup {inHand[c]}
  <2>1. CASE n = QueueSize
    BY <1>2, <2>1
  <2>2. CASE n = Len(r)
    <3>1. i \in 1 .. Len(s) - Len(q) /\ i \in 1 .. Len(h) /\ i <= Len(s)
      BY <1>2, <1>4, <2>2
    <3>2. h[i] = s[i]
      BY <1>2, <3>1
    <3>3. i <= Len(s) - QueueSize => i <= Len(h) - QueueSize
      BY <1>2
    <3> QED
      BY <1>4, <3>1, <3>2, <3>3
  <2> QED
    BY <1>5, <2>1, <2>2
<1> QED
  BY <1>1, <1>7, <1>8 DEF Accounted, n, q, s, r, h

LEMMA SubscribeAccounts ==
  ASSUME TypeOK, NEW c \in Clients, Subscribe(c)
  PROVE  Accounted(c)'
<1>1. queue'[c] = << >> /\ handed'[c] = << >>
  BY DEF TypeOK, Subscribe
<1>2. Len(queue'[c]) = 0 /\ Len(handed'[c]) = 0
  BY <1>1
<1>3. 1 .. 0 = {} /\ 1 .. 0 - 0 = {}
  OBVIOUS
<1> QED
  BY <1>2, <1>3 DEF Accounted, EndOf

LEMMA TakeAccounts ==
  ASSUME TypeOK, HandInv, NEW c \in Clients, Take(c), Accounted(c)
  PROVE  Accounted(c)'
<1> DEFINE q == queue[c]
           s == handed[c]
<1>1. /\ q \in Seq(1 .. published) /\ s \in Seq(1 .. published) /\ q # << >>
      /\ queue'[c] = Tail(q) /\ handed'[c] = s
      /\ inHand'[c] = Head(q) /\ received'[c] = received[c]
      /\ inHand[c] = 0
  <2>1. inHand[c] \in 0 .. published /\ ~(inHand[c] > 0)
    BY DEF TypeOK, Take, HandInv
  <2> QED
    BY <2>1, BoundsAssumption DEF TypeOK, Take, historyVars
<1>2. /\ Len(q) \in Nat \ {0} /\ Len(s) \in Nat /\ QueueSize \in Nat
      /\ Head(q) = q[1] /\ Len(Tail(q)) = Len(q) - 1
      /\ \A j \in 1 .. Len(q) - 1 : Tail(q)[j] = q[j + 1]
      /\ \A i \in 1 .. Len(s) : s[i] \in 1 .. published
  <2>1. Len(q) \in Nat \ {0} /\ Len(s) \in Nat /\ QueueSize \in Nat
    BY <1>1, EmptySeq, SizesAssumption
  <2>2. \A i \in 1 .. Len(s) : s[i] \in 1 .. published
    BY <1>1, ElementOfSeq
  <2>3. /\ Head(q) = q[1] /\ Len(Tail(q)) = Len(q) - 1
        /\ \A j \in 1 .. Len(Tail(q)) : Tail(q)[j] = q[j + 1]
    BY <1>1, HeadTailProperties
  <2> QED
    BY <2>1, <2>2, <2>3
<1>3. /\ Len(q) <= Len(s)
      /\ \A j \in 1 .. Len(q) : q[j] = s[Len(s) - Len(q) + j]
      /\ \A i \in 1 .. Len(s) - Len(q) :
           i <= Len(s) - QueueSize \/ s[i] \in Members(received[c]) \cup {0}
  BY <1>1 DEF Accounted, EndOf
<1> DEFINE r == Tail(q)
<1> HIDE DEF q, s, r
<1>4. EndOf(r, s)
  <2>1. ASSUME NEW j \in 1 .. Len(r)
        PROVE  r[j] = s[Len(s) - Len(r) + j]
    <3>1. j \in 1 .. Len(q) - 1 /\ j + 1 \in 1 .. Len(q)
          /\ Len(s) - Len(q) + (j + 1) = Len(s) - Len(r) + j
      BY <1>2 DEF r
    <3> QED
      BY <1>2, <1>3, <3>1 DEF r
  <2> QED
    BY <1>2, <1>3, <2>1 DEF EndOf, r
<1>5. ASSUME NEW i \in 1 .. Len(s) - Len(r)
      PROVE  i <= Len(s) - QueueSize \/ s[i] \in Members(received[c]) \cup {Head(q)}
  <2>1. CASE i <= Len(s) - Len(q)
    <3>1. i \in 1 .. Len(s) - Len(q) /\ i \in 1 .. Len(s)
      BY <1>2, <1>3, <2>1
    <3>2. s[i] # 0
      BY <1>2, <3>1
    <3> QED
      BY <1>3, <3>1, <3>2
  <2>2. CASE i > Len(s) - Len(q)
    <3>1. i = Len(s) - Len(q) + 1 /\ 1 \in 1 .. Len(q)
      <4>1. Len(s) - Len(r) = Len(s) - Len(q) + 1
        BY <1>2 DEF r
      <4>2. i \in 1 .. Len(s) - Len(q) + 1
        BY <4>1
      <4> QED
        BY <1>2, <2>2, <4>2
    <3> QED
      BY <1>2, <1>3, <3>1
  <2> QED
    BY <1>2, <1>3, <2>1, <2>2 DEF r
<1> QED
  BY <1>1, <1>4, <1>5 DEF Accounted, r, s, q

LEMMA SentAccounts ==
  ASSUME TypeOK, HandInv, NEW c \in Clients, Sent(c), Accounted(c)
  PROVE  Accounted(c)'
<1>1. /\ queue'[c] = queue[c] /\ handed'[c] = handed[c]
      /\ received'[c] = Append(received[c], inHand[c])
      /\ received[c] \in Seq(1 .. published) /\ inHand[c] \in 1 .. published
  BY BoundsAssumption DEF TypeOK, HandInv, Sent
<1>2. Members(received[c]) \cup {inHand[c]} \subseteq Members(received'[c])
  <2> DEFINE s == received[c]
             r == Append(s, inHand[c])
  <2>1. /\ DOMAIN s = 1 .. Len(s) /\ DOMAIN r = 1 .. Len(s) + 1 /\ Len(s) \in Nat
        /\ \A i \in 1 .. Len(s) : r[i] = s[i]
        /\ r[Len(s) + 1] = inHand[c]
    BY <1>1, AppendProperties
  <2> HIDE DEF s, r
  <2>2. Len(s) + 1 \in DOMAIN r /\ \A i \in DOMAIN s : i \in DOMAIN r /\ s[i] = r[i]
    BY <2>1
  <2>3. Members(s) \cup {inHand[c]} \subseteq Members(r)
    BY <2>1, <2>2 DEF Members
  <2> QED
    BY <1>1, <2>3 DEF s, r
<1> QED
  BY <1>1, <1>2 DEF Accounted

LEMMA AccountsStep ==
  ASSUME TypeOK, HandInv, [Next]_vars, \A c \in subscribers : Accounted(c)
  PROVE  \A c \in subscribers' : Accounted(c)'
<1> SUFFICES ASSUME NEW c \in subscribers', c \in Clients
             PROVE  Accounted(c)'
  BY TypesKept DEF TypeOK
<1>1. ASSUME c \in subscribers, UNCHANGED << queue[c], handed[c], received[c], inHand[c] >>
      PROVE  Accounted(c)'
  BY <1>1, AccountedKept
<1>2. CASE HandOut
  BY <1>2, HandOutAccounts DEF HandOut
<1>3. ASSUME NEW d \in Clients, Subscribe(d) \/ Take(d) \/ Sent(d) \/ SendFails(d), d # c
      PROVE  Accounted(c)'
  BY <1>1, <1>3 DEF TypeOK, Subscribe, Take, Sent, SendFails, historyVars
<1>4. CASE Subscribe(c)
  BY <1>4, SubscribeAccounts
<1>5. CASE Take(c)
  BY <1>5, TakeAccounts DEF Take
<1>6. CASE Sent(c)
  BY <1>6, SentAccounts DEF Sent
<1>7. ~SendFails(c)
  BY DEF SendFails
<1>8. CASE UNCHANGED << subscribers, queue, handed, received, inHand >>
  BY <1>1, <1>8
<1>9. ~FinishClose
  BY DEF FinishClose
<1> QED
  BY <1>2, <1>3, <1>4, <1>5, <1>6, <1>7, <1>8, <1>9 DEF Next, vars, clientVars, historyVars,
     Publish, Xread, BlockTimeout, ReaderFails, CancelReader

\* FeedInv adds to the order where every message of a subscriber is.
THEOREM FeedInvHolds == Spec => []FeedInv
<1>1. Init => FeedInv
  BY InitOrder DEF Init, FeedInv
<1>2. FeedInv /\ [Next]_vars => FeedInv'
  BY OrderStep, AccountsStep DEF FeedInv, OrderInv
<1> QED
  BY <1>1, <1>2, PTL DEF Spec

\* UiBroadcaster drops the oldest messages of a full queue and no others.
THEOREM OnlyOldestDroppedHolds == Spec => []OnlyOldestDropped
<1>1. FeedInv => OnlyOldestDropped
  <2> SUFFICES ASSUME FeedInv, NEW c \in subscribers, NEW i \in DOMAIN handed[c],
                      ~(i <= Len(handed[c]) - QueueSize)
               PROVE  handed[c][i] \in Members(queue[c]) \cup Members(received[c]) \cup {inHand[c]}
    BY DEF OnlyOldestDropped
  <2>1. /\ queue[c] \in Seq(1 .. published) /\ handed[c] \in Seq(1 .. published)
        /\ Accounted(c)
    BY DEF FeedInv, OrderInv, TypeOK
  <2>2. /\ Len(queue[c]) \in Nat /\ DOMAIN queue[c] = 1 .. Len(queue[c])
        /\ Len(handed[c]) \in Nat /\ DOMAIN handed[c] = 1 .. Len(handed[c])
        /\ Len(queue[c]) <= Len(handed[c])
    BY <2>1, LenProperties DEF Accounted, EndOf
  <2> DEFINE m == Len(handed[c])
             n == Len(queue[c])
  <2>3. i \in 1 .. m /\ m \in Nat /\ n \in Nat /\ n <= m
    BY <2>2
  <2> HIDE DEF m, n
  <2>4. CASE i <= m - n
    <3>1. i \in 1 .. m - n
      BY <2>3, <2>4
    <3> QED
      BY <2>1, <3>1 DEF Accounted, m, n
  <2>5. CASE i > m - n
    <3> DEFINE j == i - (m - n)
    <3>1. j \in 1 .. n /\ m - n + j = i
      BY <2>3, <2>5
    <3> HIDE DEF j
    <3>2. queue[c][j] = handed[c][i]
      BY <2>1, <3>1 DEF Accounted, EndOf, m, n
    <3> QED
      BY <2>2, <3>1, <3>2 DEF Members, n
  <2> QED
    BY <2>3, <2>4, <2>5
<1> QED
  BY <1>1, FeedInvHolds, PTL
=============================================================================
