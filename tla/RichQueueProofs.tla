--------------------------- MODULE RichQueueProofs ---------------------------
(***************************************************************************)
(* RichQueue for any number of items, queues, producers and consumers.     *)
(***************************************************************************)
EXTENDS RichQueue, TLAPS

\* An enqueue in progress has an item to append, and a BatchEnqueue holds the
\* lock of its queue.
ProdInv == \A p \in Producer : prod[p] # Idle =>
  IF prod[p].batch THEN mutex[prod[p].queue] = p ELSE prod[p].todo # <<>>

WakeInv == TypeOK /\ ProdInv /\ NoLostWakeup

LEMMA InitWakeInv == Init => WakeInv
<1> SUFFICES ASSUME Init PROVE WakeInv OBVIOUS
<1>1. TypeOK
  <2>1. slots \in [Queue -> Seq(Item)] /\ notify \in [Queue -> BOOLEAN]
    BY DEF Init
  <2>2. mutex \in [Queue -> Producer \cup {Free}] /\ prod \in [Producer -> Enqueuing \cup {Idle}]
    BY DEF Init
  <2>3. at \in [Consumer -> {"select", "drain", "stopped"}] BY DEF Init
  <2>4. work \in [Consumer -> SUBSET ((1..BatchSize) \X Item)] BY DEF Init
  <2>5. /\ locked \subseteq Item /\ delayed \subseteq Queue \X Item
        /\ taken \subseteq Item /\ cancelled \in BOOLEAN
    BY DEF Init
  <2>6. QED BY <2>1, <2>2, <2>3, <2>4, <2>5 DEF TypeOK
<1>2. ProdInv BY DEF Init, ProdInv
<1>3. NoLostWakeup BY DEF Init, NoLostWakeup
<1>4. QED BY <1>1, <1>2, <1>3 DEF WakeInv

\* What the record of an enqueue holds.
LEMMA ProdFields ==
  ASSUME TypeOK, NEW p \in Producer, prod[p] # Idle
  PROVE  /\ prod[p].queue \in Queue /\ prod[p].todo \in Seq(Item)
         /\ prod[p].batch \in BOOLEAN
BY DEF TypeOK, Enqueuing

\* A batch is a sequence of items, with at least one.
LEMMA BatchIsSeq == ASSUME NEW s \in Batches PROVE s \in Seq(Item)
<1>1. PICK n \in 1..MaxBatch : s \in [1..n -> Item] BY DEF Batches
<1>2. QED BY <1>1, QueueAssumption

LEMMA TypeStep == ASSUME TypeOK, ProdInv, [Next]_vars PROVE TypeOK'
<1> USE QueueAssumption
<1>1. ASSUME NEW p \in Producer, NEW q \in Queue, NEW i \in Item, Enqueue(p, q, i)
      PROVE  TypeOK'
  BY <1>1 DEF Enqueue, Enqueues, TypeOK, Enqueuing
<1>2. ASSUME NEW p \in Producer, NEW q \in Queue, NEW s \in Batches, BatchEnqueue(p, q, s)
      PROVE  TypeOK'
  <2>1. s \in Seq(Item) BY BatchIsSeq
  <2>2. QED BY <1>2, <2>1 DEF BatchEnqueue, Enqueues, TypeOK, Enqueuing
<1>3. ASSUME NEW p \in Producer, Produce(p) PROVE TypeOK'
  <2>0. prod[p] # Idle BY <1>3 DEF Produce, Append1, BatchItem, BatchDone
  <2>1. prod[p].queue \in Queue /\ prod[p].todo \in Seq(Item) BY <2>0, ProdFields
  <2>2. CASE Append1(p)
    <3>1. Head(prod[p].todo) \in Item BY <2>0, <2>1, <2>2 DEF Append1, ProdInv
    <3>2. QED BY <2>1, <2>2, <3>1 DEF Append1, Notified, TypeOK
  <2>3. CASE BatchItem(p)
    <3>1. Head(prod[p].todo) \in Item /\ Tail(prod[p].todo) \in Seq(Item)
      BY <2>1, <2>3 DEF BatchItem
    <3>2. slots' \in [Queue -> Seq(Item)] BY <2>1, <2>3, <3>1 DEF BatchItem, TypeOK
    <3>3. prod' \in [Producer -> Enqueuing \cup {Idle}]
      BY <2>1, <2>3, <3>1 DEF BatchItem, Enqueues, TypeOK, Enqueuing
    <3>4. QED BY <2>3, <3>1, <3>2, <3>3 DEF BatchItem, TypeOK
  <2>4. CASE BatchDone(p) BY <2>1, <2>4 DEF BatchDone, Notified, TypeOK
  <2>5. QED BY <1>3, <2>2, <2>3, <2>4 DEF Produce
<1>4. ASSUME NEW p \in Producer, NEW d \in delayed, Wake(p, d) PROVE TypeOK'
  <2>1. d[1] \in Queue /\ d[2] \in Item BY DEF TypeOK
  <2>2. CASE SignedIn(d[2]) BY <1>4, <2>1, <2>2 DEF Wake, TypeOK
  <2>3. CASE ~SignedIn(d[2])
    <3>1. PICK q \in Queue, i \in Item : d[1] = q /\ d[2] = i BY <2>1
    <3>2. Enqueues(p, q, <<i>>, FALSE) /\ locked' = locked \cup {i}
      BY <1>4, <2>3, <3>1 DEF Wake
    <3>3. prod' \in [Producer -> Enqueuing \cup {Idle}]
      BY <3>2 DEF Enqueues, TypeOK, Enqueuing
    <3>4. locked' \subseteq Item BY <3>2 DEF TypeOK
    <3>5. delayed' \subseteq Queue \X Item BY <1>4 DEF Wake, TypeOK
    <3>6. QED BY <1>4, <3>3, <3>4, <3>5 DEF Wake, TypeOK
  <2>4. QED BY <2>2, <2>3
<1>5. ASSUME NEW c \in Consumer, Work(c) PROVE TypeOK'
  <2>0. Serves[c] \in Queue OBVIOUS
  <2>1. CASE Wakeup(c) BY <2>0, <2>1 DEF Wakeup, TypeOK
  <2>2. CASE TakeBatch(c)
    <3> DEFINE q == Serves[c]
    <3>1. slots[q] \in Seq(Item) BY <2>0 DEF TypeOK
    <3>2. Batch(q) \in 0..BatchSize /\ Batch(q) <= Len(slots[q]) BY <3>1 DEF Batch
    <3>3. {<<j, slots[q][j]>> : j \in 1..Batch(q)} \subseteq (1..BatchSize) \X Item
      BY <3>1, <3>2
    <3>4. SubSeq(slots[q], Batch(q) + 1, Len(slots[q])) \in Seq(Item) BY <3>1, <3>2
    <3>5. QED BY <2>0, <2>2, <3>3, <3>4 DEF TakeBatch, TypeOK
  <2>3. CASE DrainEmpty(c) BY <2>3 DEF DrainEmpty, TypeOK
  <2>4. QED BY <1>5, <2>1, <2>2, <2>3 DEF Work
<1>6. ASSUME NEW c \in Consumer, NEW w \in work[c], Handled(c, w) PROVE TypeOK'
  BY <1>6 DEF Handled, SignedOut, TypeOK
<1>7. ASSUME NEW c \in Consumer, NEW w \in work[c], EnqueueWithDelay(c, w) PROVE TypeOK'
  <2>1. w[2] \in Item /\ Serves[c] \in Queue BY DEF TypeOK
  <2>2. QED BY <1>7, <2>1 DEF EnqueueWithDelay, TypeOK
<1>8. ASSUME NEW c \in Consumer, Stop(c) PROVE TypeOK'
  BY <1>8 DEF Stop, TypeOK
<1>9. ASSUME NEW q \in Queue, Dequeue(q) PROVE TypeOK'
  BY <1>9 DEF Dequeue, TypeOK
<1>10. CASE Cancel BY <1>10 DEF Cancel, TypeOK
<1>11. CASE UNCHANGED vars BY <1>11 DEF vars, TypeOK
<1>12. QED
  BY <1>1, <1>2, <1>3, <1>4, <1>5, <1>6, <1>7, <1>8, <1>9, <1>10, <1>11 DEF Next

LEMMA ProdStep == ASSUME TypeOK, ProdInv, [Next]_vars PROVE ProdInv'
<1> USE QueueAssumption
<1> SUFFICES ASSUME NEW x \in Producer, (prod[x] # Idle)'
             PROVE  IF prod'[x].batch THEN mutex'[prod'[x].queue] = x
                    ELSE prod'[x].todo # <<>>
  BY DEF ProdInv
<1> DEFINE Goal == IF prod'[x].batch THEN mutex'[prod'[x].queue] = x
                   ELSE prod'[x].todo # <<>>
<1>0. ASSUME prod'[x] = prod[x], mutex' = mutex PROVE Goal BY <1>0 DEF ProdInv
<1>1. ASSUME NEW p \in Producer, NEW q \in Queue, NEW i \in Item, Enqueue(p, q, i)
      PROVE  Goal
  BY <1>0, <1>1 DEF Enqueue, Enqueues, TypeOK
<1>2. ASSUME NEW p \in Producer, NEW q \in Queue, NEW s \in Batches, BatchEnqueue(p, q, s)
      PROVE  Goal
  <2>1. CASE x = p BY <1>2, <2>1 DEF BatchEnqueue, Enqueues, TypeOK
  <2>2. CASE x # p
    <3>1. prod'[x] = prod[x] /\ prod[x].queue \in Queue /\ prod[x].batch \in BOOLEAN
      BY <1>2, <2>2, ProdFields DEF BatchEnqueue, Enqueues, TypeOK
    <3>2. prod[x].batch => prod[x].queue # q
      BY <1>2, <3>1 DEF BatchEnqueue, ProdInv
    <3>3. QED BY <1>2, <3>1, <3>2 DEF BatchEnqueue, ProdInv, TypeOK
  <2>3. QED BY <2>1, <2>2
<1>3. ASSUME NEW p \in Producer, Produce(p) PROVE Goal
  <2>0. prod[p] # Idle BY <1>3 DEF Produce, Append1, BatchItem, BatchDone
  <2>1. prod[p].queue \in Queue BY <2>0, ProdFields
  <2>2. CASE Append1(p) BY <1>0, <2>2 DEF Append1, TypeOK
  <2>3. CASE BatchItem(p) BY <1>0, <2>3 DEF BatchItem, Enqueues, TypeOK, ProdInv
  <2>4. CASE BatchDone(p)
    <3>1. x # p BY <2>4 DEF BatchDone, TypeOK
    <3>2. prod'[x] = prod[x] /\ prod[x].queue \in Queue /\ prod[x].batch \in BOOLEAN
      BY <2>4, <3>1, ProdFields DEF BatchDone, TypeOK
    <3>3. mutex[prod[p].queue] = p BY <2>0, <2>4 DEF BatchDone, ProdInv
    <3>4. QED BY <2>1, <2>4, <3>1, <3>2, <3>3 DEF BatchDone, ProdInv, TypeOK
  <2>5. QED BY <1>3, <2>2, <2>3, <2>4 DEF Produce
<1>4. ASSUME NEW p \in Producer, NEW d \in delayed, Wake(p, d) PROVE Goal
  <2>1. CASE SignedIn(d[2]) BY <1>0, <1>4, <2>1 DEF Wake
  <2>2. CASE ~SignedIn(d[2])
    <3>1. PICK q, i : d[1] = q /\ d[2] = i OBVIOUS
    <3>2. Enqueues(p, q, <<i>>, FALSE) /\ mutex' = mutex
      BY <1>4, <2>2, <3>1 DEF Wake
    <3>3. <<i>> # <<>> OBVIOUS
    <3>4. CASE x = p BY <3>2, <3>3, <3>4 DEF Enqueues, TypeOK
    <3>5. CASE x # p BY <1>0, <3>2, <3>5 DEF Enqueues, TypeOK
    <3>6. QED BY <3>4, <3>5
  <2>3. QED BY <2>1, <2>2
<1>5. ASSUME NEW c \in Consumer, Work(c) \/ Stop(c) PROVE Goal
  BY <1>0, <1>5 DEF Work, Wakeup, TakeBatch, DrainEmpty, Stop
<1>6. ASSUME NEW c \in Consumer, NEW w \in work[c],
             Handled(c, w) \/ EnqueueWithDelay(c, w)
      PROVE  Goal
  BY <1>0, <1>6 DEF Handled, EnqueueWithDelay
<1>7. ASSUME NEW q \in Queue, Dequeue(q) PROVE Goal BY <1>0, <1>7 DEF Dequeue
<1>8. CASE Cancel BY <1>0, <1>8 DEF Cancel
<1>9. CASE UNCHANGED vars BY <1>0, <1>9 DEF vars
<1>10. QED
  BY <1>1, <1>2, <1>3, <1>4, <1>5, <1>6, <1>7, <1>8, <1>9 DEF Next

\* Whoever puts an item in a queue leaves the token, holds the lock until it
\* does, or is in the consumer's loop; only a consumer that has found the
\* queue empty leaves the loop.
LEMMA WakeStep == ASSUME WakeInv, [Next]_vars PROVE NoLostWakeup'
<1> USE QueueAssumption
<1>0. TypeOK /\ ProdInv /\ NoLostWakeup BY DEF WakeInv
<1> SUFFICES ASSUME NEW x \in Queue, slots'[x] # <<>>
             PROVE  \/ notify'[x]
                    \/ mutex'[x] # Free
                    \/ \E c \in Consumer : Serves[c] = x /\ at'[c] = "drain"
  BY DEF NoLostWakeup
<1> DEFINE Goal == \/ notify'[x]
                   \/ mutex'[x] # Free
                   \/ \E c \in Consumer : Serves[c] = x /\ at'[c] = "drain"
<1>s. ASSUME slots'[x] = <<>> \/ slots[x] # <<>>, notify'[x] = notify[x],
             mutex[x] # Free => mutex'[x] # Free,
             \A c \in Consumer : at[c] = "drain" => at'[c] = "drain"
      PROVE  Goal
  BY <1>0, <1>s DEF NoLostWakeup
<1>1. ASSUME NEW p \in Producer, NEW q \in Queue, NEW i \in Item, Enqueue(p, q, i)
      PROVE  Goal
  BY <1>s, <1>1 DEF Enqueue
<1>2. ASSUME NEW p \in Producer, NEW q \in Queue, NEW s \in Batches, BatchEnqueue(p, q, s)
      PROVE  Goal
  BY <1>0, <1>s, <1>2 DEF BatchEnqueue, TypeOK
<1>3. ASSUME NEW p \in Producer, Produce(p) PROVE Goal
  <2>0. prod[p] # Idle BY <1>3 DEF Produce, Append1, BatchItem, BatchDone
  <2>1. prod[p].queue \in Queue BY <1>0, <2>0, ProdFields
  <2>2. CASE Append1(p)
    <3>1. CASE x = prod[p].queue
      BY <1>0, <2>1, <2>2, <3>1 DEF Append1, Notified, TypeOK
    <3>2. CASE x # prod[p].queue
      BY <1>0, <1>s, <2>1, <2>2, <3>2 DEF Append1, Notified, TypeOK
    <3>3. QED BY <3>1, <3>2
  <2>3. CASE BatchItem(p)
    <3>1. mutex[prod[p].queue] = p BY <1>0, <2>0, <2>3 DEF BatchItem, ProdInv
    <3>2. CASE x = prod[p].queue BY <2>3, <3>1, <3>2 DEF BatchItem
    <3>3. CASE x # prod[p].queue
      BY <1>0, <1>s, <2>1, <2>3, <3>3 DEF BatchItem, TypeOK
    <3>4. QED BY <3>2, <3>3
  <2>4. CASE BatchDone(p)
    <3>1. CASE x = prod[p].queue
      BY <1>0, <2>1, <2>4, <3>1 DEF BatchDone, Notified, TypeOK
    <3>2. CASE x # prod[p].queue
      BY <1>0, <1>s, <2>1, <2>4, <3>2 DEF BatchDone, Notified, TypeOK
    <3>3. QED BY <3>1, <3>2
  <2>5. QED BY <1>3, <2>2, <2>3, <2>4 DEF Produce
<1>4. ASSUME NEW p \in Producer, NEW d \in delayed, Wake(p, d) PROVE Goal
  BY <1>s, <1>4 DEF Wake
<1>5. ASSUME NEW c \in Consumer, Work(c) PROVE Goal
  <2>0. Serves[c] \in Queue OBVIOUS
  <2>1. CASE Wakeup(c)
    <3>1. CASE x = Serves[c] BY <1>0, <2>1, <3>1 DEF Wakeup, TypeOK
    <3>2. CASE x # Serves[c]
      <4>1. \A d \in Consumer : at[d] = "drain" => at'[d] = "drain"
        BY <1>0, <2>1 DEF Wakeup, TypeOK
      <4>2. QED BY <1>0, <1>s, <2>0, <2>1, <3>2, <4>1 DEF Wakeup, TypeOK
    <3>3. QED BY <3>1, <3>2
  <2>2. CASE TakeBatch(c)
    <3>1. CASE x = Serves[c] BY <2>2, <3>1 DEF TakeBatch
    <3>2. CASE x # Serves[c] BY <1>0, <1>s, <2>0, <2>2, <3>2 DEF TakeBatch, TypeOK
    <3>3. QED BY <3>1, <3>2
  <2>3. CASE DrainEmpty(c)
    <3>1. x # Serves[c] BY <2>3 DEF DrainEmpty
    <3>2. \A d \in Consumer : Serves[d] = x /\ at[d] = "drain" => at'[d] = "drain"
      BY <1>0, <2>3, <3>1 DEF DrainEmpty, TypeOK
    <3>3. QED BY <1>0, <2>3, <3>2 DEF DrainEmpty, NoLostWakeup
  <2>4. QED BY <1>5, <2>1, <2>2, <2>3 DEF Work
<1>6. ASSUME NEW c \in Consumer, NEW w \in work[c],
             Handled(c, w) \/ EnqueueWithDelay(c, w)
      PROVE  Goal
  BY <1>s, <1>6 DEF Handled, EnqueueWithDelay
<1>7. ASSUME NEW c \in Consumer, Stop(c) PROVE Goal
  BY <1>0, <1>s, <1>7 DEF Stop, TypeOK
<1>8. ASSUME NEW q \in Queue, Dequeue(q) PROVE Goal
  BY <1>0, <1>s, <1>8 DEF Dequeue, TypeOK
<1>9. CASE Cancel BY <1>s, <1>9 DEF Cancel
<1>10. CASE UNCHANGED vars BY <1>s, <1>10 DEF vars
<1>11. QED
  BY <1>1, <1>2, <1>3, <1>4, <1>5, <1>6, <1>7, <1>8, <1>9, <1>10 DEF Next

LEMMA WakeInvHolds == Spec => []WakeInv
<1>1. WakeInv /\ [Next]_vars => WakeInv' BY TypeStep, ProdStep, WakeStep DEF WakeInv
<1>2. QED BY InitWakeInv, <1>1, PTL DEF Spec

\* Queues, locks, batches and enqueues in progress keep their types; a
\* consumer never runs more than BatchSize handlers (BatchDequeue).
THEOREM QueueTypeCorrect == Spec => []TypeOK
<1>1. WakeInv => TypeOK BY DEF WakeInv
<1>2. QED BY WakeInvHolds, <1>1, PTL

\* With any number of producers and consumers, delays, cancellations and
\* calls of Dequeue, one token per queue wakes a consumer for every item.
THEOREM WakeupIsNotLost == Spec => []NoLostWakeup
<1>1. WakeInv => NoLostWakeup BY DEF WakeInv
<1>2. QED BY WakeInvHolds, <1>1, PTL

----------------------------------------------------------------------------
Waiting(p) == prod[p] # Idle /\ ~prod[p].batch
First(p) == Head(prod[p].todo)

\* Only items of Retried are put off.
DelayedRetried == \A d \in delayed : d[2] \in Retried

\* What a producer, a queue or a handler has is signed in.  In this and the
\* next invariants items of Retried are left out: EnqueueWithDelay signs them
\* out early.
AllSignedIn ==
  /\ \A p \in Producer : Waiting(p) /\ First(p) \notin Retried => First(p) \in locked
  /\ \A q \in Queue : \A n \in 1..Len(slots[q]) :
       slots[q][n] \notin Retried => slots[q][n] \in locked
  /\ \A c \in Consumer : \A w \in work[c] : w[2] \notin Retried => w[2] \in locked

\* And no other producer, place in a queue or handler has it.
ProdAlone == \A p \in Producer : Waiting(p) /\ First(p) \notin Retried =>
  /\ \A x \in Producer : Waiting(x) /\ First(x) = First(p) => x = p
  /\ \A q \in Queue : \A n \in 1..Len(slots[q]) : slots[q][n] # First(p)
  /\ \A c \in Consumer : \A w \in work[c] : w[2] # First(p)

SlotAlone == \A q \in Queue : \A n \in 1..Len(slots[q]) : slots[q][n] \notin Retried =>
  /\ \A r \in Queue : \A m \in 1..Len(slots[r]) :
       slots[r][m] = slots[q][n] => r = q /\ m = n
  /\ \A c \in Consumer : \A w \in work[c] : w[2] # slots[q][n]

\* A handler has its item alone.
WorkAlone == \A c, d \in Consumer : \A w \in work[c], x \in work[d] :
  w[2] \notin Retried /\ w[2] = x[2] => c = d /\ w = x

Alone == AllSignedIn /\ ProdAlone /\ SlotAlone /\ WorkAlone

AloneInv == WakeInv /\ DelayedRetried /\ AllSignedIn /\ ProdAlone /\ SlotAlone /\ WorkAlone

LEMMA InitAlone == Init => AloneInv
<1> SUFFICES ASSUME Init PROVE AloneInv OBVIOUS
<1>1. WakeInv BY InitWakeInv
<1>2. DelayedRetried /\ Alone
  BY DEF Init, DelayedRetried, Alone, AllSignedIn, ProdAlone, SlotAlone, WorkAlone, Waiting
<1>3. QED BY <1>1, <1>2 DEF AloneInv, Alone

LEMMA EnqueueAlone ==
  ASSUME AloneInv, NEW p \in Producer, NEW q \in Queue, NEW i \in Item, Enqueue(p, q, i)
  PROVE  Alone'
<1>1. \A x \in Producer : x # p => prod'[x] = prod[x]
  BY DEF Enqueue, Enqueues, AloneInv, WakeInv, TypeOK
<1>2. Waiting(p)' /\ First(p)' = i
  <2>1. prod'[p] = [queue |-> q, todo |-> <<i>>, batch |-> FALSE]
    BY DEF Enqueue, Enqueues, AloneInv, WakeInv, TypeOK
  <2>2. <<i>> \in Seq(Item) /\ Head(<<i>>) = i OBVIOUS
  <2>3. prod'[p] # Idle
    <3>1. prod'[p] \in Enqueuing BY <2>1, <2>2 DEF Enqueuing
    <3>2. QED BY <3>1, QueueAssumption DEF Enqueuing
  <2>4. QED BY <2>1, <2>2, <2>3 DEF Waiting, First
<1>3. \A x \in Producer : x # p => (Waiting(x)' <=> Waiting(x)) /\ First(x)' = First(x)
  BY <1>1 DEF Waiting, First
<1>4. i \notin locked /\ locked' = locked \cup {i} /\ slots' = slots /\ work' = work
  BY DEF Enqueue
<1>5. AllSignedIn' BY <1>2, <1>3, <1>4 DEF AloneInv, AllSignedIn
<1>6. ProdAlone' BY <1>2, <1>3, <1>4 DEF AloneInv, AllSignedIn, ProdAlone
<1>7. SlotAlone' /\ WorkAlone' BY <1>4 DEF AloneInv, SlotAlone, WorkAlone
<1>8. QED BY <1>5, <1>6, <1>7 DEF Alone

LEMMA AppendAlone ==
  ASSUME AloneInv, NEW p \in Producer, Append1(p)
  PROVE  Alone'
<1>0. prod[p].queue \in Queue /\ prod[p].todo \in Seq(Item) /\ Waiting(p)
  BY ProdFields DEF Append1, AloneInv, WakeInv, Waiting
<1>q. PICK q \in Queue : q = prod[p].queue BY <1>0
<1>i. PICK i \in Item : i = First(p)
  BY <1>0 DEF First, Waiting, AloneInv, WakeInv, ProdInv
<1>1. \A x \in Producer : x # p => (Waiting(x)' <=> Waiting(x)) /\ First(x)' = First(x)
  BY DEF Append1, AloneInv, WakeInv, TypeOK, Waiting, First
<1>2. ~Waiting(p)' BY DEF Append1, AloneInv, WakeInv, TypeOK, Waiting
<1>3. locked' = locked /\ work' = work BY DEF Append1
<1>4. slots[q] \in Seq(Item) /\ slots'[q] = Append(slots[q], i)
  BY <1>q, <1>i DEF Append1, AloneInv, WakeInv, TypeOK, First
<1>5. \A r \in Queue : r # q => slots'[r] = slots[r]
  BY <1>q DEF Append1, AloneInv, WakeInv, TypeOK
<1>6. \A r \in Queue : \A n \in 1..Len(slots'[r]) :
        \/ r = q /\ n = Len(slots[q]) + 1 /\ slots'[r][n] = i
        \/ n \in 1..Len(slots[r]) /\ slots'[r][n] = slots[r][n]
  BY <1>4, <1>5
<1>7. i \notin Retried => i \in locked /\ \A c \in Consumer : \A w \in work[c] : w[2] # i
  BY <1>0, <1>i DEF AloneInv, AllSignedIn, ProdAlone
<1>8. i \notin Retried => \A r \in Queue : \A n \in 1..Len(slots[r]) : slots[r][n] # i
  BY <1>0, <1>i DEF AloneInv, ProdAlone
<1>9. i \notin Retried => \A x \in Producer : x # p /\ Waiting(x) => First(x) # i
  BY <1>0, <1>i DEF AloneInv, ProdAlone
<1>10. AllSignedIn' BY <1>1, <1>2, <1>3, <1>6, <1>7 DEF AloneInv, AllSignedIn
<1>11. ProdAlone' BY <1>1, <1>2, <1>3, <1>6, <1>9 DEF AloneInv, ProdAlone
<1>12. SlotAlone'
  <2> SUFFICES ASSUME NEW r \in Queue, NEW n \in 1..Len(slots'[r]),
                      slots'[r][n] \notin Retried
               PROVE  /\ \A t \in Queue : \A m \in 1..Len(slots'[t]) :
                            slots'[t][m] = slots'[r][n] => t = r /\ m = n
                      /\ \A d \in Consumer : \A w \in work'[d] : w[2] # slots'[r][n]
    BY DEF SlotAlone
  <2>1. CASE slots'[r][n] = i
    <3>1. \A t \in Queue : \A m \in 1..Len(slots'[t]) :
            slots'[t][m] = i => t = q /\ m = Len(slots[q]) + 1
      BY <1>6, <1>8, <2>1
    <3>2. QED BY <1>3, <1>7, <2>1, <3>1
  <2>2. CASE slots'[r][n] # i
    <3>1. n \in 1..Len(slots[r]) /\ slots'[r][n] = slots[r][n] BY <1>6, <2>2
    <3>2. QED BY <1>3, <1>6, <2>2, <3>1 DEF AloneInv, SlotAlone
  <2>3. QED BY <2>1, <2>2
<1>13. WorkAlone' BY <1>3 DEF AloneInv, WorkAlone
<1>14. QED BY <1>10, <1>11, <1>12, <1>13 DEF Alone

LEMMA BatchItemAlone ==
  ASSUME AloneInv, NEW p \in Producer, BatchItem(p)
  PROVE  Alone'
<1>0. prod[p].queue \in Queue /\ prod[p].todo \in Seq(Item) /\ prod[p].todo # <<>>
  BY ProdFields DEF BatchItem, AloneInv, WakeInv
<1>q. PICK q \in Queue : q = prod[p].queue BY <1>0
<1>i. PICK i \in Item : i = Head(prod[p].todo) BY <1>0
<1>1. \A x \in Producer : (Waiting(x)' <=> Waiting(x)) /\ (Waiting(x) => First(x)' = First(x))
  BY DEF BatchItem, Enqueues, AloneInv, WakeInv, TypeOK, Waiting, First
<1>3. locked' = locked \cup {i} /\ work' = work BY <1>i DEF BatchItem
<1>4. slots[q] \in Seq(Item)
      /\ slots'[q] = IF i \in locked THEN slots[q] ELSE Append(slots[q], i)
  BY <1>q, <1>i DEF BatchItem, SignedIn, AloneInv, WakeInv, TypeOK
<1>5. \A r \in Queue : r # q => slots'[r] = slots[r]
  BY <1>q DEF BatchItem, AloneInv, WakeInv, TypeOK
<1>6. \A r \in Queue : \A n \in 1..Len(slots'[r]) :
        \/ r = q /\ n = Len(slots[q]) + 1 /\ slots'[r][n] = i /\ i \notin locked
        \/ n \in 1..Len(slots[r]) /\ slots'[r][n] = slots[r][n]
  <2>1. CASE i \in locked BY <1>4, <1>5, <2>1
  <2>2. CASE i \notin locked BY <1>4, <1>5, <2>2
  <2>3. QED BY <2>1, <2>2
<1>7. i \notin locked \cup Retried => \A c \in Consumer : \A w \in work[c] : w[2] # i
  BY DEF AloneInv, AllSignedIn
<1>8. i \notin locked \cup Retried =>
        \A r \in Queue : \A n \in 1..Len(slots[r]) : slots[r][n] # i
  BY DEF AloneInv, AllSignedIn
<1>9. i \notin locked \cup Retried => \A x \in Producer : Waiting(x) => First(x) # i
  BY DEF AloneInv, AllSignedIn
<1>10. AllSignedIn' BY <1>1, <1>3, <1>6 DEF AloneInv, AllSignedIn
<1>11. ProdAlone' BY <1>1, <1>3, <1>6, <1>9 DEF AloneInv, ProdAlone
<1>12. SlotAlone'
  <2>1. CASE i \in locked
    <3>1. slots' = slots BY <1>i, <2>1 DEF BatchItem, SignedIn, AloneInv, WakeInv, TypeOK
    <3>2. QED BY <1>3, <3>1 DEF AloneInv, SlotAlone
  <2>2. CASE i \notin locked
    BY <1>3, <1>6, <1>7, <1>8, <2>2 DEF AloneInv, SlotAlone
  <2>3. QED BY <2>1, <2>2
<1>13. WorkAlone' BY <1>3 DEF AloneInv, WorkAlone
<1>14. QED BY <1>10, <1>11, <1>12, <1>13 DEF Alone

\* Taking k items off the front of a queue leaves every place its item.
LEMMA DropAlone ==
  ASSUME AloneInv, NEW q \in Queue, NEW k \in Nat,
         \A n \in 1..Len(slots'[q]) :
           /\ n \in Nat /\ k + n \in 1..Len(slots[q])
           /\ slots'[q][n] = slots[q][k + n],
         \A r \in Queue : r # q => slots'[r] = slots[r],
         NEW r \in Queue, NEW n \in 1..Len(slots'[r]),
         NEW t \in Queue, NEW m \in 1..Len(slots'[t]),
         slots'[t][m] = slots'[r][n], slots'[r][n] \notin Retried
  PROVE  t = r /\ m = n
<1>1. \A u \in Queue : \A j \in 1..Len(slots'[u]) : \E h \in 1..Len(slots[u]) :
        /\ slots'[u][j] = slots[u][h]
        /\ u = q => j \in Nat /\ h = k + j
        /\ u # q => h = j
  OBVIOUS
<1>2. PICK n0 \in 1..Len(slots[r]) :
        /\ slots'[r][n] = slots[r][n0]
        /\ r = q => n \in Nat /\ n0 = k + n
        /\ r # q => n0 = n
  BY <1>1
<1>3. PICK m0 \in 1..Len(slots[t]) :
        /\ slots'[t][m] = slots[t][m0]
        /\ t = q => m \in Nat /\ m0 = k + m
        /\ t # q => m0 = m
  BY <1>1
<1>4. slots[t][m0] = slots[r][n0] BY <1>2, <1>3
<1>5. t = r /\ m0 = n0 BY <1>2, <1>4 DEF AloneInv, SlotAlone
<1>6. QED BY <1>2, <1>3, <1>5

\* Without its first k elements a sequence keeps the others, k places on.
LEMMA RestOfSeq ==
  ASSUME NEW S, NEW s \in Seq(S), NEW k \in Nat, k <= Len(s),
         NEW n \in 1..Len(SubSeq(s, k + 1, Len(s)))
  PROVE  /\ n \in Nat /\ n > 0 /\ k + n \in 1..Len(s)
         /\ SubSeq(s, k + 1, Len(s))[n] = s[k + n]
<1>1. Len(s) \in Nat OBVIOUS
<1>2. Len(SubSeq(s, k + 1, Len(s))) = Len(s) - k BY <1>1
<1>3. n \in 1..(Len(s) - k) BY <1>2
<1>4. SubSeq(s, k + 1, Len(s))[n] = s[k + 1 + n - 1] BY <1>1, <1>3
<1>5. QED BY <1>1, <1>3, <1>4

LEMMA TakeAlone ==
  ASSUME AloneInv, NEW c \in Consumer, TakeBatch(c)
  PROVE  Alone'
<1> USE QueueAssumption
<1>q. PICK q \in Queue : q = Serves[c] OBVIOUS
<1>s. slots[q] \in Seq(Item) BY DEF AloneInv, WakeInv, TypeOK
<1>k. PICK k \in Nat : k = Batch(q) /\ k <= Len(slots[q]) BY <1>s DEF Batch
<1>1. prod' = prod /\ locked' = locked BY DEF TakeBatch
<1>2. \A x \in Producer : (Waiting(x)' <=> Waiting(x)) /\ First(x)' = First(x)
  BY <1>1 DEF Waiting, First
<1>3. slots'[q] = SubSeq(slots[q], k + 1, Len(slots[q]))
  BY <1>q, <1>k DEF TakeBatch, AloneInv, WakeInv, TypeOK
<1>4. \A r \in Queue : r # q => slots'[r] = slots[r]
  BY <1>q DEF TakeBatch, AloneInv, WakeInv, TypeOK
<1>5. work[c] = {} /\ work'[c] = {<<j, slots[q][j]>> : j \in 1..k}
  BY <1>q, <1>k DEF TakeBatch, AloneInv, WakeInv, TypeOK
<1>6. \A d \in Consumer : d # c => work'[d] = work[d]
  BY DEF TakeBatch, AloneInv, WakeInv, TypeOK
<1>7. \A n \in 1..Len(slots'[q]) :
        /\ n \in Nat /\ n > 0 /\ k + n \in 1..Len(slots[q])
        /\ slots'[q][n] = slots[q][k + n]
  BY <1>3, <1>k, <1>s, RestOfSeq
<1>8. \A w \in work'[c] : \E j \in 1..k : w = <<j, slots[q][j]>> BY <1>5
<1>9. 1..k \subseteq 1..Len(slots[q]) BY <1>k, <1>s
<1>10. AllSignedIn'
  <2>1. \A w \in work'[c] : w[2] \notin Retried => w[2] \in locked
    BY <1>8, <1>9 DEF AloneInv, AllSignedIn
  <2>2. \A r \in Queue : \A n \in 1..Len(slots'[r]) :
          slots'[r][n] \notin Retried => slots'[r][n] \in locked
    BY <1>4, <1>7 DEF AloneInv, AllSignedIn
  <2>3. QED BY <1>1, <1>2, <1>6, <2>1, <2>2 DEF AloneInv, AllSignedIn
<1>11. ProdAlone'
  <2>1. \A x \in Producer : Waiting(x) /\ First(x) \notin Retried =>
          \A w \in work'[c] : w[2] # First(x)
    BY <1>8, <1>9 DEF AloneInv, ProdAlone
  <2>a. \A r \in Queue : \A n \in 1..Len(slots'[r]) :
          \E m \in 1..Len(slots[r]) : slots'[r][n] = slots[r][m]
    BY <1>4, <1>7
  <2>2. \A x \in Producer : Waiting(x) /\ First(x) \notin Retried =>
          \A r \in Queue : \A n \in 1..Len(slots'[r]) : slots'[r][n] # First(x)
    BY <2>a DEF AloneInv, ProdAlone
  <2>3. QED BY <1>2, <1>6, <2>1, <2>2 DEF AloneInv, ProdAlone
<1>12. SlotAlone'
  <2> SUFFICES ASSUME NEW r \in Queue, NEW n \in 1..Len(slots'[r]),
                      slots'[r][n] \notin Retried
               PROVE  /\ \A t \in Queue : \A m \in 1..Len(slots'[t]) :
                            slots'[t][m] = slots'[r][n] => t = r /\ m = n
                      /\ \A d \in Consumer : \A w \in work'[d] : w[2] # slots'[r][n]
    BY DEF SlotAlone
  <2>1. PICK n0 \in 1..Len(slots[r]) :
          slots'[r][n] = slots[r][n0] /\ (r = q => n \in Nat /\ n > 0 /\ n0 = k + n)
    BY <1>4, <1>7
  <2>2. \A t \in Queue : \A m \in 1..Len(slots'[t]) :
          slots'[t][m] = slots'[r][n] => t = r /\ m = n
    BY <1>4, <1>7, DropAlone
  <2>3. ASSUME NEW d \in Consumer, NEW w \in work'[d] PROVE w[2] # slots'[r][n]
    <3>1. CASE d = c
      <4>1. PICK j \in 1..k : w = <<j, slots[q][j]>> BY <1>8, <2>3, <3>1
      <4>2. j # n0 \/ r # q BY <2>1
      <4>3. slots[q][j] # slots[r][n0] BY <1>9, <2>1, <4>2 DEF AloneInv, SlotAlone
      <4>4. QED BY <2>1, <4>1, <4>3
    <3>2. CASE d # c BY <1>6, <2>1, <2>3, <3>2 DEF AloneInv, SlotAlone
    <3>3. QED BY <3>1, <3>2
  <2>4. QED BY <2>2, <2>3
<1>13. WorkAlone'
  <2> SUFFICES ASSUME NEW d \in Consumer, NEW e \in Consumer,
                      NEW w \in work'[d], NEW x \in work'[e],
                      w[2] \notin Retried, w[2] = x[2]
               PROVE  d = e /\ w = x
    BY DEF WorkAlone
  <2>1. CASE d = c /\ e = c
    <3>1. PICK j \in 1..k : w = <<j, slots[q][j]>> BY <1>8, <2>1
    <3>2. PICK m \in 1..k : x = <<m, slots[q][m]>> BY <1>8, <2>1
    <3>3. j = m BY <1>9, <3>1, <3>2 DEF AloneInv, SlotAlone
    <3>4. QED BY <2>1, <3>1, <3>2, <3>3
  <2>2. CASE d = c /\ e # c
    <3>1. PICK j \in 1..k : w = <<j, slots[q][j]>> BY <1>8, <2>2
    <3>2. QED BY <1>6, <1>9, <2>2, <3>1 DEF AloneInv, SlotAlone
  <2>3. CASE d # c /\ e = c
    <3>1. PICK j \in 1..k : x = <<j, slots[q][j]>> BY <1>8, <2>3
    <3>2. QED BY <1>6, <1>9, <2>3, <3>1 DEF AloneInv, SlotAlone
  <2>4. CASE d # c /\ e # c BY <1>6, <2>4 DEF AloneInv, WorkAlone
  <2>5. QED BY <2>1, <2>2, <2>3, <2>4
<1>14. QED BY <1>10, <1>11, <1>12, <1>13 DEF Alone

LEMMA DequeueAlone ==
  ASSUME AloneInv, NEW q \in Queue, Dequeue(q)
  PROVE  Alone'
<1>k. PICK k \in Nat : k = 1 OBVIOUS
<1>1. prod' = prod /\ locked' = locked /\ work' = work BY DEF Dequeue
<1>2. \A x \in Producer : (Waiting(x)' <=> Waiting(x)) /\ First(x)' = First(x)
  BY <1>1 DEF Waiting, First
<1>3. slots[q] \in Seq(Item) /\ slots'[q] = Tail(slots[q]) /\ slots[q] # <<>>
  BY DEF Dequeue, AloneInv, WakeInv, TypeOK
<1>4. \A r \in Queue : r # q => slots'[r] = slots[r]
  BY DEF Dequeue, AloneInv, WakeInv, TypeOK
<1>5. \A n \in 1..Len(slots'[q]) :
        /\ n \in Nat /\ k + n \in 1..Len(slots[q])
        /\ slots'[q][n] = slots[q][k + n]
  BY <1>k, <1>3
<1>6. AllSignedIn' BY <1>1, <1>2, <1>4, <1>5 DEF AloneInv, AllSignedIn
<1>7. ProdAlone' BY <1>1, <1>2, <1>4, <1>5 DEF AloneInv, ProdAlone
<1>8. SlotAlone'
  <2>1. \A r, t \in Queue : \A n \in 1..Len(slots'[r]) : \A m \in 1..Len(slots'[t]) :
          slots'[r][n] \notin Retried /\ slots'[t][m] = slots'[r][n] => t = r /\ m = n
    BY <1>4, <1>5, DropAlone
  <2>2. QED BY <1>1, <1>4, <1>5, <2>1 DEF AloneInv, SlotAlone
<1>9. WorkAlone' BY <1>1 DEF AloneInv, WorkAlone
<1>10. QED BY <1>6, <1>7, <1>8, <1>9 DEF Alone

LEMMA HandledKeepsAlone ==
  ASSUME AloneInv, NEW c \in Consumer, NEW w \in work[c], Handled(c, w)
  PROVE  Alone'
<1>1. prod' = prod /\ slots' = slots /\ locked' = locked \ {w[2]}
  BY DEF Handled, SignedOut
<1>2. \A x \in Producer : (Waiting(x)' <=> Waiting(x)) /\ First(x)' = First(x)
  BY <1>1 DEF Waiting, First
<1>3. work'[c] = work[c] \ {w} /\ \A d \in Consumer : d # c => work'[d] = work[d]
  BY DEF Handled, AloneInv, WakeInv, TypeOK
<1>4. \A d \in Consumer : \A x \in work'[d] : x \in work[d] /\ (w[2] \notin Retried => x[2] # w[2])
  BY <1>3 DEF AloneInv, WorkAlone
<1>5. AllSignedIn'
  BY <1>1, <1>2, <1>4 DEF AloneInv, AllSignedIn, ProdAlone, SlotAlone
<1>6. ProdAlone' BY <1>1, <1>2, <1>4 DEF AloneInv, ProdAlone
<1>7. SlotAlone' BY <1>1, <1>4 DEF AloneInv, SlotAlone
<1>8. WorkAlone' BY <1>4 DEF AloneInv, WorkAlone
<1>9. QED BY <1>5, <1>6, <1>7, <1>8 DEF Alone

LEMMA DelayAlone ==
  ASSUME AloneInv, NEW c \in Consumer, NEW w \in work[c], EnqueueWithDelay(c, w)
  PROVE  Alone'
<1>1. /\ prod' = prod /\ slots' = slots /\ work' = work
      /\ locked' = locked \ {w[2]} /\ w[2] \in Retried
  BY DEF EnqueueWithDelay
<1>2. AllSignedIn' BY <1>1 DEF AloneInv, AllSignedIn, Waiting, First
<1>3. ProdAlone' BY <1>1 DEF AloneInv, ProdAlone, Waiting, First
<1>4. SlotAlone' /\ WorkAlone' BY <1>1 DEF AloneInv, SlotAlone, WorkAlone
<1>5. QED BY <1>2, <1>3, <1>4 DEF Alone

LEMMA WakeAlone ==
  ASSUME AloneInv, NEW p \in Producer, NEW d \in delayed, Wake(p, d)
  PROVE  Alone'
<1>1. slots' = slots /\ work' = work /\ locked \subseteq locked' BY DEF Wake
<1>2. d[1] \in Queue /\ d[2] \in Item /\ d[2] \in Retried
  BY DEF AloneInv, DelayedRetried, WakeInv, TypeOK
<1>3. \A x \in Producer : x # p => prod'[x] = prod[x]
  BY DEF Wake, Enqueues, AloneInv, WakeInv, TypeOK
<1>4. Waiting(p)' => First(p)' \in Retried
  <2>1. CASE SignedIn(d[2])
    <3>1. prod'[p] = Idle BY <2>1 DEF Wake
    <3>2. QED BY <3>1 DEF Waiting
  <2>2. CASE ~SignedIn(d[2])
    <3>1. PICK q \in Queue, i \in Retried : d[1] = q /\ d[2] = i BY <1>2
    <3>2. Enqueues(p, q, <<i>>, FALSE) BY <2>2, <3>1 DEF Wake
    <3>3. prod'[p] = [queue |-> q, todo |-> <<i>>, batch |-> FALSE]
      BY <3>2 DEF Enqueues, AloneInv, WakeInv, TypeOK
    <3>4. Head(<<i>>) = i OBVIOUS
    <3>5. QED BY <3>3, <3>4 DEF First
  <2>3. QED BY <2>1, <2>2
<1>5. \A x \in Producer : x # p => (Waiting(x)' <=> Waiting(x)) /\ First(x)' = First(x)
  BY <1>3 DEF Waiting, First
<1>6. AllSignedIn' BY <1>1, <1>4, <1>5 DEF AloneInv, AllSignedIn
<1>7. ProdAlone' BY <1>1, <1>4, <1>5 DEF AloneInv, ProdAlone
<1>8. SlotAlone' /\ WorkAlone' BY <1>1 DEF AloneInv, SlotAlone, WorkAlone
<1>9. QED BY <1>6, <1>7, <1>8 DEF Alone

LEMMA DelayedStep == ASSUME DelayedRetried, [Next]_vars PROVE DelayedRetried'
<1>1. ASSUME NEW c \in Consumer, NEW w \in work[c], EnqueueWithDelay(c, w)
      PROVE  DelayedRetried'
  BY <1>1 DEF EnqueueWithDelay, DelayedRetried
<1>2. ASSUME NEW p \in Producer, NEW d \in delayed, Wake(p, d) PROVE DelayedRetried'
  BY <1>2 DEF Wake, DelayedRetried
<1>3. ASSUME delayed' = delayed PROVE DelayedRetried' BY <1>3 DEF DelayedRetried
<1>4. QED
  BY <1>1, <1>2, <1>3 DEF Next, vars, Enqueue, BatchEnqueue, Produce, Append1,
    BatchItem, BatchDone, Work, Wakeup, TakeBatch, DrainEmpty, Stop, Handled,
    Dequeue, Cancel

LEMMA AloneStep == ASSUME AloneInv, [Next]_vars PROVE AloneInv'
<1>0. WakeInv' /\ DelayedRetried'
  BY TypeStep, ProdStep, WakeStep, DelayedStep DEF AloneInv, WakeInv
<1>1. ASSUME locked' = locked, slots' = slots, work' = work,
             \A x \in Producer : (Waiting(x)' => Waiting(x)) /\ (Waiting(x)' => First(x)' = First(x))
      PROVE  Alone'
  BY <1>1 DEF AloneInv, Alone, AllSignedIn, ProdAlone, SlotAlone, WorkAlone
<1>2. ASSUME NEW p \in Producer, NEW q \in Queue, NEW s \in Batches, BatchEnqueue(p, q, s)
      PROVE  Alone'
  BY <1>1, <1>2 DEF BatchEnqueue, Enqueues, AloneInv, WakeInv, TypeOK, Waiting, First
<1>3. ASSUME NEW p \in Producer, BatchDone(p) PROVE Alone'
  BY <1>1, <1>3 DEF BatchDone, AloneInv, WakeInv, TypeOK, Waiting, First
<1>4. ASSUME locked' = locked, slots' = slots, work' = work, prod' = prod PROVE Alone'
  BY <1>1, <1>4 DEF Waiting, First
<1>5. ASSUME UNCHANGED vars PROVE Alone' BY <1>4, <1>5 DEF vars
<1>6. ASSUME Next PROVE Alone'
  <2>1. ASSUME NEW c \in Consumer, Work(c) \/ Stop(c) PROVE Alone'
    BY <1>4, <2>1, TakeAlone DEF Work, Wakeup, DrainEmpty, Stop
  <2>2. ASSUME NEW p \in Producer, Produce(p) PROVE Alone'
    BY <1>3, <2>2, AppendAlone, BatchItemAlone DEF Produce
  <2>3. CASE Cancel BY <1>4, <2>3 DEF Cancel
  <2>4. QED
    BY <1>2, <1>6, <2>1, <2>2, <2>3, EnqueueAlone, DequeueAlone, HandledKeepsAlone,
       DelayAlone, WakeAlone DEF Next
<1>8. QED BY <1>0, <1>5, <1>6 DEF AloneInv, Alone

----------------------------------------------------------------------------
\* A producer, a queue or a handler has item i.
InHand(i) ==
  \/ \E p \in Producer : Waiting(p) /\ First(p) = i
  \/ \E q \in Queue : \E n \in 1..Len(slots[q]) : slots[q][n] = i
  \/ \E c \in Consumer : \E w \in work[c] : w[2] = i

\* An item that is signed in is in somebody's hand or was given to a caller of
\* Dequeue, and the latter excludes the former.
HeldInv == /\ \A i \in locked \ Retried : i \in taken \/ InHand(i)
           /\ \A i \in taken \ Retried : i \in locked /\ ~InHand(i)

LEMMA InHandIsLocked ==
  ASSUME AloneInv, NEW i, InHand(i), i \notin Retried
  PROVE  i \in locked
BY DEF InHand, AloneInv, AllSignedIn

LEMMA HeldSame ==
  ASSUME HeldInv, \A i : i \notin Retried => (InHand(i)' <=> InHand(i)),
         \A i : i \notin Retried => (i \in locked' <=> i \in locked), taken' = taken
  PROVE  HeldInv'
BY DEF HeldInv

\* What appending to a queue, and cutting off its front, do to what it holds.
LEMMA AppendedSlots ==
  ASSUME NEW q \in Queue, NEW i \in Item, slots[q] \in Seq(Item),
         slots'[q] = Append(slots[q], i), \A r \in Queue : r # q => slots'[r] = slots[r]
  PROVE  \A j : (\E r \in Queue : \E n \in 1..Len(slots'[r]) : slots'[r][n] = j) <=>
                (\E r \in Queue : \E n \in 1..Len(slots[r]) : slots[r][n] = j) \/ j = i
<1>1. \A n \in 1..Len(slots[q]) : n \in 1..Len(slots'[q]) /\ slots'[q][n] = slots[q][n]
  OBVIOUS
<1>2. Len(slots[q]) + 1 \in 1..Len(slots'[q]) /\ slots'[q][Len(slots[q]) + 1] = i
  OBVIOUS
<1>3. \A n \in 1..Len(slots'[q]) :
        slots'[q][n] = i \/ (n \in 1..Len(slots[q]) /\ slots'[q][n] = slots[q][n])
  OBVIOUS
<1>4. QED BY <1>1, <1>2, <1>3

LEMMA SplitSlots ==
  ASSUME NEW q \in Queue, slots[q] \in Seq(Item), NEW k \in Nat, k <= Len(slots[q]),
         slots'[q] = SubSeq(slots[q], k + 1, Len(slots[q]))
  PROVE  \A j : (\E n \in 1..Len(slots[q]) : slots[q][n] = j) <=>
                \/ \E n \in 1..Len(slots'[q]) : slots'[q][n] = j
                \/ \E n \in 1..k : slots[q][n] = j
<1>1. Len(slots[q]) \in Nat /\ Len(slots'[q]) = Len(slots[q]) - k OBVIOUS
<1>2. \A n \in 1..Len(slots'[q]) :
        k + n \in 1..Len(slots[q]) /\ slots'[q][n] = slots[q][k + n]
  BY RestOfSeq
<1>3. \A n \in 1..Len(slots[q]) :
        n \in 1..k \/ (n - k \in 1..Len(slots'[q]) /\ slots'[q][n - k] = slots[q][n])
  <2> SUFFICES ASSUME NEW n \in 1..Len(slots[q]), n \notin 1..k
               PROVE  n - k \in 1..Len(slots'[q]) /\ slots'[q][n - k] = slots[q][n]
    OBVIOUS
  <2>1. n - k \in 1..Len(slots'[q]) BY <1>1
  <2>2. slots'[q][n - k] = slots[q][k + (n - k)] BY <1>2, <2>1
  <2>3. QED BY <1>1, <2>1, <2>2
<1>4. \A n \in 1..k : n \in 1..Len(slots[q]) BY <1>1
<1>5. QED BY <1>2, <1>3, <1>4

LEMMA EnqueueHeld ==
  ASSUME AloneInv, HeldInv, NEW p \in Producer, NEW q \in Queue, NEW i \in Item,
         Enqueue(p, q, i)
  PROVE  HeldInv'
<1>1. \A x \in Producer : x # p => prod'[x] = prod[x]
  BY DEF Enqueue, Enqueues, AloneInv, WakeInv, TypeOK
<1>2. Waiting(p)' /\ First(p)' = i
  <2>1. prod'[p] = [queue |-> q, todo |-> <<i>>, batch |-> FALSE]
    BY DEF Enqueue, Enqueues, AloneInv, WakeInv, TypeOK
  <2>2. <<i>> \in Seq(Item) /\ Head(<<i>>) = i OBVIOUS
  <2>3. prod'[p] # Idle
    <3>1. prod'[p] \in Enqueuing BY <2>1, <2>2 DEF Enqueuing
    <3>2. QED BY <3>1, QueueAssumption DEF Enqueuing
  <2>4. QED BY <2>1, <2>2, <2>3 DEF Waiting, First
<1>3. \A x \in Producer : x # p => (Waiting(x)' <=> Waiting(x)) /\ First(x)' = First(x)
  BY <1>1 DEF Waiting, First
<1>4. ~Waiting(p) BY DEF Enqueue, Waiting
<1>5. /\ i \notin locked /\ locked' = locked \cup {i}
      /\ slots' = slots /\ work' = work /\ taken' = taken
  BY DEF Enqueue
<1>6. \A j : InHand(j)' <=> InHand(j) \/ j = i BY <1>2, <1>3, <1>4, <1>5 DEF InHand
<1>7. QED BY <1>5, <1>6 DEF HeldInv

LEMMA AppendHeld ==
  ASSUME AloneInv, HeldInv, NEW p \in Producer, Append1(p)
  PROVE  HeldInv'
<1>0. prod[p].queue \in Queue /\ prod[p].todo \in Seq(Item) /\ Waiting(p)
  BY ProdFields DEF Append1, AloneInv, WakeInv, Waiting
<1>q. PICK q \in Queue : q = prod[p].queue BY <1>0
<1>i. PICK i \in Item : i = First(p)
  BY <1>0 DEF First, Waiting, AloneInv, WakeInv, ProdInv
<1>1. \A x \in Producer : x # p => (Waiting(x)' <=> Waiting(x)) /\ First(x)' = First(x)
  BY DEF Append1, AloneInv, WakeInv, TypeOK, Waiting, First
<1>2. ~Waiting(p)' BY DEF Append1, AloneInv, WakeInv, TypeOK, Waiting
<1>3. locked' = locked /\ work' = work /\ taken' = taken BY DEF Append1
<1>4. slots[q] \in Seq(Item) /\ slots'[q] = Append(slots[q], i)
  BY <1>q, <1>i DEF Append1, AloneInv, WakeInv, TypeOK, First
<1>5. \A r \in Queue : r # q => slots'[r] = slots[r]
  BY <1>q DEF Append1, AloneInv, WakeInv, TypeOK
<1>6. \A j : (\E r \in Queue : \E n \in 1..Len(slots'[r]) : slots'[r][n] = j) <=>
             (\E r \in Queue : \E n \in 1..Len(slots[r]) : slots[r][n] = j) \/ j = i
  BY <1>4, <1>5, AppendedSlots
<1>7. \A j : (\E x \in Producer : Waiting(x) /\ First(x) = j) <=>
             (\E x \in Producer : Waiting(x)' /\ First(x)' = j) \/ j = i
  BY <1>0, <1>i, <1>1, <1>2
<1>8. \A j : InHand(j)' <=> InHand(j) BY <1>3, <1>6, <1>7 DEF InHand
<1>9. QED BY <1>3, <1>8, HeldSame

LEMMA BatchItemHeld ==
  ASSUME AloneInv, HeldInv, NEW p \in Producer, BatchItem(p)
  PROVE  HeldInv'
<1>0. prod[p].queue \in Queue /\ prod[p].todo \in Seq(Item) /\ prod[p].todo # <<>>
  BY ProdFields DEF BatchItem, AloneInv, WakeInv
<1>q. PICK q \in Queue : q = prod[p].queue BY <1>0
<1>i. PICK i \in Item : i = Head(prod[p].todo) BY <1>0
<1>1. \A x \in Producer : (Waiting(x)' <=> Waiting(x)) /\ (Waiting(x) => First(x)' = First(x))
  BY DEF BatchItem, Enqueues, AloneInv, WakeInv, TypeOK, Waiting, First
<1>3. locked' = locked \cup {i} /\ work' = work /\ taken' = taken BY <1>i DEF BatchItem
<1>4. CASE i \in locked
  <2>1. slots' = slots BY <1>i, <1>4 DEF BatchItem, SignedIn, AloneInv, WakeInv, TypeOK
  <2>2. \A j : InHand(j)' <=> InHand(j) BY <1>1, <1>3, <2>1 DEF InHand
  <2>3. locked' = locked BY <1>3, <1>4
  <2>4. QED BY <1>3, <2>2, <2>3, HeldSame
<1>5. CASE i \notin locked
  <2>1. slots[q] \in Seq(Item) /\ slots'[q] = Append(slots[q], i)
    BY <1>q, <1>i, <1>5 DEF BatchItem, SignedIn, AloneInv, WakeInv, TypeOK
  <2>2. \A r \in Queue : r # q => slots'[r] = slots[r]
    BY <1>q DEF BatchItem, AloneInv, WakeInv, TypeOK
  <2>3. \A j : (\E r \in Queue : \E n \in 1..Len(slots'[r]) : slots'[r][n] = j) <=>
               (\E r \in Queue : \E n \in 1..Len(slots[r]) : slots[r][n] = j) \/ j = i
    BY <2>1, <2>2, AppendedSlots
  <2>4. \A j : InHand(j)' <=> InHand(j) \/ j = i BY <1>1, <1>3, <2>3 DEF InHand
  <2>5. QED BY <1>3, <1>5, <2>4 DEF HeldInv
<1>6. QED BY <1>4, <1>5

LEMMA TakeHeld ==
  ASSUME AloneInv, HeldInv, NEW c \in Consumer, TakeBatch(c)
  PROVE  HeldInv'
<1> USE QueueAssumption
<1>q. PICK q \in Queue : q = Serves[c] OBVIOUS
<1>s. slots[q] \in Seq(Item) BY DEF AloneInv, WakeInv, TypeOK
<1>k. PICK k \in Nat : k = Batch(q) /\ k <= Len(slots[q]) BY <1>s DEF Batch
<1>1. prod' = prod /\ locked' = locked /\ taken' = taken BY DEF TakeBatch
<1>2. \A x \in Producer : (Waiting(x)' <=> Waiting(x)) /\ First(x)' = First(x)
  BY <1>1 DEF Waiting, First
<1>3. slots'[q] = SubSeq(slots[q], k + 1, Len(slots[q]))
  BY <1>q, <1>k DEF TakeBatch, AloneInv, WakeInv, TypeOK
<1>4. \A r \in Queue : r # q => slots'[r] = slots[r]
  BY <1>q DEF TakeBatch, AloneInv, WakeInv, TypeOK
<1>5. work[c] = {} /\ work'[c] = {<<j, slots[q][j]>> : j \in 1..k}
  BY <1>q, <1>k DEF TakeBatch, AloneInv, WakeInv, TypeOK
<1>6. \A d \in Consumer : d # c => work'[d] = work[d]
  BY DEF TakeBatch, AloneInv, WakeInv, TypeOK
<1>7. \A j : (\E n \in 1..Len(slots[q]) : slots[q][n] = j) <=>
             (\E n \in 1..Len(slots'[q]) : slots'[q][n] = j) \/ (\E n \in 1..k : slots[q][n] = j)
  BY <1>3, <1>k, <1>s, SplitSlots
<1>8. \A j : (\E w \in work'[c] : w[2] = j) <=> (\E n \in 1..k : slots[q][n] = j)
  <2>1. \A w \in work'[c] : \E n \in 1..k : w = <<n, slots[q][n]>> BY <1>5
  <2>2. \A n \in 1..k : <<n, slots[q][n]>> \in work'[c] BY <1>5
  <2> SUFFICES ASSUME NEW j
               PROVE  (\E w \in work'[c] : w[2] = j) <=> (\E n \in 1..k : slots[q][n] = j)
    OBVIOUS
  <2>3. ASSUME NEW w \in work'[c], w[2] = j PROVE \E n \in 1..k : slots[q][n] = j
    BY <2>1, <2>3
  <2>4. ASSUME NEW n \in 1..k, slots[q][n] = j PROVE \E w \in work'[c] : w[2] = j
    <3>1. <<n, slots[q][n]>>[2] = j BY <2>4
    <3>2. QED BY <2>2, <3>1
  <2>5. QED BY <2>3, <2>4
<1>9. ASSUME NEW j PROVE InHand(j)' <=> InHand(j)
  <2> DEFINE S(r) == \E n \in 1..Len(slots[r]) : slots[r][n] = j
             W(d) == \E w \in work[d] : w[2] = j
  <2>1. (S(q) <=> S(q)' \/ W(c)') /\ ~W(c) BY <1>5, <1>7, <1>8
  <2>2. \A r \in Queue : r # q => (S(r)' <=> S(r)) BY <1>4
  <2>3. \A d \in Consumer : d # c => (W(d)' <=> W(d)) BY <1>6
  <2>4. (InHand(j) <=> (\E x \in Producer : Waiting(x) /\ First(x) = j)
                        \/ (\E r \in Queue : S(r)) \/ (\E d \in Consumer : W(d)))
    BY DEF InHand
  <2>5. (InHand(j)' <=> (\E x \in Producer : Waiting(x)' /\ First(x)' = j)
                        \/ (\E r \in Queue : S(r)') \/ (\E d \in Consumer : W(d)'))
    BY DEF InHand
  <2> HIDE DEF S, W
  <2>6. QED BY <1>2, <2>1, <2>2, <2>3, <2>4, <2>5
<1>10. QED BY <1>1, <1>9, HeldSame

LEMMA DequeueHeld ==
  ASSUME AloneInv, HeldInv, NEW q \in Queue, Dequeue(q)
  PROVE  HeldInv'
<1>1. prod' = prod /\ locked' = locked /\ work' = work BY DEF Dequeue
<1>2. \A x \in Producer : (Waiting(x)' <=> Waiting(x)) /\ First(x)' = First(x)
  BY <1>1 DEF Waiting, First
<1>3. slots[q] \in Seq(Item) /\ slots'[q] = Tail(slots[q]) /\ slots[q] # <<>>
  BY DEF Dequeue, AloneInv, WakeInv, TypeOK
<1>4. \A r \in Queue : r # q => slots'[r] = slots[r]
  BY DEF Dequeue, AloneInv, WakeInv, TypeOK
<1>i. PICK i \in Item : i = slots[q][1] /\ taken' = taken \cup {i} BY <1>3 DEF Dequeue
<1>5. 1 \in 1..Len(slots[q]) BY <1>3
<1>6. \A n \in 1..Len(slots'[q]) :
        n + 1 \in 1..Len(slots[q]) /\ n + 1 # 1 /\ slots'[q][n] = slots[q][n + 1]
  BY <1>3
<1>7. \A n \in 1..Len(slots[q]) : n # 1 =>
        n - 1 \in 1..Len(slots'[q]) /\ slots'[q][n - 1] = slots[q][n]
  BY <1>3
<1>8. \A j : j # i => (InHand(j)' <=> InHand(j))
  <2> SUFFICES ASSUME NEW j, j # i PROVE InHand(j)' <=> InHand(j) OBVIOUS
  <2>1. (\E n \in 1..Len(slots[q]) : slots[q][n] = j) <=>
        (\E n \in 1..Len(slots'[q]) : slots'[q][n] = j)
    BY <1>i, <1>6, <1>7
  <2>2. QED BY <1>1, <1>2, <1>4, <2>1 DEF InHand
<1>9. i \notin Retried => i \in locked /\ ~InHand(i)'
  <2> SUFFICES ASSUME i \notin Retried PROVE i \in locked /\ ~InHand(i)' OBVIOUS
  <2>1. i \in locked BY <1>i, <1>5 DEF AloneInv, AllSignedIn
  <2>2. \A x \in Producer : ~(Waiting(x) /\ First(x) = i)
    BY <1>i, <1>5 DEF AloneInv, ProdAlone
  <2>3. \A d \in Consumer : \A w \in work[d] : w[2] # i
    BY <1>i, <1>5 DEF AloneInv, SlotAlone
  <2>4. \A r \in Queue : \A n \in 1..Len(slots'[r]) : slots'[r][n] # i
    BY <1>i, <1>4, <1>5, <1>6 DEF AloneInv, SlotAlone
  <2>5. QED BY <1>1, <1>2, <2>1, <2>2, <2>3, <2>4 DEF InHand
<1>10. QED BY <1>1, <1>i, <1>8, <1>9 DEF HeldInv

LEMMA HandledHeld ==
  ASSUME AloneInv, HeldInv, NEW c \in Consumer, NEW w \in work[c], Handled(c, w)
  PROVE  HeldInv'
<1>1. prod' = prod /\ slots' = slots /\ locked' = locked \ {w[2]} /\ taken' = taken
  BY DEF Handled, SignedOut
<1>2. \A x \in Producer : (Waiting(x)' <=> Waiting(x)) /\ First(x)' = First(x)
  BY <1>1 DEF Waiting, First
<1>3. work'[c] = work[c] \ {w} /\ \A d \in Consumer : d # c => work'[d] = work[d]
  BY DEF Handled, AloneInv, WakeInv, TypeOK
<1>4. \A j : InHand(j)' => InHand(j) BY <1>1, <1>2, <1>3 DEF InHand
<1>5. \A j : j # w[2] => (InHand(j) => InHand(j)')
  <2>1. \A j : j # w[2] => \A d \in Consumer :
          (\E x \in work[d] : x[2] = j) => (\E x \in work'[d] : x[2] = j)
    BY <1>3
  <2>2. QED BY <1>1, <1>2, <2>1 DEF InHand
<1>6. w[2] \in taken => w[2] \in Retried
  <2>1. InHand(w[2]) BY DEF InHand
  <2>2. QED BY <2>1 DEF HeldInv
<1>7. QED BY <1>1, <1>4, <1>5, <1>6 DEF HeldInv

LEMMA WakeHeld ==
  ASSUME AloneInv, HeldInv, NEW p \in Producer, NEW d \in delayed, Wake(p, d)
  PROVE  HeldInv'
<1>1. slots' = slots /\ work' = work /\ locked' = locked \cup {d[2]} /\ taken' = taken
  BY DEF Wake
<1>2. d[1] \in Queue /\ d[2] \in Item /\ d[2] \in Retried
  BY DEF AloneInv, DelayedRetried, WakeInv, TypeOK
<1>3. \A x \in Producer : x # p => prod'[x] = prod[x]
  BY DEF Wake, Enqueues, AloneInv, WakeInv, TypeOK
<1>4. Waiting(p)' => First(p)' \in Retried
  <2>1. CASE SignedIn(d[2])
    <3>1. prod'[p] = Idle BY <2>1 DEF Wake
    <3>2. QED BY <3>1 DEF Waiting
  <2>2. CASE ~SignedIn(d[2])
    <3>1. PICK q \in Queue, i \in Retried : d[1] = q /\ d[2] = i BY <1>2
    <3>2. Enqueues(p, q, <<i>>, FALSE) BY <2>2, <3>1 DEF Wake
    <3>3. prod'[p] = [queue |-> q, todo |-> <<i>>, batch |-> FALSE]
      BY <3>2 DEF Enqueues, AloneInv, WakeInv, TypeOK
    <3>4. Head(<<i>>) = i OBVIOUS
    <3>5. QED BY <3>3, <3>4 DEF First
  <2>3. QED BY <2>1, <2>2
<1>5. \A x \in Producer : x # p => (Waiting(x)' <=> Waiting(x)) /\ First(x)' = First(x)
  BY <1>3 DEF Waiting, First
<1>6. ~Waiting(p) BY DEF Wake, Waiting
<1>7. \A j : j \notin Retried => (InHand(j)' <=> InHand(j))
  BY <1>1, <1>4, <1>5, <1>6 DEF InHand
<1>8. QED BY <1>1, <1>2, <1>7, HeldSame

LEMMA HeldStep == ASSUME AloneInv, HeldInv, [Next]_vars PROVE HeldInv'
<1>1. ASSUME \A i : i \notin Retried => (i \in locked' <=> i \in locked), taken' = taken,
             slots' = slots, work' = work,
             \A x \in Producer : (Waiting(x)' <=> Waiting(x)) /\ (Waiting(x)' => First(x)' = First(x))
      PROVE  HeldInv'
  <2>1. \A j : InHand(j)' <=> InHand(j) BY <1>1 DEF InHand
  <2>2. QED BY <1>1, <2>1, HeldSame
<1>2. ASSUME NEW p \in Producer, NEW q \in Queue, NEW s \in Batches, BatchEnqueue(p, q, s)
      PROVE  HeldInv'
  BY <1>1, <1>2 DEF BatchEnqueue, Enqueues, AloneInv, WakeInv, TypeOK, Waiting, First
<1>3. ASSUME NEW p \in Producer, BatchDone(p) PROVE HeldInv'
  BY <1>1, <1>3 DEF BatchDone, AloneInv, WakeInv, TypeOK, Waiting, First
<1>4. ASSUME \A i : i \notin Retried => (i \in locked' <=> i \in locked),
             UNCHANGED <<taken, slots, work, prod>>
      PROVE  HeldInv'
  BY <1>1, <1>4 DEF Waiting, First
<1>5. ASSUME UNCHANGED vars PROVE HeldInv' BY <1>4, <1>5 DEF vars
<1>6. ASSUME Next PROVE HeldInv'
  <2>1. ASSUME NEW c \in Consumer, Work(c) \/ Stop(c) PROVE HeldInv'
    BY <1>4, <2>1, TakeHeld DEF Work, Wakeup, DrainEmpty, Stop
  <2>2. ASSUME NEW p \in Producer, Produce(p) PROVE HeldInv'
    BY <1>3, <2>2, AppendHeld, BatchItemHeld DEF Produce
  <2>3. CASE Cancel BY <1>4, <2>3 DEF Cancel
  <2>4. ASSUME NEW c \in Consumer, NEW w \in work[c], EnqueueWithDelay(c, w)
        PROVE  HeldInv'
    BY <1>4, <2>4 DEF EnqueueWithDelay
  <2>5. QED
    BY <1>2, <1>6, <2>1, <2>2, <2>3, <2>4, EnqueueHeld, DequeueHeld, HandledHeld, WakeHeld
    DEF Next
<1>7. QED BY <1>5, <1>6

\* The places of SignedInOnce, kind by kind.
LEMMA PlacesOf ==
  ASSUME TypeOK, NEW i, NEW x
  PROVE  x \in Places(i) <=>
           \/ \E p \in Producer : Waiting(p) /\ First(p) = i /\ x = <<"prod", p, 0>>
           \/ \E q \in Queue : \E n \in 1..Len(slots[q]) :
                slots[q][n] = i /\ x = <<"slot", q, n>>
           \/ \E c \in Consumer : \E w \in work[c] : w[2] = i /\ x = <<"work", c, w[1]>>
           \/ i \in taken /\ x = <<"taken", 0, 0>>
<1>1. x \in {<<"prod", p, 0>> : p \in {y \in Producer : Pending(y, i)}} <=>
        \E p \in Producer : Waiting(p) /\ First(p) = i /\ x = <<"prod", p, 0>>
  BY DEF Pending, Waiting, First
<1>2. x \in (UNION {{<<"slot", q, n>> : n \in Slots(q, i)} : q \in Queue}) <=>
        \E q \in Queue : \E n \in 1..Len(slots[q]) : slots[q][n] = i /\ x = <<"slot", q, n>>
  BY DEF Slots
<1>3. x \in (UNION {{<<"work", c, w[1]>> : w \in {y \in work[c] : y[2] = i}} : c \in Consumer})
        <=> \E c \in Consumer : \E w \in work[c] : w[2] = i /\ x = <<"work", c, w[1]>>
  OBVIOUS
<1>4. x \in {<<"taken", 0, 0>> : y \in taken \cap {i}} <=>
        i \in taken /\ x = <<"taken", 0, 0>>
  OBVIOUS
<1>5. QED BY <1>1, <1>2, <1>3, <1>4 DEF Places

LEMMA OnePlace ==
  ASSUME AloneInv, HeldInv, NEW i \in Item \ Retried, NEW x \in Places(i), NEW y \in Places(i)
  PROVE  x = y
<1>t. TypeOK BY DEF AloneInv, WakeInv
<1>1. ASSUME NEW p \in Producer, Waiting(p), First(p) = i, x = <<"prod", p, 0>> PROVE x = y
  <2>1. InHand(i) BY <1>1 DEF InHand
  <2>2. QED BY <1>t, <1>1, <2>1, PlacesOf DEF AloneInv, ProdAlone, HeldInv
<1>2. ASSUME NEW q \in Queue, NEW n \in 1..Len(slots[q]), slots[q][n] = i, x = <<"slot", q, n>>
      PROVE x = y
  <2>1. InHand(i) BY <1>2 DEF InHand
  <2>2. ~\E p \in Producer : Waiting(p) /\ First(p) = i BY <1>2 DEF AloneInv, ProdAlone
  <2>3. ~\E c \in Consumer : \E w \in work[c] : w[2] = i BY <1>2 DEF AloneInv, SlotAlone
  <2>4. i \notin taken BY <2>1 DEF HeldInv
  <2>5. PICK r \in Queue :
          \E m \in 1..Len(slots[r]) : slots[r][m] = i /\ y = <<"slot", r, m>>
    BY <1>t, <2>2, <2>3, <2>4, PlacesOf
  <2>6. PICK m \in 1..Len(slots[r]) : slots[r][m] = i /\ y = <<"slot", r, m>> BY <2>5
  <2>7. r = q /\ m = n BY <1>2, <2>6 DEF AloneInv, SlotAlone
  <2>8. QED BY <1>2, <2>6, <2>7
<1>3. ASSUME NEW c \in Consumer, NEW w \in work[c], w[2] = i, x = <<"work", c, w[1]>>
      PROVE x = y
  <2>1. InHand(i) BY <1>3 DEF InHand
  <2>2. ~\E p \in Producer : Waiting(p) /\ First(p) = i BY <1>3 DEF AloneInv, ProdAlone
  <2>3. ~\E q \in Queue : \E n \in 1..Len(slots[q]) : slots[q][n] = i
    BY <1>3 DEF AloneInv, SlotAlone
  <2>4. i \notin taken BY <2>1 DEF HeldInv
  <2>5. PICK d \in Consumer : \E v \in work[d] : v[2] = i /\ y = <<"work", d, v[1]>>
    BY <1>t, <2>2, <2>3, <2>4, PlacesOf
  <2>6. PICK v \in work[d] : v[2] = i /\ y = <<"work", d, v[1]>> BY <2>5
  <2>7. d = c /\ v = w BY <1>3, <2>6 DEF AloneInv, WorkAlone
  <2>8. QED BY <1>3, <2>6, <2>7
<1>4. ASSUME i \in taken, x = <<"taken", 0, 0>> PROVE x = y
  <2>1. ~InHand(i) BY <1>4 DEF HeldInv
  <2>2. QED BY <1>t, <1>4, <2>1, PlacesOf DEF InHand
<1>5. QED BY <1>t, <1>1, <1>2, <1>3, <1>4, PlacesOf

LEMMA HeldOnce == ASSUME AloneInv, HeldInv PROVE SignedInOnce
<1> SUFFICES ASSUME NEW i \in Item \ Retried
             PROVE  \/ i \notin locked /\ Places(i) = {}
                    \/ i \in locked /\ \E x \in Places(i) : Places(i) = {x}
  BY DEF SignedInOnce
<1>t. TypeOK BY DEF AloneInv, WakeInv
<1>1. (\E x : x \in Places(i)) <=> i \in taken \/ InHand(i)
  <2>1. ASSUME NEW x \in Places(i) PROVE i \in taken \/ InHand(i)
    BY <1>t, PlacesOf DEF InHand
  <2>2. i \in taken => <<"taken", 0, 0>> \in Places(i) BY <1>t, PlacesOf
  <2>3. ASSUME InHand(i) PROVE \E x : x \in Places(i)
    <3>1. CASE \E p \in Producer : Waiting(p) /\ First(p) = i
      <4>1. PICK p \in Producer : Waiting(p) /\ First(p) = i BY <3>1
      <4>2. <<"prod", p, 0>> \in Places(i) BY <1>t, <4>1, PlacesOf
      <4>3. QED BY <4>2
    <3>2. CASE \E q \in Queue : \E n \in 1..Len(slots[q]) : slots[q][n] = i
      <4>1. PICK q \in Queue : \E n \in 1..Len(slots[q]) : slots[q][n] = i BY <3>2
      <4>2. PICK n \in 1..Len(slots[q]) : slots[q][n] = i BY <4>1
      <4>3. <<"slot", q, n>> \in Places(i) BY <1>t, <4>2, PlacesOf
      <4>4. QED BY <4>3
    <3>3. CASE \E c \in Consumer : \E w \in work[c] : w[2] = i
      <4>1. PICK c \in Consumer : \E w \in work[c] : w[2] = i BY <3>3
      <4>2. PICK w \in work[c] : w[2] = i BY <4>1
      <4>3. <<"work", c, w[1]>> \in Places(i) BY <1>t, <4>2, PlacesOf
      <4>4. QED BY <4>3
    <3>4. QED BY <2>3, <3>1, <3>2, <3>3 DEF InHand
  <2>4. QED BY <2>1, <2>2, <2>3
<1>2. i \in locked <=> i \in taken \/ InHand(i) BY InHandIsLocked DEF HeldInv
<1>3. CASE i \notin locked BY <1>1, <1>2, <1>3
<1>4. CASE i \in locked
  <2>1. PICK x \in Places(i) : TRUE BY <1>1, <1>2, <1>4
  <2>2. Places(i) = {x} BY <2>1, OnePlace
  <2>3. QED BY <1>4, <2>2
<1>5. QED BY <1>3, <1>4

\* An item no handler puts off is signed in exactly while one producer, queue,
\* handler or caller of Dequeue has it, whichever queues it is put in, with
\* Enqueue or in a batch, however the calls interleave, and whatever is done
\* with other items (signInLocks).
THEOREM AlwaysSignedInOnce == Spec => []SignedInOnce
<1>1. AloneInv /\ HeldInv /\ [Next]_vars => (AloneInv /\ HeldInv)' BY AloneStep, HeldStep
<1>2. Init => AloneInv /\ HeldInv
  <2>1. Init => HeldInv BY DEF Init, HeldInv
  <2>2. QED BY <2>1, InitAlone
<1>3. AloneInv /\ HeldInv => SignedInOnce BY HeldOnce
<1>4. QED BY <1>1, <1>2, <1>3, PTL DEF Spec
=============================================================================
