------------------------------ MODULE RichQueue ------------------------------
(***************************************************************************)
(* The work queues of common/system/queue_enhance.go.  An item that enters *)
(* a queue is signed in to signInLocks, a map all queues of the process    *)
(* share; the consumer that has handled it signs it out.  The channel      *)
(* notify holds one token, however many items arrive before it is taken.   *)
(*                                                                         *)
(* Enqueue signs the item in before it takes the lock of the queue, while  *)
(* BatchEnqueue signs its items in, one by one, under that lock.           *)
(***************************************************************************)
EXTENDS Integers, Sequences

CONSTANTS
  Item, Queue,
  Producer,   \* goroutines that enqueue
  Consumer,   \* goroutines in ConsumerWithContext
  Serves,     \* Serves[c] : the queue consumer c is started on
  BatchSize,  \* the parameter size of ConsumerWithContext
  MaxSlots,   \* bound: items in a queue
  MaxBatch,   \* bound: items of a BatchEnqueue
  Retried,    \* items whose handlers may call EnqueueWithDelay
  Idle, Free

ASSUME QueueAssumption ==
  /\ Serves \in [Consumer -> Queue]
  /\ BatchSize \in Nat \ {0}
  /\ MaxSlots \in Nat /\ MaxBatch \in Nat
  /\ Retried \subseteq Item
  /\ Free \notin Producer
  /\ Idle \notin [queue : Queue, todo : Seq(Item), batch : BOOLEAN]

VARIABLES
  slots,     \* slots[q] : the items in queue q
  notify,    \* notify[q] : the token is in the channel
  mutex,     \* mutex[q] : the BatchEnqueue that holds the lock of q
  locked,    \* signInLocks
  prod,      \* prod[p] : the enqueue in progress
  delayed,   \* sleeping goroutines of EnqueueWithDelay, one of a kind
  at,        \* at[c] : "select", "drain" (the inner loop) or "stopped"
  work,      \* work[c] : items of the batch whose handlers still run
  taken,     \* items that callers of Dequeue were given
  cancelled  \* the context is done

vars == <<slots, notify, mutex, locked, prod, delayed, at, work, taken, cancelled>>

Enqueuing == [queue : Queue, todo : Seq(Item), batch : BOOLEAN]

TypeOK == /\ slots \in [Queue -> Seq(Item)]
          /\ notify \in [Queue -> BOOLEAN]
          /\ mutex \in [Queue -> Producer \cup {Free}]
          /\ locked \subseteq Item
          /\ prod \in [Producer -> Enqueuing \cup {Idle}]
          /\ delayed \subseteq Queue \X Item
          /\ at \in [Consumer -> {"select", "drain", "stopped"}]
          /\ work \in [Consumer -> SUBSET ((1..BatchSize) \X Item)]
          /\ taken \subseteq Item
          /\ cancelled \in BOOLEAN

Init == /\ slots = [q \in Queue |-> <<>>]
        /\ notify = [q \in Queue |-> FALSE]
        /\ mutex = [q \in Queue |-> Free]
        /\ locked = {}
        /\ prod = [p \in Producer |-> Idle]
        /\ delayed = {}
        /\ at = [c \in Consumer |-> "select"]
        /\ work = [c \in Consumer |-> {}]
        /\ taken = {}
        /\ cancelled = FALSE

----------------------------------------------------------------------------
\* Producers.

NotifiedIfEmpty(q) ==  \* mutant: only the first item of an empty queue notifies
  [notify EXCEPT ![q] = @ \/ slots[q] = <<>>]

\* select { case q.notify <- struct{}{}: default: }
Notified(q) == [notify EXCEPT ![q] = TRUE]

Enqueues(p, q, todo, batch) ==
  prod' = [prod EXCEPT ![p] = [queue |-> q, todo |-> todo, batch |-> batch]]

\* Enqueue signs the item in; an item that is signed in already is dropped,
\* which changes nothing.
Enqueue(p, q, i) ==
  /\ prod[p] = Idle /\ i \notin locked
  /\ locked' = locked \cup {i}
  /\ Enqueues(p, q, <<i>>, FALSE)
  /\ UNCHANGED <<slots, notify, mutex, delayed, at, work, taken, cancelled>>

\* ... then it takes the lock of the queue and appends.
Append1(p) == LET q == prod[p].queue IN
  /\ prod[p] # Idle /\ ~prod[p].batch
  /\ mutex[q] = Free /\ Len(slots[q]) < MaxSlots
  /\ slots' = [slots EXCEPT ![q] = Append(@, Head(prod[p].todo))]
  /\ notify' = Notified(q)
  /\ prod' = [prod EXCEPT ![p] = Idle]
  /\ UNCHANGED <<mutex, locked, delayed, at, work, taken, cancelled>>

BatchEnqueue(p, q, items) ==
  /\ prod[p] = Idle /\ mutex[q] = Free
  /\ Len(slots[q]) + Len(items) <= MaxSlots
  /\ mutex' = [mutex EXCEPT ![q] = p]
  /\ Enqueues(p, q, items, TRUE)
  /\ UNCHANGED <<slots, notify, locked, delayed, at, work, taken, cancelled>>

SignedInNever(i) == FALSE  \* mutant: LoadOrStore's second result is ignored

\* LoadOrStore(item) finds the item in the map.
SignedIn(i) == i \in locked

\* One turn of BatchEnqueue's loop.
BatchItem(p) == LET q == prod[p].queue  i == Head(prod[p].todo) IN
  /\ prod[p] # Idle /\ prod[p].batch /\ prod[p].todo # <<>>
  /\ locked' = locked \cup {i}
  /\ slots' = [slots EXCEPT ![q] = IF SignedIn(i) THEN @ ELSE Append(@, i)]
  /\ Enqueues(p, q, Tail(prod[p].todo), TRUE)
  /\ UNCHANGED <<notify, mutex, delayed, at, work, taken, cancelled>>

BatchDone(p) == LET q == prod[p].queue IN
  /\ prod[p] # Idle /\ prod[p].batch /\ prod[p].todo = <<>>
  /\ notify' = Notified(q)
  /\ mutex' = [mutex EXCEPT ![q] = Free]
  /\ prod' = [prod EXCEPT ![p] = Idle]
  /\ UNCHANGED <<slots, locked, delayed, at, work, taken, cancelled>>

\* EnqueueWithDelay, called by a handler to see its item again: it signs the
\* item out and starts a goroutine.
EnqueueWithDelay(c, w) ==
  /\ w \in work[c] /\ w[2] \in Retried
  /\ locked' = locked \ {w[2]}
  /\ delayed' = delayed \cup {<<Serves[c], w[2]>>}
  /\ UNCHANGED <<slots, notify, mutex, prod, at, work, taken, cancelled>>

\* The goroutine has slept and calls Enqueue.
Wake(p, d) ==
  /\ d \in delayed /\ prod[p] = Idle
  /\ delayed' = delayed \ {d}
  /\ locked' = locked \cup {d[2]}
  /\ IF SignedIn(d[2]) THEN UNCHANGED prod ELSE Enqueues(p, d[1], <<d[2]>>, FALSE)
  /\ UNCHANGED <<slots, notify, mutex, at, work, taken, cancelled>>

----------------------------------------------------------------------------
\* Consumers.

\* Dequeue outside a consumer: nothing signs the item out.
Dequeue(q) ==
  /\ mutex[q] = Free /\ slots[q] # <<>>
  /\ slots' = [slots EXCEPT ![q] = Tail(@)]
  /\ taken' = taken \cup {Head(slots[q])}
  /\ UNCHANGED <<notify, mutex, locked, prod, delayed, at, work, cancelled>>

Cancel == /\ ~cancelled
          /\ cancelled' = TRUE
          /\ UNCHANGED <<slots, notify, mutex, locked, prod, delayed, at, work, taken>>

\* case <-ctx.Done(); select picks any case that is ready.
Stop(c) == /\ at[c] = "select" /\ cancelled
           /\ at' = [at EXCEPT ![c] = "stopped"]
           /\ UNCHANGED <<slots, notify, mutex, locked, prod, delayed, work, taken, cancelled>>

\* case <-q.notify
Wakeup(c) == /\ at[c] = "select" /\ notify[Serves[c]]
             /\ notify' = [notify EXCEPT ![Serves[c]] = FALSE]
             /\ at' = [at EXCEPT ![c] = "drain"]
             /\ UNCHANGED <<slots, mutex, locked, prod, delayed, work, taken, cancelled>>

\* How many items BatchDequeue takes.
Batch(q) == IF Len(slots[q]) > BatchSize THEN BatchSize ELSE Len(slots[q])

\* BatchDequeue gives items: a goroutine for each, and wg.Wait.
TakeBatch(c) == LET q == Serves[c]  n == Batch(q) IN
  /\ at[c] = "drain" /\ work[c] = {} /\ mutex[q] = Free /\ slots[q] # <<>>
  /\ work' = [work EXCEPT ![c] = {<<j, slots[q][j]>> : j \in 1..n}]
  /\ slots' = [slots EXCEPT ![q] = SubSeq(@, n + 1, Len(@))]
  /\ UNCHANGED <<notify, mutex, locked, prod, delayed, at, taken, cancelled>>

\* wg.Wait() has returned and BatchDequeue finds the queue empty: back to the select.
DrainEmpty(c) == LET q == Serves[c] IN
  /\ at[c] = "drain" /\ work[c] = {} /\ mutex[q] = Free /\ slots[q] = <<>>
  /\ at' = [at EXCEPT ![c] = "select"]
  /\ UNCHANGED <<slots, notify, mutex, locked, prod, delayed, work, taken, cancelled>>

SignedOutNot(i) == locked  \* mutant: a panic skips the deferred sign-out

SignedOut(i) == locked \ {i}

\* A handler returns or panics: the deferred calls sign the item out and
\* count the wait group down.
Handled(c, w) ==
  /\ w \in work[c]
  /\ work' = [work EXCEPT ![c] = @ \ {w}]
  /\ locked' = SignedOut(w[2])
  /\ UNCHANGED <<slots, notify, mutex, prod, delayed, at, taken, cancelled>>

Batches == UNION {[1..n -> Item] : n \in 1..MaxBatch}

Work(c) == Wakeup(c) \/ TakeBatch(c) \/ DrainEmpty(c)

Produce(p) == Append1(p) \/ BatchItem(p) \/ BatchDone(p)

Next == \/ \E p \in Producer :
             \/ \E q \in Queue : \/ \E i \in Item : Enqueue(p, q, i)
                                 \/ \E s \in Batches : BatchEnqueue(p, q, s)
             \/ Produce(p)
             \/ \E d \in delayed : Wake(p, d)
        \/ \E c \in Consumer : \/ Work(c)
                               \/ Stop(c)
                               \/ \E w \in work[c] : Handled(c, w) \/ EnqueueWithDelay(c, w)
        \/ \E q \in Queue : Dequeue(q)
        \/ Cancel

Spec == Init /\ [][Next]_vars

\* A goroutine that waits for a mutex gets it (Go hands a starved mutex
\* over), and handlers return.
Fairness == /\ \A p \in Producer : SF_vars(Produce(p))
            /\ \A c \in Consumer : SF_vars(Work(c))
            /\ \A c \in Consumer : WF_vars(\E w \in work[c] : Handled(c, w))

FairSpec == Spec /\ Fairness

----------------------------------------------------------------------------
\* notify carries one token for any number of items, and a consumer takes it
\* before it looks at the queue: still no item waits in a queue without a
\* token, a consumer in its loop, or a BatchEnqueue about to notify.
NoLostWakeup == \A q \in Queue : slots[q] # <<>> =>
  \/ notify[q]
  \/ mutex[q] # Free
  \/ \E c \in Consumer : Serves[c] = q /\ at[c] = "drain"

\* Where an item is: a producer between LoadOrStore and append, a place in a
\* queue, a handler, the caller of Dequeue.
Pending(p, i) == prod[p] # Idle /\ ~prod[p].batch /\ Head(prod[p].todo) = i
Slots(q, i) == {n \in 1..Len(slots[q]) : slots[q][n] = i}
Places(i) ==
  {<<"prod", p, 0>> : p \in {x \in Producer : Pending(x, i)}}
    \cup (UNION {{<<"slot", q, n>> : n \in Slots(q, i)} : q \in Queue})
    \cup (UNION {{<<"work", c, w[1]>> : w \in {x \in work[c] : x[2] = i}} : c \in Consumer})
    \cup {<<"taken", 0, 0>> : x \in taken \cap {i}}

\* signInLocks (line 14, "mutex lock for hash or block number") holds an item
\* exactly while one producer, queue, handler or caller of Dequeue in the
\* whole process has it: no item is handled twice at
\* a time or queued twice, and none stays signed in after it is gone,
\* although the map and the queues are locked separately.  (Not so for an
\* item that EnqueueWithDelay puts off.)
SignedInOnce == \A i \in Item \ Retried :
  \/ i \notin locked /\ Places(i) = {}
  \/ i \in locked /\ \E x \in Places(i) : Places(i) = {x}

\* An item that is signed in gets handled and can be enqueued again, unless
\* the consumers are cancelled or a caller of Dequeue has it.
AllHandled == \A i \in Item : i \in locked ~> (i \notin locked \/ i \in taken \/ cancelled)
=============================================================================
