----------------------- MODULE TaskQueueDeliveryProofs -----------------------
(***************************************************************************)
(* Theorems about what TaskQueue delivers, counts and limits: the locks,   *)
(* the attempts charged to a task, the acknowledgements counted, the       *)
(* copies of a task, the records in flight, the backlog and the drain.     *)
(* They rest on TaskQueueProofs: types, finiteness, and that keys are      *)
(* never shared.  With them, that TaskQueue implements AtLeastOnceQueue:   *)
(* every step of the task store is a step of the contract or changes       *)
(* nothing the contract speaks of.                                         *)
(***************************************************************************)
EXTENDS TaskQueueRefinement, TaskQueueProofs

(***************************************************************************)
(* What a process carries, and the locks it carries it under               *)
(***************************************************************************)
QueueOps ==
  {"enq_pending", "enq_inflight", "enq_evict", "enq_evictwrite", "enq_build", "enq_write",
   "deq_count", "deq_scan", "deq_write"}

AckOps == {"ack_lock", "ack_read", "ack_write"}

\* Where a process carries a batch to its commit.
Writes ==
  Settling \cup {"enq_write", "deq_write", "nack_write", "replay_write", "reap_write"}

\* A batch exists from the scan to the commit.  One that settles puts nothing
\* and deletes what was found.
Carrying ==
  \A p \in Procs :
    /\ pc[p] \notin Writes => batch[p].del = {} /\ batch[p].put = {}
    /\ pc[p] \in Settling => batch[p].del = Places(reg[p].found) /\ batch[p].put = {}
    /\ pc[p] \notin Settling => reg[p].found = {}

\* The reaper only reaps, and who works on a queue holds its lock.
Holding ==
  /\ pc[Reaper] \in {"idle", "reap_write"}
  /\ \A t \in Threads :
       /\ pc[t] # "reap_write"
       /\ pc[t] \in QueueOps => queueLock[reg[t].q] = t /\ reg[t].n \in 1 .. MaxBatch

Discipline == Carrying /\ Holding

(***************************************************************************)
(* Steps                                                                   *)
(***************************************************************************)
Waiting(q) == Cardinality(Of(In("pending"), q))
Leases(q) == Cardinality(Of(In("inflight"), q))

\* How many tasks enforce_quota wants evicted.
Excess(t) == (Current(t) + reg[t].n) - reg[t].pol.quota

\* Nothing is committed.
Stored ==
  /\ db' = db /\ accepted' = accepted /\ settled' = settled
  /\ deliveries' = deliveries /\ tally' = tally /\ returned' = returned

Kept(p) == pc'[p] = pc[p] /\ reg'[p] = reg[p] /\ batch'[p] = batch[p]

\* No process but p moves, takes a lock or loses one.
Alone(p) ==
  /\ \A o \in Procs \ {p} : Kept(o)
  /\ \A o \in Threads \ {p} : \A q \in Queues :
       (queueLock'[q] = o <=> queueLock[q] = o) /\ (ackLock'[q] = o <=> ackLock[q] = o)

\* enqueue_batch_sync up to the commit.
LEMMA EnqueueBeginFacts ==
  ASSUME TypeOK, NEW t \in Threads, NEW q \in Queues, NEW n \in 1 .. MaxBatch, NEW pol \in Policies,
         EnqueueBegin(t, q, n, pol)
  PROVE  /\ Stored /\ nextId' = nextId /\ Alone(t) /\ batch'[t] = batch[t]
         /\ pc[t] = "idle" /\ pc'[t] \in {"enq_build", "enq_pending"}
         /\ reg'[t].q = q /\ reg'[t].n = n /\ reg'[t].pol = pol
         /\ reg'[t].seen = reg[t].seen /\ reg'[t].want = reg[t].want /\ reg'[t].keys = reg[t].keys
         /\ reg'[t].found = reg[t].found /\ reg'[t].goal = reg[t].goal /\ reg'[t].back = reg[t].back
         /\ queueLock[q] = Free /\ queueLock' = [queueLock EXCEPT ![q] = t] /\ ackLock' = ackLock
         /\ pol.backlog # "None" => pc'[t] = "enq_pending"
<1>0. t \in Procs /\ reg[t] \in Registers
  BY DEF Procs, TypeOK
<1>1. /\ Stored /\ nextId' = nextId /\ batch' = batch
      /\ reg' = [reg EXCEPT ![t] = [reg[t] EXCEPT !.q = q, !.n = n, !.pol = pol]]
      /\ pc[t] = "idle" /\ pc' = [pc EXCEPT ![t] = IF pol.backlog = "None" THEN "enq_build" ELSE "enq_pending"]
      /\ queueLock[q] = Free /\ queueLock' = [queueLock EXCEPT ![q] = t] /\ ackLock' = ackLock
  BY DEF EnqueueBegin, Locals, Goto, boundVars, historyVars, lockVars, Stored
<1> QED
  BY <1>0, <1>1, ProcessAssumption DEF Alone, Kept, TypeOK, Registers


LEMMA EnqueueCountFacts ==
  ASSUME TypeOK, NEW t \in Threads, EnqueueCountPending(t)
  PROVE  /\ Stored /\ nextId' = nextId /\ Alone(t) /\ batch'[t] = batch[t]
         /\ pc[t] = "enq_pending" /\ pc'[t] = "enq_inflight"
         /\ reg'[t].seen = Waiting(reg[t].q)
         /\ reg'[t].q = reg[t].q /\ reg'[t].n = reg[t].n /\ reg'[t].pol = reg[t].pol
         /\ reg'[t].want = reg[t].want /\ reg'[t].keys = reg[t].keys /\ reg'[t].found = reg[t].found
         /\ reg'[t].goal = reg[t].goal /\ reg'[t].back = reg[t].back
         /\ queueLock' = queueLock /\ ackLock' = ackLock
<1>0. t \in Procs /\ reg[t] \in Registers
  BY DEF Procs, TypeOK
<1> DEFINE w == Waiting(reg[t].q)
<1>1. /\ Stored /\ nextId' = nextId /\ batch' = batch
      /\ reg' = [reg EXCEPT ![t] = [reg[t] EXCEPT !.seen = w]]
      /\ pc[t] = "enq_pending" /\ pc' = [pc EXCEPT ![t] = "enq_inflight"]
      /\ queueLock' = queueLock /\ ackLock' = ackLock
  BY
     DEF EnqueueCountPending, Locals, Goto, boundVars, historyVars, lockVars, Waiting,
         Stored
<1>2. w = Waiting(reg[t].q)
  OBVIOUS
<1> HIDE DEF w
<1> QED
  BY <1>0, <1>1, <1>2, ProcessAssumption DEF Alone, Kept, TypeOK, Registers


LEMMA QuotaFitsFacts ==
  ASSUME TypeOK, NEW t \in Threads, QuotaFits(t)
  PROVE  /\ Stored /\ nextId' = nextId /\ Alone(t) /\ batch'[t] = batch[t]
         /\ pc[t] = "enq_inflight" /\ pc'[t] = "enq_build"
         /\ reg'[t].q = reg[t].q /\ reg'[t].n = reg[t].n /\ reg'[t].pol = reg[t].pol
         /\ reg'[t].seen = reg[t].seen /\ reg'[t].want = reg[t].want /\ reg'[t].keys = reg[t].keys
         /\ reg'[t].found = reg[t].found /\ reg'[t].goal = reg[t].goal /\ reg'[t].back = reg[t].back
         /\ queueLock' = queueLock /\ ackLock' = ackLock
         /\ Fits(t)
<1>0. t \in Procs /\ reg[t] \in Registers
  BY DEF Procs, TypeOK
<1>1. /\ Stored /\ nextId' = nextId /\ batch' = batch
      /\ reg' = reg
      /\ pc[t] = "enq_inflight" /\ pc' = [pc EXCEPT ![t] = "enq_build"]
      /\ queueLock' = queueLock /\ ackLock' = ackLock
      /\ Fits(t)
  BY DEF QuotaFits, Locals, Goto, boundVars, historyVars, lockVars, Stored
<1> QED
  BY <1>0, <1>1, ProcessAssumption DEF Alone, Kept, TypeOK, Registers


LEMMA QuotaWaitFacts ==
  ASSUME TypeOK, NEW t \in Threads, QuotaWait(t)
  PROVE  /\ Stored /\ nextId' = nextId /\ Alone(t) /\ batch'[t] = batch[t]
         /\ pc[t] = "enq_inflight" /\ pc'[t] = "enq_pending"
         /\ reg'[t].q = reg[t].q /\ reg'[t].n = reg[t].n /\ reg'[t].pol = reg[t].pol
         /\ reg'[t].seen = reg[t].seen /\ reg'[t].want = reg[t].want /\ reg'[t].keys = reg[t].keys
         /\ reg'[t].found = reg[t].found /\ reg'[t].goal = reg[t].goal /\ reg'[t].back = reg[t].back
         /\ queueLock' = queueLock /\ ackLock' = ackLock
<1>0. t \in Procs /\ reg[t] \in Registers
  BY DEF Procs, TypeOK
<1>1. /\ Stored /\ nextId' = nextId /\ batch' = batch
      /\ reg' = reg
      /\ pc[t] = "enq_inflight" /\ pc' = [pc EXCEPT ![t] = "enq_pending"]
      /\ queueLock' = queueLock /\ ackLock' = ackLock
  BY DEF QuotaWait, Locals, Goto, boundVars, historyVars, lockVars, Stored
<1> QED
  BY <1>0, <1>1, ProcessAssumption DEF Alone, Kept, TypeOK, Registers


LEMMA QuotaEvictFacts ==
  ASSUME TypeOK, NEW t \in Threads, QuotaEvict(t)
  PROVE  /\ Stored /\ nextId' = nextId /\ Alone(t) /\ batch'[t] = batch[t]
         /\ pc[t] = "enq_inflight" /\ pc'[t] = "enq_evict"
         /\ reg'[t].seen = Excess(t)
         /\ reg'[t].q = reg[t].q /\ reg'[t].n = reg[t].n /\ reg'[t].pol = reg[t].pol
         /\ reg'[t].want = reg[t].want /\ reg'[t].keys = reg[t].keys /\ reg'[t].found = reg[t].found
         /\ reg'[t].goal = reg[t].goal /\ reg'[t].back = reg[t].back
         /\ queueLock' = queueLock /\ ackLock' = ackLock
         /\ ~Fits(t) /\ reg[t].pol.backlog = "EvictOldest"
<1>0. t \in Procs /\ reg[t] \in Registers
  BY DEF Procs, TypeOK
<1> DEFINE w == Excess(t)
<1>1. /\ Stored /\ nextId' = nextId /\ batch' = batch
      /\ reg' = [reg EXCEPT ![t] = [reg[t] EXCEPT !.seen = w]]
      /\ pc[t] = "enq_inflight" /\ pc' = [pc EXCEPT ![t] = "enq_evict"]
      /\ queueLock' = queueLock /\ ackLock' = ackLock
      /\ ~Fits(t) /\ reg[t].pol.backlog = "EvictOldest"
  BY DEF QuotaEvict, Locals, Goto, boundVars, historyVars, lockVars, Excess, Stored
<1>2. w = Excess(t)
  OBVIOUS
<1> HIDE DEF w
<1> QED
  BY <1>0, <1>1, <1>2, ProcessAssumption DEF Alone, Kept, TypeOK, Registers


\* dequeue up to the scan.
LEMMA DequeueBeginFacts ==
  ASSUME TypeOK, NEW t \in Threads, NEW q \in Queues, NEW n \in 1 .. MaxBatch, NEW pol \in Policies,
         DequeueBegin(t, q, n, pol)
  PROVE  /\ Stored /\ nextId' = nextId /\ Alone(t) /\ batch'[t] = batch[t]
         /\ pc[t] = "idle" /\ pc'[t] = "deq_count"
         /\ reg'[t].q = q /\ reg'[t].n = n /\ reg'[t].pol = pol
         /\ reg'[t].seen = reg[t].seen /\ reg'[t].want = reg[t].want /\ reg'[t].keys = reg[t].keys
         /\ reg'[t].found = reg[t].found /\ reg'[t].goal = reg[t].goal /\ reg'[t].back = reg[t].back
         /\ queueLock[q] = Free /\ queueLock' = [queueLock EXCEPT ![q] = t] /\ ackLock' = ackLock
<1>0. t \in Procs /\ reg[t] \in Registers
  BY DEF Procs, TypeOK
<1>1. /\ Stored /\ nextId' = nextId /\ batch' = batch
      /\ reg' = [reg EXCEPT ![t] = [reg[t] EXCEPT !.q = q, !.n = n, !.pol = pol]]
      /\ pc[t] = "idle" /\ pc' = [pc EXCEPT ![t] = "deq_count"]
      /\ queueLock[q] = Free /\ queueLock' = [queueLock EXCEPT ![q] = t] /\ ackLock' = ackLock
  BY DEF DequeueBegin, Locals, Goto, boundVars, historyVars, lockVars, Stored
<1> QED
  BY <1>0, <1>1, ProcessAssumption DEF Alone, Kept, TypeOK, Registers


LEMMA DequeueUncappedFacts ==
  ASSUME TypeOK, NEW t \in Threads, NEW q \in Queues, NEW n \in 1 .. MaxBatch,
         DequeueUncappedBegin(t, q, n)
  PROVE  /\ Stored /\ nextId' = nextId /\ Alone(t) /\ batch'[t] = batch[t]
         /\ pc[t] = "idle" /\ pc'[t] = "deq_scan"
         /\ reg'[t].q = q /\ reg'[t].n = n
         /\ reg'[t].pol = reg[t].pol /\ reg'[t].seen = reg[t].seen /\ reg'[t].want = reg[t].want
         /\ reg'[t].keys = reg[t].keys /\ reg'[t].found = reg[t].found /\ reg'[t].goal = reg[t].goal
         /\ reg'[t].back = reg[t].back
         /\ queueLock[q] = Free /\ queueLock' = [queueLock EXCEPT ![q] = t] /\ ackLock' = ackLock
         /\ "dequeue_uncapped" \in Requests
<1>0. t \in Procs /\ reg[t] \in Registers
  BY DEF Procs, TypeOK
<1>1. /\ Stored /\ nextId' = nextId /\ batch' = batch
      /\ reg' = [reg EXCEPT ![t] = [reg[t] EXCEPT !.q = q, !.n = n]]
      /\ pc[t] = "idle" /\ pc' = [pc EXCEPT ![t] = "deq_scan"]
      /\ queueLock[q] = Free /\ queueLock' = [queueLock EXCEPT ![q] = t] /\ ackLock' = ackLock
      /\ "dequeue_uncapped" \in Requests
  BY DEF DequeueUncappedBegin, Locals, Goto, boundVars, historyVars, lockVars, Stored
<1> QED
  BY <1>0, <1>1, ProcessAssumption DEF Alone, Kept, TypeOK, Registers


LEMMA DequeueCountFacts ==
  ASSUME TypeOK, NEW t \in Threads, DequeueCount(t)
  PROVE  /\ Stored /\ nextId' = nextId /\ Alone(t) /\ batch'[t] = batch[t]
         /\ pc[t] = "deq_count" /\ pc'[t] = "deq_scan"
         /\ reg'[t].n = Limit(t)
         /\ reg'[t].q = reg[t].q /\ reg'[t].pol = reg[t].pol /\ reg'[t].seen = reg[t].seen
         /\ reg'[t].want = reg[t].want /\ reg'[t].keys = reg[t].keys /\ reg'[t].found = reg[t].found
         /\ reg'[t].goal = reg[t].goal /\ reg'[t].back = reg[t].back
         /\ queueLock' = queueLock /\ ackLock' = ackLock
         /\ ~AtCap(t)
<1>0. t \in Procs /\ reg[t] \in Registers
  BY DEF Procs, TypeOK
<1> DEFINE w == Limit(t)
<1>1. /\ Stored /\ nextId' = nextId /\ batch' = batch
      /\ reg' = [reg EXCEPT ![t] = [reg[t] EXCEPT !.n = w]]
      /\ pc[t] = "deq_count" /\ pc' = [pc EXCEPT ![t] = "deq_scan"]
      /\ queueLock' = queueLock /\ ackLock' = ackLock
      /\ ~AtCap(t)
  BY DEF DequeueCount, Locals, Goto, boundVars, historyVars, lockVars, Stored
<1>2. w = Limit(t)
  OBVIOUS
<1> HIDE DEF w
<1> QED
  BY <1>0, <1>1, <1>2, ProcessAssumption DEF Alone, Kept, TypeOK, Registers


\* ack_batch up to the first read.
LEMMA AckBeginFacts ==
  ASSUME TypeOK, NEW t \in Threads, NEW K \in SUBSET handed, AckBegin(t, K)
  PROVE  /\ Stored /\ nextId' = nextId /\ Alone(t) /\ batch'[t] = batch[t]
         /\ pc[t] = "idle" /\ pc'[t] = "ack_lock"
         /\ reg'[t].keys = K /\ reg'[t].want = QueuesOf(K)
         /\ reg'[t].q = reg[t].q /\ reg'[t].n = reg[t].n /\ reg'[t].pol = reg[t].pol
         /\ reg'[t].seen = reg[t].seen /\ reg'[t].found = reg[t].found /\ reg'[t].goal = reg[t].goal
         /\ reg'[t].back = reg[t].back
         /\ queueLock' = queueLock /\ ackLock' = ackLock
         /\ K # {}
<1>0. t \in Procs /\ reg[t] \in Registers
  BY DEF Procs, TypeOK
<1> DEFINE w == QueuesOf(K)
<1>1. /\ Stored /\ nextId' = nextId /\ batch' = batch
      /\ reg' = [reg EXCEPT ![t] = [reg[t] EXCEPT !.keys = K, !.want = w]]
      /\ pc[t] = "idle" /\ pc' = [pc EXCEPT ![t] = "ack_lock"]
      /\ queueLock' = queueLock /\ ackLock' = ackLock
      /\ K # {}
  BY DEF AckBegin, Locals, Goto, boundVars, historyVars, lockVars, Stored
<1>2. w = QueuesOf(K)
  OBVIOUS
<1> HIDE DEF w
<1> QED
  BY <1>0, <1>1, <1>2, ProcessAssumption DEF Alone, Kept, TypeOK, Registers


\* drain_tenant.
LEMMA DrainBeginFacts ==
  ASSUME TypeOK, NEW t \in Threads, DrainBegin(t)
  PROVE  /\ Stored /\ nextId' = nextId /\ Alone(t) /\ batch'[t] = batch[t]
         /\ pc[t] = "idle" /\ pc'[t] = "drain_pending"
         /\ reg'[t].q = DrainedQueue /\ reg'[t].goal = IdsOf(Backlog(DrainedQueue))
         /\ reg'[t].n = reg[t].n /\ reg'[t].pol = reg[t].pol /\ reg'[t].seen = reg[t].seen
         /\ reg'[t].want = reg[t].want /\ reg'[t].keys = reg[t].keys /\ reg'[t].found = reg[t].found
         /\ reg'[t].back = reg[t].back
         /\ queueLock' = queueLock /\ ackLock' = ackLock
<1>0. t \in Procs /\ reg[t] \in Registers
  BY DEF Procs, TypeOK
<1> DEFINE w == IdsOf(Backlog(DrainedQueue))
<1>1. /\ Stored /\ nextId' = nextId /\ batch' = batch
      /\ reg' = [reg EXCEPT ![t] = [reg[t] EXCEPT !.q = DrainedQueue, !.goal = w]]
      /\ pc[t] = "idle" /\ pc' = [pc EXCEPT ![t] = "drain_pending"]
      /\ queueLock' = queueLock /\ ackLock' = ackLock
  BY DEF DrainBegin, Locals, Goto, boundVars, historyVars, lockVars, Stored
<1>2. w = IdsOf(Backlog(DrainedQueue))
  OBVIOUS
<1> HIDE DEF w
<1> QED
  BY <1>0, <1>1, <1>2, ProcessAssumption DEF Alone, Kept, TypeOK, Registers


LEMMA DrainCountFacts ==
  ASSUME TypeOK, NEW t \in Threads, DrainCountPending(t)
  PROVE  /\ Stored /\ nextId' = nextId /\ Alone(t) /\ batch'[t] = batch[t]
         /\ pc[t] = "drain_pending" /\ pc'[t] = "drain_inflight"
         /\ reg'[t].seen = Waiting(reg[t].q) /\ reg'[t].back = returned[reg[t].q]
         /\ reg'[t].q = reg[t].q /\ reg'[t].n = reg[t].n /\ reg'[t].pol = reg[t].pol
         /\ reg'[t].want = reg[t].want /\ reg'[t].keys = reg[t].keys /\ reg'[t].found = reg[t].found
         /\ reg'[t].goal = reg[t].goal
         /\ queueLock' = queueLock /\ ackLock' = ackLock
<1>0. t \in Procs /\ reg[t] \in Registers
  BY DEF Procs, TypeOK
<1> DEFINE w == Waiting(reg[t].q)
<1>1. /\ Stored /\ nextId' = nextId /\ batch' = batch
      /\ reg' = [reg EXCEPT ![t] = [reg[t] EXCEPT !.seen = w, !.back = returned[reg[t].q]]]
      /\ pc[t] = "drain_pending" /\ pc' = [pc EXCEPT ![t] = "drain_inflight"]
      /\ queueLock' = queueLock /\ ackLock' = ackLock
  BY DEF DrainCountPending, Locals, Goto, boundVars, historyVars, lockVars, Waiting, Stored
<1>2. w = Waiting(reg[t].q)
  OBVIOUS
<1> HIDE DEF w
<1> QED
  BY <1>0, <1>1, <1>2, ProcessAssumption DEF Alone, Kept, TypeOK, Registers


LEMMA DrainPollFacts ==
  ASSUME TypeOK, NEW t \in Threads, DrainPoll(t)
  PROVE  /\ Stored /\ nextId' = nextId /\ Alone(t) /\ batch'[t] = batch[t]
         /\ pc[t] = "drain_inflight" /\ pc'[t] = "drain_pending"
         /\ reg'[t].q = reg[t].q /\ reg'[t].n = reg[t].n /\ reg'[t].pol = reg[t].pol
         /\ reg'[t].seen = reg[t].seen /\ reg'[t].want = reg[t].want /\ reg'[t].keys = reg[t].keys
         /\ reg'[t].found = reg[t].found /\ reg'[t].goal = reg[t].goal /\ reg'[t].back = reg[t].back
         /\ queueLock' = queueLock /\ ackLock' = ackLock
<1>0. t \in Procs /\ reg[t] \in Registers
  BY DEF Procs, TypeOK
<1>1. /\ Stored /\ nextId' = nextId /\ batch' = batch
      /\ reg' = reg
      /\ pc[t] = "drain_inflight" /\ pc' = [pc EXCEPT ![t] = "drain_pending"]
      /\ queueLock' = queueLock /\ ackLock' = ackLock
  BY DEF DrainPoll, Locals, Goto, boundVars, historyVars, lockVars, Stored
<1> QED
  BY <1>0, <1>1, ProcessAssumption DEF Alone, Kept, TypeOK, Registers


\* One more acknowledgement lock taken.
LEMMA AckLockFacts ==
  ASSUME TypeOK, NEW t \in Threads, AckLock(t)
  PROVE  /\ Stored /\ nextId' = nextId /\ Alone(t)
         /\ batch'[t].del = {} /\ batch'[t].put = {}
         /\ pc[t] = "ack_lock" /\ pc'[t] \in {"ack_lock", "ack_read"}
         /\ reg'[t].keys = reg[t].keys /\ reg'[t].found = reg[t].found
         /\ reg'[t].goal = reg[t].goal /\ queueLock' = queueLock
         /\ \E q \in Queues :
              /\ NextLock(t, q) /\ ackLock[q] = Free /\ ackLock' = [ackLock EXCEPT ![q] = t]
              /\ reg'[t].want = reg[t].want \ {q}
              /\ pc'[t] = "ack_read" => reg[t].want = {q}
<1>0. t \in Procs /\ reg[t] \in Registers
  BY DEF Procs, TypeOK
<1>1. PICK q \in Queues :
        /\ NextLock(t, q) /\ ackLock[q] = Free /\ ackLock' = [ackLock EXCEPT ![q] = t]
        /\ reg' = [reg EXCEPT ![t] = [reg[t] EXCEPT !.want = reg[t].want \ {q}]]
        /\ pc' = [pc EXCEPT ![t] = IF reg[t].want = {q} THEN "ack_read" ELSE "ack_lock"]
  BY DEF AckLock, AckLockFree, Locals, Goto
<1>2. /\ Stored /\ nextId' = nextId /\ pc[t] = "ack_lock" /\ queueLock' = queueLock
      /\ batch' = [batch EXCEPT ![t] = [del |-> {}, put |-> {}]]
  BY DEF AckLock, Build, Places, boundVars, historyVars, Stored
<1>3. /\ pc'[t] = IF reg[t].want = {q} THEN "ack_read" ELSE "ack_lock"
      /\ reg'[t].keys = reg[t].keys /\ reg'[t].found = reg[t].found
      /\ reg'[t].goal = reg[t].goal /\ reg'[t].want = reg[t].want \ {q}
      /\ batch'[t].del = {} /\ batch'[t].put = {}
  BY <1>0, <1>1, <1>2 DEF TypeOK, Registers
<1>4. Alone(t)
  BY <1>0, <1>1, <1>2, ProcessAssumption DEF Alone, Kept, TypeOK
<1> QED
  BY <1>1, <1>2, <1>3, <1>4

\* An operation that returns.
LEMMA ReturnFacts ==
  ASSUME TypeOK, NEW p \in Procs, Return(p)
  PROVE  /\ Alone(p) /\ pc'[p] = "idle" /\ reg'[p] = NoRegisters /\ batch'[p] = NoBatch
         /\ \A q \in Queues : ackLock'[q] # p \/ p \notin Threads
<1>1. /\ pc' = [pc EXCEPT ![p] = "idle"] /\ reg' = [reg EXCEPT ![p] = NoRegisters]
      /\ batch' = [batch EXCEPT ![p] = NoBatch]
      /\ queueLock' = Released(queueLock, p) /\ ackLock' = Released(ackLock, p)
  BY DEF Return, Goto, Locals
<1>2. /\ \A o \in Procs \ {p} : Kept(o)
      /\ pc'[p] = "idle" /\ reg'[p] = NoRegisters /\ batch'[p] = NoBatch
  BY <1>1 DEF Kept, TypeOK
<1>3. \A o \in Threads \ {p} : \A q \in Queues :
        (queueLock'[q] = o <=> queueLock[q] = o) /\ (ackLock'[q] = o <=> ackLock[q] = o)
  BY <1>1, ProcessAssumption DEF Released, TypeOK
<1>4. \A q \in Queues : ackLock'[q] # p \/ p \notin Threads
  BY <1>1, ProcessAssumption DEF Released, TypeOK
<1> QED
  BY <1>2, <1>3, <1>4 DEF Alone

\* The operations that return without a commit.
Gives(p) ==
  /\ Return(p) /\ Stored /\ nextId' = nextId /\ pc[p] # "idle"

LEMMA GivesUp ==
  ASSUME NEW t \in Threads,
         QuotaExceeded(t) \/ DequeueAtCap(t) \/ DequeueEmpty(t) \/ DrainDone(t) \/ DrainTimeout(t)
  PROVE  Gives(t)
  BY DEF QuotaExceeded, DequeueAtCap, DequeueEmpty, DrainDone, DrainTimeout, Gives, Stored,
         boundVars, historyVars

(***************************************************************************)
(* Scans                                                                   *)
(***************************************************************************)
\* What p finds in S it will delete, and put R in its place.
Plans(p, S, R, to) ==
  /\ Stored /\ Alone(p)
  /\ queueLock' = queueLock /\ ackLock' = ackLock
  /\ S \subseteq db
  /\ batch'[p].del = Places(S) /\ batch'[p].put = R
  /\ pc'[p] = to
  /\ reg'[p].goal = reg[p].goal
  /\ reg'[p].q = reg[p].q /\ reg'[p].n = reg[p].n /\ reg'[p].pol = reg[p].pol

LEMMA BuildFacts ==
  ASSUME TypeOK, NEW p \in Procs, NEW S, NEW R, Build(p, S, R)
  PROVE  /\ batch'[p].del = Places(S) /\ batch'[p].put = R
         /\ \A o \in Procs \ {p} : batch'[o] = batch[o]
  BY DEF Build, TypeOK

\* evict_oldest_pending reads the records it will delete.
LEMMA EvictScanFacts ==
  ASSUME TypeOK, NEW t \in Threads, EvictScan(t)
  PROVE  LET S == Oldest(Of(In("pending"), reg[t].q), reg[t].seen)
         IN  /\ Plans(t, S, {}, "enq_evictwrite") /\ nextId' = nextId
             /\ pc[t] = "enq_evict" /\ reg'[t].found = S
<1> DEFINE S == Oldest(Of(In("pending"), reg[t].q), reg[t].seen)
<1>0. t \in Procs /\ reg[t] \in Registers
  BY DEF Procs, TypeOK
<1>s. S \subseteq db
  BY DEF Oldest, Of, In
<1>1. /\ Stored /\ nextId' = nextId /\ Build(t, S, {})
      /\ reg' = [reg EXCEPT ![t] = [reg[t] EXCEPT !.found = S]]
      /\ pc[t] = "enq_evict" /\ pc' = [pc EXCEPT ![t] = "enq_evictwrite"]
      /\ queueLock' = queueLock /\ ackLock' = ackLock
  BY DEF EvictScan, Locals, Goto, boundVars, historyVars, lockVars, Stored
<1> HIDE DEF S
<1>2. /\ batch'[t].del = Places(S) /\ batch'[t].put = {}
      /\ \A o \in Procs \ {t} : batch'[o] = batch[o]
  BY <1>0, <1>1, BuildFacts
<1>3. Alone(t) /\ pc'[t] = "enq_evictwrite" /\ reg'[t].found = S /\ reg'[t].goal = reg[t].goal
      /\ reg'[t].q = reg[t].q /\ reg'[t].n = reg[t].n /\ reg'[t].pol = reg[t].pol
  BY <1>0, <1>1, <1>2 DEF Alone, Kept, TypeOK, Registers
<1>4. Plans(t, S, {}, "enq_evictwrite")
  BY <1>s, <1>1, <1>2, <1>3 DEF Plans
<1> QED
  BY <1>1, <1>3, <1>4 DEF S

\* The tasks an enqueue builds.
Fresh(t) ==
  {[cf |-> "pending", q |-> reg[t].q, seq |-> seq + i, id |-> nextId + i,
    attempts |-> 0, deadline |-> "none", kind |-> "task"] : i \in 0 .. reg[t].n - 1}

LEMMA EnqueueBuildFacts ==
  ASSUME TypeOK, NEW t \in Threads, EnqueueBuild(t)
  PROVE  /\ Plans(t, {}, Fresh(t), "enq_write") /\ nextId' = nextId + reg[t].n
         /\ pc[t] = "enq_build" /\ reg'[t].found = reg[t].found
<1> DEFINE R == Fresh(t)
<1>0. t \in Procs /\ reg[t] \in Registers
  BY DEF Procs, TypeOK
<1>1. /\ Stored /\ nextId' = nextId + reg[t].n /\ Build(t, {}, R)
      /\ reg' = reg
      /\ pc[t] = "enq_build" /\ pc' = [pc EXCEPT ![t] = "enq_write"]
      /\ queueLock' = queueLock /\ ackLock' = ackLock
  BY DEF EnqueueBuild, Goto, historyVars, lockVars, Stored, Fresh
<1> HIDE DEF R
<1>2. /\ batch'[t].del = Places({}) /\ batch'[t].put = R
      /\ \A o \in Procs \ {t} : batch'[o] = batch[o]
  BY <1>0, <1>1, BuildFacts
<1>3. Alone(t) /\ pc'[t] = "enq_write" /\ reg'[t].found = reg[t].found /\ reg'[t].goal = reg[t].goal
      /\ reg'[t].q = reg[t].q /\ reg'[t].n = reg[t].n /\ reg'[t].pol = reg[t].pol
  BY <1>0, <1>1, <1>2 DEF Alone, Kept, TypeOK
<1>4. Plans(t, {}, R, "enq_write")
  BY <1>1, <1>2, <1>3 DEF Plans
<1> QED
  BY <1>1, <1>3, <1>4 DEF R

\* What dequeue makes of the records it scanned.
Handover(t) ==
  {Delivered(r) : r \in Valid(Scanned(t))} \cup {Poison(r) : r \in Scanned(t) \ Valid(Scanned(t))}

\* dequeue_batch_unlocked.
LEMMA DequeueScanFacts ==
  ASSUME TypeOK, NEW t \in Threads, DequeueScan(t)
  PROVE  /\ Plans(t, Scanned(t), Handover(t), "deq_write") /\ nextId' = nextId
         /\ pc[t] = "deq_scan" /\ reg'[t].found = reg[t].found
<1> DEFINE S == Scanned(t)
           R == Handover(t)
<1>0. t \in Procs /\ reg[t] \in Registers
  BY DEF Procs, TypeOK
<1>s. S \subseteq db
  BY DEF Scanned, Of, In
<1>1. /\ Stored /\ nextId' = nextId /\ Build(t, S, R)
      /\ reg' = reg
      /\ pc[t] = "deq_scan" /\ pc' = [pc EXCEPT ![t] = "deq_write"]
      /\ queueLock' = queueLock /\ ackLock' = ackLock
  BY DEF DequeueScan, Goto, boundVars, historyVars, lockVars, Stored, Handover
<1> HIDE DEF S, R
<1>2. /\ batch'[t].del = Places(S) /\ batch'[t].put = R
      /\ \A o \in Procs \ {t} : batch'[o] = batch[o]
  BY <1>0, <1>1, BuildFacts
<1>3. Alone(t) /\ pc'[t] = "deq_write" /\ reg'[t].found = reg[t].found /\ reg'[t].goal = reg[t].goal
      /\ reg'[t].q = reg[t].q /\ reg'[t].n = reg[t].n /\ reg'[t].pol = reg[t].pol
  BY <1>0, <1>1, <1>2 DEF Alone, Kept, TypeOK
<1>4. Plans(t, S, R, "deq_write")
  BY <1>s, <1>1, <1>2, <1>3 DEF Plans
<1> QED
  BY <1>1, <1>3, <1>4 DEF S, R

\* One get of ack_batch.
LEMMA AckReadFacts ==
  ASSUME TypeOK, NEW t \in Threads, AckRead(t)
  PROVE  /\ Stored /\ Alone(t) /\ nextId' = nextId
         /\ queueLock' = queueLock /\ ackLock' = ackLock
         /\ pc[t] = "ack_read" /\ pc'[t] \in {"ack_read", "ack_write"}
         /\ reg'[t].goal = reg[t].goal /\ reg'[t].want = reg[t].want
         /\ batch'[t].del = Places(reg'[t].found) /\ batch'[t].put = {}
         /\ \E k \in reg[t].keys : /\ reg'[t].keys = reg[t].keys \ {k}
                                   /\ reg'[t].found = reg[t].found \cup Hit(k)
<1>0. t \in Procs /\ reg[t] \in Registers
  BY DEF Procs, TypeOK
<1>1. PICK k \in reg[t].keys :
        /\ reg' = [reg EXCEPT ![t] = [reg[t] EXCEPT !.keys = reg[t].keys \ {k},
                                                    !.found = reg[t].found \cup Hit(k)]]
        /\ Build(t, reg[t].found \cup Hit(k), {})
        /\ pc' = [pc EXCEPT ![t] = IF reg[t].keys = {k} THEN "ack_write" ELSE "ack_read"]
  BY DEF AckRead, Locals, Goto
<1> DEFINE S == reg[t].found \cup Hit(k)
<1>2. /\ Stored /\ nextId' = nextId /\ pc[t] = "ack_read"
      /\ queueLock' = queueLock /\ ackLock' = ackLock
  BY DEF AckRead, boundVars, historyVars, lockVars, Stored
<1> HIDE DEF S
<1>3. /\ batch'[t].del = Places(S) /\ batch'[t].put = {}
      /\ \A o \in Procs \ {t} : batch'[o] = batch[o]
  BY <1>0, <1>1, BuildFacts DEF S
<1>4. /\ pc'[t] \in {"ack_read", "ack_write"} /\ reg'[t].found = S /\ reg'[t].goal = reg[t].goal
      /\ reg'[t].want = reg[t].want /\ reg'[t].keys = reg[t].keys \ {k}
  BY <1>0, <1>1 DEF TypeOK, Registers, S
<1>5. Alone(t)
  BY <1>0, <1>1, <1>2, <1>3 DEF Alone, Kept, TypeOK
<1> QED
  BY <1>2, <1>3, <1>4, <1>5 DEF S

\* The scans of cumulative_ack and purge_dlq, which settle what they find.
LEMMA CumulativeAckScanFacts ==
  ASSUME TypeOK, NEW t \in Threads, NEW q \in Queues, NEW u, CumulativeAckScan(t, q, u)
  PROVE  LET S == {r \in Of(In("inflight"), q) : r.seq <= u}
         IN  /\ Plans(t, S, {}, "cum_write") /\ nextId' = nextId
             /\ pc[t] = "idle" /\ reg'[t].found = S
             /\ "cumulative_ack" \in Requests
<1> DEFINE S == {r \in Of(In("inflight"), q) : r.seq <= u}
<1>0. t \in Procs /\ reg[t] \in Registers
  BY DEF Procs, TypeOK
<1>s. S \subseteq db
  BY DEF Of, In
<1>1. /\ Stored /\ nextId' = nextId /\ Build(t, S, {})
      /\ reg' = [reg EXCEPT ![t] = [reg[t] EXCEPT !.found = S]]
      /\ pc[t] = "idle" /\ pc' = [pc EXCEPT ![t] = "cum_write"]
      /\ queueLock' = queueLock /\ ackLock' = ackLock /\ "cumulative_ack" \in Requests
  BY DEF CumulativeAckScan, Locals, Goto, boundVars, historyVars, lockVars, Stored
<1> HIDE DEF S
<1>2. /\ batch'[t].del = Places(S) /\ batch'[t].put = {}
      /\ \A o \in Procs \ {t} : batch'[o] = batch[o]
  BY <1>0, <1>1, BuildFacts
<1>3. Alone(t) /\ pc'[t] = "cum_write" /\ reg'[t].found = S /\ reg'[t].goal = reg[t].goal
      /\ reg'[t].q = reg[t].q /\ reg'[t].n = reg[t].n /\ reg'[t].pol = reg[t].pol
  BY <1>0, <1>1, <1>2 DEF Alone, Kept, TypeOK, Registers
<1>4. Plans(t, S, {}, "cum_write")
  BY <1>s, <1>1, <1>2, <1>3 DEF Plans
<1> QED
  BY <1>1, <1>3, <1>4 DEF S

LEMMA PurgeScanFacts ==
  ASSUME TypeOK, NEW t \in Threads, PurgeScan(t)
  PROVE  /\ Plans(t, In("dlq"), {}, "purge_write") /\ nextId' = nextId
         /\ pc[t] = "idle" /\ reg'[t].found = In("dlq")
<1> DEFINE S == In("dlq")
<1>0. t \in Procs /\ reg[t] \in Registers
  BY DEF Procs, TypeOK
<1>s. S \subseteq db
  BY DEF In
<1>1. /\ Stored /\ nextId' = nextId /\ Build(t, S, {})
      /\ reg' = [reg EXCEPT ![t] = [reg[t] EXCEPT !.found = S]]
      /\ pc[t] = "idle" /\ pc' = [pc EXCEPT ![t] = "purge_write"]
      /\ queueLock' = queueLock /\ ackLock' = ackLock
  BY DEF PurgeScan, Locals, Goto, boundVars, historyVars, lockVars, Stored
<1> HIDE DEF S
<1>2. /\ batch'[t].del = Places(S) /\ batch'[t].put = {}
      /\ \A o \in Procs \ {t} : batch'[o] = batch[o]
  BY <1>0, <1>1, BuildFacts
<1>3. Alone(t) /\ pc'[t] = "purge_write" /\ reg'[t].found = S /\ reg'[t].goal = reg[t].goal
      /\ reg'[t].q = reg[t].q /\ reg'[t].n = reg[t].n /\ reg'[t].pol = reg[t].pol
  BY <1>0, <1>1, <1>2 DEF Alone, Kept, TypeOK, Registers
<1>4. Plans(t, S, {}, "purge_write")
  BY <1>s, <1>1, <1>2, <1>3 DEF Plans
<1> QED
  BY <1>1, <1>3, <1>4 DEF S

\* nack reads the record of a key and decides where it goes.
LEMMA NackReadFacts ==
  ASSUME TypeOK, NEW t \in Threads, NEW k, NackRead(t, k)
  PROVE  /\ nextId' = nextId /\ pc[t] = "idle" /\ reg'[t].found = reg[t].found
         /\ "nack" \in Requests
         /\ \E r \in In("inflight") : \E x :
              /\ Plans(t, {r}, {x}, "nack_write")
              /\ \/ r.kind = "garbage" /\ x = Poison(r)
                 \/ r.kind # "garbage" /\ Exhausted(r) /\ x = [r EXCEPT !.cf = "dlq"]
                 \/ r.kind # "garbage" /\ x = Retried(r, seq)
<1>0. t \in Procs /\ reg[t] \in Registers
  BY DEF Procs, TypeOK
<1>1. PICK r \in Hit(k) :
         \/ r.kind = "garbage" /\ Build(t, {r}, {Poison(r)})
         \/ r.kind # "garbage" /\ Exhausted(r) /\ Build(t, {r}, {[r EXCEPT !.cf = "dlq"]})
         \/ r.kind # "garbage" /\ Build(t, {r}, {Retried(r, seq)})
  BY DEF NackRead
<1>2. PICK x : /\ Build(t, {r}, {x})
               /\ \/ r.kind = "garbage" /\ x = Poison(r)
                  \/ r.kind # "garbage" /\ Exhausted(r) /\ x = [r EXCEPT !.cf = "dlq"]
                  \/ r.kind # "garbage" /\ x = Retried(r, seq)
  BY <1>1
<1>3. /\ Stored /\ nextId' = nextId /\ reg' = reg /\ "nack" \in Requests
      /\ pc[t] = "idle" /\ pc' = [pc EXCEPT ![t] = "nack_write"]
      /\ queueLock' = queueLock /\ ackLock' = ackLock
  BY DEF NackRead, Goto, boundVars, historyVars, lockVars, Stored
<1>4. r \in In("inflight") /\ {r} \subseteq db
  BY DEF Hit, In
<1>5. /\ batch'[t].del = Places({r}) /\ batch'[t].put = {x}
      /\ \A o \in Procs \ {t} : batch'[o] = batch[o]
  BY <1>0, <1>2, BuildFacts
<1>6. Alone(t) /\ pc'[t] = "nack_write" /\ reg'[t].found = reg[t].found /\ reg'[t].goal = reg[t].goal
      /\ reg'[t].q = reg[t].q /\ reg'[t].n = reg[t].n /\ reg'[t].pol = reg[t].pol
  BY <1>0, <1>3, <1>5 DEF Alone, Kept, TypeOK
<1>7. Plans(t, {r}, {x}, "nack_write")
  BY <1>3, <1>4, <1>5, <1>6 DEF Plans
<1> QED
  BY <1>2, <1>3, <1>4, <1>6, <1>7

\* replay_dlq.
LEMMA ReplayScanFacts ==
  ASSUME TypeOK, NEW t \in Threads, ReplayScan(t)
  PROVE  /\ Plans(t, In("dlq"), {Replayed(r, ReplaySeq(r)) : r \in In("dlq")}, "replay_write")
         /\ nextId' = nextId /\ pc[t] = "idle" /\ reg'[t].found = reg[t].found
         /\ "replay_dlq" \in Requests /\ Valid(In("dlq")) = In("dlq")
<1> DEFINE S == In("dlq")
           R == {Replayed(r, ReplaySeq(r)) : r \in In("dlq")}
<1>0. t \in Procs /\ reg[t] \in Registers
  BY DEF Procs, TypeOK
<1>s. S \subseteq db
  BY DEF In
<1>1. /\ Stored /\ nextId' = nextId /\ Build(t, S, R)
      /\ reg' = reg /\ "replay_dlq" \in Requests /\ Valid(S) = S
      /\ pc[t] = "idle" /\ pc' = [pc EXCEPT ![t] = "replay_write"]
      /\ queueLock' = queueLock /\ ackLock' = ackLock
  BY DEF ReplayScan, Goto, boundVars, historyVars, lockVars, Stored
<1> HIDE DEF S, R
<1>2. /\ batch'[t].del = Places(S) /\ batch'[t].put = R
      /\ \A o \in Procs \ {t} : batch'[o] = batch[o]
  BY <1>0, <1>1, BuildFacts
<1>3. Alone(t) /\ pc'[t] = "replay_write" /\ reg'[t].found = reg[t].found /\ reg'[t].goal = reg[t].goal
      /\ reg'[t].q = reg[t].q /\ reg'[t].n = reg[t].n /\ reg'[t].pol = reg[t].pol
  BY <1>0, <1>1, <1>2 DEF Alone, Kept, TypeOK
<1>4. Plans(t, S, R, "replay_write")
  BY <1>s, <1>1, <1>2, <1>3 DEF Plans
<1> QED
  BY <1>1, <1>3, <1>4 DEF S, R

\* reap_inflight.
Late(q) == {r \in Of(In("inflight"), q) : Overdue(r)}

LEMMA ReapScanFacts ==
  ASSUME TypeOK, NEW q \in Queues, ReapScan(q)
  PROVE  LET corrupt == CorruptIn(Of(In("inflight"), q))
         IN  /\ Plans(Reaper, Late(q) \cup corrupt, {Retried(r, r.seq) : r \in Late(q)} \cup
                                                     {Poison(r) : r \in corrupt}, "reap_write")
             /\ nextId' = nextId /\ pc[Reaper] = "idle" /\ reg'[Reaper].found = reg[Reaper].found
<1> DEFINE corrupt == CorruptIn(Of(In("inflight"), q))
           S == Late(q) \cup corrupt
           R == {Retried(r, r.seq) : r \in Late(q)} \cup {Poison(r) : r \in corrupt}
<1>0. Reaper \in Procs /\ reg[Reaper] \in Registers
  BY DEF Procs, TypeOK
<1>s. S \subseteq db
  BY DEF Late, CorruptIn, Of, In
<1>1. /\ Stored /\ nextId' = nextId /\ Build(Reaper, S, R)
      /\ reg' = reg
      /\ pc[Reaper] = "idle" /\ pc' = [pc EXCEPT ![Reaper] = "reap_write"]
      /\ queueLock' = queueLock /\ ackLock' = ackLock
  BY DEF ReapScan, Goto, boundVars, historyVars, lockVars, Stored, Late
<1> HIDE DEF S, R
<1>2. /\ batch'[Reaper].del = Places(S) /\ batch'[Reaper].put = R
      /\ \A o \in Procs \ {Reaper} : batch'[o] = batch[o]
  BY <1>0, <1>1, BuildFacts
<1>3. Alone(Reaper) /\ pc'[Reaper] = "reap_write" /\ reg'[Reaper].found = reg[Reaper].found
      /\ reg'[Reaper].goal = reg[Reaper].goal /\ reg'[Reaper].q = reg[Reaper].q
      /\ reg'[Reaper].n = reg[Reaper].n /\ reg'[Reaper].pol = reg[Reaper].pol
  BY <1>0, <1>1, <1>2 DEF Alone, Kept, TypeOK
<1>4. Plans(Reaper, S, R, "reap_write")
  BY <1>s, <1>1, <1>2, <1>3 DEF Plans
<1> QED
  BY <1>1, <1>3, <1>4 DEF S, R

(***************************************************************************)
(* Commits                                                                 *)
(***************************************************************************)
PutBacks == {"nack_write", "replay_write", "reap_write"}

\* p commits its batch; what kind of operation it is decides what is recorded.
Commits(p) ==
  /\ pc[p] \in Writes \ {"ack_read"}
  /\ db' = Applied(batch[p]) /\ nextId' = nextId /\ Alone(p)
  /\ accepted' = IF pc[p] = "enq_write" THEN accepted \cup IdsOf(batch[p].put) ELSE accepted
  /\ settled' = settled \cup IdsOf(reg[p].found)
  /\ deliveries' =
       IF pc[p] = "deq_write"
       THEN [i \in Ids |-> deliveries[i] +
               Cardinality({r \in {x \in batch[p].put : x.cf = "inflight"} : r.id = i})]
       ELSE deliveries
  /\ tally' =
       IF pc[p] \in {"ack_write", "cum_write"}
       THEN [i \in Ids |-> tally[i] + Cardinality({r \in reg[p].found : r.id = i})]
       ELSE tally
  /\ returned' =
       IF pc[p] \in PutBacks
       THEN [q \in Queues |-> returned[q] +
               Cardinality({r \in batch[p].put : r.cf = "pending" /\ r.q = q})]
       ELSE returned

\* Where p is after its commit: an eviction goes on with its enqueue.
Leaves(p) ==
  /\ batch'[p] = NoBatch
  /\ IF pc[p] = "enq_evictwrite"
     THEN /\ pc'[p] = "enq_build" /\ reg'[p].found = {} /\ reg'[p].goal = reg[p].goal
          /\ reg'[p].q = reg[p].q /\ reg'[p].n = reg[p].n /\ reg'[p].pol = reg[p].pol
          /\ queueLock' = queueLock /\ ackLock' = ackLock
     ELSE /\ pc'[p] = "idle" /\ reg'[p] = NoRegisters
          /\ \A q \in Queues : ackLock'[q] # p \/ p \notin Threads

LEMMA NothingFound == IdsOf({}) = {}
  BY DEF IdsOf

LEMMA EvictWriteFacts ==
  ASSUME TypeOK, NEW t \in Threads, EvictWrite(t)
  PROVE  Commits(t) /\ Leaves(t)
<1>0. t \in Procs /\ reg[t] \in Registers
  BY DEF Procs, TypeOK
<1>1. /\ pc[t] = "enq_evictwrite" /\ db' = Applied(batch[t]) /\ nextId' = nextId
      /\ accepted' = accepted /\ settled' = settled \cup IdsOf(reg[t].found)
      /\ deliveries' = deliveries /\ tally' = tally /\ returned' = returned
      /\ reg' = [reg EXCEPT ![t] = [reg[t] EXCEPT !.found = {}]]
      /\ batch' = [batch EXCEPT ![t] = NoBatch]
      /\ pc' = [pc EXCEPT ![t] = "enq_build"]
      /\ queueLock' = queueLock /\ ackLock' = ackLock
  BY DEF EvictWrite, Locals, Goto, boundVars, lockVars
<1>2. Alone(t)
  BY <1>0, <1>1 DEF Alone, Kept, TypeOK
<1>3. /\ pc'[t] = "enq_build" /\ reg'[t].found = {} /\ reg'[t].goal = reg[t].goal
      /\ reg'[t].q = reg[t].q /\ reg'[t].n = reg[t].n /\ reg'[t].pol = reg[t].pol
      /\ batch'[t] = NoBatch
  BY <1>0, <1>1 DEF TypeOK, Registers
<1> QED
  BY <1>1, <1>2, <1>3 DEF Commits, Leaves, Writes, Settling, PutBacks

LEMMA EnqueueWriteFacts ==
  ASSUME TypeOK, Carrying, NEW t \in Threads, EnqueueWrite(t)
  PROVE  Commits(t) /\ Leaves(t)
<1>0. t \in Procs
  BY DEF Procs
<1>1. /\ pc[t] = "enq_write" /\ db' = Applied(batch[t]) /\ nextId' = nextId
      /\ accepted' = accepted \cup IdsOf(batch[t].put) /\ settled' = settled
      /\ deliveries' = deliveries /\ tally' = tally /\ returned' = returned /\ Return(t)
  BY DEF EnqueueWrite, boundVars
<1>2. settled' = settled \cup IdsOf(reg[t].found)
  BY <1>0, <1>1, NothingFound DEF Carrying, Settling
<1> QED
  BY <1>0, <1>1, <1>2, ReturnFacts DEF Commits, Leaves, Writes, Settling, PutBacks

LEMMA DequeueWriteFacts ==
  ASSUME TypeOK, Carrying, NEW t \in Threads, DequeueWrite(t)
  PROVE  Commits(t) /\ Leaves(t)
<1>0. t \in Procs
  BY DEF Procs
<1> DEFINE D == [i \in Ids |-> deliveries[i] +
                   Cardinality({r \in {x \in batch[t].put : x.cf = "inflight"} : r.id = i})]
<1>1. /\ pc[t] = "deq_write" /\ db' = Applied(batch[t]) /\ nextId' = nextId
      /\ accepted' = accepted /\ settled' = settled
      /\ deliveries' = D /\ tally' = tally /\ returned' = returned /\ Return(t)
  BY DEF DequeueWrite, boundVars
<1>2. settled' = settled \cup IdsOf(reg[t].found)
  BY <1>0, <1>1, NothingFound DEF Carrying, Settling
<1>3. pc[t] = "deq_write" => D = [i \in Ids |-> deliveries[i] +
               Cardinality({r \in {x \in batch[t].put : x.cf = "inflight"} : r.id = i})]
  OBVIOUS
<1> HIDE DEF D
<1> QED
  BY <1>0, <1>1, <1>2, <1>3, ReturnFacts DEF Commits, Leaves, Writes, Settling, PutBacks

LEMMA AckedFacts ==
  ASSUME TypeOK, NEW t \in Threads, pc[t] \in {"ack_write", "cum_write"}, Acked(t)
  PROVE  Commits(t) /\ Leaves(t)
<1>0. t \in Procs
  BY DEF Procs
<1> DEFINE D == [i \in Ids |-> tally[i] + Cardinality({r \in reg[t].found : r.id = i})]
<1>1. /\ db' = Applied(batch[t]) /\ nextId' = nextId
      /\ accepted' = accepted /\ settled' = settled \cup IdsOf(reg[t].found)
      /\ deliveries' = deliveries /\ tally' = D /\ returned' = returned /\ Return(t)
  BY DEF Acked, boundVars
<1>2. D = [i \in Ids |-> tally[i] + Cardinality({r \in reg[t].found : r.id = i})]
  OBVIOUS
<1> HIDE DEF D
<1> QED
  BY <1>0, <1>1, <1>2, ReturnFacts DEF Commits, Leaves, Writes, Settling, PutBacks

LEMMA PurgeWriteFacts ==
  ASSUME TypeOK, NEW t \in Threads, PurgeWrite(t)
  PROVE  Commits(t) /\ Leaves(t)
<1>0. t \in Procs
  BY DEF Procs
<1>1. /\ pc[t] = "purge_write" /\ db' = Applied(batch[t]) /\ nextId' = nextId
      /\ accepted' = accepted /\ settled' = settled \cup IdsOf(reg[t].found)
      /\ deliveries' = deliveries /\ tally' = tally /\ returned' = returned /\ Return(t)
  BY DEF PurgeWrite, boundVars
<1> QED
  BY <1>0, <1>1, ReturnFacts DEF Commits, Leaves, Writes, Settling, PutBacks

LEMMA PutBackFacts ==
  ASSUME TypeOK, Carrying, NEW p \in Procs, pc[p] \in PutBacks, PutBack(p)
  PROVE  Commits(p) /\ Leaves(p)
<1> DEFINE D == [q \in Queues |-> returned[q] +
                   Cardinality({r \in batch[p].put : r.cf = "pending" /\ r.q = q})]
<1>1. /\ db' = Applied(batch[p]) /\ nextId' = nextId
      /\ accepted' = accepted /\ settled' = settled
      /\ deliveries' = deliveries /\ tally' = tally /\ returned' = D /\ Return(p)
  BY DEF PutBack, boundVars
<1>2. settled' = settled \cup IdsOf(reg[p].found)
  BY <1>1, NothingFound DEF Carrying, Settling, PutBacks
<1>3. D = [q \in Queues |-> returned[q] +
             Cardinality({r \in batch[p].put : r.cf = "pending" /\ r.q = q})]
  OBVIOUS
<1> HIDE DEF D
<1> QED
  BY <1>1, <1>2, <1>3, ReturnFacts DEF Commits, Leaves, Writes, Settling, PutBacks

(***************************************************************************)
(* The shapes of a step                                                    *)
(***************************************************************************)
\* p carries nothing; if it drains, it has just counted.
Emptied(p) ==
  /\ batch'[p].del = {} /\ batch'[p].put = {} /\ reg'[p].found = {}
  /\ pc'[p] \notin Writes \ {"ack_read"}
  /\ reg'[p].goal \subseteq reg[p].goal \cup IdsOf(db)
  /\ pc'[p] = "drain_inflight" =>
       reg'[p].seen = Waiting(reg'[p].q) /\ reg'[p].back = returned[reg'[p].q]

\* Nobody scans and nobody commits.
Rests ==
  /\ Stored /\ nextId' = nextId
  /\ \A p \in Procs : Kept(p) \/ Emptied(p)

\* What a scan may make of a record it found.
Moved(p, r, x) ==
  \/ pc'[p] = "deq_write" /\ r.cf = "pending" /\ r.kind # "garbage" /\ x = Delivered(r)
  \/ r.cf # "dlq" /\ r.kind = "garbage" /\ x = Poison(r)
  \/ /\ pc'[p] = "nack_write" /\ r.cf = "inflight" /\ r.kind # "garbage"
     /\ Exhausted(r) /\ x = [r EXCEPT !.cf = "dlq"]
  \/ /\ pc'[p] \in {"nack_write", "reap_write"} /\ r.cf = "inflight" /\ r.kind # "garbage"
     /\ \E s \in Nat : x = Retried(r, s)
  \/ /\ pc'[p] = "replay_write" /\ r.cf = "dlq" /\ r.kind # "garbage"
     /\ \E s \in Nat : x = Replayed(r, s)

\* What a scan may find, on its way to which commit.
Finds(p, r) ==
  /\ pc'[p] \in {"enq_evictwrite", "deq_write"} => r.cf = "pending" /\ r.q = reg[p].q
  /\ pc'[p] \in {"ack_read", "ack_write", "cum_write", "nack_write", "reap_write"} => r.cf = "inflight"
  /\ pc'[p] \in {"purge_write", "replay_write"} => r.cf = "dlq"

\* Which action it is, by the commit it leads to.
ByAction(p) ==
  /\ pc'[p] = "enq_evictwrite" => EvictScan(p)
  /\ pc'[p] = "deq_write" => DequeueScan(p)
  /\ pc'[p] \in {"ack_read", "ack_write"} => AckRead(p)
  /\ pc'[p] = "cum_write" => "cumulative_ack" \in Requests
  /\ pc'[p] = "nack_write" => \E k \in handed : NackRead(p, k)
  /\ pc'[p] = "replay_write" => ReplayScan(p)
  /\ pc'[p] = "reap_write" => p = Reaper /\ \E q \in Reaped : ReapScan(q)
  /\ pc'[p] # "reap_write" => p \in Threads

\* p scans: it finds S, which it will delete, and either settles it or moves it.
Scans(p, S) ==
  /\ Stored /\ nextId' = nextId /\ Alone(p)
  /\ S \subseteq db /\ ByAction(p) /\ \A r \in S : Finds(p, r)
  /\ pc'[p] \in Writes \ {"enq_write"} /\ pc[p] \notin Writes \ {"ack_read"}
  /\ reg'[p].goal = reg[p].goal
  /\ pc'[p] \in {"enq_evictwrite", "deq_write"} => reg'[p].q = reg[p].q
  /\ batch'[p].del = batch[p].del \cup Places(S)
  /\ IF pc'[p] \in Settling
     THEN reg'[p].found = reg[p].found \cup S /\ batch'[p].put = {}
     ELSE /\ reg'[p].found = {}
          /\ \A x \in batch'[p].put : \E r \in S : Moved(p, r, x)
          /\ \A r \in S : r.id \in IdsOf(batch'[p].put)
  /\ pc[p] = "ack_read" <=> pc'[p] \in {"ack_read", "ack_write"}

\* A record is rewritten in place: its lease ends or it stops deserializing.
Rewrites(r, x) ==
  /\ r \in db /\ db' = (db \ {r}) \cup {x}
  /\ Place(x) = Place(r) /\ x.id = r.id /\ x.attempts = r.attempts /\ x.cf = r.cf /\ x.q = r.q
  /\ x.kind \in {r.kind, "garbage"}
  /\ pc' = pc /\ reg' = reg /\ batch' = batch /\ queueLock' = queueLock /\ ackLock' = ackLock
  /\ nextId' = nextId /\ accepted' = accepted /\ settled' = settled
  /\ deliveries' = deliveries /\ tally' = tally /\ returned' = returned

\* A compaction drops a record.
Drops(r) ==
  /\ r \in db /\ db' = db \ {r} /\ settled' = settled \cup {r.id}
  /\ pc' = pc /\ reg' = reg /\ batch' = batch /\ queueLock' = queueLock /\ ackLock' = ackLock
  /\ nextId' = nextId /\ accepted' = accepted
  /\ deliveries' = deliveries /\ tally' = tally /\ returned' = returned

LEMMA QuietRests ==
  ASSUME Carrying, Stored, nextId' = nextId, NEW p \in Procs, Alone(p), batch'[p] = batch[p],
         reg'[p].found = reg[p].found, pc[p] \notin Writes, pc'[p] \notin Writes,
         reg'[p].goal = reg[p].goal \/ reg'[p].goal \subseteq IdsOf(db),
         pc'[p] = "drain_inflight" =>
           reg'[p].seen = Waiting(reg'[p].q) /\ reg'[p].back = returned[reg'[p].q]
  PROVE  Rests
<1>1. pc[p] \notin Settling
  BY DEF Writes
<1> QED
  BY <1>1 DEF Rests, Alone, Emptied, Carrying

LEMMA ReturnRests ==
  ASSUME TypeOK, Stored, nextId' = nextId, NEW p \in Procs, Return(p)
  PROVE  Rests
<1>1. Alone(p) /\ pc'[p] = "idle" /\ reg'[p] = NoRegisters /\ batch'[p] = NoBatch
  BY ReturnFacts
<1>2. Emptied(p)
  BY <1>1 DEF Emptied, NoRegisters, NoBatch, Writes, Settling
<1> QED
  BY <1>1, <1>2 DEF Rests, Alone

\* A scan that settles what it finds.
LEMMA SettlingScan ==
  ASSUME Carrying, nextId' = nextId, NEW p \in Procs, NEW S, NEW to \in Settling,
         to \notin {"ack_read", "ack_write"},
         Plans(p, S, {}, to), reg'[p].found = S, pc[p] \notin Writes, ByAction(p),
         \A r \in S : Finds(p, r)
  PROVE  Scans(p, S)
<1>1. batch[p].del = {} /\ reg[p].found = {} /\ pc[p] # "ack_read"
  BY DEF Carrying, Writes, Settling
<1>2. Settling \subseteq Writes /\ "enq_write" \notin Settling
  BY DEF Writes, Settling
<1> QED
  BY <1>1, <1>2 DEF Scans, Plans

\* A scan that moves what it finds.
LEMMA MovingScan ==
  ASSUME Carrying, nextId' = nextId, NEW p \in Procs, NEW S, NEW R,
         NEW to \in PutBacks \cup {"deq_write"},
         Plans(p, S, R, to), reg'[p].found = reg[p].found, pc[p] \notin Writes,
         ByAction(p), \A r \in S : Finds(p, r),
         \A x \in R : \E r \in S : Moved(p, r, x),
         \A r \in S : r.id \in IdsOf(R)
  PROVE  Scans(p, S)
<1>1. batch[p].del = {} /\ reg'[p].found = {} /\ pc[p] # "ack_read"
  BY DEF Carrying, Writes, Settling
<1>2. /\ to \in Writes \ {"enq_write"} /\ to \notin Settling /\ to \notin {"ack_read", "ack_write"}
      /\ "ack_read" \in Writes
  BY DEF Writes, Settling, PutBacks
<1>3. /\ Stored /\ Alone(p) /\ S \subseteq db /\ batch'[p].del = Places(S) /\ batch'[p].put = R
      /\ pc'[p] = to /\ reg'[p].goal = reg[p].goal /\ reg'[p].q = reg[p].q
  BY DEF Plans
<1> QED
  BY <1>1, <1>2, <1>3 DEF Scans

\* enqueue_batch_sync in shapes.
LEMMA EnqueueShapes ==
  ASSUME TypeOK, Carrying, NEW t \in Threads, Enqueue(t)
  PROVE  \/ Rests
         \/ \E p \in Procs, S \in SUBSET db : Scans(p, S)
         \/ EnqueueBuild(t)
         \/ \E p \in Procs : Commits(p) /\ Leaves(p)
<1>0. t \in Procs
  BY DEF Procs
<1>1. ASSUME NEW q \in Queues, NEW n \in 1 .. MaxBatch, NEW pol \in Policies,
             EnqueueBegin(t, q, n, pol)
      PROVE  Rests
  BY <1>0, <1>1, EnqueueBeginFacts, QuietRests DEF Writes, Settling
<1>2. CASE EnqueueCountPending(t)
  BY <1>0, <1>2, EnqueueCountFacts, QuietRests DEF Writes, Settling
<1>3. CASE QuotaFits(t)
  BY <1>0, <1>3, QuotaFitsFacts, QuietRests DEF Writes, Settling
<1>4. CASE QuotaExceeded(t)
  BY <1>0, <1>4, GivesUp, ReturnRests DEF Gives
<1>5. CASE QuotaWait(t)
  BY <1>0, <1>5, QuotaWaitFacts, QuietRests DEF Writes, Settling
<1>6. CASE QuotaEvict(t)
  BY <1>0, <1>6, QuotaEvictFacts, QuietRests DEF Writes, Settling
<1>7. CASE EvictScan(t)
  <2> DEFINE S == Oldest(Of(In("pending"), reg[t].q), reg[t].seen)
  <2>1. /\ Plans(t, S, {}, "enq_evictwrite") /\ nextId' = nextId
        /\ pc[t] = "enq_evict" /\ reg'[t].found = S
    BY <1>7, EvictScanFacts
  <2>2. pc'[t] = "enq_evictwrite" /\ S \subseteq db
    BY <2>1 DEF Plans
  <2>a. ByAction(t)
    BY <1>7, <2>2 DEF ByAction
  <2>3. \A r \in S : Finds(t, r)
    BY <2>2 DEF Finds, Oldest, Of, In
  <2>4. pc[t] \notin Writes /\ "enq_evictwrite" \in Settling
    BY <2>1 DEF Writes, Settling
  <2> HIDE DEF S
  <2>5. Scans(t, S)
    BY <1>0, <2>1, <2>a, <2>3, <2>4, SettlingScan
  <2> QED
    BY <1>0, <2>2, <2>5
<1>8. CASE EvictWrite(t)
  BY <1>0, <1>8, EvictWriteFacts
<1>9. CASE EnqueueBuild(t)
  BY <1>9
<1>10. CASE EnqueueWrite(t)
  BY <1>0, <1>10, EnqueueWriteFacts
<1> QED
  BY <1>1, <1>2, <1>3, <1>4, <1>5, <1>6, <1>7, <1>8, <1>9, <1>10 DEF Enqueue

\* dequeue in shapes.
LEMMA DequeueShapes ==
  ASSUME TypeOK, Carrying, NEW t \in Threads, Dequeue(t)
  PROVE  \/ Rests
         \/ \E p \in Procs, S \in SUBSET db : Scans(p, S)
         \/ \E p \in Procs : Commits(p) /\ Leaves(p)
<1>0. t \in Procs
  BY DEF Procs
<1>1. ASSUME NEW q \in Queues, NEW n \in 1 .. MaxBatch, NEW pol \in Policies,
             DequeueBegin(t, q, n, pol)
      PROVE  Rests
  BY <1>0, <1>1, DequeueBeginFacts, QuietRests DEF Writes, Settling
<1>2. ASSUME NEW q \in Queues, NEW n \in 1 .. MaxBatch, DequeueUncappedBegin(t, q, n)
      PROVE  Rests
  BY <1>0, <1>2, DequeueUncappedFacts, QuietRests DEF Writes, Settling
<1>3. CASE DequeueCount(t)
  BY <1>0, <1>3, DequeueCountFacts, QuietRests DEF Writes, Settling
<1>4. CASE DequeueAtCap(t) \/ DequeueEmpty(t)
  BY <1>0, <1>4, GivesUp, ReturnRests DEF Gives
<1>5. CASE DequeueScan(t)
  <2> DEFINE S == Scanned(t)
             R == Handover(t)
  <2>1. /\ Plans(t, S, R, "deq_write") /\ nextId' = nextId
        /\ pc[t] = "deq_scan" /\ reg'[t].found = reg[t].found
    BY <1>5, DequeueScanFacts
  <2>2. pc'[t] = "deq_write" /\ S \subseteq db /\ S \subseteq Rec
    BY <2>1 DEF Plans, TypeOK
  <2>a. ByAction(t)
    BY <1>5, <2>2 DEF ByAction
  <2>3. \A r \in S : Finds(t, r)
    BY <2>2 DEF Finds, Scanned, Of, In
  <2>4. \A r \in S : r.cf = "pending"
    BY DEF Scanned, Of, In
  <2>5. \A x \in R : \E r \in S : Moved(t, r, x)
    BY <2>2, <2>4 DEF Moved, Handover, Valid
  <2>6. \A r \in S : \E x \in R : x.id = r.id
    <3> SUFFICES ASSUME NEW r \in S PROVE \E x \in R : x.id = r.id
      OBVIOUS
    <3>1. Delivered(r).id = r.id /\ Poison(r).id = r.id
      BY <2>2, SameTask
    <3>2. Delivered(r) \in R \/ Poison(r) \in R
      BY DEF Handover, Valid
    <3> QED
      BY <3>1, <3>2
  <2>7. pc[t] \notin Writes
    BY <2>1 DEF Writes, Settling
  <2> HIDE DEF S, R
  <2>8. Scans(t, S)
    BY <1>0, <2>1, <2>a, <2>3, <2>5, <2>6, <2>7, MovingScan DEF IdsOf
  <2> QED
    BY <1>0, <2>2, <2>8
<1>6. CASE DequeueWrite(t)
  BY <1>0, <1>6, DequeueWriteFacts
<1> QED
  BY <1>1, <1>2, <1>3, <1>4, <1>5, <1>6 DEF Dequeue

\* ack_batch and cumulative_ack in shapes.
LEMMA AckShapes ==
  ASSUME TypeOK, Carrying, NEW t \in Threads, Ack(t)
  PROVE  \/ Rests
         \/ \E p \in Procs, S \in SUBSET db : Scans(p, S)
         \/ \E p \in Procs : Commits(p) /\ Leaves(p)
<1>0. t \in Procs
  BY DEF Procs
<1>1. ASSUME NEW K \in SUBSET handed, AckBegin(t, K)
      PROVE  Rests
  BY <1>0, <1>1, AckBeginFacts, QuietRests DEF Writes, Settling
<1>2. CASE AckLock(t)
  <2>1. /\ Stored /\ nextId' = nextId /\ Alone(t)
        /\ batch'[t].del = {} /\ batch'[t].put = {}
        /\ pc[t] = "ack_lock" /\ pc'[t] \in {"ack_lock", "ack_read"}
        /\ reg'[t].found = reg[t].found /\ reg'[t].goal = reg[t].goal
    BY <1>2, AckLockFacts
  <2>2. Emptied(t)
    BY <1>0, <2>1 DEF Emptied, Carrying, Writes, Settling
  <2> QED
    BY <2>1, <2>2 DEF Rests, Alone
<1>3. CASE AckRead(t)
  <2>1. /\ Stored /\ Alone(t) /\ nextId' = nextId
        /\ pc[t] = "ack_read" /\ pc'[t] \in {"ack_read", "ack_write"}
        /\ reg'[t].goal = reg[t].goal
        /\ batch'[t].del = Places(reg'[t].found) /\ batch'[t].put = {}
    BY <1>3, AckReadFacts
  <2>2. PICK k : reg'[t].found = reg[t].found \cup Hit(k)
    BY <1>3, AckReadFacts
  <2> DEFINE S == Hit(k)
  <2>3. S \subseteq db /\ \A r \in S : r.cf = "inflight"
    BY DEF Hit, In
  <2> HIDE DEF S
  <2>4. batch[t].del = Places(reg[t].found)
    BY <1>0, <2>1 DEF Carrying, Settling
  <2>5. batch'[t].del = batch[t].del \cup Places(S)
    BY <2>1, <2>2, <2>4 DEF Places, S
  <2>6. \A r \in S : Finds(t, r)
    BY <2>1, <2>3 DEF Finds
  <2>a. ByAction(t)
    BY <1>3, <2>1 DEF ByAction
  <2>7. Scans(t, S)
    BY <2>1, <2>2, <2>3, <2>5, <2>6, <2>a DEF Scans, Writes, Settling, S
  <2> QED
    BY <1>0, <2>3, <2>7
<1>4. CASE AckWrite(t) \/ CumulativeAckWrite(t)
  BY <1>0, <1>4, AckedFacts DEF AckWrite, CumulativeAckWrite
<1>5. ASSUME NEW q \in Queues, NEW u \in 0 .. MaxSeq, CumulativeAckScan(t, q, u)
      PROVE  \E p \in Procs, S \in SUBSET db : Scans(p, S)
  <2> DEFINE S == {r \in Of(In("inflight"), q) : r.seq <= u}
  <2>1. /\ Plans(t, S, {}, "cum_write") /\ nextId' = nextId
        /\ pc[t] = "idle" /\ reg'[t].found = S
    BY <1>5, CumulativeAckScanFacts
  <2>2. pc'[t] = "cum_write" /\ S \subseteq db
    BY <2>1 DEF Plans
  <2>a. ByAction(t)
    BY <1>5, <2>2, CumulativeAckScanFacts DEF ByAction
  <2>3. \A r \in S : Finds(t, r)
    BY <2>2 DEF Finds, Of, In
  <2>4. pc[t] \notin Writes /\ "cum_write" \in Settling
    BY <2>1 DEF Writes, Settling
  <2> HIDE DEF S
  <2>5. Scans(t, S)
    BY <1>0, <2>1, <2>a, <2>3, <2>4, SettlingScan
  <2> QED
    BY <1>0, <2>2, <2>5
<1> QED
  BY <1>1, <1>2, <1>3, <1>4, <1>5 DEF Ack

\* nack, purge_dlq and replay_dlq in shapes.
LEMMA NackOrDlqShapes ==
  ASSUME TypeOK, Finite, Carrying, NEW t \in Threads, NackOrDlq(t)
  PROVE  \/ Rests
         \/ \E p \in Procs, S \in SUBSET db : Scans(p, S)
         \/ \E p \in Procs : Commits(p) /\ Leaves(p)
<1>0. t \in Procs
  BY DEF Procs
<1>1. ASSUME NEW k \in handed, NackRead(t, k)
      PROVE  \E p \in Procs, S \in SUBSET db : Scans(p, S)
  <2>1. /\ nextId' = nextId /\ pc[t] = "idle" /\ reg'[t].found = reg[t].found
    BY <1>1, NackReadFacts
  <2>r. PICK r \in In("inflight") : \E x :
           /\ Plans(t, {r}, {x}, "nack_write")
           /\ \/ r.kind = "garbage" /\ x = Poison(r)
              \/ r.kind # "garbage" /\ Exhausted(r) /\ x = [r EXCEPT !.cf = "dlq"]
              \/ r.kind # "garbage" /\ x = Retried(r, seq)
    BY <1>1, NackReadFacts
  <2>2. PICK x :
           /\ Plans(t, {r}, {x}, "nack_write")
           /\ \/ r.kind = "garbage" /\ x = Poison(r)
              \/ r.kind # "garbage" /\ Exhausted(r) /\ x = [r EXCEPT !.cf = "dlq"]
              \/ r.kind # "garbage" /\ x = Retried(r, seq)
    BY <2>r
  <2>3. pc'[t] = "nack_write" /\ r \in db /\ r \in Rec /\ r.cf = "inflight"
    BY <2>2 DEF Plans, TypeOK, In
  <2>a. ByAction(t)
    BY <1>1, <2>3 DEF ByAction
  <2>4. Finds(t, r)
    BY <2>3 DEF Finds
  <2>5. Moved(t, r, x)
    BY <2>2, <2>3 DEF Moved, TypeOK
  <2>6. x.id = r.id
    <3> DEFINE dead == [r EXCEPT !.cf = "dlq"]
    <3>1. Poison(r).id = r.id /\ dead.id = r.id /\ Retried(r, seq).id = r.id
      BY <2>3, SameTask
    <3>2. x = Poison(r) \/ x = dead \/ x = Retried(r, seq)
      BY <2>2
    <3> HIDE DEF dead
    <3> QED
      BY <3>1, <3>2
  <2>7. pc[t] \notin Writes /\ "nack_write" \in PutBacks
    BY <2>1 DEF Writes, Settling, PutBacks
  <2>8. Scans(t, {r})
    BY <1>0, <2>1, <2>a, <2>2, <2>4, <2>5, <2>6, <2>7, MovingScan DEF IdsOf
  <2> QED
    BY <1>0, <2>3, <2>8
<1>2. CASE NackWrite(t) \/ ReplayWrite(t)
  BY <1>0, <1>2, PutBackFacts DEF NackWrite, ReplayWrite, PutBacks
<1>3. CASE PurgeScan(t)
  <2> DEFINE S == In("dlq")
  <2>1. /\ Plans(t, S, {}, "purge_write") /\ nextId' = nextId
        /\ pc[t] = "idle" /\ reg'[t].found = S
    BY <1>3, PurgeScanFacts
  <2>2. pc'[t] = "purge_write" /\ S \subseteq db
    BY <2>1 DEF Plans
  <2>a. ByAction(t)
    BY <2>2 DEF ByAction
  <2>3. \A r \in S : Finds(t, r)
    BY <2>2 DEF Finds, In
  <2>4. pc[t] \notin Writes /\ "purge_write" \in Settling
    BY <2>1 DEF Writes, Settling
  <2> HIDE DEF S
  <2>5. Scans(t, S)
    BY <1>0, <2>1, <2>a, <2>3, <2>4, SettlingScan
  <2> QED
    BY <1>0, <2>2, <2>5
<1>4. CASE PurgeWrite(t)
  BY <1>0, <1>4, PurgeWriteFacts
<1>5. CASE ReplayScan(t)
  <2> DEFINE S == In("dlq")
             R == {Replayed(r, ReplaySeq(r)) : r \in S}
  <2>1. /\ Plans(t, S, R, "replay_write") /\ nextId' = nextId
        /\ pc[t] = "idle" /\ reg'[t].found = reg[t].found /\ Valid(S) = S
    BY <1>5, ReplayScanFacts
  <2>2. pc'[t] = "replay_write" /\ S \subseteq db /\ S \subseteq Rec /\ IsFiniteSet(S)
    BY <2>1, FS_Subset DEF Plans, TypeOK, Finite
  <2>a. ByAction(t)
    BY <1>5, <2>2 DEF ByAction
  <2>3. \A r \in S : Finds(t, r)
    BY <2>2 DEF Finds, In
  <2>4. \A r \in S : r.cf = "dlq" /\ r.kind # "garbage"
    BY <2>1 DEF In, Valid
  <2>5. \A r \in S : ReplaySeq(r) \in Nat
    BY <2>2, RankType DEF ReplaySeq, TypeOK
  <2>6. \A r \in S : Moved(t, r, Replayed(r, ReplaySeq(r)))
    BY <2>2, <2>4, <2>5 DEF Moved
  <2>7. \A r \in S : Replayed(r, ReplaySeq(r)).id = r.id
    BY <2>2, SameTask
  <2>8. (\A x \in R : \E r \in S : Moved(t, r, x)) /\ (\A r \in S : r.id \in IdsOf(R))
    BY <2>6, <2>7 DEF IdsOf
  <2>9. pc[t] \notin Writes /\ "replay_write" \in PutBacks
    BY <2>1 DEF Writes, Settling, PutBacks
  <2> HIDE DEF S, R
  <2>10. Scans(t, S)
    BY <1>0, <2>1, <2>a, <2>3, <2>8, <2>9, MovingScan
  <2> QED
    BY <1>0, <2>2, <2>10
<1>6. CASE ReplayAborts(t)
  BY <1>6 DEF ReplayAborts, Rests, Kept, Stored, procVars, boundVars, historyVars
<1> QED
  BY <1>1, <1>2, <1>3, <1>4, <1>5, <1>6 DEF NackOrDlq

\* The reaper in shapes.
LEMMA ReapShapes ==
  ASSUME TypeOK, Carrying, Reap
  PROVE  \/ \E p \in Procs, S \in SUBSET db : Scans(p, S)
         \/ \E p \in Procs : Commits(p) /\ Leaves(p)
<1>0. Reaper \in Procs
  BY DEF Procs
<1>1. ASSUME NEW q \in Reaped, ReapScan(q)
      PROVE  \E p \in Procs, S \in SUBSET db : Scans(p, S)
  <2> DEFINE corrupt == CorruptIn(Of(In("inflight"), q))
             late == Late(q)
             S == late \cup corrupt
             R == {Retried(r, r.seq) : r \in late} \cup {Poison(r) : r \in corrupt}
  <2>1. /\ Plans(Reaper, S, R, "reap_write")
        /\ nextId' = nextId /\ pc[Reaper] = "idle" /\ reg'[Reaper].found = reg[Reaper].found
    BY <1>1, ReapScanFacts, QueueAssumption
  <2>2. pc'[Reaper] = "reap_write" /\ S \subseteq db /\ S \subseteq Rec
    BY <2>1 DEF Plans, TypeOK
  <2>a. ByAction(Reaper)
    BY <1>1, <2>2 DEF ByAction
  <2>3. /\ \A r \in late : r.cf = "inflight" /\ r.kind # "garbage"
        /\ \A r \in corrupt : r.cf = "inflight" /\ r.kind = "garbage"
    BY DEF Late, CorruptIn, Valid, Overdue, Of, In
  <2> HIDE DEF corrupt, late
  <2>4. \A r \in S : Finds(Reaper, r)
    BY <2>2, <2>3 DEF Finds
  <2>5. /\ \A r \in late : Moved(Reaper, r, Retried(r, r.seq)) /\ Retried(r, r.seq).id = r.id
        /\ \A r \in corrupt : Moved(Reaper, r, Poison(r)) /\ Poison(r).id = r.id
    <3>1. \A r \in S : r.seq \in Nat /\ Retried(r, r.seq).id = r.id /\ Poison(r).id = r.id
      BY <2>2, SameTask DEF Rec
    <3> QED
      BY <2>2, <2>3, <3>1 DEF Moved
  <2>6. (\A x \in R : \E r \in S : Moved(Reaper, r, x)) /\ (\A r \in S : r.id \in IdsOf(R))
    BY <2>5 DEF IdsOf
  <2>7. pc[Reaper] \notin Writes /\ "reap_write" \in PutBacks
    BY <2>1 DEF Writes, Settling, PutBacks
  <2> HIDE DEF S, R
  <2>8. Scans(Reaper, S)
    BY <1>0, <2>1, <2>a, <2>4, <2>6, <2>7, MovingScan
  <2> QED
    BY <1>0, <2>2, <2>8
<1>2. CASE ReapWrite
  BY <1>0, <1>2, PutBackFacts DEF ReapWrite, PutBacks
<1> QED
  BY <1>1, <1>2 DEF Reap

\* drain_tenant in shapes.
LEMMA DrainShapes ==
  ASSUME TypeOK, Carrying, NEW t \in Threads, Drain(t)
  PROVE  Rests
<1>0. t \in Procs
  BY DEF Procs
<1>1. CASE DrainBegin(t)
  <2>1. IdsOf(Backlog(DrainedQueue)) \subseteq IdsOf(db)
    BY DEF IdsOf, Backlog, Of, In
  <2> QED
    BY <1>0, <1>1, <2>1, DrainBeginFacts, QuietRests DEF Writes, Settling
<1>2. CASE DrainCountPending(t)
  BY <1>0, <1>2, DrainCountFacts, QuietRests DEF Writes, Settling
<1>3. CASE DrainDone(t) \/ DrainTimeout(t)
  BY <1>0, <1>3, GivesUp, ReturnRests DEF Gives
<1>4. CASE DrainPoll(t)
  BY <1>0, <1>4, DrainPollFacts, QuietRests DEF Writes, Settling
<1> QED
  BY <1>1, <1>2, <1>3, <1>4 DEF Drain

\* The environment in shapes.
LEMMA EnvironmentShapes ==
  ASSUME TypeOK, Environment
  PROVE  Rests \/ (\E r, x \in Rec : Rewrites(r, x)) \/ (\E r \in Rec : Drops(r))
<1>1. ASSUME NEW r \in In("inflight"), Expire(r)
      PROVE  \E x \in Rec : Rewrites(r, x) /\ r \in Rec
  <2> DEFINE x == [r EXCEPT !.deadline = "past"]
  <2>1. r \in db /\ r \in Rec
    BY DEF In, TypeOK
  <2>2. x \in Rec
    BY <2>1, ConstructorType
  <2>3. Place(x) = Place(r) /\ x.id = r.id /\ x.attempts = r.attempts /\ x.cf = r.cf /\ x.q = r.q
        /\ x.kind \in {r.kind, "garbage"}
    BY <2>1 DEF Rec, Place
  <2>4. /\ db' = (db \ {r}) \cup {x}
        /\ pc' = pc /\ reg' = reg /\ batch' = batch /\ queueLock' = queueLock /\ ackLock' = ackLock
        /\ nextId' = nextId /\ accepted' = accepted /\ settled' = settled
        /\ deliveries' = deliveries /\ tally' = tally /\ returned' = returned
    BY <1>1 DEF Expire, lockVars, procVars, boundVars, historyVars
  <2> HIDE DEF x
  <2>5. Rewrites(r, x)
    BY <2>1, <2>3, <2>4 DEF Rewrites
  <2> QED
    BY <2>1, <2>2, <2>5
<1>2. ASSUME NEW r \in db, Corrupt(r)
      PROVE  \E x \in Rec : Rewrites(r, x) /\ r \in Rec
  <2> DEFINE x == [r EXCEPT !.kind = "garbage", !.deadline = "none"]
  <2>1. r \in Rec
    BY DEF TypeOK
  <2>2. x \in Rec
    BY <2>1, ConstructorType
  <2>3. Place(x) = Place(r) /\ x.id = r.id /\ x.attempts = r.attempts /\ x.cf = r.cf /\ x.q = r.q
        /\ x.kind \in {r.kind, "garbage"}
    BY <2>1 DEF Rec, Place
  <2>4. /\ db' = (db \ {r}) \cup {x}
        /\ pc' = pc /\ reg' = reg /\ batch' = batch /\ queueLock' = queueLock /\ ackLock' = ackLock
        /\ nextId' = nextId /\ accepted' = accepted /\ settled' = settled
        /\ deliveries' = deliveries /\ tally' = tally /\ returned' = returned
    BY <1>2 DEF Corrupt, lockVars, procVars, boundVars, historyVars
  <2> HIDE DEF x
  <2>5. Rewrites(r, x)
    BY <2>3, <2>4 DEF Rewrites
  <2> QED
    BY <2>1, <2>2, <2>5
<1>3. ASSUME NEW r \in db, Compact(r)
      PROVE  Drops(r) /\ r \in Rec
  BY <1>3 DEF Compact, Drops, lockVars, procVars, boundVars, TypeOK
<1>4. ASSUME NEW p \in Procs, IoError(p)
      PROVE  Rests
  <2>1. Return(p) /\ Stored /\ nextId' = nextId
    BY <1>4 DEF IoError, Stored, historyVars
  <2> QED
    BY <2>1, ReturnRests
<1>5. ASSUME NEW now \in 0 .. MaxSeq, Restart(now)
      PROVE  Rests
  <2>1. /\ Stored /\ nextId' = nextId /\ pc' = [p \in Procs |-> "idle"]
        /\ reg' = [p \in Procs |-> NoRegisters] /\ batch' = [p \in Procs |-> NoBatch]
    BY <1>5 DEF Restart, Stored, historyVars
  <2>2. ASSUME NEW p \in Procs PROVE Emptied(p)
    <3>1. pc'[p] = "idle" /\ reg'[p] = NoRegisters /\ batch'[p] = NoBatch
      BY <2>1
    <3> QED
      BY <3>1 DEF Emptied, NoRegisters, NoBatch, Writes, Settling
  <2> QED
    BY <2>1, <2>2 DEF Rests
<1> QED
  BY <1>1, <1>2, <1>3, <1>4, <1>5 DEF Environment

\* Every step has one of six shapes.
LEMMA StepShapes ==
  ASSUME TypeOK, Finite, Carrying, [Next]_vars
  PROVE  \/ Rests
         \/ \E p \in Procs, S \in SUBSET db : Scans(p, S)
         \/ \E t \in Threads : EnqueueBuild(t)
         \/ \E p \in Procs : Commits(p) /\ Leaves(p)
         \/ \E r, x \in Rec : Rewrites(r, x)
         \/ \E r \in Rec : Drops(r)
<1>1. ASSUME NEW t \in Threads, Enqueue(t) \/ Dequeue(t) \/ Ack(t) \/ NackOrDlq(t) \/ Drain(t)
      PROVE  \/ Rests
             \/ \E p \in Procs, S \in SUBSET db : Scans(p, S)
             \/ EnqueueBuild(t)
             \/ \E p \in Procs : Commits(p) /\ Leaves(p)
  BY <1>1, EnqueueShapes, DequeueShapes, AckShapes, NackOrDlqShapes, DrainShapes
<1>2. CASE UNCHANGED vars
  BY <1>2 DEF vars, procVars, boundVars, historyVars, Rests, Kept, Stored
<1> QED
  BY <1>1, <1>2, ReapShapes, EnvironmentShapes DEF Next

(***************************************************************************)
(* Locks                                                                   *)
(***************************************************************************)
LEMMA CarryingStep ==
  ASSUME TypeOK, Finite, Carrying, [Next]_vars
  PROVE  Carrying'
<1> SUFFICES ASSUME NEW p \in Procs
             PROVE  /\ pc'[p] \notin Writes => batch'[p].del = {} /\ batch'[p].put = {}
                    /\ pc'[p] \in Settling =>
                         batch'[p].del = Places(reg'[p].found) /\ batch'[p].put = {}
                    /\ pc'[p] \notin Settling => reg'[p].found = {}
  BY DEF Carrying
<1>k. CASE Kept(p)
  BY <1>k DEF Kept, Carrying
<1>n. Places({}) = {}
  BY DEF Places
<1>1. CASE Rests
  BY <1>1, <1>k, <1>n DEF Rests, Emptied, Writes, Settling
<1>2. ASSUME NEW o \in Procs, NEW S \in SUBSET db, Scans(o, S), o = p
      PROVE  /\ pc'[p] \notin Writes => batch'[p].del = {} /\ batch'[p].put = {}
             /\ pc'[p] \in Settling =>
                  batch'[p].del = Places(reg'[p].found) /\ batch'[p].put = {}
             /\ pc'[p] \notin Settling => reg'[p].found = {}
  <2>1. /\ pc'[p] \in Writes /\ pc[p] \notin Writes \ {"ack_read"}
        /\ batch'[p].del = batch[p].del \cup Places(S)
        /\ pc'[p] \in Settling => reg'[p].found = reg[p].found \cup S /\ batch'[p].put = {}
        /\ pc'[p] \notin Settling => reg'[p].found = {}
    BY <1>2 DEF Scans
  <2>2. batch[p].del = Places(reg[p].found)
    BY <2>1, <1>n DEF Carrying, Writes, Settling
  <2>3. Places(reg[p].found) \cup Places(S) = Places(reg[p].found \cup S)
    BY DEF Places
  <2> QED
    BY <2>1, <2>2, <2>3
<1>3. ASSUME NEW t \in Threads, EnqueueBuild(t), t = p
      PROVE  pc'[p] = "enq_write" /\ reg'[p].found = {}
  BY <1>3, EnqueueBuildFacts DEF Plans, Carrying, Settling
<1>4. ASSUME NEW o \in Procs, Leaves(o), o = p
      PROVE  /\ batch'[p].del = {} /\ batch'[p].put = {} /\ reg'[p].found = {}
             /\ pc'[p] \in {"enq_build", "idle"}
  BY <1>4 DEF Leaves, NoBatch, NoRegisters
<1>5. ASSUME NEW r, NEW x, Rewrites(r, x) \/ Drops(r)
      PROVE  Kept(p)
  BY <1>5 DEF Rewrites, Drops, Kept
<1>6. ASSUME NEW o \in Procs, Alone(o), o # p
      PROVE  Kept(p)
  BY <1>6 DEF Alone
<1>7. \A o \in Procs, S \in SUBSET db : Scans(o, S) => Alone(o)
  BY DEF Scans
<1>8. \A t \in Threads : EnqueueBuild(t) => Alone(t) /\ t \in Procs
  BY EnqueueBuildFacts DEF Plans, Procs
<1>9. \A o \in Procs : Commits(o) => Alone(o)
  BY DEF Commits
<1>10. \/ Rests
       \/ \E o \in Procs, S \in SUBSET db : Scans(o, S)
       \/ \E t \in Threads : EnqueueBuild(t)
       \/ \E o \in Procs : Commits(o) /\ Leaves(o)
       \/ \E r, x \in Rec : Rewrites(r, x)
       \/ \E r \in Rec : Drops(r)
  BY StepShapes
<1>11. CASE \E o \in Procs, S \in SUBSET db : Scans(o, S)
  BY <1>11, <1>k, <1>2, <1>6, <1>7
<1>12. CASE \E t \in Threads : EnqueueBuild(t)
  BY <1>12, <1>k, <1>3, <1>6, <1>8 DEF Writes, Settling
<1>13. CASE \E o \in Procs : Commits(o) /\ Leaves(o)
  BY <1>13, <1>k, <1>4, <1>6, <1>9 DEF Writes, Settling
<1> QED
  BY <1>k, <1>1, <1>5, <1>10, <1>11, <1>12, <1>13

\* A step of p keeps what others hold.
LEMMA HoldingOwn ==
  ASSUME TypeOK, Holding, NEW p \in Procs, Alone(p),
         p = Reaper => pc'[p] \in {"idle", "reap_write"},
         p \in Threads => /\ pc'[p] # "reap_write"
                          /\ pc'[p] \in QueueOps =>
                               queueLock'[reg'[p].q] = p /\ reg'[p].n \in 1 .. MaxBatch
  PROVE  Holding'
<1>1. ASSUME NEW t \in Threads, t # p
      PROVE  /\ pc'[t] # "reap_write"
             /\ pc'[t] \in QueueOps => queueLock'[reg'[t].q] = t /\ reg'[t].n \in 1 .. MaxBatch
  <2>1. t \in Procs /\ reg[t].q \in Queues
    BY DEF Procs, TypeOK, Registers
  <2>2. Kept(t)
    BY <1>1, <2>1 DEF Alone
  <2>3. queueLock'[reg[t].q] = t <=> queueLock[reg[t].q] = t
    BY <1>1, <2>1 DEF Alone
  <2> QED
    BY <2>2, <2>3 DEF Kept, Holding
<1>2. pc'[Reaper] \in {"idle", "reap_write"}
  BY DEF Alone, Kept, Holding, Procs
<1> QED
  BY <1>1, <1>2 DEF Holding

LEMMA HoldingStep ==
  ASSUME TypeOK, Finite, Carrying, Holding, [Next]_vars
  PROVE  Holding'
<1>r. ASSUME NEW p \in Procs, Alone(p), pc'[p] = "idle"
      PROVE  Holding'
  BY <1>r, HoldingOwn DEF QueueOps
<1>o. ASSUME NEW t \in Threads, Alone(t), pc'[t] \notin QueueOps \cup {"reap_write"}
      PROVE  Holding'
  BY <1>o, HoldingOwn, ProcessAssumption DEF Procs
<1>q. ASSUME NEW t \in Threads, Alone(t), pc[t] \in QueueOps, pc'[t] \in QueueOps,
             queueLock' = queueLock, reg'[t].q = reg[t].q, reg'[t].n = reg[t].n
      PROVE  Holding'
  <2>1. t \in Procs /\ t # Reaper
    BY ProcessAssumption DEF Procs
  <2>2. queueLock'[reg'[t].q] = t /\ reg'[t].n \in 1 .. MaxBatch /\ pc'[t] # "reap_write"
    BY <1>q DEF Holding, QueueOps
  <2> QED
    BY <1>q, <2>1, <2>2, HoldingOwn
<1>b. ASSUME NEW t \in Threads, NEW q \in Queues, NEW n \in 1 .. MaxBatch, Alone(t),
             queueLock' = [queueLock EXCEPT ![q] = t], reg'[t].q = q, reg'[t].n = n,
             pc'[t] \in QueueOps
      PROVE  Holding'
  <2>1. t \in Procs /\ t # Reaper
    BY ProcessAssumption DEF Procs
  <2>2. queueLock'[reg'[t].q] = t /\ reg'[t].n \in 1 .. MaxBatch /\ pc'[t] # "reap_write"
    BY <1>b DEF TypeOK, QueueOps
  <2> QED
    BY <1>b, <2>1, <2>2, HoldingOwn
<1>c. ASSUME NEW p \in Procs, Commits(p), Leaves(p)
      PROVE  Holding'
  <2>1. CASE pc[p] = "enq_evictwrite"
    <3>1. p # Reaper
      BY <2>1 DEF Holding
    <3> QED
      BY <1>c, <2>1, <3>1, <1>q DEF Commits, Leaves, Procs, QueueOps
  <2>2. CASE pc[p] # "enq_evictwrite"
    BY <1>c, <2>2, <1>r DEF Commits, Leaves
  <2> QED
    BY <2>1, <2>2
<1>1. ASSUME NEW t \in Threads, Enqueue(t) PROVE Holding'
  <2>1. ASSUME NEW q \in Queues, NEW n \in 1 .. MaxBatch, NEW pol \in Policies,
               EnqueueBegin(t, q, n, pol)
        PROVE  Holding'
    BY <2>1, <1>b, EnqueueBeginFacts DEF QueueOps
  <2>2. CASE EnqueueCountPending(t)
    BY <2>2, <1>q, EnqueueCountFacts DEF QueueOps
  <2>3. CASE QuotaFits(t)
    BY <2>3, <1>q, QuotaFitsFacts DEF QueueOps
  <2>4. CASE QuotaExceeded(t)
    BY <2>4, <1>r, GivesUp, ReturnFacts DEF Gives, Procs
  <2>5. CASE QuotaWait(t)
    BY <2>5, <1>q, QuotaWaitFacts DEF QueueOps
  <2>6. CASE QuotaEvict(t)
    BY <2>6, <1>q, QuotaEvictFacts DEF QueueOps
  <2>7. CASE EvictScan(t)
    BY <2>7, <1>q, EvictScanFacts DEF QueueOps, Plans
  <2>8. CASE EvictWrite(t) \/ EnqueueWrite(t)
    BY <2>8, <1>c, EvictWriteFacts, EnqueueWriteFacts DEF Procs
  <2>9. CASE EnqueueBuild(t)
    BY <2>9, <1>q, EnqueueBuildFacts DEF QueueOps, Plans
  <2> QED
    BY <1>1, <2>1, <2>2, <2>3, <2>4, <2>5, <2>6, <2>7, <2>8, <2>9 DEF Enqueue
<1>2. ASSUME NEW t \in Threads, Dequeue(t) PROVE Holding'
  <2>1. ASSUME NEW q \in Queues, NEW n \in 1 .. MaxBatch, NEW pol \in Policies,
               DequeueBegin(t, q, n, pol)
        PROVE  Holding'
    BY <2>1, <1>b, DequeueBeginFacts DEF QueueOps
  <2>2. ASSUME NEW q \in Queues, NEW n \in 1 .. MaxBatch, DequeueUncappedBegin(t, q, n)
        PROVE  Holding'
    BY <2>2, <1>b, DequeueUncappedFacts DEF QueueOps
  <2>3. CASE DequeueCount(t)
    <3>0. t \in Procs /\ t # Reaper /\ reg[t].n \in Nat /\ reg[t].pol.maxInflight \in Nat
      BY ProcessAssumption, PolicyAssumption DEF Procs, TypeOK, Registers, NamespacePolicy
    <3>1. /\ Alone(t) /\ pc[t] = "deq_count" /\ pc'[t] = "deq_scan" /\ queueLock' = queueLock
          /\ reg'[t].q = reg[t].q /\ reg'[t].n = Limit(t) /\ ~AtCap(t)
      BY <2>3, DequeueCountFacts
    <3> DEFINE c == Cardinality(Of(In("inflight"), reg[t].q))
    <3>2. c \in Nat
      BY CountType
    <3>3. /\ Limit(t) = IF reg[t].n <= reg[t].pol.maxInflight - c
                        THEN reg[t].n ELSE reg[t].pol.maxInflight - c
          /\ ~(c >= reg[t].pol.maxInflight)
      BY <3>1 DEF Limit, Room, AtCap
    <3> HIDE DEF c
    <3>4. queueLock[reg[t].q] = t /\ reg[t].n \in 1 .. MaxBatch
      BY <3>1 DEF Holding, QueueOps
    <3>5. Limit(t) \in 1 .. MaxBatch
      BY <3>0, <3>2, <3>3, <3>4, BoundAssumption
    <3> QED
      BY <3>0, <3>1, <3>4, <3>5, HoldingOwn
  <2>4. CASE DequeueAtCap(t) \/ DequeueEmpty(t)
    BY <2>4, <1>r, GivesUp, ReturnFacts DEF Gives, Procs
  <2>5. CASE DequeueScan(t)
    BY <2>5, <1>q, DequeueScanFacts DEF QueueOps, Plans
  <2>6. CASE DequeueWrite(t)
    BY <2>6, <1>c, DequeueWriteFacts DEF Procs
  <2> QED
    BY <1>2, <2>1, <2>2, <2>3, <2>4, <2>5, <2>6 DEF Dequeue
<1>3. ASSUME NEW t \in Threads, Ack(t) PROVE Holding'
  <2>1. ASSUME NEW K \in SUBSET handed, AckBegin(t, K) PROVE Holding'
    BY <2>1, <1>o, AckBeginFacts DEF QueueOps
  <2>2. CASE AckLock(t)
    BY <2>2, <1>o, AckLockFacts DEF QueueOps
  <2>3. CASE AckRead(t)
    BY <2>3, <1>o, AckReadFacts DEF QueueOps
  <2>4. CASE AckWrite(t) \/ CumulativeAckWrite(t)
    BY <2>4, <1>c, AckedFacts DEF Procs, AckWrite, CumulativeAckWrite
  <2>5. ASSUME NEW q \in Queues, NEW u \in 0 .. MaxSeq, CumulativeAckScan(t, q, u)
        PROVE  Holding'
    BY <2>5, <1>o, CumulativeAckScanFacts DEF QueueOps, Plans
  <2> QED
    BY <1>3, <2>1, <2>2, <2>3, <2>4, <2>5 DEF Ack
<1>4. ASSUME NEW t \in Threads, NackOrDlq(t) PROVE Holding'
  <2>1. ASSUME NEW k \in handed, NackRead(t, k) PROVE Holding'
    BY <2>1, <1>o, NackReadFacts DEF QueueOps, Plans
  <2>2. CASE NackWrite(t) \/ ReplayWrite(t)
    BY <2>2, <1>c, PutBackFacts DEF NackWrite, ReplayWrite, PutBacks, Procs
  <2>3. CASE PurgeScan(t)
    BY <2>3, <1>o, PurgeScanFacts DEF QueueOps, Plans
  <2>4. CASE PurgeWrite(t)
    BY <2>4, <1>c, PurgeWriteFacts DEF Procs
  <2>5. CASE ReplayScan(t)
    BY <2>5, <1>o, ReplayScanFacts DEF QueueOps, Plans
  <2>6. CASE ReplayAborts(t)
    BY <2>6 DEF ReplayAborts, Holding, lockVars, procVars
  <2> QED
    BY <1>4, <2>1, <2>2, <2>3, <2>4, <2>5, <2>6 DEF NackOrDlq
<1>5. CASE Reap
  <2>0. Reaper \in Procs /\ Reaper \notin Threads
    BY ProcessAssumption DEF Procs
  <2>1. ASSUME NEW q \in Reaped, ReapScan(q) PROVE Holding'
    <3>1. Alone(Reaper) /\ pc'[Reaper] = "reap_write"
      BY <2>1, ReapScanFacts, QueueAssumption DEF Plans
    <3> QED
      BY <2>0, <3>1, HoldingOwn
  <2>2. CASE ReapWrite
    BY <2>0, <2>2, <1>c, PutBackFacts DEF ReapWrite, PutBacks
  <2> QED
    BY <1>5, <2>1, <2>2 DEF Reap
<1>6. ASSUME NEW t \in Threads, Drain(t) PROVE Holding'
  <2>1. CASE DrainBegin(t)
    BY <2>1, <1>o, DrainBeginFacts DEF QueueOps
  <2>2. CASE DrainCountPending(t)
    BY <2>2, <1>o, DrainCountFacts DEF QueueOps
  <2>3. CASE DrainDone(t) \/ DrainTimeout(t)
    BY <2>3, <1>r, GivesUp, ReturnFacts DEF Gives, Procs
  <2>4. CASE DrainPoll(t)
    BY <2>4, <1>o, DrainPollFacts DEF QueueOps
  <2> QED
    BY <1>6, <2>1, <2>2, <2>3, <2>4 DEF Drain
<1>7. CASE Environment
  <2>2. ASSUME NEW r \in In("inflight"), Expire(r) PROVE Holding'
    BY <2>2 DEF Expire, Holding, lockVars, procVars
  <2>3. ASSUME NEW r \in db, Compact(r) \/ Corrupt(r) PROVE Holding'
    BY <2>3 DEF Compact, Corrupt, Holding, lockVars, procVars
  <2>4. ASSUME NEW p \in Procs, IoError(p) PROVE Holding'
    BY <2>4, <1>r, ReturnFacts DEF IoError
  <2>5. ASSUME NEW now \in 0 .. MaxSeq, Restart(now) PROVE Holding'
    <3>1. pc' = [p \in Procs |-> "idle"]
      BY <2>5 DEF Restart
    <3> QED
      BY <3>1 DEF Holding, Procs, QueueOps
  <2> QED
    BY <1>7, <2>2, <2>3, <2>4, <2>5 DEF Environment
<1>8. CASE UNCHANGED vars
  BY <1>8 DEF vars, lockVars, procVars, Holding
<1> QED
  BY <1>1, <1>2, <1>3, <1>4, <1>5, <1>6, <1>7, <1>8 DEF Next

\* ack_batch takes its locks in ascending order and keeps them to the commit.
AckAt(t) ==
  /\ pc[t] \notin AckOps => \A q \in Queues : ackLock[q] # t
  /\ pc[t] = "ack_lock" => \A q \in Queues : ackLock[q] = t => \A o \in reg[t].want : q < o
  /\ pc[t] \in AckOps => \A k \in reg[t].keys : k[1] \in reg[t].want \/ ackLock[k[1]] = t
  /\ pc[t] \in {"ack_read", "ack_write"} =>
       reg[t].want = {} /\ \A r \in reg[t].found : ackLock[r.q] = t

AckOrder == \A t \in Threads : AckAt(t)

LEMMA AckOwn ==
  ASSUME TypeOK, AckOrder, NEW p \in Procs, Alone(p), p \in Threads => AckAt(p)'
  PROVE  AckOrder'
<1> SUFFICES ASSUME NEW t \in Threads, t # p
             PROVE  AckAt(t)'
  BY DEF AckOrder
<1>1. t \in Procs /\ Kept(t)
  BY DEF Procs, Alone
<1>2. \A q \in Queues : ackLock'[q] = t <=> ackLock[q] = t
  BY DEF Alone
<1>3. /\ \A k \in reg[t].keys : k[1] \in Queues
      /\ \A r \in reg[t].found : r.q \in Queues
  BY <1>1 DEF TypeOK, Registers, Key, Rec
<1>4. AckAt(t)
  BY DEF AckOrder
<1> QED
  BY <1>1, <1>2, <1>3, <1>4 DEF AckAt, Kept

LEMMA AckOrderStep ==
  ASSUME TypeOK, Finite, Carrying, Holding, AckOrder, [Next]_vars
  PROVE  AckOrder'
<1>r. ASSUME NEW p \in Procs, Alone(p), pc'[p] = "idle",
             \A q \in Queues : ackLock'[q] # p \/ p \notin Threads
      PROVE  AckOrder'
  BY <1>r, AckOwn DEF AckAt, AckOps
<1>o. ASSUME NEW p \in Procs, Alone(p), pc'[p] \notin AckOps, pc[p] \notin AckOps, ackLock' = ackLock
      PROVE  AckOrder'
  <2>1. p \in Threads => \A q \in Queues : ackLock'[q] # p
    BY <1>o DEF AckOrder, AckAt
  <2>2. p \in Threads => AckAt(p)'
    BY <1>o, <2>1 DEF AckAt, AckOps
  <2> QED
    BY <1>o, <2>2, AckOwn
<1>c. ASSUME NEW p \in Procs, Commits(p), Leaves(p)
      PROVE  AckOrder'
  <2>1. CASE pc[p] = "enq_evictwrite"
    BY <1>c, <2>1, <1>o DEF Commits, Leaves, AckOps
  <2>2. CASE pc[p] # "enq_evictwrite"
    BY <1>c, <2>2, <1>r DEF Commits, Leaves
  <2> QED
    BY <2>1, <2>2
<1>1. ASSUME NEW t \in Threads, Enqueue(t) PROVE AckOrder'
  <2>0. t \in Procs
    BY DEF Procs
  <2>1. ASSUME NEW q \in Queues, NEW n \in 1 .. MaxBatch, NEW pol \in Policies,
               EnqueueBegin(t, q, n, pol)
        PROVE  AckOrder'
    BY <2>0, <2>1, <1>o, EnqueueBeginFacts DEF AckOps
  <2>2. CASE EnqueueCountPending(t)
    BY <2>0, <2>2, <1>o, EnqueueCountFacts DEF AckOps
  <2>3. CASE QuotaFits(t)
    BY <2>0, <2>3, <1>o, QuotaFitsFacts DEF AckOps
  <2>4. CASE QuotaExceeded(t)
    BY <2>0, <2>4, <1>r, GivesUp, ReturnFacts DEF Gives
  <2>5. CASE QuotaWait(t)
    BY <2>0, <2>5, <1>o, QuotaWaitFacts DEF AckOps
  <2>6. CASE QuotaEvict(t)
    BY <2>0, <2>6, <1>o, QuotaEvictFacts DEF AckOps
  <2>7. CASE EvictScan(t)
    BY <2>0, <2>7, <1>o, EvictScanFacts DEF AckOps, Plans
  <2>8. CASE EvictWrite(t) \/ EnqueueWrite(t)
    BY <2>0, <2>8, <1>c, EvictWriteFacts, EnqueueWriteFacts
  <2>9. CASE EnqueueBuild(t)
    BY <2>0, <2>9, <1>o, EnqueueBuildFacts DEF AckOps, Plans
  <2> QED
    BY <1>1, <2>1, <2>2, <2>3, <2>4, <2>5, <2>6, <2>7, <2>8, <2>9 DEF Enqueue
<1>2. ASSUME NEW t \in Threads, Dequeue(t) PROVE AckOrder'
  <2>0. t \in Procs
    BY DEF Procs
  <2>1. ASSUME NEW q \in Queues, NEW n \in 1 .. MaxBatch, NEW pol \in Policies,
               DequeueBegin(t, q, n, pol)
        PROVE  AckOrder'
    BY <2>0, <2>1, <1>o, DequeueBeginFacts DEF AckOps
  <2>2. ASSUME NEW q \in Queues, NEW n \in 1 .. MaxBatch, DequeueUncappedBegin(t, q, n)
        PROVE  AckOrder'
    BY <2>0, <2>2, <1>o, DequeueUncappedFacts DEF AckOps
  <2>3. CASE DequeueCount(t)
    BY <2>0, <2>3, <1>o, DequeueCountFacts DEF AckOps
  <2>4. CASE DequeueAtCap(t) \/ DequeueEmpty(t)
    BY <2>0, <2>4, <1>r, GivesUp, ReturnFacts DEF Gives
  <2>5. CASE DequeueScan(t)
    BY <2>0, <2>5, <1>o, DequeueScanFacts DEF AckOps, Plans
  <2>6. CASE DequeueWrite(t)
    BY <2>0, <2>6, <1>c, DequeueWriteFacts
  <2> QED
    BY <1>2, <2>1, <2>2, <2>3, <2>4, <2>5, <2>6 DEF Dequeue
<1>3. ASSUME NEW t \in Threads, Ack(t) PROVE AckOrder'
  <2>0. t \in Procs /\ AckAt(t)
    BY DEF Procs, AckOrder
  <2>t. /\ \A k \in reg[t].keys : k[1] \in Queues
        /\ \A r \in reg[t].found : r.q \in Queues
        /\ reg[t].want \subseteq Queues
    BY <2>0 DEF TypeOK, Registers, Key, Rec
  <2>1. ASSUME NEW K \in SUBSET handed, AckBegin(t, K) PROVE AckOrder'
    <3>1. /\ Alone(t) /\ pc[t] = "idle" /\ pc'[t] = "ack_lock"
          /\ reg'[t].keys = K /\ reg'[t].want = QueuesOf(K) /\ ackLock' = ackLock
      BY <2>1, AckBeginFacts
    <3>2. \A q \in Queues : ackLock[q] # t
      BY <2>0, <3>1 DEF AckAt, AckOps
    <3>3. \A k \in K : k[1] \in QueuesOf(K)
      BY DEF QueuesOf
    <3>4. AckAt(t)'
      BY <3>1, <3>2, <3>3 DEF AckAt, AckOps
    <3> QED
      BY <2>0, <3>1, <3>4, AckOwn
  <2>2. CASE AckLock(t)
    <3>1. /\ Alone(t) /\ pc[t] = "ack_lock" /\ pc'[t] \in {"ack_lock", "ack_read"}
          /\ reg'[t].keys = reg[t].keys /\ reg'[t].found = reg[t].found
      BY <2>2, AckLockFacts
    <3>2. PICK q \in Queues :
            /\ NextLock(t, q) /\ ackLock[q] = Free /\ ackLock' = [ackLock EXCEPT ![q] = t]
            /\ reg'[t].want = reg[t].want \ {q}
            /\ pc'[t] = "ack_read" => reg[t].want = {q}
      BY <2>2, AckLockFacts
    <3>3. reg[t].found = {}
      BY <2>0, <3>1 DEF Carrying, Settling
    <3>4. \A u \in Queues : ackLock'[u] = IF u = q THEN t ELSE ackLock[u]
      BY <3>2 DEF TypeOK
    <3>5. \A u \in Queues : ackLock'[u] = t => \A o \in reg'[t].want : u < o
      <4> SUFFICES ASSUME NEW u \in Queues, ackLock'[u] = t, NEW o \in reg'[t].want
                   PROVE  u < o
        OBVIOUS
      <4>1. o \in reg[t].want /\ o # q /\ q <= o /\ o \in Nat /\ q \in Nat /\ u \in Nat
        BY <2>t, <3>2, QueueAssumption DEF NextLock
      <4>2. u # q => u < o
        BY <2>0, <3>1, <3>4, <4>1 DEF AckAt
      <4> QED
        BY <4>1, <4>2
    <3>6. \A k \in reg'[t].keys : k[1] \in reg'[t].want \/ ackLock'[k[1]] = t
      BY <2>0, <2>t, <3>1, <3>2, <3>4 DEF AckAt, AckOps
    <3>7. AckAt(t)'
      BY <3>1, <3>2, <3>3, <3>5, <3>6 DEF AckAt, AckOps
    <3> QED
      BY <2>0, <3>1, <3>7, AckOwn
  <2>3. CASE AckRead(t)
    <3>1. /\ Alone(t) /\ ackLock' = ackLock
          /\ pc[t] = "ack_read" /\ pc'[t] \in {"ack_read", "ack_write"}
          /\ reg'[t].want = reg[t].want
      BY <2>3, AckReadFacts
    <3>2. PICK k \in reg[t].keys : /\ reg'[t].keys = reg[t].keys \ {k}
                                   /\ reg'[t].found = reg[t].found \cup Hit(k)
      BY <2>3, AckReadFacts
    <3>3. ackLock[k[1]] = t /\ reg[t].want = {}
      BY <2>0, <3>1 DEF AckAt, AckOps
    <3>4. \A r \in Hit(k) : r.q = k[1]
      BY DEF Hit, KeyOf
    <3>5. AckAt(t)'
      BY <2>0, <3>1, <3>2, <3>3, <3>4 DEF AckAt, AckOps
    <3> QED
      BY <2>0, <3>1, <3>5, AckOwn
  <2>4. CASE AckWrite(t) \/ CumulativeAckWrite(t)
    BY <2>0, <2>4, <1>c, AckedFacts DEF AckWrite, CumulativeAckWrite
  <2>5. ASSUME NEW q \in Queues, NEW u \in 0 .. MaxSeq, CumulativeAckScan(t, q, u)
        PROVE  AckOrder'
    BY <2>0, <2>5, <1>o, CumulativeAckScanFacts DEF AckOps, Plans
  <2> QED
    BY <1>3, <2>1, <2>2, <2>3, <2>4, <2>5 DEF Ack
<1>4. ASSUME NEW t \in Threads, NackOrDlq(t) PROVE AckOrder'
  <2>0. t \in Procs
    BY DEF Procs
  <2>1. ASSUME NEW k \in handed, NackRead(t, k) PROVE AckOrder'
    BY <2>0, <2>1, <1>o, NackReadFacts DEF AckOps, Plans
  <2>2. CASE NackWrite(t) \/ ReplayWrite(t)
    BY <2>0, <2>2, <1>c, PutBackFacts DEF NackWrite, ReplayWrite, PutBacks
  <2>3. CASE PurgeScan(t)
    BY <2>0, <2>3, <1>o, PurgeScanFacts DEF AckOps, Plans
  <2>4. CASE PurgeWrite(t)
    BY <2>0, <2>4, <1>c, PurgeWriteFacts
  <2>5. CASE ReplayScan(t)
    BY <2>0, <2>5, <1>o, ReplayScanFacts DEF AckOps, Plans
  <2>6. CASE ReplayAborts(t)
    BY <2>6 DEF ReplayAborts, AckOrder, AckAt, lockVars, procVars
  <2> QED
    BY <1>4, <2>1, <2>2, <2>3, <2>4, <2>5, <2>6 DEF NackOrDlq
<1>5. CASE Reap
  <2>0. Reaper \in Procs
    BY DEF Procs
  <2>1. ASSUME NEW q \in Reaped, ReapScan(q) PROVE AckOrder'
    BY <2>0, <2>1, <1>o, ReapScanFacts, QueueAssumption DEF AckOps, Plans
  <2>2. CASE ReapWrite
    BY <2>0, <2>2, <1>c, PutBackFacts DEF ReapWrite, PutBacks
  <2> QED
    BY <1>5, <2>1, <2>2 DEF Reap
<1>6. ASSUME NEW t \in Threads, Drain(t) PROVE AckOrder'
  <2>0. t \in Procs
    BY DEF Procs
  <2>1. CASE DrainBegin(t)
    BY <2>0, <2>1, <1>o, DrainBeginFacts DEF AckOps
  <2>2. CASE DrainCountPending(t)
    BY <2>0, <2>2, <1>o, DrainCountFacts DEF AckOps
  <2>3. CASE DrainDone(t) \/ DrainTimeout(t)
    BY <2>0, <2>3, <1>r, GivesUp, ReturnFacts DEF Gives
  <2>4. CASE DrainPoll(t)
    BY <2>0, <2>4, <1>o, DrainPollFacts DEF AckOps
  <2> QED
    BY <1>6, <2>1, <2>2, <2>3, <2>4 DEF Drain
<1>7. CASE Environment
  <2>1. ASSUME NEW r \in In("inflight"), Expire(r) PROVE AckOrder'
    BY <2>1 DEF Expire, AckOrder, AckAt, lockVars, procVars
  <2>2. ASSUME NEW r \in db, Compact(r) \/ Corrupt(r) PROVE AckOrder'
    BY <2>2 DEF Compact, Corrupt, AckOrder, AckAt, lockVars, procVars
  <2>3. ASSUME NEW p \in Procs, IoError(p) PROVE AckOrder'
    BY <2>3, <1>r, ReturnFacts DEF IoError
  <2>4. ASSUME NEW now \in 0 .. MaxSeq, Restart(now) PROVE AckOrder'
    <3>1. pc' = [p \in Procs |-> "idle"] /\ ackLock' = [q \in Queues |-> Free]
      BY <2>4 DEF Restart
    <3> QED
      BY <3>1, ProcessAssumption DEF AckOrder, AckAt, Procs, AckOps
  <2> QED
    BY <1>7, <2>1, <2>2, <2>3, <2>4 DEF Environment
<1>8. CASE UNCHANGED vars
  BY <1>8 DEF vars, lockVars, procVars, AckOrder, AckAt
<1> QED
  BY <1>1, <1>2, <1>3, <1>4, <1>5, <1>6, <1>7, <1>8 DEF Next

LockInv == TypeOK /\ Finite /\ Carrying /\ Holding /\ AckOrder

LEMMA LockInit == Init => LockInv
<1> SUFFICES ASSUME Init PROVE LockInv
  OBVIOUS
<1>1. /\ pc = [p \in Procs |-> "idle"] /\ reg = [p \in Procs |-> NoRegisters]
      /\ batch = [p \in Procs |-> NoBatch] /\ ackLock = [q \in Queues |-> Free]
  BY DEF Init
<1>2. \A p \in Procs : /\ pc[p] = "idle" /\ reg[p].found = {}
                       /\ batch[p].del = {} /\ batch[p].put = {}
  BY <1>1 DEF NoRegisters, NoBatch
<1>3. Carrying
  BY <1>2 DEF Carrying, Settling
<1>4. Holding
  BY <1>2 DEF Holding, Procs, QueueOps
<1>5. AckOrder
  BY <1>1, <1>2, ProcessAssumption DEF AckOrder, AckAt, Procs, AckOps
<1> QED
  BY <1>3, <1>4, <1>5, TypeInit DEF LockInv

LEMMA LockStep ==
  ASSUME LockInv, [Next]_vars
  PROVE  LockInv'
  BY TypeStep, CarryingStep, HoldingStep, AckOrderStep DEF LockInv

\* ack_batch cannot deadlock: a thread that waits for a lock holds only locks
\* of smaller queues, so no two threads wait for each other, however many
\* threads acknowledge keys of however many queues at once.
THEOREM AcksNeverDeadlock == Spec => []NoCircularWait
<1>1. LockInv => NoCircularWait
  <2> SUFFICES ASSUME LockInv, NEW s \in Threads, NEW t \in Threads,
                      NEW q \in Queues, NEW o \in Queues,
                      pc[s] = "ack_lock", NextLock(s, q), ackLock[q] = t,
                      pc[t] = "ack_lock", NextLock(t, o), ackLock[o] = s
               PROVE  FALSE
    BY DEF NoCircularWait
  <2>1. AckAt(s) /\ AckAt(t)
    BY DEF LockInv, AckOrder
  <2>2. q < o /\ o < q
    BY <2>1 DEF AckAt, NextLock
  <2> QED
    BY <2>2, QueueAssumption
<1> QED
  BY <1>1, LockInit, LockStep, PTL DEF Spec

(***************************************************************************)
(* What the batches hold                                                   *)
(***************************************************************************)
\* What a batch puts and deletes, by the commit it is on its way to.
ContentsOf(p) ==
  /\ \A x \in batch[p].put : x.cf = "inflight" => pc[p] = "deq_write"
  /\ pc[p] \in {"deq_write", "enq_write"} => \A x \in batch[p].put : x.q = reg[p].q
  /\ pc[p] = "enq_write" => batch[p].del = {} /\ \A x \in batch[p].put : x.cf = "pending"
  /\ pc[p] = "deq_write" =>
       /\ \A x \in batch[p].put : x.cf # "pending"
       /\ \A d \in batch[p].del : d[1] = "pending" /\ d[2] = reg[p].q
  /\ pc[p] = "reap_write" => \A d \in batch[p].del : d[1] = "inflight"
  /\ pc[p] = "enq_evictwrite" => \A r \in reg[p].found : r.cf = "pending" /\ r.q = reg[p].q
  /\ pc[p] \in {"ack_read", "ack_write", "cum_write"} => \A r \in reg[p].found : r.cf = "inflight"

Contents == \A p \in Procs : ContentsOf(p)

\* What becomes of the fields of a record that a scan moves.
LEMMA MovedFields ==
  ASSUME NEW p \in Procs, NEW r \in Rec, NEW x, Moved(p, r, x)
  PROVE  /\ x \in Rec /\ x.q = r.q /\ x.id = r.id /\ r.cf # x.cf
         /\ x.cf = "inflight" <=> (r.cf = "pending" /\ r.kind # "garbage")
         /\ x.cf = "inflight" => /\ pc'[p] = "deq_write" /\ x.attempts = r.attempts + 1
                                 /\ KeyOf(x) = KeyOf(r)
         /\ x.cf = "pending" => pc'[p] \in PutBacks
         /\ x.cf = "dlq" => \/ x.kind = "poison"
                            \/ Exhausted(r) /\ r.cf = "inflight" /\ r.kind = x.kind /\ x.attempts = r.attempts
         /\ x.cf = "pending" => \/ x.attempts = 0
                                \/ x.attempts = r.attempts /\ x.kind = r.kind /\ r.cf = "inflight"
<1>0. /\ r.q \in Queues /\ r.attempts \in Nat /\ r.cf \in CFs /\ r = [r EXCEPT !.q = r.q]
  BY DEF Rec
<1>1. CASE pc'[p] = "deq_write" /\ r.cf = "pending" /\ r.kind # "garbage" /\ x = Delivered(r)
  <2>1. x \in Rec /\ KeyOf(x) = KeyOf(r)
    BY <1>1, ConstructorType, SameTask
  <2>2. /\ x.cf = "inflight" /\ x.q = r.q /\ x.id = r.id /\ x.attempts = r.attempts + 1
    BY <1>1 DEF Delivered, Rec
  <2> QED
    BY <1>1, <2>1, <2>2
<1>2. CASE r.cf # "dlq" /\ r.kind = "garbage" /\ x = Poison(r)
  <2>1. x \in Rec
    BY <1>2, ConstructorType
  <2>2. /\ x.cf = "dlq" /\ x.q = r.q /\ x.id = r.id /\ x.kind = "poison"
    BY <1>2 DEF Poison, Rec
  <2> QED
    BY <1>2, <2>1, <2>2
<1>3. CASE /\ pc'[p] = "nack_write" /\ r.cf = "inflight" /\ r.kind # "garbage"
           /\ Exhausted(r) /\ x = [r EXCEPT !.cf = "dlq"]
  <2>1. x \in Rec
    BY <1>3, ConstructorType
  <2>2. /\ x.cf = "dlq" /\ x.q = r.q /\ x.id = r.id /\ x.kind = r.kind /\ x.attempts = r.attempts
    BY <1>3 DEF Rec
  <2> QED
    BY <1>3, <2>1, <2>2
<1>4. CASE /\ pc'[p] \in {"nack_write", "reap_write"} /\ r.cf = "inflight" /\ r.kind # "garbage"
           /\ \E s \in Nat : x = Retried(r, s)
  <2>1. PICK s \in Nat : x = Retried(r, s)
    BY <1>4
  <2>2. x \in Rec
    BY <2>1, ConstructorType
  <2>3. /\ x.cf = "pending" /\ x.q = r.q /\ x.id = r.id /\ x.kind = r.kind /\ x.attempts = r.attempts
    BY <2>1 DEF Retried, Rec
  <2> QED
    BY <1>4, <2>2, <2>3 DEF PutBacks
<1>5. CASE /\ pc'[p] = "replay_write" /\ r.cf = "dlq" /\ r.kind # "garbage"
           /\ \E s \in Nat : x = Replayed(r, s)
  <2>1. PICK s \in Nat : x = Replayed(r, s)
    BY <1>5
  <2>2. x \in Rec
    BY <2>1, ConstructorType
  <2>3. /\ x.cf = "pending" /\ x.q = r.q /\ x.id = r.id /\ x.kind = r.kind /\ x.attempts = 0
    BY <2>1 DEF Replayed, Rec
  <2> QED
    BY <1>5, <2>2, <2>3 DEF PutBacks
<1> QED
  BY <1>1, <1>2, <1>3, <1>4, <1>5 DEF Moved

LEMMA ContentsStep ==
  ASSUME TypeOK, Finite, Carrying, Contents, [Next]_vars
  PROVE  Contents'
<1> SUFFICES ASSUME NEW p \in Procs PROVE ContentsOf(p)'
  BY DEF Contents
<1>k. CASE Kept(p)
  BY <1>k DEF Kept, Contents, ContentsOf
<1>1. CASE Rests
  <2>1. Emptied(p) => ContentsOf(p)'
    BY DEF Emptied, ContentsOf, Writes, Settling
  <2> QED
    BY <1>1, <1>k, <2>1 DEF Rests
<1>2. ASSUME NEW o \in Procs, NEW S \in SUBSET db, Scans(o, S) PROVE ContentsOf(p)'
  <2>1. CASE o # p
    BY <1>2, <2>1, <1>k DEF Scans, Alone
  <2>2. CASE o = p
    <3>1. /\ pc'[p] \in Writes \ {"enq_write"} /\ pc[p] \notin Writes \ {"ack_read"}
          /\ \A r \in S : Finds(p, r)
          /\ pc'[p] \in {"enq_evictwrite", "deq_write"} => reg'[p].q = reg[p].q
          /\ batch'[p].del = batch[p].del \cup Places(S)
          /\ pc[p] = "ack_read" <=> pc'[p] \in {"ack_read", "ack_write"}
      BY <1>2, <2>2 DEF Scans
    <3>2. S \subseteq Rec
      BY DEF TypeOK
    <3>3. CASE pc'[p] \in Settling
      <4>1. reg'[p].found = reg[p].found \cup S /\ batch'[p].put = {}
        BY <1>2, <2>2, <3>3 DEF Scans
      <4>2. pc[p] # "ack_read" => reg[p].found = {}
        BY <3>1 DEF Carrying, Writes
      <4>3. pc[p] = "ack_read" => \A r \in reg[p].found : r.cf = "inflight"
        BY DEF Contents, ContentsOf
      <4>4. pc'[p] \in {"ack_read", "ack_write", "cum_write"} => \A r \in reg'[p].found : r.cf = "inflight"
        BY <3>1, <4>1, <4>2, <4>3 DEF Finds
      <4>5. pc'[p] = "enq_evictwrite" => \A r \in reg'[p].found : r.cf = "pending" /\ r.q = reg'[p].q
        BY <3>1, <4>1, <4>2 DEF Finds
      <4>6. pc'[p] \notin {"deq_write", "enq_write", "reap_write"}
        BY <3>3 DEF Settling
      <4> QED
        BY <4>1, <4>4, <4>5, <4>6 DEF ContentsOf
    <3>4. CASE pc'[p] \notin Settling
      <4>1. \A x \in batch'[p].put : \E r \in S : Moved(p, r, x)
        BY <1>2, <2>2, <3>4 DEF Scans
      <4>2. \A x \in batch'[p].put : \E r \in S :
              /\ x.q = r.q /\ (x.cf = "inflight" => pc'[p] = "deq_write")
              /\ (x.cf = "pending" => pc'[p] \in PutBacks)
        BY <3>2, <4>1, MovedFields
      <4>3. batch[p].del = {}
        BY <3>1, <3>4 DEF Carrying, Settling
      <4>4. pc'[p] = "deq_write" => \A r \in S : r.cf = "pending" /\ r.q = reg'[p].q
        BY <3>1 DEF Finds
      <4>5. pc'[p] = "deq_write" => \A d \in batch'[p].del : d[1] = "pending" /\ d[2] = reg'[p].q
        BY <3>1, <4>3, <4>4 DEF Places, Place
      <4>7. pc'[p] = "reap_write" => \A d \in batch'[p].del : d[1] = "inflight"
        BY <3>1, <4>3 DEF Finds, Places, Place
      <4>6. pc'[p] \notin {"enq_write", "enq_evictwrite", "ack_read", "ack_write", "cum_write"}
        BY <3>1, <3>4 DEF Settling
      <4> QED
        BY <4>2, <4>4, <4>5, <4>6, <4>7 DEF ContentsOf, PutBacks
    <3> QED
      BY <3>3, <3>4
  <2> QED
    BY <2>1, <2>2
<1>3. ASSUME NEW t \in Threads, EnqueueBuild(t) PROVE ContentsOf(p)'
  <2>0. t \in Procs
    BY DEF Procs
  <2>1. /\ Alone(t) /\ batch'[t].del = Places({}) /\ batch'[t].put = Fresh(t)
        /\ pc'[t] = "enq_write" /\ reg'[t].q = reg[t].q
    BY <1>3, EnqueueBuildFacts DEF Plans
  <2>2. CASE t # p
    BY <2>0, <2>1, <2>2, <1>k DEF Alone
  <2>3. CASE t = p
    <3>1. Places({}) = {} /\ \A x \in Fresh(p) : x.cf = "pending" /\ x.q = reg[p].q
      BY DEF Places, Fresh
    <3> QED
      BY <2>1, <2>3, <3>1 DEF ContentsOf
  <2> QED
    BY <2>2, <2>3
<1>4. ASSUME NEW o \in Procs, Commits(o), Leaves(o) PROVE ContentsOf(p)'
  <2>1. CASE o # p
    BY <1>4, <2>1, <1>k DEF Commits, Alone
  <2>2. CASE o = p
    BY <1>4, <2>2 DEF Leaves, ContentsOf, NoBatch
  <2> QED
    BY <2>1, <2>2
<1>5. ASSUME NEW r, NEW x, Rewrites(r, x) \/ Drops(r) PROVE ContentsOf(p)'
  BY <1>5, <1>k DEF Rewrites, Drops, Kept
<1> QED
  BY <1>1, <1>2, <1>3, <1>4, <1>5, StepShapes

(***************************************************************************)
(* Attempts                                                                *)
(***************************************************************************)
\* The attempts of a record are deliveries; a dead letter had enough of them.
Earned(r) ==
  /\ r.kind = "task" \/ (r.kind = "poison" /\ r.cf # "dlq") => r.attempts <= deliveries[r.id]
  /\ r.kind = "task" /\ r.cf = "dlq" => MaxAttempts <= deliveries[r.id]

\* The delivery a batch is about to make is charged already.
Charging(x) == IF x.cf = "inflight" THEN x.attempts <= deliveries[x.id] + 1 ELSE Earned(x)

Charged ==
  /\ \A r \in db : Earned(r)
  /\ \A p \in Procs : \A x \in batch[p].put : Charging(x)

LEMMA ChargedStep ==
  ASSUME TypeOK, TypeOK', Finite, Carrying, Contents, Charged, [Next]_vars
  PROVE  Charged'
<1>t. /\ \A p \in Procs : batch[p].put \subseteq Rec
      /\ db \subseteq Rec
      /\ \A r \in Rec : /\ r.id \in Ids /\ r.attempts \in Nat /\ r.cf \in CFs
                        /\ r.kind \in {"task", "poison", "garbage"}
                        /\ deliveries[r.id] \in Nat /\ deliveries'[r.id] \in Nat
  BY DEF TypeOK, Batch, Rec
<1>k. ASSUME deliveries' = deliveries
      PROVE  \A x : (Charging(x)' <=> Charging(x)) /\ (Earned(x)' <=> Earned(x))
  BY <1>k DEF Charging, Earned
<1>p. ASSUME NEW p \in Procs, Alone(p), deliveries' = deliveries, \A x \in batch'[p].put : Charging(x)
      PROVE  \A o \in Procs : \A x \in batch'[o].put : Charging(x)'
  BY <1>p, <1>k DEF Charged, Alone, Kept
<1>1. CASE Rests
  <2>1. db' = db /\ deliveries' = deliveries
    BY <1>1 DEF Rests, Stored
  <2>2. \A p \in Procs : batch'[p].put \subseteq batch[p].put
    BY <1>1 DEF Rests, Kept, Emptied
  <2> QED
    BY <2>1, <2>2, <1>k DEF Charged
<1>2. ASSUME NEW p \in Procs, NEW S \in SUBSET db, Scans(p, S) PROVE Charged'
  <2>1. db' = db /\ deliveries' = deliveries /\ Alone(p) /\ S \subseteq db
    BY <1>2 DEF Scans, Stored
  <2>2. ASSUME NEW x \in batch'[p].put PROVE Charging(x)
    <3>1. pc'[p] \notin Settling
      BY <1>2, <2>2 DEF Scans
    <3>2. PICK r \in S : Moved(p, r, x)
      BY <1>2, <3>1 DEF Scans
    <3>3. r \in Rec /\ Earned(r) /\ x \in Rec /\ x.id = r.id
      BY <1>t, <2>1, <3>2, MovedFields DEF Charged
    <3>4. /\ x.cf = "inflight" => /\ r.cf = "pending" /\ r.kind # "garbage"
                                  /\ x.attempts = r.attempts + 1
          /\ x.cf = "dlq" => \/ x.kind = "poison"
                             \/ Exhausted(r) /\ r.cf = "inflight" /\ r.kind = x.kind /\ x.attempts = r.attempts
          /\ x.cf = "pending" => \/ x.attempts = 0
                                 \/ x.attempts = r.attempts /\ x.kind = r.kind /\ r.cf = "inflight"
      BY <3>2, <3>3, MovedFields
    <3>5. x.cf \in {"pending", "inflight", "dlq"}
      BY <1>t, <3>3 DEF CFs
    <3>6. CASE x.cf = "inflight"
      <4>1. r.attempts <= deliveries[r.id]
        BY <1>t, <3>3, <3>4, <3>6 DEF Earned
      <4> QED
        BY <1>t, <3>3, <3>4, <3>6, <4>1 DEF Charging
    <3>7. CASE x.cf = "dlq"
      BY <1>t, <3>3, <3>4, <3>7, BoundAssumption DEF Charging, Earned, Exhausted
    <3>8. CASE x.cf = "pending"
      BY <1>t, <3>3, <3>4, <3>8 DEF Charging, Earned
    <3> QED
      BY <3>5, <3>6, <3>7, <3>8
  <2>3. \A o \in Procs : \A x \in batch'[o].put : Charging(x)'
    BY <2>1, <2>2, <1>p
  <2> QED
    BY <2>1, <2>3, <1>k DEF Charged
<1>3. ASSUME NEW t \in Threads, EnqueueBuild(t) PROVE Charged'
  <2>1. /\ Alone(t) /\ batch'[t].put = Fresh(t) /\ t \in Procs /\ db' = db /\ deliveries' = deliveries
    BY <1>3, EnqueueBuildFacts DEF Plans, Stored, Procs
  <2>2. \A x \in Fresh(t) : x.cf = "pending" /\ x.attempts = 0
    BY DEF Fresh
  <2>3. Fresh(t) \subseteq Rec
    BY <2>1 DEF TypeOK, Batch
  <2>4. \A x \in Fresh(t) : Charging(x)
    BY <1>t, <2>2, <2>3 DEF Charging, Earned
  <2>5. \A o \in Procs : \A x \in batch'[o].put : Charging(x)'
    BY <2>1, <2>4, <1>p
  <2> QED
    BY <2>1, <2>5, <1>k DEF Charged
<1>4. ASSUME NEW p \in Procs, Commits(p), Leaves(p) PROVE Charged'
  <2>1. db' \subseteq db \cup batch[p].put
    BY <1>4 DEF Commits, Applied
  <2>2. \A i \in Ids : deliveries[i] <= deliveries'[i]
    <3>1. CASE pc[p] = "deq_write"
      <4> DEFINE c(i) == Cardinality({r \in {x \in batch[p].put : x.cf = "inflight"} : r.id = i})
      <4>1. \A i \in Ids : deliveries'[i] = deliveries[i] + c(i)
        BY <1>4, <3>1 DEF Commits
      <4>2. \A i \in Ids : c(i) \in Nat
        BY PartFinite DEF Finite
      <4> HIDE DEF c
      <4> QED
        BY <4>1, <4>2 DEF TypeOK
    <3>2. CASE pc[p] # "deq_write"
      BY <1>4, <3>2 DEF Commits, TypeOK
    <3> QED
      BY <3>1, <3>2
  <2>3. ASSUME NEW x \in batch[p].put, x.cf = "inflight" PROVE deliveries[x.id] + 1 <= deliveries'[x.id]
    <3>1. pc[p] = "deq_write" /\ x.id \in Ids
      BY <1>t, <2>3 DEF Contents, ContentsOf
    <3> DEFINE D == {r \in {y \in batch[p].put : y.cf = "inflight"} : r.id = x.id}
    <3>2. deliveries'[x.id] = deliveries[x.id] + Cardinality(D)
      BY <1>4, <3>1 DEF Commits
    <3>3. x \in D /\ IsFiniteSet(D) /\ Cardinality(D) \in Nat
      BY <2>3, PartFinite DEF Finite
    <3>4. Cardinality(D) # 0
      BY <3>3, FS_EmptySet
    <3> HIDE DEF D
    <3> QED
      BY <3>1, <3>2, <3>3, <3>4 DEF TypeOK
  <2>4. \A r \in Rec : Earned(r) => Earned(r)'
    BY <1>t, <2>2, BoundAssumption DEF Earned
  <2>5. \A x \in Rec : Charging(x) => Charging(x)'
    BY <1>t, <2>2, <2>4 DEF Charging
  <2>6. ASSUME NEW x \in batch[p].put PROVE Earned(x)'
    <3>1. x \in Rec /\ Charging(x)
      BY <1>t DEF Charged
    <3>2. CASE x.cf = "inflight"
      BY <1>t, <2>3, <3>1, <3>2 DEF Charging, Earned
    <3>3. CASE x.cf # "inflight"
      BY <2>4, <3>1, <3>3 DEF Charging
    <3> QED
      BY <3>2, <3>3
  <2>7. \A r \in db' : Earned(r)'
    BY <1>t, <2>1, <2>4, <2>6 DEF Charged
  <2>8. \A o \in Procs : batch'[o].put \subseteq batch[o].put
    BY <1>4 DEF Commits, Leaves, Alone, Kept, NoBatch
  <2>9. \A o \in Procs : \A x \in batch'[o].put : Charging(x)'
    BY <1>t, <2>5, <2>8 DEF Charged
  <2> QED
    BY <2>7, <2>9 DEF Charged
<1>5. ASSUME NEW r \in Rec, NEW x \in Rec, Rewrites(r, x) PROVE Charged'
  <2>1. r \in db /\ db' = (db \ {r}) \cup {x} /\ batch' = batch /\ deliveries' = deliveries
        /\ x.id = r.id /\ x.attempts = r.attempts /\ x.cf = r.cf /\ x.kind \in {r.kind, "garbage"}
    BY <1>5 DEF Rewrites
  <2>2. Earned(x)
    BY <2>1 DEF Charged, Earned
  <2> QED
    BY <2>1, <2>2, <1>k DEF Charged
<1>6. ASSUME NEW r \in Rec, Drops(r) PROVE Charged'
  <2>1. db' \subseteq db /\ batch' = batch /\ deliveries' = deliveries
    BY <1>6 DEF Drops
  <2> QED
    BY <2>1, <1>k DEF Charged
<1> QED
  BY <1>1, <1>2, <1>3, <1>4, <1>5, <1>6, StepShapes

ChargeInv == TypeOK /\ Finite /\ Carrying /\ Contents /\ Charged

LEMMA ChargeInit == Init => ChargeInv
<1> SUFFICES ASSUME Init PROVE ChargeInv
  OBVIOUS
<1>1. \A p \in Procs : pc[p] = "idle" /\ batch[p].put = {}
  BY DEF Init, NoBatch
<1>2. Contents
  BY <1>1 DEF Contents, ContentsOf
<1>3. Charged
  BY <1>1 DEF Charged, Init
<1> QED
  BY <1>2, <1>3, LockInit, TypeInit DEF ChargeInv, LockInv

LEMMA ChargeStep ==
  ASSUME ChargeInv, [Next]_vars
  PROVE  ChargeInv'
  BY TypeStep, CarryingStep, ContentsStep, ChargedStep DEF ChargeInv

\* A task that nack dead-letters had its MaxAttempts deliveries, whatever was
\* nacked, reaped, replayed and redelivered in between.
THEOREM DeadLettersEarned == Spec => []DeadLetterEarned
<1>1. ChargeInv => DeadLetterEarned
  <2> SUFFICES ASSUME ChargeInv, NEW r \in db, r.cf = "dlq", r.kind = "task"
               PROVE  deliveries[r.id] >= MaxAttempts
    BY DEF DeadLetterEarned, In
  <2>1. MaxAttempts <= deliveries[r.id]
    BY DEF ChargeInv, Charged, Earned
  <2>2. deliveries[r.id] \in Nat
    BY DEF ChargeInv, TypeOK, Rec
  <2> QED
    BY <2>1, <2>2, BoundAssumption
<1> QED
  BY <1>1, ChargeInit, ChargeStep, PTL DEF Spec

\* No attempt is charged to a stored task that was not a delivery.
THEOREM AttemptsAreDeliveries == Spec => []AttemptsEarned
<1>1. ChargeInv => AttemptsEarned
  BY DEF ChargeInv, Charged, Earned, AttemptsEarned
<1> QED
  BY <1>1, ChargeInit, ChargeStep, PTL DEF Spec

(***************************************************************************)
(* Ids, and the drain                                                      *)
(***************************************************************************)
\* Whatever is stored, found or moved was accepted; what an enqueue is about
\* to store is new.
IdsAt(p) ==
  /\ IdsOf(reg[p].found) \subseteq accepted
  /\ reg[p].goal \subseteq accepted
  /\ pc[p] = "enq_write" => \A i \in IdsOf(batch[p].put) : i \notin accepted /\ i < nextId
  /\ pc[p] # "enq_write" => IdsOf(batch[p].put) \subseteq accepted

KnownIds ==
  /\ IdsOf(db) \subseteq accepted
  /\ \A i \in accepted : i < nextId
  /\ \A p \in Procs : IdsAt(p)
  /\ \A p, o \in Procs :
       p # o /\ pc[p] = "enq_write" /\ pc[o] = "enq_write" =>
         IdsOf(batch[p].put) \cap IdsOf(batch[o].put) = {}

LEMMA KnownIdsStep ==
  ASSUME TypeOK, TypeOK', Finite, Carrying, KnownIds, [Next]_vars
  PROVE  KnownIds'
<1>k. ASSUME NEW p \in Procs, Kept(p), accepted' = accepted, nextId' = nextId
      PROVE  IdsAt(p)'
  BY <1>k DEF Kept, KnownIds, IdsAt
<1>d. ASSUME \A p \in Procs : Kept(p) \/ IdsOf(batch'[p].put) = {} \/ pc'[p] # "enq_write"
      PROVE  \A p, o \in Procs :
               p # o /\ pc'[p] = "enq_write" /\ pc'[o] = "enq_write" =>
                 IdsOf(batch'[p].put) \cap IdsOf(batch'[o].put) = {}
  BY <1>d DEF Kept, KnownIds
<1>1. CASE Rests
  <2>1. db' = db /\ accepted' = accepted /\ nextId' = nextId
    BY <1>1 DEF Rests, Stored
  <2>2. ASSUME NEW p \in Procs, Emptied(p) PROVE IdsAt(p)' /\ IdsOf(batch'[p].put) = {}
    BY <2>1, <2>2, NothingFound DEF Emptied, KnownIds, IdsAt
  <2>3. \A p \in Procs : IdsAt(p)' /\ (Kept(p) \/ IdsOf(batch'[p].put) = {})
    BY <1>1, <1>k, <2>1, <2>2 DEF Rests
  <2> QED
    BY <1>d, <2>1, <2>3 DEF KnownIds
<1>2. ASSUME NEW p \in Procs, NEW S \in SUBSET db, Scans(p, S) PROVE KnownIds'
  <2>1. /\ db' = db /\ accepted' = accepted /\ nextId' = nextId /\ Alone(p)
        /\ pc'[p] # "enq_write" /\ reg'[p].goal = reg[p].goal
    BY <1>2 DEF Scans, Stored
  <2>2. \A r \in S : r \in Rec /\ r.id \in accepted
    BY DEF KnownIds, IdsOf, TypeOK
  <2>3. IdsOf(reg'[p].found) \subseteq accepted
    <3>1. reg'[p].found \subseteq reg[p].found \cup S
      BY <1>2 DEF Scans
    <3> QED
      BY <2>2, <3>1 DEF KnownIds, IdsAt, IdsOf
  <2>4. IdsOf(batch'[p].put) \subseteq accepted
    <3>1. \A x \in batch'[p].put : \E r \in S : Moved(p, r, x)
      BY <1>2 DEF Scans
    <3>2. \A x \in batch'[p].put : x.id \in accepted
      BY <2>2, <3>1, MovedFields
    <3> QED
      BY <3>2 DEF IdsOf
  <2>5. IdsAt(p)'
    BY <2>1, <2>3, <2>4 DEF IdsAt, KnownIds
  <2>6. \A o \in Procs : IdsAt(o)'
    BY <2>1, <2>5, <1>k DEF Alone
  <2>7. \A o \in Procs : Kept(o) \/ pc'[o] # "enq_write"
    BY <2>1 DEF Alone
  <2> QED
    BY <1>d, <2>1, <2>6, <2>7 DEF KnownIds
<1>3. ASSUME NEW t \in Threads, EnqueueBuild(t) PROVE KnownIds'
  <2>1. /\ Alone(t) /\ batch'[t].put = Fresh(t) /\ t \in Procs /\ db' = db /\ accepted' = accepted
        /\ nextId' = nextId + reg[t].n /\ pc'[t] = "enq_write" /\ reg'[t].found = reg[t].found
        /\ reg'[t].goal = reg[t].goal
    BY <1>3, EnqueueBuildFacts DEF Plans, Stored, Procs
  <2>2. nextId \in Nat /\ reg[t].n \in Nat /\ accepted \subseteq Nat
    BY <2>1, BoundAssumption DEF TypeOK, Registers, Ids
  <2>3. \A i \in IdsOf(Fresh(t)) : i \in Nat /\ nextId <= i /\ i < nextId'
    BY <2>1, <2>2 DEF IdsOf, Fresh
  <2>4. \A i \in accepted : i < nextId /\ i < nextId'
    <3>1. \A i \in accepted : i < nextId
      BY DEF KnownIds
    <3>2. nextId' \in Nat /\ nextId <= nextId'
      BY <2>1, <2>2
    <3> QED
      BY <2>2, <3>1, <3>2
  <2>5. IdsAt(t)'
    BY <2>1, <2>2, <2>3, <2>4 DEF IdsAt, KnownIds
  <2>6. ASSUME NEW o \in Procs, o # t PROVE IdsAt(o)'
    <3>1. Kept(o) /\ IdsAt(o)
      BY <2>1, <2>6 DEF Alone, KnownIds
    <3>2. IdsOf(batch[o].put) \subseteq Nat
      BY SMTT(60) DEF TypeOK, Batch, Rec, Ids, IdsOf
    <3> QED
      BY <2>1, <2>2, <3>1, <3>2 DEF Kept, IdsAt
  <2>7. ASSUME NEW o \in Procs, o # t, pc[o] = "enq_write"
        PROVE  IdsOf(batch[o].put) \cap IdsOf(Fresh(t)) = {}
    <3>1. \A i \in IdsOf(batch[o].put) : i < nextId /\ i \in Nat
      BY <2>7, SMTT(60) DEF KnownIds, IdsAt, TypeOK, Batch, Rec, Ids, IdsOf
    <3> QED
      BY <2>2, <2>3, <3>1
  <2>8. \A p, o \in Procs :
          p # o /\ pc'[p] = "enq_write" /\ pc'[o] = "enq_write" =>
            IdsOf(batch'[p].put) \cap IdsOf(batch'[o].put) = {}
    BY <2>1, <2>7 DEF Alone, Kept, KnownIds
  <2> QED
    BY <2>1, <2>4, <2>5, <2>6, <2>8 DEF KnownIds
<1>4. ASSUME NEW p \in Procs, Commits(p), Leaves(p) PROVE KnownIds'
  <2> DEFINE I == IdsOf(batch[p].put)
  <2>1. /\ db' \subseteq db \cup batch[p].put /\ nextId' = nextId /\ Alone(p)
        /\ accepted' = IF pc[p] = "enq_write" THEN accepted \cup I ELSE accepted
    BY <1>4 DEF Commits, Applied
  <2>2. IdsOf(db') \subseteq accepted'
    BY <2>1 DEF IdsOf, KnownIds, IdsAt
  <2>3. \A i \in accepted' : i < nextId'
    BY <2>1 DEF KnownIds, IdsAt
  <2>4. /\ IdsOf(batch'[p].put) = {} /\ pc'[p] # "enq_write" /\ IdsOf(reg'[p].found) = {}
        /\ reg'[p].goal \subseteq reg[p].goal
    <3>1. /\ NoBatch.put = {} /\ NoRegisters.found = {} /\ NoRegisters.goal = {}
      BY DEF NoBatch, NoRegisters
    <3>2. /\ batch'[p] = NoBatch /\ pc'[p] \in {"idle", "enq_build"}
          /\ reg'[p] = NoRegisters \/ (reg'[p].found = {} /\ reg'[p].goal = reg[p].goal)
      BY <1>4 DEF Leaves
    <3> QED
      BY <3>1, <3>2, NothingFound
  <2>5. IdsAt(p)'
    BY <2>1, <2>4 DEF IdsAt, KnownIds
  <2>6. ASSUME NEW o \in Procs, o # p PROVE IdsAt(o)'
    <3>1. Kept(o) /\ IdsAt(o)
      BY <2>1, <2>6 DEF Alone, KnownIds
    <3>2. pc[p] = "enq_write" /\ pc[o] = "enq_write" => IdsOf(batch[o].put) \cap I = {}
      BY <2>6 DEF KnownIds
    <3> QED
      BY <2>1, <3>1, <3>2 DEF Kept, IdsAt
  <2>7. \A o \in Procs : Kept(o) \/ IdsOf(batch'[o].put) = {}
    BY <2>1, <2>4 DEF Alone
  <2> QED
    BY <1>d, <2>2, <2>3, <2>5, <2>6, <2>7 DEF KnownIds
<1>5. ASSUME NEW r \in Rec, NEW x \in Rec, Rewrites(r, x) \/ Drops(r) PROVE KnownIds'
  <2>1. /\ accepted' = accepted /\ nextId' = nextId
        /\ \A p \in Procs : Kept(p)
    BY <1>5 DEF Rewrites, Drops, Kept
  <2>2. IdsOf(db') \subseteq IdsOf(db)
    BY <1>5 DEF Rewrites, Drops, IdsOf
  <2> QED
    BY <1>d, <1>k, <2>1, <2>2 DEF KnownIds
<1> QED
  BY <1>1, <1>2, <1>3, <1>4, <1>5, StepShapes

\* A drain that counted no pending task has none of its tasks on the backlog,
\* unless one was put back since.
Draining ==
  \A t \in Threads : pc[t] = "drain_inflight" =>
    /\ reg[t].back <= returned[reg[t].q]
    /\ reg[t].seen = 0 => \/ reg[t].back < returned[reg[t].q]
                          \/ reg[t].goal \cap IdsOf(Of(In("pending"), reg[t].q)) = {}

LEMMA DrainingStep ==
  ASSUME TypeOK, TypeOK', Finite, Carrying, Contents, KnownIds, Draining, [Next]_vars
  PROVE  Draining'
<1> SUFFICES ASSUME NEW t \in Threads, pc'[t] = "drain_inflight"
             PROVE  /\ reg'[t].back <= returned'[reg'[t].q]
                    /\ reg'[t].seen = 0 =>
                         \/ reg'[t].back < returned'[reg'[t].q]
                         \/ reg'[t].goal \cap IdsOf(Of(In("pending")', reg'[t].q)) = {}
  BY DEF Draining, Of, In
<1> DEFINE G == /\ reg'[t].back <= returned'[reg'[t].q]
                /\ reg'[t].seen = 0 =>
                     \/ reg'[t].back < returned'[reg'[t].q]
                     \/ reg'[t].goal \cap IdsOf(Of(In("pending")', reg'[t].q)) = {}
<1>0. /\ t \in Procs /\ reg[t].q \in Queues /\ reg'[t].q \in Queues
      /\ reg[t].back \in Nat /\ reg'[t].back \in Nat
      /\ \A q \in Queues : returned[q] \in Nat /\ returned'[q] \in Nat
  BY DEF Procs, TypeOK, Registers
<1>k. ASSUME Kept(t), returned[reg[t].q] <= returned'[reg[t].q],
             \/ returned[reg[t].q] < returned'[reg[t].q]
             \/ \A r \in db' : r.cf = "pending" /\ r.q = reg[t].q =>
                  \/ r.id \notin reg[t].goal
                  \/ \E x \in db : x.cf = "pending" /\ x.q = reg[t].q /\ x.id = r.id
      PROVE  G
  <2>1. pc[t] = "drain_inflight" /\ reg'[t] = reg[t]
    BY <1>k DEF Kept
  <2>2. reg[t].back <= returned[reg[t].q]
    BY <2>1 DEF Draining
  <2>3. CASE returned[reg[t].q] < returned'[reg[t].q]
    BY <1>0, <2>1, <2>2, <2>3
  <2>4. CASE \A r \in db' : r.cf = "pending" /\ r.q = reg[t].q =>
               \/ r.id \notin reg[t].goal
               \/ \E x \in db : x.cf = "pending" /\ x.q = reg[t].q /\ x.id = r.id
    <3>1. reg[t].goal \cap IdsOf(Of(In("pending")', reg[t].q)) \subseteq
          reg[t].goal \cap IdsOf(Of(In("pending"), reg[t].q))
      BY <2>4 DEF IdsOf, Of, In
    <3>2. reg[t].seen = 0 => \/ reg[t].back < returned[reg[t].q]
                             \/ reg[t].goal \cap IdsOf(Of(In("pending"), reg[t].q)) = {}
      BY <2>1 DEF Draining
    <3> QED
      BY <1>0, <1>k, <2>1, <2>2, <3>1, <3>2
  <2> QED
    BY <1>k, <2>3, <2>4
<1>s. ASSUME Kept(t), returned' = returned, IdsOf(Of(In("pending")', reg[t].q)) \subseteq IdsOf(Of(In("pending"), reg[t].q))
      PROVE  G
  BY <1>s DEF Kept, Draining
<1>1. CASE Rests
  <2>1. db' = db /\ returned' = returned
    BY <1>1 DEF Rests, Stored
  <2>2. CASE Kept(t)
    BY <2>1, <2>2, <1>s DEF IdsOf, Of, In
  <2>3. CASE Emptied(t)
    <3>1. reg'[t].seen = Waiting(reg'[t].q) /\ reg'[t].back = returned[reg'[t].q]
      BY <2>3 DEF Emptied
    <3> DEFINE P == Of(In("pending"), reg'[t].q)
    <3>2. IsFiniteSet(P)
      BY FS_Subset DEF Of, In, Finite
    <3>3. Cardinality(P) = 0 => IdsOf(P) = {}
      BY <3>2, FS_EmptySet DEF IdsOf
    <3>4. reg'[t].seen = 0 => IdsOf(P) = {}
      BY <3>1, <3>3 DEF Waiting
    <3>5. Of(In("pending")', reg'[t].q) = P
      BY <2>1 DEF Of, In
    <3> HIDE DEF P
    <3> QED
      BY <1>0, <2>1, <3>1, <3>4, <3>5
  <2> QED
    BY <1>0, <1>1, <2>2, <2>3 DEF Rests
<1>2. ASSUME NEW p \in Procs, NEW S \in SUBSET db, Scans(p, S) PROVE G
  <2>1. db' = db /\ returned' = returned /\ Alone(p) /\ pc'[p] \in Writes
    BY <1>2 DEF Scans, Stored
  <2>2. t # p
    BY <2>1 DEF Writes, Settling
  <2>3. Kept(t)
    BY <1>0, <2>1, <2>2 DEF Alone
  <2> QED
    BY <2>1, <2>3, <1>s DEF IdsOf, Of, In
<1>3. ASSUME NEW p \in Threads, EnqueueBuild(p) PROVE G
  <2>1. db' = db /\ returned' = returned /\ Alone(p) /\ pc'[p] = "enq_write"
    BY <1>3, EnqueueBuildFacts DEF Plans, Stored
  <2>2. Kept(t)
    BY <1>0, <2>1 DEF Alone
  <2> QED
    BY <2>1, <2>2, <1>s DEF IdsOf, Of, In
<1>4. ASSUME NEW p \in Procs, Commits(p), Leaves(p) PROVE G
  <2>1. /\ db' \subseteq db \cup batch[p].put /\ Alone(p) /\ pc[p] \in Writes
        /\ pc'[p] \in {"idle", "enq_build"}
    BY <1>4 DEF Commits, Leaves, Applied
  <2>2. Kept(t)
    BY <1>0, <2>1 DEF Alone
  <2> DEFINE B == {r \in batch[p].put : r.cf = "pending" /\ r.q = reg[t].q}
  <2>3. IsFiniteSet(B) /\ Cardinality(B) \in Nat
    BY PartFinite DEF Finite
  <2>4. CASE pc[p] \in PutBacks
    <3>1. returned'[reg[t].q] = returned[reg[t].q] + Cardinality(B)
      BY <1>0, <1>4, <2>4 DEF Commits
    <3>2. CASE B = {}
      <4>1. Cardinality(B) = 0
        BY <3>2, FS_EmptySet
      <4>2. \A r \in db' : r.cf = "pending" /\ r.q = reg[t].q => r \in db
        BY <2>1, <3>2
      <4> QED
        BY <1>0, <1>k, <2>2, <3>1, <4>1, <4>2
    <3>3. CASE B # {}
      <4>1. Cardinality(B) # 0
        BY <2>3, <3>3, FS_EmptySet
      <4> HIDE DEF B
      <4>2. returned[reg[t].q] < returned'[reg[t].q]
        BY <1>0, <2>3, <3>1, <4>1
      <4> QED
        BY <1>0, <1>k, <2>2, <4>2
    <3> QED
      BY <3>2, <3>3
  <2>5. CASE pc[p] \notin PutBacks
    <3>1. returned' = returned
      BY <1>4, <2>5 DEF Commits
    <3>2. \A r \in batch[p].put : r.cf = "pending" => pc[p] = "enq_write"
      BY <2>1, <2>5 DEF Carrying, Contents, ContentsOf, Writes, PutBacks
    <3>3. pc[p] = "enq_write" => \A r \in batch[p].put : r.id \notin reg[t].goal
      BY <1>0 DEF KnownIds, IdsAt, IdsOf
    <3>4. \A r \in db' : r.cf = "pending" /\ r.q = reg[t].q => r.id \notin reg[t].goal \/ r \in db
      BY <2>1, <3>2, <3>3
    <3> QED
      BY <1>0, <1>k, <2>2, <3>1, <3>4
  <2> QED
    BY <2>4, <2>5
<1>5. ASSUME NEW r \in Rec, NEW x \in Rec, Rewrites(r, x) \/ Drops(r) PROVE G
  <2>1. returned' = returned /\ Kept(t)
    BY <1>5 DEF Rewrites, Drops, Kept
  <2>2. \A y \in db' : \E z \in db : z.cf = y.cf /\ z.q = y.q /\ z.id = y.id
    BY <1>5 DEF Rewrites, Drops
  <2>3. IdsOf(Of(In("pending")', reg[t].q)) \subseteq IdsOf(Of(In("pending"), reg[t].q))
    BY <2>2 DEF IdsOf, Of, In
  <2> QED
    BY <2>1, <2>3, <1>s
<1> QED
  BY <1>1, <1>2, <1>3, <1>4, <1>5, StepShapes

DrainInv == TypeOK /\ Finite /\ Carrying /\ Contents /\ KnownIds /\ Draining

LEMMA DrainInit == Init => DrainInv
<1> SUFFICES ASSUME Init PROVE DrainInv
  OBVIOUS
<1>1. \A p \in Procs : /\ pc[p] = "idle" /\ batch[p].put = {}
                       /\ reg[p].found = {} /\ reg[p].goal = {}
  BY DEF Init, NoBatch, NoRegisters
<1>2. KnownIds
  BY <1>1 DEF KnownIds, IdsAt, IdsOf, Init
<1>3. Draining
  BY <1>1 DEF Draining, Procs
<1> QED
  BY <1>2, <1>3, ChargeInit DEF DrainInv, ChargeInv

LEMMA DrainStep ==
  ASSUME DrainInv, [Next]_vars
  PROVE  DrainInv'
  BY TypeStep, CarryingStep, ContentsStep, KnownIdsStep, DrainingStep DEF DrainInv

\* When drain_tenant answers that the queue is drained, the tasks that were on
\* it when the drain began have left it, unless one was put back between the
\* two counts.
THEOREM DrainsTruthful == Spec => DrainTruthful
<1>1. ASSUME DrainInv, NEW t \in Threads, DrainDone(t)
      PROVE  \/ reg[t].goal \cap IdsOf(Backlog(reg[t].q)) = {}
             \/ returned[reg[t].q] > reg[t].back
  <2>1. pc[t] = "drain_inflight" /\ Current(t) = 0 /\ t \in Procs
    BY <1>1 DEF DrainDone, Drained, Procs
  <2> DEFINE L == Of(In("inflight"), reg[t].q)
             P == Of(In("pending"), reg[t].q)
  <2>2. reg[t].seen \in Nat /\ reg[t].back \in Nat /\ returned[reg[t].q] \in Nat
    BY <1>1, <2>1 DEF DrainInv, TypeOK, Registers
  <2>3. IsFiniteSet(L) /\ Cardinality(L) \in Nat
    BY <1>1, PartFinite DEF DrainInv, Finite, Of, In
  <2>4. reg[t].seen = 0 /\ Cardinality(L) = 0
    BY <2>1, <2>2, <2>3 DEF Current
  <2>5. L = {}
    BY <2>3, <2>4, FS_EmptySet
  <2>6. IdsOf(Backlog(reg[t].q)) = IdsOf(P)
    BY <2>5 DEF Backlog, IdsOf
  <2>7. \/ reg[t].back < returned[reg[t].q]
        \/ reg[t].goal \cap IdsOf(P) = {}
    BY <1>1, <2>1, <2>4 DEF DrainInv, Draining
  <2> HIDE DEF P
  <2> QED
    BY <2>2, <2>6, <2>7
<1>2. ASSUME DrainInv, [Next]_vars
      PROVE  [\A t \in Threads :
                DrainDone(t) => \/ reg[t].goal \cap IdsOf(Backlog(reg[t].q)) = {}
                                \/ returned[reg[t].q] > reg[t].back]_vars
  BY <1>1, <1>2
<1> QED
  BY <1>2, DrainInit, DrainStep, PTL DEF Spec, DrainTruthful

(***************************************************************************)
(* One record per key of a column family                                   *)
(***************************************************************************)
UniqueIn(R) == \A a, b \in R : Place(a) = Place(b) => a = b

Unique == UniqueIn(db) /\ \A p \in Procs : UniqueIn(batch[p].put)

LEMMA PlaceKey ==
  ASSUME NEW a, NEW b
  PROVE  /\ Place(a) = Place(b) <=> a.cf = b.cf /\ KeyOf(a) = KeyOf(b)
         /\ KeyOf(a) = KeyOf(b) <=> a.q = b.q /\ a.seq = b.seq
  BY DEF Place, KeyOf

\* Records of one column family have different keys.
LEMMA UniqueKeys ==
  ASSUME UniqueIn(db), NEW a \in db, NEW b \in db, a.cf = b.cf, KeyOf(a) = KeyOf(b)
  PROVE  a = b
  BY PlaceKey DEF UniqueIn

\* Where the constructors put a record.
LEMMA Family ==
  ASSUME NEW r \in Rec
  PROVE  /\ Delivered(r).cf = "inflight" /\ Poison(r).cf = "dlq"
         /\ \A s : Retried(r, s).cf = "pending" /\ Replayed(r, s).cf = "pending"
  BY DEF Delivered, Poison, Retried, Replayed, Rec

LEMMA UniqueStep ==
  ASSUME TypeOK, TypeOK', Finite, Carrying, Unique, [Next]_vars
  PROVE  Unique'
<1>k. ASSUME NEW p \in Procs, Kept(p) PROVE UniqueIn(batch'[p].put)
  BY <1>k DEF Kept, Unique
<1>e. UniqueIn({})
  BY DEF UniqueIn
<1>1. CASE Rests
  <2>1. db' = db
    BY <1>1 DEF Rests, Stored
  <2>2. \A p \in Procs : UniqueIn(batch'[p].put)
    BY <1>1, <1>k, <1>e DEF Rests, Emptied
  <2> QED
    BY <2>1, <2>2 DEF Unique
<1>2. ASSUME NEW p \in Procs, NEW S \in SUBSET db, Scans(p, S) PROVE Unique'
  <2>1. db' = db /\ Alone(p) /\ ByAction(p) /\ pc'[p] \in Writes \ {"enq_write"} /\ db \subseteq Rec
    BY <1>2 DEF Scans, Stored, TypeOK
  <2>2. CASE pc'[p] \in Settling
    <3>1. batch'[p].put = {}
      BY <1>2, <2>2 DEF Scans
    <3> QED
      BY <1>k, <1>e, <2>1, <3>1 DEF Unique, Alone
  <2>3. CASE pc'[p] = "deq_write"
    <3>1. batch'[p].put = Handover(p) /\ Scanned(p) \subseteq db
      BY <2>1, <2>3, DequeueScanFacts DEF ByAction, Plans
    <3>2. \A r \in Scanned(p) : r.cf = "pending"
      BY DEF Scanned, Of, In
    <3>3. \A r \in Scanned(p) : /\ Delivered(r).cf = "inflight" /\ Poison(r).cf = "dlq"
                                /\ KeyOf(Delivered(r)) = KeyOf(r) /\ KeyOf(Poison(r)) = KeyOf(r)
      BY <2>1, <3>1, SameTask, Family
    <3>4. ASSUME NEW x \in Handover(p)
          PROVE  \E r \in Scanned(p) : x = Delivered(r) \/ x = Poison(r)
      BY DEF Handover, Valid
    <3>5. UniqueIn(Handover(p))
      <4> SUFFICES ASSUME NEW x \in Handover(p), NEW y \in Handover(p), Place(x) = Place(y)
                   PROVE  x = y
        BY DEF UniqueIn
      <4>1. PICK r \in Scanned(p) : x = Delivered(r) \/ x = Poison(r)
        BY <3>4
      <4>2. PICK s \in Scanned(p) : y = Delivered(s) \/ y = Poison(s)
        BY <3>4
      <4>3. x.cf = y.cf /\ KeyOf(x) = KeyOf(y)
        BY PlaceKey
      <4>4. KeyOf(r) = KeyOf(s)
        BY <3>3, <4>1, <4>2, <4>3
      <4>5. r = s
        BY <3>1, <3>2, <4>4, UniqueKeys DEF Unique
      <4> QED
        BY <3>3, <4>1, <4>2, <4>3, <4>5
    <3> QED
      BY <1>k, <2>1, <3>1, <3>5 DEF Unique, Alone
  <2>4. CASE pc'[p] = "nack_write"
    <3>1. \E x : batch'[p].put = {x}
      BY <2>1, <2>4, NackReadFacts DEF ByAction, Plans
    <3>2. UniqueIn(batch'[p].put)
      BY <3>1 DEF UniqueIn
    <3> QED
      BY <1>k, <2>1, <3>2 DEF Unique, Alone
  <2>5. CASE pc'[p] = "replay_write"
    <3> DEFINE S0 == In("dlq")
               R == {Replayed(r, ReplaySeq(r)) : r \in S0}
    <3>1. batch'[p].put = R /\ S0 \subseteq db /\ IsFiniteSet(S0) /\ S0 \subseteq Rec
      BY <2>1, <2>5, ReplayScanFacts, FS_Subset DEF ByAction, Plans, Finite
    <3>2. \A r \in S0 : r.cf = "dlq"
      BY DEF In
    <3>3. \A r \in S0 : Replayed(r, ReplaySeq(r)).seq = seq + Rank(S0, r)
      BY <3>1, SameTask DEF ReplaySeq
    <3>4. \A r \in S0 : Rank(S0, r) \in Nat
      BY <3>1, RankOrder
    <3>5. \A r, s \in S0 : Rank(S0, r) = Rank(S0, s) => r = s
      <4>1. \A r, s \in S0 : Rank(S0, r) = Rank(S0, s) => KeyOf(r) = KeyOf(s)
        BY <3>1, RankOrder
      <4> QED
        BY <3>1, <3>2, <4>1, UniqueKeys DEF Unique
    <3>6. UniqueIn(R)
      <4> SUFFICES ASSUME NEW x \in R, NEW y \in R, Place(x) = Place(y)
                   PROVE  x = y
        BY DEF UniqueIn
      <4>1. PICK r \in S0 : x = Replayed(r, ReplaySeq(r))
        OBVIOUS
      <4>2. PICK s \in S0 : y = Replayed(s, ReplaySeq(s))
        OBVIOUS
      <4>3. x.seq = y.seq
        BY PlaceKey
      <4>4. Rank(S0, r) = Rank(S0, s)
        BY <3>3, <3>4, <4>1, <4>2, <4>3 DEF TypeOK
      <4>5. r = s
        BY <3>5, <4>4
      <4> QED
        BY <4>1, <4>2, <4>5
    <3> HIDE DEF R
    <3> QED
      BY <1>k, <2>1, <3>1, <3>6 DEF Unique, Alone
  <2>6. CASE pc'[p] = "reap_write"
    <3>1. PICK q \in Reaped : ReapScan(q)
      BY <2>1, <2>6 DEF ByAction
    <3> DEFINE late == Late(q)
               corrupt == CorruptIn(Of(In("inflight"), q))
               R == {Retried(r, r.seq) : r \in late} \cup {Poison(r) : r \in corrupt}
    <3>2. batch'[p].put = R /\ late \cup corrupt \subseteq db
      BY <2>1, <2>6, <3>1, ReapScanFacts, QueueAssumption DEF ByAction, Plans
    <3>3. \A r \in late \cup corrupt : r.cf = "inflight"
      BY DEF Late, CorruptIn, Of, In
    <3> HIDE DEF late, corrupt
    <3>4. \A r \in late \cup corrupt :
            /\ Retried(r, r.seq).cf = "pending" /\ Poison(r).cf = "dlq"
            /\ KeyOf(Retried(r, r.seq)) = KeyOf(r) /\ KeyOf(Poison(r)) = KeyOf(r)
      <4> SUFFICES ASSUME NEW r \in late \cup corrupt
                   PROVE  /\ Retried(r, r.seq).cf = "pending" /\ Poison(r).cf = "dlq"
                          /\ KeyOf(Retried(r, r.seq)) = KeyOf(r) /\ KeyOf(Poison(r)) = KeyOf(r)
        OBVIOUS
      <4>1. r \in Rec
        BY <2>1, <3>2
      <4>2. Retried(r, r.seq).cf = "pending" /\ Poison(r).cf = "dlq"
        BY <4>1, Family
      <4> QED
        BY <4>1, <4>2, SameTask
    <3>5. UniqueIn(R)
      <4> SUFFICES ASSUME NEW x \in R, NEW y \in R, Place(x) = Place(y)
                   PROVE  x = y
        BY DEF UniqueIn
      <4>1. PICK r \in late \cup corrupt : x = Retried(r, r.seq) \/ x = Poison(r)
        OBVIOUS
      <4>2. PICK s \in late \cup corrupt : y = Retried(s, s.seq) \/ y = Poison(s)
        OBVIOUS
      <4>3. x.cf = y.cf /\ KeyOf(x) = KeyOf(y)
        BY PlaceKey
      <4>4. KeyOf(r) = KeyOf(s)
        BY <3>4, <4>1, <4>2, <4>3
      <4>5. r = s
        BY <3>2, <3>3, <4>4, UniqueKeys DEF Unique
      <4> QED
        BY <3>4, <4>1, <4>2, <4>3, <4>5
    <3> HIDE DEF R
    <3> QED
      BY <1>k, <2>1, <3>2, <3>5 DEF Unique, Alone
  <2> QED
    BY <2>1, <2>2, <2>3, <2>4, <2>5, <2>6 DEF Writes
<1>3. ASSUME NEW t \in Threads, EnqueueBuild(t) PROVE Unique'
  <2>1. Alone(t) /\ batch'[t].put = Fresh(t) /\ t \in Procs /\ db' = db /\ seq \in Nat /\ reg[t].n \in Nat
    BY <1>3, EnqueueBuildFacts DEF Plans, Stored, Procs, TypeOK, Registers
  <2>2. UniqueIn(Fresh(t))
    <3> SUFFICES ASSUME NEW x \in Fresh(t), NEW y \in Fresh(t), Place(x) = Place(y)
                 PROVE  x = y
      BY DEF UniqueIn
    <3>1. x.seq = y.seq
      BY PlaceKey
    <3> QED
      BY <2>1, <3>1 DEF Fresh
  <2> QED
    BY <1>k, <2>1, <2>2 DEF Unique, Alone
<1>4. ASSUME NEW p \in Procs, Commits(p), Leaves(p) PROVE Unique'
  <2>1. db' = Applied(batch[p]) /\ Alone(p) /\ batch'[p].put = {}
    BY <1>4 DEF Commits, Leaves, NoBatch
  <2>2. \A r \in db' : \/ r \in db /\ Place(r) \notin Places(batch[p].put)
                       \/ r \in batch[p].put /\ Place(r) \in Places(batch[p].put)
    BY <2>1 DEF Applied, Places
  <2>3. UniqueIn(db')
    BY <2>2 DEF UniqueIn, Unique
  <2> QED
    BY <1>k, <1>e, <2>1, <2>3 DEF Unique, Alone
<1>5. ASSUME NEW r \in Rec, NEW x \in Rec, Rewrites(r, x) PROVE Unique'
  <2>1. r \in db /\ db' = (db \ {r}) \cup {x} /\ Place(x) = Place(r) /\ batch' = batch
    BY <1>5 DEF Rewrites
  <2> QED
    BY <2>1 DEF Unique, UniqueIn
<1>6. ASSUME NEW r \in Rec, Drops(r) PROVE Unique'
  BY <1>6 DEF Drops, Unique, UniqueIn
<1> QED
  BY <1>1, <1>2, <1>3, <1>4, <1>5, <1>6, StepShapes

(***************************************************************************)
(* Acknowledgements counted                                                *)
(***************************************************************************)
\* ack_batch reads each key once.
KeysRead ==
  \A t \in Threads : pc[t] \in {"ack_read", "ack_write"} =>
    /\ \A r \in reg[t].found : KeyOf(r) \notin reg[t].keys
    /\ \A a, b \in reg[t].found : KeyOf(a) = KeyOf(b) => a = b

NoCumulative == \A p \in Procs : pc[p] # "cum_write"

\* The records a thread holds the acknowledgement locks for and will count.
Acking(p) == IF pc[p] \in {"ack_read", "ack_write"} THEN reg[p].found ELSE {}

\* The deliveries of task i that are not counted yet and may still be: the keys
\* under which it is in flight or being acknowledged.
InHand == In("inflight") \cup UNION {Acking(t) : t \in Threads}
Open(i) == {KeyOf(r) : r \in {x \in InHand : x.id = i}}

Credit ==
  \A i \in Ids : IsFiniteSet(Open(i)) /\ tally[i] + Cardinality(Open(i)) <= deliveries[i]

LEMMA KeysReadStep ==
  ASSUME TypeOK, Finite, Carrying, Unique, KeysRead, [Next]_vars
  PROVE  KeysRead'
<1> SUFFICES ASSUME NEW t \in Threads, pc'[t] \in {"ack_read", "ack_write"}
             PROVE  /\ \A r \in reg'[t].found : KeyOf(r) \notin reg'[t].keys
                    /\ \A a, b \in reg'[t].found : KeyOf(a) = KeyOf(b) => a = b
  BY DEF KeysRead
<1>0. t \in Procs
  BY DEF Procs
<1>k. CASE Kept(t)
  BY <1>k DEF Kept, KeysRead
<1>e. CASE reg'[t].found = {}
  BY <1>e
<1>1. CASE Rests
  BY <1>0, <1>1, <1>k, <1>e DEF Rests, Emptied
<1>2. ASSUME NEW p \in Procs, NEW S \in SUBSET db, Scans(p, S), p = t
      PROVE  /\ \A r \in reg'[t].found : KeyOf(r) \notin reg'[t].keys
             /\ \A a, b \in reg'[t].found : KeyOf(a) = KeyOf(b) => a = b
  <2>1. AckRead(t)
    BY <1>2 DEF Scans, ByAction
  <2>2. pc[t] = "ack_read"
    BY <2>1, AckReadFacts
  <2>3. PICK k \in reg[t].keys : /\ reg'[t].keys = reg[t].keys \ {k}
                                 /\ reg'[t].found = reg[t].found \cup Hit(k)
    BY <2>1, AckReadFacts
  <2>4. \A a \in Hit(k) : KeyOf(a) = k
    BY DEF Hit
  <2>5. \A a, b \in Hit(k) : a = b
    BY UniqueKeys DEF Hit, In, Unique
  <2>6. /\ \A r \in reg[t].found : KeyOf(r) \notin reg[t].keys
        /\ \A a, b \in reg[t].found : KeyOf(a) = KeyOf(b) => a = b
    BY <2>2 DEF KeysRead
  <2> QED
    BY <2>3, <2>4, <2>5, <2>6
<1>3. ASSUME NEW p \in Procs, Alone(p), p # t PROVE Kept(t)
  BY <1>0, <1>3 DEF Alone
<1>4. ASSUME NEW p \in Threads, EnqueueBuild(p) PROVE Kept(t)
  BY <1>3, <1>4, EnqueueBuildFacts DEF Plans, Procs
<1>5. ASSUME NEW p \in Procs, Commits(p), Leaves(p) PROVE Kept(t)
  BY <1>3, <1>5 DEF Commits, Leaves
<1>6. ASSUME NEW r, NEW x, Rewrites(r, x) \/ Drops(r) PROVE Kept(t)
  BY <1>6 DEF Rewrites, Drops, Kept
<1>7. \A p \in Procs, S \in SUBSET db : Scans(p, S) => Alone(p)
  BY DEF Scans
<1>8. CASE \E p \in Procs, S \in SUBSET db : Scans(p, S)
  BY <1>8, <1>k, <1>2, <1>3, <1>7
<1> QED
  BY <1>1, <1>k, <1>4, <1>5, <1>6, <1>8, StepShapes

LEMMA NoCumulativeStep ==
  ASSUME TypeOK, Finite, Carrying, NoCumulative, "cumulative_ack" \notin Requests, [Next]_vars
  PROVE  NoCumulative'
<1> SUFFICES ASSUME NEW p \in Procs PROVE pc'[p] # "cum_write"
  BY DEF NoCumulative
<1>k. CASE Kept(p)
  BY <1>k DEF Kept, NoCumulative
<1>1. CASE Rests
  BY <1>1, <1>k DEF Rests, Emptied, Writes, Settling
<1>2. ASSUME NEW o \in Procs, NEW S \in SUBSET db, Scans(o, S) PROVE pc'[p] # "cum_write"
  BY <1>2, <1>k DEF Scans, ByAction, Alone
<1>3. ASSUME NEW t \in Threads, EnqueueBuild(t) PROVE pc'[p] # "cum_write"
  BY <1>3, <1>k, EnqueueBuildFacts DEF Plans, Alone, Procs
<1>4. ASSUME NEW o \in Procs, Commits(o), Leaves(o) PROVE pc'[p] # "cum_write"
  BY <1>4, <1>k DEF Commits, Leaves, Alone
<1>5. ASSUME NEW r, NEW x, Rewrites(r, x) \/ Drops(r) PROVE Kept(p)
  BY <1>5 DEF Rewrites, Drops, Kept
<1> QED
  BY <1>1, <1>2, <1>3, <1>4, <1>5, <1>k, StepShapes

\* A finite set maps onto no more images than it has members, and injectively
\* onto as many.
LEMMA KeysCount ==
  ASSUME NEW S, IsFiniteSet(S)
  PROVE  /\ IsFiniteSet(KeysOf(S)) /\ Cardinality(KeysOf(S)) <= Cardinality(S)
         /\ Cardinality(KeysOf(S)) \in Nat /\ Cardinality(S) \in Nat
         /\ (\A a, b \in S : KeyOf(a) = KeyOf(b) => a = b) => Cardinality(KeysOf(S)) = Cardinality(S)
<1> DEFINE f == [x \in S |-> KeyOf(x)]
<1>1. f \in Surjection(S, KeysOf(S))
  BY DEF Surjection, KeysOf
<1>2. IsFiniteSet(KeysOf(S)) /\ Cardinality(KeysOf(S)) <= Cardinality(S)
  BY <1>1, FS_Surjection
<1>3. ASSUME \A a, b \in S : KeyOf(a) = KeyOf(b) => a = b
      PROVE  Cardinality(KeysOf(S)) = Cardinality(S)
  <2>1. f \in Injection(S, KeysOf(S))
    BY <1>3 DEF Injection, IsInjective, KeysOf
  <2>2. Cardinality(S) <= Cardinality(KeysOf(S))
    BY <1>2, <2>1, FS_Injection
  <2> QED
    BY <1>2, <2>2, FS_CardinalityType
<1> QED
  BY <1>2, <1>3, FS_CardinalityType

LEMMA CreditStep ==
  ASSUME TypeOK, TypeOK', Finite, Carrying, Holding, AckOrder, Contents, KeysRead, NoCumulative,
         Credit, [Next]_vars
  PROVE  Credit'
<1> SUFFICES ASSUME NEW i \in Ids
             PROVE  IsFiniteSet(Open(i)') /\ tally'[i] + Cardinality(Open(i)') <= deliveries'[i]
  BY DEF Credit
<1> DEFINE G == IsFiniteSet(Open(i)') /\ tally'[i] + Cardinality(Open(i)') <= deliveries'[i]
<1>0. /\ IsFiniteSet(Open(i)) /\ Cardinality(Open(i)) \in Nat
      /\ tally[i] + Cardinality(Open(i)) <= deliveries[i]
      /\ tally[i] \in Nat /\ deliveries[i] \in Nat /\ tally'[i] \in Nat /\ deliveries'[i] \in Nat
  BY FS_CardinalityType DEF Credit, TypeOK
<1>s. ASSUME tally' = tally, deliveries' = deliveries, Open(i)' \subseteq Open(i)
      PROVE  G
  <2>1. IsFiniteSet(Open(i)') /\ Cardinality(Open(i)') <= Cardinality(Open(i))
    BY <1>0, <1>s, FS_Subset
  <2> QED
    BY <1>0, <1>s, <2>1, FS_CardinalityType
<1>o. ASSUME \A r \in InHand' : r.id = i => \E s \in InHand : s.id = i /\ KeyOf(s) = KeyOf(r)
      PROVE  Open(i)' \subseteq Open(i)
  BY <1>o DEF Open
<1>a. ASSUME NEW p \in Procs, Alone(p)
      PROVE  \A t \in Threads : t # p => Acking(t)' = Acking(t)
  BY <1>a DEF Alone, Kept, Acking, Procs
<1>1. CASE Rests
  <2>1. db' = db /\ tally' = tally /\ deliveries' = deliveries
    BY <1>1 DEF Rests, Stored
  <2>2. \A t \in Threads : Acking(t)' \subseteq Acking(t)
    BY <1>1 DEF Rests, Kept, Emptied, Acking, Procs
  <2>3. InHand' \subseteq InHand
    BY <2>1, <2>2 DEF InHand, In
  <2> QED
    BY <1>s, <1>o, <2>1, <2>3
<1>2. ASSUME NEW p \in Procs, NEW S \in SUBSET db, Scans(p, S) PROVE G
  <2>1. db' = db /\ tally' = tally /\ deliveries' = deliveries /\ Alone(p)
    BY <1>2 DEF Scans, Stored
  <2>2. Acking(p)' \subseteq Acking(p) \cup In("inflight")
    <3>1. CASE pc'[p] \in {"ack_read", "ack_write"}
      <4>1. pc[p] = "ack_read" /\ reg'[p].found = reg[p].found \cup S /\ S \subseteq In("inflight")
        BY <1>2, <3>1 DEF Scans, Settling, Finds, In
      <4> QED
        BY <3>1, <4>1 DEF Acking
    <3>2. CASE pc'[p] \notin {"ack_read", "ack_write"}
      BY <3>2 DEF Acking
    <3> QED
      BY <3>1, <3>2
  <2>3. InHand' \subseteq InHand
    BY <1>a, <2>1, <2>2 DEF InHand, In
  <2> QED
    BY <1>s, <1>o, <2>1, <2>3
<1>3. ASSUME NEW t \in Threads, EnqueueBuild(t) PROVE G
  <2>1. /\ Alone(t) /\ t \in Procs /\ db' = db /\ tally' = tally /\ deliveries' = deliveries
        /\ pc'[t] = "enq_write"
    BY <1>3, EnqueueBuildFacts DEF Plans, Stored, Procs
  <2>2. Acking(t)' = {}
    BY <2>1 DEF Acking
  <2>3. InHand' \subseteq InHand
    BY <1>a, <2>1, <2>2 DEF InHand, In
  <2> QED
    BY <1>s, <1>o, <2>1, <2>3
<1>4. ASSUME NEW p \in Procs, Commits(p), Leaves(p) PROVE G
  <2>1. /\ db' = Applied(batch[p]) /\ Alone(p) /\ pc'[p] \in {"idle", "enq_build"}
        /\ pc[p] \in Writes \ {"ack_read"}
    BY <1>4 DEF Commits, Leaves
  <2>2. Acking(p)' = {}
    BY <2>1 DEF Acking
  <2>3. db' \subseteq db \cup batch[p].put
    BY <2>1 DEF Applied
  <2>4. CASE pc[p] = "deq_write"
    <3> DEFINE out == {r \in {x \in batch[p].put : x.cf = "inflight"} : r.id = i}
    <3>1. tally' = tally /\ deliveries'[i] = deliveries[i] + Cardinality(out)
      BY <1>4, <2>4 DEF Commits
    <3>2. IsFiniteSet(out)
      BY PartFinite DEF Finite
    <3>3. InHand' \subseteq InHand \cup {x \in batch[p].put : x.cf = "inflight"}
      BY <1>a, <2>1, <2>2, <2>3 DEF InHand, In
    <3>4. Open(i)' \subseteq Open(i) \cup KeysOf(out)
      BY <3>3 DEF Open, KeysOf
    <3> HIDE DEF out
    <3>5. /\ IsFiniteSet(KeysOf(out)) /\ Cardinality(KeysOf(out)) <= Cardinality(out)
          /\ Cardinality(KeysOf(out)) \in Nat /\ Cardinality(out) \in Nat
      BY <3>2, KeysCount
    <3>6. /\ IsFiniteSet(Open(i) \cup KeysOf(out))
          /\ Cardinality(Open(i) \cup KeysOf(out)) =
               Cardinality(Open(i)) + Cardinality(KeysOf(out)) - Cardinality(Open(i) \cap KeysOf(out))
      BY <1>0, <3>5, FS_Union
    <3>7. Cardinality(Open(i) \cap KeysOf(out)) \in Nat
      BY <1>0, PartFinite
    <3>8. /\ IsFiniteSet(Open(i)') /\ Cardinality(Open(i)') \in Nat
          /\ Cardinality(Open(i)') <= Cardinality(Open(i) \cup KeysOf(out))
      BY <3>4, <3>6, FS_Subset, FS_CardinalityType
    <3> QED
      BY <1>0, <3>1, <3>5, <3>6, <3>7, <3>8
  <2>5. CASE pc[p] = "ack_write"
    <3>0. p \in Threads /\ p \in Procs
      BY <2>5 DEF Holding, Procs
    <3> DEFINE F == {r \in reg[p].found : r.id = i}
               K == KeysOf(F)
    <3>1. deliveries' = deliveries /\ tally'[i] = tally[i] + Cardinality(F)
      BY <1>4, <2>5 DEF Commits
    <3>2. IsFiniteSet(F)
      BY PartFinite DEF Finite
    <3>3. \A a, b \in F : KeyOf(a) = KeyOf(b) => a = b
      BY <2>5, <3>0 DEF KeysRead
    <3>4. IsFiniteSet(K) /\ Cardinality(K) = Cardinality(F) /\ Cardinality(F) \in Nat
      BY <3>2, <3>3, KeysCount
    <3>5. K \subseteq Open(i)
      BY <2>5, <3>0 DEF KeysOf, Open, InHand, Acking
    <3>6. Open(i)' \subseteq Open(i)
      <4>1. batch[p].put = {}
        BY <2>5 DEF Carrying, Settling
      <4>2. InHand' \subseteq InHand
        BY <1>a, <2>1, <2>2, <2>3, <4>1 DEF InHand, In
      <4> QED
        BY <1>o, <4>2
    <3>7. K \cap Open(i)' = {}
      <4> SUFFICES ASSUME NEW a \in F, NEW b \in InHand', b.id = i, KeyOf(a) = KeyOf(b)
                   PROVE  FALSE
        BY DEF Open, KeysOf
      <4>1. a.cf = "inflight" /\ Place(a) \in batch[p].del /\ ackLock[a.q] = p /\ a.q = b.q
        BY <2>5, <3>0, PlaceKey
           DEF Contents, ContentsOf, Carrying, Settling, Places, AckOrder, AckAt
      <4>2. CASE b \in In("inflight")'
        <5>1. Place(b) = Place(a)
          BY <4>1, <4>2, PlaceKey DEF In
        <5>2. b \in db' /\ batch[p].put = {}
          BY <2>5, <4>2 DEF In, Carrying, Settling
        <5> QED
          BY <2>1, <4>1, <5>1, <5>2 DEF Applied
      <4>3. CASE \E t \in Threads : b \in Acking(t)'
        <5>1. PICK t \in Threads : b \in Acking(t)'
          BY <4>3
        <5>2. t # p /\ b \in Acking(t)
          BY <1>a, <2>1, <2>2, <5>1
        <5>3. ackLock[b.q] = t
          BY <5>2 DEF Acking, AckOrder, AckAt
        <5> QED
          BY <4>1, <5>2, <5>3
      <4> QED
        BY <4>2, <4>3 DEF InHand
    <3> HIDE DEF F, K
    <3>8. Open(i)' \subseteq Open(i) \ K
      BY <3>6, <3>7
    <3>9. /\ IsFiniteSet(Open(i) \ K)
          /\ Cardinality(Open(i) \ K) = Cardinality(Open(i)) - Cardinality(Open(i) \cap K)
      BY <1>0, FS_Difference
    <3>10. Open(i) \cap K = K
      BY <3>5
    <3>11. /\ IsFiniteSet(Open(i)') /\ Cardinality(Open(i)') \in Nat
           /\ Cardinality(Open(i)') <= Cardinality(Open(i) \ K)
      BY <3>8, <3>9, FS_Subset, FS_CardinalityType
    <3>12. Cardinality(Open(i) \ K) = Cardinality(Open(i)) - Cardinality(F)
      BY <3>4, <3>9, <3>10
    <3>13. deliveries'[i] = deliveries[i]
      BY <3>1
    <3>14. tally'[i] + Cardinality(Open(i)') <= deliveries'[i]
      BY <1>0, <3>1, <3>4, <3>11, <3>12, <3>13
    <3> QED
      BY <3>11, <3>14
  <2>6. CASE pc[p] \notin {"deq_write", "ack_write"}
    <3>1. pc[p] # "cum_write"
      BY DEF NoCumulative
    <3>2. tally' = tally /\ deliveries' = deliveries
      BY <1>4, <2>6, <3>1 DEF Commits
    <3>3. \A x \in batch[p].put : x.cf # "inflight"
      BY <2>6 DEF Contents, ContentsOf
    <3>4. InHand' \subseteq InHand
      BY <1>a, <2>1, <2>2, <2>3, <3>3 DEF InHand, In
    <3> QED
      BY <1>s, <1>o, <3>2, <3>4
  <2> QED
    BY <2>4, <2>5, <2>6
<1>5. ASSUME NEW r \in Rec, NEW x \in Rec, Rewrites(r, x) PROVE G
  <2>1. /\ r \in db /\ db' = (db \ {r}) \cup {x} /\ Place(x) = Place(r) /\ x.id = r.id /\ x.cf = r.cf
        /\ tally' = tally /\ deliveries' = deliveries
        /\ \A t \in Threads : Acking(t)' = Acking(t)
    BY <1>5 DEF Rewrites, Acking
  <2>2. KeyOf(x) = KeyOf(r)
    BY <2>1, PlaceKey
  <2>3. \A y \in InHand' : y \in InHand \/ (y = x /\ r \in InHand)
    BY <2>1 DEF InHand, In
  <2> QED
    BY <1>s, <1>o, <2>1, <2>2, <2>3
<1>6. ASSUME NEW r \in Rec, Drops(r) PROVE G
  <2>1. /\ db' \subseteq db /\ tally' = tally /\ deliveries' = deliveries
        /\ \A t \in Threads : Acking(t)' = Acking(t)
    BY <1>6 DEF Drops, Acking
  <2>2. InHand' \subseteq InHand
    BY <2>1 DEF InHand, In
  <2> QED
    BY <1>s, <1>o, <2>1, <2>2
<1> QED
  BY <1>1, <1>2, <1>3, <1>4, <1>5, <1>6, StepShapes

AckInv == LockInv /\ Contents /\ Unique /\ KeysRead /\ NoCumulative /\ Credit

LEMMA AckInit == Init => AckInv
<1> SUFFICES ASSUME Init PROVE AckInv
  OBVIOUS
<1>1. db = {} /\ \A p \in Procs : pc[p] = "idle" /\ batch[p].put = {}
  BY DEF Init, NoBatch
<1>2. LockInv /\ Contents
  BY LockInit, ChargeInit DEF ChargeInv
<1>3. Unique
  BY <1>1 DEF Unique, UniqueIn
<1>4. KeysRead /\ NoCumulative
  BY <1>1 DEF KeysRead, NoCumulative, Procs
<1>5. ASSUME NEW i \in Ids PROVE IsFiniteSet(Open(i)) /\ tally[i] + Cardinality(Open(i)) <= deliveries[i]
  <2>1. InHand = {}
    BY <1>1 DEF InHand, In, Acking, Procs
  <2>2. Open(i) = {}
    BY <2>1 DEF Open
  <2>3. tally[i] = 0 /\ deliveries[i] = 0
    BY DEF Init
  <2> QED
    BY <2>2, <2>3, FS_EmptySet
<1> QED
  BY <1>2, <1>3, <1>4, <1>5 DEF AckInv, Credit

LEMMA AckStep ==
  ASSUME "cumulative_ack" \notin Requests, AckInv, [Next]_vars
  PROVE  AckInv'
<1>1. LockInv'
  BY LockStep DEF AckInv
<1>2. TypeOK /\ Finite /\ Carrying /\ Holding /\ AckOrder /\ Contents /\ Unique /\ KeysRead /\ NoCumulative /\ Credit
      /\ TypeOK'
  BY <1>1 DEF AckInv, LockInv
<1> QED
  BY <1>1, <1>2, ContentsStep, UniqueStep, KeysReadStep, NoCumulativeStep, CreditStep
     DEF AckInv

\* ack_batch never counts a delivery twice: its per-queue lock keeps two threads
\* from finding the same record, and it deletes what it counted.
\* cumulative_ack takes no lock and can, so it must not be in use.
THEOREM AcksCountOnce ==
  ASSUME "cumulative_ack" \notin Requests
  PROVE  Spec => []AckCountedOnce
<1>1. AckInv => AckCountedOnce
  <2> SUFFICES ASSUME AckInv, NEW i \in Ids PROVE tally[i] <= deliveries[i]
    BY DEF AckCountedOnce
  <2>1. /\ Cardinality(Open(i)) \in Nat /\ tally[i] + Cardinality(Open(i)) <= deliveries[i]
        /\ tally[i] \in Nat /\ deliveries[i] \in Nat
    BY FS_CardinalityType DEF AckInv, Credit, LockInv, TypeOK
  <2> QED
    BY <2>1
<1>2. AckInv /\ [Next]_vars => AckInv'
  BY AckStep
<1> QED
  BY <1>1, <1>2, AckInit, PTL DEF Spec

(***************************************************************************)
(* Copies of a task                                                        *)
(***************************************************************************)
NoRequeue == \A p \in Procs : pc[p] \notin {"nack_write", "replay_write"}

\* A stored task is about to be moved by one process at most, which deletes
\* the record it read.
OneMover ==
  /\ \A p, o \in Procs : p # o => IdsOf(batch[p].put) \cap IdsOf(batch[o].put) = {}
  /\ \A p \in Procs : \A x, y \in batch[p].put : x.id = y.id => x = y
  /\ \A p \in Procs : \A x \in batch[p].put, r \in db : x.id = r.id => Place(r) \in batch[p].del

LEMMA NoRequeueStep ==
  ASSUME TypeOK, Finite, Carrying, NoRequeue, Requests \cap {"nack", "replay_dlq"} = {}, [Next]_vars
  PROVE  NoRequeue'
<1> SUFFICES ASSUME NEW p \in Procs PROVE pc'[p] \notin {"nack_write", "replay_write"}
  BY DEF NoRequeue
<1>k. CASE Kept(p)
  BY <1>k DEF Kept, NoRequeue
<1>1. CASE Rests
  BY <1>1, <1>k DEF Rests, Emptied, Writes, Settling
<1>2. ASSUME NEW o \in Procs, NEW S \in SUBSET db, Scans(o, S)
      PROVE  pc'[p] \notin {"nack_write", "replay_write"}
  <2>1. Alone(o) /\ ByAction(o)
    BY <1>2 DEF Scans
  <2>2. pc'[o] \notin {"nack_write", "replay_write"}
    BY <2>1, NackReadFacts, ReplayScanFacts DEF ByAction
  <2> QED
    BY <1>k, <2>1, <2>2 DEF Alone
<1>3. ASSUME NEW t \in Threads, EnqueueBuild(t) PROVE pc'[p] \notin {"nack_write", "replay_write"}
  BY <1>3, <1>k, EnqueueBuildFacts DEF Plans, Alone, Procs
<1>4. ASSUME NEW o \in Procs, Commits(o), Leaves(o) PROVE pc'[p] \notin {"nack_write", "replay_write"}
  BY <1>4, <1>k DEF Commits, Leaves, Alone
<1>5. ASSUME NEW r, NEW x, Rewrites(r, x) \/ Drops(r) PROVE Kept(p)
  BY <1>5 DEF Rewrites, Drops, Kept
<1> QED
  BY <1>1, <1>2, <1>3, <1>4, <1>5, <1>k, StepShapes

\* dequeue and the reaper move each record under its own key, to where its
\* kind decides.
LEMMA MovedOnce ==
  ASSUME TypeOK, NEW p \in Procs, ByAction(p), pc'[p] \in {"deq_write", "reap_write"}
  PROVE  \A x \in batch'[p].put : \E r \in db :
           /\ x.id = r.id /\ KeyOf(x) = KeyOf(r) /\ Place(r) \in batch'[p].del
           /\ IF pc'[p] = "deq_write" THEN r.cf = "pending" /\ r.q = reg[p].q ELSE r.cf = "inflight"
           /\ x.cf = IF r.kind = "garbage" THEN "dlq"
                     ELSE IF pc'[p] = "deq_write" THEN "inflight" ELSE "pending"
<1>1. CASE pc'[p] = "deq_write"
  <2>1. batch'[p].put = Handover(p) /\ batch'[p].del = Places(Scanned(p)) /\ Scanned(p) \subseteq db
    BY <1>1, DequeueScanFacts DEF ByAction, Plans
  <2>2. \A r \in Scanned(p) : r.cf = "pending" /\ r.q = reg[p].q
    BY DEF Scanned, Of, In
  <2>3. \A r \in Scanned(p) : Place(r) \in Places(Scanned(p))
    BY DEF Places
  <2>4. ASSUME NEW x \in Handover(p)
        PROVE  \E r \in Scanned(p) :
                 /\ x.id = r.id /\ KeyOf(x) = KeyOf(r)
                 /\ x.cf = IF r.kind = "garbage" THEN "dlq" ELSE "inflight"
    <3>1. PICK r \in Scanned(p) : IF r.kind = "garbage" THEN x = Poison(r) ELSE x = Delivered(r)
      BY DEF Handover, Valid
    <3>2. r \in Rec
      BY <2>1 DEF TypeOK
    <3>3. /\ Poison(r).id = r.id /\ KeyOf(Poison(r)) = KeyOf(r) /\ Poison(r).cf = "dlq"
          /\ Delivered(r).id = r.id /\ KeyOf(Delivered(r)) = KeyOf(r) /\ Delivered(r).cf = "inflight"
      BY <3>2, SameTask, Family
    <3> QED
      BY <3>1, <3>3
  <2> QED
    BY <1>1, <2>1, <2>2, <2>3, <2>4
<1>2. CASE pc'[p] = "reap_write"
  <2>1. PICK q \in Reaped : ReapScan(q)
    BY <1>2 DEF ByAction
  <2> DEFINE late == Late(q)
             corrupt == CorruptIn(Of(In("inflight"), q))
             S == late \cup corrupt
             R == {Retried(r, r.seq) : r \in late} \cup {Poison(r) : r \in corrupt}
  <2>2. batch'[p].put = R /\ batch'[p].del = Places(S) /\ S \subseteq db
    BY <1>2, <2>1, ReapScanFacts, QueueAssumption DEF ByAction, Plans
  <2>3. /\ \A r \in S : r.cf = "inflight"
        /\ \A r \in late : r.kind # "garbage"
        /\ \A r \in corrupt : r.kind = "garbage"
    BY DEF Late, CorruptIn, Valid, Overdue, Of, In
  <2>4. \A r \in S : Place(r) \in Places(S)
    BY DEF Places
  <2> HIDE DEF late, corrupt
  <2>5. ASSUME NEW x \in R
        PROVE  \E r \in S :
                 /\ x.id = r.id /\ KeyOf(x) = KeyOf(r)
                 /\ x.cf = IF r.kind = "garbage" THEN "dlq" ELSE "pending"
    <3>1. PICK r \in S : IF r.kind = "garbage" THEN x = Poison(r) ELSE x = Retried(r, r.seq)
      BY <2>3
    <3>2. r \in Rec
      BY <2>2 DEF TypeOK
    <3>3. Poison(r).cf = "dlq" /\ Retried(r, r.seq).cf = "pending"
      BY <3>2, Family
    <3>4. /\ Poison(r).id = r.id /\ KeyOf(Poison(r)) = KeyOf(r)
          /\ Retried(r, r.seq).id = r.id /\ KeyOf(Retried(r, r.seq)) = KeyOf(r)
      BY <3>2, SameTask
    <3> QED
      BY <3>1, <3>3, <3>4
  <2> HIDE DEF S, R
  <2> QED
    BY <1>2, <2>2, <2>3, <2>4, <2>5
<1> QED
  BY <1>1, <1>2

LEMMA SingleStep ==
  ASSUME TypeOK, TypeOK', Finite, Carrying, Holding, Contents, Unique, Unique', KnownIds, NoRequeue,
         NoRequeue', SingleCopy, OneMover, [Next]_vars
  PROVE  SingleCopy' /\ OneMover'
<1>e. IdsOf({}) = {}
  BY NothingFound
<1>q. ASSUME db' = db, \A p \in Procs : Kept(p) \/ batch'[p].put = {}
      PROVE  SingleCopy' /\ OneMover'
  <2>1. SingleCopy'
    BY <1>q DEF SingleCopy
  <2>2. \A p, o \in Procs : p # o => IdsOf(batch'[p].put) \cap IdsOf(batch'[o].put) = {}
    BY <1>q, <1>e DEF Kept, OneMover
  <2>3. /\ \A p \in Procs : \A x, y \in batch'[p].put : x.id = y.id => x = y
        /\ \A p \in Procs : \A x \in batch'[p].put, r \in db' : x.id = r.id => Place(r) \in batch'[p].del
    BY <1>q DEF Kept, OneMover
  <2> QED
    BY <2>1, <2>2, <2>3 DEF OneMover
<1>n. ASSUME NEW p \in Procs, Alone(p), db' = db,
             \A o \in Procs \ {p} : IdsOf(batch'[p].put) \cap IdsOf(batch[o].put) = {},
             \A x, y \in batch'[p].put : x.id = y.id => x = y,
             \A x \in batch'[p].put, r \in db : x.id = r.id => Place(r) \in batch'[p].del
      PROVE  SingleCopy' /\ OneMover'
  <2>1. SingleCopy'
    BY <1>n DEF SingleCopy
  <2>2. \A o \in Procs \ {p} : batch'[o] = batch[o]
    BY <1>n DEF Alone, Kept
  <2>3. \A s, o \in Procs : s # o => IdsOf(batch'[s].put) \cap IdsOf(batch'[o].put) = {}
    BY <1>n, <2>2 DEF OneMover
  <2>4. /\ \A o \in Procs : \A x, y \in batch'[o].put : x.id = y.id => x = y
        /\ \A o \in Procs : \A x \in batch'[o].put, r \in db' : x.id = r.id => Place(r) \in batch'[o].del
    BY <1>n, <2>2 DEF OneMover
  <2> QED
    BY <2>1, <2>3, <2>4 DEF OneMover
<1>1. CASE Rests
  BY <1>1, <1>q DEF Rests, Stored, Emptied
<1>2. ASSUME NEW p \in Procs, NEW S \in SUBSET db, Scans(p, S) PROVE SingleCopy' /\ OneMover'
  <2>1. db' = db /\ Alone(p) /\ ByAction(p) /\ pc'[p] \in Writes \ {"enq_write"}
        /\ pc[p] \notin Writes \ {"ack_read"}
    BY <1>2 DEF Scans, Stored
  <2>2. CASE pc'[p] \in Settling
    BY <1>2, <1>q, <2>2 DEF Scans, Stored, Alone
  <2>3. CASE pc'[p] \in {"deq_write", "reap_write"}
    <3>1. \A x \in batch'[p].put : \E r \in db :
            /\ x.id = r.id /\ KeyOf(x) = KeyOf(r) /\ Place(r) \in batch'[p].del
            /\ IF pc'[p] = "deq_write" THEN r.cf = "pending" /\ r.q = reg[p].q ELSE r.cf = "inflight"
            /\ x.cf = IF r.kind = "garbage" THEN "dlq"
                      ELSE IF pc'[p] = "deq_write" THEN "inflight" ELSE "pending"
      BY <2>1, <2>3, MovedOnce
    <3>2. ASSUME NEW x \in batch'[p].put, NEW y \in batch'[p].put, x.id = y.id PROVE x = y
      <4>1. PICK r \in db :
              /\ x.id = r.id /\ KeyOf(x) = KeyOf(r)
              /\ x.cf = IF r.kind = "garbage" THEN "dlq"
                        ELSE IF pc'[p] = "deq_write" THEN "inflight" ELSE "pending"
        BY <3>1
      <4>2. PICK s \in db :
              /\ y.id = s.id /\ KeyOf(y) = KeyOf(s)
              /\ y.cf = IF s.kind = "garbage" THEN "dlq"
                        ELSE IF pc'[p] = "deq_write" THEN "inflight" ELSE "pending"
        BY <3>1
      <4>3. r = s
        BY <3>2, <4>1, <4>2 DEF SingleCopy
      <4>4. Place(x) = Place(y)
        BY <4>1, <4>2, <4>3, PlaceKey
      <4> QED
        BY <4>4 DEF Unique, UniqueIn
    <3>3. \A x \in batch'[p].put, r \in db : x.id = r.id => Place(r) \in batch'[p].del
      BY <3>1 DEF SingleCopy
    <3>4. ASSUME NEW o \in Procs \ {p}, NEW x \in batch'[p].put, NEW y \in batch[o].put, x.id = y.id
          PROVE  FALSE
      <4>1. PICK r \in db :
              /\ x.id = r.id
              /\ IF pc'[p] = "deq_write" THEN r.cf = "pending" /\ r.q = reg[p].q ELSE r.cf = "inflight"
        BY <3>1
      <4>2. Place(r) \in batch[o].del
        BY <3>4, <4>1 DEF OneMover
      <4> DEFINE d == Place(r)
      <4>3. d[1] = r.cf /\ d[2] = r.q
        BY DEF Place
      <4>4. pc[o] \in {"enq_write", "deq_write", "reap_write"}
        BY <3>4 DEF Carrying, Writes, NoRequeue
      <4>5. CASE pc[o] = "enq_write"
        BY <4>2, <4>5 DEF Contents, ContentsOf
      <4>6. CASE pc[o] = "deq_write"
        <5>1. d[1] = "pending" /\ d[2] = reg[o].q /\ o # Reaper
          BY <4>2, <4>6 DEF Contents, ContentsOf, Holding
        <5>2. pc'[p] = "deq_write" /\ reg[o].q = reg[p].q
          BY <4>1, <4>3, <5>1
        <5>3. o \in Threads /\ queueLock[reg[o].q] = o
          BY <4>6, <5>1 DEF Holding, Procs, QueueOps
        <5>4. p \in Threads /\ pc[p] = "deq_scan"
          BY <2>1, <5>2, DequeueScanFacts DEF ByAction
        <5>5. queueLock[reg[p].q] = p
          BY <5>4 DEF Holding, QueueOps
        <5> QED
          BY <5>2, <5>3, <5>5
      <4>7. CASE pc[o] = "reap_write"
        <5>1. d[1] = "inflight" /\ o = Reaper
          BY <4>2, <4>7 DEF Contents, ContentsOf, Holding, Procs
        <5>2. pc'[p] = "reap_write"
          BY <2>3, <4>1, <4>3, <5>1
        <5> QED
          BY <2>1, <5>1, <5>2 DEF ByAction
      <4> QED
        BY <4>4, <4>5, <4>6, <4>7
    <3>5. \A o \in Procs \ {p} : IdsOf(batch'[p].put) \cap IdsOf(batch[o].put) = {}
      BY <3>4 DEF IdsOf
    <3> QED
      BY <1>n, <2>1, <3>2, <3>3, <3>5
  <2> QED
    BY <2>1, <2>2, <2>3 DEF Writes, NoRequeue
<1>3. ASSUME NEW t \in Threads, EnqueueBuild(t) PROVE SingleCopy' /\ OneMover'
  <2>1. Alone(t) /\ batch'[t].put = Fresh(t) /\ t \in Procs /\ db' = db
    BY <1>3, EnqueueBuildFacts DEF Plans, Stored, Procs
  <2>2. nextId \in Nat /\ reg[t].n \in Nat
    BY <2>1, BoundAssumption DEF TypeOK, Registers
  <2>3. \A x \in Fresh(t) : x.id \in Nat /\ nextId <= x.id
    BY <2>2 DEF Fresh
  <2>4. \A x, y \in Fresh(t) : x.id = y.id => x = y
    BY <2>2 DEF Fresh
  <2>5. \A i \in accepted : i \in Nat /\ i < nextId
    BY DEF KnownIds, TypeOK, Ids
  <2>6. \A r \in db : r.id \in accepted
    BY DEF KnownIds, IdsOf
  <2>7. ASSUME NEW o \in Procs, NEW y \in batch[o].put PROVE y.id < nextId /\ y.id \in Nat
    <3>1. y.id \in IdsOf(batch[o].put) /\ y.id \in Nat
      BY SMTT(60) DEF IdsOf, TypeOK, Batch, Rec, Ids
    <3>2. y.id < nextId
      BY <2>5, <3>1 DEF KnownIds, IdsAt
    <3> QED
      BY <3>1, <3>2
  <2>8. \A x \in Fresh(t), r \in db : x.id # r.id
    BY <2>2, <2>3, <2>5, <2>6
  <2>9. \A o \in Procs \ {t} : IdsOf(batch'[t].put) \cap IdsOf(batch[o].put) = {}
    <3>1. \A o \in Procs : \A x \in Fresh(t), y \in batch[o].put : x.id # y.id
      BY <2>2, <2>3, <2>7
    <3> QED
      BY <2>1, <3>1 DEF IdsOf
  <2> QED
    BY <1>n, <2>1, <2>4, <2>8, <2>9
<1>4. ASSUME NEW p \in Procs, Commits(p), Leaves(p) PROVE SingleCopy' /\ OneMover'
  <2>1. db' = Applied(batch[p]) /\ Alone(p) /\ batch'[p].put = {}
    BY <1>4 DEF Commits, Leaves, NoBatch
  <2>2. \A r \in db' : \/ r \in db /\ Place(r) \notin batch[p].del
                       \/ r \in batch[p].put
    BY <2>1 DEF Applied
  <2>3. SingleCopy'
    BY <2>2 DEF SingleCopy, OneMover
  <2>4. \A o \in Procs \ {p} : batch'[o] = batch[o]
    BY <2>1 DEF Alone, Kept
  <2>5. \A s, o \in Procs : s # o => IdsOf(batch'[s].put) \cap IdsOf(batch'[o].put) = {}
    BY <1>e, <2>1, <2>4 DEF OneMover
  <2>6. \A o \in Procs : \A x, y \in batch'[o].put : x.id = y.id => x = y
    BY <2>1, <2>4 DEF OneMover
  <2>7. ASSUME NEW o \in Procs, NEW x \in batch'[o].put, NEW r \in db', x.id = r.id
        PROVE  Place(r) \in batch'[o].del
    <3>1. o # p /\ batch'[o] = batch[o] /\ x \in batch[o].put
      BY <2>1, <2>4, <2>7
    <3>2. r \notin batch[p].put
      BY <2>7, <3>1 DEF OneMover, IdsOf
    <3> QED
      BY <2>2, <2>7, <3>1, <3>2 DEF OneMover
  <2> QED
    BY <2>3, <2>5, <2>6, <2>7 DEF OneMover
<1>5. ASSUME NEW r \in Rec, NEW x \in Rec, Rewrites(r, x) PROVE SingleCopy' /\ OneMover'
  <2>1. r \in db /\ db' = (db \ {r}) \cup {x} /\ Place(x) = Place(r) /\ x.id = r.id /\ batch' = batch
    BY <1>5 DEF Rewrites
  <2> QED
    BY <2>1 DEF SingleCopy, OneMover
<1>6. ASSUME NEW r \in Rec, Drops(r) PROVE SingleCopy' /\ OneMover'
  BY <1>6 DEF Drops, SingleCopy, OneMover
<1> QED
  BY <1>1, <1>2, <1>3, <1>4, <1>5, <1>6, StepShapes

CopyInv ==
  LockInv /\ Contents /\ Unique /\ KnownIds /\ NoRequeue /\ SingleCopy /\ OneMover

LEMMA CopyInit == Init => CopyInv
<1> SUFFICES ASSUME Init PROVE CopyInv
  OBVIOUS
<1>1. db = {} /\ \A p \in Procs : pc[p] = "idle" /\ batch[p].put = {}
  BY DEF Init, NoBatch
<1>2. NoRequeue /\ SingleCopy
  BY <1>1 DEF NoRequeue, SingleCopy
<1>3. OneMover
  BY <1>1, NothingFound DEF OneMover
<1> QED
  BY <1>2, <1>3, LockInit, AckInit, DrainInit DEF CopyInv, AckInv, DrainInv

LEMMA CopyStep ==
  ASSUME Requests \cap {"nack", "replay_dlq"} = {}, CopyInv, [Next]_vars
  PROVE  CopyInv'
<1>1. LockInv'
  BY LockStep DEF CopyInv
<1>2. /\ TypeOK /\ Finite /\ Carrying /\ Holding /\ Contents /\ Unique /\ KnownIds /\ NoRequeue
      /\ SingleCopy /\ OneMover /\ TypeOK'
  BY <1>1 DEF CopyInv, LockInv
<1>3. Contents' /\ Unique' /\ KnownIds' /\ NoRequeue'
  BY <1>2, ContentsStep, UniqueStep, KnownIdsStep, NoRequeueStep
<1> QED
  BY <1>1, <1>2, <1>3, SingleStep DEF CopyInv

\* A task is never stored twice while every consumer acks or lets its lease
\* run out: dequeue and the reaper never move the same record.  nack and
\* replay_dlq take no lock and write under a new key, so they must not be in
\* use.
THEOREM TasksStoredOnce ==
  ASSUME Requests \cap {"nack", "replay_dlq"} = {}
  PROVE  Spec => []SingleCopy
<1>1. CopyInv => SingleCopy
  BY DEF CopyInv
<1>2. CopyInv /\ [Next]_vars => CopyInv'
  BY CopyStep
<1> QED
  BY <1>1, <1>2, CopyInit, PTL DEF Spec

(***************************************************************************)
(* Counting the records of a queue                                         *)
(***************************************************************************)
\* The records of D in column family c under queue q.
Held(D, c, q) == {r \in D : r.cf = c /\ r.q = q}

LEMMA HeldNow ==
  ASSUME NEW c, NEW q
  PROVE  Of(In(c), q) = Held(db, c, q)
  BY DEF Of, In, Held

LEMMA ReplaceOne ==
  ASSUME NEW S, IsFiniteSet(S), NEW r \in S, NEW x
  PROVE  Cardinality((S \ {r}) \cup {x}) <= Cardinality(S)
<1> DEFINE T == S \ {r}
<1>1. IsFiniteSet(T) /\ Cardinality(T) = Cardinality(S) - 1
  BY FS_RemoveElement
<1>2. Cardinality(T) \in Nat /\ Cardinality(S) \in Nat
  BY <1>1, FS_CardinalityType
<1>3. Cardinality(T \cup {x}) = IF x \in T THEN Cardinality(T) ELSE Cardinality(T) + 1
  BY <1>1, FS_AddElement
<1> HIDE DEF T
<1>4. Cardinality(T \cup {x}) <= Cardinality(S)
  BY <1>1, <1>2, <1>3
<1> QED
  BY <1>4 DEF T

\* A record rewritten in place leaves its queue as long as it was.
LEMMA HeldRewrite ==
  ASSUME Finite, NEW r \in Rec, NEW x \in Rec, Rewrites(r, x), NEW c, NEW q
  PROVE  Cardinality(Held(db', c, q)) <= Cardinality(Held(db, c, q))
<1> DEFINE S == Held(db, c, q)
           T == Held(db', c, q)
<1>1. db' = (db \ {r}) \cup {x} /\ r \in db /\ x.cf = r.cf /\ x.q = r.q
  BY DEF Rewrites
<1>2. IsFiniteSet(S)
  BY PartFinite DEF Finite, Held
<1>3. CASE r \in S
  <2>1. T = (S \ {r}) \cup {x}
    BY <1>1, <1>3 DEF Held
  <2> QED
    BY <1>2, <1>3, <2>1, ReplaceOne
<1>4. CASE r \notin S
  <2>1. T \subseteq S
    BY <1>1, <1>4 DEF Held
  <2> QED
    BY <1>2, <2>1, FS_Subset
<1> QED
  BY <1>3, <1>4

LEMMA SumBound ==
  ASSUME NEW S, IsFiniteSet(S), NEW U, IsFiniteSet(U), NEW T, T \subseteq S \cup U
  PROVE  /\ IsFiniteSet(T) /\ Cardinality(T) <= Cardinality(S) + Cardinality(U)
         /\ Cardinality(S) \in Nat /\ Cardinality(U) \in Nat /\ Cardinality(T) \in Nat
<1> DEFINE V == S \cup U
           X == S \cap U
<1>1. IsFiniteSet(V) /\ Cardinality(V) = Cardinality(S) + Cardinality(U) - Cardinality(X)
  BY FS_Union
<1>2. IsFiniteSet(X)
  BY FS_Subset
<1>3. IsFiniteSet(T) /\ Cardinality(T) <= Cardinality(V)
  BY <1>1, FS_Subset
<1>4. /\ Cardinality(S) \in Nat /\ Cardinality(U) \in Nat /\ Cardinality(X) \in Nat
      /\ Cardinality(T) \in Nat
  BY <1>2, <1>3, FS_CardinalityType
<1> HIDE DEF V, X
<1> QED
  BY <1>1, <1>3, <1>4

\* A set whose members carry different numbers of a .. b is no larger than the
\* interval.
LEMMA Numbered ==
  ASSUME NEW S, NEW a \in Nat, NEW b \in Nat, a <= b, NEW f,
         \A x \in S : f[x] \in Nat /\ a <= f[x] /\ f[x] < b,
         \A x, y \in S : f[x] = f[y] => x = y
  PROVE  Cardinality(S) <= b - a
<1> DEFINE I == a .. (b - 1)
           g == [x \in S |-> f[x]]
<1>1. IsFiniteSet(I) /\ Cardinality(I) = b - a
  <2>1. a \in Int /\ b - 1 \in Int
    OBVIOUS
  <2>2. IsFiniteSet(I) /\ Cardinality(I) = IF a > b - 1 THEN 0 ELSE (b - 1) - a + 1
    BY <2>1, FS_Interval
  <2> HIDE DEF I
  <2> QED
    BY <2>2
<1>2. \A x \in S : f[x] \in I
  OBVIOUS
<1> HIDE DEF I
<1>3. g \in Injection(S, I)
  <2>1. g \in [S -> I]
    BY <1>2
  <2>2. IsInjective(g)
    BY DEF IsInjective
  <2> HIDE DEF g
  <2> QED
    BY <2>1, <2>2 DEF Injection
<1> QED
  BY <1>1, <1>3, FS_Injection

\* A scan of the first n records meets at most n, and leaves all but n.
LEMMA FewOldest ==
  ASSUME NEW S, S \subseteq Rec, IsFiniteSet(S), \A x, y \in S : KeyOf(x) = KeyOf(y) => x = y,
         NEW n \in Nat
  PROVE  /\ Cardinality(Oldest(S, n)) <= n
         /\ n <= Cardinality(S) => Cardinality(S \ Oldest(S, n)) <= Cardinality(S) - n
         /\ Cardinality(S) <= n => S \ Oldest(S, n) = {}
<1> DEFINE f == [x \in S |-> Rank(S, x)]
           A == Oldest(S, n)
           B == S \ Oldest(S, n)
<1>1. /\ \A x \in S : f[x] \in Nat /\ f[x] < Cardinality(S)
      /\ \A x, y \in S : f[x] = f[y] => x = y
  BY RankOrder
<1>2. Cardinality(S) \in Nat
  BY FS_CardinalityType
<1>3. A \subseteq S /\ B \subseteq S /\ (\A x \in A : f[x] < n) /\ \A x \in B : ~(f[x] < n)
  BY DEF Oldest
<1> HIDE DEF f, A, B
<1>4. Cardinality(A) <= n
  <2>1. /\ \A x \in A : f[x] \in Nat /\ 0 <= f[x] /\ f[x] < n
        /\ \A x, y \in A : f[x] = f[y] => x = y
    BY <1>1, <1>3
  <2>2. 0 \in Nat /\ 0 <= n
    OBVIOUS
  <2>3. Cardinality(A) <= n - 0
    BY <2>1, <2>2, Numbered
  <2> QED
    BY <2>3
<1>5. ASSUME n <= Cardinality(S) PROVE Cardinality(B) <= Cardinality(S) - n
  <2>1. /\ \A x \in B : f[x] \in Nat /\ n <= f[x] /\ f[x] < Cardinality(S)
        /\ \A x, y \in B : f[x] = f[y] => x = y
    BY <1>1, <1>2, <1>3
  <2> QED
    BY <1>2, <1>5, <2>1, Numbered
<1>6. ASSUME Cardinality(S) <= n PROVE B = {}
  BY <1>1, <1>2, <1>3, <1>6
<1> QED
  BY <1>4, <1>5, <1>6 DEF A, B

(***************************************************************************)
(* Whose turn it is                                                        *)
(***************************************************************************)
\* Who works on a queue after a step did so before, or begins to.
LEMMA QueueTurn ==
  ASSUME TypeOK, Finite, Carrying, NEW t \in Threads, pc'[t] \in QueueOps, [Next]_vars
  PROVE  Kept(t) \/ Enqueue(t) \/ Dequeue(t)
<1>0. t \in Procs /\ t # Reaper /\ pc'[t] # "idle"
  BY ProcessAssumption DEF Procs, QueueOps
<1>a. ASSUME NEW o \in Procs, Alone(o), o # t \/ pc'[o] \notin QueueOps PROVE Kept(t)
  BY <1>0, <1>a DEF Alone
<1>c. ASSUME NEW o \in Procs, Commits(o) PROVE o # t => Kept(t)
  BY <1>0, <1>c DEF Commits, Alone
<1>r. ASSUME NEW o \in Procs, Return(o) PROVE Kept(t)
  BY <1>0, <1>r, <1>a, ReturnFacts DEF QueueOps
<1>1. ASSUME NEW o \in Threads, Enqueue(o), o # t PROVE Kept(t)
  <2>0. o \in Procs
    BY DEF Procs
  <2>1. ASSUME NEW q \in Queues, NEW n \in 1 .. MaxBatch, NEW pol \in Policies,
               EnqueueBegin(o, q, n, pol)
        PROVE  Kept(t)
    BY <1>1, <1>a, <2>0, <2>1, EnqueueBeginFacts
  <2>2. CASE EnqueueCountPending(o) \/ QuotaFits(o) \/ QuotaWait(o) \/ QuotaEvict(o)
    BY <1>1, <1>a, <2>0, <2>2, EnqueueCountFacts, QuotaFitsFacts, QuotaWaitFacts,
       QuotaEvictFacts
  <2>3. CASE QuotaExceeded(o)
    BY <1>r, <2>0, <2>3, GivesUp DEF Gives
  <2>4. CASE EvictScan(o) \/ EnqueueBuild(o)
    BY <1>1, <1>a, <2>0, <2>4, EvictScanFacts, EnqueueBuildFacts DEF Plans
  <2>5. CASE EvictWrite(o) \/ EnqueueWrite(o)
    BY <1>1, <1>c, <2>0, <2>5, EvictWriteFacts, EnqueueWriteFacts
  <2> QED
    BY <1>1, <2>1, <2>2, <2>3, <2>4, <2>5 DEF Enqueue
<1>2. ASSUME NEW o \in Threads, Dequeue(o), o # t PROVE Kept(t)
  <2>0. o \in Procs
    BY DEF Procs
  <2>1. ASSUME NEW q \in Queues, NEW n \in 1 .. MaxBatch, NEW pol \in Policies,
               DequeueBegin(o, q, n, pol) \/ DequeueUncappedBegin(o, q, n)
        PROVE  Kept(t)
    BY <1>2, <1>a, <2>0, <2>1, DequeueBeginFacts, DequeueUncappedFacts
  <2>2. CASE DequeueCount(o)
    BY <1>2, <1>a, <2>0, <2>2, DequeueCountFacts
  <2>3. CASE DequeueAtCap(o) \/ DequeueEmpty(o)
    BY <1>r, <2>0, <2>3, GivesUp DEF Gives
  <2>4. CASE DequeueScan(o)
    BY <1>2, <1>a, <2>0, <2>4, DequeueScanFacts DEF Plans
  <2>5. CASE DequeueWrite(o)
    BY <1>2, <1>c, <2>0, <2>5, DequeueWriteFacts
  <2> QED
    BY <1>2, <2>1, <2>2, <2>3, <2>4, <2>5, PolicyAssumption DEF Dequeue
<1>3. ASSUME NEW o \in Threads, Ack(o) PROVE Kept(t)
  <2>0. o \in Procs
    BY DEF Procs
  <2>1. ASSUME NEW K \in SUBSET handed, AckBegin(o, K) PROVE Kept(t)
    BY <1>a, <2>0, <2>1, AckBeginFacts DEF QueueOps
  <2>2. CASE AckLock(o)
    BY <1>a, <2>0, <2>2, AckLockFacts DEF QueueOps
  <2>3. CASE AckRead(o)
    BY <1>a, <2>0, <2>3, AckReadFacts DEF QueueOps
  <2>4. CASE AckWrite(o) \/ CumulativeAckWrite(o)
    BY <1>r, <2>0, <2>4 DEF AckWrite, CumulativeAckWrite, Acked
  <2>5. ASSUME NEW q \in Queues, NEW u \in 0 .. MaxSeq, CumulativeAckScan(o, q, u) PROVE Kept(t)
    BY <1>a, <2>0, <2>5, CumulativeAckScanFacts DEF QueueOps, Plans
  <2> QED
    BY <1>3, <2>1, <2>2, <2>3, <2>4, <2>5 DEF Ack
<1>4. ASSUME NEW o \in Threads, NackOrDlq(o) PROVE Kept(t)
  <2>0. o \in Procs
    BY DEF Procs
  <2>1. ASSUME NEW k \in handed, NackRead(o, k) PROVE Kept(t)
    BY <1>a, <2>0, <2>1, NackReadFacts, ZenonT(60) DEF QueueOps, Plans
  <2>2. CASE NackWrite(o) \/ ReplayWrite(o) \/ PurgeWrite(o)
    BY <1>r, <2>0, <2>2 DEF NackWrite, ReplayWrite, PurgeWrite, PutBack
  <2>3. CASE PurgeScan(o)
    BY <1>a, <2>0, <2>3, PurgeScanFacts DEF QueueOps, Plans
  <2>4. CASE ReplayScan(o)
    BY <1>a, <2>0, <2>4, ReplayScanFacts DEF QueueOps, Plans
  <2>5. CASE ReplayAborts(o)
    BY <2>5 DEF ReplayAborts, procVars, Kept
  <2> QED
    BY <1>4, <2>1, <2>2, <2>3, <2>4, <2>5 DEF NackOrDlq
<1>5. CASE Reap
  <2>0. Reaper \in Procs
    BY DEF Procs
  <2>1. ASSUME NEW q \in Reaped, ReapScan(q) PROVE Kept(t)
    BY <1>0, <1>a, <2>0, <2>1, ReapScanFacts, QueueAssumption DEF Plans
  <2>2. CASE ReapWrite
    BY <1>r, <2>0, <2>2 DEF ReapWrite, PutBack
  <2> QED
    BY <1>5, <2>1, <2>2 DEF Reap
<1>6. ASSUME NEW o \in Threads, Drain(o) PROVE Kept(t)
  <2>0. o \in Procs
    BY DEF Procs
  <2>1. CASE DrainBegin(o)
    BY <1>a, <2>0, <2>1, DrainBeginFacts DEF QueueOps
  <2>2. CASE DrainCountPending(o)
    BY <1>a, <2>0, <2>2, DrainCountFacts DEF QueueOps
  <2>3. CASE DrainDone(o) \/ DrainTimeout(o)
    BY <1>r, <2>0, <2>3, GivesUp DEF Gives
  <2>4. CASE DrainPoll(o)
    BY <1>a, <2>0, <2>4, DrainPollFacts DEF QueueOps
  <2> QED
    BY <1>6, <2>1, <2>2, <2>3, <2>4 DEF Drain
<1>7. CASE Environment
  <2>1. ASSUME NEW r, Expire(r) \/ Compact(r) \/ Corrupt(r) PROVE Kept(t)
    BY <2>1 DEF Expire, Compact, Corrupt, procVars, Kept
  <2>2. ASSUME NEW o \in Procs, IoError(o) PROVE Kept(t)
    BY <1>r, <2>2 DEF IoError
  <2>3. ASSUME NEW now \in 0 .. MaxSeq, Restart(now) PROVE FALSE
    BY <1>0, <2>3 DEF Restart
  <2> QED
    BY <1>7, <2>1, <2>2, <2>3 DEF Environment
<1>8. CASE UNCHANGED vars
  BY <1>8 DEF vars, procVars, Kept
<1> QED
  BY <1>1, <1>2, <1>3, <1>4, <1>5, <1>6, <1>7, <1>8 DEF Next

(***************************************************************************)
(* The cap on deliveries outstanding                                       *)
(***************************************************************************)
Out(p) == {x \in batch[p].put : x.cf = "inflight"}
Handing(p) == Cardinality(Out(p))

\* A capped dequeue counts, scans and commits under the queue lock: until its
\* commit no other delivery comes in, and what it hands out fits.
Capped ==
  /\ \A q \in Queues : \E pol \in Policies : Cardinality(Held(db, "inflight", q)) <= pol.maxInflight
  /\ \A t \in Threads :
       /\ pc[t] = "deq_scan" =>
            Cardinality(Held(db, "inflight", reg[t].q)) + reg[t].n <= reg[t].pol.maxInflight
       /\ pc[t] = "deq_write" =>
            Cardinality(Held(db, "inflight", reg[t].q)) + Handing(t) <= reg[t].pol.maxInflight

\* Deliveries come in only with the commit of a dequeue of their queue.
LEMMA LeasesStep ==
  ASSUME TypeOK, Finite, Carrying, Contents, NEW q \in Queues, [Next]_vars
  PROVE  \/ Cardinality(Held(db', "inflight", q)) <= Cardinality(Held(db, "inflight", q))
         \/ \E p \in Procs :
              /\ Commits(p) /\ Leaves(p) /\ pc[p] = "deq_write" /\ reg[p].q = q
              /\ Cardinality(Held(db', "inflight", q)) <=
                   Cardinality(Held(db, "inflight", q)) + Handing(p)
<1> DEFINE S == Held(db, "inflight", q)
           T == Held(db', "inflight", q)
<1>f. IsFiniteSet(S) /\ Cardinality(S) \in Nat
  BY PartFinite DEF Finite, Held
<1>s. ASSUME T \subseteq S PROVE Cardinality(T) <= Cardinality(S)
  BY <1>f, <1>s, FS_Subset
<1>e. ASSUME db' \subseteq db PROVE Cardinality(T) <= Cardinality(S)
  BY <1>e, <1>s DEF Held
<1>1. ASSUME Rests PROVE Cardinality(T) <= Cardinality(S)
  BY <1>1, <1>e DEF Rests, Stored
<1>2. ASSUME NEW p \in Procs, NEW X \in SUBSET db, Scans(p, X) PROVE Cardinality(T) <= Cardinality(S)
  BY <1>2, <1>e DEF Scans, Stored
<1>3. ASSUME NEW t \in Threads, EnqueueBuild(t) PROVE Cardinality(T) <= Cardinality(S)
  BY <1>3, <1>e, EnqueueBuildFacts DEF Plans, Stored
<1>4. ASSUME NEW p \in Procs, Commits(p), Leaves(p)
      PROVE  \/ Cardinality(T) <= Cardinality(S)
             \/ /\ pc[p] = "deq_write" /\ reg[p].q = q
                /\ Cardinality(T) <= Cardinality(S) + Handing(p)
  <2>1. db' = Applied(batch[p])
    BY <1>4 DEF Commits
  <2>2. \A r \in db' : r \in db \/ r \in batch[p].put
    BY <2>1 DEF Applied
  <2>3. ContentsOf(p)
    BY DEF Contents
  <2>4. CASE pc[p] = "deq_write" /\ reg[p].q = q
    <3>1. IsFiniteSet(Out(p))
      BY PartFinite DEF Finite, Out
    <3>2. T \subseteq S \cup Out(p)
      BY <2>2 DEF Held, Out
    <3>3. Cardinality(T) <= Cardinality(S) + Cardinality(Out(p))
      BY <1>f, <3>1, <3>2, SumBound
    <3> QED
      BY <2>4, <3>3 DEF Handing
  <2>5. CASE ~(pc[p] = "deq_write" /\ reg[p].q = q)
    <3>1. \A x \in batch[p].put : x.cf = "inflight" => x.q # q
      BY <2>3, <2>5 DEF ContentsOf
    <3>2. T \subseteq S
      BY <2>2, <3>1 DEF Held
    <3> QED
      BY <1>s, <3>2
  <2> QED
    BY <2>4, <2>5
<1>5. ASSUME NEW r \in Rec, NEW x \in Rec, Rewrites(r, x) PROVE Cardinality(T) <= Cardinality(S)
  BY <1>5, HeldRewrite
<1>6. ASSUME NEW r \in Rec, Drops(r) PROVE Cardinality(T) <= Cardinality(S)
  BY <1>6, <1>e DEF Drops
<1> HIDE DEF S, T
<1> DEFINE Grows == \E p \in Procs :
                      /\ Commits(p) /\ Leaves(p) /\ pc[p] = "deq_write" /\ reg[p].q = q
                      /\ Cardinality(T) <= Cardinality(S) + Handing(p)
<1>7. ASSUME NEW p \in Procs, Commits(p), Leaves(p) PROVE Cardinality(T) <= Cardinality(S) \/ Grows
  BY <1>4, <1>7
<1> HIDE DEF Grows
<1>8. Cardinality(T) <= Cardinality(S) \/ Grows
  BY <1>1, <1>2, <1>3, <1>5, <1>6, <1>7, StepShapes
<1> QED
  BY <1>8 DEF Grows, S, T

\* While a dequeue of t is under way on a queue, nobody else's is.
LEMMA LeasesHeld ==
  ASSUME TypeOK, Finite, Carrying, Contents, Holding, NEW t \in Threads, pc[t] \in QueueOps,
         Kept(t), [Next]_vars
  PROVE  Cardinality(Held(db', "inflight", reg[t].q)) <= Cardinality(Held(db, "inflight", reg[t].q))
<1> DEFINE q == reg[t].q
<1>1. q \in Queues /\ queueLock[q] = t /\ pc'[t] \in QueueOps
  BY DEF Holding, TypeOK, Procs, Registers, Kept
<1> HIDE DEF q
<1>2. ASSUME NEW p \in Procs, Leaves(p), pc[p] = "deq_write", reg[p].q = q PROVE FALSE
  <2>1. p # Reaper
    BY <1>2 DEF Holding
  <2>2. queueLock[q] = p
    BY <1>2, <2>1 DEF Holding, Procs, QueueOps
  <2>3. p = t /\ pc'[p] = "idle"
    BY <1>1, <1>2, <2>2 DEF Leaves
  <2> QED
    BY <1>1, <2>3 DEF QueueOps
<1>3. Cardinality(Held(db', "inflight", q)) <= Cardinality(Held(db, "inflight", q))
  BY <1>1, <1>2, LeasesStep
<1> QED
  BY <1>3 DEF q

\* An enqueue never becomes a dequeue.
LEMMA EnqueueTurn ==
  ASSUME TypeOK, Carrying, NEW t \in Threads, Enqueue(t)
  PROVE  pc'[t] \notin {"deq_count", "deq_scan", "deq_write"}
<1>0. t \in Procs
  BY DEF Procs
<1>1. ASSUME NEW q \in Queues, NEW n \in 1 .. MaxBatch, NEW pol \in Policies,
             EnqueueBegin(t, q, n, pol)
      PROVE  pc'[t] \notin {"deq_count", "deq_scan", "deq_write"}
  BY <1>1, EnqueueBeginFacts
<1>2. CASE EnqueueCountPending(t) \/ QuotaFits(t) \/ QuotaWait(t) \/ QuotaEvict(t)
  BY <1>2, EnqueueCountFacts, QuotaFitsFacts, QuotaWaitFacts, QuotaEvictFacts
<1>3. CASE QuotaExceeded(t)
  BY <1>0, <1>3, GivesUp, ReturnFacts DEF Gives
<1>4. CASE EvictScan(t) \/ EnqueueBuild(t)
  BY <1>4, EvictScanFacts, EnqueueBuildFacts DEF Plans
<1>5. CASE EvictWrite(t) \/ EnqueueWrite(t)
  <2>1. Leaves(t)
    BY <1>5, EvictWriteFacts, EnqueueWriteFacts
  <2> QED
    BY <2>1 DEF Leaves
<1> QED
  BY <1>1, <1>2, <1>3, <1>4, <1>5 DEF Enqueue

\* What a dequeue hands out is what its iterator met before it stopped.
LEMMA HandsFew ==
  ASSUME TypeOK, Finite, Unique, NEW t \in Threads, DequeueScan(t)
  PROVE  Cardinality({x \in batch'[t].put : x.cf = "inflight"}) <= reg[t].n
<1> DEFINE B == Of(In("pending"), reg[t].q)
           V == Valid(B)
           D == Valid(Scanned(t))
           n == reg[t].n
           R == {x \in batch'[t].put : x.cf = "inflight"}
<1>1. batch'[t].put = Handover(t) /\ t \in Procs /\ n \in Nat
  BY DequeueScanFacts DEF Plans, Procs, TypeOK, Registers
<1>2. V \subseteq db /\ V \subseteq Rec /\ IsFiniteSet(V) /\ \A r \in V : r.cf = "pending"
  <2>1. V \subseteq db /\ \A r \in V : r.cf = "pending"
    BY DEF Valid, Of, In
  <2> QED
    BY <2>1, PartFinite DEF Finite, TypeOK
<1>3. \A x, y \in V : KeyOf(x) = KeyOf(y) => x = y
  BY <1>2, UniqueKeys DEF Unique
<1>4. D \subseteq Oldest(V, n)
  BY DEF Scanned, Valid, Oldest
<1>5. Oldest(V, n) \subseteq V
  BY DEF Oldest
<1>6. R \subseteq {Delivered(r) : r \in D}
  <2>1. \A r \in Scanned(t) : Poison(r).cf = "dlq"
    BY Family DEF Scanned, Of, In, TypeOK
  <2> QED
    BY <1>1, <2>1 DEF Handover
<1> HIDE DEF V, D, n, R
<1>7. Cardinality(Oldest(V, n)) <= n
  BY <1>1, <1>2, <1>3, FewOldest
<1>8. IsFiniteSet(D) /\ Cardinality(D) <= Cardinality(Oldest(V, n)) /\ Cardinality(Oldest(V, n)) \in Nat
  <2>1. IsFiniteSet(Oldest(V, n))
    BY <1>2, <1>5, FS_Subset
  <2> QED
    BY <1>4, <2>1, FS_Subset, FS_CardinalityType
<1>9. Cardinality(R) <= Cardinality(D) /\ Cardinality(R) \in Nat /\ Cardinality(D) \in Nat
  <2> DEFINE f == [r \in D |-> Delivered(r)]
             T == {Delivered(r) : r \in D}
  <2>1. f \in Surjection(D, T)
    BY DEF Surjection
  <2>2. IsFiniteSet(T) /\ Cardinality(T) <= Cardinality(D)
    BY <1>8, <2>1, FS_Surjection
  <2>3. IsFiniteSet(R) /\ Cardinality(R) <= Cardinality(T)
    BY <1>6, <2>2, FS_Subset
  <2>4. Cardinality(R) \in Nat /\ Cardinality(D) \in Nat /\ Cardinality(T) \in Nat
    BY <1>8, <2>2, <2>3, FS_CardinalityType
  <2> HIDE DEF T
  <2> QED
    BY <2>2, <2>3, <2>4
<1>10. Cardinality(R) <= n
  BY <1>1, <1>7, <1>8, <1>9
<1> QED
  BY <1>10 DEF R, n

LEMMA CappedStep ==
  ASSUME TypeOK, TypeOK', Finite, Finite', Carrying, Contents, Holding, Unique,
         "dequeue_uncapped" \notin Requests, Capped, [Next]_vars
  PROVE  Capped'
<1>c. \A D, q : IsFiniteSet(D) => Cardinality(Held(D, "inflight", q)) \in Nat
  BY PartFinite DEF Held
<1>f. IsFiniteSet(db) /\ IsFiniteSet(db')
  BY DEF Finite
<1>p. \A pol \in Policies : pol.maxInflight \in Nat
  BY PolicyAssumption DEF NamespacePolicy
<1>t. \A t \in Threads : t \in Procs /\ reg[t].q \in Queues /\ reg[t].pol \in Policies
                         /\ reg[t].n \in Nat
  BY DEF Procs, TypeOK, Registers
<1>h. \A p \in Procs : Handing(p) \in Nat
  BY PartFinite DEF Handing, Out, Finite
<1>1. ASSUME NEW q \in Queues
      PROVE  \E pol \in Policies : Cardinality(Held(db', "inflight", q)) <= pol.maxInflight
  <2> DEFINE a == Cardinality(Held(db, "inflight", q))
             b == Cardinality(Held(db', "inflight", q))
  <2>0. a \in Nat /\ b \in Nat
    BY <1>c, <1>f
  <2>1. CASE b <= a
    <3>1. PICK pol \in Policies : a <= pol.maxInflight
      BY DEF Capped
    <3> HIDE DEF a, b
    <3>2. b <= pol.maxInflight
      BY <1>p, <2>0, <2>1, <3>1
    <3> QED
      BY <3>2 DEF b
  <2>2. ASSUME NEW p \in Procs, pc[p] = "deq_write", reg[p].q = q, b <= a + Handing(p)
        PROVE  \E pol \in Policies : b <= pol.maxInflight
    <3>1. p \in Threads
      BY <2>2 DEF Holding, Procs
    <3>2. a + Handing(p) <= reg[p].pol.maxInflight
      BY <2>2, <3>1 DEF Capped
    <3> HIDE DEF a, b
    <3>3. b <= reg[p].pol.maxInflight
      BY <1>p, <1>t, <1>h, <2>0, <2>2, <3>1, <3>2
    <3> QED
      BY <1>t, <3>1, <3>3
  <2> QED
    BY <2>1, <2>2, LeasesStep
<1>2. ASSUME NEW t \in Threads, pc'[t] \in {"deq_scan", "deq_write"}
      PROVE  /\ pc'[t] = "deq_scan" =>
                  Cardinality(Held(db', "inflight", reg'[t].q)) + reg'[t].n <= reg'[t].pol.maxInflight
             /\ pc'[t] = "deq_write" =>
                  Cardinality(Held(db', "inflight", reg'[t].q))
                    + Cardinality({x \in batch'[t].put : x.cf = "inflight"}) <= reg'[t].pol.maxInflight
  <2> DEFINE a == Cardinality(Held(db, "inflight", reg[t].q))
             b == Cardinality(Held(db', "inflight", reg[t].q))
  <2>0. a \in Nat /\ b \in Nat
    BY <1>c, <1>f
  <2>t. t \in Procs /\ reg[t].pol.maxInflight \in Nat /\ reg[t].n \in Nat
    BY <1>t, <1>p
  <2>1. CASE Kept(t)
    <3>1. pc'[t] = pc[t] /\ reg'[t] = reg[t] /\ batch'[t] = batch[t] /\ pc[t] \in QueueOps
      BY <1>2, <2>1 DEF Kept, QueueOps
    <3>2. b <= a
      BY <2>1, <3>1, LeasesHeld
    <3>3. /\ pc[t] = "deq_scan" => a + reg[t].n <= reg[t].pol.maxInflight
          /\ pc[t] = "deq_write" => a + Handing(t) <= reg[t].pol.maxInflight
      BY DEF Capped
    <3> HIDE DEF a, b
    <3>4. /\ pc[t] = "deq_scan" => b + reg[t].n <= reg[t].pol.maxInflight
          /\ pc[t] = "deq_write" => b + Handing(t) <= reg[t].pol.maxInflight
      BY <1>h, <2>0, <2>t, <3>2, <3>3
    <3> QED
      BY <3>1, <3>4 DEF b, Handing, Out
  <2>2. CASE DequeueCount(t)
    <3>1. /\ db' = db /\ pc'[t] = "deq_scan" /\ reg'[t].q = reg[t].q /\ reg'[t].pol = reg[t].pol
          /\ reg'[t].n = Limit(t)
      BY <2>2, DequeueCountFacts DEF Stored
    <3>2. Limit(t) = IF reg[t].n <= reg[t].pol.maxInflight - a
                     THEN reg[t].n ELSE reg[t].pol.maxInflight - a
      BY HeldNow DEF Limit, Room
    <3> HIDE DEF a
    <3>3. a + Limit(t) <= reg[t].pol.maxInflight
      BY <2>0, <2>t, <3>2
    <3> QED
      BY <3>1, <3>3 DEF a
  <2>3. CASE DequeueScan(t)
    <3>1. /\ db' = db /\ pc[t] = "deq_scan" /\ pc'[t] = "deq_write" /\ reg'[t].q = reg[t].q
          /\ reg'[t].pol = reg[t].pol
      BY <2>3, DequeueScanFacts DEF Plans, Stored
    <3> DEFINE h == Cardinality({x \in batch'[t].put : x.cf = "inflight"})
    <3>2. h <= reg[t].n /\ h \in Nat
      BY <2>3, <2>t, HandsFew, PartFinite DEF Finite
    <3>3. a + reg[t].n <= reg[t].pol.maxInflight
      BY <3>1 DEF Capped
    <3> HIDE DEF a, h
    <3>4. a + h <= reg[t].pol.maxInflight
      BY <2>0, <2>t, <3>2, <3>3
    <3> QED
      BY <3>1, <3>4 DEF a, h
  <2>4. CASE DequeueAtCap(t) \/ DequeueEmpty(t)
    BY <1>2, <2>4, <2>t, GivesUp, ReturnFacts DEF Gives
  <2>5. CASE DequeueWrite(t)
    BY <1>2, <2>5, DequeueWriteFacts DEF Leaves
  <2>6. ASSUME NEW q \in Queues, NEW n \in 1 .. MaxBatch, NEW pol \in Policies,
               DequeueBegin(t, q, n, pol) \/ DequeueUncappedBegin(t, q, n)
        PROVE  FALSE
    BY <1>2, <2>6, DequeueBeginFacts DEF DequeueUncappedBegin
  <2>7. CASE Dequeue(t)
    BY <2>2, <2>3, <2>4, <2>5, <2>6, <2>7, PolicyAssumption DEF Dequeue
  <2>8. pc'[t] \in QueueOps
    BY <1>2 DEF QueueOps
  <2>9. ~Enqueue(t)
    BY <1>2, EnqueueTurn
  <2> QED
    BY <2>1, <2>7, <2>8, <2>9, QueueTurn
<1> QED
  BY <1>1, <1>2 DEF Capped, Handing, Out

CapInv == LockInv /\ Contents /\ Unique /\ Capped

LEMMA CapInit == Init => CapInv
<1> SUFFICES ASSUME Init PROVE CapInv
  OBVIOUS
<1>1. db = {} /\ \A t \in Threads : pc[t] = "idle"
  BY DEF Init, Procs
<1>2. \A q : Cardinality(Held(db, "inflight", q)) = 0
  <2>1. \A q : Held(db, "inflight", q) = {}
    BY <1>1 DEF Held
  <2> QED
    BY <2>1, FS_EmptySet
<1>3. \E pol \in Policies : 0 <= pol.maxInflight
  BY PolicyAssumption DEF NamespacePolicy
<1>4. Capped
  BY <1>1, <1>2, <1>3 DEF Capped
<1> QED
  BY <1>4, LockInit, AckInit DEF CapInv, AckInv

LEMMA CapStep ==
  ASSUME "dequeue_uncapped" \notin Requests, CapInv, [Next]_vars
  PROVE  CapInv'
<1>1. LockInv'
  BY LockStep DEF CapInv
<1>2. /\ TypeOK /\ Finite /\ Carrying /\ Holding /\ Contents /\ Unique /\ Capped
      /\ TypeOK' /\ Finite'
  BY <1>1 DEF CapInv, LockInv
<1>3. Contents' /\ Unique'
  BY <1>2, ContentsStep, UniqueStep
<1> QED
  BY <1>1, <1>2, <1>3, CappedStep DEF CapInv

\* The cap of DequeueTasks holds at every moment, however dequeues, acks,
\* reaps and policy changes interleave: when every consumer goes through
\* dequeue_with_max_inflight, no queue has more deliveries outstanding than
\* the largest max_inflight allows.
THEOREM DeliveriesCapped == Spec => []InflightWithinCap
<1>1. CASE "dequeue_uncapped" \in Requests
  <2>1. InflightWithinCap
    BY <1>1 DEF InflightWithinCap
  <2> QED
    BY <2>1, PTL
<1>2. CASE "dequeue_uncapped" \notin Requests
  <2>1. CapInv => InflightWithinCap
    BY HeldNow DEF CapInv, Capped, InflightWithinCap
  <2>2. CapInv /\ [Next]_vars => CapInv'
    BY <1>2, CapStep
  <2> QED
    BY <2>1, <2>2, CapInit, PTL DEF Spec
<1> QED
  BY <1>1, <1>2

(***************************************************************************)
(* The backlog quota                                                       *)
(***************************************************************************)
Bound(pol, other) ==
  IF pol.backlog = "EvictOldest" /\ pol.quota < other.maxInflight + MaxBatch
  THEN other.maxInflight + MaxBatch ELSE pol.quota

\* n records are within the bound once k were put back.
Within(n, k) == \E pol, other \in Policies : n <= k + Bound(pol, other)

\* The records of D that wait under queue q and whose places are not in X.
Left(D, q, X) == {r \in D : r.cf = "pending" /\ r.q = q /\ Place(r) \notin X}

\* How many records the operation of t is about to add to its queue.
Nearing == {"enq_evictwrite", "enq_build", "enq_write", "deq_write"}
Coming(t) ==
  IF pc[t] \in {"enq_evictwrite", "enq_build"} THEN reg[t].n
  ELSE Cardinality({x \in batch[t].put : x.cf # "dlq"})

\* From its count to its commit an enqueue holds the queue lock.  The backlog
\* grows meanwhile by what is put back, and by nothing else.
Quotas ==
  /\ \A q \in Queues :
       Within(Cardinality(Left(db, q, {})) + Cardinality(Held(db, "inflight", q)), returned[q])
  /\ \A t \in Threads :
       /\ pc[t] = "enq_inflight" =>
            Cardinality(Left(db, reg[t].q, {})) <= reg[t].seen + returned[reg[t].q]
       /\ pc[t] = "enq_evict" =>
            /\ reg[t].pol.backlog = "EvictOldest"
            /\ Cardinality(Left(db, reg[t].q, {})) + Cardinality(Held(db, "inflight", reg[t].q))
                 + reg[t].n <= returned[reg[t].q] + reg[t].pol.quota + reg[t].seen
       /\ pc[t] \in Nearing =>
            Within(Cardinality(Left(db, reg[t].q, batch[t].del))
                     + Cardinality(Held(db, "inflight", reg[t].q)) + Coming(t), returned[reg[t].q])

LEMMA BoundType ==
  ASSUME NEW pol \in Policies, NEW other \in Policies
  PROVE  /\ Bound(pol, other) \in Nat /\ pol.quota <= Bound(pol, other)
         /\ pol.backlog = "EvictOldest" => other.maxInflight + MaxBatch <= Bound(pol, other)
<1>1. pol.quota \in Nat /\ other.maxInflight \in Nat /\ MaxBatch \in Nat
  BY PolicyAssumption, BoundAssumption DEF NamespacePolicy
<1> QED
  BY <1>1 DEF Bound

LEMMA WithinGrows ==
  ASSUME NEW a \in Nat, NEW b \in Nat, NEW k \in Nat, NEW l \in Nat, Within(a, k), b + k <= a + l
  PROVE  Within(b, l)
<1>1. PICK pol \in Policies, other \in Policies : a <= k + Bound(pol, other)
  BY DEF Within
<1>2. Bound(pol, other) \in Nat
  BY BoundType
<1>3. b <= l + Bound(pol, other)
  BY <1>1, <1>2
<1> QED
  BY <1>3 DEF Within

LEMMA LeftNow ==
  ASSUME NEW q
  PROVE  Of(In("pending"), q) = Left(db, q, {})
  BY DEF Of, In, Left

LEMMA LeftRewrite ==
  ASSUME Finite, NEW r \in Rec, NEW x \in Rec, Rewrites(r, x), NEW q, NEW X
  PROVE  Cardinality(Left(db', q, X)) <= Cardinality(Left(db, q, X))
<1> DEFINE S == Left(db, q, X)
           T == Left(db', q, X)
<1>1. db' = (db \ {r}) \cup {x} /\ r \in db /\ x.cf = r.cf /\ x.q = r.q /\ Place(x) = Place(r)
  BY DEF Rewrites
<1>2. IsFiniteSet(S)
  BY PartFinite DEF Finite, Left
<1>3. CASE r \in S
  <2>1. T = (S \ {r}) \cup {x}
    BY <1>1, <1>3 DEF Left
  <2> QED
    BY <1>2, <1>3, <2>1, ReplaceOne
<1>4. CASE r \notin S
  <2>1. T \subseteq S
    BY <1>1, <1>4 DEF Left
  <2> QED
    BY <1>2, <2>1, FS_Subset
<1> QED
  BY <1>3, <1>4

\* A queue grows by what is put back, or by the commit of the operation that
\* holds its lock.
LEMMA BacklogStep ==
  ASSUME TypeOK, TypeOK', Finite, Finite', Carrying, Contents, NEW q \in Queues, NEW X, [Next]_vars
  PROVE  LET a == Cardinality(Left(db, q, X))
             b == Cardinality(Left(db', q, X))
             c == Cardinality(Held(db, "inflight", q))
             d == Cardinality(Held(db', "inflight", q))
         IN  /\ a \in Nat /\ b \in Nat /\ c \in Nat /\ d \in Nat
             /\ returned[q] \in Nat /\ returned'[q] \in Nat
             /\ \/ /\ b + returned[q] <= a + returned'[q] /\ d <= c
                   /\ returned[q] <= returned'[q]
                \/ \E p \in Procs : /\ Commits(p) /\ Leaves(p) /\ reg[p].q = q
                                    /\ pc[p] \in {"enq_write", "deq_write"}
<1> DEFINE A == Left(db, q, X)
           B == Left(db', q, X)
           C == Held(db, "inflight", q)
           D == Held(db', "inflight", q)
           a == Cardinality(A)
           b == Cardinality(B)
           c == Cardinality(C)
           d == Cardinality(D)
           Goal == b + returned[q] <= a + returned'[q] /\ d <= c /\ returned[q] <= returned'[q]
<1>f. IsFiniteSet(A) /\ IsFiniteSet(B) /\ IsFiniteSet(C) /\ IsFiniteSet(D)
  BY PartFinite DEF Finite, Left, Held
<1>n. a \in Nat /\ b \in Nat /\ c \in Nat /\ d \in Nat
  BY <1>f, FS_CardinalityType
<1>r. returned[q] \in Nat /\ returned'[q] \in Nat
  BY DEF TypeOK
<1>s. ASSUME B \subseteq A, D \subseteq C, returned' = returned PROVE Goal
  <2>1. b <= a /\ d <= c
    BY <1>f, <1>s, FS_Subset
  <2> HIDE DEF a, b, c, d
  <2> QED
    BY <1>n, <1>r, <1>s, <2>1
<1>e. ASSUME db' \subseteq db, returned' = returned PROVE Goal
  <2>1. B \subseteq A /\ D \subseteq C
    BY <1>e DEF Left, Held
  <2> QED
    BY <1>e, <1>s, <2>1
<1>1. ASSUME Rests PROVE Goal
  BY <1>1, <1>e DEF Rests, Stored
<1>2. ASSUME NEW p \in Procs, NEW S \in SUBSET db, Scans(p, S) PROVE Goal
  BY <1>2, <1>e DEF Scans, Stored
<1>3. ASSUME NEW t \in Threads, EnqueueBuild(t) PROVE Goal
  BY <1>3, <1>e, EnqueueBuildFacts DEF Plans, Stored
<1>4. ASSUME NEW p \in Procs, Commits(p), Leaves(p),
             ~(reg[p].q = q /\ pc[p] \in {"enq_write", "deq_write"})
      PROVE  Goal
  <2>1. db' = Applied(batch[p]) /\ pc[p] \in Writes
    BY <1>4 DEF Commits
  <2>2. \A r \in db' : r \in db \/ r \in batch[p].put
    BY <2>1 DEF Applied
  <2>3. ContentsOf(p)
    BY DEF Contents
  <2>4. \A x \in batch[p].put : x.cf = "inflight" => x.q # q
    BY <1>4, <2>3 DEF ContentsOf
  <2>5. D \subseteq C
    BY <2>2, <2>4 DEF Held
  <2>6. CASE pc[p] \in PutBacks
    <3> DEFINE U == {r \in batch[p].put : r.cf = "pending" /\ r.q = q}
               u == Cardinality(U)
    <3>1. IsFiniteSet(U)
      BY PartFinite DEF Finite
    <3>2. B \subseteq A \cup U
      BY <2>2 DEF Left
    <3>3. b <= a + u /\ u \in Nat
      BY <1>f, <3>1, <3>2, SumBound
    <3>4. returned'[q] = returned[q] + u
      BY <1>4, <2>6 DEF Commits
    <3>5. d <= c
      BY <1>f, <2>5, FS_Subset
    <3> HIDE DEF a, b, c, d, u
    <3> QED
      BY <1>n, <1>r, <3>3, <3>4, <3>5
  <2>7. CASE pc[p] \notin PutBacks
    <3>1. returned' = returned
      BY <1>4, <2>7 DEF Commits
    <3>2. \A x \in batch[p].put : x.q # q
      <4>1. CASE pc[p] \in Settling
        BY <4>1 DEF Carrying
      <4>2. CASE pc[p] \in {"enq_write", "deq_write"}
        BY <1>4, <2>3, <4>2 DEF ContentsOf
      <4> QED
        BY <2>1, <2>7, <4>1, <4>2 DEF Writes, PutBacks
    <3>3. B \subseteq A
      BY <2>2, <3>2 DEF Left
    <3> QED
      BY <1>s, <2>5, <3>1, <3>3
  <2> QED
    BY <2>6, <2>7
<1>5. ASSUME NEW r \in Rec, NEW x \in Rec, Rewrites(r, x) PROVE Goal
  <2>1. b <= a /\ d <= c /\ returned' = returned
    BY <1>5, LeftRewrite, HeldRewrite DEF Rewrites
  <2> HIDE DEF a, b, c, d
  <2> QED
    BY <1>n, <1>r, <2>1
<1>6. ASSUME NEW r \in Rec, Drops(r) PROVE Goal
  BY <1>6, <1>e DEF Drops
<1> HIDE DEF Goal
<1>7. Goal \/ \E p \in Procs : /\ Commits(p) /\ Leaves(p) /\ reg[p].q = q
                               /\ pc[p] \in {"enq_write", "deq_write"}
  BY <1>1, <1>2, <1>3, <1>4, <1>5, <1>6, StepShapes
<1> QED
  BY <1>n, <1>r, <1>7 DEF Goal

\* While t works on a queue, it grows by what is put back only.
LEMMA BacklogHeld ==
  ASSUME TypeOK, TypeOK', Finite, Finite', Carrying, Contents, Holding, NEW t \in Threads,
         pc[t] \in QueueOps, pc'[t] \in QueueOps, [Next]_vars, NEW X
  PROVE  LET a == Cardinality(Left(db, reg[t].q, X))
             b == Cardinality(Left(db', reg[t].q, X))
             c == Cardinality(Held(db, "inflight", reg[t].q))
             d == Cardinality(Held(db', "inflight", reg[t].q))
         IN  /\ a \in Nat /\ b \in Nat /\ c \in Nat /\ d \in Nat
             /\ returned[reg[t].q] \in Nat /\ returned'[reg[t].q] \in Nat
             /\ b + returned[reg[t].q] <= a + returned'[reg[t].q] /\ d <= c
             /\ returned[reg[t].q] <= returned'[reg[t].q]
<1> DEFINE q == reg[t].q
<1>1. q \in Queues /\ queueLock[q] = t
  BY DEF Holding, TypeOK, Procs, Registers
<1> HIDE DEF q
<1>2. ASSUME NEW p \in Procs, Leaves(p), pc[p] \in {"enq_write", "deq_write"}, reg[p].q = q PROVE FALSE
  <2>1. p # Reaper
    BY <1>2 DEF Holding
  <2>2. queueLock[q] = p
    BY <1>2, <2>1 DEF Holding, Procs, QueueOps
  <2>3. p = t /\ pc'[p] = "idle"
    BY <1>1, <1>2, <2>2 DEF Leaves
  <2> QED
    BY <2>3 DEF QueueOps
<1>3. LET a == Cardinality(Left(db, q, X))
          b == Cardinality(Left(db', q, X))
          c == Cardinality(Held(db, "inflight", q))
          d == Cardinality(Held(db', "inflight", q))
      IN  /\ a \in Nat /\ b \in Nat /\ c \in Nat /\ d \in Nat
          /\ returned[q] \in Nat /\ returned'[q] \in Nat
          /\ b + returned[q] <= a + returned'[q] /\ d <= c
          /\ returned[q] <= returned'[q]
  BY <1>1, <1>2, BacklogStep
<1> QED
  BY <1>3 DEF q

LEMMA LeftSame ==
  ASSUME NEW D, NEW q, NEW X, NEW Y, Y \subseteq X
  PROVE  Left(D, q, X) \subseteq Left(D, q, Y)
  BY DEF Left

\* The commit of t leaves what it planned to leave.
LEMMA CommitWithin ==
  ASSUME TypeOK, Finite, Finite', Contents, Carrying, NEW t \in Threads, Commits(t),
         pc[t] \in {"enq_write", "deq_write", "enq_evictwrite"}
  PROVE  LET q == reg[t].q
             m == Cardinality({x \in batch[t].put : x.cf # "dlq"})
             a == Cardinality(Left(db, q, batch[t].del))
             b == Cardinality(Left(db', q, {}))
             c == Cardinality(Held(db, "inflight", q))
             d == Cardinality(Held(db', "inflight", q))
         IN  /\ a \in Nat /\ b \in Nat /\ c \in Nat /\ d \in Nat /\ m \in Nat
             /\ pc[t] # "enq_evictwrite" => b + d <= a + c + m
             /\ pc[t] = "enq_evictwrite" => b <= a /\ d <= c
             /\ returned' = returned
<1> DEFINE q == reg[t].q
           M == {x \in batch[t].put : x.cf # "dlq"}
           A == Left(db, q, batch[t].del)
           B == Left(db', q, {})
           C == Held(db, "inflight", q)
           D == Held(db', "inflight", q)
<1>0. t \in Procs
  BY DEF Procs
<1>1. /\ IsFiniteSet(A) /\ IsFiniteSet(B) /\ IsFiniteSet(C) /\ IsFiniteSet(D) /\ IsFiniteSet(M)
      /\ Cardinality(A) \in Nat /\ Cardinality(B) \in Nat /\ Cardinality(C) \in Nat
      /\ Cardinality(D) \in Nat /\ Cardinality(M) \in Nat
  BY <1>0, PartFinite DEF Finite, Left, Held
<1>2. db' = Applied(batch[t])
  BY DEF Commits
<1>r. returned' = returned
  BY DEF Commits, PutBacks
<1>3. \A r \in db' : (r \in db /\ Place(r) \notin batch[t].del) \/ r \in batch[t].put
  BY <1>2 DEF Applied
<1>4. ContentsOf(t)
  BY <1>0 DEF Contents
<1>5. CASE pc[t] = "enq_evictwrite"
  <2>1. batch[t].put = {}
    BY <1>0, <1>5 DEF Carrying, Settling
  <2>2. B \subseteq A /\ D \subseteq C
    BY <1>3, <2>1 DEF Left, Held
  <2>3. Cardinality(B) <= Cardinality(A) /\ Cardinality(D) <= Cardinality(C)
    BY <1>1, <2>2, FS_Subset
  <2> QED
    BY <1>1, <1>5, <1>r, <2>3
<1>6. CASE pc[t] = "enq_write"
  <2>1. \A x \in batch[t].put : x.cf = "pending"
    BY <1>4, <1>6 DEF ContentsOf
  <2>2. B \subseteq A \cup M /\ D \subseteq C
    BY <1>3, <2>1 DEF Left, Held
  <2>3. Cardinality(B) <= Cardinality(A) + Cardinality(M)
    BY <1>1, <2>2, SumBound
  <2>4. Cardinality(D) <= Cardinality(C)
    BY <1>1, <2>2, FS_Subset
  <2> HIDE DEF A, B, C, D, M
  <2>5. Cardinality(B) + Cardinality(D) <= Cardinality(A) + Cardinality(C) + Cardinality(M)
    BY <1>1, <2>3, <2>4
  <2> QED
    BY <1>1, <1>6, <1>r, <2>5 DEF A, B, C, D, M
<1>7. CASE pc[t] = "deq_write"
  <2>1. \A x \in batch[t].put : x.cf # "pending"
    BY <1>4, <1>7 DEF ContentsOf
  <2>2. B \subseteq A /\ D \subseteq C \cup M
    BY <1>3, <2>1 DEF Left, Held
  <2>3. Cardinality(D) <= Cardinality(C) + Cardinality(M)
    BY <1>1, <2>2, SumBound
  <2>4. Cardinality(B) <= Cardinality(A)
    BY <1>1, <2>2, FS_Subset
  <2> HIDE DEF A, B, C, D, M
  <2>5. Cardinality(B) + Cardinality(D) <= Cardinality(A) + Cardinality(C) + Cardinality(M)
    BY <1>1, <2>3, <2>4
  <2> QED
    BY <1>1, <1>7, <1>r, <2>5 DEF A, B, C, D, M
<1> QED
  BY <1>5, <1>6, <1>7

\* A dequeue takes from the backlog what it will put in flight.
LEMMA ScanWithin ==
  ASSUME TypeOK, TypeOK', Finite, Finite', NEW t \in Threads, DequeueScan(t)
  PROVE  LET q == reg[t].q
             m == Cardinality({x \in batch'[t].put : x.cf # "dlq"})
             a == Cardinality(Left(db, q, {}))
             b == Cardinality(Left(db, q, batch'[t].del))
         IN  a \in Nat /\ b \in Nat /\ m \in Nat /\ b + m <= a
<1> DEFINE q == reg[t].q
           M == {x \in batch'[t].put : x.cf # "dlq"}
           A == Left(db, q, {})
           B == Left(db, q, batch'[t].del)
           V == Valid(Scanned(t))
           R == {Delivered(r) : r \in V}
           f == [r \in V |-> Delivered(r)]
<1>1. batch'[t].put = Handover(t) /\ batch'[t].del = Places(Scanned(t)) /\ t \in Procs
  BY DequeueScanFacts DEF Plans, Procs
<1>2. Scanned(t) \subseteq A /\ V \subseteq Scanned(t) /\ A \subseteq db /\ A \subseteq Rec
  BY DEF Scanned, Of, In, Left, Valid, TypeOK
<1>3. M \subseteq R
  <2>1. \A r \in Scanned(t) : Poison(r).cf = "dlq"
    BY <1>2, Family
  <2> QED
    BY <1>1, <2>1 DEF Handover
<1>4. B \subseteq A /\ B \cap V = {}
  <2>1. \A r \in V : Place(r) \in Places(Scanned(t))
    BY <1>2 DEF Places
  <2> QED
    BY <1>1, <2>1 DEF Left
<1> HIDE DEF A, B, M, V
<1>5. IsFiniteSet(A) /\ IsFiniteSet(B) /\ IsFiniteSet(V)
  BY <1>2, <1>4, FS_Subset DEF Finite
<1>6. f \in Surjection(V, R)
  BY DEF Surjection
<1>7. IsFiniteSet(R) /\ Cardinality(R) <= Cardinality(V)
  BY <1>5, <1>6, FS_Surjection
<1> HIDE DEF R
<1>8. IsFiniteSet(M) /\ Cardinality(M) <= Cardinality(R)
  BY <1>3, <1>7, FS_Subset
<1>9. Cardinality(B \cup V) = Cardinality(B) + Cardinality(V)
  <2>1. Cardinality(B \cup V) = Cardinality(B) + Cardinality(V) - Cardinality(B \cap V)
    BY <1>5, FS_Union
  <2>2. Cardinality(B \cap V) = 0
    BY <1>4, FS_EmptySet
  <2> QED
    BY <1>5, <2>1, <2>2, FS_CardinalityType
<1>10. Cardinality(B \cup V) <= Cardinality(A)
  BY <1>2, <1>4, <1>5, FS_Subset
<1>11. /\ Cardinality(A) \in Nat /\ Cardinality(B) \in Nat /\ Cardinality(V) \in Nat
       /\ Cardinality(M) \in Nat /\ Cardinality(R) \in Nat
  BY <1>5, <1>7, <1>8, FS_CardinalityType
<1>12. Cardinality(B) + Cardinality(M) <= Cardinality(A)
  BY <1>7, <1>8, <1>9, <1>10, <1>11
<1> QED
  BY <1>11, <1>12 DEF A, B, M

\* evict_oldest_pending leaves what fits, or nothing at all.
LEMMA EvictWithin ==
  ASSUME TypeOK, Finite, Unique, NEW t \in Threads, EvictScan(t)
  PROVE  LET q == reg[t].q
             a == Cardinality(Left(db, q, {}))
             b == Cardinality(Left(db, q, batch'[t].del))
         IN  /\ a \in Nat /\ b \in Nat
             /\ b = 0 \/ b + reg[t].seen <= a
<1> DEFINE q == reg[t].q
           A == Left(db, q, {})
           B == Left(db, q, batch'[t].del)
           n == reg[t].seen
<1>1. batch'[t].del = Places(Oldest(A, n)) /\ n \in Nat
  BY EvictScanFacts, LeftNow DEF Plans, Procs, TypeOK, Registers
<1>2. A \subseteq db /\ A \subseteq Rec /\ \A r \in A : r.cf = "pending"
  BY DEF Left, TypeOK
<1>3. \A x, y \in A : KeyOf(x) = KeyOf(y) => x = y
  BY <1>2, UniqueKeys DEF Unique
<1>4. B \subseteq A \ Oldest(A, n)
  <2>1. \A r \in Oldest(A, n) : Place(r) \in Places(Oldest(A, n))
    BY DEF Places
  <2> QED
    BY <1>1, <2>1 DEF Left
<1>5. IsFiniteSet(A)
  BY <1>2, FS_Subset DEF Finite
<1> HIDE DEF A, B, n
<1>6. /\ n <= Cardinality(A) => Cardinality(A \ Oldest(A, n)) <= Cardinality(A) - n
      /\ Cardinality(A) <= n => A \ Oldest(A, n) = {}
  BY <1>1, <1>2, <1>3, <1>5, FewOldest
<1>7. IsFiniteSet(A \ Oldest(A, n))
  BY <1>5, FS_Subset
<1>8. /\ Cardinality(B) <= Cardinality(A \ Oldest(A, n)) /\ IsFiniteSet(B)
  BY <1>4, <1>7, FS_Subset
<1>9. Cardinality(A) \in Nat /\ Cardinality(B) \in Nat /\ Cardinality(A \ Oldest(A, n)) \in Nat
  BY <1>5, <1>7, <1>8, FS_CardinalityType
<1>10. Cardinality(B) = 0 \/ Cardinality(B) + n <= Cardinality(A)
  <2>1. CASE n <= Cardinality(A)
    BY <1>1, <1>6, <1>8, <1>9, <2>1
  <2>2. CASE Cardinality(A) <= n
    <3>1. B = {}
      BY <1>4, <1>6, <2>2
    <3> QED
      BY <3>1, FS_EmptySet
  <2> QED
    BY <1>1, <1>9, <2>1, <2>2
<1> QED
  BY <1>9, <1>10 DEF A, B, n

\* An enqueue builds one record for each payload.
LEMMA BuildWithin ==
  ASSUME TypeOK, Finite', NEW t \in Threads, EnqueueBuild(t)
  PROVE  LET m == Cardinality({x \in batch'[t].put : x.cf # "dlq"})
         IN  m \in Nat /\ m <= reg[t].n
<1> DEFINE M == {x \in batch'[t].put : x.cf # "dlq"}
           n == reg[t].n
           f == [x \in M |-> x.seq - seq]
<1>1. batch'[t].put = Fresh(t) /\ t \in Procs /\ n \in Nat /\ seq \in Nat
  BY EnqueueBuildFacts DEF Plans, Procs, TypeOK, Registers
<1>2. \A x \in M : f[x] \in Nat /\ 0 <= f[x] /\ f[x] < n
  BY <1>1 DEF Fresh
<1>3. \A x, y \in M : f[x] = f[y] => x = y
  BY <1>1 DEF Fresh
<1>4. IsFiniteSet(M)
  BY <1>1, PartFinite DEF Finite
<1> HIDE DEF f, M, n
<1>5. 0 \in Nat /\ 0 <= n
  BY <1>1
<1>6. Cardinality(M) <= n - 0
  BY <1>1, <1>2, <1>3, <1>5, Numbered
<1>7. Cardinality(M) \in Nat /\ Cardinality(M) <= n
  BY <1>1, <1>4, <1>6, FS_CardinalityType
<1> QED
  BY <1>7 DEF M, n

\* The operation of t goes on: what Quotas says of it holds again.
LEMMA PlanKept ==
  ASSUME TypeOK, TypeOK', Finite, Finite', Carrying, Contents, Holding, Quotas, NEW t \in Threads,
         Kept(t), pc[t] \in QueueOps, [Next]_vars
  PROVE  /\ pc[t] = "enq_inflight" =>
              Cardinality(Left(db', reg[t].q, {})) <= reg[t].seen + returned'[reg[t].q]
         /\ pc[t] = "enq_evict" =>
              /\ reg[t].pol.backlog = "EvictOldest"
              /\ Cardinality(Left(db', reg[t].q, {})) + Cardinality(Held(db', "inflight", reg[t].q))
                   + reg[t].n <= returned'[reg[t].q] + reg[t].pol.quota + reg[t].seen
         /\ pc[t] \in Nearing =>
              Within(Cardinality(Left(db', reg[t].q, batch[t].del))
                       + Cardinality(Held(db', "inflight", reg[t].q)) + Coming(t), returned'[reg[t].q])
<1> DEFINE q == reg[t].q
           a(X) == Cardinality(Left(db, q, X))
           b(X) == Cardinality(Left(db', q, X))
           c == Cardinality(Held(db, "inflight", q))
           d == Cardinality(Held(db', "inflight", q))
           k == returned[q]
           l == returned'[q]
<1>0. t \in Procs /\ reg[t].n \in Nat /\ reg[t].seen \in Nat /\ reg[t].pol.quota \in Nat
  BY PolicyAssumption DEF Procs, TypeOK, Registers, NamespacePolicy
<1>1. pc'[t] \in QueueOps
  BY DEF Kept
<1>2. \A X : /\ a(X) \in Nat /\ b(X) \in Nat /\ c \in Nat /\ d \in Nat /\ k \in Nat /\ l \in Nat
             /\ b(X) + k <= a(X) + l /\ d <= c /\ k <= l
  BY <1>1, BacklogHeld
<1>3. Coming(t) \in Nat
  BY <1>0, PartFinite DEF Coming, Finite
<1>4. /\ pc[t] = "enq_inflight" => a({}) <= reg[t].seen + k
      /\ pc[t] = "enq_evict" => /\ reg[t].pol.backlog = "EvictOldest"
                                /\ a({}) + c + reg[t].n <= k + reg[t].pol.quota + reg[t].seen
      /\ pc[t] \in Nearing => Within(a(batch[t].del) + c + Coming(t), k)
  BY DEF Quotas
<1> HIDE DEF a, b, c, d, k, l
<1>5. pc[t] = "enq_inflight" => b({}) <= reg[t].seen + l
  BY <1>0, <1>2, <1>4
<1>6. pc[t] = "enq_evict" => /\ reg[t].pol.backlog = "EvictOldest"
                             /\ b({}) + d + reg[t].n <= l + reg[t].pol.quota + reg[t].seen
  BY <1>0, <1>2, <1>4
<1>7. ASSUME pc[t] \in Nearing PROVE Within(b(batch[t].del) + d + Coming(t), l)
  <2> DEFINE u == a(batch[t].del) + c + Coming(t)
             v == b(batch[t].del) + d + Coming(t)
  <2>1. u \in Nat /\ v \in Nat /\ k \in Nat /\ l \in Nat /\ v + k <= u + l
    BY <1>2, <1>3
  <2>2. Within(u, k)
    BY <1>4, <1>7
  <2> HIDE DEF u, v
  <2>3. Within(v, l)
    BY <2>1, <2>2, WithinGrows
  <2> QED
    BY <2>3 DEF v
<1> QED
  BY <1>5, <1>6, <1>7 DEF a, b, c, d, k, l

\* A commit of t keeps the bound of its queue.
LEMMA CommitKeepsBound ==
  ASSUME TypeOK, TypeOK', Finite, Finite', Carrying, Contents, Quotas, NEW t \in Threads, Commits(t),
         pc[t] \in {"enq_write", "deq_write"}
  PROVE  Within(Cardinality(Left(db', reg[t].q, {})) + Cardinality(Held(db', "inflight", reg[t].q)),
                returned'[reg[t].q])
<1> DEFINE q == reg[t].q
           m == Cardinality({x \in batch[t].put : x.cf # "dlq"})
           a == Cardinality(Left(db, q, batch[t].del))
           b == Cardinality(Left(db', q, {}))
           c == Cardinality(Held(db, "inflight", q))
           d == Cardinality(Held(db', "inflight", q))
<1>1. /\ a \in Nat /\ b \in Nat /\ c \in Nat /\ d \in Nat /\ m \in Nat
      /\ b + d <= a + c + m /\ returned' = returned
  BY CommitWithin
<1>2. Within(a + c + m, returned[q])
  BY DEF Quotas, Nearing, Coming
<1>3. returned[q] \in Nat
  BY DEF TypeOK, Registers, Procs
<1> HIDE DEF a, b, c, d, m, q
<1> DEFINE u == a + c + m
           v == b + d
<1>4. u \in Nat /\ v \in Nat /\ v + returned[q] <= u + returned[q]
  BY <1>1, <1>3
<1> HIDE DEF u, v
<1>5. Within(v, returned[q])
  BY <1>2, <1>3, <1>4, WithinGrows DEF u
<1> QED
  BY <1>1, <1>5 DEF v, b, d, q

\* What a step of an enqueue establishes.
LEMMA EnqueueWithin ==
  ASSUME TypeOK, TypeOK', Finite, Finite', Carrying, Contents, Holding, Unique, Capped, Quotas,
         \A pol \in Policies : pol.backlog # "None",
         NEW t \in Threads, pc'[t] \in QueueOps, Enqueue(t)
  PROVE  /\ pc'[t] = "enq_inflight" =>
              Cardinality(Left(db', reg'[t].q, {})) <= reg'[t].seen + returned'[reg'[t].q]
         /\ pc'[t] = "enq_evict" =>
              /\ reg'[t].pol.backlog = "EvictOldest"
              /\ Cardinality(Left(db', reg'[t].q, {})) + Cardinality(Held(db', "inflight", reg'[t].q))
                   + reg'[t].n <= returned'[reg'[t].q] + reg'[t].pol.quota + reg'[t].seen
         /\ pc'[t] \in {"enq_evictwrite", "enq_build"} =>
              Within(Cardinality(Left(db', reg'[t].q, batch'[t].del))
                       + Cardinality(Held(db', "inflight", reg'[t].q)) + reg'[t].n,
                     returned'[reg'[t].q])
         /\ pc'[t] = "enq_write" =>
              Within(Cardinality(Left(db', reg'[t].q, batch'[t].del))
                       + Cardinality(Held(db', "inflight", reg'[t].q))
                       + Cardinality({x \in batch'[t].put : x.cf # "dlq"}),
                     returned'[reg'[t].q])
         /\ pc'[t] # "deq_write"
<1> DEFINE q == reg[t].q
           a == Cardinality(Left(db, q, {}))
           c == Cardinality(Held(db, "inflight", q))
           k == returned[q]
           n == reg[t].n
           pol == reg[t].pol
<1>0. /\ t \in Procs /\ n \in Nat /\ reg[t].seen \in Nat /\ pol.quota \in Nat /\ pol.maxInflight \in Nat
      /\ pol \in Policies /\ q \in Queues /\ k \in Nat
  BY PolicyAssumption DEF Procs, TypeOK, Registers, NamespacePolicy
<1>f. a \in Nat /\ c \in Nat
  BY PartFinite DEF Finite, Left, Held
<1>d. pc'[t] # "deq_write"
  BY EnqueueTurn
<1>1. ASSUME NEW o \in Queues, NEW m \in 1 .. MaxBatch, NEW p \in Policies, EnqueueBegin(t, o, m, p)
      PROVE  pc'[t] = "enq_pending"
  BY <1>1, EnqueueBeginFacts
<1>2. CASE EnqueueCountPending(t)
  <2>1. db' = db /\ returned' = returned /\ reg'[t].q = q /\ pc'[t] = "enq_inflight" /\ reg'[t].seen = a
    BY <1>2, EnqueueCountFacts, LeftNow DEF Stored, Waiting
  <2> HIDE DEF a
  <2>2. a <= reg'[t].seen + k
    BY <1>0, <1>f, <2>1
  <2> QED
    BY <2>1, <2>2 DEF a
<1>c. Current(t) = reg[t].seen + c
  BY HeldNow DEF Current
<1>3. CASE QuotaFits(t)
  <2>1. /\ db' = db /\ returned' = returned /\ reg'[t].q = q /\ pc[t] = "enq_inflight"
        /\ pc'[t] = "enq_build" /\ reg'[t].n = n /\ batch'[t] = batch[t] /\ Fits(t)
    BY <1>3, QuotaFitsFacts DEF Stored
  <2>2. batch[t].del = {}
    BY <1>0, <2>1 DEF Carrying, Writes, Settling
  <2>3. a <= reg[t].seen + k /\ reg[t].seen + c + n <= pol.quota
    BY <1>c, <2>1 DEF Quotas, Fits
  <2> HIDE DEF a, c, k, n, pol
  <2>4. a + c + n <= k + pol.quota /\ pol.quota <= Bound(pol, pol) /\ Bound(pol, pol) \in Nat
    BY <1>0, <1>f, <2>3, BoundType
  <2>5. a + c + n <= k + Bound(pol, pol)
    BY <1>0, <1>f, <2>4
  <2>6. Within(a + c + n, k)
    BY <1>0, <2>5 DEF Within
  <2> QED
    BY <2>1, <2>2, <2>6 DEF a, c, k, n
<1>4. CASE QuotaExceeded(t)
  BY <1>0, <1>4, GivesUp, ReturnFacts DEF Gives
<1>5. CASE QuotaWait(t)
  BY <1>5, QuotaWaitFacts
<1>6. CASE QuotaEvict(t)
  <2>1. /\ db' = db /\ returned' = returned /\ reg'[t].q = q /\ pc[t] = "enq_inflight"
        /\ pc'[t] = "enq_evict" /\ reg'[t].n = n /\ reg'[t].pol = pol
        /\ reg'[t].seen = (reg[t].seen + c + n) - pol.quota
        /\ pol.backlog = "EvictOldest"
    BY <1>6, <1>c, QuotaEvictFacts DEF Stored, Excess
  <2>2. a <= reg[t].seen + k
    BY <2>1 DEF Quotas
  <2> HIDE DEF a, c, k, n, pol
  <2>3. a + c + n <= k + pol.quota + reg'[t].seen
    BY <1>0, <1>f, <2>1, <2>2
  <2> QED
    BY <2>1, <2>3 DEF a, c, k, n, pol
<1>7. CASE EvictScan(t)
  <2> DEFINE b == Cardinality(Left(db, q, batch'[t].del))
  <2>1. /\ db' = db /\ returned' = returned /\ reg'[t].q = q /\ pc[t] = "enq_evict"
        /\ pc'[t] = "enq_evictwrite" /\ reg'[t].n = n
    BY <1>7, EvictScanFacts DEF Stored, Plans
  <2>2. b \in Nat /\ (b = 0 \/ b + reg[t].seen <= a)
    BY <1>7, EvictWithin
  <2>3. pol.backlog = "EvictOldest" /\ a + c + n <= k + pol.quota + reg[t].seen
    BY <2>1 DEF Quotas
  <2>4. PICK other \in Policies : c <= other.maxInflight
    BY <1>0 DEF Capped
  <2>5. other.maxInflight \in Nat /\ n <= MaxBatch /\ MaxBatch \in Nat
    BY <2>1, PolicyAssumption, BoundAssumption DEF NamespacePolicy, Holding, QueueOps
  <2> HIDE DEF a, b, c, k, n, pol
  <2>6. /\ Bound(pol, other) \in Nat /\ pol.quota <= Bound(pol, other)
        /\ other.maxInflight + MaxBatch <= Bound(pol, other)
    BY <1>0, <2>3, BoundType
  <2>7. b + c + n <= k + Bound(pol, other)
    BY <1>0, <1>f, <2>2, <2>3, <2>4, <2>5, <2>6
  <2>8. Within(b + c + n, k)
    BY <1>0, <2>7 DEF Within
  <2> QED
    BY <2>1, <2>8 DEF b, c, k, n
<1>8. CASE EvictWrite(t)
  <2> DEFINE e == Cardinality(Left(db, q, batch[t].del))
             b == Cardinality(Left(db', q, {}))
             d == Cardinality(Held(db', "inflight", q))
  <2>1. Commits(t) /\ Leaves(t) /\ pc[t] = "enq_evictwrite"
    BY <1>8, EvictWriteFacts DEF EvictWrite
  <2>2. /\ reg'[t].q = q /\ reg'[t].n = n /\ pc'[t] = "enq_build" /\ batch'[t].del = {}
    BY <2>1 DEF Leaves, NoBatch
  <2>3. e \in Nat /\ b \in Nat /\ c \in Nat /\ d \in Nat /\ b <= e /\ d <= c /\ returned' = returned
    BY <2>1, CommitWithin
  <2>4. Within(e + c + n, k)
    BY <2>1 DEF Quotas, Nearing, Coming
  <2> HIDE DEF e, b, c, d, k, n
  <2>5. Within(b + d + n, k)
    <3> DEFINE u == e + c + n
               v == b + d + n
    <3>1. u \in Nat /\ v \in Nat /\ v + k <= u + k
      BY <1>0, <2>3
    <3> HIDE DEF u, v
    <3>2. Within(v, k)
      BY <1>0, <2>4, <3>1, WithinGrows DEF u
    <3> QED
      BY <3>2 DEF v
  <2> QED
    BY <2>2, <2>3, <2>5 DEF b, d, k, n
<1>9. CASE EnqueueBuild(t)
  <2> DEFINE m == Cardinality({x \in batch'[t].put : x.cf # "dlq"})
  <2>1. /\ db' = db /\ returned' = returned /\ reg'[t].q = q /\ pc[t] = "enq_build"
        /\ pc'[t] = "enq_write" /\ batch'[t].del = {}
    BY <1>9, EnqueueBuildFacts DEF Stored, Plans, Places
  <2>2. m \in Nat /\ m <= n
    BY <1>9, BuildWithin
  <2>3. batch[t].del = {}
    BY <1>0, <2>1 DEF Carrying, Writes, Settling
  <2>4. Within(a + c + n, k)
    BY <2>1, <2>3 DEF Quotas, Nearing, Coming
  <2> HIDE DEF a, c, k, n, m
  <2>5. Within(a + c + m, k)
    <3> DEFINE u == a + c + n
               v == a + c + m
    <3>1. u \in Nat /\ v \in Nat /\ v + k <= u + k
      BY <1>0, <1>f, <2>2
    <3> HIDE DEF u, v
    <3>2. Within(v, k)
      BY <1>0, <2>4, <3>1, WithinGrows DEF u
    <3> QED
      BY <3>2 DEF v
  <2> QED
    BY <2>1, <2>5 DEF a, c, k, m
<1>10. CASE EnqueueWrite(t)
  <2>1. Leaves(t) /\ pc[t] = "enq_write"
    BY <1>10, EnqueueWriteFacts DEF EnqueueWrite
  <2>2. pc'[t] = "idle"
    BY <2>1 DEF Leaves
  <2> QED
    BY <2>2
<1> HIDE DEF a, c, k, n, pol, q
<1>11. ASSUME NEW o \in Queues, NEW m \in 1 .. MaxBatch, NEW p \in Policies, EnqueueBegin(t, o, m, p)
       PROVE  pc'[t] = "enq_pending"
  BY <1>1, <1>11
<1> QED
  BY <1>2, <1>3, <1>4, <1>5, <1>6, <1>7, <1>8, <1>9, <1>10, <1>11, <1>d DEF Enqueue

LEMMA QuotasStep ==
  ASSUME TypeOK, TypeOK', Finite, Finite', Carrying, Contents, Holding, Unique, Capped, Quotas,
         \A pol \in Policies : pol.backlog # "None", [Next]_vars
  PROVE  Quotas'
<1>1. ASSUME NEW q \in Queues
      PROVE  Within(Cardinality(Left(db', q, {})) + Cardinality(Held(db', "inflight", q)), returned'[q])
  <2> DEFINE a == Cardinality(Left(db, q, {}))
             b == Cardinality(Left(db', q, {}))
             c == Cardinality(Held(db, "inflight", q))
             d == Cardinality(Held(db', "inflight", q))
             k == returned[q]
             l == returned'[q]
             Grew == \E p \in Procs : /\ Commits(p) /\ Leaves(p) /\ reg[p].q = q
                                      /\ pc[p] \in {"enq_write", "deq_write"}
  <2>1. /\ a \in Nat /\ b \in Nat /\ c \in Nat /\ d \in Nat /\ k \in Nat /\ l \in Nat
        /\ (b + k <= a + l /\ d <= c) \/ Grew
    BY BacklogStep
  <2>2. Within(a + c, k)
    BY DEF Quotas
  <2>3. CASE Grew
    <3>1. PICK p \in Procs : Commits(p) /\ reg[p].q = q /\ pc[p] \in {"enq_write", "deq_write"}
      BY <2>3
    <3>2. p \in Threads
      BY <3>1 DEF Holding, Procs
    <3> QED
      BY <3>1, <3>2, CommitKeepsBound
  <2> HIDE DEF a, b, c, d, k, l, Grew
  <2>4. CASE b + k <= a + l /\ d <= c
    <3> DEFINE u == a + c
               v == b + d
    <3>1. u \in Nat /\ v \in Nat /\ v + k <= u + l
      BY <2>1, <2>4
    <3> HIDE DEF u, v
    <3>2. Within(v, l)
      BY <2>1, <2>2, <3>1, WithinGrows DEF u
    <3> QED
      BY <3>2 DEF v, b, d, l
  <2> QED
    BY <2>1, <2>3, <2>4
<1>2. ASSUME NEW t \in Threads, pc'[t] \in QueueOps
      PROVE  /\ pc'[t] = "enq_inflight" =>
                  Cardinality(Left(db', reg'[t].q, {})) <= reg'[t].seen + returned'[reg'[t].q]
             /\ pc'[t] = "enq_evict" =>
                  /\ reg'[t].pol.backlog = "EvictOldest"
                  /\ Cardinality(Left(db', reg'[t].q, {})) + Cardinality(Held(db', "inflight", reg'[t].q))
                       + reg'[t].n <= returned'[reg'[t].q] + reg'[t].pol.quota + reg'[t].seen
             /\ pc'[t] \in {"enq_evictwrite", "enq_build"} =>
                  Within(Cardinality(Left(db', reg'[t].q, batch'[t].del))
                           + Cardinality(Held(db', "inflight", reg'[t].q)) + reg'[t].n,
                         returned'[reg'[t].q])
             /\ pc'[t] \in {"enq_write", "deq_write"} =>
                  Within(Cardinality(Left(db', reg'[t].q, batch'[t].del))
                           + Cardinality(Held(db', "inflight", reg'[t].q))
                           + Cardinality({x \in batch'[t].put : x.cf # "dlq"}),
                         returned'[reg'[t].q])
  <2>1. CASE Kept(t)
    <3>1. pc'[t] = pc[t] /\ reg'[t] = reg[t] /\ batch'[t] = batch[t] /\ pc[t] \in QueueOps
      BY <1>2, <2>1 DEF Kept
    <3>2. /\ pc[t] \in {"enq_evictwrite", "enq_build"} => pc[t] \in Nearing /\ Coming(t) = reg[t].n
          /\ pc[t] \in {"enq_write", "deq_write"} =>
               pc[t] \in Nearing /\ Coming(t) = Cardinality({x \in batch[t].put : x.cf # "dlq"})
      BY DEF Nearing, Coming
    <3> QED
      BY <2>1, <3>1, <3>2, PlanKept
  <2>2. CASE Enqueue(t)
    BY <1>2, <2>2, EnqueueWithin
  <2>3. CASE Dequeue(t)
    <3>0. t \in Procs
      BY DEF Procs
    <3>1. ASSUME NEW q \in Queues, NEW n \in 1 .. MaxBatch, NEW pol \in Policies,
                 DequeueBegin(t, q, n, pol) \/ DequeueUncappedBegin(t, q, n)
          PROVE  pc'[t] \in {"deq_count", "deq_scan"}
      BY <3>1, DequeueBeginFacts, DequeueUncappedFacts
    <3>2. CASE DequeueCount(t)
      BY <3>2, DequeueCountFacts
    <3>3. CASE DequeueAtCap(t) \/ DequeueEmpty(t)
      BY <3>0, <3>3, GivesUp, ReturnFacts DEF Gives
    <3>4. CASE DequeueWrite(t)
      <4>1. Leaves(t) /\ pc[t] = "deq_write"
        BY <3>4, DequeueWriteFacts DEF DequeueWrite
      <4>2. pc'[t] = "idle"
        BY <4>1 DEF Leaves
      <4> QED
        BY <4>2
    <3>5. CASE DequeueScan(t)
      <4> DEFINE q == reg[t].q
                 m == Cardinality({x \in batch'[t].put : x.cf # "dlq"})
                 a == Cardinality(Left(db, q, {}))
                 b == Cardinality(Left(db, q, batch'[t].del))
                 c == Cardinality(Held(db, "inflight", q))
                 k == returned[q]
      <4>1. db' = db /\ returned' = returned /\ reg'[t].q = q /\ pc'[t] = "deq_write"
        BY <3>5, DequeueScanFacts DEF Stored, Plans
      <4>2. a \in Nat /\ b \in Nat /\ m \in Nat /\ b + m <= a
        BY <3>5, ScanWithin
      <4>3. q \in Queues /\ k \in Nat
        BY <3>0 DEF TypeOK, Registers
      <4>4. c \in Nat
        BY PartFinite DEF Finite, Held
      <4>5. Within(a + c, k)
        BY <4>3 DEF Quotas
      <4> HIDE DEF a, b, c, k, m
      <4>6. Within(b + c + m, k)
        <5> DEFINE u == a + c
                   v == b + c + m
        <5>1. u \in Nat /\ v \in Nat /\ v + k <= u + k
          BY <4>2, <4>3, <4>4
        <5> HIDE DEF u, v
        <5>2. Within(v, k)
          BY <4>3, <4>5, <5>1, WithinGrows DEF u
        <5> QED
          BY <5>2 DEF v
      <4> QED
        BY <4>1, <4>6 DEF b, c, k, m
    <3> QED
      BY <2>3, <3>1, <3>2, <3>3, <3>4, <3>5, PolicyAssumption DEF Dequeue
  <2> QED
    BY <1>2, <2>1, <2>2, <2>3, QueueTurn
<1>3. ASSUME NEW t \in Threads
      PROVE  /\ pc'[t] = "enq_inflight" =>
                  Cardinality(Left(db', reg'[t].q, {})) <= reg'[t].seen + returned'[reg'[t].q]
             /\ pc'[t] = "enq_evict" =>
                  /\ reg'[t].pol.backlog = "EvictOldest"
                  /\ Cardinality(Left(db', reg'[t].q, {})) + Cardinality(Held(db', "inflight", reg'[t].q))
                       + reg'[t].n <= returned'[reg'[t].q] + reg'[t].pol.quota + reg'[t].seen
             /\ pc'[t] \in Nearing =>
                  Within(Cardinality(Left(db', reg'[t].q, batch'[t].del))
                           + Cardinality(Held(db', "inflight", reg'[t].q)) + Coming(t)',
                         returned'[reg'[t].q])
  <2>1. pc'[t] \in {"enq_evictwrite", "enq_build"} => Coming(t)' = reg'[t].n
    BY DEF Coming
  <2>2. pc'[t] \in {"enq_write", "deq_write"} =>
          Coming(t)' = Cardinality({x \in batch'[t].put : x.cf # "dlq"})
    BY DEF Coming
  <2>3. CASE pc'[t] \in QueueOps
    BY <1>2, <2>1, <2>2, <2>3 DEF Nearing
  <2>4. CASE pc'[t] \notin QueueOps
    BY <2>4 DEF QueueOps, Nearing
  <2> QED
    BY <2>3, <2>4
<1> QED
  BY <1>1, <1>3 DEF Quotas

QuotaInv == CapInv /\ Quotas

LEMMA QuotaInit == Init => QuotaInv
<1> SUFFICES ASSUME Init PROVE QuotaInv
  OBVIOUS
<1>1. /\ db = {} /\ (\A t \in Threads : pc[t] = "idle") /\ \A q \in Queues : returned[q] = 0
  BY DEF Init, Procs
<1>2. \A q : Cardinality(Left(db, q, {})) = 0 /\ Cardinality(Held(db, "inflight", q)) = 0
  <2>1. \A q : Left(db, q, {}) = {} /\ Held(db, "inflight", q) = {}
    BY <1>1 DEF Left, Held
  <2> QED
    BY <2>1, FS_EmptySet
<1>3. Within(0, 0)
  <2>1. PICK pol \in Policies : TRUE
    BY PolicyAssumption
  <2>2. Bound(pol, pol) \in Nat
    BY BoundType
  <2>3. 0 <= 0 + Bound(pol, pol)
    BY <2>2
  <2> QED
    BY <2>3 DEF Within
<1>4. \A q \in Queues :
        Within(Cardinality(Left(db, q, {})) + Cardinality(Held(db, "inflight", q)), returned[q])
  BY <1>1, <1>2, <1>3
<1>5. Quotas
  BY <1>1, <1>4 DEF Quotas, Nearing
<1> QED
  BY <1>5, CapInit DEF QuotaInv

LEMMA QuotaStep ==
  ASSUME "dequeue_uncapped" \notin Requests, \A pol \in Policies : pol.backlog # "None",
         QuotaInv, [Next]_vars
  PROVE  QuotaInv'
<1>1. CapInv'
  BY CapStep DEF QuotaInv
<1>2. /\ TypeOK /\ Finite /\ Carrying /\ Holding /\ Contents /\ Unique /\ Capped /\ Quotas
      /\ TypeOK' /\ Finite'
  BY <1>1 DEF QuotaInv, CapInv, LockInv
<1> QED
  BY <1>1, <1>2, QuotasStep DEF QuotaInv

LEMMA QuotasBound ==
  ASSUME QuotaInv
  PROVE  QuotaBound
<1> SUFFICES ASSUME NEW q \in Queues
             PROVE  \E pol, other \in Policies : Cardinality(Backlog(q)) <= returned[q] + Bound(pol, other)
  BY DEF QuotaBound, Bound
<1> DEFINE A == Left(db, q, {})
           C == Held(db, "inflight", q)
           k == Cardinality(Backlog(q))
<1>1. IsFiniteSet(A) /\ IsFiniteSet(C)
  BY PartFinite DEF Left, Held, QuotaInv, CapInv, LockInv, Finite
<1>2. Backlog(q) \subseteq A \cup C
  BY LeftNow, HeldNow DEF Backlog
<1>3. /\ k <= Cardinality(A) + Cardinality(C) /\ k \in Nat
      /\ Cardinality(A) \in Nat /\ Cardinality(C) \in Nat
  BY <1>1, <1>2, SumBound
<1>4. PICK pol \in Policies, other \in Policies :
        Cardinality(A) + Cardinality(C) <= returned[q] + Bound(pol, other)
  BY DEF QuotaInv, Quotas, Within
<1>5. returned[q] \in Nat /\ Bound(pol, other) \in Nat
  BY BoundType DEF QuotaInv, CapInv, LockInv, TypeOK
<1> HIDE DEF A, C, k
<1>6. k <= returned[q] + Bound(pol, other)
  BY <1>3, <1>4, <1>5
<1> QED
  BY <1>6 DEF k

\* The quota check of enqueue, its eviction and its wait bound the backlog by
\* the quota of some policy in force, plus what nack, reap and replay put
\* back without a check, however the counts of depth and the commits of
\* others interleave; eviction can do no better than what is in flight and
\* one batch.
THEOREM BacklogBounded ==
  ASSUME "dequeue_uncapped" \notin Requests
  PROVE  Spec => []QuotaBound
<1>1. CASE \E pol \in Policies : pol.backlog = "None"
  <2>1. QuotaBound
    BY <1>1 DEF QuotaBound
  <2> QED
    BY <2>1, PTL
<1>2. CASE \A pol \in Policies : pol.backlog # "None"
  <2>1. QuotaInv => QuotaBound
    BY QuotasBound
  <2>2. QuotaInv /\ [Next]_vars => QuotaInv'
    BY <1>2, QuotaStep
  <2> QED
    BY <2>1, <2>2, QuotaInit, PTL DEF Spec
<1> QED
  BY <1>1, <1>2

(***************************************************************************)
(* The refinement: counting                                                *)
(***************************************************************************)
\* A charge of one to each member of S raises the positive counts by S.
LEMMA CountedIds ==
  ASSUME NEW old \in [Ids -> Nat], NEW S, S \subseteq Rec, IsFiniteSet(S),
         NEW new, new = [i \in Ids |-> old[i] + Cardinality({r \in S : r.id = i})]
  PROVE  /\ {i \in Ids : new[i] > 0} = {i \in Ids : old[i] > 0} \cup IdsOf(S)
         /\ IdsOf(S) \subseteq Ids
<1> DEFINE C(i) == {r \in S : r.id = i}
<1>1. \A i : IsFiniteSet(C(i)) /\ Cardinality(C(i)) \in Nat
  BY PartFinite
<1>2. \A i : Cardinality(C(i)) = 0 <=> C(i) = {}
  BY <1>1, FS_EmptySet
<1>3. \A i : C(i) = {} <=> i \notin IdsOf(S)
  BY DEF IdsOf
<1>4. IdsOf(S) \subseteq Ids
  BY DEF IdsOf, Rec
<1>5. \A i \in Ids : new[i] = old[i] + Cardinality(C(i)) /\ old[i] \in Nat
  OBVIOUS
<1> HIDE DEF C
<1>6. \A i \in Ids : new[i] > 0 <=> old[i] > 0 \/ i \in IdsOf(S)
  BY <1>1, <1>2, <1>3, <1>5
<1> QED
  BY <1>4, <1>6

(***************************************************************************)
(* What is in flight was delivered                                         *)
(***************************************************************************)
\* What an acknowledgement may find.
Acks == {"ack_read", "ack_write", "cum_write"}

Reached ==
  /\ \A r \in In("inflight") : deliveries[r.id] > 0
  /\ \A p \in Procs : pc[p] \in Acks => \A r \in reg[p].found : deliveries[r.id] > 0

LEMMA DeliveriesGrow ==
  ASSUME TypeOK, TypeOK', Finite, Carrying, [Next]_vars, NEW i \in Ids, deliveries[i] > 0
  PROVE  deliveries'[i] > 0
<1>0. deliveries[i] \in Nat
  BY DEF TypeOK
<1>1. ASSUME NEW p \in Procs, Commits(p) PROVE deliveries'[i] > 0
  <2>1. CASE pc[p] # "deq_write"
    BY <1>1, <2>1 DEF Commits
  <2>2. CASE pc[p] = "deq_write"
    <3> DEFINE C == {r \in {x \in batch[p].put : x.cf = "inflight"} : r.id = i}
    <3>1. Cardinality(C) \in Nat
      BY PartFinite DEF Finite
    <3>2. deliveries'[i] = deliveries[i] + Cardinality(C)
      BY <1>1, <2>2 DEF Commits
    <3> HIDE DEF C
    <3> QED
      BY <1>0, <3>1, <3>2
  <2> QED
    BY <2>1, <2>2
<1>2. ASSUME deliveries' = deliveries PROVE deliveries'[i] > 0
  BY <1>2
<1>3. CASE Rests
  BY <1>2, <1>3 DEF Rests, Stored
<1>4. ASSUME NEW p \in Procs, NEW S \in SUBSET db, Scans(p, S) PROVE deliveries'[i] > 0
  BY <1>2, <1>4 DEF Scans, Stored
<1>5. ASSUME NEW t \in Threads, EnqueueBuild(t) PROVE deliveries'[i] > 0
  BY <1>2, <1>5, EnqueueBuildFacts DEF Plans, Stored
<1>6. ASSUME NEW r, NEW x, Rewrites(r, x) \/ Drops(r) PROVE deliveries'[i] > 0
  BY <1>2, <1>6 DEF Rewrites, Drops
<1> QED
  BY <1>1, <1>3, <1>4, <1>5, <1>6, StepShapes

LEMMA ReachedStep ==
  ASSUME TypeOK, TypeOK', Finite, Carrying, Contents, Reached, [Next]_vars
  PROVE  Reached'
<1>g. \A i \in Ids : deliveries[i] > 0 => deliveries'[i] > 0
  BY DeliveriesGrow
<1>t. /\ \A r \in db : r \in Rec /\ r.id \in Ids
      /\ \A p \in Procs : \A r \in reg[p].found \cup batch[p].put : r \in Rec /\ r.id \in Ids
  BY DEF TypeOK, Registers, Batch, Rec
<1>d. \A r \in db : r.cf = "inflight" => deliveries'[r.id] > 0
  BY <1>g, <1>t DEF Reached, In
<1>f. \A p \in Procs : pc[p] \in Acks => \A r \in reg[p].found : deliveries'[r.id] > 0
  BY <1>g, <1>t DEF Reached
<1>k. ASSUME NEW p \in Procs, Kept(p) PROVE pc'[p] \in Acks => \A r \in reg'[p].found : deliveries'[r.id] > 0
  BY <1>k, <1>f DEF Kept
<1>i. ASSUME \A r \in db' : r.cf = "inflight" => deliveries'[r.id] > 0,
             \A p \in Procs : pc'[p] \in Acks => \A r \in reg'[p].found : deliveries'[r.id] > 0
      PROVE  Reached'
  BY <1>i DEF Reached, In
<1>1. CASE Rests
  <2>1. db' = db
    BY <1>1 DEF Rests, Stored
  <2>2. \A p \in Procs : pc'[p] \in Acks => \A r \in reg'[p].found : deliveries'[r.id] > 0
    BY <1>1, <1>k DEF Rests, Emptied
  <2> QED
    BY <1>d, <1>i, <2>1, <2>2
<1>2. ASSUME NEW p \in Procs, NEW S \in SUBSET db, Scans(p, S) PROVE Reached'
  <2>1. db' = db /\ Alone(p) /\ \A r \in S : Finds(p, r)
    BY <1>2 DEF Scans, Stored
  <2>2. ASSUME pc'[p] \in Acks PROVE \A r \in reg'[p].found : deliveries'[r.id] > 0
    <3>1. reg'[p].found = reg[p].found \cup S /\ \A r \in S : r.cf = "inflight"
      BY <1>2, <2>1, <2>2 DEF Scans, Acks, Settling, Finds
    <3>2. \A r \in reg[p].found : deliveries'[r.id] > 0
      <4>1. CASE pc[p] = "ack_read"
        BY <1>f, <4>1 DEF Acks
      <4>2. CASE pc[p] # "ack_read"
        BY <1>2, <4>2 DEF Carrying, Scans, Writes
      <4> QED
        BY <4>1, <4>2
    <3> QED
      BY <1>d, <3>1, <3>2
  <2>3. \A o \in Procs \ {p} : pc'[o] \in Acks => \A r \in reg'[o].found : deliveries'[r.id] > 0
    BY <1>k, <2>1 DEF Alone
  <2> QED
    BY <1>d, <1>i, <2>1, <2>2, <2>3
<1>3. ASSUME NEW t \in Threads, EnqueueBuild(t) PROVE Reached'
  <2>1. db' = db /\ Alone(t) /\ pc'[t] = "enq_write" /\ t \in Procs
    BY <1>3, EnqueueBuildFacts DEF Plans, Stored, Procs
  <2>2. \A o \in Procs : pc'[o] \in Acks => \A r \in reg'[o].found : deliveries'[r.id] > 0
    BY <1>k, <2>1 DEF Alone, Acks
  <2> QED
    BY <1>d, <1>i, <2>1, <2>2
<1>4. ASSUME NEW p \in Procs, Commits(p), Leaves(p) PROVE Reached'
  <2>1. db' = Applied(batch[p]) /\ Alone(p) /\ pc'[p] \in {"idle", "enq_build"}
    BY <1>4 DEF Commits, Leaves
  <2>2. \A r \in db' : r \in db \/ r \in batch[p].put
    BY <2>1 DEF Applied
  <2>3. ASSUME NEW x \in batch[p].put, x.cf = "inflight" PROVE deliveries'[x.id] > 0
    <3> DEFINE O == {y \in batch[p].put : y.cf = "inflight"}
    <3>1. pc[p] = "deq_write"
      BY <2>3 DEF Contents, ContentsOf
    <3>2. deliveries' = [i \in Ids |-> deliveries[i] + Cardinality({r \in O : r.id = i})]
      BY <1>4, <3>1 DEF Commits
    <3>3. O \subseteq Rec /\ IsFiniteSet(O) /\ deliveries \in [Ids -> Nat]
      BY <1>t, PartFinite DEF Finite, TypeOK
    <3>4. x.id \in IdsOf(O)
      BY <2>3 DEF IdsOf
    <3> HIDE DEF O
    <3>5. IdsOf(O) \subseteq {i \in Ids : deliveries'[i] > 0}
      BY <3>2, <3>3, CountedIds
    <3> QED
      BY <3>4, <3>5
  <2>4. \A o \in Procs : pc'[o] \in Acks => \A r \in reg'[o].found : deliveries'[r.id] > 0
    BY <1>k, <2>1 DEF Alone, Acks
  <2> QED
    BY <1>d, <1>i, <2>2, <2>3, <2>4
<1>5. ASSUME NEW r \in Rec, NEW x \in Rec, Rewrites(r, x) PROVE Reached'
  <2>1. /\ r \in db /\ db' = (db \ {r}) \cup {x} /\ x.id = r.id /\ x.cf = r.cf
        /\ \A p \in Procs : Kept(p)
    BY <1>5 DEF Rewrites, Kept
  <2> QED
    BY <1>d, <1>i, <1>k, <2>1
<1>6. ASSUME NEW r \in Rec, Drops(r) PROVE Reached'
  <2>1. db' \subseteq db /\ \A p \in Procs : Kept(p)
    BY <1>6 DEF Drops, Kept
  <2> QED
    BY <1>d, <1>i, <1>k, <2>1
<1> QED
  BY <1>1, <1>2, <1>3, <1>4, <1>5, <1>6, StepShapes

(***************************************************************************)
(* A move writes back what is stored, or was settled meanwhile             *)
(***************************************************************************)
Moves == PutBacks \cup {"deq_write"}

WrittenBack ==
  \A p \in Procs : pc[p] \in Moves => IdsOf(batch[p].put) \subseteq IdsOf(db) \cup settled

\* A task leaves the store settled.
LEMMA NothingVanishes ==
  ASSUME TypeOK, Finite, Carrying, Safe, [Next]_vars
  PROVE  IdsOf(db) \cup settled \subseteq IdsOf(db') \cup settled'
<1>1. CASE Rests
  BY <1>1 DEF Rests, Stored
<1>2. ASSUME NEW p \in Procs, NEW S \in SUBSET db, Scans(p, S)
      PROVE  IdsOf(db) \cup settled \subseteq IdsOf(db') \cup settled'
  BY <1>2 DEF Scans, Stored
<1>3. ASSUME NEW t \in Threads, EnqueueBuild(t)
      PROVE  IdsOf(db) \cup settled \subseteq IdsOf(db') \cup settled'
  BY <1>3, EnqueueBuildFacts DEF Plans, Stored
<1>4. ASSUME NEW p \in Procs, Commits(p)
      PROVE  IdsOf(db) \cup settled \subseteq IdsOf(db') \cup settled'
  <2>1. db' = Applied(batch[p]) /\ settled' = settled \cup IdsOf(reg[p].found)
    BY <1>4 DEF Commits
  <2>2. /\ IdsOf(db) \subseteq IdsOf(db') \cup IdsOf(Covering(p))
        /\ batch[p].put \subseteq db'
    BY <2>1, CommitCovers
  <2>3. IdsOf(Covering(p)) \subseteq IdsOf(db') \cup settled'
    BY <2>1, <2>2 DEF Covering, IdsOf
  <2> QED
    BY <2>1, <2>2, <2>3
<1>5. ASSUME NEW r \in Rec, NEW x \in Rec, Rewrites(r, x)
      PROVE  IdsOf(db) \cup settled \subseteq IdsOf(db') \cup settled'
  <2>1. db' = (db \ {r}) \cup {x} /\ x.id = r.id /\ settled' = settled
    BY <1>5 DEF Rewrites
  <2> QED
    BY <2>1 DEF IdsOf
<1>6. ASSUME NEW r \in Rec, Drops(r)
      PROVE  IdsOf(db) \cup settled \subseteq IdsOf(db') \cup settled'
  <2>1. db' = db \ {r} /\ settled' = settled \cup {r.id}
    BY <1>6 DEF Drops
  <2> QED
    BY <2>1 DEF IdsOf
<1> QED
  BY <1>1, <1>2, <1>3, <1>4, <1>5, <1>6, StepShapes

LEMMA WrittenBackStep ==
  ASSUME TypeOK, Finite, Carrying, Safe, WrittenBack, [Next]_vars
  PROVE  WrittenBack'
<1>v. IdsOf(db) \cup settled \subseteq IdsOf(db') \cup settled'
  BY NothingVanishes
<1> SUFFICES ASSUME NEW p \in Procs, pc'[p] \in Moves
             PROVE  IdsOf(batch'[p].put) \subseteq IdsOf(db') \cup settled'
  BY DEF WrittenBack
<1>k. CASE Kept(p)
  BY <1>k, <1>v DEF Kept, WrittenBack
<1>m. pc'[p] \in Writes /\ pc'[p] \notin Settling /\ pc'[p] \notin {"idle", "enq_build", "enq_write"}
  BY DEF Moves, PutBacks, Writes, Settling
<1>1. CASE Rests
  BY <1>1, <1>k, <1>m DEF Rests, Emptied, Settling
<1>2. ASSUME NEW o \in Procs, NEW S \in SUBSET db, Scans(o, S)
      PROVE  IdsOf(batch'[p].put) \subseteq IdsOf(db') \cup settled'
  <2>1. Alone(o)
    BY <1>2 DEF Scans
  <2>2. CASE o # p
    BY <1>k, <2>1, <2>2 DEF Alone
  <2>3. CASE o = p
    <3>1. S \subseteq Rec /\ \A x \in batch'[p].put : \E r \in S : Moved(p, r, x)
      BY <1>2, <1>m, <2>3 DEF Scans, TypeOK
    <3>2. ASSUME NEW r \in Rec, NEW x, Moved(p, r, x) PROVE x.id = r.id
      BY <3>2, MovedFields
    <3>3. \A x \in batch'[p].put : x.id \in IdsOf(db)
      BY <3>1, <3>2 DEF IdsOf
    <3> QED
      BY <1>v, <3>3 DEF IdsOf
  <2> QED
    BY <2>2, <2>3
<1>3. ASSUME NEW t \in Threads, EnqueueBuild(t)
      PROVE  IdsOf(batch'[p].put) \subseteq IdsOf(db') \cup settled'
  BY <1>3, <1>k, <1>m, EnqueueBuildFacts DEF Plans, Alone
<1>4. ASSUME NEW o \in Procs, Commits(o), Leaves(o)
      PROVE  IdsOf(batch'[p].put) \subseteq IdsOf(db') \cup settled'
  <2>1. Alone(o) /\ pc'[o] \in {"idle", "enq_build"}
    BY <1>4 DEF Commits, Leaves
  <2> QED
    BY <1>k, <1>m, <2>1 DEF Alone
<1>5. ASSUME NEW r, NEW x, Rewrites(r, x) \/ Drops(r) PROVE Kept(p)
  BY <1>5 DEF Rewrites, Drops, Kept
<1> QED
  BY <1>1, <1>2, <1>3, <1>4, <1>5, <1>k, StepShapes

(***************************************************************************)
(* Every step is a step of the contract                                    *)
(***************************************************************************)
ContractInv ==
  /\ TypeOK /\ Finite /\ Safe /\ Carrying /\ Contents /\ KnownIds /\ Reached /\ WrittenBack

LEMMA ContractInit == Init => ContractInv
<1> SUFFICES ASSUME Init PROVE ContractInv
  OBVIOUS
<1>1. db = {} /\ \A p \in Procs : pc[p] = "idle"
  BY DEF Init
<1>2. Reached /\ WrittenBack
  BY <1>1 DEF Reached, WrittenBack, In, Acks, Moves, PutBacks
<1> QED
  BY <1>2, SafeInit, DrainInit DEF ContractInv, DrainInv

LEMMA ContractStep ==
  ASSUME ClockAhead \/ MaxRestarts = 0, ContractInv, [Next]_vars
  PROVE  ContractInv'
<1>1. /\ TypeOK /\ Finite /\ Safe /\ Carrying /\ Contents /\ KnownIds /\ Reached /\ WrittenBack
  BY DEF ContractInv
<1>2. TypeOK' /\ Finite' /\ Safe'
  BY <1>1, TypeStep, SafeStep
<1>3. Carrying' /\ Contents' /\ KnownIds' /\ Reached' /\ WrittenBack'
  BY <1>1, <1>2, CarryingStep, ContentsStep, KnownIdsStep, ReachedStep, WrittenBackStep
<1> QED
  BY <1>2, <1>3 DEF ContractInv

LEMMA ContractAnswer ==
  ASSUME NEW S \in SUBSET Ids,
         Contract!Accept(S) \/ Contract!Deliver(S) \/ Contract!Acknowledge(S) \/ Contract!Discard(S)
  PROVE  Contract!Next
  BY DEF Contract!Next

\* A commit looks like an answer the contract allows.
LEMMA CommitSimulated ==
  ASSUME ContractInv, TypeOK', NEW p \in Procs, Commits(p)
  PROVE  Contract!Next \/ UNCHANGED Contract!vars
<1> DEFINE held == IdsOf(db)
           heldN == IdsOf(db')
           out == {x \in batch[p].put : x.cf = "inflight"}
           puts == IdsOf(batch[p].put)
           found == IdsOf(reg[p].found)
<1>0. /\ TypeOK /\ Finite /\ Safe /\ Carrying /\ Contents /\ KnownIds /\ Reached /\ WrittenBack
  BY DEF ContractInv
<1>1. /\ db' = Applied(batch[p]) /\ settled' = settled \cup found /\ pc[p] \in Writes \ {"ack_read"}
  BY DEF Commits
<1>2. /\ held \subseteq heldN \cup IdsOf(Covering(p)) /\ puts \subseteq heldN /\ heldN \subseteq held \cup puts
  BY <1>0, <1>1, CommitCovers DEF IdsOf
<1>t. /\ batch[p].put \subseteq Rec /\ reg[p].found \subseteq Rec /\ out \subseteq Rec
      /\ IsFiniteSet(out) /\ IsFiniteSet(reg[p].found)
      /\ deliveries \in [Ids -> Nat] /\ tally \in [Ids -> Nat]
  BY <1>0, PartFinite DEF TypeOK, Batch, Registers, Finite
<1>i. puts \in SUBSET Ids /\ found \in SUBSET Ids /\ IdsOf(out) \in SUBSET Ids /\ {} \in SUBSET Ids
  BY <1>t DEF IdsOf, Rec
<1>3. CASE pc[p] = "enq_write"
  <2>1. /\ accepted' = accepted \cup puts /\ deliveries' = deliveries /\ tally' = tally
        /\ found = {} /\ Covering(p) = batch[p].put
    BY <1>0, <1>3, NothingFound DEF Commits, Carrying, Covering, Settling
  <2>2. puts \cap accepted = {}
    BY <1>0, <1>3 DEF KnownIds, IdsAt
  <2>3. heldN = held \cup puts /\ settled' = settled
    BY <1>1, <1>2, <2>1
  <2>4. CASE puts = {}
    BY <2>1, <2>3, <2>4 DEF Contract!vars
  <2>5. CASE puts # {}
    <3>1. Contract!Accept(puts)
      BY <2>1, <2>2, <2>3, <2>5 DEF Contract!Accept
    <3> QED
      BY <1>i, <3>1, ContractAnswer
  <2> QED
    BY <2>4, <2>5
<1>4. CASE pc[p] \in Moves
  <2>1. /\ accepted' = accepted /\ tally' = tally /\ found = {} /\ Covering(p) = batch[p].put
    BY <1>0, <1>4, NothingFound DEF Commits, Carrying, Covering, Settling, Moves, PutBacks
  <2>2. puts \subseteq held \cup settled /\ settled' = settled
    BY <1>0, <1>1, <1>4, <2>1 DEF WrittenBack
  <2>3. held \subseteq heldN /\ heldN \subseteq held \cup settled
    BY <1>2, <2>1, <2>2
  <2>4. CASE pc[p] # "deq_write"
    <3>1. deliveries' = deliveries
      BY <2>4 DEF Commits
    <3>2. Contract!Deliver({})
      BY <2>1, <2>2, <2>3, <3>1 DEF Contract!Deliver, Contract!Kept
    <3> QED
      BY <1>i, <3>2, ContractAnswer
  <2>5. CASE pc[p] = "deq_write"
    <3>1. deliveries' = [i \in Ids |-> deliveries[i] + Cardinality({r \in out : r.id = i})]
      BY <2>5 DEF Commits
    <3>2. IdsOf(out) \subseteq heldN
      BY <1>2 DEF IdsOf
    <3> HIDE DEF out
    <3>3. {i \in Ids : deliveries'[i] > 0} = {i \in Ids : deliveries[i] > 0} \cup IdsOf(out)
      BY <1>t, <3>1, CountedIds
    <3>4. PICK S \in SUBSET Ids : S = IdsOf(out)
      BY <1>i DEF out
    <3>5. Contract!Deliver(S)
      BY <2>1, <2>2, <2>3, <3>2, <3>3, <3>4 DEF Contract!Deliver, Contract!Kept
    <3> QED
      BY <3>5, ContractAnswer
  <2> QED
    BY <2>4, <2>5
<1>5. CASE pc[p] \in Settling
  <2>1. /\ accepted' = accepted /\ deliveries' = deliveries /\ Covering(p) = reg[p].found /\ puts = {}
    BY <1>0, <1>5, NothingFound DEF Commits, Carrying, Covering, Settling
  <2>2. held \ found \subseteq heldN /\ heldN \subseteq held
    BY <1>2, <2>1
  <2>3. CASE pc[p] \in {"ack_write", "cum_write"}
    <3>1. tally' = [i \in Ids |-> tally[i] + Cardinality({r \in reg[p].found : r.id = i})]
      BY <2>3 DEF Commits
    <3>2. {i \in Ids : tally'[i] > 0} = {i \in Ids : tally[i] > 0} \cup found
      BY <1>t, <3>1, CountedIds
    <3>3. found \subseteq {i \in Ids : deliveries[i] > 0}
      <4>1. \A r \in reg[p].found : deliveries[r.id] > 0 /\ r.id \in Ids
        BY <1>0, <1>t, <2>3 DEF Reached, Acks, Rec
      <4> QED
        BY <4>1 DEF IdsOf
    <3>4. PICK S \in SUBSET Ids : S = found
      BY <1>i
    <3>5. Contract!Acknowledge(S)
      BY <1>1, <2>1, <2>2, <3>2, <3>3, <3>4 DEF Contract!Acknowledge, Contract!Dropped
    <3> QED
      BY <3>5, ContractAnswer
  <2>4. CASE pc[p] \notin {"ack_write", "cum_write"}
    <3>1. tally' = tally
      BY <2>4 DEF Commits
    <3>2. found \subseteq accepted
      BY <1>0 DEF KnownIds, IdsAt
    <3>3. Contract!Discard(found)
      BY <1>1, <2>1, <2>2, <3>1, <3>2 DEF Contract!Discard, Contract!Dropped
    <3> QED
      BY <1>i, <3>3, ContractAnswer
  <2> QED
    BY <2>3, <2>4
<1> QED
  BY <1>1, <1>3, <1>4, <1>5 DEF Writes, Moves, PutBacks

LEMMA StepSimulated ==
  ASSUME ContractInv, TypeOK', [Next]_vars
  PROVE  Contract!Next \/ UNCHANGED Contract!vars
<1>0. TypeOK /\ Finite /\ Carrying /\ KnownIds
  BY DEF ContractInv
<1>s. ASSUME Stored PROVE UNCHANGED Contract!vars
  BY <1>s DEF Stored, Contract!vars
<1>1. CASE Rests
  BY <1>1, <1>s DEF Rests
<1>2. ASSUME NEW p \in Procs, NEW S \in SUBSET db, Scans(p, S) PROVE UNCHANGED Contract!vars
  BY <1>2, <1>s DEF Scans
<1>3. ASSUME NEW t \in Threads, EnqueueBuild(t) PROVE UNCHANGED Contract!vars
  BY <1>0, <1>3, <1>s, EnqueueBuildFacts DEF Plans
<1>4. ASSUME NEW p \in Procs, Commits(p) PROVE Contract!Next \/ UNCHANGED Contract!vars
  BY <1>4, CommitSimulated
<1>5. ASSUME NEW r \in Rec, NEW x \in Rec, Rewrites(r, x) PROVE UNCHANGED Contract!vars
  <2>1. /\ r \in db /\ db' = (db \ {r}) \cup {x} /\ x.id = r.id /\ accepted' = accepted
        /\ settled' = settled /\ deliveries' = deliveries /\ tally' = tally
    BY <1>5 DEF Rewrites
  <2>2. IdsOf(db') = IdsOf(db)
    BY <2>1 DEF IdsOf
  <2> QED
    BY <2>1, <2>2 DEF Contract!vars
<1>6. ASSUME NEW r \in Rec, Drops(r) PROVE Contract!Next
  <2>1. /\ r \in db /\ db' = db \ {r} /\ accepted' = accepted /\ settled' = settled \cup {r.id}
        /\ deliveries' = deliveries /\ tally' = tally
    BY <1>6 DEF Drops
  <2>2. IdsOf(db) \ {r.id} \subseteq IdsOf(db') /\ IdsOf(db') \subseteq IdsOf(db)
    BY <2>1 DEF IdsOf
  <2>3. {r.id} \subseteq accepted /\ {r.id} \in SUBSET Ids
    BY <1>0, <2>1 DEF KnownIds, IdsOf, TypeOK
  <2>4. Contract!Discard({r.id})
    BY <2>1, <2>2, <2>3 DEF Contract!Discard, Contract!Dropped
  <2> QED
    BY <2>3, <2>4, ContractAnswer
<1> QED
  BY <1>0, <1>1, <1>2, <1>3, <1>4, <1>5, <1>6, StepShapes

\* Every interleaving of the real operations, crashes included, looks to the
\* clients like a history of the at-least-once queue, provided a restart
\* finds the clock past every sequence number drawn.
THEOREM StoreImplementsContract ==
  ASSUME ClockAhead \/ MaxRestarts = 0
  PROVE  Spec => ImplementsContract
<1>1. Init => Contract!Init
  <2> SUFFICES ASSUME Init PROVE Contract!Init
    OBVIOUS
  <2>1. db = {} /\ accepted = {} /\ settled = {} /\ \A i \in Ids : deliveries[i] = 0 /\ tally[i] = 0
    BY DEF Init
  <2> QED
    BY <2>1, NothingFound DEF Contract!Init
<1>2. ContractInv /\ [Next]_vars => ContractInv'
  BY ContractStep
<1>3. ContractInv /\ ContractInv' /\ [Next]_vars => [Contract!Next]_(Contract!vars)
  BY StepSimulated DEF ContractInv
<1> QED
  BY <1>1, <1>2, <1>3, ContractInit, PTL DEF Spec, ImplementsContract, Contract!Spec
=============================================================================
