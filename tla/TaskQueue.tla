------------------------------ MODULE TaskQueue ------------------------------
(***************************************************************************)
(* The data path of one tenant of RocksQueue: the three column families    *)
(* that hold its tasks and every operation of TenantRegistry, the reaper   *)
(* and the compaction filters that moves a record between them.            *)
(*                                                                         *)
(* Each operation reads RocksDB, builds a WriteBatch in memory and commits *)
(* it with one atomic write.  Reads and the commit are separate steps, so  *)
(* another operation may run between them unless a mutex forbids it:       *)
(*   - enqueue and dequeue hold the per-queue lock (queueLock);            *)
(*   - ack_batch holds the per-queue acknowledgement lock (ackLock);       *)
(*   - nack, cumulative_ack, purge_dlq, replay_dlq and the reaper hold no  *)
(*     lock at all.                                                        *)
(***************************************************************************)
EXTENDS Integers, FiniteSets

CONSTANTS
  Threads,        \* the blocking-pool threads that serve requests
  Reaper,         \* the background reaper task
  Free,           \* an unlocked mutex
  Queues,         \* queue names; their byte order is the order of numbers
  Reaped,         \* the queues spawn_reaper was given
  DrainedQueue,   \* the queue DrainTenant looks at, queues.first()
  Policies,       \* NamespacePolicy values a request may have read
  Requests,       \* the kinds of request the clients send
  ClockAhead,     \* the clock at a restart has passed every sequence drawn
  Retention,      \* retention_secs > 0: compaction may expire pending tasks
  MaxAttempts     \* nack's max_attempts (5 in the code)

\* Bounds of the model; the code has none of them.
CONSTANTS
  MaxBatch,       \* tasks of one request
  MaxTasks,       \* tasks ever built by an enqueue
  MaxSeq,         \* sequence numbers
  MaxDeliveries,  \* deliveries of one task
  MaxRestarts,    \* process restarts
  MaxFaults       \* I/O errors and corrupted records

CFs == {"pending", "inflight", "dlq"}

RequestKinds ==
  {"enqueue", "dequeue", "dequeue_uncapped", "ack", "nack", "cumulative_ack",
   "purge_dlq", "replay_dlq", "drain"}

BacklogPolicies == {"None", "Reject", "Block", "EvictOldest"}

\* The part of NamespacePolicy the data path reads; backlog = "None" stands
\* for backlog_quota = None.
NamespacePolicy == [backlog : BacklogPolicies, quota : Nat, maxInflight : Nat]

ASSUME ProcessAssumption ==
  /\ Reaper \notin Threads
  /\ Free \notin Threads

ASSUME QueueAssumption ==
  /\ Queues \subseteq Nat
  /\ Reaped \subseteq Queues
  /\ DrainedQueue \in Queues

ASSUME PolicyAssumption ==
  /\ Policies \subseteq NamespacePolicy
  /\ Policies # {}
  /\ Requests \subseteq RequestKinds
  /\ ClockAhead \in BOOLEAN
  /\ Retention \in BOOLEAN

ASSUME BoundAssumption ==
  /\ MaxAttempts \in Nat \ {0}
  /\ MaxBatch \in Nat \ {0}
  /\ MaxTasks \in Nat
  /\ MaxSeq \in Nat
  /\ MaxDeliveries \in Nat
  /\ MaxRestarts \in Nat
  /\ MaxFaults \in Nat

VARIABLES
  db,             \* the records stored in the tenant's column families
  seq,            \* the registry's atomic sequence counter
  boot,           \* the clock reading the counter was seeded with
  queueLock,      \* queue -> thread that holds its queue lock
  ackLock,        \* queue -> thread that holds its acknowledgement lock
  pc,             \* where each process is in its operation
  reg,            \* each process's local variables
  batch,          \* each process's WriteBatch under construction
  nextId,         \* next task id (a fresh UUID in the code)
  faults, restarts, \* used up so far, of MaxFaults and MaxRestarts
  accepted,       \* history: ids whose enqueue committed
  settled,        \* history: ids acked, evicted, purged or expired
  handed,         \* history: ack keys clients have been given
  deliveries,     \* history: id -> number of times it was dequeued
  tally,          \* history: id -> number of acks counted for it
  returned        \* history: queue -> records put back onto its backlog

procVars == <<pc, reg, batch>>
lockVars == <<queueLock, ackLock>>
historyVars == <<accepted, settled, handed, deliveries, tally, returned>>
boundVars == <<nextId, faults, restarts>>
vars == <<db, seq, boot, lockVars, procVars, boundVars, historyVars>>

(***************************************************************************)
(* Records, keys and write batches                                         *)
(***************************************************************************)
Procs == Threads \cup {Reaper}
Ids == 1 .. MaxTasks
Key == Queues \X Nat

\* A stored record: its column family, its key (q, seq) and its Task.  The
\* deadline keeps only whether it is unset, ahead or past; a "garbage" record
\* does not deserialize; a "poison" record is the envelope Task::poison made
\* of one.  The id of a garbage or poison record is that of the task it was.
Rec == [cf : CFs, q : Queues, seq : Nat, id : Ids, attempts : Nat,
        deadline : {"none", "live", "past"}, kind : {"task", "poison", "garbage"}]

KeyOf(r) == <<r.q, r.seq>>
Place(r) == <<r.cf, r.q, r.seq>>
KeysOf(S) == {KeyOf(r) : r \in S}
Places(S) == {Place(r) : r \in S}
IdsOf(S) == {r.id : r \in S}

\* The records of column family c.
In(c) == {r \in db : r.cf = c}

\* The records under queue_prefix(q).
Of(S, q) == {r \in S : r.q = q}

\* encode_key's byte order.
KeyLess(a, b) == a.q < b.q \/ (a.q = b.q /\ a.seq < b.seq)

\* How many records of S an iterator meets before r.
Rank(S, r) == Cardinality({x \in S : KeyLess(x, r)})

Valid(S) == {r \in S : r.kind # "garbage"}

\* Task::poison, on its way to the dead letter queue.
Poison(r) ==
  [r EXCEPT !.cf = "dlq", !.kind = "poison", !.attempts = MaxAttempts, !.deadline = "none"]

\* A WriteBatch: the places it deletes and the records it puts.
Batch == [del : SUBSET (CFs \X Queues \X Nat), put : SUBSET Rec]
NoBatch == [del |-> {}, put |-> {}]

\* `WriteBatch::default()` filled with the deletion of S and the puts of R.
Build(p, S, R) == batch' = [batch EXCEPT ![p] = [del |-> Places(S), put |-> R]]

\* Faulty variant: the deletions are left out of the batch.
AppliedPutsOnly(b) == {r \in db : Place(r) \notin Places(b.put)} \cup b.put

\* db.write_opt(batch): every delete and put takes effect at once; a put
\* replaces whatever its key held.
Applied(b) == {r \in db : Place(r) \notin b.del \cup Places(b.put)} \cup b.put

\* Faulty variant: a load in place of the fetch_add.
NextSeqRepeated(n) == seq' = seq

\* n calls of next_seq.
NextSeq(n) == seq' = seq + n

(***************************************************************************)
(* Processes                                                               *)
(***************************************************************************)
PCs ==
  {"idle", "enq_pending", "enq_inflight", "enq_evict", "enq_evictwrite",
   "enq_build", "enq_write", "deq_count", "deq_scan", "deq_write", "ack_lock",
   "ack_read", "ack_write", "nack_write", "cum_write", "purge_write",
   "replay_write", "reap_write", "drain_pending", "drain_inflight"}

\* Local variables: the queue, the number of tasks asked for, the policy read
\* before the call, the last count, ack_batch's locks still to take and keys
\* still to look up, the records read so far that the write will delete for
\* good, and (history) the ids a drain found live when it began and how many
\* records had been put back when it last counted pending.
Registers ==
  [q : Queues, n : Nat, pol : Policies, seen : Nat, want : SUBSET Queues,
   keys : SUBSET Key, found : SUBSET Rec, goal : SUBSET Ids,
   back : Nat]

NoRegisters ==
  [q |-> DrainedQueue, n |-> 0, pol |-> CHOOSE p \in Policies : TRUE, seen |-> 0,
   want |-> {}, keys |-> {}, found |-> {}, goal |-> {}, back |-> 0]

Goto(p, l) == pc' = [pc EXCEPT ![p] = l]

Locals(p, g) == reg' = [reg EXCEPT ![p] = g]

Released(locks, p) == [q \in Queues |-> IF locks[q] = p THEN Free ELSE locks[q]]

\* The operation returns: its locals and its lock guards are dropped.
Return(p) ==
  /\ Goto(p, "idle")
  /\ Locals(p, NoRegisters)
  /\ batch' = [batch EXCEPT ![p] = NoBatch]
  /\ queueLock' = Released(queueLock, p)
  /\ ackLock' = Released(ackLock, p)

TypeOK ==
  /\ db \subseteq Rec
  /\ seq \in Nat
  /\ boot \in Nat
  /\ queueLock \in [Queues -> Threads \cup {Free}]
  /\ ackLock \in [Queues -> Threads \cup {Free}]
  /\ pc \in [Procs -> PCs]
  /\ reg \in [Procs -> Registers]
  /\ batch \in [Procs -> Batch]
  /\ nextId \in 1 .. MaxTasks + 1
  /\ faults \in 0 .. MaxFaults
  /\ restarts \in 0 .. MaxRestarts
  /\ accepted \subseteq Ids
  /\ settled \subseteq Ids
  /\ handed \subseteq Key
  /\ deliveries \in [Ids -> Nat]
  /\ tally \in [Ids -> Nat]
  /\ returned \in [Queues -> Nat]

\* TenantRegistry::open on an empty directory.
Init ==
  /\ db = {}
  /\ seq = 0
  /\ boot = 0
  /\ queueLock = [q \in Queues |-> Free]
  /\ ackLock = [q \in Queues |-> Free]
  /\ pc = [p \in Procs |-> "idle"]
  /\ reg = [p \in Procs |-> NoRegisters]
  /\ batch = [p \in Procs |-> NoBatch]
  /\ nextId = 1
  /\ faults = 0
  /\ restarts = 0
  /\ accepted = {}
  /\ settled = {}
  /\ handed = {}
  /\ deliveries = [i \in Ids |-> 0]
  /\ tally = [i \in Ids |-> 0]
  /\ returned = [q \in Queues |-> 0]

(***************************************************************************)
(* enqueue_batch_sync, enforce_quota, evict_oldest_pending                 *)
(***************************************************************************)
EnqueueBegin(t, q, n, pol) ==
  /\ "enqueue" \in Requests
  /\ pc[t] = "idle"
  /\ queueLock[q] = Free
  /\ nextId + n <= MaxTasks + 1
  /\ queueLock' = [queueLock EXCEPT ![q] = t]
  /\ Locals(t, [reg[t] EXCEPT !.q = q, !.n = n, !.pol = pol])
  /\ Goto(t, IF pol.backlog = "None" THEN "enq_build" ELSE "enq_pending")
  /\ UNCHANGED <<db, seq, boot, ackLock, batch, boundVars, historyVars>>

\* depth's first count.
EnqueueCountPending(t) ==
  /\ pc[t] = "enq_pending"
  /\ Locals(t, [reg[t] EXCEPT !.seen = Cardinality(Of(In("pending"), reg[t].q))])
  /\ Goto(t, "enq_inflight")
  /\ UNCHANGED <<db, seq, boot, lockVars, batch, boundVars, historyVars>>

\* depth's second count gives enforce_quota's `current`.
Current(t) == reg[t].seen + Cardinality(Of(In("inflight"), reg[t].q))

\* Faulty variant: the comparison is left out.
FitsNever(t) == FALSE

Fits(t) == Current(t) + reg[t].n <= reg[t].pol.quota

QuotaFits(t) ==
  /\ pc[t] = "enq_inflight"
  /\ Fits(t)
  /\ Goto(t, "enq_build")
  /\ UNCHANGED <<db, seq, boot, lockVars, reg, batch, boundVars, historyVars>>

\* Faulty variant: Block has no deadline.
QuotaExceededAtOnce(t) ==
  /\ pc[t] = "enq_inflight"
  /\ ~Fits(t)
  /\ reg[t].pol.backlog = "Reject"
  /\ Return(t)
  /\ UNCHANGED <<db, seq, boot, boundVars, historyVars>>

\* BacklogQuotaExceeded: at once under Reject, after the timeout under Block.
QuotaExceeded(t) ==
  /\ pc[t] = "enq_inflight"
  /\ ~Fits(t)
  /\ reg[t].pol.backlog \in {"Reject", "Block"}
  /\ Return(t)
  /\ UNCHANGED <<db, seq, boot, boundVars, historyVars>>

\* Block before the timeout: sleep and count again, with the lock held.
QuotaWait(t) ==
  /\ pc[t] = "enq_inflight"
  /\ ~Fits(t)
  /\ reg[t].pol.backlog = "Block"
  /\ Goto(t, "enq_pending")
  /\ UNCHANGED <<db, seq, boot, lockVars, reg, batch, boundVars, historyVars>>

QuotaEvict(t) ==
  /\ pc[t] = "enq_inflight"
  /\ ~Fits(t)
  /\ reg[t].pol.backlog = "EvictOldest"
  /\ Locals(t, [reg[t] EXCEPT !.seen = (Current(t) + reg[t].n) - reg[t].pol.quota])
  /\ Goto(t, "enq_evict")
  /\ UNCHANGED <<db, seq, boot, lockVars, batch, boundVars, historyVars>>

\* Faulty variant: one task too few.
OldestShort(S, n) == {r \in S : Rank(S, r) + 1 < n}

\* The first n records of S.
Oldest(S, n) == {r \in S : Rank(S, r) < n}

EvictScan(t) ==
  /\ pc[t] = "enq_evict"
  /\ LET oldest == Oldest(Of(In("pending"), reg[t].q), reg[t].seen)
     IN  /\ Locals(t, [reg[t] EXCEPT !.found = oldest])
         /\ Build(t, oldest, {})
  /\ Goto(t, "enq_evictwrite")
  /\ UNCHANGED <<db, seq, boot, lockVars, boundVars, historyVars>>

EvictWrite(t) ==
  /\ pc[t] = "enq_evictwrite"
  /\ db' = Applied(batch[t])
  /\ settled' = settled \cup IdsOf(reg[t].found)
  /\ Locals(t, [reg[t] EXCEPT !.found = {}])
  /\ batch' = [batch EXCEPT ![t] = NoBatch]
  /\ Goto(t, "enq_build")
  /\ UNCHANGED <<seq, boot, lockVars, boundVars,
                 accepted, handed, deliveries, tally, returned>>

\* Each payload gets a fresh id and a sequence number of its own.
EnqueueBuild(t) ==
  /\ pc[t] = "enq_build"
  /\ seq + reg[t].n <= MaxSeq
  /\ nextId + reg[t].n <= MaxTasks + 1
  /\ Build(t, {}, {[cf |-> "pending", q |-> reg[t].q, seq |-> seq + i, id |-> nextId + i,
                    attempts |-> 0, deadline |-> "none", kind |-> "task"] :
                      i \in 0 .. reg[t].n - 1})
  /\ NextSeq(reg[t].n)
  /\ nextId' = nextId + reg[t].n
  /\ Goto(t, "enq_write")
  /\ UNCHANGED <<db, boot, lockVars, reg, faults, restarts, historyVars>>

EnqueueWrite(t) ==
  /\ pc[t] = "enq_write"
  /\ db' = Applied(batch[t])
  /\ accepted' = accepted \cup IdsOf(batch[t].put)
  /\ Return(t)
  /\ UNCHANGED <<seq, boot, boundVars, settled, handed, deliveries, tally, returned>>

Enqueue(t) ==
  \/ \E q \in Queues, n \in 1 .. MaxBatch, pol \in Policies : EnqueueBegin(t, q, n, pol)
  \/ EnqueueCountPending(t)
  \/ QuotaFits(t)
  \/ QuotaExceeded(t)
  \/ QuotaWait(t)
  \/ QuotaEvict(t)
  \/ EvictScan(t)
  \/ EvictWrite(t)
  \/ EnqueueBuild(t)
  \/ EnqueueWrite(t)

(***************************************************************************)
(* dequeue_with_max_inflight, dequeue_batch, dequeue_batch_unlocked        *)
(***************************************************************************)
\* DequeueTasks over gRPC: at most policy.max_inflight records in flight.
DequeueBegin(t, q, n, pol) ==
  /\ "dequeue" \in Requests
  /\ pc[t] = "idle"
  /\ pol.maxInflight > 0
  /\ queueLock[q] = Free
  /\ queueLock' = [queueLock EXCEPT ![q] = t]
  /\ Locals(t, [reg[t] EXCEPT !.q = q, !.n = n, !.pol = pol])
  /\ Goto(t, "deq_count")
  /\ UNCHANGED <<db, seq, boot, ackLock, batch, boundVars, historyVars>>

\* The embedded worker pool: dequeue, without a cap.
DequeueUncappedBegin(t, q, n) ==
  /\ "dequeue_uncapped" \in Requests
  /\ pc[t] = "idle"
  /\ queueLock[q] = Free
  /\ queueLock' = [queueLock EXCEPT ![q] = t]
  /\ Locals(t, [reg[t] EXCEPT !.q = q, !.n = n])
  /\ Goto(t, "deq_scan")
  /\ UNCHANGED <<db, seq, boot, ackLock, batch, boundVars, historyVars>>

\* max_inflight - inflight, where positive.
Room(t) == reg[t].pol.maxInflight - Cardinality(Of(In("inflight"), reg[t].q))

AtCap(t) == Cardinality(Of(In("inflight"), reg[t].q)) >= reg[t].pol.maxInflight

\* Faulty variant: the limit is not cut to the room left.
LimitUncut(t) == reg[t].n

\* limit.min(max_inflight - inflight)
Limit(t) == IF reg[t].n <= Room(t) THEN reg[t].n ELSE Room(t)

DequeueCount(t) ==
  /\ pc[t] = "deq_count"
  /\ ~AtCap(t)
  /\ Locals(t, [reg[t] EXCEPT !.n = Limit(t)])
  /\ Goto(t, "deq_scan")
  /\ UNCHANGED <<db, seq, boot, lockVars, batch, boundVars, historyVars>>

DequeueAtCap(t) ==
  /\ pc[t] = "deq_count"
  /\ AtCap(t)
  /\ Return(t)
  /\ UNCHANGED <<db, seq, boot, boundVars, historyVars>>

\* The iterator stops after the n-th record that deserializes, so it also
\* meets every corrupt record before that one.
Scanned(t) ==
  LET backlog == Of(In("pending"), reg[t].q)
  IN  {r \in backlog : Rank(Valid(backlog), r) < reg[t].n}

Delivered(r) ==
  [r EXCEPT !.cf = "inflight", !.attempts = r.attempts + 1, !.deadline = "live"]

DequeueScan(t) ==
  /\ pc[t] = "deq_scan"
  /\ Scanned(t) # {}
  /\ \A r \in Scanned(t) : deliveries[r.id] < MaxDeliveries
  /\ Build(t, Scanned(t), {Delivered(r) : r \in Valid(Scanned(t))} \cup
                          {Poison(r) : r \in Scanned(t) \ Valid(Scanned(t))})
  /\ Goto(t, "deq_write")
  /\ UNCHANGED <<db, seq, boot, lockVars, reg, boundVars, historyVars>>

DequeueEmpty(t) ==
  /\ pc[t] = "deq_scan"
  /\ Scanned(t) = {}
  /\ Return(t)
  /\ UNCHANGED <<db, seq, boot, boundVars, historyVars>>

DequeueWrite(t) ==
  /\ pc[t] = "deq_write"
  /\ db' = Applied(batch[t])
  /\ LET out == {r \in batch[t].put : r.cf = "inflight"}
     IN  /\ handed' = handed \cup KeysOf(out)
         /\ deliveries' = [i \in Ids |-> deliveries[i] +
                             Cardinality({r \in out : r.id = i})]
  /\ Return(t)
  /\ UNCHANGED <<seq, boot, boundVars, accepted, settled, tally, returned>>

Dequeue(t) ==
  \/ \E q \in Queues, n \in 1 .. MaxBatch, pol \in Policies : DequeueBegin(t, q, n, pol)
  \/ \E q \in Queues, n \in 1 .. MaxBatch : DequeueUncappedBegin(t, q, n)
  \/ DequeueCount(t)
  \/ DequeueAtCap(t)
  \/ DequeueScan(t)
  \/ DequeueEmpty(t)
  \/ DequeueWrite(t)

(***************************************************************************)
(* ack_batch, cumulative_ack                                               *)
(***************************************************************************)
QueuesOf(K) == {k[1] : k \in K}

\* A client acknowledges keys it was given, as late and as often as it likes.
AckBegin(t, K) ==
  /\ "ack" \in Requests
  /\ pc[t] = "idle"
  /\ K # {}
  /\ Cardinality(K) <= MaxBatch
  /\ Locals(t, [reg[t] EXCEPT !.keys = K, !.want = QueuesOf(K)])
  /\ Goto(t, "ack_lock")
  /\ UNCHANGED <<db, seq, boot, lockVars, batch, boundVars, historyVars>>

\* Faulty variant: the queue names are not sorted.
NextLockUnsorted(t, q) == q \in reg[t].want

\* The sorted, deduplicated queue names decide the order of acquisition.
NextLock(t, q) == q \in reg[t].want /\ \A o \in reg[t].want : q <= o

\* Faulty variant: the lock is not waited for.
AckLockAlwaysFree(q) == TRUE

AckLockFree(q) == ackLock[q] = Free

AckLock(t) ==
  /\ pc[t] = "ack_lock"
  /\ \E q \in Queues :
       /\ NextLock(t, q)
       /\ AckLockFree(q)
       /\ ackLock' = [ackLock EXCEPT ![q] = t]
       /\ Locals(t, [reg[t] EXCEPT !.want = reg[t].want \ {q}])
       /\ Goto(t, IF reg[t].want = {q} THEN "ack_read" ELSE "ack_lock")
  /\ Build(t, {}, {})
  /\ UNCHANGED <<db, seq, boot, queueLock, boundVars, historyVars>>

Hit(k) == {r \in In("inflight") : KeyOf(r) = k}

\* One get per key; a key that is gone is skipped and not counted.
AckRead(t) ==
  /\ pc[t] = "ack_read"
  /\ \E k \in reg[t].keys :
       /\ Locals(t, [reg[t] EXCEPT !.keys = reg[t].keys \ {k},
                               !.found = reg[t].found \cup Hit(k)])
       /\ Build(t, reg[t].found \cup Hit(k), {})
       /\ Goto(t, IF reg[t].keys = {k} THEN "ack_write" ELSE "ack_read")
  /\ UNCHANGED <<db, seq, boot, lockVars, boundVars, historyVars>>

\* The count returned is the number of records found by the reads, whatever
\* the delete then meets; tally charges each one to its task.
Acked(p) ==
  /\ db' = Applied(batch[p])
  /\ settled' = settled \cup IdsOf(reg[p].found)
  /\ tally' = [i \in Ids |-> tally[i] + Cardinality({r \in reg[p].found : r.id = i})]
  /\ Return(p)
  /\ UNCHANGED <<seq, boot, boundVars, accepted, handed, deliveries, returned>>

AckWrite(t) == pc[t] = "ack_write" /\ Acked(t)

CumulativeAckScan(t, q, upTo) ==
  /\ "cumulative_ack" \in Requests
  /\ pc[t] = "idle"
  /\ LET covered == {r \in Of(In("inflight"), q) : r.seq <= upTo}
     IN  /\ covered # {}
         /\ Locals(t, [reg[t] EXCEPT !.found = covered])
         /\ Build(t, covered, {})
  /\ Goto(t, "cum_write")
  /\ UNCHANGED <<db, seq, boot, lockVars, boundVars, historyVars>>

CumulativeAckWrite(t) == pc[t] = "cum_write" /\ Acked(t)

Ack(t) ==
  \/ \E K \in SUBSET handed : AckBegin(t, K)
  \/ AckLock(t)
  \/ AckRead(t)
  \/ AckWrite(t)
  \/ \E q \in Queues, upTo \in 0 .. MaxSeq : CumulativeAckScan(t, q, upTo)
  \/ CumulativeAckWrite(t)

(***************************************************************************)
(* nack, purge_dlq, replay_dlq: no lock                                    *)
(***************************************************************************)
\* Put back onto the backlog under sequence number s.
Retried(r, s) == [r EXCEPT !.cf = "pending", !.seq = s, !.deadline = "none"]

\* Faulty variant: the attempts are kept.
ReplayedAsIs(r, s) == Retried(r, s)

Replayed(r, s) ==
  [r EXCEPT !.cf = "pending", !.seq = s, !.attempts = 0, !.deadline = "none"]

\* Faulty variant: one attempt early.
ExhaustedEarly(r) == r.attempts + 1 >= MaxAttempts

\* attempts >= max_attempts
Exhausted(r) == r.attempts >= MaxAttempts

NackRead(t, k) ==
  /\ "nack" \in Requests
  /\ pc[t] = "idle"
  /\ \E r \in Hit(k) :
       \/ /\ r.kind = "garbage"
          /\ Build(t, {r}, {Poison(r)})
          /\ seq' = seq
       \/ /\ r.kind # "garbage"
          /\ Exhausted(r)
          /\ Build(t, {r}, {[r EXCEPT !.cf = "dlq"]})
          /\ seq' = seq
       \/ /\ r.kind # "garbage"
          /\ ~Exhausted(r)
          /\ seq < MaxSeq
          /\ Build(t, {r}, {Retried(r, seq)})
          /\ NextSeq(1)
  /\ Goto(t, "nack_write")
  /\ UNCHANGED <<db, boot, lockVars, reg, boundVars, historyVars>>

\* A commit that puts records back onto the backlog of their queues.
PutBack(p) ==
  /\ db' = Applied(batch[p])
  /\ returned' = [q \in Queues |-> returned[q] +
                    Cardinality({r \in batch[p].put : r.cf = "pending" /\ r.q = q})]
  /\ Return(p)
  /\ UNCHANGED <<seq, boot, boundVars, accepted, settled, handed, deliveries, tally>>

NackWrite(t) == pc[t] = "nack_write" /\ PutBack(t)

PurgeScan(t) ==
  /\ "purge_dlq" \in Requests
  /\ pc[t] = "idle"
  /\ In("dlq") # {}
  /\ Locals(t, [reg[t] EXCEPT !.found = In("dlq")])
  /\ Build(t, In("dlq"), {})
  /\ Goto(t, "purge_write")
  /\ UNCHANGED <<db, seq, boot, lockVars, boundVars, historyVars>>

PurgeWrite(t) ==
  /\ pc[t] = "purge_write"
  /\ db' = Applied(batch[t])
  /\ settled' = settled \cup IdsOf(reg[t].found)
  /\ Return(t)
  /\ UNCHANGED <<seq, boot, boundVars, accepted, handed, deliveries, tally, returned>>

\* The number next_seq gives r in iteration order.
ReplaySeq(r) == seq + Rank(In("dlq"), r)

\* Faulty variant: a record that does not deserialize is deleted, not an error.
ReplayScanSkipping(t) ==
  /\ "replay_dlq" \in Requests
  /\ pc[t] = "idle"
  /\ In("dlq") # {}
  /\ seq + Cardinality(In("dlq")) <= MaxSeq
  /\ Build(t, In("dlq"), {Replayed(r, ReplaySeq(r)) : r \in Valid(In("dlq"))})
  /\ NextSeq(Cardinality(In("dlq")))
  /\ Goto(t, "replay_write")
  /\ UNCHANGED <<db, boot, lockVars, reg, boundVars, historyVars>>

\* Every dead letter, poison envelopes included, gets a new sequence number in
\* iteration order and a clean attempt count.
ReplayScan(t) ==
  /\ "replay_dlq" \in Requests
  /\ pc[t] = "idle"
  /\ In("dlq") # {}
  /\ Valid(In("dlq")) = In("dlq")
  /\ seq + Cardinality(In("dlq")) <= MaxSeq
  /\ Build(t, In("dlq"), {Replayed(r, ReplaySeq(r)) : r \in In("dlq")})
  /\ NextSeq(Cardinality(In("dlq")))
  /\ Goto(t, "replay_write")
  /\ UNCHANGED <<db, boot, lockVars, reg, boundVars, historyVars>>

\* The first record that does not deserialize fails the whole replay; the
\* sequence numbers drawn before it are gone.
ReplayAborts(t) ==
  /\ "replay_dlq" \in Requests
  /\ pc[t] = "idle"
  /\ \E r \in In("dlq") :
       /\ r.kind = "garbage"
       /\ \A x \in In("dlq") : KeyLess(x, r) => x.kind # "garbage"
       /\ seq + Rank(In("dlq"), r) <= MaxSeq
       /\ NextSeq(Rank(In("dlq"), r))
  /\ UNCHANGED <<db, boot, lockVars, procVars, boundVars, historyVars>>

ReplayWrite(t) == pc[t] = "replay_write" /\ PutBack(t)

NackOrDlq(t) ==
  \/ \E k \in handed : NackRead(t, k)
  \/ NackWrite(t)
  \/ PurgeScan(t)
  \/ PurgeWrite(t)
  \/ ReplayScan(t)
  \/ ReplayAborts(t)
  \/ ReplayWrite(t)

(***************************************************************************)
(* reap_inflight: no lock                                                  *)
(***************************************************************************)
Overdue(r) == r.kind # "garbage" /\ r.deadline = "past"

\* Faulty variant: a record that does not deserialize is skipped.
CorruptSkipped(S) == {}

CorruptIn(S) == S \ Valid(S)

\* An overdue record goes back under its own key with its attempts kept.
ReapScan(q) ==
  /\ pc[Reaper] = "idle"
  /\ LET leased == Of(In("inflight"), q)
         late == {r \in leased : Overdue(r)}
         corrupt == CorruptIn(leased)
     IN  /\ late \cup corrupt # {}
         /\ Build(Reaper, late \cup corrupt, {Retried(r, r.seq) : r \in late} \cup
                                              {Poison(r) : r \in corrupt})
  /\ Goto(Reaper, "reap_write")
  /\ UNCHANGED <<db, seq, boot, lockVars, reg, boundVars, historyVars>>

ReapWrite == pc[Reaper] = "reap_write" /\ PutBack(Reaper)

Reap ==
  \/ \E q \in Reaped : ReapScan(q)
  \/ ReapWrite

(***************************************************************************)
(* drain_tenant, which polls depth                                         *)
(***************************************************************************)
Backlog(q) == Of(In("pending"), q) \cup Of(In("inflight"), q)

\* The pause that drain_tenant sets first is a flag of WFQScheduler; enqueue
\* and dequeue never read it, so it is not part of this module's state.
DrainBegin(t) ==
  /\ "drain" \in Requests
  /\ pc[t] = "idle"
  /\ Locals(t, [reg[t] EXCEPT !.q = DrainedQueue, !.goal = IdsOf(Backlog(DrainedQueue))])
  /\ Goto(t, "drain_pending")
  /\ UNCHANGED <<db, seq, boot, lockVars, batch, boundVars, historyVars>>

DrainCountPending(t) ==
  /\ pc[t] = "drain_pending"
  /\ Locals(t, [reg[t] EXCEPT !.seen = Cardinality(Of(In("pending"), reg[t].q)),
                          !.back = returned[reg[t].q]])
  /\ Goto(t, "drain_inflight")
  /\ UNCHANGED <<db, seq, boot, lockVars, batch, boundVars, historyVars>>

\* Faulty variant: looks at the pending count only.
DrainedPending(t) == reg[t].seen = 0

Drained(t) == Current(t) = 0

\* Both counts were zero: the answer is drained = true.
DrainDone(t) ==
  /\ pc[t] = "drain_inflight"
  /\ Drained(t)
  /\ Return(t)
  /\ UNCHANGED <<db, seq, boot, boundVars, historyVars>>

\* Sleep and count again.
DrainPoll(t) ==
  /\ pc[t] = "drain_inflight"
  /\ ~Drained(t)
  /\ Goto(t, "drain_pending")
  /\ UNCHANGED <<db, seq, boot, lockVars, reg, batch, boundVars, historyVars>>

DrainTimeout(t) ==
  /\ pc[t] = "drain_inflight"
  /\ ~Drained(t)
  /\ Return(t)
  /\ UNCHANGED <<db, seq, boot, boundVars, historyVars>>

Drain(t) ==
  \/ DrainBegin(t)
  \/ DrainCountPending(t)
  \/ DrainDone(t)
  \/ DrainPoll(t)
  \/ DrainTimeout(t)

(***************************************************************************)
(* The environment: the clock, compaction, faults and restarts             *)
(***************************************************************************)
\* The visibility timeout of one delivery passes.
Expire(r) ==
  /\ r.deadline = "live"
  /\ db' = (db \ {r}) \cup {[r EXCEPT !.deadline = "past"]}
  /\ UNCHANGED <<seq, boot, lockVars, procVars, boundVars, historyVars>>

\* What the compaction filter of each column family may drop.
Droppable(r) ==
  \/ r.cf = "pending" /\ Retention
  \/ r.cf = "inflight" /\ r.kind = "garbage"
  \/ r.cf = "dlq"

Compact(r) ==
  /\ Droppable(r)
  /\ db' = db \ {r}
  /\ settled' = settled \cup {r.id}
  /\ UNCHANGED <<seq, boot, lockVars, procVars, boundVars,
                 accepted, handed, deliveries, tally, returned>>

\* A stored value stops deserializing.
Corrupt(r) ==
  /\ faults < MaxFaults
  /\ r.kind # "garbage"
  /\ faults' = faults + 1
  /\ db' = (db \ {r}) \cup {[r EXCEPT !.kind = "garbage", !.deadline = "none"]}
  /\ UNCHANGED <<seq, boot, lockVars, procVars, nextId, restarts, historyVars>>

\* A RocksDB call of p fails: `?` returns before anything is written.
IoError(p) ==
  /\ faults < MaxFaults
  /\ pc[p] # "idle"
  /\ faults' = faults + 1
  /\ Return(p)
  /\ UNCHANGED <<db, seq, boot, nextId, restarts, historyVars>>

\* Faulty variant: AtomicU64::new(0).
SeedZero(now) == 0

\* AtomicU64::new(now_millis())
Seed(now) == now

\* The process dies and is opened again.  What was committed is in the WAL;
\* every operation under way is gone; the sequence counter is seeded with the
\* clock, which has not gone back since the last open.
Restart(now) ==
  /\ restarts < MaxRestarts
  /\ boot <= now
  /\ ClockAhead => seq <= now
  /\ restarts' = restarts + 1
  /\ seq' = Seed(now)
  /\ boot' = now
  /\ queueLock' = [q \in Queues |-> Free]
  /\ ackLock' = [q \in Queues |-> Free]
  /\ pc' = [p \in Procs |-> "idle"]
  /\ reg' = [p \in Procs |-> NoRegisters]
  /\ batch' = [p \in Procs |-> NoBatch]
  /\ UNCHANGED <<db, nextId, faults, historyVars>>

Environment ==
  \/ \E r \in In("inflight") : Expire(r)
  \/ \E r \in db : Compact(r) \/ Corrupt(r)
  \/ \E p \in Procs : IoError(p)
  \/ \E now \in 0 .. MaxSeq : Restart(now)

Next ==
  \/ \E t \in Threads : Enqueue(t) \/ Dequeue(t) \/ Ack(t) \/ NackOrDlq(t) \/ Drain(t)
  \/ Reap
  \/ Environment

Spec == Init /\ [][Next]_vars

\* tokio wakes the reaper every tick and it visits every queue it was given;
\* the clock moves, so every visibility timeout ends, and so does the time a
\* producer waits for room: QuotaExceeded is what the loop of enforce_quota
\* comes to when it finds its deadline past.
Clock == \E r \in In("inflight") : Expire(r)

FairSpec ==
  /\ Spec
  /\ WF_vars(Clock)
  /\ WF_vars(ReapWrite)
  /\ \A q \in Reaped : SF_vars(ReapScan(q))
  /\ \A t \in Threads : /\ WF_vars(EnqueueCountPending(t))
                       /\ WF_vars(QuotaFits(t))
                       /\ SF_vars(QuotaExceeded(t))

(***************************************************************************)
(* Properties                                                              *)
(***************************************************************************)
\* At-least-once: a task whose enqueue committed stays in one of the three
\* column families until it is acked, evicted, purged or expired, whatever
\* batches race with each other and wherever the process dies.
NoTaskLost ==
  accepted \subseteq settled \cup IdsOf(db)

\* Every record stored, waiting in a write batch or read by an operation that
\* is about to delete it.
Records == db \cup UNION {batch[p].put \cup reg[p].found : p \in Procs}

\* A key names one task for ever, in whichever column families, waiting
\* batches and scans it occurs, so no put ever replaces another task's record
\* and no ack, nack, reap or eviction deletes a task it did not read.
KeyNamesOneTask ==
  \A a, b \in Records : KeyOf(a) = KeyOf(b) => a.id = b.id

\* With every consumer going through dequeue_with_max_inflight, no queue ever
\* has more deliveries outstanding than the largest max_inflight allows.
InflightWithinCap ==
  "dequeue_uncapped" \notin Requests =>
    \A q \in Queues : \E pol \in Policies :
      Cardinality(Of(In("inflight"), q)) <= pol.maxInflight

\* The backlog bound the quota check really gives.  Records that nack, reap
\* and replay put back are not checked, and EvictOldest cannot evict what is
\* in flight nor part of the incoming batch.
QuotaBound ==
  (\A pol \in Policies : pol.backlog # "None") =>
    \A q \in Queues : \E pol, other \in Policies :
      Cardinality(Backlog(q)) <= returned[q] +
        (IF pol.backlog = "EvictOldest" /\ pol.quota < other.maxInflight + MaxBatch
         THEN other.maxInflight + MaxBatch ELSE pol.quota)

\* Acknowledgements are idempotent: however often and concurrently a key is
\* acked, a delivery is counted as acknowledged at most once.
AckCountedOnce ==
  \A i \in Ids : tally[i] <= deliveries[i]

\* A task is dead-lettered by nack only after MaxAttempts deliveries that
\* really reached a consumer.
DeadLetterEarned ==
  \A r \in In("dlq") : r.kind = "task" => deliveries[r.id] >= MaxAttempts

\* The attempts a record carries were all deliveries: however often its task was
\* nacked, reaped and replayed, and even if it became a poison envelope on the
\* way, no retry is charged to it that a consumer did not get.
AttemptsEarned ==
  \A r \in db : r.kind = "task" \/ (r.kind = "poison" /\ r.cf # "dlq") =>
    r.attempts <= deliveries[r.id]

\* No task is stored twice.
SingleCopy ==
  \A a, b \in db : a.id = b.id => a = b

\* No two threads wait for an acknowledgement lock the other one holds.
NoCircularWait ==
  \A s, t \in Threads : \A q, o \in Queues :
    ~ (/\ s # t
       /\ pc[s] = "ack_lock" /\ NextLock(s, q) /\ ackLock[q] = t
       /\ pc[t] = "ack_lock" /\ NextLock(t, o) /\ ackLock[o] = s)

\* When a drain answers drained = true, every task that was on the queue when
\* it began has left the queue, unless a nack, a reap or a replay put one back
\* between the two counts: that is the only way the answer can be wrong.
DrainTruthful ==
  [][\A t \in Threads :
       DrainDone(t) => \/ reg[t].goal \cap IdsOf(Backlog(reg[t].q)) = {}
                       \/ returned[reg[t].q] > reg[t].back]_vars

Leased(q, s) == \E r \in In("inflight") : KeyOf(r) = <<q, s>>

\* A delivery to a consumer that died does not strand its task: every record
\* in flight on a queue of the set eventually leaves the inflight family.
ReapedLeasesEnd ==
  \A q \in Reaped, s \in 0 .. MaxSeq : Leased(q, s) ~> ~Leased(q, s)

\* A producer that waits for room under the Block policy does so with the queue
\* lock in its hand, so that no consumer can dequeue meanwhile; it returns in
\* the end, with its tasks stored or refused, whether or not anybody makes room.
BlockedProducerReturns ==
  \A t \in Threads :
    pc[t] \in {"enq_pending", "enq_inflight"} ~> pc[t] \notin {"enq_pending", "enq_inflight"}

(***************************************************************************)
(* The inductive invariant behind NoTaskLost and KeyNamesOneTask           *)
(***************************************************************************)
\* Scans return: only finitely many records are stored, read or about to be
\* written.
Finite ==
  /\ IsFiniteSet(db)
  /\ \A p \in Procs : IsFiniteSet(batch[p].put) /\ IsFiniteSet(reg[p].found)

\* A sequence number drawn next is new to every record and every deletion.
SeqFresh ==
  /\ \A r \in Records : r.seq < seq
  /\ \A p \in Procs : \A d \in batch[p].del : d[3] < seq

\* Where a write batch settles what it deletes; elsewhere it moves it.
Settling ==
  {"enq_evictwrite", "ack_read", "ack_write", "cum_write", "purge_write"}

Covering(p) == IF pc[p] \in Settling THEN reg[p].found ELSE batch[p].put

\* Every deletion waiting in a batch is covered: the batch puts back, or
\* settles, the one task whose key it deletes.
Covered ==
  \A p \in Procs : \A d \in batch[p].del : \E i \in IdsOf(Covering(p)) :
    \A r \in Records : KeyOf(r) = <<d[2], d[3]>> => r.id = i

Inv == TypeOK /\ Finite /\ SeqFresh /\ KeyNamesOneTask /\ Covered /\ NoTaskLost

=============================================================================
