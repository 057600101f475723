----------------------------- MODULE FairWorkers -----------------------------
(***************************************************************************)
(* The embedded worker pool and what decides whom it works for: the loops  *)
(* of FairWorkerPool, StatsCollector::allocate_slots, and the refresh of   *)
(* the statistics that runs beside them.                                   *)
(*                                                                         *)
(* Each worker allocates its slots on its own, from statistics that were   *)
(* true at the last refresh, then dequeues for one tenant and queue after  *)
(* the other, runs the handler and acks or nacks.  A handler may outlast   *)
(* its lease, so that the reaper gives the task to another worker.  Reads  *)
(* and writes of the registry's operations are steps of their own: dequeue *)
(* holds the queue lock between them and ack the ack lock, nack and the    *)
(* reaper hold nothing.  The registry's faults are TaskQueue's.            *)
(***************************************************************************)
EXTENDS Integers, FiniteSets, Sums

CONSTANTS
  Workers,        \* the worker loops; their number is `concurrency`
  TenantOf,       \* task -> tenant it belongs to; tasks are numbers
  QueueOf,        \* task -> place of its queue in `queues`, 0 for one not among them
  NumQueues,      \* the length of `queues`
  TotalSlots,     \* total_slots
  MinGuarantee,   \* min_guarantee_slots (5 in the code)
  MaxAttempts     \* nack's max_attempts (5 in the code)

\* Bounds of the model; the code has none of them.
CONSTANTS
  MaxScore,       \* scores
  MaxExpiries     \* leases that end before their task is acked or nacked

Ids == DOMAIN TenantOf
Tenants == {TenantOf[i] : i \in Ids}
Queues == 1 .. NumQueues

ASSUME WorkerAssumption ==
  /\ IsFiniteSet(Workers) /\ Workers # {}
  /\ IsFiniteSet(Ids) /\ Ids # {}
  /\ NumQueues \in Nat \ {0}
  /\ QueueOf \in [Ids -> Queues \cup {0}]
  /\ TotalSlots \in Nat
  /\ MinGuarantee \in Nat \ {0}
  /\ MaxAttempts \in Nat \ {0}
  /\ MaxScore \in Nat \ {0}
  /\ MaxExpiries \in Nat

VARIABLES
  pending, inflight, dlq, \* the records of the three column families
  seq,            \* tenant -> its next key; the registry's one counter, of which
                  \* only the order within a tenant shows
  sent,           \* tasks enqueued so far
  new,            \* tenants whose is_new is set
  rated,          \* tenants whose arrival_rate is positive
  dormant,        \* tenants whose last_enqueue_at is dormancy_threshold ago
  acked,          \* task -> acks recorded of it; the collector has their sum
  pc, reg,        \* where each worker is, and its local variables
  reaping,        \* the records in the reaper's batch
  expired,        \* task -> leases of it that ended unanswered
  doubled         \* history: task -> writes after which there is one more of it

storeVars == <<pending, inflight, dlq, seq, sent>>
statVars == <<new, rated, dormant, acked>>
historyVars == <<expired, doubled>>
vars == <<storeVars, statVars, pc, reg, reaping, historyVars>>

\* A record: the task, the sequence number in its key, the deliveries so far, and
\* whether its deadline is over.  No two tasks have records under one key.
Records == [id : Ids, key : Nat, attempts : Nat, late : BOOLEAN]

Deliveries == Ids \X Nat
NoDelivery == <<>>

\* The tenants found guaranteed and the rated ones of the snapshot, the schedule
\* still to be served, how many of its queues a tenant was served already, the
\* records a dequeue read, the deliveries still to be processed, the one being
\* answered, and the attempts and the new key (0 for none) of a task put back.
Registers ==
  [guaranteed : SUBSET Tenants, rated : SUBSET Tenants,
   sched : [Tenants -> Nat], visited : [Tenants -> 0 .. NumQueues],
   found : SUBSET Records, todo : SUBSET Deliveries, cur : Deliveries \cup {NoDelivery},
   attempts : Nat, fresh : Nat]

NoRegisters ==
  [guaranteed |-> {}, rated |-> {}, sched |-> [t \in Tenants |-> 0],
   visited |-> [t \in Tenants |-> 0], found |-> {}, todo |-> {}, cur |-> NoDelivery,
   attempts |-> 0, fresh |-> 0]

PCs ==
  {"tick", "filter", "serve", "dequeue", "ack", "ack_write", "ack_count", "nack",
   "nack_write"}

TypeOK ==
  /\ pending \subseteq Records
  /\ inflight \subseteq Records
  /\ dlq \subseteq Records
  /\ seq \in [Tenants -> Nat]
  /\ sent \subseteq Ids
  /\ new \subseteq Tenants
  /\ rated \subseteq Tenants
  /\ dormant \subseteq Tenants
  /\ acked \in [Ids -> Nat]
  /\ pc \in [Workers -> PCs]
  /\ reg \in [Workers -> Registers]
  /\ reaping \subseteq Records
  /\ expired \in [Ids -> 0 .. MaxExpiries]
  /\ doubled \in [Ids -> Nat]

\* Tenants are as register leaves them, or as warm_from_store does after a
\* restart when their arrival rates had decayed to nothing; Refresh leads from
\* these to the other combinations.
Init ==
  /\ pending = {} /\ inflight = {} /\ dlq = {}
  /\ seq = [t \in Tenants |-> 1]
  /\ sent = {}
  /\ new \in {Tenants, {}}
  /\ rated = {}
  /\ dormant = {}
  /\ acked = [i \in Ids |-> 0]
  /\ pc = [w \in Workers |-> "tick"]
  /\ reg = [w \in Workers |-> NoRegisters]
  /\ reaping = {}
  /\ expired = [i \in Ids |-> 0]
  /\ doubled = [i \in Ids |-> 0]

Goto(w, l) == pc' = [pc EXCEPT ![w] = l]
Locals(w, g) == reg' = [reg EXCEPT ![w] = g]

\* The keys of a batch of records, and a column family after deletes and puts.
Keys(B) == {<<r.id, r.key>> : r \in B}
Delete(F, K) == {r \in F : <<r.id, r.key>> \notin K}
Put(F, B) == Delete(F, Keys(B)) \cup B

(***************************************************************************)
(* allocate_slots                                                          *)
(***************************************************************************)
Smaller(a, b) == IF a <= b THEN a ELSE b
Larger(a, b) == IF a >= b THEN a ELSE b

\* worker_slots
WorkerSlots == Larger(TotalSlots \div Cardinality(Workers), 1)

\* The snapshot and the first filter.
AllocateBegin(w) ==
  /\ pc[w] = "tick"
  /\ Locals(w, [NoRegisters EXCEPT !.guaranteed = new \cup dormant, !.rated = rated])
  /\ Goto(w, "filter")
  /\ UNCHANGED <<storeVars, statVars, reaping, historyVars>>

\* Faulty variant: the guaranteed slots are not taken off the budget.
NormalBudgetWhole(G) == WorkerSlots

\* Faulty variant: the subtraction does not saturate.
NormalBudgetUnsaturated(G) == WorkerSlots - MinGuarantee * Cardinality(G)

NormalBudget(G) == WorkerSlots - Smaller(MinGuarantee * Cardinality(G), WorkerSlots)

\* Faulty variant: the guaranteed tenants share what the budget has for them.
GuaranteedSlotsShared(G) ==
  Smaller(MinGuarantee * Cardinality(G), WorkerSlots) \div Cardinality(G)

\* Every guaranteed tenant gets the minimum, whatever the total.
GuaranteedSlots(G) == MinGuarantee

\* The shares of the normal budget B of tenants N with the given scores; top,
\* the one whose recorded backlog ratio is highest, gets what rounding leaves.
\* With nothing to divide by, nobody gets anything.
Shares(score, N, B, top) ==
  LET share == [t \in N |-> (B * score[t]) \div Sum(score, N)]
  IN  IF Sum(score, N) = 0 THEN [t \in N |-> 0]
      ELSE [share EXCEPT ![top] = @ + B - Sum(share, N)]

\* The second filter asks the clock again: a tenant that became dormant since
\* the first one is in neither list.
Normal(w) == Tenants \ (reg[w].guaranteed \cup dormant)

\* A score is the arrival rate, raised by the backlog ratio and damped by the
\* burst score: zero exactly when the rate is.
Scores(w) ==
  {score \in [Normal(w) -> 0 .. MaxScore] :
     \A t \in Normal(w) : score[t] > 0 <=> t \in reg[w].rated}

Allocate(w) ==
  LET G == reg[w].guaranteed
      N == Normal(w)
  IN  /\ pc[w] = "filter"
      /\ \E score \in Scores(w), top \in IF N = {} THEN Tenants ELSE N :
           LET shares == Shares(score, N, NormalBudget(G), top)
           IN  Locals(w, [NoRegisters EXCEPT
                            !.sched = [t \in Tenants |-> IF t \in G THEN GuaranteedSlots(G)
                                                         ELSE IF t \in N THEN shares[t] ELSE 0]])
      /\ Goto(w, "serve")
      /\ UNCHANGED <<storeVars, statVars, reaping, historyVars>>

(***************************************************************************)
(* worker_loop and dequeue                                                 *)
(***************************************************************************)
\* The records of F that belong to queue q of tenant t.
InQueue(F, t, q) == {r \in F : TenantOf[r.id] = t /\ QueueOf[r.id] = q}

\* The n oldest records of S.
Oldest(S, n) == {r \in S : Cardinality({x \in S : x.key < r.key}) < n}

\* A worker is between the read and the write of a dequeue.
QueueLocked(t, q) ==
  \E x \in Workers : pc[x] = "dequeue" /\ InQueue(reg[x].found, t, q) # {}

Serving(w) == pc[w] = "serve" /\ reg[w].todo = {}

\* registry.dequeue takes the queue lock and reads; each queue of a tenant may be
\* given all of its slots.  With nothing found there is nothing to write.
DequeueScan(w, t) ==
  LET q == reg[w].visited[t] + 1
      got == Oldest(InQueue(pending, t, q), reg[w].sched[t])
  IN  /\ Serving(w)
      /\ reg[w].sched[t] > 0
      /\ \A u \in Tenants \ {t} : reg[w].visited[u] = 0
      /\ ~QueueLocked(t, q)
      /\ Locals(w, [reg[w] EXCEPT !.visited[t] = q % NumQueues, !.found = got,
                                  !.sched[t] = IF q = NumQueues THEN 0 ELSE @])
      /\ Goto(w, IF got = {} THEN "serve" ELSE "dequeue")
      /\ UNCHANGED <<storeVars, statVars, reaping, historyVars>>

Leased(B) == {[r EXCEPT !.attempts = @ + 1, !.late = FALSE] : r \in B}

\* The batch that moves what was read to the inflight family.
DequeueWrite(w) ==
  LET got == reg[w].found
  IN  /\ pc[w] = "dequeue"
      /\ pending' = Delete(pending, Keys(got))
      /\ inflight' = Put(inflight, Leased(got))
      /\ Locals(w, [reg[w] EXCEPT !.found = {}, !.todo = Keys(got)])
      /\ Goto(w, "serve")
      /\ UNCHANGED <<dlq, seq, sent, statVars, reaping, historyVars>>

\* The loop waits for its next tick.
ServeEnd(w) ==
  /\ Serving(w)
  /\ \A t \in Tenants : reg[w].sched[t] = 0
  /\ Locals(w, NoRegisters)
  /\ Goto(w, "tick")
  /\ UNCHANGED <<storeVars, statVars, reaping, historyVars>>

(***************************************************************************)
(* process_task                                                            *)
(***************************************************************************)
\* The handler returns for the next delivery: l says how.
Handle(w, d, l) ==
  /\ pc[w] = "serve"
  /\ d \in reg[w].todo
  /\ \A e \in reg[w].todo : d[2] <= e[2]
  /\ Locals(w, [reg[w] EXCEPT !.cur = d])
  /\ Goto(w, l)
  /\ UNCHANGED <<storeVars, statVars, reaping, historyVars>>

\* Delivery d's record is in the inflight family.
InFlight(d) == d \in Keys(inflight)

\* The worker is through with the delivery it is answering.
Answered(w) == [reg[w] EXCEPT !.todo = @ \ {reg[w].cur}]
Finished(w) ==
  [reg[w] EXCEPT !.todo = @ \ {reg[w].cur}, !.cur = NoDelivery, !.attempts = 0, !.fresh = 0]

\* Some trace of task i is left in the store.
Stored(i) == \E r \in pending \cup inflight \cup dlq : r.id = i

\* History: a put of delivery d's task, whose record is not there to be deleted.
PutTwice(d) == [doubled EXCEPT ![d[1]] = IF InFlight(d) THEN @ ELSE @ + 1]

\* History: a delete of delivery d, whose task was put somewhere else meanwhile.
DeletedElsewhere(d) ==
  [doubled EXCEPT ![d[1]] = IF InFlight(d) \/ ~Stored(d[1]) THEN @ ELSE @ + 1]

\* Faulty variant: nothing keeps two acks apart.
AckUnlocked(d) == FALSE

\* A worker is between the read and the write of an ack in d's queue.
AckLocked(d) ==
  \E x \in Workers :
    /\ pc[x] = "ack_write"
    /\ TenantOf[reg[x].cur[1]] = TenantOf[d[1]] /\ QueueOf[reg[x].cur[1]] = QueueOf[d[1]]

\* registry.ack takes the ack lock and looks; an ack of a key that is not there is
\* a no-op, and not counted.
AckRead(w) ==
  LET d == reg[w].cur
  IN  /\ pc[w] = "ack"
      /\ ~AckLocked(d)
      /\ \/ /\ InFlight(d)
            /\ Goto(w, "ack_write")
            /\ UNCHANGED reg
         \/ /\ ~InFlight(d)
            /\ Goto(w, "serve")
            /\ Locals(w, Finished(w))
      /\ UNCHANGED <<storeVars, statVars, reaping, historyVars>>

\* The delete, whatever became of the record since.
AckWrite(w) ==
  LET d == reg[w].cur
  IN  /\ pc[w] = "ack_write"
      /\ inflight' = Delete(inflight, {d})
      /\ doubled' = DeletedElsewhere(d)
      /\ Goto(w, "ack_count")
      /\ Locals(w, Answered(w))
      /\ UNCHANGED <<pending, dlq, seq, sent, statVars, reaping, expired>>

\* record_ack
AckCount(w) ==
  /\ pc[w] = "ack_count"
  /\ acked' = [acked EXCEPT ![reg[w].cur[1]] = @ + 1]
  /\ Goto(w, "serve")
  /\ Locals(w, Finished(w))
  /\ UNCHANGED <<storeVars, new, rated, dormant, reaping, historyVars>>

\* nack finds that the task has attempts left.
Retryable(r) == r.attempts < MaxAttempts

\* registry.nack reads the record and, for a retry, draws the next sequence number.
NackFound(w, r) ==
  LET t == TenantOf[r.id]
  IN  /\ <<r.id, r.key>> = reg[w].cur
      /\ Locals(w, [reg[w] EXCEPT !.attempts = r.attempts,
                                  !.fresh = IF Retryable(r) THEN seq[t] ELSE 0])
      /\ seq' = IF Retryable(r) THEN [seq EXCEPT ![t] = @ + 1] ELSE seq
      /\ Goto(w, "nack_write")

NackRead(w) ==
  /\ pc[w] = "nack"
  /\ \/ \E r \in inflight : NackFound(w, r)
     \/ /\ ~InFlight(reg[w].cur)
        /\ Locals(w, Finished(w))
        /\ Goto(w, "serve")
        /\ UNCHANGED seq
  /\ UNCHANGED <<pending, inflight, dlq, sent, statVars, reaping, historyVars>>

\* The batch, whatever became of the record since: the key is deleted, and the
\* task put to the end of its backlog under the new key, or to the dead letter
\* queue under the old one.
NackWrite(w) ==
  LET d == reg[w].cur
      put(k) == {[id |-> d[1], key |-> k, attempts |-> reg[w].attempts, late |-> FALSE]}
  IN  /\ pc[w] = "nack_write"
      /\ inflight' = Delete(inflight, {d})
      /\ \/ /\ reg[w].fresh > 0
            /\ pending' = Put(pending, put(reg[w].fresh))
            /\ UNCHANGED dlq
         \/ /\ reg[w].fresh = 0
            /\ dlq' = Put(dlq, put(d[2]))
            /\ UNCHANGED pending
      /\ doubled' = PutTwice(d)
      /\ Goto(w, "serve")
      /\ Locals(w, Finished(w))
      /\ UNCHANGED <<seq, sent, statVars, reaping, expired>>

Process(w) ==
  \/ \E d \in reg[w].todo, l \in {"ack", "nack"} : Handle(w, d, l)
  \/ AckRead(w)
  \/ AckWrite(w)
  \/ AckCount(w)
  \/ NackRead(w)
  \/ NackWrite(w)

Work(w) ==
  \/ AllocateBegin(w)
  \/ Allocate(w)
  \/ \E t \in Tenants : DequeueScan(w, t)
  \/ DequeueWrite(w)
  \/ ServeEnd(w)
  \/ Process(w)

(***************************************************************************)
(* The producers, the stats daemon, the reaper and the clock               *)
(***************************************************************************)
\* An enqueue, under the queue lock, counted by record_enqueue; last_enqueue_at is
\* left as it is.
Enqueue(i) ==
  LET t == TenantOf[i]
  IN  /\ i \notin sent
      /\ ~QueueLocked(t, QueueOf[i])
      /\ sent' = sent \cup {i}
      /\ pending' = Put(pending, {[id |-> i, key |-> seq[t], attempts |-> 0, late |-> FALSE]})
      /\ seq' = [seq EXCEPT ![t] = @ + 1]
      /\ UNCHANGED <<inflight, dlq, statVars, pc, reg, reaping, historyVars>>

\* refresh, one entry: a tenant something was enqueued for since the last one is
\* not new any more and has a positive arrival rate.  The rate stays positive, so
\* that refreshing t again changes nothing.
Refresh(t) ==
  /\ t \in new \/ t \notin rated
  /\ \E i \in sent : TenantOf[i] = t
  /\ new' = new \ {t}
  /\ rated' = rated \cup {t}
  /\ UNCHANGED <<storeVars, dormant, acked, pc, reg, reaping, historyVars>>

\* dormancy_threshold_secs have passed since t was registered; nothing but a
\* new registration sets last_enqueue_at.
FallDormant(t) ==
  /\ t \notin dormant
  /\ dormant' = dormant \cup {t}
  /\ UNCHANGED <<storeVars, new, rated, acked, pc, reg, reaping, historyVars>>

\* The deadline of a lease passes.
Expire(r) ==
  /\ ~r.late
  /\ Sum(expired, Ids) < MaxExpiries
  /\ inflight' = (inflight \ {r}) \cup {[r EXCEPT !.late = TRUE]}
  /\ expired' = [expired EXCEPT ![r.id] = @ + 1]
  /\ UNCHANGED <<pending, dlq, seq, sent, statVars, pc, reg, reaping, doubled>>

\* Faulty variant: the deadline is not looked at.
OverdueAlways(r) == TRUE

Overdue(r) == r.late

\* reap_inflight of one queue reads the inflight family and the clock ...
ReapScan(t, q) ==
  LET over == {r \in InQueue(inflight, t, q) : Overdue(r)}
  IN  /\ reaping = {}
      /\ over # {}
      /\ reaping' = over
      /\ UNCHANGED <<storeVars, statVars, pc, reg, historyVars>>

\* ... and writes the batch that puts back what was overdue under the same keys,
\* whatever became of it since.
ReapWrite ==
  /\ reaping # {}
  /\ inflight' = Delete(inflight, Keys(reaping))
  /\ pending' = Put(pending, {[r EXCEPT !.late = FALSE] : r \in reaping})
  /\ doubled' = [i \in Ids |->
       doubled[i] + Cardinality({d \in Keys(reaping) : d[1] = i /\ ~InFlight(d)})]
  /\ reaping' = {}
  /\ UNCHANGED <<dlq, seq, sent, statVars, pc, reg, expired>>

Reap ==
  \/ \E t \in Tenants, q \in Queues : ReapScan(t, q)
  \/ ReapWrite

Next ==
  \/ \E w \in Workers : Work(w)
  \/ \E i \in Ids : Enqueue(i)
  \/ \E r \in inflight : Expire(r)
  \/ Reap
  \/ \E t \in Tenants : Refresh(t) \/ FallDormant(t)

Spec == Init /\ [][Next]_vars

\* tokio keeps every worker loop running and handlers return; time passes.
FairSpec ==
  /\ Spec
  /\ \A w \in Workers : WF_vars(Work(w))
  /\ \A t \in Tenants : WF_vars(FallDormant(t))

(***************************************************************************)
(* Properties                                                              *)
(***************************************************************************)
\* No tenant starves: whatever the scores and the number of slots, a pending task
\* of a queue the pool works on is handed to a worker in the end, because every
\* tenant comes to be guaranteed some slots.
BacklogServed ==
  \A i \in Ids : QueueOf[i] # 0 => (\E r \in pending : r.id = i) ~> ~(\E r \in pending : r.id = i)

\* A worker has acked a delivery of task i and is about to count it.
Counting(i) == {w \in Workers : pc[w] = "ack_count" /\ reg[w].cur[1] = i}

\* The statistics count the acks that took a task away: no task leaves the store
\* uncounted, and two acks never count for one record.  A task is counted more than
\* once only if it was doubled: a reaper or nack that read its record put it back
\* after another request had taken it, or an ack deleted it after one of these had
\* put it elsewhere.  Each time takes a lease on the task that ran out.
AcksAccounted ==
  \A i \in Ids :
    LET count == acked[i] + Cardinality(Counting(i))
    IN  /\ i \in sent /\ ~Stored(i) => count > 0
        /\ count <= 1 + doubled[i]
        /\ doubled[i] <= expired[i]

Holders(i) == {w \in Workers : \E d \in reg[w].todo : d[1] = i} \cup Counting(i)

\* Workers allocate on their own and may dequeue for one tenant at once; a task
\* is nevertheless in the hands of one worker only, and of another one only for
\* each lease on it that ran out.
HoldersBounded ==
  \A i \in Ids : Cardinality(Holders(i)) <= 1 + expired[i]

\* A schedule hands out all the slots that guaranteed tenants leave, to normal
\* tenants with a score, and exceeds the worker's slots only by what is
\* guaranteed.
BudgetSpent ==
  [][\A w \in Workers : pc[w] = "filter" /\ pc'[w] = "serve" =>
       LET most == Larger(WorkerSlots, MinGuarantee * Cardinality(reg[w].guaranteed))
           given == Sum(reg'[w].sched, Tenants)
       IN  /\ given <= most
           /\ reg[w].rated \cap Normal(w) # {} => given = most]_vars
=============================================================================
