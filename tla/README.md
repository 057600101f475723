# RocksQueue: a TLA+ model of the multi-tenant task queue

RocksQueue stores the tasks of many tenants in one RocksDB database, hands them
out under a visibility timeout, and throttles tenants that misbehave. This
directory holds TLA+ modules translated from `src/src/`, the TLC configurations
that check them on small instances, and TLAPS proofs of the main safety
properties for instances of any size. `PROJECT.json` lists the runs, the lines
each definition models, the hazards and the findings.

## 1. The system

| Part | State it keeps | Operations | What makes it correct |
|---|---|---|---|
| Task store (`tenant.rs`, `task.rs`, `policy.rs`) | per tenant the column families pending, inflight, dlq, keyed by (queue, sequence number); the atomic sequence counter; one queue lock and one ack lock per queue | enqueue, dequeue (capped and uncapped), ack, cumulative ack, nack, purge, replay, depth | no accepted task is lost; keys are unique; quota and in-flight cap; acks count once |
| Reaper (`reaper.rs`) | none | returns overdue deliveries to pending, corrupt ones to the dlq | a dead consumer strands nothing |
| Compaction filters (`compaction.rs`) | counters | drop expired or corrupt records | never drop a live delivery |
| Tenant lifecycle (`tenant.rs`, `grpc/control_plane.rs`, `main.rs`) | families and a metadata record on disk; policy map, lock maps, scheduler, collector and baseline registries in memory | provision, drop, set policy, open after a crash | what was acknowledged survives; what was dropped is gone; the database opens |
| Adaptive throttling (`throttle.rs`, `stats_daemon.rs`, `stats_store.rs`) | throttle states in memory and on disk; the scheduler's policies | evaluate, apply, release, force release, restore | a throttle is in force while reported, temporary, and survives a restart |
| WFQ scheduler (`scheduler.rs`) | policies, tokens, virtual finish times, in-flight counts, pause flags | register, update, schedule, complete, pause | shares by weight, caps respected |
| Statistics, baselines (`stats.rs`, `baseline.rs`, `stats_store.rs`) | counters, totals, moving averages, spike thresholds; their records in `__system__` | record, refresh, allocate slots, promote, flush, warm start | bounded slots, no starvation; what was learnt survives a restart |
| Worker pool (`fair_worker.rs`) | none | allocate slots, dequeue, run the handler, ack or nack | a task has one holder per lease, every ack is counted |
| Durability (`tenant.rs`, `main.rs`, `scripts/*.sh`) | the WAL and tables, checkpoints in object storage | synced and unsynced writes, open, checkpoint, upload, restore | what is lost is a suffix, and no more than announced |
| Config, errors, ownership hash, HTTP server | none | | |

How they interact: gRPC handlers and the embedded workers call `TenantRegistry`
on blocking-pool threads; the reaper and the stats daemon are background tasks
on the same registry. They share the RocksDB families, the lock maps, the
policy map and the scheduler. Nothing spans two of these: there is no
transaction beyond one `WriteBatch`.

What is hard: enqueue and dequeue take the queue lock, ack takes another lock,
and nack, cumulative ack, purge, replay and the reaper take none, so every read
can be out of date when its batch is committed; counts are taken one family
after the other; the sequence counter restarts from the clock; provisioning and
dropping are sequences of durable steps; a throttle is kept in three places;
the scheduler and the slot allocation read a concurrent map in several passes;
handlers outlast their leases; a checkpoint's upload may stop half way.
`PROJECT.json` lists these hazards with their lines.

## 2. Modules

| Module | Models |
|---|---|
| `TaskQueue` | one tenant's data path: the task store, the reaper, compaction, drain |
| `AtLeastOnceQueue` | what the task store promises its clients, without keys, locks or batches |
| `TaskQueueRefinement` | the mapping under which `TaskQueue` implements it |
| `TaskQueueProofs` | theorems about `TaskQueue`: types, no task lost, keys not shared |
| `TaskQueueDeliveryProofs` | the other theorems about `TaskQueue`, and that it implements `AtLeastOnceQueue` |
| `TenantLifecycle` | provisioning, dropping, policies, crash and open, lock objects |
| `WFQScheduler` | `schedule` and what changes under it: releases, pauses, policies, removals |
| `FairWorkers` | the worker loops, `allocate_slots`, the refresh and the reaper beside them |
| `AutoThrottle` | throttling by the daemon and by operators, restart |
| `StatsDaemon` | the daemon's whole cycle over `AutoThrottle`: totals, thresholds, records |
| `Durability` | writes, power failures, checkpoints, upload and restore |
| `Sums` | the sum of a function over a set, for the two scheduling modules |
| `TenantLifecycleProofs`, `WFQSchedulerProofs`, `FairWorkersProofs`, `StatsDaemonProofs`, `DurabilityProofs` | the theorems about the module of that name; `StatsDaemonProofs` has those of `AutoThrottle` too |
| `SumsProofs` | lemmas about sums, quotients and least elements |
| `MCTaskQueue`, `MCTenantLifecycle`, `MCWFQScheduler`, `MCFairWorkers`, `MCAutoThrottle`, `MCStatsDaemon` | policy sets and symmetry for TLC |

In each module an operator whose comment begins "Faulty variant" restates the
definition after it with a plausible slip in it. No action uses these; they
show that a property would notice the slip.

### TaskQueue

`db` is the set of stored records; a record carries its column family, key,
task id, attempts, what its deadline is (unset, ahead, past) and whether it
deserializes. An operation is a process that reads `db`, fills `batch[p]` as the
code fills its `WriteBatch`, and commits with `Applied`; `reg[p]` holds its
local variables and `pc[p]` the next step. One step is one RocksDB scan, get or
write, because that is what RocksDB makes atomic.

| Code | Actions |
|---|---|
| `enqueue_batch_sync`, `enforce_quota`, `evict_oldest_pending` | `EnqueueBegin`, `EnqueueCountPending`, `QuotaFits`, `QuotaExceeded`, `QuotaWait`, `QuotaEvict`, `EvictScan`, `EvictWrite`, `EnqueueBuild`, `EnqueueWrite` |
| `dequeue_with_max_inflight`, `dequeue_batch`, `dequeue_batch_unlocked` | `DequeueBegin`, `DequeueUncappedBegin`, `DequeueCount`, `DequeueAtCap`, `DequeueScan`, `DequeueEmpty`, `DequeueWrite` |
| `ack_batch`, `cumulative_ack` | `AckBegin`, `AckLock`, `AckRead`, `AckWrite`, `CumulativeAckScan`, `CumulativeAckWrite` |
| `nack`, `purge_dlq`, `replay_dlq` | `NackRead`, `NackWrite`, `PurgeScan`, `PurgeWrite`, `ReplayScan`, `ReplayAborts`, `ReplayWrite` |
| `reap_inflight` | `ReapScan`, `ReapWrite` |
| `drain_tenant` | `DrainBegin`, `DrainCountPending`, `DrainDone`, `DrainPoll`, `DrainTimeout` |
| compaction, time, failures | `Expire`, `Compact`, `Corrupt`, `IoError`, `Restart` |

The policy a request uses is any member of `Policies`, since handlers read it
before they take a lock. A client may ack or nack any key it was ever given, as
late and as often as it likes. `ClockAhead` says whether the clock at a restart
has passed every sequence number drawn. Variables marked "history" are read by
no action's guard, except that `handed` bounds the keys clients use and
`deliveries` carries the bound `MaxDeliveries`.

`AtLeastOnceQueue` has four actions (accept, deliver, acknowledge, discard) over
sets of task ids. The mapping calls a task held while any record of it is
stored. It allows a settled task to come back, because the code does: a dequeue,
nack or reap that read a record before it was settled writes it again.

### TenantLifecycle

`families` and `meta` are what is on disk, `policies`, `registered` and `lockOf`
what is in memory. `created` counts how often a family was created, so a family
that was dropped and created again is told apart from the first one. `After`
gives the order of the durable and in-memory steps of each request. `promise`,
`expected` and `good` record what the answers given so far entitle a client to;
requests about the same tenant that overlap are marked (`clash`; `rival` if
neither is a policy update), because their order is not defined. `revived` holds
the tenants that a policy update wrote back behind a drop.

### WFQScheduler

An entry of the DashMap is read and written atomically, and nothing else is. A
call of `schedule` is therefore a sequence of steps: `ScheduleBegin` (the load of
`virtual_time`), `Weigh` once per entry (the sum of weights), `Collect` once per
entry (refill, candidate), `Charge` once per candidate, `Leftover`, `Advance` (the
store to `virtual_time` and the answer). Virtual times are kept in units of
1/`Scale`, tokens as whole tokens; a refill adds an arbitrary number. A share is
`floor(total_slots as f64 * (weight as f64 / total_weight as f64))`: where the exact
product is a whole number the computed one may be just below it, and the share
is one less. With 49 tenants of equal weight and 49 slots every share is 0, and
nothing is scheduled. The constant `RoundsDown` says which combinations are so;
its assumption admits any set of whole products, of which the doubles are one (below
2^20 slots a product that is not whole cannot reach the whole number above it).
Virtual finish times are exact, where the code's doubles may order two near ones
the other way. `update_policy` of an unknown tenant looks (`UpdatePolicyMiss`) and
inserts (`UpdatePolicyInsert`) in two steps, and both it and `register` replace
whatever entry is there by then. Nothing in `src/` but tests calls `schedule` and `release`, so the callers are any threads
that release no more than they were given.

### FairWorkers

`pending`, `inflight` and `dlq` are sets of records; a worker goes through the list of
queues for each tenant of its schedule. Reads and writes are separate steps:
`DequeueScan` and `DequeueWrite` under the queue lock, `AckRead` and `AckWrite` under the
ack lock with `AckCount` (`record_ack`) after it, and `NackRead`, `NackWrite` and
`ReapScan`, `ReapWrite` with no lock, so that what they write may be out of date. One
scan, with the clock reading beside it, is one step: an iterator reads a snapshot.
`doubled` counts the writes after which there is one more of a task than before.
Statistics are reduced to what `allocate_slots`
tells apart: `new` (`is_new`), `rated` (a positive arrival rate) and `dormant`
(`last_enqueue_at` too long ago). Only `register` sets `last_enqueue_at`, so every
tenant falls dormant and is guaranteed its minimum from then on; that, and not
the scores, is why nobody starves. Scores are arbitrary numbers, positive exactly
for rated tenants; that a share is floored as a double is within that
choice but for a whole share being one lower, which then goes to the top
tenant with the rest. The two filters ask the clock separately, so they are two
steps. Corrupt records and storage errors are `TaskQueue`'s.

### AutoThrottle

`sched`, `states` and `stored` are the three places a throttle lives in. `load`
stands for the statistics of one cycle: hot (some threshold passed), calm (all
release conditions but the cooldown hold) or mid. `ref` is the DashMap `Ref`
that `evaluate` holds while it calls `release_throttle`; `states.remove` waits
for it. Each tenant is given a map shard of its own; in the code two tenants may
share one, which only adds waiting. Writes and deletions of a record may fail,
which the code logs and ignores (`Fault`). `SetNamespacePolicy` rewrites a tenant's
record with the rate, burst and `max_inflight` of the standard tier, whatever its
own; the scheduler learns of that at the next start. DropTenant and ProvisionTenant are
single steps here; `TenantLifecycle` has them in full.

### StatsDaemon

Extends `AutoThrottle` by the rest of the cycle in `stats_daemon.rs`: `Refresh`,
`Promote` or `Unpromoted` per tenant with `FlushPromotion` in between, the
evaluation of the throttles, and every `FlushEvery` cycles `FlushStats` and
`FlushBaseline` record by record. Of the statistics it keeps `total_enqueued`,
which is counted, copied, saved and warmed like the other totals; of a baseline
the spike threshold, in steps above the initial one. Whether CUSUM detects a
drift is arbitrary; that a promotion only raises the threshold is the code's test.

### Durability

`db` is the sequence of batches written, `synced` the length of the part that is
on stable storage. `HotWrite` and `AdminWrite` differ in their write options only.
A power failure leaves a prefix that contains what was synced
(`TolerateCorruptedTailRecords`); a process crash leaves all. `halfway` is set between
`provision_tenant`'s first `create_cf` and the tenant's record; `Open` refuses such
a database, as `TenantLifecycle_reopen` shows. `remote` holds the
uploaded checkpoints; an upload proceeds file by file and may stop.
`restore_from_s3.sh` takes the last one listed, checks for the metadata files and
installs it. On an empty listing it ends with an error, either in `aws s3 ls` under
`pipefail` or by its own `exit 2`; whether the instance is then started with nothing
(`StartEmpty`) depends on a `user_data.sh` that is not in the repository.
A sync is taken to be durable, although `setup_storage.sh:44` mounts the disks
`nobarrier,data=writeback`, which leaves that to the drive.

## 3. Runs

Passing runs:

| Run | Shows |
|---|---|
| `TaskQueue_races` | two request threads and the reaper over nack, purge, replay, uncapped dequeue and drain, with a corrupt record or I/O error: `NoTaskLost`, `DeadLetterEarned`, `AttemptsEarned`, `DrainTruthful`, and `ImplementsContract`: the store refines `AtLeastOnceQueue` |
| `TaskQueue_quota` | `QuotaBound`, `InflightWithinCap`, `TypeOK` under Reject, Block and EvictOldest |
| `TaskQueue_acks` | `NoCircularWait`, `AckCountedOnce`, and `SingleCopy` as long as nobody nacks or replays, over two queues |
| `TaskQueue_leases` | `ReapedLeasesEnd`: every lease on a reaped queue ends; `BlockedProducerReturns`: a producer waiting for room returns (liveness), over restarts and faults; the inductive invariant `Inv` |
| `TenantLifecycle_tenants` | `ProvisionedIsServed`, `DroppedIsGone`, `QueueSerialized`, `TypeOK` with an I/O error, cancelled requests and a crash |
| `WFQScheduler_slots` | two overlapping calls of `schedule` under pauses, removals and policy changes: `ProportionalShare`, `SlotsAccounted`, `PausedGetsNothing`, and how far caps and tokens can be exceeded: `InflightOvershoot`, `TokenDebtBounded` |
| `FairWorkers_slots` | two workers: `BudgetSpent`, `AcksAccounted`, `HoldersBounded`, and `BacklogServed`: no tenant starves (liveness) |
| `StatsDaemon_restart` | daemon, operator, a failing write and a restart: `RateRestored`, `ThrottlePersisted`, `ThrottleInForce`, `MaxInflightDecays`, `ThresholdSurvives`, `TotalsCredible` |
| `Durability_failures` | three failures of any kind: `NothingElseLost`, `NoHoles`, and `ServerReturns` (liveness) |

Runs that find the code at odds with what the repository says of it (each has
its entry, with the quoted line, under `findings`):

| Run | What the code does |
|---|---|
| `TaskQueue_clock_behind` | a restart may reuse sequence numbers, and a new task overwrites a pending one |
| `TenantLifecycle_reopen` | a crash during provisioning leaves a database that does not open |
| `AutoThrottle_release` | the daemon waits for itself when it releases a throttle |

Some properties are stated as the strongest form that holds, and their wording
says where the plainer promise ends:

* `DrainTruthful` excepts a task put back between the two counts of `depth`; a
  nack in that window makes a drain answer true with a task pending.
* `QuotaBound` adds the records put back and, under EvictOldest, what cannot be
  evicted; a backlog can exceed its quota by that much.
* `SingleCopy` is checked without nack and replay. A nack that races the reaper,
  or a second nack, puts a task back under a second key: delivery is at least
  once, with duplicates from the server itself.
* `AckCountedOnce` is checked without cumulative acks, which take no lock and
  can count a delivery that `ack_batch` counts too.
* `ReapedLeasesEnd` speaks of the queues the reaper was given. `main` gives it
  `default` only, so a lease on any other queue ends only by an ack or a nack.
* `ProvisionedIsServed` says nothing about requests on one tenant that overlap:
  two policy updates may leave one policy on disk and another in memory.
* `DroppedIsGone` excepts a tenant that a policy update brought back: one that
  passed `contains_key` before the drop and writes after it (`tenant.rs:914`). Its
  record or policy is then there again without a family, and a restart makes an
  empty tenant of the record, whose drop had been acknowledged. The
  property says that this is the only way back, and that the restart makes a whole
  tenant. It does not speak of drops that overlap a provisioning or another drop.
* `QueueSerialized` excepts a thread that waited with a lock object a drop took
  out of the map: after a re-provision it and the owner of a fresh object work on
  one column family at once, which `tenant.rs:72` ("per-queue mutex serializing
  queue transitions") does not expect.
* `AttemptsEarned` excepts the envelopes of poison records in the dead letter
  queue, which carry a full attempt count by construction; a replay clears it, so
  that one goes to a consumer again, where `task.rs` says it never does.
* `BlockedProducerReturns` says that the wait ends, not what it costs: the
  producer holds the queue lock meanwhile, so only acks can make room.
* `InflightOvershoot` and `TokenDebtBounded` are bounds by the number of calls
  that overlapped. One call alone passes `max_inflight` too, since a whole share
  and the leftover are added to a count below it.
* `ProportionalShare` promises the weighted share to every candidate only when
  both passes saw the same map, and the leftover to the first in line. A whole share
  may come out one slot smaller, for the floating-point product; a share of one slot
  is then none, and with no share at all nobody gets the leftover either.
* `AcksAccounted` allows a task to be counted more than once, as the code does: the
  reaper reads an overdue record, the worker acks it and is counted, the reaper puts
  it back, and a second worker's ack counts again. Each such time needs a
  lease that ran out, and no ack is left uncounted.
* `BudgetSpent` lets a schedule exceed the worker's slots by what is guaranteed:
  every new or dormant tenant gets its minimum, whatever the total.
* `ThrottleInForce` excepts a policy set under a throttle, and a restored
  throttle: `main` registers the tenants after `restore_from_store`, so a tenant
  reported as throttled has its full rate, where `README.md:61` of the repository
  says "isolation survives restarts".
* `RateRestored` excepts a policy set while the tenant was throttled, which the
  release undoes, and the burst, which comes back as last set or as the rate
  (`throttle.rs:197`).
* The four properties of throttles are checked with one operator. `force_release`
  gives up its `Ref`, so two forced releases of one tenant may find the same
  throttle, and the slower one then undoes what the daemon applied after the
  faster one: the tenant is left at the reduced rate with no state, or
  with a state and the full rate.
* `ThrottlePersisted` excepts records that missed a write, and a forced release
  that falls between the write of the record and the insertion of the state.
* `MaxInflightDecays` says how `max_inflight` shrinks: four throttles of the
  standard tier leave 1 of 500, a fifth none, and the scheduler then passes the
  tenant over.
* `TotalsCredible` excepts the first refresh after a restart, which replaces the
  totals just restored by those of counters that start from zero.
* `NothingElseLost` names the two losses the design accepts: unsynced writes at a
  power failure, and what no finished upload holds when the instance is lost.
* `ServerReturns` has three exceptions, where `README.md:13` says "zero manual steps".
  An upload cut short: the script takes that checkpoint at every boot, aborts for
  want of its metadata or installs a database without its tables, and never tries
  an older complete one. A tenant half provisioned when the server stopped or the
  checkpoint was made: open refuses. A lost instance with nothing uploaded: the
  script fails.
* A tenant provisioned again under a name inherits the throttle and the baseline
  of the dropped one: `DropTenant` leaves `states` and the records alone.

**Bounds.** Every bound is a constant with a guard that names it. Two request
threads and the reaper suffice for each race described, as every one is between
two operations on one record. Two tasks are needed for two keys to collide, four
for batches of two against a quota of three. The quotas of that run differ, so that
a request may enforce one that was replaced; the caps do not, as a second cap takes
more tasks than TLC gets through, and `DeliveriesCapped` is proved for any set of
policies. `MaxDeliveries` of two allows a
redelivery; `MaxAttempts` is one or two in place of five, so that the dead
letter queue is reached by that many deliveries. Two creations of a family and
two lock objects are what a drop and re-provision needs. In `WFQScheduler` two
callers and two tenants show every overlap of two passes; 22 slots over
weights of 7 and 15 leave remainders, and `22.0 * (15.0 / 22.0)` is less than 15, so
that the heavy tenant's share is rounded down (a weight of 0, which an UpdatePolicy may
carry, is allowed by the module and not in the run);
`MaxChanges` of two allows a removal and a return between two steps, or an update
that misses and one that comes between; slots are returned in sevens
(`ReturnSizes`), which goes below zero after a replacement as single ones
would. In
`FairWorkers` two workers share one slot each while the guarantee is two, so the
budget is exceeded; one lease that runs out gives a task two holders, and is enough
for an ack between the reaper's scan and its write. Of the two tasks one is in the
second of two queues and one in a queue the pool does not watch. In
`StatsDaemon` two throttles, one restart, one failing write and one policy change
cover every pair of steps that can disagree; the tenant is of the premium tier, so
that `SetNamespacePolicy` changes something; `FlushEvery` is one, as a longer
period shows nothing new: a restart before the flush of a cycle leaves the same
old records as one in a cycle without a flush. In `Durability` three writes, two runs
of the checkpoint script and three failures let a failure hit a restore from an
incomplete upload after a complete one. Deadlock is checked for `FairWorkers`.
Elsewhere the check is off: a bounded model stops when its requests are used up,
`StatsDaemon` stops where the daemon waits for itself, `Durability` where a
restore cannot succeed; the circular waits that matter are stated as properties.

**Symmetry.** Threads and policy versions are interchangeable: no
definition tells one from another. No run of a liveness property uses symmetry.

**Fairness.** `TaskQueue!FairSpec`: the clock moves (`WF` on `Clock`), the
reaper's write follows its scan, and each tick visits every queue it was given.
The reaper visits its queues in a fixed order with nothing that can keep it from
one of them, so a queue that again and again has something to reap is reaped:
`SF` on `ReapScan(q)`.
A producer in `enforce_quota` goes on counting, and a deadline that is past is
noticed when it is looked at: `WF` on its steps, `SF` on `QuotaExceeded`, as a
sleep between two counts never lasts for ever. Beyond that no request thread is
fair; clients may stop at any time.
`AutoThrottle!FairSpec`: tokio keeps running the daemon's loop, release steps
finish unless they wait for a lock, cooldowns end.
`FairWorkers!FairSpec`: tokio keeps every worker loop running and handlers
return; time passes. Neither producers, the refresh nor the reaper is fair.
`Durability!FairSpec`: the service is started again when it stops (`Open`) and the
boot script runs (`Restore`); nothing is assumed of uploads, of a start without
data (`StartEmpty`), nor that a failed provisioning is ever cleaned up.

## 4. Proofs

Every invariant and action property that a passing run checks is also a theorem,
for any sets of threads, tenants, queues, policies and tasks and any values of
the bounds, under the named assumptions on constants (`...Assumption` in each
module; TLC evaluates them in every run). They say that sentinels such as
`None` are none of the values they stand beside, that bounds are numbers, and
that the sets which sums and maxima range over (`Tenants`, `Callers`, `Policies`,
`SlotRequests`, `Workers`, `Ids`) are finite. `Tenants` is not empty, so that
registers have an initial value.

| Module | Theorems (property) | Inductive invariant |
|---|---|---|
| `TaskQueueProofs` | `TypeCorrect` (`TypeOK`), `NothingLost` (`NoTaskLost`), `InvariantHolds` (`Inv`) | `Inv` |
| `TaskQueueDeliveryProofs` | `AcksNeverDeadlock` (`NoCircularWait`) | `LockInv` |
| | `DeadLettersEarned`, `AttemptsAreDeliveries` (`DeadLetterEarned`, `AttemptsEarned`) | `ChargeInv` |
| | `DrainsTruthful` (`DrainTruthful`) | `DrainInv` |
| | `AcksCountOnce` (`AckCountedOnce`) | `AckInv` |
| | `TasksStoredOnce` (`SingleCopy`) | `CopyInv` |
| | `DeliveriesCapped` (`InflightWithinCap`) | `CapInv` |
| | `BacklogBounded` (`QuotaBound`) | `QuotaInv` |
| | `StoreImplementsContract` (`ImplementsContract`) | `ContractInv` |
| `TenantLifecycleProofs` | `LifecycleTypes`, `ProvisionedStaysServed`, `DroppedStaysGone` | `LifecycleInv` |
| | `BacklogSerialized` (`QueueSerialized`) | `LifecycleInv`, `QueueLocks` |
| `StatsDaemonProofs` | `StatsTypesCorrect`, `ThresholdsSurvive`, `TotalsStayCredible` | `StatsInv` |
| | `ThrottlesPersisted`, `ThrottlesInForce`, `RatesRestored` | `ThrottleInv` |
| | `InflightDecays` (`MaxInflightDecays`) | `ThrottleInv`, `Decayed` |
| `WFQSchedulerProofs` | `SchedulerTypes` | `CallInv` |
| | `PausesHold`, `NoSlotLeaks`, `OvershootBounded`, `DebtBounded`, `SharesProportional` | with it `Barred`, `Accounted`, `Capped`, `Indebted`, `Shared` |
| `FairWorkersProofs` | `PoolTypes`, `BudgetsSpent`, `PoolAcksAccounted`, `PoolHoldersBounded` | `PoolInv` |
| `DurabilityProofs` | `DurabilityTypes`, `LogHasNoHoles`, `OnlyForfeitLost` | `DurabilityInv` |

**Conditions.** Some theorems hold under a condition, which each states itself.

* `NothingLost`, `InvariantHolds` and `StoreImplementsContract`: `ClockAhead`, or no
  restarts. `TaskQueue_clock_behind` is the counterexample without it.
* `AcksCountOnce`: no cumulative acks. `TasksStoredOnce`: no nacks and no replays.
  `BacklogBounded`: no uncapped dequeue (`InflightWithinCap` itself says so too).
  Each of these operations works without the lock that the argument rests on;
  what they break is described in section 3.
* The four theorems on throttles: `[]OneRelease`, that is, no two operators force
  the release of one tenant at the same time. The code does not prevent it;
  section 3 says what then happens.

**TaskQueue.** `NoTaskLost` alone is not inductive: a batch waiting to be
committed deletes keys that another operation may have rewritten. `Covered` says
that whatever task now stands under a key a batch deletes is the one the batch
puts back or settles; that rests on `KeyNamesOneTask` (over the store, the batches
and the scans), which rests on `SeqFresh` (a number drawn next occurs in no record
and no deletion). `Finite` is needed along with the types because counts and
batches range over scans. `TaskQueue_leases` checks `Inv` with TLC.

`TaskQueueDeliveryProofs` classifies the steps once: each rests (commits nothing),
scans, builds an enqueue, commits a batch, rewrites one record, or drops one
(`StepShapes`). What a batch may contain at each point is `Carrying` and `Contents`;
who works on a queue holds its lock (`Holding`). The invariants then add what the
property needs at the points where it is not yet, or no longer, true of the store:

* a thread that waits for an ack lock holds only locks of smaller queues;
* the attempts in a record, or in a batch, are covered by deliveries (`Charged`);
* acks counted, and those open in threads or in the store, are covered by
  deliveries (`Credit`), since a key is read once (`KeysRead`) under its lock;
* of a stored task one process at most is about to move a record, and it deletes
  the record it read (`OneMover`);
* between its count and its commit a capped dequeue is the only one to deliver
  from the queue (`Capped`), and an enqueue the only one to add to the backlog but
  for what is put back (`Quotas`). Both count by `FewOldest`: a scan of n meets at
  most n records and leaves all but n;
* for the refinement, whatever is in flight was delivered (`Reached`), and what a
  process is about to write back is stored or settled (`WrittenBack`). Each shape of
  step is then a step of `AtLeastOnceQueue` or changes nothing it speaks of.

**TenantLifecycle.** Provisioning promises something only if it overlapped no other
request on its tenant (`Alone`), a drop if it overlapped no provisioning or drop
(`Rivals`); what a drop has undone so far stays undone or the tenant is in `revived`
(`Teardown`). A request that is alone finds at each step all its earlier ones still in
effect (`Progress`), and what its answer promises stays so until another begins
(`Promises`).

**StatsDaemon, AutoThrottle.** A throttle reaches three places by separate steps of
two kinds of process. `Exclusive` keeps applying and releasing apart: the one
happens where `states` has no entry, the other where it has one. `Recorded`, `Rates`
and `InForce` say for each point in between which of the places agree.

**WFQScheduler.** Each property is a sum over the calls under way: what they gave,
could still give (`Reserve`) or may still take (`Claims`). A step moves an amount from
one term to another, and a tenant's entry changes by as much. `Shared` keeps
what is left in a call at least the sum of the shares still to come, which a share
rounded down only makes easier.

**FairWorkers.** That the slots left in `allocate_slots` never go below zero follows
from the sum of the rounded shares being at most the budget. For the tasks,
`Balanced` sets two sums against what pays for them: the places a task is stored in
with the acks of it, against its enqueue and `doubled`; `doubled` with the deliveries
in workers' hands and the overdue records, against `expired` and the leases. Every step
of every process moves both sides alike, because a key is never pending and in
flight at once (`Apart`), a number is drawn once (`Drawn`), what a dequeue read stays
until it writes (`QueueHeld`), two acks of a task are never between read and write
together (`AckHeld`), and what is in flight is in somebody's hands (`Owned`).

**Durability.** `NoHoles` must hold of every prefix and of every checkpoint, so it is
stated by position (`Causal`). What was answered is followed through the states in
which the database is away: to the newest finished upload (`Reach`), which is the
one that is staged if any is (`Staging`).

**Sums and powers.** The induction theorems of the library cannot be applied, so
`SumsProofs` (what a sum is when one term changes, and what bounds it) and the
lemmas on `Power` reason about a smallest set or number for which the claim fails,
by `WFMin` and well-foundedness. That a recursive function satisfies its own
equation is shown the same way.

**Model-checked only.** The liveness properties `ReapedLeasesEnd`,
`BlockedProducerReturns`, `BacklogServed` and `ServerReturns`, which are out of the
prover's reach, and the three runs that find a disagreement.

## 5. Not modelled

* Floating point: moving averages, CUSUM, token refill and scores. What depends
  on them is nondeterministic (`load`, `Promote`, refills, scores); that a
  particular load is judged hot is not checked.
* Latencies, nack counts and `last_alloc_fraction`, which no decision reads.
* Records of `StatsStore` that do not deserialize, which are skipped, and
  `clear_baseline`, which nothing calls.
* Pruning of local checkpoints and the path checks of the checkpoint endpoint,
  which refuse a request and change nothing; `dev.sh`, `deploy.sh`.
* Queries and streams of the control plane, metrics, health, configuration, the
  ownership hash: they hold no state.

## 6. Plan

1. Done: the data path and its abstract specification, tenant lifecycle,
   scheduler, worker pool, throttling and statistics daemon, durability; a theorem
   for every invariant and action property the runs check, and for the refinement.
2. An atomic tenant directory that `TenantLifecycle` refines while requests do
   not overlap, with the proof of that refinement.
3. What can be said of throttles when forced releases do overlap, in place of
   the condition `OneRelease`.
4. Bounds for what the operations without a lock add: how often cumulative acks
   can count a delivery again, and how many copies of a task nacks can make.
