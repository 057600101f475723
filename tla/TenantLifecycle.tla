--------------------------- MODULE TenantLifecycle ---------------------------
(***************************************************************************)
(* How tenants come and go: provision_tenant, drop_tenant and              *)
(* update_namespace_policy of TenantRegistry, the gRPC handlers around     *)
(* them, TenantRegistry::open after a crash, and the per-queue lock objects *)
(* that drop_tenant throws away.                                           *)
(*                                                                         *)
(* A tenant lives in five places that no transaction ties together: three  *)
(* column families and a metadata record on disk, and in memory the policy *)
(* map, the lock map and the scheduler, collector and baseline registries. *)
(* Every create_cf, drop_cf, put, insert and remove is a step of its own;  *)
(* any of them may be the last one before the process dies.                *)
(***************************************************************************)
EXTENDS Naturals, FiniteSets

CONSTANTS
  Tenants,
  Threads,        \* blocking-pool threads, each with the handler awaiting it
  Versions,       \* NamespacePolicy values
  NoPolicy,       \* no entry
  Requests        \* the kinds of request the clients send

\* Bounds of the model; the code has none of them.
CONSTANTS
  MaxCreations,   \* times one column family is created
  MaxLocks,       \* lock objects ever allocated
  MaxCrashes,     \* process deaths
  MaxFaults       \* failing RocksDB calls

Families == {"pending", "inflight", "dlq"}
Parts == {"scheduler", "collector", "baselines"}
RequestKinds == {"provision", "drop", "set_policy", "use"}

ASSUME LifecycleAssumption ==
  /\ Tenants # {}
  /\ NoPolicy \notin Versions
  /\ Requests \subseteq RequestKinds
  /\ MaxCreations \in Nat
  /\ MaxLocks \in Nat
  /\ MaxCrashes \in Nat
  /\ MaxFaults \in Nat

VARIABLES
  families,       \* tenant -> column families that exist in RocksDB
  created,        \* tenant -> family -> times it was created
  meta,           \* tenant -> policy persisted in __system__
  status,         \* "up", "down", or "refused": open failed
  policies,       \* tenant -> policy in the registry's map
  registered,     \* tenant -> parts of the runtime that know it
  lockOf,         \* tenant -> its lock object in queue_locks, 0 for none
  locks,          \* lock objects allocated so far
  pc, reg,        \* where each thread is, and its local variables
  crashes, faults, \* used up so far, of MaxCrashes and MaxFaults
  promise,        \* history: what the answers so far let a client expect
  expected,       \* history: tenant -> policy last acknowledged and untouched
  good,           \* history: tenant -> created, when it was last provisioned
  revived         \* history: dropped tenants that a policy update brought back

diskVars == <<families, created, meta>>
memoryVars == <<policies, registered, lockOf, locks>>
historyVars == <<promise, expected, good, revived>>
boundVars == <<crashes, faults>>
vars == <<diskVars, status, memoryVars, pc, reg, boundVars, historyVars>>

\* What a step is followed by when it succeeds.
After ==
  [prov_inflight |-> "prov_dlq", prov_dlq |-> "prov_meta", prov_meta |-> "prov_insert",
   prov_insert |-> "reg_scheduler", reg_scheduler |-> "reg_collector",
   reg_collector |-> "reg_baselines", reg_baselines |-> "idle",
   drop_inflight |-> "drop_dlq", drop_dlq |-> "drop_meta", drop_meta |-> "drop_remove",
   drop_remove |-> "drop_locks", drop_locks |-> "dereg_scheduler",
   dereg_scheduler |-> "dereg_collector", dereg_collector |-> "dereg_baselines",
   dereg_baselines |-> "idle",
   set_meta |-> "set_insert", set_insert |-> "idle",
   use_wait |-> "use_locked", use_locked |-> "use_inside", use_inside |-> "idle"]

\* The family a create_cf or drop_cf names, the part a (de)registration is of.
Subject ==
  [prov_inflight |-> "inflight", prov_dlq |-> "dlq", drop_inflight |-> "inflight",
   drop_dlq |-> "dlq", reg_scheduler |-> "scheduler", reg_collector |-> "collector",
   reg_baselines |-> "baselines", dereg_scheduler |-> "scheduler",
   dereg_collector |-> "collector", dereg_baselines |-> "baselines"]

PCs == DOMAIN After \cup {"idle"}
Using == {"use_wait", "use_locked", "use_inside"}
Updating == {"set_meta", "set_insert"}

\* Where a drop has deleted the record, and where it has removed the policy.
PastRemove == {"drop_locks", "dereg_scheduler", "dereg_collector", "dereg_baselines"}
PastDelete == {"drop_remove"} \cup PastRemove

\* Steps that call RocksDB and may fail.
DbSteps ==
  {"prov_inflight", "prov_dlq", "prov_meta", "drop_inflight", "drop_dlq", "drop_meta",
   "set_meta"}

\* The tenant, the policy to store, the lock object held or waited for, the
\* incarnation of the family whose handle was taken, and (history) whether
\* another administrative request on the tenant overlapped this one, whether a
\* provisioning or a drop overlapped this provisioning or drop, and whether a drop
\* took the lock object out of the map meanwhile.
Registers ==
  [tenant : Tenants, pol : Versions \cup {NoPolicy}, lock : Nat, handle : Nat,
   clash : BOOLEAN, rival : BOOLEAN, orphaned : BOOLEAN]

TypeOK ==
  /\ families \in [Tenants -> SUBSET Families]
  /\ created \in [Tenants -> [Families -> 0 .. MaxCreations]]
  /\ meta \in [Tenants -> Versions \cup {NoPolicy}]
  /\ status \in {"up", "down", "refused"}
  /\ policies \in [Tenants -> Versions \cup {NoPolicy}]
  /\ registered \in [Tenants -> SUBSET Parts]
  /\ lockOf \in [Tenants -> 0 .. MaxLocks]
  /\ locks \in 0 .. MaxLocks
  /\ pc \in [Threads -> PCs]
  /\ reg \in [Threads -> Registers]
  /\ crashes \in 0 .. MaxCrashes
  /\ faults \in 0 .. MaxFaults
  /\ promise \in [Tenants -> {"absent", "provisioned", "unsure"}]
  /\ expected \in [Tenants -> Versions \cup {NoPolicy}]
  /\ good \in [Tenants -> [Families -> 0 .. MaxCreations]]
  /\ revived \subseteq Tenants

NoRegisters ==
  [tenant |-> CHOOSE t \in Tenants : TRUE, pol |-> NoPolicy,
   lock |-> 0, handle |-> 0, clash |-> FALSE, rival |-> FALSE, orphaned |-> FALSE]

\* The server running on an empty database.
Init ==
  /\ families = [t \in Tenants |-> {}]
  /\ created = [t \in Tenants |-> [f \in Families |-> 0]]
  /\ meta = [t \in Tenants |-> NoPolicy]
  /\ status = "up"
  /\ policies = [t \in Tenants |-> NoPolicy]
  /\ registered = [t \in Tenants |-> {}]
  /\ lockOf = [t \in Tenants |-> 0]
  /\ locks = 0
  /\ pc = [p \in Threads |-> "idle"]
  /\ reg = [p \in Threads |-> NoRegisters]
  /\ crashes = 0
  /\ faults = 0
  /\ promise = [t \in Tenants |-> "absent"]
  /\ expected = [t \in Tenants |-> NoPolicy]
  /\ good = [t \in Tenants |-> [f \in Families |-> 0]]
  /\ revived = {}

(***************************************************************************)
(* Steps                                                                   *)
(***************************************************************************)
\* Thread p is at step l, about the tenant its request names.
At(p, l) == status = "up" /\ pc[p] = l

Tenant(p) == reg[p].tenant

\* The administrative requests about t under way.
Administering(t) == {p \in Threads : pc[p] \notin Using \cup {"idle"} /\ Tenant(p) = t}

Advance(p) == pc' = [pc EXCEPT ![p] = After[pc[p]]] /\ UNCHANGED reg

Return(p) == pc' = [pc EXCEPT ![p] = "idle"] /\ reg' = [reg EXCEPT ![p] = NoRegisters]

\* p's request takes its first effect on t; requests that overlap it are
\* marked, as no one can tell which of them took effect last.
Begin(p, t, v, l) ==
  LET others == Administering(t)
      rivals == {x \in others : l \notin Updating /\ pc[x] \notin Updating}
  IN  /\ pc' = [pc EXCEPT ![p] = l]
      /\ reg' = [x \in Threads |->
                   IF x = p THEN [tenant |-> t, pol |-> v, lock |-> 0, handle |-> 0,
                                  clash |-> others # {}, rival |-> rivals # {},
                                  orphaned |-> FALSE]
                   ELSE [reg[x] EXCEPT !.clash = reg[x].clash \/ x \in others,
                                       !.rival = reg[x].rival \/ x \in rivals]]

\* Faulty variant: the record is left as it is.
PutMetaSkipped(t, v) == meta' = meta

\* put_cf_opt of t's record in __system__, synced.
PutMeta(t, v) == meta' = [meta EXCEPT ![t] = v]

\* Faulty variant: the record outlives the tenant.
DeleteMetaSkipped(t) == meta' = meta

\* delete_cf_opt of t's record, synced.
DeleteMeta(t) == meta' = [meta EXCEPT ![t] = NoPolicy]

\* db.create_cf(f): the new family is empty.
Create(t, f) ==
  /\ f \notin families[t]
  /\ created[t][f] < MaxCreations
  /\ families' = [families EXCEPT ![t] = families[t] \cup {f}]
  /\ created' = [created EXCEPT ![t] = [created[t] EXCEPT ![f] = created[t][f] + 1]]

DropCf(t, f) ==
  /\ f \in families[t]
  /\ families' = [families EXCEPT ![t] = families[t] \ {f}]

(***************************************************************************)
(* provision_tenant                                                        *)
(***************************************************************************)
\* The first create_cf; it fails, and nothing changes, if the family exists.
ProvisionBegin(p, t, v) ==
  /\ "provision" \in Requests
  /\ At(p, "idle")
  /\ Create(t, "pending")
  /\ Begin(p, t, v, "prov_inflight")
  /\ promise' = [promise EXCEPT ![t] = "unsure"]
  /\ expected' = [expected EXCEPT ![t] = NoPolicy]
  /\ revived' = revived \ {t}
  /\ UNCHANGED <<meta, status, memoryVars, boundVars, good>>

ProvisionCreate(p) ==
  /\ At(p, "prov_inflight") \/ At(p, "prov_dlq")
  /\ Create(Tenant(p), Subject[pc[p]])
  /\ Advance(p)
  /\ UNCHANGED <<meta, status, memoryVars, boundVars, historyVars>>

\* create_cf fails because the family is there; the families created before
\* it stay.
ProvisionStuck(p) ==
  /\ At(p, "prov_inflight") \/ At(p, "prov_dlq")
  /\ Subject[pc[p]] \in families[Tenant(p)]
  /\ Return(p)
  /\ UNCHANGED <<diskVars, status, memoryVars, boundVars, historyVars>>

ProvisionMeta(p) ==
  /\ At(p, "prov_meta")
  /\ PutMeta(Tenant(p), reg[p].pol)
  /\ Advance(p)
  /\ UNCHANGED <<families, created, status, memoryVars, boundVars, historyVars>>

ProvisionInsert(p) ==
  /\ At(p, "prov_insert")
  /\ policies' = [policies EXCEPT ![Tenant(p)] = reg[p].pol]
  /\ Advance(p)
  /\ UNCHANGED <<diskVars, status, registered, lockOf, locks, boundVars, historyVars>>

\* The handler, back from the blocking pool, registers the tenant.
Register(p) ==
  /\ At(p, "reg_scheduler") \/ At(p, "reg_collector")
  /\ registered' = [registered EXCEPT ![Tenant(p)] = registered[Tenant(p)] \cup {Subject[pc[p]]}]
  /\ Advance(p)
  /\ UNCHANGED <<diskVars, status, policies, lockOf, locks, boundVars, historyVars>>

\* The last registration, and the answer "provisioned".
ProvisionDone(p) ==
  LET t == Tenant(p)
  IN  /\ At(p, "reg_baselines")
      /\ registered' = [registered EXCEPT ![t] = registered[t] \cup {"baselines"}]
      /\ IF reg[p].clash
           THEN UNCHANGED historyVars
           ELSE /\ promise' = [promise EXCEPT ![t] = "provisioned"]
                /\ expected' = [expected EXCEPT ![t] = reg[p].pol]
                /\ good' = [good EXCEPT ![t] = created[t]]
                /\ UNCHANGED revived
      /\ Return(p)
      /\ UNCHANGED <<diskVars, status, policies, lockOf, locks, boundVars>>

Provision(p) ==
  \/ \E t \in Tenants, v \in Versions : ProvisionBegin(p, t, v)
  \/ ProvisionCreate(p)
  \/ ProvisionStuck(p)
  \/ ProvisionMeta(p)
  \/ ProvisionInsert(p)
  \/ Register(p)
  \/ ProvisionDone(p)

(***************************************************************************)
(* drop_tenant                                                             *)
(***************************************************************************)
\* The first drop_cf; it fails, and nothing changes, if there is no family.
DropBegin(p, t) ==
  /\ "drop" \in Requests
  /\ At(p, "idle")
  /\ DropCf(t, "pending")
  /\ Begin(p, t, NoPolicy, "drop_inflight")
  /\ promise' = [promise EXCEPT ![t] = "unsure"]
  /\ expected' = [expected EXCEPT ![t] = NoPolicy]
  /\ revived' = revived \ {t}
  /\ UNCHANGED <<created, meta, status, memoryVars, boundVars, good>>

DropNext(p) ==
  /\ At(p, "drop_inflight") \/ At(p, "drop_dlq")
  /\ DropCf(Tenant(p), Subject[pc[p]])
  /\ Advance(p)
  /\ UNCHANGED <<created, meta, status, memoryVars, boundVars, historyVars>>

\* drop_cf fails because the family is not there; what was dropped is gone.
DropStuck(p) ==
  /\ At(p, "drop_inflight") \/ At(p, "drop_dlq")
  /\ Subject[pc[p]] \notin families[Tenant(p)]
  /\ Return(p)
  /\ UNCHANGED <<diskVars, status, memoryVars, boundVars, historyVars>>

DropMeta(p) ==
  /\ At(p, "drop_meta")
  /\ DeleteMeta(Tenant(p))
  /\ Advance(p)
  /\ UNCHANGED <<families, created, status, memoryVars, boundVars, historyVars>>

DropRemove(p) ==
  /\ At(p, "drop_remove")
  /\ policies' = [policies EXCEPT ![Tenant(p)] = NoPolicy]
  /\ Advance(p)
  /\ UNCHANGED <<diskVars, status, registered, lockOf, locks, boundVars, historyVars>>

\* queue_locks.retain: a thread that holds the lock object keeps it.
DropLocks(p) ==
  /\ At(p, "drop_locks")
  /\ lockOf' = [lockOf EXCEPT ![Tenant(p)] = 0]
  /\ pc' = [pc EXCEPT ![p] = After[pc[p]]]
  /\ reg' = [x \in Threads |->
               [reg[x] EXCEPT !.orphaned = @ \/ (pc[x] \in Using /\ Tenant(x) = Tenant(p))]]
  /\ UNCHANGED <<diskVars, status, policies, registered, locks, boundVars, historyVars>>

Deregister(p) ==
  /\ At(p, "dereg_scheduler") \/ At(p, "dereg_collector")
  /\ registered' = [registered EXCEPT ![Tenant(p)] = registered[Tenant(p)] \ {Subject[pc[p]]}]
  /\ Advance(p)
  /\ UNCHANGED <<diskVars, status, policies, lockOf, locks, boundVars, historyVars>>

\* The last deregistration, and the answer "dropped".
DropDone(p) ==
  LET t == Tenant(p)
  IN  /\ At(p, "dereg_baselines")
      /\ registered' = [registered EXCEPT ![t] = registered[t] \ {"baselines"}]
      /\ promise' = [promise EXCEPT ![t] = IF reg[p].rival THEN promise[t] ELSE "absent"]
      /\ Return(p)
      /\ UNCHANGED <<diskVars, status, policies, lockOf, locks, boundVars, expected, good,
                     revived>>

Drop(p) ==
  \/ \E t \in Tenants : DropBegin(p, t)
  \/ DropNext(p)
  \/ DropStuck(p)
  \/ DropMeta(p)
  \/ DropRemove(p)
  \/ DropLocks(p)
  \/ Deregister(p)
  \/ DropDone(p)

(***************************************************************************)
(* update_namespace_policy                                                 *)
(***************************************************************************)
\* policies.contains_key; QueueNotFound, and nothing changes, if it is not.
SetPolicyBegin(p, t, v) ==
  /\ "set_policy" \in Requests
  /\ At(p, "idle")
  /\ policies[t] # NoPolicy
  /\ Begin(p, t, v, "set_meta")
  /\ expected' = [expected EXCEPT ![t] = NoPolicy]
  /\ UNCHANGED <<diskVars, status, memoryVars, boundVars, promise, good, revived>>

\* History: t was dropped, or a drop of t is past the places in `past`.
DroppedBehind(t, past) ==
  promise[t] = "absent" \/ \E x \in Threads : pc[x] \in past /\ Tenant(x) = t

\* The record is written whatever became of the tenant since the check.
SetPolicyMeta(p) ==
  LET t == Tenant(p)
  IN  /\ At(p, "set_meta")
      /\ PutMeta(t, reg[p].pol)
      /\ revived' = IF DroppedBehind(t, PastDelete) THEN revived \cup {t} ELSE revived
      /\ Advance(p)
      /\ UNCHANGED <<families, created, status, memoryVars, boundVars, promise, expected, good>>

SetPolicyInsert(p) ==
  LET t == Tenant(p)
  IN  /\ At(p, "set_insert")
      /\ policies' = [policies EXCEPT ![t] = reg[p].pol]
      /\ expected' = [expected EXCEPT ![t] = IF reg[p].clash THEN expected[t] ELSE reg[p].pol]
      /\ revived' = IF DroppedBehind(t, PastRemove) THEN revived \cup {t} ELSE revived
      /\ Return(p)
      /\ UNCHANGED <<diskVars, status, registered, lockOf, locks, boundVars, promise, good>>

SetPolicy(p) ==
  \/ \E t \in Tenants, v \in Versions : SetPolicyBegin(p, t, v)
  \/ SetPolicyMeta(p)
  \/ SetPolicyInsert(p)

(***************************************************************************)
(* The lock discipline of enqueue_batch_sync and dequeue_batch             *)
(***************************************************************************)
\* Faulty variant: every caller gets a lock object of its own.
FreshLock(t) == locks + 1

\* entry().or_insert_with(): the tenant's lock object, or a new one.
LockFor(t) == IF lockOf[t] = 0 THEN locks + 1 ELSE lockOf[t]

\* queue_lock: the map's lock object, allocated on first use.
UseBegin(p, t) ==
  /\ "use" \in Requests
  /\ At(p, "idle")
  /\ lockOf[t] # 0 \/ locks < MaxLocks
  /\ locks' = IF LockFor(t) > locks THEN LockFor(t) ELSE locks
  /\ lockOf' = [lockOf EXCEPT ![t] = LockFor(t)]
  /\ pc' = [pc EXCEPT ![p] = "use_wait"]
  /\ reg' = [reg EXCEPT ![p] = [reg[p] EXCEPT !.tenant = t, !.lock = LockFor(t)]]
  /\ UNCHANGED <<diskVars, status, policies, registered, boundVars, historyVars>>

UseLock(p) ==
  /\ At(p, "use_wait")
  /\ \A x \in Threads : pc[x] \in {"use_locked", "use_inside"} => reg[x].lock # reg[p].lock
  /\ Advance(p)
  /\ UNCHANGED <<diskVars, status, memoryVars, boundVars, historyVars>>

\* pending_cf: the handle of the family as it is now, or ColumnFamilyMissing.
UseHandle(p) ==
  /\ At(p, "use_locked")
  /\ IF "pending" \in families[Tenant(p)]
       THEN /\ pc' = [pc EXCEPT ![p] = "use_inside"]
            /\ reg' = [reg EXCEPT ![p] =
                         [reg[p] EXCEPT !.handle = created[Tenant(p)]["pending"]]]
       ELSE Return(p)
  /\ UNCHANGED <<diskVars, status, memoryVars, boundVars, historyVars>>

\* The scan and the write, and the guard is dropped.
UseDone(p) ==
  /\ At(p, "use_inside")
  /\ Return(p)
  /\ UNCHANGED <<diskVars, status, memoryVars, boundVars, historyVars>>

Use(p) ==
  \/ \E t \in Tenants : UseBegin(p, t)
  \/ UseLock(p)
  \/ UseHandle(p)
  \/ UseDone(p)

(***************************************************************************)
(* Failures                                                                *)
(***************************************************************************)
\* `?` on a failing RocksDB call: what was done before it is not undone.
IoError(p) ==
  /\ status = "up"
  /\ pc[p] \in DbSteps
  /\ faults < MaxFaults
  /\ faults' = faults + 1
  /\ Return(p)
  /\ UNCHANGED <<diskVars, status, memoryVars, crashes, historyVars>>

\* The client goes away and tonic drops the handler at its await: the blocking
\* call runs to its end, what the handler does after it does not happen.
Cancelled(p) ==
  /\ At(p, "reg_scheduler") \/ At(p, "dereg_scheduler")
  /\ Return(p)
  /\ UNCHANGED <<diskVars, status, memoryVars, boundVars, historyVars>>

Crash ==
  /\ status = "up"
  /\ crashes < MaxCrashes
  /\ crashes' = crashes + 1
  /\ status' = "down"
  /\ policies' = [t \in Tenants |-> NoPolicy]
  /\ registered' = [t \in Tenants |-> {}]
  /\ lockOf' = [t \in Tenants |-> 0]
  /\ pc' = [p \in Threads |-> "idle"]
  /\ reg' = [p \in Threads |-> NoRegisters]
  /\ UNCHANGED <<diskVars, locks, faults, historyVars>>

\* load_persisted_tenants and the descriptors built from it.
Listed(t) == meta[t] # NoPolicy

\* RocksDB opens a database only if every family it holds is described.
Openable == \A t \in Tenants : families[t] # {} => Listed(t)

\* create_missing_column_families adds what the metadata lists and the
\* database lacks; main registers every listed tenant before it serves.
Open ==
  /\ status = "down"
  /\ Openable
  /\ \A t \in Tenants, f \in Families :
       Listed(t) /\ f \notin families[t] => created[t][f] < MaxCreations
  /\ status' = "up"
  /\ families' = [t \in Tenants |-> IF Listed(t) THEN Families ELSE {}]
  /\ created' = [t \in Tenants |-> [f \in Families |->
                   IF Listed(t) /\ f \notin families[t] THEN created[t][f] + 1
                   ELSE created[t][f]]]
  /\ policies' = meta
  /\ registered' = [t \in Tenants |-> IF Listed(t) THEN Parts ELSE {}]
  /\ UNCHANGED <<meta, lockOf, locks, pc, reg, boundVars, historyVars>>

OpenRefused ==
  /\ status = "down"
  /\ ~Openable
  /\ status' = "refused"
  /\ UNCHANGED <<diskVars, memoryVars, pc, reg, boundVars, historyVars>>

Failure ==
  \/ \E p \in Threads : IoError(p) \/ Cancelled(p)
  \/ Crash
  \/ Open
  \/ OpenRefused

Next ==
  \/ \E p \in Threads : Provision(p) \/ Drop(p) \/ SetPolicy(p) \/ Use(p)
  \/ Failure

Spec == Init /\ [][Next]_vars

(***************************************************************************)
(* Properties                                                              *)
(***************************************************************************)
\* A tenant whose provisioning was acknowledged, and that nobody has begun to
\* drop since, is served whenever the server is up: its three families are
\* the ones provisioning created, every part of the runtime knows it, and the
\* policy last acknowledged is the one in memory and on disk.  Crashes, I/O
\* errors, cancelled requests and refused duplicates do not change that.
ProvisionedIsServed ==
  \A t \in Tenants : status = "up" /\ promise[t] = "provisioned" =>
    /\ families[t] = Families /\ created[t] = good[t]
    /\ policies[t] # NoPolicy /\ meta[t] # NoPolicy
    /\ registered[t] = Parts
    /\ expected[t] # NoPolicy => policies[t] = expected[t] /\ meta[t] = expected[t]

\* A tenant whose drop was acknowledged, with no provisioning or other drop of it
\* under way meanwhile or begun since, is gone from disk and memory and stays gone
\* over a restart.  There is one exception, which no lock rules out: a policy
\* update that found the tenant before the drop removed its policy and wrote after
\* the drop deleted the record (or removed the policy) brings it back.  Then the
\* record or the policy is there again, with no family and nothing registered,
\* until a restart that finds the record makes a whole, empty tenant of it: never
\* one with some of its families.
DroppedIsGone ==
  \A t \in Tenants : promise[t] = "absent" =>
    \/ /\ families[t] = {} /\ meta[t] = NoPolicy
       /\ policies[t] = NoPolicy /\ registered[t] = {}
    \/ /\ t \in revived
       /\ status = "up" =>
            \/ families[t] = {} /\ registered[t] = {}
            \/ /\ families[t] = Families /\ registered[t] = Parts
               /\ meta[t] # NoPolicy /\ policies[t] # NoPolicy

\* A restart always finds a database it can open.
AlwaysReopens == status # "refused"

\* The queue lock serializes what is done to one column family: no two threads
\* work on the same incarnation of a tenant's backlog at once, unless one of them
\* waited with a lock object that a drop took out of the map, and the tenant was
\* provisioned again before it went on.
QueueSerialized ==
  \A p, x \in Threads :
    p # x /\ pc[p] = "use_inside" /\ pc[x] = "use_inside" =>
      \/ Tenant(p) # Tenant(x)
      \/ reg[p].handle # reg[x].handle
      \/ reg[p].orphaned \/ reg[x].orphaned
=============================================================================
