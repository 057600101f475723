------------------------ MODULE TenantLifecycleProofs ------------------------
(***************************************************************************)
(* TenantLifecycle, for any number of tenants, threads, crashes and faults: *)
(* what was acknowledged as provisioned is served, what was acknowledged as *)
(* dropped is gone, and the queue lock serializes the use of a backlog.     *)
(*                                                                         *)
(* The answer to a provisioning is a promise only if no other administrative *)
(* request on the tenant overlapped it (Alone).  While it is alone, each of  *)
(* its steps finds all earlier ones still in effect (Progress), and that is  *)
(* what its answer promises.  The answer to a drop is one if no provisioning *)
(* and no other drop overlapped it (Rivals): what it deleted is still gone,  *)
(* unless a policy update wrote it again (Teardown).                         *)
(***************************************************************************)
EXTENDS TenantLifecycle, TLAPS

USE LifecycleAssumption

(***************************************************************************)
(* The inductive invariant                                                 *)
(***************************************************************************)
RegisterPCs == {"reg_scheduler", "reg_collector", "reg_baselines"}
ProvisionPCs == {"prov_inflight", "prov_dlq", "prov_meta", "prov_insert"} \cup RegisterPCs
DeregisterPCs == {"dereg_scheduler", "dereg_collector", "dereg_baselines"}
DropPCs ==
  {"drop_inflight", "drop_dlq", "drop_meta", "drop_remove", "drop_locks"} \cup DeregisterPCs
SetPCs == {"set_meta", "set_insert"}
AdminPCs == ProvisionPCs \cup DropPCs \cup SetPCs
HoldPCs == {"use_locked", "use_inside"}

\* Threads work while the server is up, on policies they were given; and who is
\* idle holds nothing.
Shape ==
  \A p \in Threads :
    /\ pc[p] # "idle" => status = "up"
    /\ pc[p] = "idle" => ~reg[p].orphaned
    /\ pc[p] \in ProvisionPCs \cup SetPCs => reg[p].pol \in Versions

\* Of two administrative requests under way on a tenant, both know of the other.
Alone ==
  \A p \in Threads, x \in Threads :
    pc[p] \in AdminPCs /\ pc[x] \in AdminPCs /\ Tenant(p) = Tenant(x) /\ p # x => reg[p].clash

\* So do two that provision or drop it.
WholePCs == ProvisionPCs \cup DropPCs
Rivals ==
  \A p \in Threads, x \in Threads :
    pc[p] \in WholePCs /\ pc[x] \in WholePCs /\ Tenant(p) = Tenant(x) /\ p # x => reg[p].rival

\* What p has done to tenant t is still so.
Built(p, t) ==
  /\ pc[p] \in ProvisionPCs => "pending" \in families[t]
  /\ pc[p] \in ProvisionPCs \ {"prov_inflight"} => "inflight" \in families[t]
  /\ pc[p] \in ProvisionPCs \ {"prov_inflight", "prov_dlq"} => "dlq" \in families[t]
  /\ pc[p] \in {"prov_insert"} \cup RegisterPCs => meta[t] = reg[p].pol
  /\ pc[p] \in RegisterPCs => policies[t] = reg[p].pol
  /\ pc[p] \in {"reg_collector", "reg_baselines"} => "scheduler" \in registered[t]
  /\ pc[p] = "reg_baselines" => "collector" \in registered[t]

Torn(p, t) ==
  /\ pc[p] \in DropPCs => "pending" \notin families[t]
  /\ pc[p] \in DropPCs \ {"drop_inflight"} => "inflight" \notin families[t]
  /\ pc[p] \in DropPCs \ {"drop_inflight", "drop_dlq"} => "dlq" \notin families[t]
  /\ pc[p] \in PastDelete => meta[t] = NoPolicy \/ t \in revived
  /\ pc[p] \in PastRemove => policies[t] = NoPolicy \/ t \in revived
  /\ pc[p] \in {"dereg_collector", "dereg_baselines"} => "scheduler" \notin registered[t]
  /\ pc[p] = "dereg_baselines" => "collector" \notin registered[t]

Progressed(p) ==
  ~reg[p].clash =>
    /\ Built(p, Tenant(p))
    /\ pc[p] = "set_insert" => meta[Tenant(p)] = reg[p].pol

Progress == \A p \in Threads : Progressed(p)

TornDown(p) == ~reg[p].rival => Torn(p, Tenant(p))

Teardown == \A p \in Threads : TornDown(p)

\* What is left of a tenant that was dropped: nothing, or what an update wrote,
\* and a restart made of it.
Absent(t) ==
  /\ t \notin revived =>
       families[t] = {} /\ meta[t] = NoPolicy /\ policies[t] = NoPolicy /\ registered[t] = {}
  /\ families[t] # {} => families[t] = Families /\ meta[t] # NoPolicy
  /\ status = "up" =>
       /\ families[t] = {} => registered[t] = {}
       /\ families[t] # {} => registered[t] = Parts /\ policies[t] # NoPolicy

\* What the answers so far promise, and what keeps the promises: nobody is in the
\* middle of provisioning or dropping the tenant, or of setting the policy that was
\* acknowledged last.
Kept(t) ==
  /\ promise[t] # "unsure" =>
       \A p \in Threads : pc[p] \in AdminPCs /\ Tenant(p) = t => pc[p] \in SetPCs
  /\ promise[t] = "provisioned" =>
       /\ families[t] = Families /\ created[t] = good[t] /\ meta[t] # NoPolicy
       /\ status = "up" => policies[t] # NoPolicy /\ registered[t] = Parts
  /\ promise[t] = "absent" => Absent(t)
  /\ expected[t] # NoPolicy =>
       /\ \A p \in Threads : ~(pc[p] \in AdminPCs /\ Tenant(p) = t)
       /\ meta[t] = expected[t]
       /\ status = "up" => policies[t] = expected[t]

Promises == \A t \in Tenants : Kept(t)

LifecycleInv == TypeOK /\ Shape /\ Alone /\ Rivals /\ Progress /\ Teardown /\ Promises

\* Whoever uses a backlog has the lock object in the map, unless it was taken out;
\* no two threads hold the same one.
QueueLocks ==
  /\ \A p \in Threads : pc[p] \in Using /\ ~reg[p].orphaned =>
       reg[p].lock = lockOf[Tenant(p)] /\ reg[p].lock # 0
  /\ \A p \in Threads, x \in Threads :
       p # x /\ pc[p] \in HoldPCs /\ pc[x] \in HoldPCs => reg[p].lock # reg[x].lock

(***************************************************************************)
(* Places                                                                  *)
(***************************************************************************)
LEMMA AfterFacts ==
  /\ After["prov_inflight"] = "prov_dlq" /\ After["prov_dlq"] = "prov_meta"
  /\ After["prov_meta"] = "prov_insert" /\ After["prov_insert"] = "reg_scheduler"
  /\ After["reg_scheduler"] = "reg_collector" /\ After["reg_collector"] = "reg_baselines"
  /\ After["drop_inflight"] = "drop_dlq" /\ After["drop_dlq"] = "drop_meta"
  /\ After["drop_meta"] = "drop_remove" /\ After["drop_remove"] = "drop_locks"
  /\ After["drop_locks"] = "dereg_scheduler" /\ After["dereg_scheduler"] = "dereg_collector"
  /\ After["dereg_collector"] = "dereg_baselines"
  /\ After["set_meta"] = "set_insert"
  /\ After["use_wait"] = "use_locked" /\ After["use_locked"] = "use_inside"
BY DEF After

LEMMA SubjectFacts ==
  /\ Subject["prov_inflight"] = "inflight" /\ Subject["prov_dlq"] = "dlq"
  /\ Subject["drop_inflight"] = "inflight" /\ Subject["drop_dlq"] = "dlq"
  /\ Subject["reg_scheduler"] = "scheduler" /\ Subject["reg_collector"] = "collector"
  /\ Subject["dereg_scheduler"] = "scheduler" /\ Subject["dereg_collector"] = "collector"
BY DEF Subject

LEMMA Places ==
  /\ PCs = AdminPCs \cup Using \cup {"idle"}
  /\ \A l \in PCs : l \in AdminPCs <=> l \notin Using \cup {"idle"}
<1>1. DOMAIN After = AdminPCs \cup Using
  BY DEF After, AdminPCs, ProvisionPCs, RegisterPCs, DropPCs, DeregisterPCs, SetPCs, Using
<1>2. \A l \in AdminPCs : l \notin Using \cup {"idle"}
  BY DEF AdminPCs, ProvisionPCs, RegisterPCs, DropPCs, DeregisterPCs, SetPCs, Using
<1> QED
  BY <1>1, <1>2 DEF PCs

LEMMA NoRegistersType ==
  /\ NoRegisters \in Registers /\ NoRegisters.tenant \in Tenants
  /\ ~NoRegisters.orphaned /\ ~NoRegisters.clash /\ ~NoRegisters.rival
BY DEF NoRegisters, Registers

LEMMA TenantType == ASSUME TypeOK, NEW p \in Threads PROVE Tenant(p) \in Tenants
BY DEF TypeOK, Tenant, Registers

\* What the first step of an administrative request does to the registers.
Begun(p, t, v, l) ==
  /\ pc'[p] = l /\ reg'[p].tenant = t /\ reg'[p].pol = v /\ ~reg'[p].orphaned
  /\ \A x \in Threads \ {p} :
       /\ pc'[x] = pc[x] /\ reg'[x].tenant = reg[x].tenant /\ reg'[x].pol = reg[x].pol
       /\ reg'[x].orphaned = reg[x].orphaned /\ reg'[x].lock = reg[x].lock
       /\ reg[x].clash => reg'[x].clash
       /\ pc[x] \in AdminPCs /\ reg[x].tenant = t => reg'[x].clash /\ reg'[p].clash
       /\ reg[x].rival => reg'[x].rival
       /\ l \in WholePCs /\ pc[x] \in WholePCs /\ reg[x].tenant = t =>
            reg'[x].rival /\ reg'[p].rival

LEMMA BeginFacts ==
  ASSUME TypeOK, NEW p \in Threads, NEW t \in Tenants, NEW v \in Versions \cup {NoPolicy},
         NEW l \in AdminPCs, Begin(p, t, v, l), pc[p] = "idle"
  PROVE  /\ reg' \in [Threads -> Registers] /\ pc' \in [Threads -> PCs]
         /\ Begun(p, t, v, l)
<1>1. Administering(t) = {x \in Threads : pc[x] \in AdminPCs /\ reg[x].tenant = t}
  BY Places DEF Administering, Tenant, TypeOK
<1> DEFINE others == Administering(t)
           rivals == {x \in others : l \notin Updating /\ pc[x] \notin Updating}
<1>a. ASSUME NEW x \in Threads, l \in WholePCs, pc[x] \in WholePCs, reg[x].tenant = t
      PROVE  x \in rivals
  BY <1>1, <1>a DEF Updating, WholePCs, AdminPCs, ProvisionPCs, RegisterPCs, DropPCs, DeregisterPCs
<1>b. others \subseteq Threads /\ rivals \subseteq Threads
  BY DEF Administering
<1>c. others = {x \in Threads : pc[x] \in AdminPCs /\ reg[x].tenant = t}
  BY <1>1
<1> DEFINE first == [tenant |-> t, pol |-> v, lock |-> 0, handle |-> 0,
                     clash |-> others # {}, rival |-> rivals # {}, orphaned |-> FALSE]
           marked(x) == [reg[x] EXCEPT !.clash = reg[x].clash \/ x \in others,
                                       !.rival = reg[x].rival \/ x \in rivals]
<1>2. /\ pc' = [pc EXCEPT ![p] = l]
      /\ reg' = [x \in Threads |-> IF x = p THEN first ELSE marked(x)]
  BY DEF Begin
<1> HIDE DEF others, rivals
<1>3. /\ first \in Registers /\ first.tenant = t /\ first.pol = v /\ ~first.orphaned
      /\ first.clash <=> others # {}
      /\ first.rival <=> rivals # {}
  BY DEF Registers
<1>4. ASSUME NEW x \in Threads
      PROVE  /\ marked(x) \in Registers /\ marked(x).tenant = reg[x].tenant
             /\ marked(x).pol = reg[x].pol /\ marked(x).orphaned = reg[x].orphaned
             /\ marked(x).lock = reg[x].lock
             /\ marked(x).clash <=> reg[x].clash \/ x \in others
             /\ marked(x).rival <=> reg[x].rival \/ x \in rivals
  <2>1. reg[x] \in Registers
    BY DEF TypeOK
  <2> DEFINE c == reg[x].clash \/ x \in others
             d == reg[x].rival \/ x \in rivals
  <2>2. c \in BOOLEAN /\ d \in BOOLEAN
    BY <2>1 DEF Registers
  <2> HIDE DEF c, d
  <2>3. LET m == [reg[x] EXCEPT !.clash = c, !.rival = d]
        IN  /\ m \in Registers /\ m.tenant = reg[x].tenant /\ m.pol = reg[x].pol
            /\ m.orphaned = reg[x].orphaned /\ m.lock = reg[x].lock
            /\ m.clash = c /\ m.rival = d
    BY <2>1, <2>2 DEF Registers
  <2> QED
    BY <2>3 DEF c, d
<1> HIDE DEF first, marked
<1>5. pc' \in [Threads -> PCs]
  BY <1>2, Places DEF TypeOK
<1>6. ASSUME NEW x \in Threads \ {p}, l \in WholePCs, pc[x] \in WholePCs, reg[x].tenant = t
      PROVE  reg'[x].rival /\ reg'[p].rival
  BY <1>a, <1>2, <1>3, <1>4, <1>6
<1>7. ASSUME NEW x \in Threads \ {p}, pc[x] \in AdminPCs, reg[x].tenant = t
      PROVE  reg'[x].clash /\ reg'[p].clash
  BY <1>c, <1>2, <1>3, <1>4, <1>7
<1>8. reg' \in [Threads -> Registers]
  BY <1>2, <1>3, <1>4
<1>9. ASSUME NEW x \in Threads \ {p}
      PROVE  /\ pc'[x] = pc[x] /\ reg'[x].tenant = reg[x].tenant /\ reg'[x].pol = reg[x].pol
             /\ reg'[x].orphaned = reg[x].orphaned /\ reg'[x].lock = reg[x].lock
             /\ reg[x].clash => reg'[x].clash
             /\ reg[x].rival => reg'[x].rival
  BY <1>2, <1>4 DEF TypeOK
<1> QED
  BY <1>2, <1>3, <1>5, <1>6, <1>7, <1>8, <1>9 DEF Begun, TypeOK

\* What a step does to the places and registers.
LEMMA AdvanceFacts ==
  ASSUME TypeOK, NEW p \in Threads, Advance(p), pc[p] # "idle", pc[p] \notin {"reg_baselines",
         "dereg_baselines", "set_insert", "use_inside"}
  PROVE  /\ pc' \in [Threads -> PCs] /\ reg' = reg
         /\ pc'[p] = After[pc[p]]
         /\ \A x \in Threads \ {p} : pc'[x] = pc[x]
         /\ pc[p] \in AdminPCs <=> pc'[p] \in AdminPCs
<1>1. /\ pc[p] \in AdminPCs \cup Using
      /\ pc[p] \notin {"reg_baselines", "dereg_baselines", "set_insert", "use_inside"}
  BY Places DEF TypeOK
<1>2. /\ After[pc[p]] \in AdminPCs \cup Using
      /\ pc[p] \in AdminPCs <=> After[pc[p]] \in AdminPCs
  BY <1>1, AfterFacts
     DEF AdminPCs, ProvisionPCs, RegisterPCs, DropPCs, DeregisterPCs, SetPCs, Using
<1> QED
  BY <1>2, Places DEF Advance, TypeOK

LEMMA ReturnFacts ==
  ASSUME TypeOK, NEW p \in Threads, Return(p)
  PROVE  /\ pc' \in [Threads -> PCs] /\ reg' \in [Threads -> Registers]
         /\ pc'[p] = "idle" /\ ~reg'[p].orphaned /\ ~reg'[p].clash /\ ~reg'[p].rival
         /\ \A x \in Threads \ {p} : pc'[x] = pc[x] /\ reg'[x] = reg[x]
BY NoRegistersType, Places DEF Return, TypeOK

LEMMA CreateFacts ==
  ASSUME TypeOK, NEW t \in Tenants, NEW f \in Families, Create(t, f)
  PROVE  /\ families' \in [Tenants -> SUBSET Families]
         /\ created' \in [Tenants -> [Families -> 0 .. MaxCreations]]
         /\ f \notin families[t] /\ families'[t] = families[t] \cup {f}
         /\ \A u \in Tenants \ {t} : families'[u] = families[u] /\ created'[u] = created[u]
<1>1. created[t][f] + 1 \in 0 .. MaxCreations
  BY DEF Create, TypeOK
<1>2. [created[t] EXCEPT ![f] = created[t][f] + 1] \in [Families -> 0 .. MaxCreations]
  BY <1>1 DEF TypeOK
<1> QED
  BY <1>2 DEF Create, TypeOK

LEMMA DropCfFacts ==
  ASSUME TypeOK, NEW t \in Tenants, NEW f \in Families, DropCf(t, f)
  PROVE  /\ families' \in [Tenants -> SUBSET Families]
         /\ f \in families[t] /\ families'[t] = families[t] \ {f}
         /\ \A u \in Tenants \ {t} : families'[u] = families[u]
BY DEF DropCf, TypeOK

LEMMA DropLocksFacts ==
  ASSUME TypeOK, NEW p \in Threads, DropLocks(p)
  PROVE  /\ pc' \in [Threads -> PCs] /\ reg' \in [Threads -> Registers]
         /\ pc[p] = "drop_locks" /\ pc'[p] = "dereg_scheduler"
         /\ status = "up"
         /\ UNCHANGED <<diskVars, status, policies, registered, locks, boundVars, historyVars>>
         /\ lockOf' \in [Tenants -> 0 .. MaxLocks]
         /\ lockOf'[Tenant(p)] = 0 /\ \A u \in Tenants \ {Tenant(p)} : lockOf'[u] = lockOf[u]
         /\ \A x \in Threads \ {p} : pc'[x] = pc[x]
         /\ \A x \in Threads :
              /\ reg'[x].tenant = reg[x].tenant /\ reg'[x].pol = reg[x].pol
              /\ reg'[x].lock = reg[x].lock /\ reg'[x].clash = reg[x].clash
              /\ reg'[x].rival = reg[x].rival
              /\ reg'[x].orphaned <=> reg[x].orphaned \/ (pc[x] \in Using /\ Tenant(x) = Tenant(p))
<1> DEFINE out(x) == reg[x].orphaned \/ (pc[x] \in Using /\ Tenant(x) = Tenant(p))
           marked(x) == [reg[x] EXCEPT !.orphaned = out(x)]
<1>1. reg' = [x \in Threads |-> marked(x)]
  BY DEF DropLocks
<1>2. ASSUME NEW x \in Threads
      PROVE  /\ marked(x) \in Registers /\ marked(x).tenant = reg[x].tenant
             /\ marked(x).pol = reg[x].pol /\ marked(x).lock = reg[x].lock
             /\ marked(x).clash = reg[x].clash /\ marked(x).rival = reg[x].rival
             /\ marked(x).orphaned <=> out(x)
  <2>1. reg[x] \in Registers /\ out(x) \in BOOLEAN
    BY DEF TypeOK, Registers
  <2> HIDE DEF out
  <2> QED
    BY <2>1 DEF Registers
<1> HIDE DEF marked
<1>3. /\ pc[p] = "drop_locks" /\ pc' = [pc EXCEPT ![p] = "dereg_scheduler"]
      /\ "dereg_scheduler" \in PCs
  BY AfterFacts, Places DEF DropLocks, At, AdminPCs, DropPCs, DeregisterPCs
<1>4. lockOf' = [lockOf EXCEPT ![Tenant(p)] = 0] /\ Tenant(p) \in Tenants
  BY TenantType DEF DropLocks
<1>5. /\ status = "up"
      /\ UNCHANGED <<diskVars, status, policies, registered, locks, boundVars, historyVars>>
  BY DEF DropLocks, At
<1> QED
  BY <1>1, <1>2, <1>3, <1>4, <1>5 DEF TypeOK

LEMMA UseBeginFacts ==
  ASSUME TypeOK, NEW p \in Threads, NEW t \in Tenants, UseBegin(p, t)
  PROVE  /\ pc' \in [Threads -> PCs] /\ reg' \in [Threads -> Registers]
         /\ locks' \in 0 .. MaxLocks /\ lockOf' \in [Tenants -> 0 .. MaxLocks]
         /\ status = "up"
         /\ UNCHANGED <<diskVars, status, policies, registered, boundVars, historyVars>>
         /\ pc[p] = "idle" /\ pc'[p] = "use_wait"
         /\ reg'[p].tenant = t /\ reg'[p].lock = lockOf'[t] /\ lockOf'[t] # 0
         /\ reg'[p].orphaned = reg[p].orphaned
         /\ \A u \in Tenants : u # t \/ lockOf[u] # 0 => lockOf'[u] = lockOf[u]
         /\ \A x \in Threads \ {p} : pc'[x] = pc[x] /\ reg'[x] = reg[x]
<1>1. LockFor(t) \in 1 .. MaxLocks /\ (lockOf[t] # 0 => LockFor(t) = lockOf[t])
  BY DEF UseBegin, LockFor, TypeOK
<1> DEFINE k == LockFor(t)
           r == [reg[p] EXCEPT !.tenant = t, !.lock = k]
<1>k. k \in 1 .. MaxLocks /\ k \in Nat
  BY <1>1
<1> HIDE DEF k
<1>2. r \in Registers /\ r.tenant = t /\ r.lock = k /\ r.orphaned = reg[p].orphaned
  BY <1>k, ZenonT(60) DEF TypeOK, Registers
<1>3. /\ reg' = [reg EXCEPT ![p] = r] /\ pc[p] = "idle"
      /\ pc' = [pc EXCEPT ![p] = "use_wait"] /\ "use_wait" \in PCs
      /\ lockOf' = [lockOf EXCEPT ![t] = k]
      /\ locks' = IF k > locks THEN k ELSE locks
      /\ lockOf[t] # 0 => k = lockOf[t]
  BY <1>1, Places DEF UseBegin, At, Using, k
<1>4. /\ status = "up"
      /\ UNCHANGED <<diskVars, status, policies, registered, boundVars, historyVars>>
  BY DEF UseBegin, At
<1> HIDE DEF r
<1> QED
  BY <1>k, <1>2, <1>3, <1>4 DEF TypeOK

LEMMA UseHandleFacts ==
  ASSUME TypeOK, NEW p \in Threads, UseHandle(p)
  PROVE  /\ pc' \in [Threads -> PCs] /\ reg' \in [Threads -> Registers]
         /\ pc[p] = "use_locked" /\ pc'[p] \in {"use_inside", "idle"}
         /\ pc'[p] = "idle" => ~reg'[p].orphaned
         /\ pc'[p] = "use_inside" => /\ reg'[p].tenant = reg[p].tenant
                                     /\ reg'[p].lock = reg[p].lock
                                     /\ reg'[p].orphaned = reg[p].orphaned
         /\ \A x \in Threads \ {p} : pc'[x] = pc[x] /\ reg'[x] = reg[x]
<1>1. CASE "pending" \notin families[Tenant(p)]
  BY <1>1, ReturnFacts DEF UseHandle, At
<1>2. CASE "pending" \in families[Tenant(p)]
  <2> DEFINE r == [reg[p] EXCEPT !.handle = created[Tenant(p)]["pending"]]
  <2>1. created[Tenant(p)]["pending"] \in Nat
    BY TenantType DEF TypeOK, Families
  <2>2. /\ r \in Registers /\ r.tenant = reg[p].tenant /\ r.lock = reg[p].lock
        /\ r.orphaned = reg[p].orphaned
    <3>1. reg[p] \in Registers
      BY DEF TypeOK
    <3> QED
      BY <2>1, <3>1, SMTT(60) DEF Registers
  <2>3. /\ reg' = [reg EXCEPT ![p] = r] /\ pc[p] = "use_locked"
        /\ pc' = [pc EXCEPT ![p] = "use_inside"] /\ "use_inside" \in PCs
    BY <1>2, Places DEF UseHandle, At, Using
  <2> HIDE DEF r
  <2> QED
    BY <2>2, <2>3 DEF TypeOK
<1> QED
  BY <1>1, <1>2

LEMMA PlaceNames ==
  /\ {"prov_inflight", "drop_inflight", "set_meta"} \subseteq AdminPCs
  /\ {"pending", "inflight", "dlq"} \subseteq Families
BY DEF AdminPCs, ProvisionPCs, DropPCs, SetPCs, Families

(***************************************************************************)
(* Types                                                                   *)
(***************************************************************************)
\* Every step keeps the types.
LEMMA TypeOKStep ==
  ASSUME TypeOK, Shape, [Next]_vars
  PROVE  TypeOK'
<1> USE DEF TypeOK, At, Tenant, diskVars, memoryVars, boundVars, historyVars
<1>1. ASSUME NEW p \in Threads,
             Provision(p) \/ Drop(p) \/ SetPolicy(p) \/ Use(p) \/ IoError(p) \/ Cancelled(p)
      PROVE  TypeOK'
  <2>0. /\ reg[p] \in Registers /\ reg[p].tenant \in Tenants
        /\ reg[p].pol \in Versions \cup {NoPolicy}
    BY DEF Registers
  <2>1. ASSUME NEW t \in Tenants, NEW v \in Versions, ProvisionBegin(p, t, v)
        PROVE  TypeOK'
    <3>0. /\ Begun(p, t, v, "prov_inflight")
          /\ reg' \in [Threads -> Registers] /\ pc' \in [Threads -> PCs]
      BY <2>1, BeginFacts, PlaceNames DEF ProvisionBegin
    <3> QED
      BY <2>0, <2>1, <3>0, PlaceNames, CreateFacts
         DEF Begun, ProvisionBegin
  <2>2. CASE ProvisionCreate(p)
    <3>1. Subject[pc[p]] \in Families
      BY <2>2, SubjectFacts, PlaceNames DEF ProvisionCreate
    <3> QED
      BY <2>0, <2>2, <3>1, CreateFacts, AdvanceFacts DEF ProvisionCreate
  <2>3. CASE ProvisionMeta(p)
    BY <2>0, <2>3, AdvanceFacts
       DEF ProvisionMeta, PutMeta, Registers
  <2>4. CASE ProvisionInsert(p)
    BY <2>0, <2>4, AdvanceFacts
       DEF ProvisionInsert, Registers
  <2>5. CASE Register(p)
    <3>1. Subject[pc[p]] \in Parts
      BY <2>5, SubjectFacts DEF Register, Parts
    <3>2. registered' \in [Tenants -> SUBSET Parts]
      BY <2>0, <2>5, <3>1 DEF Register
    <3> QED
      BY <2>5, <3>2, AdvanceFacts DEF Register
  <2>6. CASE ProvisionDone(p)
    <3>1. /\ registered' \in [Tenants -> SUBSET Parts]
          /\ promise' \in [Tenants -> {"absent", "provisioned", "unsure"}]
          /\ expected' \in [Tenants -> Versions \cup {NoPolicy}]
          /\ good' \in [Tenants -> [Families -> 0 .. MaxCreations]]
      <4>1. CASE reg[p].clash
        BY <2>0, <2>6, <4>1 DEF ProvisionDone, Parts, Registers
      <4>2. CASE ~reg[p].clash
        <5>1. registered' \in [Tenants -> SUBSET Parts]
          BY <2>0, <2>6 DEF ProvisionDone, Parts, Registers
        <5>2. promise' \in [Tenants -> {"absent", "provisioned", "unsure"}]
          BY <2>0, <2>6, <4>2 DEF ProvisionDone, Parts, Registers
        <5>3. expected' \in [Tenants -> Versions \cup {NoPolicy}]
          BY <2>0, <2>6, <4>2 DEF ProvisionDone, Parts, Registers
        <5>4. good' \in [Tenants -> [Families -> 0 .. MaxCreations]]
          <6>1. created[Tenant(p)] \in [Families -> 0 .. MaxCreations]
            BY <2>0
          <6> QED
            BY <2>0, <2>6, <4>2, <6>1 DEF ProvisionDone
        <5> QED
          BY <5>1, <5>2, <5>3, <5>4
      <4> QED
        BY <4>1, <4>2
    <3>2. pc' \in [Threads -> PCs] /\ reg' \in [Threads -> Registers]
      BY <2>6, ReturnFacts DEF ProvisionDone
    <3> QED
      BY <2>6, <3>1, <3>2 DEF ProvisionDone
  <2>7. ASSUME NEW t \in Tenants, DropBegin(p, t)
        PROVE  TypeOK'
    <3>0. /\ Begun(p, t, NoPolicy, "drop_inflight")
          /\ reg' \in [Threads -> Registers] /\ pc' \in [Threads -> PCs]
      BY <2>7, BeginFacts, PlaceNames DEF DropBegin
    <3> QED
      BY <2>0, <2>7, <3>0, PlaceNames, DropCfFacts
         DEF Begun, DropBegin
  <2>8. CASE DropNext(p)
    <3>1. Subject[pc[p]] \in Families
      BY <2>8, SubjectFacts, PlaceNames DEF DropNext
    <3> QED
      BY <2>0, <2>8, <3>1, DropCfFacts, AdvanceFacts DEF DropNext
  <2>9. CASE DropMeta(p)
    BY <2>0, <2>9, AdvanceFacts
       DEF DropMeta, DeleteMeta
  <2>10. CASE DropRemove(p)
    BY <2>0, <2>10, AdvanceFacts
       DEF DropRemove
  <2>11. CASE DropLocks(p)
    BY <2>0, <2>11, DropLocksFacts
       DEF DropLocks
  <2>12. CASE Deregister(p)
    BY <2>0, <2>12, AdvanceFacts, SubjectFacts
       DEF Deregister
  <2>13. CASE DropDone(p)
    BY <2>0, <2>13, ReturnFacts
       DEF DropDone
  <2>14. ASSUME NEW t \in Tenants, NEW v \in Versions, SetPolicyBegin(p, t, v)
         PROVE  TypeOK'
    <3>0. /\ Begun(p, t, v, "set_meta")
          /\ reg' \in [Threads -> Registers] /\ pc' \in [Threads -> PCs]
      BY <2>14, BeginFacts, PlaceNames DEF SetPolicyBegin
    <3> QED
      BY <2>0, <2>14, <3>0, PlaceNames
         DEF Begun, SetPolicyBegin
  <2>15. CASE SetPolicyMeta(p)
    BY <2>0, <2>15, AdvanceFacts
       DEF SetPolicyMeta, PutMeta, Registers
  <2>16. CASE SetPolicyInsert(p)
    BY <2>0, <2>16, ReturnFacts
       DEF SetPolicyInsert, Registers
  <2>17. ASSUME NEW t \in Tenants, UseBegin(p, t)
         PROVE  TypeOK'
    BY <2>0, <2>17, UseBeginFacts
       DEF UseBegin
  <2>18. CASE UseLock(p)
    BY <2>0, <2>18, AdvanceFacts
       DEF UseLock
  <2>19. CASE UseHandle(p)
    BY <2>0, <2>19, UseHandleFacts
       DEF UseHandle
  <2>20. CASE ProvisionStuck(p) \/ DropStuck(p) \/ UseDone(p) \/ IoError(p) \/ Cancelled(p)
    BY <2>0, <2>20, ReturnFacts
       DEF ProvisionStuck, DropStuck, UseDone, IoError, Cancelled, DbSteps
  <2> QED
    BY <1>1, <2>1, <2>2, <2>3, <2>4, <2>5, <2>6, <2>7, <2>8, <2>9, <2>10,
       <2>11, <2>12, <2>13, <2>14, <2>15, <2>16, <2>17, <2>18, <2>19, <2>20
       DEF Provision, Drop, SetPolicy, Use
<1>2. CASE Crash
  BY <1>2, Places, NoRegistersType
     DEF Crash
<1>3. CASE Open
  BY <1>3
     DEF Open, Listed, Families
<1>4. CASE OpenRefused \/ UNCHANGED vars
  BY <1>4
     DEF OpenRefused, vars
<1> QED
  BY <1>1, <1>2, <1>3, <1>4 DEF Next, Failure

(***************************************************************************)
(* Who is where                                                            *)
(***************************************************************************)
\* Threads work while the server is up; who is idle holds nothing.
LEMMA ShapeStep ==
  ASSUME TypeOK, Shape, [Next]_vars
  PROVE  Shape'
<1> USE DEF Shape, At, Tenant, diskVars, memoryVars, boundVars, historyVars
<1>1. ASSUME NEW p \in Threads,
             Provision(p) \/ Drop(p) \/ SetPolicy(p) \/ Use(p) \/ IoError(p) \/ Cancelled(p)
      PROVE  Shape'
  <2>0. reg[p] \in Registers /\ reg[p].tenant \in Tenants
    BY DEF TypeOK, Registers
  <2>1. ASSUME NEW t \in Tenants, NEW v \in Versions, ProvisionBegin(p, t, v)
        PROVE  Shape'
    <3>0. /\ Begun(p, t, v, "prov_inflight")
          /\ reg' \in [Threads -> Registers] /\ pc' \in [Threads -> PCs]
      BY <2>1, BeginFacts, PlaceNames DEF ProvisionBegin
    <3> QED
      BY <2>0, <2>1, <3>0, PlaceNames
         DEF Begun, ProvisionBegin, AdminPCs, ProvisionPCs, RegisterPCs, DropPCs, DeregisterPCs,
             SetPCs, Using
  <2>2. CASE ProvisionCreate(p)
    BY <2>0, <2>2, AdvanceFacts, AfterFacts
       DEF ProvisionCreate, AdminPCs, ProvisionPCs, RegisterPCs, DropPCs, DeregisterPCs,
           SetPCs, Using
  <2>3. CASE ProvisionMeta(p)
    BY <2>0, <2>3, AdvanceFacts, AfterFacts
       DEF ProvisionMeta, PutMeta, AdminPCs, ProvisionPCs, RegisterPCs, DropPCs,
           DeregisterPCs, SetPCs, Using
  <2>4. CASE ProvisionInsert(p)
    BY <2>0, <2>4, AdvanceFacts, AfterFacts
       DEF ProvisionInsert, AdminPCs, ProvisionPCs, RegisterPCs, DropPCs, DeregisterPCs,
           SetPCs, Using
  <2>5. CASE Register(p)
    BY <2>0, <2>5, AdvanceFacts, AfterFacts
       DEF Register, AdminPCs, ProvisionPCs, RegisterPCs, DropPCs, DeregisterPCs, SetPCs,
           Using
  <2>6. CASE ProvisionDone(p)
    BY <2>0, <2>6, ReturnFacts
       DEF ProvisionDone, AdminPCs, ProvisionPCs, RegisterPCs, DropPCs, DeregisterPCs,
           SetPCs, Using
  <2>7. ASSUME NEW t \in Tenants, DropBegin(p, t)
        PROVE  Shape'
    <3>0. /\ Begun(p, t, NoPolicy, "drop_inflight")
          /\ reg' \in [Threads -> Registers] /\ pc' \in [Threads -> PCs]
      BY <2>7, BeginFacts, PlaceNames DEF DropBegin
    <3> QED
      BY <2>0, <2>7, <3>0, PlaceNames
         DEF Begun, DropBegin, AdminPCs, ProvisionPCs, RegisterPCs, DropPCs, DeregisterPCs,
             SetPCs, Using
  <2>8. CASE DropNext(p)
    BY <2>0, <2>8, AdvanceFacts, AfterFacts
       DEF DropNext, AdminPCs, ProvisionPCs, RegisterPCs, DropPCs, DeregisterPCs, SetPCs,
           Using
  <2>9. CASE DropMeta(p)
    BY <2>0, <2>9, AdvanceFacts, AfterFacts
       DEF DropMeta, DeleteMeta, AdminPCs, ProvisionPCs, RegisterPCs, DropPCs,
           DeregisterPCs, SetPCs, Using
  <2>10. CASE DropRemove(p)
    BY <2>0, <2>10, AdvanceFacts, AfterFacts
       DEF DropRemove, AdminPCs, ProvisionPCs, RegisterPCs, DropPCs, DeregisterPCs,
           SetPCs, Using
  <2>11. CASE DropLocks(p)
    BY <2>0, <2>11, DropLocksFacts
       DEF AdminPCs, ProvisionPCs, RegisterPCs, DropPCs, DeregisterPCs, SetPCs, Using
  <2>12. CASE Deregister(p)
    BY <2>0, <2>12, AdvanceFacts, AfterFacts
       DEF Deregister, AdminPCs, ProvisionPCs, RegisterPCs, DropPCs, DeregisterPCs,
           SetPCs, Using
  <2>13. CASE DropDone(p)
    BY <2>0, <2>13, ReturnFacts
       DEF DropDone, AdminPCs, ProvisionPCs, RegisterPCs, DropPCs, DeregisterPCs, SetPCs,
           Using
  <2>14. ASSUME NEW t \in Tenants, NEW v \in Versions, SetPolicyBegin(p, t, v)
         PROVE  Shape'
    <3>0. /\ Begun(p, t, v, "set_meta")
          /\ reg' \in [Threads -> Registers] /\ pc' \in [Threads -> PCs]
      BY <2>14, BeginFacts, PlaceNames DEF SetPolicyBegin
    <3> QED
      BY <2>0, <2>14, <3>0, PlaceNames
         DEF Begun, SetPolicyBegin, AdminPCs, ProvisionPCs, RegisterPCs, DropPCs, DeregisterPCs,
             SetPCs, Using
  <2>15. CASE SetPolicyMeta(p)
    BY <2>0, <2>15, AdvanceFacts, AfterFacts
       DEF SetPolicyMeta, PutMeta, AdminPCs, ProvisionPCs, RegisterPCs, DropPCs,
           DeregisterPCs, SetPCs, Using
  <2>16. CASE SetPolicyInsert(p)
    BY <2>0, <2>16, ReturnFacts
       DEF SetPolicyInsert, AdminPCs, ProvisionPCs, RegisterPCs, DropPCs, DeregisterPCs,
           SetPCs, Using
  <2>17. ASSUME NEW t \in Tenants, UseBegin(p, t)
         PROVE  Shape'
    BY <2>0, <2>17, UseBeginFacts
       DEF AdminPCs, ProvisionPCs, RegisterPCs, DropPCs, DeregisterPCs, SetPCs, Using
  <2>18. CASE UseLock(p)
    BY <2>0, <2>18, AdvanceFacts, AfterFacts
       DEF UseLock, AdminPCs, ProvisionPCs, RegisterPCs, DropPCs, DeregisterPCs, SetPCs,
           Using
  <2>19. CASE UseHandle(p)
    BY <2>0, <2>19, UseHandleFacts
       DEF UseHandle, AdminPCs, ProvisionPCs, RegisterPCs, DropPCs, DeregisterPCs,
           SetPCs, Using
  <2>20. CASE ProvisionStuck(p) \/ DropStuck(p) \/ UseDone(p) \/ IoError(p) \/ Cancelled(p)
    BY <2>0, <2>20, ReturnFacts
       DEF ProvisionStuck, DropStuck, UseDone, IoError, Cancelled, DbSteps, AdminPCs,
           ProvisionPCs, RegisterPCs, DropPCs, DeregisterPCs, SetPCs, Using
  <2> QED
    BY <1>1, <2>1, <2>2, <2>3, <2>4, <2>5, <2>6, <2>7, <2>8, <2>9, <2>10,
       <2>11, <2>12, <2>13, <2>14, <2>15, <2>16, <2>17, <2>18, <2>19, <2>20
       DEF Provision, Drop, SetPolicy, Use
<1>2. CASE Crash
  BY <1>2, NoRegistersType
     DEF Crash, AdminPCs, ProvisionPCs, RegisterPCs, DropPCs, DeregisterPCs, SetPCs, Using
<1>3. CASE Open
  BY <1>3
     DEF Open, Listed
<1>4. CASE OpenRefused \/ UNCHANGED vars
  BY <1>4
     DEF OpenRefused, vars
<1> QED
  BY <1>1, <1>2, <1>3, <1>4 DEF Next, Failure

(***************************************************************************)
(* Overlapping requests                                                    *)
(***************************************************************************)
\* Two administrative requests on a tenant mark each other.
LEMMA AloneStep ==
  ASSUME TypeOK, Shape, Alone, [Next]_vars
  PROVE  Alone'
<1> USE DEF Alone, At, Tenant, diskVars, memoryVars, boundVars, historyVars
<1>1. ASSUME NEW p \in Threads,
             Provision(p) \/ Drop(p) \/ SetPolicy(p) \/ Use(p) \/ IoError(p) \/ Cancelled(p)
      PROVE  Alone'
  <2>0. reg[p] \in Registers /\ reg[p].tenant \in Tenants
    BY DEF TypeOK, Registers
  <2>1. ASSUME NEW t \in Tenants, NEW v \in Versions, ProvisionBegin(p, t, v)
        PROVE  Alone'
    <3>0. /\ Begun(p, t, v, "prov_inflight")
          /\ reg' \in [Threads -> Registers] /\ pc' \in [Threads -> PCs]
      BY <2>1, BeginFacts, PlaceNames DEF ProvisionBegin
    <3> QED
      BY <2>0, <2>1, <3>0, PlaceNames
         DEF Begun, ProvisionBegin, AdminPCs, ProvisionPCs, RegisterPCs, DropPCs, DeregisterPCs,
             SetPCs, Using
  <2>2. CASE ProvisionCreate(p)
    BY <2>0, <2>2, AdvanceFacts, AfterFacts
       DEF ProvisionCreate, AdminPCs, ProvisionPCs, RegisterPCs, DropPCs, DeregisterPCs,
           SetPCs, Using
  <2>3. CASE ProvisionMeta(p)
    BY <2>0, <2>3, AdvanceFacts, AfterFacts
       DEF ProvisionMeta, PutMeta, AdminPCs, ProvisionPCs, RegisterPCs, DropPCs,
           DeregisterPCs, SetPCs, Using
  <2>4. CASE ProvisionInsert(p)
    BY <2>0, <2>4, AdvanceFacts, AfterFacts
       DEF ProvisionInsert, AdminPCs, ProvisionPCs, RegisterPCs, DropPCs, DeregisterPCs,
           SetPCs, Using
  <2>5. CASE Register(p)
    BY <2>0, <2>5, AdvanceFacts, AfterFacts
       DEF Register, AdminPCs, ProvisionPCs, RegisterPCs, DropPCs, DeregisterPCs, SetPCs,
           Using
  <2>6. CASE ProvisionDone(p)
    BY <2>0, <2>6, ReturnFacts
       DEF ProvisionDone, AdminPCs, ProvisionPCs, RegisterPCs, DropPCs, DeregisterPCs,
           SetPCs, Using
  <2>7. ASSUME NEW t \in Tenants, DropBegin(p, t)
        PROVE  Alone'
    <3>0. /\ Begun(p, t, NoPolicy, "drop_inflight")
          /\ reg' \in [Threads -> Registers] /\ pc' \in [Threads -> PCs]
      BY <2>7, BeginFacts, PlaceNames DEF DropBegin
    <3> QED
      BY <2>0, <2>7, <3>0, PlaceNames
         DEF Begun, DropBegin, AdminPCs, ProvisionPCs, RegisterPCs, DropPCs, DeregisterPCs,
             SetPCs, Using
  <2>8. CASE DropNext(p)
    BY <2>0, <2>8, AdvanceFacts, AfterFacts
       DEF DropNext, AdminPCs, ProvisionPCs, RegisterPCs, DropPCs, DeregisterPCs, SetPCs,
           Using
  <2>9. CASE DropMeta(p)
    BY <2>0, <2>9, AdvanceFacts, AfterFacts
       DEF DropMeta, DeleteMeta, AdminPCs, ProvisionPCs, RegisterPCs, DropPCs,
           DeregisterPCs, SetPCs, Using
  <2>10. CASE DropRemove(p)
    BY <2>0, <2>10, AdvanceFacts, AfterFacts
       DEF DropRemove, AdminPCs, ProvisionPCs, RegisterPCs, DropPCs, DeregisterPCs,
           SetPCs, Using
  <2>11. CASE DropLocks(p)
    BY <2>0, <2>11, DropLocksFacts
       DEF AdminPCs, ProvisionPCs, RegisterPCs, DropPCs, DeregisterPCs, SetPCs, Using
  <2>12. CASE Deregister(p)
    BY <2>0, <2>12, AdvanceFacts, AfterFacts
       DEF Deregister, AdminPCs, ProvisionPCs, RegisterPCs, DropPCs, DeregisterPCs,
           SetPCs, Using
  <2>13. CASE DropDone(p)
    BY <2>0, <2>13, ReturnFacts
       DEF DropDone, AdminPCs, ProvisionPCs, RegisterPCs, DropPCs, DeregisterPCs, SetPCs,
           Using
  <2>14. ASSUME NEW t \in Tenants, NEW v \in Versions, SetPolicyBegin(p, t, v)
         PROVE  Alone'
    <3>0. /\ Begun(p, t, v, "set_meta")
          /\ reg' \in [Threads -> Registers] /\ pc' \in [Threads -> PCs]
      BY <2>14, BeginFacts, PlaceNames DEF SetPolicyBegin
    <3> QED
      BY <2>0, <2>14, <3>0, PlaceNames
         DEF Begun, SetPolicyBegin, AdminPCs, ProvisionPCs, RegisterPCs, DropPCs, DeregisterPCs,
             SetPCs, Using
  <2>15. CASE SetPolicyMeta(p)
    BY <2>0, <2>15, AdvanceFacts, AfterFacts
       DEF SetPolicyMeta, PutMeta, AdminPCs, ProvisionPCs, RegisterPCs, DropPCs,
           DeregisterPCs, SetPCs, Using
  <2>16. CASE SetPolicyInsert(p)
    BY <2>0, <2>16, ReturnFacts
       DEF SetPolicyInsert, AdminPCs, ProvisionPCs, RegisterPCs, DropPCs, DeregisterPCs,
           SetPCs, Using
  <2>17. ASSUME NEW t \in Tenants, UseBegin(p, t)
         PROVE  Alone'
    BY <2>0, <2>17, UseBeginFacts
       DEF AdminPCs, ProvisionPCs, RegisterPCs, DropPCs, DeregisterPCs, SetPCs, Using
  <2>18. CASE UseLock(p)
    BY <2>0, <2>18, AdvanceFacts, AfterFacts
       DEF UseLock, AdminPCs, ProvisionPCs, RegisterPCs, DropPCs, DeregisterPCs, SetPCs,
           Using
  <2>19. CASE UseHandle(p)
    BY <2>0, <2>19, UseHandleFacts
       DEF UseHandle, AdminPCs, ProvisionPCs, RegisterPCs, DropPCs, DeregisterPCs,
           SetPCs, Using
  <2>20. CASE ProvisionStuck(p) \/ DropStuck(p) \/ UseDone(p) \/ IoError(p) \/ Cancelled(p)
    BY <2>0, <2>20, ReturnFacts
       DEF ProvisionStuck, DropStuck, UseDone, IoError, Cancelled, DbSteps, AdminPCs,
           ProvisionPCs, RegisterPCs, DropPCs, DeregisterPCs, SetPCs, Using
  <2> QED
    BY <1>1, <2>1, <2>2, <2>3, <2>4, <2>5, <2>6, <2>7, <2>8, <2>9, <2>10,
       <2>11, <2>12, <2>13, <2>14, <2>15, <2>16, <2>17, <2>18, <2>19, <2>20
       DEF Provision, Drop, SetPolicy, Use
<1>2. CASE Crash
  BY <1>2
     DEF Crash, AdminPCs, ProvisionPCs, RegisterPCs, DropPCs, DeregisterPCs, SetPCs, Using
<1>3. CASE Open
  BY <1>3
     DEF Open, Listed
<1>4. CASE OpenRefused \/ UNCHANGED vars
  BY <1>4
     DEF OpenRefused, vars
<1> QED
  BY <1>1, <1>2, <1>3, <1>4 DEF Next, Failure

\* Two requests that provision or drop a tenant mark each other.
LEMMA RivalsStep ==
  ASSUME TypeOK, Shape, Rivals, [Next]_vars
  PROVE  Rivals'
<1> USE DEF Rivals, At, Tenant, diskVars, memoryVars, boundVars, historyVars
<1>1. ASSUME NEW p \in Threads,
             Provision(p) \/ Drop(p) \/ SetPolicy(p) \/ Use(p) \/ IoError(p) \/ Cancelled(p)
      PROVE  Rivals'
  <2>0. reg[p] \in Registers /\ reg[p].tenant \in Tenants
    BY DEF TypeOK, Registers
  <2>1. ASSUME NEW t \in Tenants, NEW v \in Versions, ProvisionBegin(p, t, v)
        PROVE  Rivals'
    <3>0. /\ Begun(p, t, v, "prov_inflight")
          /\ reg' \in [Threads -> Registers] /\ pc' \in [Threads -> PCs]
      BY <2>1, BeginFacts, PlaceNames DEF ProvisionBegin
    <3> QED
      BY <2>0, <2>1, <3>0, PlaceNames
         DEF Begun, ProvisionBegin, WholePCs, AdminPCs, ProvisionPCs, RegisterPCs, DropPCs,
             DeregisterPCs,
             SetPCs, Using
  <2>2. CASE ProvisionCreate(p)
    BY <2>0, <2>2, AdvanceFacts, AfterFacts
       DEF ProvisionCreate, WholePCs, AdminPCs, ProvisionPCs, RegisterPCs, DropPCs,
           DeregisterPCs,
           SetPCs, Using
  <2>3. CASE ProvisionMeta(p)
    BY <2>0, <2>3, AdvanceFacts, AfterFacts
       DEF ProvisionMeta, PutMeta, WholePCs, AdminPCs, ProvisionPCs, RegisterPCs, DropPCs,
           DeregisterPCs, SetPCs, Using
  <2>4. CASE ProvisionInsert(p)
    BY <2>0, <2>4, AdvanceFacts, AfterFacts
       DEF ProvisionInsert, WholePCs, AdminPCs, ProvisionPCs, RegisterPCs, DropPCs,
           DeregisterPCs,
           SetPCs, Using
  <2>5. CASE Register(p)
    BY <2>0, <2>5, AdvanceFacts, AfterFacts
       DEF Register, WholePCs, AdminPCs, ProvisionPCs, RegisterPCs, DropPCs, DeregisterPCs,
           SetPCs,
           Using
  <2>6. CASE ProvisionDone(p)
    BY <2>0, <2>6, ReturnFacts
       DEF ProvisionDone, WholePCs, AdminPCs, ProvisionPCs, RegisterPCs, DropPCs, DeregisterPCs,
           SetPCs, Using
  <2>7. ASSUME NEW t \in Tenants, DropBegin(p, t)
        PROVE  Rivals'
    <3>0. /\ Begun(p, t, NoPolicy, "drop_inflight")
          /\ reg' \in [Threads -> Registers] /\ pc' \in [Threads -> PCs]
      BY <2>7, BeginFacts, PlaceNames DEF DropBegin
    <3> QED
      BY <2>0, <2>7, <3>0, PlaceNames
         DEF Begun, DropBegin, WholePCs, AdminPCs, ProvisionPCs, RegisterPCs, DropPCs,
             DeregisterPCs,
             SetPCs, Using
  <2>8. CASE DropNext(p)
    BY <2>0, <2>8, AdvanceFacts, AfterFacts
       DEF DropNext, WholePCs, AdminPCs, ProvisionPCs, RegisterPCs, DropPCs, DeregisterPCs,
           SetPCs,
           Using
  <2>9. CASE DropMeta(p)
    BY <2>0, <2>9, AdvanceFacts, AfterFacts
       DEF DropMeta, DeleteMeta, WholePCs, AdminPCs, ProvisionPCs, RegisterPCs, DropPCs,
           DeregisterPCs, SetPCs, Using
  <2>10. CASE DropRemove(p)
    BY <2>0, <2>10, AdvanceFacts, AfterFacts
       DEF DropRemove, WholePCs, AdminPCs, ProvisionPCs, RegisterPCs, DropPCs, DeregisterPCs,
           SetPCs, Using
  <2>11. CASE DropLocks(p)
    BY <2>0, <2>11, DropLocksFacts
       DEF WholePCs, AdminPCs, ProvisionPCs, RegisterPCs, DropPCs, DeregisterPCs, SetPCs, Using
  <2>12. CASE Deregister(p)
    BY <2>0, <2>12, AdvanceFacts, AfterFacts
       DEF Deregister, WholePCs, AdminPCs, ProvisionPCs, RegisterPCs, DropPCs, DeregisterPCs,
           SetPCs, Using
  <2>13. CASE DropDone(p)
    BY <2>0, <2>13, ReturnFacts
       DEF DropDone, WholePCs, AdminPCs, ProvisionPCs, RegisterPCs, DropPCs, DeregisterPCs,
           SetPCs,
           Using
  <2>14. ASSUME NEW t \in Tenants, NEW v \in Versions, SetPolicyBegin(p, t, v)
         PROVE  Rivals'
    <3>0. /\ Begun(p, t, v, "set_meta")
          /\ reg' \in [Threads -> Registers] /\ pc' \in [Threads -> PCs]
      BY <2>14, BeginFacts, PlaceNames DEF SetPolicyBegin
    <3> QED
      BY <2>0, <2>14, <3>0, PlaceNames
         DEF Begun, SetPolicyBegin, WholePCs, AdminPCs, ProvisionPCs, RegisterPCs, DropPCs,
             DeregisterPCs,
             SetPCs, Using
  <2>15. CASE SetPolicyMeta(p)
    BY <2>0, <2>15, AdvanceFacts, AfterFacts
       DEF SetPolicyMeta, PutMeta, WholePCs, AdminPCs, ProvisionPCs, RegisterPCs, DropPCs,
           DeregisterPCs, SetPCs, Using
  <2>16. CASE SetPolicyInsert(p)
    BY <2>0, <2>16, ReturnFacts
       DEF SetPolicyInsert, WholePCs, AdminPCs, ProvisionPCs, RegisterPCs, DropPCs,
           DeregisterPCs,
           SetPCs, Using
  <2>17. ASSUME NEW t \in Tenants, UseBegin(p, t)
         PROVE  Rivals'
    BY <2>0, <2>17, UseBeginFacts
       DEF WholePCs, AdminPCs, ProvisionPCs, RegisterPCs, DropPCs, DeregisterPCs, SetPCs, Using
  <2>18. CASE UseLock(p)
    BY <2>0, <2>18, AdvanceFacts, AfterFacts
       DEF UseLock, WholePCs, AdminPCs, ProvisionPCs, RegisterPCs, DropPCs, DeregisterPCs,
           SetPCs,
           Using
  <2>19. CASE UseHandle(p)
    BY <2>0, <2>19, UseHandleFacts
       DEF UseHandle, WholePCs, AdminPCs, ProvisionPCs, RegisterPCs, DropPCs, DeregisterPCs,
           SetPCs, Using
  <2>20. CASE ProvisionStuck(p) \/ DropStuck(p) \/ UseDone(p) \/ IoError(p) \/ Cancelled(p)
    BY <2>0, <2>20, ReturnFacts
       DEF ProvisionStuck, DropStuck, UseDone, IoError, Cancelled, DbSteps, WholePCs, AdminPCs,
           ProvisionPCs, RegisterPCs, DropPCs, DeregisterPCs, SetPCs, Using
  <2> QED
    BY <1>1, <2>1, <2>2, <2>3, <2>4, <2>5, <2>6, <2>7, <2>8, <2>9, <2>10,
       <2>11, <2>12, <2>13, <2>14, <2>15, <2>16, <2>17, <2>18, <2>19, <2>20
       DEF Provision, Drop, SetPolicy, Use
<1>2. CASE Crash
  BY <1>2
     DEF Crash, WholePCs, AdminPCs, ProvisionPCs, RegisterPCs, DropPCs, DeregisterPCs,
         SetPCs, Using
<1>3. CASE Open
  BY <1>3
     DEF Open, Listed
<1>4. CASE OpenRefused \/ UNCHANGED vars
  BY <1>4
     DEF OpenRefused, vars
<1> QED
  BY <1>1, <1>2, <1>3, <1>4 DEF Next, Failure

(***************************************************************************)
(* What a step on one tenant leaves alone                                  *)
(***************************************************************************)
Same(t) ==
  /\ families'[t] = families[t] /\ meta'[t] = meta[t]
  /\ policies'[t] = policies[t] /\ registered'[t] = registered[t]
  /\ t \in revived' <=> t \in revived

\* A request that sees neither itself nor its tenant change makes no progress.
LEMMA ProgressOfOthers ==
  ASSUME Progress, NEW x \in Threads,
         pc'[x] = pc[x], reg'[x].tenant = reg[x].tenant, reg'[x].pol = reg[x].pol,
         reg[x].clash => reg'[x].clash,
         pc[x] \in AdminPCs /\ ~reg'[x].clash => Same(Tenant(x))
  PROVE  Progressed(x)'
<1>1. CASE pc[x] \in AdminPCs
  BY <1>1 DEF Progress, Progressed, Built, Same, Tenant
<1>2. CASE pc[x] \notin AdminPCs
  BY <1>2 DEF Progressed, Built, AdminPCs, ProvisionPCs, RegisterPCs, DropPCs,
              DeregisterPCs, SetPCs
<1> QED
  BY <1>1, <1>2

(***************************************************************************)
(* Steps still in effect                                                   *)
(***************************************************************************)
\* A request that is alone finds everything it did so far still so.
LEMMA ProgressStep ==
  ASSUME TypeOK, Shape, Alone, Progress, [Next]_vars
  PROVE  Progress'
<1> USE DEF At, Tenant, diskVars, memoryVars, boundVars, historyVars
<1>1. ASSUME NEW p \in Threads,
             Provision(p) \/ Drop(p) \/ SetPolicy(p) \/ Use(p) \/ IoError(p) \/ Cancelled(p)
      PROVE  Progress'
  <2>0. reg[p] \in Registers /\ reg[p].tenant \in Tenants
    BY DEF TypeOK, Registers
  <2>1. ASSUME NEW t \in Tenants, NEW v \in Versions, ProvisionBegin(p, t, v)
        PROVE  Progress'
    <3>1. /\ \A u \in Tenants \ {t} : Same(u)
          /\ \A x \in Threads \ {p} :
               /\ pc'[x] = pc[x] /\ reg'[x].tenant = reg[x].tenant /\ reg'[x].pol = reg[x].pol
               /\ reg[x].clash => reg'[x].clash
               /\ pc[x] \in AdminPCs /\ Tenant(x) = t => reg'[x].clash
      <4>0. Begun(p, t, v, "prov_inflight")
        BY <2>1, BeginFacts, PlaceNames DEF ProvisionBegin
      <4> QED
        BY <2>0, <2>1, <4>0, PlaceNames, CreateFacts
           DEF Begun, ProvisionBegin, Same, Alone, AdminPCs, ProvisionPCs, RegisterPCs, DropPCs,
               DeregisterPCs, SetPCs
    <3>2. ASSUME NEW x \in Threads \ {p} PROVE Progressed(x)'
      BY <3>1, ProgressOfOthers, TenantType
    <3>3. Progressed(p)'
      <4>1. pc[p] = "idle" /\ Begin(p, t, v, "prov_inflight") /\ Create(t, "pending")
        BY <2>1 DEF ProvisionBegin
      <4>2. pc'[p] = "prov_inflight" /\ reg'[p].tenant = t
        BY <4>1, BeginFacts, PlaceNames DEF Begun
      <4>3. "pending" \in families'[t]
        BY <4>1, CreateFacts, PlaceNames
      <4> QED
        BY <4>2, <4>3
           DEF Progressed, Built, ProvisionPCs, RegisterPCs, DropPCs, DeregisterPCs
    <3> QED
      BY <3>2, <3>3 DEF Progress
  <2>2. CASE ProvisionCreate(p)
    <3>1. /\ \A u \in Tenants \ {Tenant(p)} : Same(u)
          /\ \A x \in Threads \ {p} :
               /\ pc'[x] = pc[x] /\ reg'[x].tenant = reg[x].tenant /\ reg'[x].pol = reg[x].pol
               /\ reg[x].clash => reg'[x].clash
               /\ pc[x] \in AdminPCs /\ Tenant(x) = Tenant(p) => reg'[x].clash
      <4>0. Subject[pc[p]] \in Families
        BY <2>2, SubjectFacts, PlaceNames DEF ProvisionCreate
      <4> QED
        BY <2>0, <2>2, <4>0, AdvanceFacts, AfterFacts, CreateFacts, SubjectFacts, PlaceNames
         DEF ProvisionCreate, Same, Alone, AdminPCs, ProvisionPCs, RegisterPCs, DropPCs,
             DeregisterPCs, SetPCs
    <3>2. ASSUME NEW x \in Threads \ {p} PROVE Progressed(x)'
      BY <3>1, ProgressOfOthers, TenantType
    <3>3. Progressed(p)'
      <4>1. /\ \/ /\ pc[p] = "prov_inflight" /\ pc'[p] = "prov_dlq"
                  /\ families'[Tenant(p)] = families[Tenant(p)] \cup {"inflight"}
               \/ /\ pc[p] = "prov_dlq" /\ pc'[p] = "prov_meta"
                  /\ families'[Tenant(p)] = families[Tenant(p)] \cup {"dlq"}
            /\ reg' = reg /\ UNCHANGED <<meta, policies, registered>>
        <5>1. CASE pc[p] = "prov_inflight"
          <6>1. pc'[p] = "prov_dlq" /\ reg' = reg
            BY <2>2, <5>1, AdvanceFacts, AfterFacts DEF ProvisionCreate
          <6>2. families'[Tenant(p)] = families[Tenant(p)] \cup {"inflight"}
            BY <2>0, <2>2, <5>1, CreateFacts, SubjectFacts, PlaceNames, TenantType
               DEF ProvisionCreate
          <6> QED
            BY <2>2, <5>1, <6>1, <6>2 DEF ProvisionCreate
        <5>2. CASE pc[p] = "prov_dlq"
          <6>1. pc'[p] = "prov_meta" /\ reg' = reg
            BY <2>2, <5>2, AdvanceFacts, AfterFacts DEF ProvisionCreate
          <6>2. families'[Tenant(p)] = families[Tenant(p)] \cup {"dlq"}
            BY <2>0, <2>2, <5>2, CreateFacts, SubjectFacts, PlaceNames, TenantType
               DEF ProvisionCreate
          <6> QED
            BY <2>2, <5>2, <6>1, <6>2 DEF ProvisionCreate
        <5> QED
          BY <2>2, <5>1, <5>2 DEF ProvisionCreate
      <4> QED
        BY <2>0, <4>1
           DEF Progress, Progressed, Built, AdminPCs, ProvisionPCs, RegisterPCs,
               DropPCs, DeregisterPCs, SetPCs, Using
    <3> QED
      BY <3>2, <3>3 DEF Progress
  <2>3. CASE ProvisionMeta(p)
    <3>1. /\ \A u \in Tenants \ {Tenant(p)} : Same(u)
          /\ \A x \in Threads \ {p} :
               /\ pc'[x] = pc[x] /\ reg'[x].tenant = reg[x].tenant /\ reg'[x].pol = reg[x].pol
               /\ reg[x].clash => reg'[x].clash
               /\ pc[x] \in AdminPCs /\ Tenant(x) = Tenant(p) => reg'[x].clash
      BY <2>0, <2>3, AdvanceFacts, AfterFacts
         DEF ProvisionMeta, PutMeta, Same, Alone, AdminPCs, ProvisionPCs, RegisterPCs,
             DropPCs, DeregisterPCs, SetPCs
    <3>2. ASSUME NEW x \in Threads \ {p} PROVE Progressed(x)'
      BY <3>1, ProgressOfOthers, TenantType
    <3>3. Progressed(p)'
      <4>1. /\ pc[p] = "prov_meta" /\ pc'[p] = "prov_insert"
            /\ meta'[Tenant(p)] = reg[p].pol
            /\ reg' = reg /\ UNCHANGED <<families, policies, registered>>
        BY <2>0, <2>3, AdvanceFacts, AfterFacts, ZenonT(60)
           DEF ProvisionMeta, PutMeta, TypeOK
      <4> QED
        BY <2>0, <4>1
           DEF Progress, Progressed, Built, AdminPCs, ProvisionPCs, RegisterPCs,
               DropPCs, DeregisterPCs, SetPCs, Using
    <3> QED
      BY <3>2, <3>3 DEF Progress
  <2>4. CASE ProvisionInsert(p)
    <3>1. /\ \A u \in Tenants \ {Tenant(p)} : Same(u)
          /\ \A x \in Threads \ {p} :
               /\ pc'[x] = pc[x] /\ reg'[x].tenant = reg[x].tenant /\ reg'[x].pol = reg[x].pol
               /\ reg[x].clash => reg'[x].clash
               /\ pc[x] \in AdminPCs /\ Tenant(x) = Tenant(p) => reg'[x].clash
      BY <2>0, <2>4, AdvanceFacts, AfterFacts
         DEF ProvisionInsert, Same, Alone, AdminPCs, ProvisionPCs, RegisterPCs, DropPCs,
             DeregisterPCs, SetPCs
    <3>2. ASSUME NEW x \in Threads \ {p} PROVE Progressed(x)'
      BY <3>1, ProgressOfOthers, TenantType
    <3>3. Progressed(p)'
      <4>1. /\ pc[p] = "prov_insert" /\ pc'[p] = "reg_scheduler"
            /\ policies'[Tenant(p)] = reg[p].pol
            /\ reg' = reg /\ UNCHANGED <<families, meta, registered>>
        BY <2>0, <2>4, AdvanceFacts, AfterFacts, ZenonT(60)
           DEF ProvisionInsert, TypeOK
      <4> QED
        BY <2>0, <4>1
           DEF Progress, Progressed, Built, AdminPCs, ProvisionPCs, RegisterPCs,
               DropPCs, DeregisterPCs, SetPCs, Using
    <3> QED
      BY <3>2, <3>3 DEF Progress
  <2>5. CASE Register(p)
    <3>1. /\ \A u \in Tenants \ {Tenant(p)} : Same(u)
          /\ \A x \in Threads \ {p} :
               /\ pc'[x] = pc[x] /\ reg'[x].tenant = reg[x].tenant /\ reg'[x].pol = reg[x].pol
               /\ reg[x].clash => reg'[x].clash
               /\ pc[x] \in AdminPCs /\ Tenant(x) = Tenant(p) => reg'[x].clash
      BY <2>0, <2>5, AdvanceFacts, AfterFacts, SubjectFacts
         DEF Register, Same, Alone, AdminPCs, ProvisionPCs, RegisterPCs, DropPCs,
             DeregisterPCs, SetPCs
    <3>2. ASSUME NEW x \in Threads \ {p} PROVE Progressed(x)'
      BY <3>1, ProgressOfOthers, TenantType
    <3>3. Progressed(p)'
      <4>1. /\ \/ /\ pc[p] = "reg_scheduler" /\ pc'[p] = "reg_collector"
                  /\ registered'[Tenant(p)] = registered[Tenant(p)] \cup {"scheduler"}
               \/ /\ pc[p] = "reg_collector" /\ pc'[p] = "reg_baselines"
                  /\ registered'[Tenant(p)] = registered[Tenant(p)] \cup {"collector"}
            /\ reg' = reg /\ UNCHANGED <<families, meta, policies>>
        <5>1. CASE pc[p] = "reg_scheduler"
          <6>1. pc'[p] = "reg_collector" /\ reg' = reg
            BY <2>5, <5>1, AdvanceFacts, AfterFacts DEF Register
          <6>2. registered'[Tenant(p)] = registered[Tenant(p)] \cup {"scheduler"}
            BY <2>0, <2>5, <5>1, SubjectFacts, TenantType
               DEF Register, TypeOK
          <6> QED
            BY <2>5, <5>1, <6>1, <6>2 DEF Register
        <5>2. CASE pc[p] = "reg_collector"
          <6>1. pc'[p] = "reg_baselines" /\ reg' = reg
            BY <2>5, <5>2, AdvanceFacts, AfterFacts DEF Register
          <6>2. registered'[Tenant(p)] = registered[Tenant(p)] \cup {"collector"}
            BY <2>0, <2>5, <5>2, SubjectFacts, TenantType
               DEF Register, TypeOK
          <6> QED
            BY <2>5, <5>2, <6>1, <6>2 DEF Register
        <5> QED
          BY <2>5, <5>1, <5>2 DEF Register
      <4> QED
        BY <2>0, <4>1
           DEF Progress, Progressed, Built, AdminPCs, ProvisionPCs, RegisterPCs,
               DropPCs, DeregisterPCs, SetPCs, Using
    <3> QED
      BY <3>2, <3>3 DEF Progress
  <2>6. CASE ProvisionDone(p)
    <3>1. /\ \A u \in Tenants \ {Tenant(p)} : Same(u)
          /\ \A x \in Threads \ {p} :
               /\ pc'[x] = pc[x] /\ reg'[x].tenant = reg[x].tenant /\ reg'[x].pol = reg[x].pol
               /\ reg[x].clash => reg'[x].clash
               /\ pc[x] \in AdminPCs /\ Tenant(x) = Tenant(p) => reg'[x].clash
      BY <2>0, <2>6, ReturnFacts
         DEF ProvisionDone, Same, Alone, AdminPCs, ProvisionPCs, RegisterPCs, DropPCs,
             DeregisterPCs, SetPCs
    <3>2. ASSUME NEW x \in Threads \ {p} PROVE Progressed(x)'
      BY <3>1, ProgressOfOthers, TenantType
    <3>3. Progressed(p)'
      BY <2>0, <2>6, ReturnFacts
         DEF ProvisionDone, TypeOK, Progress, Progressed, Built, AdminPCs,
             ProvisionPCs, RegisterPCs, DropPCs, DeregisterPCs, SetPCs, Using
    <3> QED
      BY <3>2, <3>3 DEF Progress
  <2>7. ASSUME NEW t \in Tenants, DropBegin(p, t)
        PROVE  Progress'
    <3>1. /\ \A u \in Tenants \ {t} : Same(u)
          /\ \A x \in Threads \ {p} :
               /\ pc'[x] = pc[x] /\ reg'[x].tenant = reg[x].tenant /\ reg'[x].pol = reg[x].pol
               /\ reg[x].clash => reg'[x].clash
               /\ pc[x] \in AdminPCs /\ Tenant(x) = t => reg'[x].clash
      <4>0. Begun(p, t, NoPolicy, "drop_inflight")
        BY <2>7, BeginFacts, PlaceNames DEF DropBegin
      <4> QED
        BY <2>0, <2>7, <4>0, PlaceNames, DropCfFacts
           DEF Begun, DropBegin, Same, Alone, AdminPCs, ProvisionPCs, RegisterPCs, DropPCs,
               DeregisterPCs, SetPCs
    <3>2. ASSUME NEW x \in Threads \ {p} PROVE Progressed(x)'
      BY <3>1, ProgressOfOthers, TenantType
    <3>3. Progressed(p)'
      <4>1. pc[p] = "idle" /\ Begin(p, t, NoPolicy, "drop_inflight") /\ DropCf(t, "pending")
        BY <2>7 DEF DropBegin
      <4>2. pc'[p] = "drop_inflight" /\ reg'[p].tenant = t
        BY <4>1, BeginFacts, PlaceNames DEF Begun
      <4>3. "pending" \notin families'[t]
        BY <4>1, DropCfFacts, PlaceNames
      <4> QED
        BY <4>2, <4>3
           DEF Progressed, Built, ProvisionPCs, RegisterPCs, DropPCs, DeregisterPCs
    <3> QED
      BY <3>2, <3>3 DEF Progress
  <2>8. CASE DropNext(p)
    <3>1. /\ \A u \in Tenants \ {Tenant(p)} : Same(u)
          /\ \A x \in Threads \ {p} :
               /\ pc'[x] = pc[x] /\ reg'[x].tenant = reg[x].tenant /\ reg'[x].pol = reg[x].pol
               /\ reg[x].clash => reg'[x].clash
               /\ pc[x] \in AdminPCs /\ Tenant(x) = Tenant(p) => reg'[x].clash
      <4>0. Subject[pc[p]] \in Families
        BY <2>8, SubjectFacts, PlaceNames DEF DropNext
      <4> QED
        BY <2>0, <2>8, <4>0, AdvanceFacts, AfterFacts, DropCfFacts, SubjectFacts, PlaceNames
         DEF DropNext, Same, Alone, AdminPCs, ProvisionPCs, RegisterPCs, DropPCs,
             DeregisterPCs, SetPCs
    <3>2. ASSUME NEW x \in Threads \ {p} PROVE Progressed(x)'
      BY <3>1, ProgressOfOthers, TenantType
    <3>3. Progressed(p)'
      <4>1. /\ \/ /\ pc[p] = "drop_inflight" /\ pc'[p] = "drop_dlq"
                  /\ families'[Tenant(p)] = families[Tenant(p)] \ {"inflight"}
               \/ /\ pc[p] = "drop_dlq" /\ pc'[p] = "drop_meta"
                  /\ families'[Tenant(p)] = families[Tenant(p)] \ {"dlq"}
            /\ reg' = reg /\ UNCHANGED <<meta, policies, registered>>
        <5>1. CASE pc[p] = "drop_inflight"
          <6>1. pc'[p] = "drop_dlq" /\ reg' = reg
            BY <2>8, <5>1, AdvanceFacts, AfterFacts DEF DropNext
          <6>2. families'[Tenant(p)] = families[Tenant(p)] \ {"inflight"}
            BY <2>0, <2>8, <5>1, DropCfFacts, SubjectFacts, PlaceNames, TenantType
               DEF DropNext
          <6> QED
            BY <2>8, <5>1, <6>1, <6>2 DEF DropNext
        <5>2. CASE pc[p] = "drop_dlq"
          <6>1. pc'[p] = "drop_meta" /\ reg' = reg
            BY <2>8, <5>2, AdvanceFacts, AfterFacts DEF DropNext
          <6>2. families'[Tenant(p)] = families[Tenant(p)] \ {"dlq"}
            BY <2>0, <2>8, <5>2, DropCfFacts, SubjectFacts, PlaceNames, TenantType
               DEF DropNext
          <6> QED
            BY <2>8, <5>2, <6>1, <6>2 DEF DropNext
        <5> QED
          BY <2>8, <5>1, <5>2 DEF DropNext
      <4> QED
        BY <2>0, <4>1
           DEF Progress, Progressed, Built, AdminPCs, ProvisionPCs, RegisterPCs,
               DropPCs, DeregisterPCs, SetPCs, Using
    <3> QED
      BY <3>2, <3>3 DEF Progress
  <2>9. CASE DropMeta(p)
    <3>1. /\ \A u \in Tenants \ {Tenant(p)} : Same(u)
          /\ \A x \in Threads \ {p} :
               /\ pc'[x] = pc[x] /\ reg'[x].tenant = reg[x].tenant /\ reg'[x].pol = reg[x].pol
               /\ reg[x].clash => reg'[x].clash
               /\ pc[x] \in AdminPCs /\ Tenant(x) = Tenant(p) => reg'[x].clash
      BY <2>0, <2>9, AdvanceFacts, AfterFacts
         DEF DropMeta, DeleteMeta, Same, Alone, AdminPCs, ProvisionPCs, RegisterPCs,
             DropPCs, DeregisterPCs, SetPCs
    <3>2. ASSUME NEW x \in Threads \ {p} PROVE Progressed(x)'
      BY <3>1, ProgressOfOthers, TenantType
    <3>3. Progressed(p)'
      <4>1. /\ pc[p] = "drop_meta" /\ pc'[p] = "drop_remove"
            /\ meta'[Tenant(p)] = NoPolicy
            /\ reg' = reg /\ UNCHANGED <<families, policies, registered>>
        BY <2>0, <2>9, AdvanceFacts, AfterFacts, ZenonT(60)
           DEF DropMeta, DeleteMeta, TypeOK
      <4> QED
        BY <2>0, <4>1
           DEF Progress, Progressed, Built, AdminPCs, ProvisionPCs, RegisterPCs,
               DropPCs, DeregisterPCs, SetPCs, Using
    <3> QED
      BY <3>2, <3>3 DEF Progress
  <2>10. CASE DropRemove(p)
    <3>1. /\ \A u \in Tenants \ {Tenant(p)} : Same(u)
          /\ \A x \in Threads \ {p} :
               /\ pc'[x] = pc[x] /\ reg'[x].tenant = reg[x].tenant /\ reg'[x].pol = reg[x].pol
               /\ reg[x].clash => reg'[x].clash
               /\ pc[x] \in AdminPCs /\ Tenant(x) = Tenant(p) => reg'[x].clash
      BY <2>0, <2>10, AdvanceFacts, AfterFacts
         DEF DropRemove, Same, Alone, AdminPCs, ProvisionPCs, RegisterPCs, DropPCs,
             DeregisterPCs, SetPCs
    <3>2. ASSUME NEW x \in Threads \ {p} PROVE Progressed(x)'
      BY <3>1, ProgressOfOthers, TenantType
    <3>3. Progressed(p)'
      <4>1. /\ pc[p] = "drop_remove" /\ pc'[p] = "drop_locks"
            /\ policies'[Tenant(p)] = NoPolicy
            /\ reg' = reg /\ UNCHANGED <<families, meta, registered>>
        BY <2>0, <2>10, AdvanceFacts, AfterFacts, ZenonT(60)
           DEF DropRemove, TypeOK
      <4> QED
        BY <2>0, <4>1
           DEF Progress, Progressed, Built, AdminPCs, ProvisionPCs, RegisterPCs,
               DropPCs, DeregisterPCs, SetPCs, Using
    <3> QED
      BY <3>2, <3>3 DEF Progress
  <2>11. CASE DropLocks(p)
    BY <2>0, <2>11, DropLocksFacts
       DEF AdminPCs, ProvisionPCs, RegisterPCs, DropPCs, DeregisterPCs, SetPCs, Using,
           Progress, Progressed, Built
  <2>12. CASE Deregister(p)
    <3>1. /\ \A u \in Tenants \ {Tenant(p)} : Same(u)
          /\ \A x \in Threads \ {p} :
               /\ pc'[x] = pc[x] /\ reg'[x].tenant = reg[x].tenant /\ reg'[x].pol = reg[x].pol
               /\ reg[x].clash => reg'[x].clash
               /\ pc[x] \in AdminPCs /\ Tenant(x) = Tenant(p) => reg'[x].clash
      BY <2>0, <2>12, AdvanceFacts, AfterFacts, SubjectFacts
         DEF Deregister, Same, Alone, AdminPCs, ProvisionPCs, RegisterPCs, DropPCs,
             DeregisterPCs, SetPCs
    <3>2. ASSUME NEW x \in Threads \ {p} PROVE Progressed(x)'
      BY <3>1, ProgressOfOthers, TenantType
    <3>3. Progressed(p)'
      <4>1. /\ \/ /\ pc[p] = "dereg_scheduler" /\ pc'[p] = "dereg_collector"
                  /\ registered'[Tenant(p)] = registered[Tenant(p)] \ {"scheduler"}
               \/ /\ pc[p] = "dereg_collector" /\ pc'[p] = "dereg_baselines"
                  /\ registered'[Tenant(p)] = registered[Tenant(p)] \ {"collector"}
            /\ reg' = reg /\ UNCHANGED <<families, meta, policies>>
        <5>1. CASE pc[p] = "dereg_scheduler"
          <6>1. pc'[p] = "dereg_collector" /\ reg' = reg
            BY <2>12, <5>1, AdvanceFacts, AfterFacts DEF Deregister
          <6>2. registered'[Tenant(p)] = registered[Tenant(p)] \ {"scheduler"}
            BY <2>0, <2>12, <5>1, SubjectFacts, TenantType
               DEF Deregister, TypeOK
          <6> QED
            BY <2>12, <5>1, <6>1, <6>2 DEF Deregister
        <5>2. CASE pc[p] = "dereg_collector"
          <6>1. pc'[p] = "dereg_baselines" /\ reg' = reg
            BY <2>12, <5>2, AdvanceFacts, AfterFacts DEF Deregister
          <6>2. registered'[Tenant(p)] = registered[Tenant(p)] \ {"collector"}
            BY <2>0, <2>12, <5>2, SubjectFacts, TenantType
               DEF Deregister, TypeOK
          <6> QED
            BY <2>12, <5>2, <6>1, <6>2 DEF Deregister
        <5> QED
          BY <2>12, <5>1, <5>2 DEF Deregister
      <4> QED
        BY <2>0, <4>1
           DEF Progress, Progressed, Built, AdminPCs, ProvisionPCs, RegisterPCs,
               DropPCs, DeregisterPCs, SetPCs, Using
    <3> QED
      BY <3>2, <3>3 DEF Progress
  <2>13. CASE DropDone(p)
    <3>1. /\ \A u \in Tenants \ {Tenant(p)} : Same(u)
          /\ \A x \in Threads \ {p} :
               /\ pc'[x] = pc[x] /\ reg'[x].tenant = reg[x].tenant /\ reg'[x].pol = reg[x].pol
               /\ reg[x].clash => reg'[x].clash
               /\ pc[x] \in AdminPCs /\ Tenant(x) = Tenant(p) => reg'[x].clash
      BY <2>0, <2>13, ReturnFacts
         DEF DropDone, Same, Alone, AdminPCs, ProvisionPCs, RegisterPCs, DropPCs,
             DeregisterPCs, SetPCs
    <3>2. ASSUME NEW x \in Threads \ {p} PROVE Progressed(x)'
      BY <3>1, ProgressOfOthers, TenantType
    <3>3. Progressed(p)'
      BY <2>0, <2>13, ReturnFacts
         DEF DropDone, TypeOK, Progress, Progressed, Built, AdminPCs, ProvisionPCs,
             RegisterPCs, DropPCs, DeregisterPCs, SetPCs, Using
    <3> QED
      BY <3>2, <3>3 DEF Progress
  <2>14. ASSUME NEW t \in Tenants, NEW v \in Versions, SetPolicyBegin(p, t, v)
         PROVE  Progress'
    <3>0. /\ Begun(p, t, v, "set_meta")
          /\ reg' \in [Threads -> Registers] /\ pc' \in [Threads -> PCs]
      BY <2>14, BeginFacts, PlaceNames DEF SetPolicyBegin
    <3> QED
      BY <2>0, <2>14, <3>0, PlaceNames
         DEF Begun, SetPolicyBegin, AdminPCs, ProvisionPCs, RegisterPCs, DropPCs, DeregisterPCs,
             SetPCs, Using, Progress, Progressed, Built
  <2>15. CASE SetPolicyMeta(p)
    <3>1. /\ \A u \in Tenants \ {Tenant(p)} : Same(u)
          /\ \A x \in Threads \ {p} :
               /\ pc'[x] = pc[x] /\ reg'[x].tenant = reg[x].tenant /\ reg'[x].pol = reg[x].pol
               /\ reg[x].clash => reg'[x].clash
               /\ pc[x] \in AdminPCs /\ Tenant(x) = Tenant(p) => reg'[x].clash
      BY <2>0, <2>15, AdvanceFacts, AfterFacts
         DEF SetPolicyMeta, PutMeta, Same, Alone, AdminPCs, ProvisionPCs, RegisterPCs,
             DropPCs, DeregisterPCs, SetPCs
    <3>2. ASSUME NEW x \in Threads \ {p} PROVE Progressed(x)'
      BY <3>1, ProgressOfOthers, TenantType
    <3>3. Progressed(p)'
      <4>1. /\ pc[p] = "set_meta" /\ pc'[p] = "set_insert"
            /\ meta'[Tenant(p)] = reg[p].pol
            /\ reg' = reg /\ UNCHANGED <<families, policies, registered>>
        BY <2>0, <2>15, AdvanceFacts, AfterFacts, ZenonT(60)
           DEF SetPolicyMeta, PutMeta, TypeOK
      <4> QED
        BY <2>0, <4>1
           DEF Progress, Progressed, Built, AdminPCs, ProvisionPCs, RegisterPCs,
               DropPCs, DeregisterPCs, SetPCs, Using
    <3> QED
      BY <3>2, <3>3 DEF Progress
  <2>16. CASE SetPolicyInsert(p)
    <3>1. /\ \A u \in Tenants \ {Tenant(p)} : Same(u)
          /\ \A x \in Threads \ {p} :
               /\ pc'[x] = pc[x] /\ reg'[x].tenant = reg[x].tenant /\ reg'[x].pol = reg[x].pol
               /\ reg[x].clash => reg'[x].clash
               /\ pc[x] \in AdminPCs /\ Tenant(x) = Tenant(p) => reg'[x].clash
      BY <2>0, <2>16, ReturnFacts
         DEF SetPolicyInsert, Same, Alone, AdminPCs, ProvisionPCs, RegisterPCs, DropPCs,
             DeregisterPCs, SetPCs
    <3>2. ASSUME NEW x \in Threads \ {p} PROVE Progressed(x)'
      BY <3>1, ProgressOfOthers, TenantType
    <3>3. Progressed(p)'
      BY <2>0, <2>16, ReturnFacts
         DEF SetPolicyInsert, TypeOK, Progress, Progressed, Built, AdminPCs,
             ProvisionPCs, RegisterPCs, DropPCs, DeregisterPCs, SetPCs, Using
    <3> QED
      BY <3>2, <3>3 DEF Progress
  <2>17. ASSUME NEW t \in Tenants, UseBegin(p, t)
         PROVE  Progress'
    BY <2>0, <2>17, UseBeginFacts
       DEF AdminPCs, ProvisionPCs, RegisterPCs, DropPCs, DeregisterPCs, SetPCs, Using,
           Progress, Progressed, Built
  <2>18. CASE UseLock(p)
    BY <2>0, <2>18, AdvanceFacts, AfterFacts
       DEF UseLock, AdminPCs, ProvisionPCs, RegisterPCs, DropPCs, DeregisterPCs, SetPCs,
           Using, Progress, Progressed, Built
  <2>19. CASE UseHandle(p)
    BY <2>0, <2>19, UseHandleFacts
       DEF UseHandle, AdminPCs, ProvisionPCs, RegisterPCs, DropPCs, DeregisterPCs,
           SetPCs, Using, Progress, Progressed, Built
  <2>20. CASE ProvisionStuck(p) \/ DropStuck(p) \/ UseDone(p) \/ IoError(p) \/ Cancelled(p)
    BY <2>0, <2>20, ReturnFacts
       DEF ProvisionStuck, DropStuck, UseDone, IoError, Cancelled, DbSteps, AdminPCs,
           ProvisionPCs, RegisterPCs, DropPCs, DeregisterPCs, SetPCs, Using, Progress,
           Progressed, Built
  <2> QED
    BY <1>1, <2>1, <2>2, <2>3, <2>4, <2>5, <2>6, <2>7, <2>8, <2>9, <2>10,
       <2>11, <2>12, <2>13, <2>14, <2>15, <2>16, <2>17, <2>18, <2>19, <2>20
       DEF Provision, Drop, SetPolicy, Use
<1>2. CASE Crash
  BY <1>2, NoRegistersType
     DEF Crash, Progress, Progressed, Built, AdminPCs, ProvisionPCs, RegisterPCs,
         DropPCs, DeregisterPCs, SetPCs, Using
<1>3. CASE Open
  BY <1>3, Places
     DEF Open, Listed, Shape, TypeOK, Progress, Progressed, Built, AdminPCs,
         ProvisionPCs, RegisterPCs, DropPCs, DeregisterPCs, SetPCs, Using
<1>4. CASE OpenRefused \/ UNCHANGED vars
  BY <1>4
     DEF OpenRefused, vars, Progress, Progressed, Built
<1> QED
  BY <1>1, <1>2, <1>3, <1>4 DEF Next, Failure

\* A drop that sees neither itself nor its tenant change finds the same gone.
LEMMA TornOfOthers ==
  ASSUME Teardown, NEW x \in Threads,
         pc'[x] = pc[x], reg'[x].tenant = reg[x].tenant, reg'[x].pol = reg[x].pol,
         reg[x].rival => reg'[x].rival,
         pc[x] \in DropPCs /\ ~reg'[x].rival => Same(Tenant(x))
  PROVE  TornDown(x)'
<1>1. CASE pc[x] \in DropPCs
  BY <1>1 DEF Teardown, TornDown, Torn, PastDelete, PastRemove, Same, Tenant
<1>2. CASE pc[x] \notin DropPCs
  BY <1>2 DEF TornDown, Torn, PastDelete, PastRemove, AdminPCs, ProvisionPCs, RegisterPCs, DropPCs,
              DeregisterPCs, SetPCs
<1> QED
  BY <1>1, <1>2

(***************************************************************************)
(* What a drop deleted                                                     *)
(***************************************************************************)
\* A drop without rivals finds what it deleted still gone, or written again by an
\* update.
LEMMA TeardownStep ==
  ASSUME TypeOK, Shape, Rivals, Teardown, [Next]_vars
  PROVE  Teardown'
<1> USE DEF At, Tenant, diskVars, memoryVars, boundVars, historyVars
<1>1. ASSUME NEW p \in Threads,
             Provision(p) \/ Drop(p) \/ SetPolicy(p) \/ Use(p) \/ IoError(p) \/ Cancelled(p)
      PROVE  Teardown'
  <2>0. reg[p] \in Registers /\ reg[p].tenant \in Tenants
    BY DEF TypeOK, Registers
  <2>1. ASSUME NEW t \in Tenants, NEW v \in Versions, ProvisionBegin(p, t, v)
        PROVE  Teardown'
    <3>1. /\ \A u \in Tenants \ {t} : Same(u)
          /\ \A x \in Threads \ {p} :
               /\ pc'[x] = pc[x] /\ reg'[x].tenant = reg[x].tenant /\ reg'[x].pol = reg[x].pol
               /\ reg[x].rival => reg'[x].rival
               /\ pc[x] \in DropPCs /\ Tenant(x) = t => reg'[x].rival
      <4>0. Begun(p, t, v, "prov_inflight")
        BY <2>1, BeginFacts, PlaceNames DEF ProvisionBegin
      <4> QED
        BY <2>0, <2>1, <4>0, PlaceNames, CreateFacts
           DEF Begun, ProvisionBegin, Same, Rivals, WholePCs, AdminPCs, ProvisionPCs,
               RegisterPCs, DropPCs,
               DeregisterPCs, SetPCs
    <3>2. ASSUME NEW x \in Threads \ {p} PROVE TornDown(x)'
      BY <3>1, TornOfOthers, TenantType
    <3>3. TornDown(p)'
      <4>1. pc[p] = "idle" /\ Begin(p, t, v, "prov_inflight") /\ Create(t, "pending")
        BY <2>1 DEF ProvisionBegin
      <4>2. pc'[p] = "prov_inflight" /\ reg'[p].tenant = t
        BY <4>1, BeginFacts, PlaceNames DEF Begun
      <4>3. "pending" \in families'[t]
        BY <4>1, CreateFacts, PlaceNames
      <4> QED
        BY <4>2, <4>3
           DEF TornDown, Torn, PastDelete, PastRemove, ProvisionPCs, RegisterPCs, DropPCs,
               DeregisterPCs
    <3> QED
      BY <3>2, <3>3 DEF Teardown
  <2>2. CASE ProvisionCreate(p)
    <3>1. /\ \A u \in Tenants \ {Tenant(p)} : Same(u)
          /\ \A x \in Threads \ {p} :
               /\ pc'[x] = pc[x] /\ reg'[x].tenant = reg[x].tenant /\ reg'[x].pol = reg[x].pol
               /\ reg[x].rival => reg'[x].rival
               /\ pc[x] \in DropPCs /\ Tenant(x) = Tenant(p) => reg'[x].rival
      <4>0. Subject[pc[p]] \in Families
        BY <2>2, SubjectFacts, PlaceNames DEF ProvisionCreate
      <4> QED
        BY <2>0, <2>2, <4>0, AdvanceFacts, AfterFacts, CreateFacts, SubjectFacts, PlaceNames
         DEF ProvisionCreate, Same, Rivals, WholePCs, AdminPCs, ProvisionPCs, RegisterPCs,
             DropPCs,
             DeregisterPCs, SetPCs
    <3>2. ASSUME NEW x \in Threads \ {p} PROVE TornDown(x)'
      BY <3>1, TornOfOthers, TenantType
    <3>3. TornDown(p)'
      <4>1. /\ \/ /\ pc[p] = "prov_inflight" /\ pc'[p] = "prov_dlq"
                  /\ families'[Tenant(p)] = families[Tenant(p)] \cup {"inflight"}
               \/ /\ pc[p] = "prov_dlq" /\ pc'[p] = "prov_meta"
                  /\ families'[Tenant(p)] = families[Tenant(p)] \cup {"dlq"}
            /\ reg' = reg /\ UNCHANGED <<meta, policies, registered>>
        <5>1. CASE pc[p] = "prov_inflight"
          <6>1. pc'[p] = "prov_dlq" /\ reg' = reg
            BY <2>2, <5>1, AdvanceFacts, AfterFacts DEF ProvisionCreate
          <6>2. families'[Tenant(p)] = families[Tenant(p)] \cup {"inflight"}
            BY <2>0, <2>2, <5>1, CreateFacts, SubjectFacts, PlaceNames, TenantType
               DEF ProvisionCreate
          <6> QED
            BY <2>2, <5>1, <6>1, <6>2 DEF ProvisionCreate
        <5>2. CASE pc[p] = "prov_dlq"
          <6>1. pc'[p] = "prov_meta" /\ reg' = reg
            BY <2>2, <5>2, AdvanceFacts, AfterFacts DEF ProvisionCreate
          <6>2. families'[Tenant(p)] = families[Tenant(p)] \cup {"dlq"}
            BY <2>0, <2>2, <5>2, CreateFacts, SubjectFacts, PlaceNames, TenantType
               DEF ProvisionCreate
          <6> QED
            BY <2>2, <5>2, <6>1, <6>2 DEF ProvisionCreate
        <5> QED
          BY <2>2, <5>1, <5>2 DEF ProvisionCreate
      <4> QED
        BY <2>0, <4>1
           DEF Teardown, TornDown, Torn, PastDelete, PastRemove, AdminPCs, ProvisionPCs,
               RegisterPCs,
               DropPCs, DeregisterPCs, SetPCs, Using
    <3> QED
      BY <3>2, <3>3 DEF Teardown
  <2>3. CASE ProvisionMeta(p)
    <3>1. /\ \A u \in Tenants \ {Tenant(p)} : Same(u)
          /\ \A x \in Threads \ {p} :
               /\ pc'[x] = pc[x] /\ reg'[x].tenant = reg[x].tenant /\ reg'[x].pol = reg[x].pol
               /\ reg[x].rival => reg'[x].rival
               /\ pc[x] \in DropPCs /\ Tenant(x) = Tenant(p) => reg'[x].rival
      BY <2>0, <2>3, AdvanceFacts, AfterFacts
         DEF ProvisionMeta, PutMeta, Same, Rivals, WholePCs, AdminPCs, ProvisionPCs,
             RegisterPCs,
             DropPCs, DeregisterPCs, SetPCs
    <3>2. ASSUME NEW x \in Threads \ {p} PROVE TornDown(x)'
      BY <3>1, TornOfOthers, TenantType
    <3>3. TornDown(p)'
      <4>1. /\ pc[p] = "prov_meta" /\ pc'[p] = "prov_insert"
            /\ meta'[Tenant(p)] = reg[p].pol
            /\ reg' = reg /\ UNCHANGED <<families, policies, registered>>
        BY <2>0, <2>3, AdvanceFacts, AfterFacts, ZenonT(60)
           DEF ProvisionMeta, PutMeta, TypeOK
      <4> QED
        BY <2>0, <4>1
           DEF Teardown, TornDown, Torn, PastDelete, PastRemove, AdminPCs, ProvisionPCs,
               RegisterPCs,
               DropPCs, DeregisterPCs, SetPCs, Using
    <3> QED
      BY <3>2, <3>3 DEF Teardown
  <2>4. CASE ProvisionInsert(p)
    <3>1. /\ \A u \in Tenants \ {Tenant(p)} : Same(u)
          /\ \A x \in Threads \ {p} :
               /\ pc'[x] = pc[x] /\ reg'[x].tenant = reg[x].tenant /\ reg'[x].pol = reg[x].pol
               /\ reg[x].rival => reg'[x].rival
               /\ pc[x] \in DropPCs /\ Tenant(x) = Tenant(p) => reg'[x].rival
      BY <2>0, <2>4, AdvanceFacts, AfterFacts
         DEF ProvisionInsert, Same, Rivals, WholePCs, AdminPCs, ProvisionPCs, RegisterPCs,
             DropPCs,
             DeregisterPCs, SetPCs
    <3>2. ASSUME NEW x \in Threads \ {p} PROVE TornDown(x)'
      BY <3>1, TornOfOthers, TenantType
    <3>3. TornDown(p)'
      <4>1. /\ pc[p] = "prov_insert" /\ pc'[p] = "reg_scheduler"
            /\ policies'[Tenant(p)] = reg[p].pol
            /\ reg' = reg /\ UNCHANGED <<families, meta, registered, revived>>
        BY <2>0, <2>4, AdvanceFacts, AfterFacts, ZenonT(60)
           DEF ProvisionInsert, TypeOK
      <4> QED
        BY <2>0, <4>1
           DEF Teardown, TornDown, Torn, PastDelete, PastRemove, AdminPCs, ProvisionPCs,
               RegisterPCs,
               DropPCs, DeregisterPCs, SetPCs, Using
    <3> QED
      BY <3>2, <3>3 DEF Teardown
  <2>5. CASE Register(p)
    <3>1. /\ \A u \in Tenants \ {Tenant(p)} : Same(u)
          /\ \A x \in Threads \ {p} :
               /\ pc'[x] = pc[x] /\ reg'[x].tenant = reg[x].tenant /\ reg'[x].pol = reg[x].pol
               /\ reg[x].rival => reg'[x].rival
               /\ pc[x] \in DropPCs /\ Tenant(x) = Tenant(p) => reg'[x].rival
      BY <2>0, <2>5, AdvanceFacts, AfterFacts, SubjectFacts
         DEF Register, Same, Rivals, WholePCs, AdminPCs, ProvisionPCs, RegisterPCs, DropPCs,
             DeregisterPCs, SetPCs
    <3>2. ASSUME NEW x \in Threads \ {p} PROVE TornDown(x)'
      BY <3>1, TornOfOthers, TenantType
    <3>3. TornDown(p)'
      <4>1. /\ \/ /\ pc[p] = "reg_scheduler" /\ pc'[p] = "reg_collector"
                  /\ registered'[Tenant(p)] = registered[Tenant(p)] \cup {"scheduler"}
               \/ /\ pc[p] = "reg_collector" /\ pc'[p] = "reg_baselines"
                  /\ registered'[Tenant(p)] = registered[Tenant(p)] \cup {"collector"}
            /\ reg' = reg /\ UNCHANGED <<families, meta, policies, revived>>
        <5>1. CASE pc[p] = "reg_scheduler"
          <6>1. pc'[p] = "reg_collector" /\ reg' = reg
            BY <2>5, <5>1, AdvanceFacts, AfterFacts DEF Register
          <6>2. registered'[Tenant(p)] = registered[Tenant(p)] \cup {"scheduler"}
            BY <2>0, <2>5, <5>1, SubjectFacts, TenantType
               DEF Register, TypeOK
          <6> QED
            BY <2>5, <5>1, <6>1, <6>2 DEF Register
        <5>2. CASE pc[p] = "reg_collector"
          <6>1. pc'[p] = "reg_baselines" /\ reg' = reg
            BY <2>5, <5>2, AdvanceFacts, AfterFacts DEF Register
          <6>2. registered'[Tenant(p)] = registered[Tenant(p)] \cup {"collector"}
            BY <2>0, <2>5, <5>2, SubjectFacts, TenantType
               DEF Register, TypeOK
          <6> QED
            BY <2>5, <5>2, <6>1, <6>2 DEF Register
        <5> QED
          BY <2>5, <5>1, <5>2 DEF Register
      <4> QED
        BY <2>0, <4>1
           DEF Teardown, TornDown, Torn, PastDelete, PastRemove, AdminPCs, ProvisionPCs,
               RegisterPCs,
               DropPCs, DeregisterPCs, SetPCs, Using
    <3> QED
      BY <3>2, <3>3 DEF Teardown
  <2>6. CASE ProvisionDone(p)
    <3>1. /\ \A u \in Tenants \ {Tenant(p)} : Same(u)
          /\ \A x \in Threads \ {p} :
               /\ pc'[x] = pc[x] /\ reg'[x].tenant = reg[x].tenant /\ reg'[x].pol = reg[x].pol
               /\ reg[x].rival => reg'[x].rival
               /\ pc[x] \in DropPCs /\ Tenant(x) = Tenant(p) => reg'[x].rival
      BY <2>0, <2>6, ReturnFacts
         DEF ProvisionDone, Same, Rivals, WholePCs, AdminPCs, ProvisionPCs, RegisterPCs,
             DropPCs,
             DeregisterPCs, SetPCs
    <3>2. ASSUME NEW x \in Threads \ {p} PROVE TornDown(x)'
      BY <3>1, TornOfOthers, TenantType
    <3>3. TornDown(p)'
      BY <2>0, <2>6, ReturnFacts
         DEF ProvisionDone, TypeOK, Teardown, TornDown, Torn, PastDelete, PastRemove, AdminPCs,
             ProvisionPCs, RegisterPCs, DropPCs, DeregisterPCs, SetPCs, Using
    <3> QED
      BY <3>2, <3>3 DEF Teardown
  <2>7. ASSUME NEW t \in Tenants, DropBegin(p, t)
        PROVE  Teardown'
    <3>1. /\ \A u \in Tenants \ {t} : Same(u)
          /\ \A x \in Threads \ {p} :
               /\ pc'[x] = pc[x] /\ reg'[x].tenant = reg[x].tenant /\ reg'[x].pol = reg[x].pol
               /\ reg[x].rival => reg'[x].rival
               /\ pc[x] \in DropPCs /\ Tenant(x) = t => reg'[x].rival
      <4>0. Begun(p, t, NoPolicy, "drop_inflight")
        BY <2>7, BeginFacts, PlaceNames DEF DropBegin
      <4> QED
        BY <2>0, <2>7, <4>0, PlaceNames, DropCfFacts
           DEF Begun, DropBegin, Same, Rivals, WholePCs, AdminPCs, ProvisionPCs,
               RegisterPCs, DropPCs,
               DeregisterPCs, SetPCs
    <3>2. ASSUME NEW x \in Threads \ {p} PROVE TornDown(x)'
      BY <3>1, TornOfOthers, TenantType
    <3>3. TornDown(p)'
      <4>1. pc[p] = "idle" /\ Begin(p, t, NoPolicy, "drop_inflight") /\ DropCf(t, "pending")
        BY <2>7 DEF DropBegin
      <4>2. pc'[p] = "drop_inflight" /\ reg'[p].tenant = t
        BY <4>1, BeginFacts, PlaceNames DEF Begun
      <4>3. "pending" \notin families'[t]
        BY <4>1, DropCfFacts, PlaceNames
      <4> QED
        BY <4>2, <4>3
           DEF TornDown, Torn, PastDelete, PastRemove, ProvisionPCs, RegisterPCs, DropPCs,
               DeregisterPCs
    <3> QED
      BY <3>2, <3>3 DEF Teardown
  <2>8. CASE DropNext(p)
    <3>1. /\ \A u \in Tenants \ {Tenant(p)} : Same(u)
          /\ \A x \in Threads \ {p} :
               /\ pc'[x] = pc[x] /\ reg'[x].tenant = reg[x].tenant /\ reg'[x].pol = reg[x].pol
               /\ reg[x].rival => reg'[x].rival
               /\ pc[x] \in DropPCs /\ Tenant(x) = Tenant(p) => reg'[x].rival
      <4>0. Subject[pc[p]] \in Families
        BY <2>8, SubjectFacts, PlaceNames DEF DropNext
      <4> QED
        BY <2>0, <2>8, <4>0, AdvanceFacts, AfterFacts, DropCfFacts, SubjectFacts, PlaceNames
         DEF DropNext, Same, Rivals, WholePCs, AdminPCs, ProvisionPCs, RegisterPCs, DropPCs,
             DeregisterPCs, SetPCs
    <3>2. ASSUME NEW x \in Threads \ {p} PROVE TornDown(x)'
      BY <3>1, TornOfOthers, TenantType
    <3>3. TornDown(p)'
      <4>1. /\ \/ /\ pc[p] = "drop_inflight" /\ pc'[p] = "drop_dlq"
                  /\ families'[Tenant(p)] = families[Tenant(p)] \ {"inflight"}
               \/ /\ pc[p] = "drop_dlq" /\ pc'[p] = "drop_meta"
                  /\ families'[Tenant(p)] = families[Tenant(p)] \ {"dlq"}
            /\ reg' = reg /\ UNCHANGED <<meta, policies, registered>>
        <5>1. CASE pc[p] = "drop_inflight"
          <6>1. pc'[p] = "drop_dlq" /\ reg' = reg
            BY <2>8, <5>1, AdvanceFacts, AfterFacts DEF DropNext
          <6>2. families'[Tenant(p)] = families[Tenant(p)] \ {"inflight"}
            BY <2>0, <2>8, <5>1, DropCfFacts, SubjectFacts, PlaceNames, TenantType
               DEF DropNext
          <6> QED
            BY <2>8, <5>1, <6>1, <6>2 DEF DropNext
        <5>2. CASE pc[p] = "drop_dlq"
          <6>1. pc'[p] = "drop_meta" /\ reg' = reg
            BY <2>8, <5>2, AdvanceFacts, AfterFacts DEF DropNext
          <6>2. families'[Tenant(p)] = families[Tenant(p)] \ {"dlq"}
            BY <2>0, <2>8, <5>2, DropCfFacts, SubjectFacts, PlaceNames, TenantType
               DEF DropNext
          <6> QED
            BY <2>8, <5>2, <6>1, <6>2 DEF DropNext
        <5> QED
          BY <2>8, <5>1, <5>2 DEF DropNext
      <4> QED
        BY <2>0, <4>1
           DEF Teardown, TornDown, Torn, PastDelete, PastRemove, AdminPCs, ProvisionPCs,
               RegisterPCs,
               DropPCs, DeregisterPCs, SetPCs, Using
    <3> QED
      BY <3>2, <3>3 DEF Teardown
  <2>9. CASE DropMeta(p)
    <3>1. /\ \A u \in Tenants \ {Tenant(p)} : Same(u)
          /\ \A x \in Threads \ {p} :
               /\ pc'[x] = pc[x] /\ reg'[x].tenant = reg[x].tenant /\ reg'[x].pol = reg[x].pol
               /\ reg[x].rival => reg'[x].rival
               /\ pc[x] \in DropPCs /\ Tenant(x) = Tenant(p) => reg'[x].rival
      BY <2>0, <2>9, AdvanceFacts, AfterFacts
         DEF DropMeta, DeleteMeta, Same, Rivals, WholePCs, AdminPCs, ProvisionPCs, RegisterPCs,
             DropPCs, DeregisterPCs, SetPCs
    <3>2. ASSUME NEW x \in Threads \ {p} PROVE TornDown(x)'
      BY <3>1, TornOfOthers, TenantType
    <3>3. TornDown(p)'
      <4>1. /\ pc[p] = "drop_meta" /\ pc'[p] = "drop_remove"
            /\ meta'[Tenant(p)] = NoPolicy
            /\ reg' = reg /\ UNCHANGED <<families, policies, registered>>
        BY <2>0, <2>9, AdvanceFacts, AfterFacts, ZenonT(60)
           DEF DropMeta, DeleteMeta, TypeOK
      <4> QED
        BY <2>0, <4>1
           DEF Teardown, TornDown, Torn, PastDelete, PastRemove, AdminPCs, ProvisionPCs,
               RegisterPCs,
               DropPCs, DeregisterPCs, SetPCs, Using
    <3> QED
      BY <3>2, <3>3 DEF Teardown
  <2>10. CASE DropRemove(p)
    <3>1. /\ \A u \in Tenants \ {Tenant(p)} : Same(u)
          /\ \A x \in Threads \ {p} :
               /\ pc'[x] = pc[x] /\ reg'[x].tenant = reg[x].tenant /\ reg'[x].pol = reg[x].pol
               /\ reg[x].rival => reg'[x].rival
               /\ pc[x] \in DropPCs /\ Tenant(x) = Tenant(p) => reg'[x].rival
      BY <2>0, <2>10, AdvanceFacts, AfterFacts
         DEF DropRemove, Same, Rivals, WholePCs, AdminPCs, ProvisionPCs, RegisterPCs, DropPCs,
             DeregisterPCs, SetPCs
    <3>2. ASSUME NEW x \in Threads \ {p} PROVE TornDown(x)'
      BY <3>1, TornOfOthers, TenantType
    <3>3. TornDown(p)'
      <4>1. /\ pc[p] = "drop_remove" /\ pc'[p] = "drop_locks"
            /\ policies'[Tenant(p)] = NoPolicy
            /\ reg' = reg /\ UNCHANGED <<families, meta, registered, revived>>
        BY <2>0, <2>10, AdvanceFacts, AfterFacts, ZenonT(60)
           DEF DropRemove, TypeOK
      <4> QED
        BY <2>0, <4>1
           DEF Teardown, TornDown, Torn, PastDelete, PastRemove, AdminPCs, ProvisionPCs,
               RegisterPCs,
               DropPCs, DeregisterPCs, SetPCs, Using
    <3> QED
      BY <3>2, <3>3 DEF Teardown
  <2>11. CASE DropLocks(p)
    BY <2>0, <2>11, DropLocksFacts
       DEF AdminPCs, ProvisionPCs, RegisterPCs, DropPCs, DeregisterPCs, SetPCs, Using,
           Teardown, TornDown, Torn, PastDelete, PastRemove
  <2>12. CASE Deregister(p)
    <3>1. /\ \A u \in Tenants \ {Tenant(p)} : Same(u)
          /\ \A x \in Threads \ {p} :
               /\ pc'[x] = pc[x] /\ reg'[x].tenant = reg[x].tenant /\ reg'[x].pol = reg[x].pol
               /\ reg[x].rival => reg'[x].rival
               /\ pc[x] \in DropPCs /\ Tenant(x) = Tenant(p) => reg'[x].rival
      BY <2>0, <2>12, AdvanceFacts, AfterFacts, SubjectFacts
         DEF Deregister, Same, Rivals, WholePCs, AdminPCs, ProvisionPCs, RegisterPCs, DropPCs,
             DeregisterPCs, SetPCs
    <3>2. ASSUME NEW x \in Threads \ {p} PROVE TornDown(x)'
      BY <3>1, TornOfOthers, TenantType
    <3>3. TornDown(p)'
      <4>1. /\ \/ /\ pc[p] = "dereg_scheduler" /\ pc'[p] = "dereg_collector"
                  /\ registered'[Tenant(p)] = registered[Tenant(p)] \ {"scheduler"}
               \/ /\ pc[p] = "dereg_collector" /\ pc'[p] = "dereg_baselines"
                  /\ registered'[Tenant(p)] = registered[Tenant(p)] \ {"collector"}
            /\ reg' = reg /\ UNCHANGED <<families, meta, policies, revived>>
        <5>1. CASE pc[p] = "dereg_scheduler"
          <6>1. pc'[p] = "dereg_collector" /\ reg' = reg
            BY <2>12, <5>1, AdvanceFacts, AfterFacts DEF Deregister
          <6>2. registered'[Tenant(p)] = registered[Tenant(p)] \ {"scheduler"}
            BY <2>0, <2>12, <5>1, SubjectFacts, TenantType
               DEF Deregister, TypeOK
          <6> QED
            BY <2>12, <5>1, <6>1, <6>2 DEF Deregister
        <5>2. CASE pc[p] = "dereg_collector"
          <6>1. pc'[p] = "dereg_baselines" /\ reg' = reg
            BY <2>12, <5>2, AdvanceFacts, AfterFacts DEF Deregister
          <6>2. registered'[Tenant(p)] = registered[Tenant(p)] \ {"collector"}
            BY <2>0, <2>12, <5>2, SubjectFacts, TenantType
               DEF Deregister, TypeOK
          <6> QED
            BY <2>12, <5>2, <6>1, <6>2 DEF Deregister
        <5> QED
          BY <2>12, <5>1, <5>2 DEF Deregister
      <4> QED
        BY <2>0, <4>1
           DEF Teardown, TornDown, Torn, PastDelete, PastRemove, AdminPCs, ProvisionPCs,
               RegisterPCs,
               DropPCs, DeregisterPCs, SetPCs, Using
    <3> QED
      BY <3>2, <3>3 DEF Teardown
  <2>13. CASE DropDone(p)
    <3>1. /\ \A u \in Tenants \ {Tenant(p)} : Same(u)
          /\ \A x \in Threads \ {p} :
               /\ pc'[x] = pc[x] /\ reg'[x].tenant = reg[x].tenant /\ reg'[x].pol = reg[x].pol
               /\ reg[x].rival => reg'[x].rival
               /\ pc[x] \in DropPCs /\ Tenant(x) = Tenant(p) => reg'[x].rival
      BY <2>0, <2>13, ReturnFacts
         DEF DropDone, Same, Rivals, WholePCs, AdminPCs, ProvisionPCs, RegisterPCs, DropPCs,
             DeregisterPCs, SetPCs
    <3>2. ASSUME NEW x \in Threads \ {p} PROVE TornDown(x)'
      BY <3>1, TornOfOthers, TenantType
    <3>3. TornDown(p)'
      BY <2>0, <2>13, ReturnFacts
         DEF DropDone, TypeOK, Teardown, TornDown, Torn, PastDelete, PastRemove, AdminPCs,
             ProvisionPCs,
             RegisterPCs, DropPCs, DeregisterPCs, SetPCs, Using
    <3> QED
      BY <3>2, <3>3 DEF Teardown
  <2>14. ASSUME NEW t \in Tenants, NEW v \in Versions, SetPolicyBegin(p, t, v)
         PROVE  Teardown'
    <3>0. /\ Begun(p, t, v, "set_meta")
          /\ reg' \in [Threads -> Registers] /\ pc' \in [Threads -> PCs]
      BY <2>14, BeginFacts, PlaceNames DEF SetPolicyBegin
    <3> QED
      BY <2>0, <2>14, <3>0, PlaceNames
         DEF Begun, SetPolicyBegin, AdminPCs, ProvisionPCs, RegisterPCs, DropPCs, DeregisterPCs,
             SetPCs, Using, Teardown, TornDown, Torn, PastDelete, PastRemove
  <2>15. CASE SetPolicyMeta(p)
    <3> DEFINE u == Tenant(p)
    <3>1. /\ reg' = reg /\ UNCHANGED <<families, policies, registered>> /\ pc[p] = "set_meta"
          /\ pc'[p] = "set_insert" /\ \A x \in Threads \ {p} : pc'[x] = pc[x]
          /\ revived \subseteq revived'
          /\ \A w \in Tenants \ {u} : meta'[w] = meta[w]
      <4>1. \A w \in Tenants \ {u} : meta'[w] = meta[w]
        BY <2>15 DEF SetPolicyMeta, PutMeta, TypeOK
      <4>2. revived \subseteq revived'
        BY <2>15 DEF SetPolicyMeta
      <4> QED
        BY <2>15, <4>1, <4>2, AdvanceFacts, AfterFacts DEF SetPolicyMeta
    <3>2. ASSUME NEW x \in Threads, pc[x] \in PastDelete, reg[x].tenant = u PROVE u \in revived'
      BY <2>15, <3>2 DEF SetPolicyMeta, DroppedBehind
    <3>3. ASSUME NEW x \in Threads \ {p} PROVE TornDown(x)'
      <4>1. reg[x].tenant \in Tenants
        BY DEF TypeOK, Registers
      <4>2. TornDown(x)
        BY DEF Teardown
      <4> QED
        BY <3>1, <3>2, <4>1, <4>2 DEF TornDown, Torn
    <3>4. TornDown(p)'
      BY <3>1 DEF TornDown, Torn, PastDelete, PastRemove, DropPCs, DeregisterPCs
    <3> QED
      BY <3>3, <3>4 DEF Teardown
  <2>16. CASE SetPolicyInsert(p)
    <3> DEFINE u == Tenant(p)
    <3>1. /\ UNCHANGED <<families, meta, registered>> /\ pc'[p] = "idle"
          /\ \A x \in Threads \ {p} : pc'[x] = pc[x] /\ reg'[x] = reg[x]
          /\ revived \subseteq revived'
          /\ \A w \in Tenants \ {u} : policies'[w] = policies[w]
      BY <2>0, <2>16, ReturnFacts DEF SetPolicyInsert, TypeOK
    <3>2. ASSUME NEW x \in Threads, pc[x] \in PastRemove, reg[x].tenant = u PROVE u \in revived'
      BY <2>16, <3>2 DEF SetPolicyInsert, DroppedBehind
    <3>3. ASSUME NEW x \in Threads \ {p} PROVE TornDown(x)'
      <4>1. reg[x].tenant \in Tenants
        BY DEF TypeOK, Registers
      <4>2. TornDown(x)
        BY DEF Teardown
      <4> QED
        BY <3>1, <3>2, <4>1, <4>2 DEF TornDown, Torn
    <3>4. TornDown(p)'
      BY <3>1 DEF TornDown, Torn, PastDelete, PastRemove, DropPCs, DeregisterPCs
    <3> QED
      BY <3>3, <3>4 DEF Teardown
  <2>17. ASSUME NEW t \in Tenants, UseBegin(p, t)
         PROVE  Teardown'
    BY <2>0, <2>17, UseBeginFacts
       DEF AdminPCs, ProvisionPCs, RegisterPCs, DropPCs, DeregisterPCs, SetPCs, Using,
           Teardown, TornDown, Torn, PastDelete, PastRemove
  <2>18. CASE UseLock(p)
    BY <2>0, <2>18, AdvanceFacts, AfterFacts
       DEF UseLock, AdminPCs, ProvisionPCs, RegisterPCs, DropPCs, DeregisterPCs, SetPCs,
           Using, Teardown, TornDown, Torn, PastDelete, PastRemove
  <2>19. CASE UseHandle(p)
    BY <2>0, <2>19, UseHandleFacts
       DEF UseHandle, AdminPCs, ProvisionPCs, RegisterPCs, DropPCs, DeregisterPCs,
           SetPCs, Using, Teardown, TornDown, Torn, PastDelete, PastRemove
  <2>20. CASE ProvisionStuck(p) \/ DropStuck(p) \/ UseDone(p) \/ IoError(p) \/ Cancelled(p)
    BY <2>0, <2>20, ReturnFacts
       DEF ProvisionStuck, DropStuck, UseDone, IoError, Cancelled, DbSteps, AdminPCs,
           ProvisionPCs, RegisterPCs, DropPCs, DeregisterPCs, SetPCs, Using, Teardown,
           TornDown, Torn, PastDelete, PastRemove
  <2> QED
    BY <1>1, <2>1, <2>2, <2>3, <2>4, <2>5, <2>6, <2>7, <2>8, <2>9, <2>10,
       <2>11, <2>12, <2>13, <2>14, <2>15, <2>16, <2>17, <2>18, <2>19, <2>20
       DEF Provision, Drop, SetPolicy, Use
<1>2. CASE Crash
  BY <1>2, NoRegistersType
     DEF Crash, Teardown, TornDown, Torn, PastDelete, PastRemove, AdminPCs, ProvisionPCs,
         RegisterPCs,
         DropPCs, DeregisterPCs, SetPCs, Using
<1>3. CASE Open
  BY <1>3, Places
     DEF Open, Listed, Shape, TypeOK, Teardown, TornDown, Torn, PastDelete, PastRemove,
         AdminPCs,
         ProvisionPCs, RegisterPCs, DropPCs, DeregisterPCs, SetPCs, Using
<1>4. CASE OpenRefused \/ UNCHANGED vars
  BY <1>4
     DEF OpenRefused, vars, Teardown, TornDown, Torn, PastDelete, PastRemove
<1> QED
  BY <1>1, <1>2, <1>3, <1>4 DEF Next, Failure

(***************************************************************************)
(* The queue lock                                                          *)
(***************************************************************************)
\* Whoever waits for or holds a lock object has the one in the map, or it was taken out.
LEMMA QueueLocksStep ==
  ASSUME TypeOK, Shape, QueueLocks, [Next]_vars
  PROVE  QueueLocks'
<1> USE DEF QueueLocks, At, Tenant, diskVars, memoryVars, boundVars, historyVars
<1>1. ASSUME NEW p \in Threads,
             Provision(p) \/ Drop(p) \/ SetPolicy(p) \/ Use(p) \/ IoError(p) \/ Cancelled(p)
      PROVE  QueueLocks'
  <2>0. reg[p] \in Registers /\ reg[p].tenant \in Tenants
    BY DEF TypeOK, Registers
  <2>1. ASSUME NEW t \in Tenants, NEW v \in Versions, ProvisionBegin(p, t, v)
        PROVE  QueueLocks'
    <3>0. /\ Begun(p, t, v, "prov_inflight")
          /\ reg' \in [Threads -> Registers] /\ pc' \in [Threads -> PCs]
      BY <2>1, BeginFacts, PlaceNames DEF ProvisionBegin
    <3> QED
      BY <2>0, <2>1, <3>0, PlaceNames, SMTT(60)
         DEF Begun, ProvisionBegin, AdminPCs, ProvisionPCs, RegisterPCs, DropPCs, DeregisterPCs,
             SetPCs, Using, HoldPCs
  <2>2. CASE ProvisionCreate(p)
    BY <2>0, <2>2, AdvanceFacts, AfterFacts
       DEF ProvisionCreate, AdminPCs, ProvisionPCs, RegisterPCs, DropPCs, DeregisterPCs,
           SetPCs, Using, HoldPCs
  <2>3. CASE ProvisionMeta(p)
    BY <2>0, <2>3, AdvanceFacts, AfterFacts
       DEF ProvisionMeta, PutMeta, AdminPCs, ProvisionPCs, RegisterPCs, DropPCs,
           DeregisterPCs, SetPCs, Using, HoldPCs
  <2>4. CASE ProvisionInsert(p)
    BY <2>0, <2>4, AdvanceFacts, AfterFacts
       DEF ProvisionInsert, AdminPCs, ProvisionPCs, RegisterPCs, DropPCs, DeregisterPCs,
           SetPCs, Using, HoldPCs
  <2>5. CASE Register(p)
    BY <2>0, <2>5, AdvanceFacts, AfterFacts
       DEF Register, AdminPCs, ProvisionPCs, RegisterPCs, DropPCs, DeregisterPCs, SetPCs,
           Using, HoldPCs
  <2>6. CASE ProvisionDone(p)
    BY <2>0, <2>6, ReturnFacts
       DEF ProvisionDone, AdminPCs, ProvisionPCs, RegisterPCs, DropPCs, DeregisterPCs,
           SetPCs, Using, HoldPCs
  <2>7. ASSUME NEW t \in Tenants, DropBegin(p, t)
        PROVE  QueueLocks'
    <3>0. /\ Begun(p, t, NoPolicy, "drop_inflight")
          /\ reg' \in [Threads -> Registers] /\ pc' \in [Threads -> PCs]
      BY <2>7, BeginFacts, PlaceNames DEF DropBegin
    <3> QED
      BY <2>0, <2>7, <3>0, PlaceNames, SMTT(60)
         DEF Begun, DropBegin, AdminPCs, ProvisionPCs, RegisterPCs, DropPCs, DeregisterPCs,
             SetPCs, Using, HoldPCs
  <2>8. CASE DropNext(p)
    BY <2>0, <2>8, AdvanceFacts, AfterFacts
       DEF DropNext, AdminPCs, ProvisionPCs, RegisterPCs, DropPCs, DeregisterPCs, SetPCs,
           Using, HoldPCs
  <2>9. CASE DropMeta(p)
    BY <2>0, <2>9, AdvanceFacts, AfterFacts
       DEF DropMeta, DeleteMeta, AdminPCs, ProvisionPCs, RegisterPCs, DropPCs,
           DeregisterPCs, SetPCs, Using, HoldPCs
  <2>10. CASE DropRemove(p)
    BY <2>0, <2>10, AdvanceFacts, AfterFacts
       DEF DropRemove, AdminPCs, ProvisionPCs, RegisterPCs, DropPCs, DeregisterPCs,
           SetPCs, Using, HoldPCs
  <2>11. CASE DropLocks(p)
    BY <2>0, <2>11, DropLocksFacts, TenantType
       DEF AdminPCs, ProvisionPCs, RegisterPCs, DropPCs, DeregisterPCs, SetPCs, Using,
           HoldPCs
  <2>12. CASE Deregister(p)
    BY <2>0, <2>12, AdvanceFacts, AfterFacts
       DEF Deregister, AdminPCs, ProvisionPCs, RegisterPCs, DropPCs, DeregisterPCs,
           SetPCs, Using, HoldPCs
  <2>13. CASE DropDone(p)
    BY <2>0, <2>13, ReturnFacts
       DEF DropDone, AdminPCs, ProvisionPCs, RegisterPCs, DropPCs, DeregisterPCs, SetPCs,
           Using, HoldPCs
  <2>14. ASSUME NEW t \in Tenants, NEW v \in Versions, SetPolicyBegin(p, t, v)
         PROVE  QueueLocks'
    <3>0. /\ Begun(p, t, v, "set_meta")
          /\ reg' \in [Threads -> Registers] /\ pc' \in [Threads -> PCs]
      BY <2>14, BeginFacts, PlaceNames DEF SetPolicyBegin
    <3> QED
      BY <2>0, <2>14, <3>0, PlaceNames, SMTT(60)
         DEF Begun, SetPolicyBegin, AdminPCs, ProvisionPCs, RegisterPCs, DropPCs, DeregisterPCs,
             SetPCs, Using, HoldPCs
  <2>15. CASE SetPolicyMeta(p)
    BY <2>0, <2>15, AdvanceFacts, AfterFacts
       DEF SetPolicyMeta, PutMeta, AdminPCs, ProvisionPCs, RegisterPCs, DropPCs,
           DeregisterPCs, SetPCs, Using, HoldPCs
  <2>16. CASE SetPolicyInsert(p)
    BY <2>0, <2>16, ReturnFacts
       DEF SetPolicyInsert, AdminPCs, ProvisionPCs, RegisterPCs, DropPCs, DeregisterPCs,
           SetPCs, Using, HoldPCs
  <2>17. ASSUME NEW t \in Tenants, UseBegin(p, t)
         PROVE  QueueLocks'
    BY <2>0, <2>17, UseBeginFacts, TenantType
       DEF AdminPCs, ProvisionPCs, RegisterPCs, DropPCs, DeregisterPCs, SetPCs, Using,
           HoldPCs
  <2>18. CASE UseLock(p)
    BY <2>0, <2>18, AdvanceFacts, AfterFacts
       DEF UseLock, AdminPCs, ProvisionPCs, RegisterPCs, DropPCs, DeregisterPCs, SetPCs,
           Using, HoldPCs
  <2>19. CASE UseHandle(p)
    BY <2>0, <2>19, UseHandleFacts
       DEF UseHandle, AdminPCs, ProvisionPCs, RegisterPCs, DropPCs, DeregisterPCs,
           SetPCs, Using, HoldPCs
  <2>20. CASE ProvisionStuck(p) \/ DropStuck(p) \/ UseDone(p) \/ IoError(p) \/ Cancelled(p)
    BY <2>0, <2>20, ReturnFacts
       DEF ProvisionStuck, DropStuck, UseDone, IoError, Cancelled, DbSteps, AdminPCs,
           ProvisionPCs, RegisterPCs, DropPCs, DeregisterPCs, SetPCs, Using, HoldPCs
  <2> QED
    BY <1>1, <2>1, <2>2, <2>3, <2>4, <2>5, <2>6, <2>7, <2>8, <2>9, <2>10,
       <2>11, <2>12, <2>13, <2>14, <2>15, <2>16, <2>17, <2>18, <2>19, <2>20
       DEF Provision, Drop, SetPolicy, Use
<1>2. CASE Crash
  BY <1>2
     DEF Crash, AdminPCs, ProvisionPCs, RegisterPCs, DropPCs, DeregisterPCs, SetPCs,
         Using, HoldPCs
<1>3. CASE Open
  BY <1>3
     DEF Open, Listed
<1>4. CASE OpenRefused \/ UNCHANGED vars
  BY <1>4
     DEF OpenRefused, vars
<1> QED
  BY <1>1, <1>2, <1>3, <1>4 DEF Next, Failure

(***************************************************************************)
(* Promises                                                                *)
(***************************************************************************)
\* A step that does not concern a tenant keeps what was promised of it.
LEMMA KeptElsewhere ==
  ASSUME NEW u \in Tenants, Kept(u), Same(u), status' = status,
         promise'[u] = promise[u], expected'[u] = expected[u],
         created'[u] = created[u], good'[u] = good[u],
         \A x \in Threads : pc'[x] \in AdminPCs /\ reg'[x].tenant = u =>
           /\ pc[x] \in AdminPCs /\ reg[x].tenant = u
           /\ pc[x] \in SetPCs => pc'[x] \in SetPCs
  PROVE  Kept(u)'
BY DEF Kept, Absent, Same, Tenant

\* Nothing is promised of a tenant that is being provisioned or dropped, and no
\* policy while one is being set.
LEMMA NothingPromised ==
  ASSUME TypeOK, Promises, NEW p \in Threads, pc[p] \in AdminPCs
  PROVE  /\ expected[Tenant(p)] = NoPolicy
         /\ pc[p] \notin SetPCs => promise[Tenant(p)] = "unsure"
BY TenantType DEF TypeOK, Promises, Kept


(***************************************************************************)
(* Promises kept                                                           *)
(***************************************************************************)
\* What was acknowledged stays so until a request on the tenant begins.
LEMMA PromisesStep ==
  ASSUME LifecycleInv, [Next]_vars
  PROVE  Promises'
<1> USE DEF LifecycleInv, At, Tenant, diskVars, memoryVars, boundVars, historyVars
<1>1. ASSUME NEW p \in Threads,
             Provision(p) \/ Drop(p) \/ SetPolicy(p) \/ Use(p) \/ IoError(p) \/ Cancelled(p)
      PROVE  Promises'
  <2>0. reg[p] \in Registers /\ reg[p].tenant \in Tenants
    BY DEF TypeOK, Registers
  <2>1. ASSUME NEW t \in Tenants, NEW v \in Versions, ProvisionBegin(p, t, v)
        PROVE  Promises'
    <3>1. ASSUME NEW u \in Tenants \ {t} PROVE Kept(u)'
      <4>1. /\ Same(u) /\ status' = status
            /\ promise'[u] = promise[u] /\ expected'[u] = expected[u]
            /\ created'[u] = created[u] /\ good'[u] = good[u]
        <5>0. Begun(p, t, v, "prov_inflight")
          BY <2>1, BeginFacts, PlaceNames DEF ProvisionBegin
        <5> QED
          BY <2>0, <2>1, <5>0, PlaceNames, CreateFacts
             DEF Begun, ProvisionBegin, Same, TypeOK
      <4>2. \A x \in Threads : pc'[x] \in AdminPCs /\ reg'[x].tenant = u =>
              /\ pc[x] \in AdminPCs /\ reg[x].tenant = u
              /\ pc[x] \in SetPCs => pc'[x] \in SetPCs
        <5>0. Begun(p, t, v, "prov_inflight")
          BY <2>1, BeginFacts, PlaceNames DEF ProvisionBegin
        <5> QED
          BY <2>0, <2>1, <5>0, PlaceNames, CreateFacts, SMTT(60)
             DEF Begun, ProvisionBegin, AdminPCs, ProvisionPCs, RegisterPCs, DropPCs,
                 DeregisterPCs, SetPCs, Using
      <4> QED
        BY <4>1, <4>2, KeptElsewhere DEF Promises
    <3>2. Kept(t)'
      BY <2>0, <2>1, BeginFacts, PlaceNames, CreateFacts
         DEF Begun, ProvisionBegin, TypeOK, Kept
    <3> QED
      BY <3>1, <3>2, TenantType DEF Promises
  <2>2. CASE ProvisionCreate(p)
    <3>0. PICK t \in Tenants : t = Tenant(p)
      BY TenantType
    <3>1. ASSUME NEW u \in Tenants \ {t} PROVE Kept(u)'
      <4>1. /\ Same(u) /\ status' = status
            /\ promise'[u] = promise[u] /\ expected'[u] = expected[u]
            /\ created'[u] = created[u] /\ good'[u] = good[u]
        <5>1. Subject[pc[p]] \in Families
          BY <3>0, <2>2, SubjectFacts, PlaceNames DEF ProvisionCreate
        <5> QED
          BY <2>0, <3>0, <2>2, <5>1, AdvanceFacts, AfterFacts, CreateFacts, SubjectFacts,
             PlaceNames
             DEF ProvisionCreate, Same, TypeOK
      <4>2. \A x \in Threads : pc'[x] \in AdminPCs /\ reg'[x].tenant = u =>
              /\ pc[x] \in AdminPCs /\ reg[x].tenant = u
              /\ pc[x] \in SetPCs => pc'[x] \in SetPCs
        BY <2>0, <3>0, <2>2, AdvanceFacts, AfterFacts, CreateFacts, SubjectFacts, PlaceNames
           DEF ProvisionCreate, AdminPCs, ProvisionPCs, RegisterPCs, DropPCs,
               DeregisterPCs, SetPCs, Using
      <4> QED
        BY <3>0, <4>1, <4>2, KeptElsewhere DEF Promises
    <3>2. Kept(t)'
      <4>1. pc[p] \in AdminPCs /\ pc[p] \notin SetPCs
        BY <3>0, <2>2
           DEF ProvisionCreate, AdminPCs, ProvisionPCs, RegisterPCs, DropPCs,
               DeregisterPCs, SetPCs, Using
      <4>2. /\ promise'[t] = "unsure" /\ expected'[t] = NoPolicy
            /\ reg'[p].tenant = t
        BY <3>0, <2>2, <4>1, AdvanceFacts, AfterFacts, CreateFacts, SubjectFacts,
           PlaceNames, NothingPromised
           DEF ProvisionCreate
      <4> QED
        BY <2>0, <3>0, <2>2, <4>2 DEF Kept, ProvisionCreate
    <3> QED
      BY <3>1, <3>2 DEF Promises
  <2>3. CASE ProvisionMeta(p)
    <3>0. PICK t \in Tenants : t = Tenant(p)
      BY TenantType
    <3>1. ASSUME NEW u \in Tenants \ {t} PROVE Kept(u)'
      <4>1. /\ Same(u) /\ status' = status
            /\ promise'[u] = promise[u] /\ expected'[u] = expected[u]
            /\ created'[u] = created[u] /\ good'[u] = good[u]
        BY <2>0, <3>0, <2>3, AdvanceFacts, AfterFacts
           DEF ProvisionMeta, PutMeta, Same, TypeOK
      <4>2. \A x \in Threads : pc'[x] \in AdminPCs /\ reg'[x].tenant = u =>
              /\ pc[x] \in AdminPCs /\ reg[x].tenant = u
              /\ pc[x] \in SetPCs => pc'[x] \in SetPCs
        BY <2>0, <3>0, <2>3, AdvanceFacts, AfterFacts
           DEF ProvisionMeta, PutMeta, AdminPCs, ProvisionPCs, RegisterPCs, DropPCs,
               DeregisterPCs, SetPCs, Using
      <4> QED
        BY <3>0, <4>1, <4>2, KeptElsewhere DEF Promises
    <3>2. Kept(t)'
      <4>1. pc[p] \in AdminPCs /\ pc[p] \notin SetPCs
        BY <3>0, <2>3
           DEF ProvisionMeta, PutMeta, AdminPCs, ProvisionPCs, RegisterPCs, DropPCs,
               DeregisterPCs, SetPCs, Using
      <4>2. /\ promise'[t] = "unsure" /\ expected'[t] = NoPolicy
            /\ reg'[p].tenant = t
        BY <3>0, <2>3, <4>1, AdvanceFacts, AfterFacts, NothingPromised
           DEF ProvisionMeta, PutMeta
      <4> QED
        BY <2>0, <3>0, <2>3, <4>2 DEF Kept, ProvisionMeta, PutMeta
    <3> QED
      BY <3>1, <3>2 DEF Promises
  <2>4. CASE ProvisionInsert(p)
    <3>0. PICK t \in Tenants : t = Tenant(p)
      BY TenantType
    <3>1. ASSUME NEW u \in Tenants \ {t} PROVE Kept(u)'
      <4>1. /\ Same(u) /\ status' = status
            /\ promise'[u] = promise[u] /\ expected'[u] = expected[u]
            /\ created'[u] = created[u] /\ good'[u] = good[u]
        BY <2>0, <3>0, <2>4, AdvanceFacts, AfterFacts
           DEF ProvisionInsert, Same, TypeOK
      <4>2. \A x \in Threads : pc'[x] \in AdminPCs /\ reg'[x].tenant = u =>
              /\ pc[x] \in AdminPCs /\ reg[x].tenant = u
              /\ pc[x] \in SetPCs => pc'[x] \in SetPCs
        BY <2>0, <3>0, <2>4, AdvanceFacts, AfterFacts
           DEF ProvisionInsert, AdminPCs, ProvisionPCs, RegisterPCs, DropPCs,
               DeregisterPCs, SetPCs, Using
      <4> QED
        BY <3>0, <4>1, <4>2, KeptElsewhere DEF Promises
    <3>2. Kept(t)'
      <4>1. pc[p] \in AdminPCs /\ pc[p] \notin SetPCs
        BY <3>0, <2>4
           DEF ProvisionInsert, AdminPCs, ProvisionPCs, RegisterPCs, DropPCs,
               DeregisterPCs, SetPCs, Using
      <4>2. /\ promise'[t] = "unsure" /\ expected'[t] = NoPolicy
            /\ reg'[p].tenant = t
        BY <3>0, <2>4, <4>1, AdvanceFacts, AfterFacts, NothingPromised DEF ProvisionInsert
      <4> QED
        BY <2>0, <3>0, <2>4, <4>2 DEF Kept, ProvisionInsert
    <3> QED
      BY <3>1, <3>2 DEF Promises
  <2>5. CASE Register(p)
    <3>0. PICK t \in Tenants : t = Tenant(p)
      BY TenantType
    <3>1. ASSUME NEW u \in Tenants \ {t} PROVE Kept(u)'
      <4>1. /\ Same(u) /\ status' = status
            /\ promise'[u] = promise[u] /\ expected'[u] = expected[u]
            /\ created'[u] = created[u] /\ good'[u] = good[u]
        BY <2>0, <3>0, <2>5, AdvanceFacts, AfterFacts, SubjectFacts
           DEF Register, Same, TypeOK
      <4>2. \A x \in Threads : pc'[x] \in AdminPCs /\ reg'[x].tenant = u =>
              /\ pc[x] \in AdminPCs /\ reg[x].tenant = u
              /\ pc[x] \in SetPCs => pc'[x] \in SetPCs
        BY <2>0, <3>0, <2>5, AdvanceFacts, AfterFacts, SubjectFacts
           DEF Register, AdminPCs, ProvisionPCs, RegisterPCs, DropPCs, DeregisterPCs,
               SetPCs, Using
      <4> QED
        BY <3>0, <4>1, <4>2, KeptElsewhere DEF Promises
    <3>2. Kept(t)'
      <4>1. pc[p] \in AdminPCs /\ pc[p] \notin SetPCs
        BY <3>0, <2>5
           DEF Register, AdminPCs, ProvisionPCs, RegisterPCs, DropPCs, DeregisterPCs,
               SetPCs, Using
      <4>2. /\ promise'[t] = "unsure" /\ expected'[t] = NoPolicy
            /\ reg'[p].tenant = t
        BY <3>0, <2>5, <4>1, AdvanceFacts, AfterFacts, SubjectFacts, NothingPromised
           DEF Register
      <4> QED
        BY <2>0, <3>0, <2>5, <4>2 DEF Kept, Register
    <3> QED
      BY <3>1, <3>2 DEF Promises
  <2>6. CASE ProvisionDone(p)
    <3>0. PICK t \in Tenants : t = Tenant(p)
      BY TenantType
    <3>1. ASSUME NEW u \in Tenants \ {t} PROVE Kept(u)'
      <4>1. /\ Same(u) /\ status' = status
            /\ promise'[u] = promise[u] /\ expected'[u] = expected[u]
            /\ created'[u] = created[u] /\ good'[u] = good[u]
        BY <2>0, <3>0, <2>6, ReturnFacts
           DEF ProvisionDone, Same, TypeOK
      <4>2. \A x \in Threads : pc'[x] \in AdminPCs /\ reg'[x].tenant = u =>
              /\ pc[x] \in AdminPCs /\ reg[x].tenant = u
              /\ pc[x] \in SetPCs => pc'[x] \in SetPCs
        BY <2>0, <3>0, <2>6, ReturnFacts
           DEF ProvisionDone, AdminPCs, ProvisionPCs, RegisterPCs, DropPCs,
               DeregisterPCs, SetPCs, Using
      <4> QED
        BY <3>0, <4>1, <4>2, KeptElsewhere DEF Promises
    <3>2. Kept(t)'
      <4>1. /\ pc[p] \in AdminPCs /\ pc'[p] = "idle"
            /\ \A x \in Threads \ {p} : pc'[x] = pc[x] /\ reg'[x] = reg[x]
        BY <3>0, <2>6, ReturnFacts
           DEF ProvisionDone, AdminPCs, ProvisionPCs, RegisterPCs, DropPCs,
               DeregisterPCs, SetPCs, Using
      <4>2. CASE reg[p].clash
        <5>1. /\ promise'[t] = "unsure" /\ expected'[t] = NoPolicy
          BY <2>0, <3>0, <2>6, <4>1, <4>2, NothingPromised
             DEF ProvisionDone, TypeOK, RegisterPCs, DeregisterPCs, SetPCs, ProvisionPCs,
                 DropPCs, AdminPCs
        <5> QED
          BY <5>1 DEF Kept
      <4>3. CASE ~reg[p].clash
        <5>1. \A x \in Threads : ~(pc'[x] \in AdminPCs /\ reg'[x].tenant = t)
          BY <3>0, <4>1, <4>3
             DEF Alone, AdminPCs, ProvisionPCs, RegisterPCs, DropPCs, DeregisterPCs,
                 SetPCs, Using
        <5>3. families[t] = Families /\ registered'[t] = Parts
          <6>1. /\ families[t] \subseteq Families /\ registered[t] \subseteq Parts
                /\ registered'[t] = registered[t] \cup {"baselines"}
            BY <2>0, <3>0, <2>6 DEF ProvisionDone, TypeOK
          <6>2. Built(p, t) /\ pc[p] = "reg_baselines"
            BY <2>0, <3>0, <2>6, <4>3 DEF ProvisionDone, Progress, Progressed
          <6> QED
            BY <6>1, <6>2 DEF Built, Parts, Families, ProvisionPCs, RegisterPCs
        <5>2. /\ families'[t] = Families /\ created'[t] = good'[t]
              /\ meta'[t] = reg[p].pol /\ reg[p].pol \in Versions /\ policies'[t] = reg[p].pol
              /\ registered'[t] = Parts /\ promise'[t] = "provisioned"
              /\ expected'[t] = reg[p].pol
          BY <2>0, <3>0, <2>6, <5>3, <4>3, <4>1, NothingPromised
             DEF ProvisionDone, TypeOK, Shape, Progress, Progressed, Built, Torn,
                 AdminPCs, ProvisionPCs, RegisterPCs, DropPCs, DeregisterPCs, SetPCs, Using
        <5> QED
          BY <2>0, <3>0, <2>6, <5>1, <5>2 DEF ProvisionDone, Kept
      <4> QED
        BY <3>0, <4>2, <4>3
    <3> QED
      BY <3>1, <3>2 DEF Promises
  <2>7. ASSUME NEW t \in Tenants, DropBegin(p, t)
        PROVE  Promises'
    <3>1. ASSUME NEW u \in Tenants \ {t} PROVE Kept(u)'
      <4>1. /\ Same(u) /\ status' = status
            /\ promise'[u] = promise[u] /\ expected'[u] = expected[u]
            /\ created'[u] = created[u] /\ good'[u] = good[u]
        <5>0. Begun(p, t, NoPolicy, "drop_inflight")
          BY <2>7, BeginFacts, PlaceNames DEF DropBegin
        <5> QED
          BY <2>0, <2>7, <5>0, PlaceNames, DropCfFacts
             DEF Begun, DropBegin, Same, TypeOK
      <4>2. \A x \in Threads : pc'[x] \in AdminPCs /\ reg'[x].tenant = u =>
              /\ pc[x] \in AdminPCs /\ reg[x].tenant = u
              /\ pc[x] \in SetPCs => pc'[x] \in SetPCs
        <5>0. Begun(p, t, NoPolicy, "drop_inflight")
          BY <2>7, BeginFacts, PlaceNames DEF DropBegin
        <5> QED
          BY <2>0, <2>7, <5>0, PlaceNames, DropCfFacts
             DEF Begun, DropBegin, AdminPCs, ProvisionPCs, RegisterPCs, DropPCs, DeregisterPCs,
                 SetPCs, Using
      <4> QED
        BY <4>1, <4>2, KeptElsewhere DEF Promises
    <3>2. Kept(t)'
      BY <2>0, <2>7, BeginFacts, PlaceNames, DropCfFacts
         DEF Begun, DropBegin, TypeOK, Kept
    <3> QED
      BY <3>1, <3>2, TenantType DEF Promises
  <2>8. CASE DropNext(p)
    <3>0. PICK t \in Tenants : t = Tenant(p)
      BY TenantType
    <3>1. ASSUME NEW u \in Tenants \ {t} PROVE Kept(u)'
      <4>1. /\ Same(u) /\ status' = status
            /\ promise'[u] = promise[u] /\ expected'[u] = expected[u]
            /\ created'[u] = created[u] /\ good'[u] = good[u]
        <5>1. Subject[pc[p]] \in Families
          BY <3>0, <2>8, SubjectFacts, PlaceNames DEF DropNext
        <5> QED
          BY <2>0, <3>0, <2>8, <5>1, AdvanceFacts, AfterFacts, DropCfFacts, SubjectFacts,
             PlaceNames
             DEF DropNext, Same, TypeOK
      <4>2. \A x \in Threads : pc'[x] \in AdminPCs /\ reg'[x].tenant = u =>
              /\ pc[x] \in AdminPCs /\ reg[x].tenant = u
              /\ pc[x] \in SetPCs => pc'[x] \in SetPCs
        BY <2>0, <3>0, <2>8, AdvanceFacts, AfterFacts, DropCfFacts, SubjectFacts, PlaceNames
           DEF DropNext, AdminPCs, ProvisionPCs, RegisterPCs, DropPCs, DeregisterPCs,
               SetPCs, Using
      <4> QED
        BY <3>0, <4>1, <4>2, KeptElsewhere DEF Promises
    <3>2. Kept(t)'
      <4>1. pc[p] \in AdminPCs /\ pc[p] \notin SetPCs
        BY <3>0, <2>8
           DEF DropNext, AdminPCs, ProvisionPCs, RegisterPCs, DropPCs, DeregisterPCs,
               SetPCs, Using
      <4>2. /\ promise'[t] = "unsure" /\ expected'[t] = NoPolicy
            /\ reg'[p].tenant = t
        BY <3>0, <2>8, <4>1, AdvanceFacts, AfterFacts, DropCfFacts, SubjectFacts,
           PlaceNames, NothingPromised
           DEF DropNext
      <4> QED
        BY <2>0, <3>0, <2>8, <4>2 DEF Kept, DropNext
    <3> QED
      BY <3>1, <3>2 DEF Promises
  <2>9. CASE DropMeta(p)
    <3>0. PICK t \in Tenants : t = Tenant(p)
      BY TenantType
    <3>1. ASSUME NEW u \in Tenants \ {t} PROVE Kept(u)'
      <4>1. /\ Same(u) /\ status' = status
            /\ promise'[u] = promise[u] /\ expected'[u] = expected[u]
            /\ created'[u] = created[u] /\ good'[u] = good[u]
        BY <2>0, <3>0, <2>9, AdvanceFacts, AfterFacts
           DEF DropMeta, DeleteMeta, Same, TypeOK
      <4>2. \A x \in Threads : pc'[x] \in AdminPCs /\ reg'[x].tenant = u =>
              /\ pc[x] \in AdminPCs /\ reg[x].tenant = u
              /\ pc[x] \in SetPCs => pc'[x] \in SetPCs
        BY <2>0, <3>0, <2>9, AdvanceFacts, AfterFacts
           DEF DropMeta, DeleteMeta, AdminPCs, ProvisionPCs, RegisterPCs, DropPCs,
               DeregisterPCs, SetPCs, Using
      <4> QED
        BY <3>0, <4>1, <4>2, KeptElsewhere DEF Promises
    <3>2. Kept(t)'
      <4>1. pc[p] \in AdminPCs /\ pc[p] \notin SetPCs
        BY <3>0, <2>9
           DEF DropMeta, DeleteMeta, AdminPCs, ProvisionPCs, RegisterPCs, DropPCs,
               DeregisterPCs, SetPCs, Using
      <4>2. /\ promise'[t] = "unsure" /\ expected'[t] = NoPolicy
            /\ reg'[p].tenant = t
        BY <3>0, <2>9, <4>1, AdvanceFacts, AfterFacts, NothingPromised
           DEF DropMeta, DeleteMeta
      <4> QED
        BY <2>0, <3>0, <2>9, <4>2 DEF Kept, DropMeta, DeleteMeta
    <3> QED
      BY <3>1, <3>2 DEF Promises
  <2>10. CASE DropRemove(p)
    <3>0. PICK t \in Tenants : t = Tenant(p)
      BY TenantType
    <3>1. ASSUME NEW u \in Tenants \ {t} PROVE Kept(u)'
      <4>1. /\ Same(u) /\ status' = status
            /\ promise'[u] = promise[u] /\ expected'[u] = expected[u]
            /\ created'[u] = created[u] /\ good'[u] = good[u]
        BY <2>0, <3>0, <2>10, AdvanceFacts, AfterFacts
           DEF DropRemove, Same, TypeOK
      <4>2. \A x \in Threads : pc'[x] \in AdminPCs /\ reg'[x].tenant = u =>
              /\ pc[x] \in AdminPCs /\ reg[x].tenant = u
              /\ pc[x] \in SetPCs => pc'[x] \in SetPCs
        BY <2>0, <3>0, <2>10, AdvanceFacts, AfterFacts
           DEF DropRemove, AdminPCs, ProvisionPCs, RegisterPCs, DropPCs, DeregisterPCs,
               SetPCs, Using
      <4> QED
        BY <3>0, <4>1, <4>2, KeptElsewhere DEF Promises
    <3>2. Kept(t)'
      <4>1. pc[p] \in AdminPCs /\ pc[p] \notin SetPCs
        BY <3>0, <2>10
           DEF DropRemove, AdminPCs, ProvisionPCs, RegisterPCs, DropPCs, DeregisterPCs,
               SetPCs, Using
      <4>2. /\ promise'[t] = "unsure" /\ expected'[t] = NoPolicy
            /\ reg'[p].tenant = t
        BY <3>0, <2>10, <4>1, AdvanceFacts, AfterFacts, NothingPromised DEF DropRemove
      <4> QED
        BY <2>0, <3>0, <2>10, <4>2 DEF Kept, DropRemove
    <3> QED
      BY <3>1, <3>2 DEF Promises
  <2>11. CASE DropLocks(p)
    <3>1. ASSUME NEW u \in Tenants PROVE Kept(u)'
      <4>1. /\ Same(u) /\ status' = status
            /\ promise'[u] = promise[u] /\ expected'[u] = expected[u]
            /\ created'[u] = created[u] /\ good'[u] = good[u]
        BY <2>0, <2>11, DropLocksFacts
           DEF Same, TypeOK
      <4>2. \A x \in Threads : pc'[x] \in AdminPCs /\ reg'[x].tenant = u =>
              /\ pc[x] \in AdminPCs /\ reg[x].tenant = u
              /\ pc[x] \in SetPCs => pc'[x] \in SetPCs
        BY <2>0, <2>11, DropLocksFacts
           DEF AdminPCs, ProvisionPCs, RegisterPCs, DropPCs, DeregisterPCs, SetPCs, Using
      <4> QED
        BY <4>1, <4>2, KeptElsewhere DEF Promises
    <3> QED
      BY <3>1 DEF Promises
  <2>12. CASE Deregister(p)
    <3>0. PICK t \in Tenants : t = Tenant(p)
      BY TenantType
    <3>1. ASSUME NEW u \in Tenants \ {t} PROVE Kept(u)'
      <4>1. /\ Same(u) /\ status' = status
            /\ promise'[u] = promise[u] /\ expected'[u] = expected[u]
            /\ created'[u] = created[u] /\ good'[u] = good[u]
        BY <2>0, <3>0, <2>12, AdvanceFacts, AfterFacts, SubjectFacts
           DEF Deregister, Same, TypeOK
      <4>2. \A x \in Threads : pc'[x] \in AdminPCs /\ reg'[x].tenant = u =>
              /\ pc[x] \in AdminPCs /\ reg[x].tenant = u
              /\ pc[x] \in SetPCs => pc'[x] \in SetPCs
        BY <2>0, <3>0, <2>12, AdvanceFacts, AfterFacts, SubjectFacts
           DEF Deregister, AdminPCs, ProvisionPCs, RegisterPCs, DropPCs, DeregisterPCs,
               SetPCs, Using
      <4> QED
        BY <3>0, <4>1, <4>2, KeptElsewhere DEF Promises
    <3>2. Kept(t)'
      <4>1. pc[p] \in AdminPCs /\ pc[p] \notin SetPCs
        BY <3>0, <2>12
           DEF Deregister, AdminPCs, ProvisionPCs, RegisterPCs, DropPCs, DeregisterPCs,
               SetPCs, Using
      <4>2. /\ promise'[t] = "unsure" /\ expected'[t] = NoPolicy
            /\ reg'[p].tenant = t
        BY <3>0, <2>12, <4>1, AdvanceFacts, AfterFacts, SubjectFacts, NothingPromised
           DEF Deregister
      <4> QED
        BY <2>0, <3>0, <2>12, <4>2 DEF Kept, Deregister
    <3> QED
      BY <3>1, <3>2 DEF Promises
  <2>13. CASE DropDone(p)
    <3>0. PICK t \in Tenants : t = Tenant(p)
      BY TenantType
    <3>1. ASSUME NEW u \in Tenants \ {t} PROVE Kept(u)'
      <4>1. /\ Same(u) /\ status' = status
            /\ promise'[u] = promise[u] /\ expected'[u] = expected[u]
            /\ created'[u] = created[u] /\ good'[u] = good[u]
        BY <2>0, <3>0, <2>13, ReturnFacts
           DEF DropDone, Same, TypeOK
      <4>2. \A x \in Threads : pc'[x] \in AdminPCs /\ reg'[x].tenant = u =>
              /\ pc[x] \in AdminPCs /\ reg[x].tenant = u
              /\ pc[x] \in SetPCs => pc'[x] \in SetPCs
        BY <2>0, <3>0, <2>13, ReturnFacts
           DEF DropDone, AdminPCs, ProvisionPCs, RegisterPCs, DropPCs, DeregisterPCs,
               SetPCs, Using
      <4> QED
        BY <3>0, <4>1, <4>2, KeptElsewhere DEF Promises
    <3>2. Kept(t)'
      <4>1. /\ pc[p] \in AdminPCs /\ pc'[p] = "idle"
            /\ \A x \in Threads \ {p} : pc'[x] = pc[x] /\ reg'[x] = reg[x]
        BY <3>0, <2>13, ReturnFacts
           DEF DropDone, AdminPCs, ProvisionPCs, RegisterPCs, DropPCs, DeregisterPCs,
               SetPCs, Using
      <4>a. promise[t] = "unsure" /\ expected[t] = NoPolicy /\ expected' = expected
        BY <2>0, <3>0, <2>13, <4>1, NothingPromised
           DEF DropDone, RegisterPCs, DeregisterPCs, SetPCs, ProvisionPCs, DropPCs, AdminPCs
      <4>2. CASE reg[p].rival
        <5>1. promise'[t] = "unsure" /\ expected'[t] = NoPolicy
          BY <2>0, <3>0, <2>13, <4>a, <4>2 DEF DropDone, TypeOK
        <5> QED
          BY <5>1 DEF Kept
      <4>3. CASE ~reg[p].rival
        <5>1. \A x \in Threads : pc'[x] \in AdminPCs /\ reg'[x].tenant = t => pc'[x] \in SetPCs
          <6> SUFFICES ASSUME NEW x \in Threads, pc'[x] \in AdminPCs, reg'[x].tenant = t
                       PROVE  pc'[x] \in SetPCs
            OBVIOUS
          <6>1. x # p
            BY <4>1 DEF AdminPCs, ProvisionPCs, RegisterPCs, DropPCs, DeregisterPCs, SetPCs
          <6>2. pc[p] \in WholePCs
            BY <2>13 DEF DropDone, WholePCs, DropPCs, DeregisterPCs
          <6>3. pc[x] \notin WholePCs
            BY <3>0, <4>1, <4>3, <6>1, <6>2 DEF Rivals
          <6> QED
            BY <4>1, <6>1, <6>3 DEF AdminPCs, WholePCs
        <5>a. Torn(p, t) /\ pc[p] = "dereg_baselines"
          BY <2>0, <3>0, <2>13, <4>3 DEF DropDone, Teardown, TornDown
        <5>2. families[t] = {} /\ registered'[t] = {}
          <6>1. /\ families[t] \subseteq Families /\ registered[t] \subseteq Parts
                /\ registered'[t] = registered[t] \ {"baselines"}
            BY <2>0, <3>0, <2>13 DEF DropDone, TypeOK
          <6> QED
            BY <6>1, <5>a DEF Torn, Parts, Families, DropPCs, DeregisterPCs
        <5>3. t \notin revived => meta[t] = NoPolicy /\ policies[t] = NoPolicy
          BY <5>a DEF Torn, PastDelete, PastRemove
        <5>4. UNCHANGED <<families, meta, policies, revived>> /\ promise'[t] = "absent"
          BY <2>0, <3>0, <2>13, <4>3 DEF DropDone, TypeOK
        <5>5. Absent(t)'
          BY <5>2, <5>3, <5>4 DEF Absent
        <5> QED
          BY <4>a, <5>1, <5>4, <5>5 DEF Kept
      <4> QED
        BY <3>0, <4>2, <4>3
    <3> QED
      BY <3>1, <3>2 DEF Promises
  <2>14. ASSUME NEW t \in Tenants, NEW v \in Versions, SetPolicyBegin(p, t, v)
         PROVE  Promises'
    <3>1. ASSUME NEW u \in Tenants \ {t} PROVE Kept(u)'
      <4>1. /\ Same(u) /\ status' = status
            /\ promise'[u] = promise[u] /\ expected'[u] = expected[u]
            /\ created'[u] = created[u] /\ good'[u] = good[u]
        <5>0. Begun(p, t, v, "set_meta")
          BY <2>14, BeginFacts, PlaceNames DEF SetPolicyBegin
        <5> QED
          BY <2>0, <2>14, <5>0, PlaceNames
             DEF Begun, SetPolicyBegin, Same, TypeOK
      <4>2. \A x \in Threads : pc'[x] \in AdminPCs /\ reg'[x].tenant = u =>
              /\ pc[x] \in AdminPCs /\ reg[x].tenant = u
              /\ pc[x] \in SetPCs => pc'[x] \in SetPCs
        <5>0. Begun(p, t, v, "set_meta")
          BY <2>14, BeginFacts, PlaceNames DEF SetPolicyBegin
        <5> QED
          BY <2>0, <2>14, <5>0, PlaceNames
             DEF Begun, SetPolicyBegin, AdminPCs, ProvisionPCs, RegisterPCs, DropPCs,
                 DeregisterPCs, SetPCs, Using
      <4> QED
        BY <4>1, <4>2, KeptElsewhere DEF Promises
    <3>2. Kept(t)'
      <4>1. /\ promise' = promise /\ expected'[t] = NoPolicy /\ Kept(t)
            /\ UNCHANGED <<diskVars, status, memoryVars, good, revived>>
        BY <2>14 DEF SetPolicyBegin, TypeOK, Promises, Kept
      <4>2. /\ pc'[p] \in SetPCs
            /\ \A x \in Threads \ {p} : pc'[x] = pc[x] /\ reg'[x].tenant = reg[x].tenant
        <5>0. Begun(p, t, v, "set_meta")
          BY <2>14, BeginFacts, PlaceNames DEF SetPolicyBegin
        <5> QED
          BY <2>0, <2>14, <5>0, PlaceNames DEF Begun, SetPolicyBegin, SetPCs
      <4>3. Absent(t) => Absent(t)'
        BY <4>1 DEF Absent
      <4> QED
        BY <4>1, <4>2, <4>3 DEF Kept
    <3> QED
      BY <3>1, <3>2, TenantType DEF Promises
  <2>15. CASE SetPolicyMeta(p)
    <3>0. PICK t \in Tenants : t = Tenant(p)
      BY TenantType
    <3>1. ASSUME NEW u \in Tenants \ {t} PROVE Kept(u)'
      <4>1. /\ Same(u) /\ status' = status
            /\ promise'[u] = promise[u] /\ expected'[u] = expected[u]
            /\ created'[u] = created[u] /\ good'[u] = good[u]
        BY <2>0, <3>0, <2>15, AdvanceFacts, AfterFacts
           DEF SetPolicyMeta, PutMeta, Same, TypeOK
      <4>2. \A x \in Threads : pc'[x] \in AdminPCs /\ reg'[x].tenant = u =>
              /\ pc[x] \in AdminPCs /\ reg[x].tenant = u
              /\ pc[x] \in SetPCs => pc'[x] \in SetPCs
        BY <2>0, <3>0, <2>15, AdvanceFacts, AfterFacts
           DEF SetPolicyMeta, PutMeta, AdminPCs, ProvisionPCs, RegisterPCs, DropPCs,
               DeregisterPCs, SetPCs, Using
      <4> QED
        BY <3>0, <4>1, <4>2, KeptElsewhere DEF Promises
    <3>2. Kept(t)'
      <4>1. /\ reg' = reg
            /\ UNCHANGED <<families, created, status, memoryVars, promise, expected, good>>
            /\ pc[p] = "set_meta" /\ pc'[p] = "set_insert"
            /\ \A x \in Threads \ {p} : pc'[x] = pc[x]
            /\ meta'[t] \in Versions
        BY <2>0, <3>0, <2>15, AdvanceFacts, AfterFacts, ZenonT(60)
           DEF SetPolicyMeta, PutMeta, TypeOK, Shape, SetPCs
      <4>2. expected[t] = NoPolicy
        BY <3>0, <4>1, NothingPromised DEF AdminPCs, SetPCs
      <4>3. promise[t] = "absent" => t \in revived'
        BY <3>0, <2>15 DEF SetPolicyMeta, DroppedBehind
      <4>4. promise[t] = "absent" /\ Absent(t) => Absent(t)'
        BY <4>1, <4>3 DEF Absent
      <4>5. meta'[t] # NoPolicy /\ Kept(t)
        BY <4>1 DEF Promises
      <4> QED
        BY <2>0, <3>0, <4>1, <4>2, <4>4, <4>5 DEF Kept, SetPCs
    <3> QED
      BY <3>1, <3>2 DEF Promises
  <2>16. CASE SetPolicyInsert(p)
    <3>0. PICK t \in Tenants : t = Tenant(p)
      BY TenantType
    <3>1. ASSUME NEW u \in Tenants \ {t} PROVE Kept(u)'
      <4>1. /\ Same(u) /\ status' = status
            /\ promise'[u] = promise[u] /\ expected'[u] = expected[u]
            /\ created'[u] = created[u] /\ good'[u] = good[u]
        BY <2>0, <3>0, <2>16, ReturnFacts
           DEF SetPolicyInsert, Same, TypeOK
      <4>2. \A x \in Threads : pc'[x] \in AdminPCs /\ reg'[x].tenant = u =>
              /\ pc[x] \in AdminPCs /\ reg[x].tenant = u
              /\ pc[x] \in SetPCs => pc'[x] \in SetPCs
        BY <2>0, <3>0, <2>16, ReturnFacts
           DEF SetPolicyInsert, AdminPCs, ProvisionPCs, RegisterPCs, DropPCs,
               DeregisterPCs, SetPCs, Using
      <4> QED
        BY <3>0, <4>1, <4>2, KeptElsewhere DEF Promises
    <3>2. Kept(t)'
      <4>1. /\ pc[p] \in AdminPCs /\ pc'[p] = "idle"
            /\ \A x \in Threads \ {p} : pc'[x] = pc[x] /\ reg'[x] = reg[x]
        BY <3>0, <2>16, ReturnFacts
           DEF SetPolicyInsert, AdminPCs, ProvisionPCs, RegisterPCs, DropPCs,
               DeregisterPCs, SetPCs, Using
      <4>2. /\ Kept(t) /\ expected[t] = NoPolicy
            /\ policies'[t] = reg[p].pol /\ reg[p].pol \in Versions
            /\ UNCHANGED <<diskVars, status, registered, promise, good>>
        BY <2>0, <3>0, <2>16, <4>1, NothingPromised
           DEF SetPolicyInsert, Promises, TypeOK, Shape, SetPCs
      <4>a. promise[t] = "absent" => t \in revived'
        BY <3>0, <2>16 DEF SetPolicyInsert, DroppedBehind
      <4>b. promise[t] = "absent" /\ Absent(t) => Absent(t)'
        BY <4>2, <4>a DEF Absent
      <4>3. CASE reg[p].clash
        <5>1. expected'[t] = NoPolicy
          BY <2>0, <3>0, <2>16, <4>2, <4>3 DEF SetPolicyInsert, TypeOK
        <5> QED
          BY <3>0, <4>1, <4>2, <4>b, <5>1
             DEF Kept, AdminPCs, ProvisionPCs, RegisterPCs, DropPCs, DeregisterPCs,
                 SetPCs, Using
      <4>4. CASE ~reg[p].clash
        <5>1. \A x \in Threads : ~(pc'[x] \in AdminPCs /\ reg'[x].tenant = t)
          BY <3>0, <4>1, <4>4
             DEF Alone, AdminPCs, ProvisionPCs, RegisterPCs, DropPCs, DeregisterPCs,
                 SetPCs, Using
        <5>2. expected'[t] = reg[p].pol /\ meta[t] = reg[p].pol
          BY <2>0, <3>0, <2>16, <4>4 DEF SetPolicyInsert, TypeOK, Progress, Progressed
        <5> QED
          BY <3>0, <4>2, <4>b, <5>1, <5>2 DEF Kept
      <4> QED
        BY <3>0, <4>3, <4>4
    <3> QED
      BY <3>1, <3>2 DEF Promises
  <2>17. ASSUME NEW t \in Tenants, UseBegin(p, t)
         PROVE  Promises'
    <3>1. ASSUME NEW u \in Tenants PROVE Kept(u)'
      <4>1. /\ Same(u) /\ status' = status
            /\ promise'[u] = promise[u] /\ expected'[u] = expected[u]
            /\ created'[u] = created[u] /\ good'[u] = good[u]
        BY <2>0, <2>17, UseBeginFacts
           DEF Same, TypeOK
      <4>2. \A x \in Threads : pc'[x] \in AdminPCs /\ reg'[x].tenant = u =>
              /\ pc[x] \in AdminPCs /\ reg[x].tenant = u
              /\ pc[x] \in SetPCs => pc'[x] \in SetPCs
        BY <2>0, <2>17, UseBeginFacts
           DEF AdminPCs, ProvisionPCs, RegisterPCs, DropPCs, DeregisterPCs, SetPCs, Using
      <4> QED
        BY <4>1, <4>2, KeptElsewhere DEF Promises
    <3> QED
      BY <3>1 DEF Promises
  <2>18. CASE UseLock(p)
    <3>1. ASSUME NEW u \in Tenants PROVE Kept(u)'
      <4>1. /\ Same(u) /\ status' = status
            /\ promise'[u] = promise[u] /\ expected'[u] = expected[u]
            /\ created'[u] = created[u] /\ good'[u] = good[u]
        BY <2>0, <2>18, AdvanceFacts, AfterFacts
           DEF UseLock, Same, TypeOK
      <4>2. \A x \in Threads : pc'[x] \in AdminPCs /\ reg'[x].tenant = u =>
              /\ pc[x] \in AdminPCs /\ reg[x].tenant = u
              /\ pc[x] \in SetPCs => pc'[x] \in SetPCs
        BY <2>0, <2>18, AdvanceFacts, AfterFacts
           DEF UseLock, AdminPCs, ProvisionPCs, RegisterPCs, DropPCs, DeregisterPCs,
               SetPCs, Using
      <4> QED
        BY <4>1, <4>2, KeptElsewhere DEF Promises
    <3> QED
      BY <3>1 DEF Promises
  <2>19. CASE UseHandle(p)
    <3>1. ASSUME NEW u \in Tenants PROVE Kept(u)'
      <4>1. /\ Same(u) /\ status' = status
            /\ promise'[u] = promise[u] /\ expected'[u] = expected[u]
            /\ created'[u] = created[u] /\ good'[u] = good[u]
        BY <2>0, <2>19, UseHandleFacts
           DEF UseHandle, Same, TypeOK, UseHandle
      <4>2. \A x \in Threads : pc'[x] \in AdminPCs /\ reg'[x].tenant = u =>
              /\ pc[x] \in AdminPCs /\ reg[x].tenant = u
              /\ pc[x] \in SetPCs => pc'[x] \in SetPCs
        BY <2>0, <2>19, UseHandleFacts
           DEF UseHandle, AdminPCs, ProvisionPCs, RegisterPCs, DropPCs, DeregisterPCs,
               SetPCs, Using
      <4> QED
        BY <4>1, <4>2, KeptElsewhere DEF Promises
    <3> QED
      BY <3>1 DEF Promises
  <2>20. CASE ProvisionStuck(p) \/ DropStuck(p) \/ UseDone(p) \/ IoError(p) \/ Cancelled(p)
    <3>1. ASSUME NEW u \in Tenants PROVE Kept(u)'
      <4>1. /\ Same(u) /\ status' = status
            /\ promise'[u] = promise[u] /\ expected'[u] = expected[u]
            /\ created'[u] = created[u] /\ good'[u] = good[u]
        BY <2>0, <2>20, ReturnFacts
           DEF ProvisionStuck, DropStuck, UseDone, IoError, Cancelled, DbSteps, Same, TypeOK
      <4>2. \A x \in Threads : pc'[x] \in AdminPCs /\ reg'[x].tenant = u =>
              /\ pc[x] \in AdminPCs /\ reg[x].tenant = u
              /\ pc[x] \in SetPCs => pc'[x] \in SetPCs
        BY <2>0, <2>20, ReturnFacts
           DEF ProvisionStuck, DropStuck, UseDone, IoError, Cancelled, DbSteps, AdminPCs,
               ProvisionPCs, RegisterPCs, DropPCs, DeregisterPCs, SetPCs, Using
      <4> QED
        BY <4>1, <4>2, KeptElsewhere DEF Promises
    <3> QED
      BY <3>1 DEF Promises
  <2> QED
    BY <1>1, <2>1, <2>2, <2>3, <2>4, <2>5, <2>6, <2>7, <2>8, <2>9, <2>10,
       <2>11, <2>12, <2>13, <2>14, <2>15, <2>16, <2>17, <2>18, <2>19, <2>20
       DEF Provision, Drop, SetPolicy, Use
<1>2. CASE Crash
  <2> SUFFICES ASSUME NEW t \in Tenants PROVE Kept(t)'
    BY DEF Promises
  <2>1. Kept(t)
    BY DEF Promises
  <2>2. /\ UNCHANGED <<families, created, meta, promise, expected, good, revived>>
        /\ status' = "down" /\ policies'[t] = NoPolicy /\ registered'[t] = {}
        /\ \A p \in Threads : pc'[p] = "idle"
    BY <1>2 DEF Crash
  <2>3. Absent(t) => Absent(t)'
    BY <2>2 DEF Absent
  <2> QED
    BY <2>1, <2>2, <2>3
       DEF Kept, AdminPCs, ProvisionPCs, RegisterPCs, DropPCs, DeregisterPCs, SetPCs
<1>3. CASE Open
  <2> SUFFICES ASSUME NEW t \in Tenants PROVE Kept(t)'
    BY DEF Promises
  <2>1. Kept(t)
    BY DEF Promises
  <2>2. /\ UNCHANGED <<meta, pc, reg, promise, expected, good, revived>>
        /\ status' = "up" /\ policies' = meta
        /\ families'[t] = IF meta[t] # NoPolicy THEN Families ELSE {}
        /\ registered'[t] = IF meta[t] # NoPolicy THEN Parts ELSE {}
        /\ families[t] # {} => meta[t] # NoPolicy
    BY <1>3 DEF Open, Listed, Openable
  <2>3. families[t] = Families => created'[t] = created[t]
    BY <1>3 DEF Open, Listed, TypeOK
  <2>4. Absent(t) => Absent(t)'
    BY <2>2 DEF Absent, Families
  <2> QED
    BY <2>1, <2>2, <2>3, <2>4 DEF Kept
<1>4. CASE OpenRefused \/ UNCHANGED vars
  <2> SUFFICES ASSUME NEW t \in Tenants PROVE Kept(t)'
    BY DEF Promises
  <2>1. Kept(t)
    BY DEF Promises
  <2>2. /\ UNCHANGED <<families, created, meta, policies, registered, pc, reg, promise,
                       expected, good, revived>>
        /\ status' = "up" => status = "up"
    BY <1>4 DEF OpenRefused, vars
  <2>3. Absent(t) => Absent(t)'
    BY <2>2 DEF Absent
  <2> QED
    BY <2>1, <2>2, <2>3 DEF Kept
<1> QED
  BY <1>1, <1>2, <1>3, <1>4 DEF Next, Failure

(***************************************************************************)
(* The theorems                                                            *)
(***************************************************************************)
LEMMA LifecycleInit == Init => LifecycleInv /\ QueueLocks
<1> SUFFICES ASSUME Init PROVE LifecycleInv /\ QueueLocks
  OBVIOUS
<1> USE DEF Init
<1>1. TypeOK
  BY NoRegistersType, Places DEF TypeOK
<1>2. Shape /\ Alone /\ Rivals
  BY NoRegistersType
     DEF Shape, Alone, Rivals, WholePCs, AdminPCs, ProvisionPCs, RegisterPCs, DropPCs,
         DeregisterPCs, SetPCs
<1>5. Progress /\ Teardown
  BY NoRegistersType
     DEF Progress, Progressed, Built, Teardown, TornDown, Torn, PastDelete, PastRemove,
         ProvisionPCs, RegisterPCs, DropPCs, DeregisterPCs
<1>3. Promises
  BY DEF Promises, Kept, Absent, AdminPCs, ProvisionPCs, RegisterPCs, DropPCs, DeregisterPCs,
         SetPCs
<1>4. QueueLocks
  BY DEF QueueLocks, Using, HoldPCs
<1> QED
  BY <1>1, <1>2, <1>3, <1>4, <1>5 DEF LifecycleInv

LEMMA LifecycleStep ==
  ASSUME LifecycleInv, QueueLocks, [Next]_vars
  PROVE  (LifecycleInv /\ QueueLocks)'
<1>1. TypeOK /\ Shape /\ Alone /\ Rivals /\ Progress /\ Teardown
  BY DEF LifecycleInv
<1> QED
  BY <1>1, TypeOKStep, ShapeStep, AloneStep, RivalsStep, ProgressStep, TeardownStep,
     PromisesStep, QueueLocksStep
     DEF LifecycleInv

LEMMA LifecycleAlways == Spec => [](LifecycleInv /\ QueueLocks)
BY LifecycleInit, LifecycleStep, PTL DEF Spec

\* The types of the registry's state, on disk and in memory, hold at every step.
THEOREM LifecycleTypes == Spec => []TypeOK
<1>1. LifecycleInv => TypeOK
  BY DEF LifecycleInv
<1> QED
  BY <1>1, LifecycleAlways, PTL

\* What provision_tenant answered stays true: until somebody begins to drop the
\* tenant, its families are the ones it created, its policy is stored, and the
\* runtime knows it, over crashes, I/O errors and cancelled requests.
THEOREM ProvisionedStaysServed == Spec => []ProvisionedIsServed
<1>1. LifecycleInv => ProvisionedIsServed
  BY DEF LifecycleInv, Promises, Kept, ProvisionedIsServed
<1> QED
  BY <1>1, LifecycleAlways, PTL

\* What drop_tenant answered stays true, when no provisioning or other drop of the
\* tenant overlapped it: until somebody begins to provision or drop it again, nothing
\* of it is left on disk or in memory, over any number of restarts, unless a policy
\* update that had found the tenant wrote its record or policy after the drop took it
\* away.  Of such a tenant there is never more than that record and policy, or, once a
\* restart found the record, all of a tenant.
THEOREM DroppedStaysGone == Spec => []DroppedIsGone
<1>1. LifecycleInv => DroppedIsGone
  <2> SUFFICES ASSUME LifecycleInv, NEW t \in Tenants, Absent(t)
               PROVE  \/ /\ families[t] = {} /\ meta[t] = NoPolicy
                         /\ policies[t] = NoPolicy /\ registered[t] = {}
                      \/ /\ t \in revived
                         /\ status = "up" =>
                              \/ families[t] = {} /\ registered[t] = {}
                              \/ /\ families[t] = Families /\ registered[t] = Parts
                                 /\ meta[t] # NoPolicy /\ policies[t] # NoPolicy
    BY DEF LifecycleInv, Promises, Kept, DroppedIsGone
  <2> QED
    BY DEF Absent
<1> QED
  BY <1>1, LifecycleAlways, PTL

\* The queue lock serializes the work on a backlog, for any number of threads and
\* whatever lock objects drops take out of the map.
THEOREM BacklogSerialized == Spec => []QueueSerialized
<1>1. ASSUME TypeOK, QueueLocks
      PROVE  QueueSerialized
  BY <1>1 DEF QueueLocks, QueueSerialized, Using, HoldPCs
<1>2. LifecycleInv => TypeOK
  BY DEF LifecycleInv
<1> QED
  BY <1>1, <1>2, LifecycleAlways, PTL
=============================================================================
