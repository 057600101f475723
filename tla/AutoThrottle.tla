----------------------------- MODULE AutoThrottle -----------------------------
(***************************************************************************)
(* Adaptive throttling: the stats daemon's evaluate, apply_throttle and    *)
(* release_throttle, the operators' requests that touch a tenant's policy, *)
(* the scheduler policy they all write, the throttle record in __system__, *)
(* and restore_from_store at start-up.                                     *)
(*                                                                         *)
(* A throttle lives in three places: the policy in WFQScheduler, the       *)
(* ThrottleState in `states` and the PersistedThrottle on disk.  Each is   *)
(* read and written by a step of its own; only `states` entries are        *)
(* guarded, by the shard lock that a DashMap Ref holds.                    *)
(***************************************************************************)
EXTENDS Integers

CONSTANTS
  Tenants,
  Daemon,         \* the stats daemon
  Operators,      \* control-plane handlers
  None,           \* no entry
  Plans,          \* policies a tenant may be provisioned with
  Updates,        \* policies an UpdatePolicy call may carry
  Requests,       \* the kinds of request the operators send
  Divisor,        \* 1 / reduction_factor
  MinRateFloor    \* min_rate_floor

\* Bounds of the model; the code has none of them.
CONSTANTS
  MaxThrottles,   \* throttles ever applied
  MaxRestarts,    \* process restarts
  MaxPlans,       \* policies ever set by operators
  MaxFaults       \* writes to __system__ that fail

\* What AutoThrottle reads and writes of a TenantPolicy.
Policy == [rate : Nat, burst : Nat, maxInflight : Nat]

\* What SetNamespacePolicy gives every tenant, whatever its tier.
NamespacePlan == [rate |-> 100, burst |-> 100, maxInflight |-> 500]

\* What a ThrottleState and a PersistedThrottle say of the rate.
Throttle == [original : Nat, applied : Nat]

RequestKinds == {"force_release", "update_policy", "namespace", "provision", "drop"}

ASSUME ThrottleAssumption ==
  /\ Daemon \notin Operators
  /\ Tenants # {}
  /\ None \notin Tenants \cup Policy \cup Throttle
  /\ Plans \subseteq Policy
  /\ Updates \subseteq Policy
  /\ Requests \subseteq RequestKinds
  /\ Divisor \in Nat \ {0}
  /\ MinRateFloor \in Nat
  /\ MaxThrottles \in Nat
  /\ MaxRestarts \in Nat
  /\ MaxPlans \in Nat
  /\ MaxFaults \in Nat

VARIABLES
  plan,           \* tenant -> policy in its record, in __system__
  sched,          \* tenant -> policy the scheduler applies
  states,         \* tenant -> ThrottleState in memory
  stored,         \* tenant -> PersistedThrottle in __system__
  cooling,        \* tenants whose last cooldown_until is still ahead
  load,           \* tenant -> what the statistics being evaluated say
  todo,           \* statistics the daemon has still to evaluate
  ref,            \* tenant whose `states` entry the daemon holds a Ref of
  pc, reg,        \* where each process is, and its local variables
  throttles, restarts, plans, faults,  \* used up so far, of the bounds
  lastSet,        \* history: tenant -> policy last set by an operator or plan
  cuts,           \* history: tenant -> throttles applied to that policy
  overridden,     \* history: tenants whose policy was set under a throttle
  restored,       \* history: tenants whose throttle is one a restart restored
  unsynced        \* history: tenants whose record missed a write, or lost it

Procs == {Daemon} \cup Operators
Loads == {"hot", "mid", "calm"}
procVars == <<todo, ref, pc, reg>>
boundVars == <<throttles, restarts, plans, faults>>
historyVars == <<lastSet, cuts, overridden, restored, unsynced>>
vars == <<plan, sched, states, stored, cooling, load, procVars, boundVars, historyVars>>

PCs ==
  {"idle", "evaluate", "app_read", "app_update", "app_persist", "app_insert",
   "rel_read", "rel_update", "rel_clear", "rel_remove"}

\* The tenant, the policy read from the scheduler, the throttle built or read.
Registers == [t : Tenants, pol : Policy \cup {None}, thr : Throttle \cup {None}]

NoRegisters == [t |-> CHOOSE t \in Tenants : TRUE, pol |-> None, thr |-> None]

TypeOK ==
  /\ plan \in [Tenants -> Plans \cup {NamespacePlan, None}]
  /\ sched \in [Tenants -> Policy \cup {None}]
  /\ states \in [Tenants -> Throttle \cup {None}]
  /\ stored \in [Tenants -> Throttle \cup {None}]
  /\ cooling \subseteq Tenants
  /\ load \in [Tenants -> Loads]
  /\ todo \subseteq Tenants
  /\ ref \in Tenants \cup {None}
  /\ pc \in [Procs -> PCs]
  /\ reg \in [Procs -> Registers]
  /\ throttles \in 0 .. MaxThrottles
  /\ restarts \in 0 .. MaxRestarts
  /\ plans \in 0 .. MaxPlans
  /\ faults \in 0 .. MaxFaults
  /\ lastSet \in [Tenants -> Policy \cup {None}]
  /\ cuts \in [Tenants -> 0 .. MaxThrottles]
  /\ overridden \subseteq Tenants
  /\ restored \subseteq Tenants
  /\ unsynced \subseteq Tenants

\* No statistics are being evaluated.
Unloaded == [t \in Tenants |-> "mid"]

\* The server running with every tenant provisioned and nothing throttled.
Init ==
  /\ plan \in [Tenants -> Plans]
  /\ sched = plan
  /\ states = [t \in Tenants |-> None]
  /\ stored = [t \in Tenants |-> None]
  /\ cooling = {}
  /\ load = Unloaded
  /\ todo = {}
  /\ ref = None
  /\ pc = [p \in Procs |-> "idle"]
  /\ reg = [p \in Procs |-> NoRegisters]
  /\ throttles = 0
  /\ restarts = 0
  /\ plans = 0
  /\ faults = 0
  /\ lastSet = plan
  /\ cuts = [t \in Tenants |-> 0]
  /\ overridden = {}
  /\ restored = {}
  /\ unsynced = {}

Goto(p, l) == pc' = [pc EXCEPT ![p] = l]
Locals(p, g) == reg' = [reg EXCEPT ![p] = g]

\* The daemon goes on to the next statistics and gives up its Ref; an
\* operator's call returns.
Finish(p) ==
  /\ Goto(p, IF p = Daemon THEN "evaluate" ELSE "idle")
  /\ Locals(p, NoRegisters)
  /\ ref' = IF p = Daemon THEN None ELSE ref

\* A write to __system__ fails; the code only logs that.
Fault == faults < MaxFaults /\ faults' = faults + 1

\* Someone is in the middle of a throttle or a release of t.
Busy(t) == \E p \in Procs : pc[p] \notin {"idle", "evaluate"} /\ reg[p].t = t

(***************************************************************************)
(* evaluate                                                                *)
(***************************************************************************)
\* The daemon evaluates the statistics of tenants S, which say l.
CycleBegin(S, l) ==
  /\ pc[Daemon] = "idle"
  /\ load' = l
  /\ todo' = S
  /\ Goto(Daemon, "evaluate")
  /\ UNCHANGED <<plan, sched, states, stored, cooling, ref, reg, boundVars, historyVars>>

CycleEnd ==
  /\ pc[Daemon] = "evaluate"
  /\ todo = {}
  /\ load' = Unloaded
  /\ Goto(Daemon, "idle")
  /\ UNCHANGED <<plan, sched, states, stored, cooling, todo, ref, reg, boundVars, historyVars>>

\* Faulty variant: does not look for an existing state.
UnthrottledIgnored(t) == TRUE

\* states.get(tenant) finds no throttled state.
Unthrottled(t) == states[t] = None

ShouldThrottle(t) == load[t] = "hot"

\* cooldown_done, burst_ok, backlog_ok and rate_ok.
MayRelease(t) == t \notin cooling /\ load[t] = "calm"

EvaluateSkip(t) ==
  /\ pc[Daemon] = "evaluate"
  /\ t \in todo
  /\ IF Unthrottled(t) THEN ~ShouldThrottle(t) ELSE ~MayRelease(t)
  /\ todo' = todo \ {t}
  /\ UNCHANGED <<plan, sched, states, stored, cooling, load, ref, pc, reg,
                 boundVars, historyVars>>

\* `existing`, the Ref states.get returned, lives until the end of its block:
\* release_throttle runs inside it.
EvaluateRelease(t) ==
  /\ pc[Daemon] = "evaluate"
  /\ t \in todo
  /\ ~Unthrottled(t)
  /\ MayRelease(t)
  /\ todo' = todo \ {t}
  /\ ref' = t
  /\ Locals(Daemon, [t |-> t, pol |-> None, thr |-> states[t]])
  /\ Goto(Daemon, "rel_read")
  /\ UNCHANGED <<plan, sched, states, stored, cooling, load, boundVars, historyVars>>

EvaluateApply(t) ==
  /\ pc[Daemon] = "evaluate"
  /\ t \in todo
  /\ Unthrottled(t)
  /\ ShouldThrottle(t)
  /\ throttles < MaxThrottles
  /\ throttles' = throttles + 1
  /\ todo' = todo \ {t}
  /\ Locals(Daemon, [t |-> t, pol |-> None, thr |-> None])
  /\ Goto(Daemon, "app_read")
  /\ UNCHANGED <<plan, sched, states, stored, cooling, load, ref, restarts, plans, faults,
                 historyVars>>

Evaluate ==
  \/ \E l \in [Tenants -> Loads] : CycleBegin({t \in Tenants : plan[t] # None}, l)
  \/ CycleEnd
  \/ \E t \in Tenants : EvaluateSkip(t) \/ EvaluateRelease(t) \/ EvaluateApply(t)

(***************************************************************************)
(* apply_throttle                                                          *)
(***************************************************************************)
Larger(a, b) == IF a >= b THEN a ELSE b

ReducedRate(rate) == Larger(rate \div Divisor, MinRateFloor)

\* Faulty variant: max_inflight is cut by an amount, not by a factor.
ThrottledByAmount(pol) ==
  [rate |-> ReducedRate(pol.rate), burst |-> Larger(ReducedRate(pol.rate), 1),
   maxInflight |-> pol.maxInflight - 200]

\* Faulty variant: the rate is left as it is.
ThrottledInflightOnly(pol) == [pol EXCEPT !.maxInflight = @ \div Divisor]

Throttled(pol) ==
  [rate |-> ReducedRate(pol.rate), burst |-> Larger(ReducedRate(pol.rate), 1),
   maxInflight |-> pol.maxInflight \div Divisor]

\* scheduler.policy(tenant); a tenant the scheduler does not know is left alone.
ApplyRead ==
  LET t == reg[Daemon].t
  IN  /\ pc[Daemon] = "app_read"
      /\ IF sched[t] = None
           THEN Finish(Daemon)
           ELSE /\ Locals(Daemon, [t |-> t, pol |-> sched[t],
                                   thr |-> [original |-> sched[t].rate,
                                            applied |-> ReducedRate(sched[t].rate)]])
                /\ Goto(Daemon, "app_update")
                /\ UNCHANGED ref
      /\ UNCHANGED <<plan, sched, states, stored, cooling, load, todo, boundVars, historyVars>>

\* scheduler.update_policy, which inserts a tenant that is not there.
ApplyUpdate ==
  /\ pc[Daemon] = "app_update"
  /\ sched' = [sched EXCEPT ![reg[Daemon].t] = Throttled(reg[Daemon].pol)]
  /\ cuts' = [cuts EXCEPT ![reg[Daemon].t] = @ + 1]
  /\ Goto(Daemon, "app_persist")
  /\ UNCHANGED <<plan, states, stored, cooling, load, todo, ref, reg, boundVars,
                 lastSet, overridden, restored, unsynced>>

\* persist_throttle
ApplyPersist ==
  LET t == reg[Daemon].t
  IN  /\ pc[Daemon] = "app_persist"
      /\ \/ /\ stored' = [stored EXCEPT ![t] = reg[Daemon].thr]
            /\ unsynced' = unsynced \ {t}
            /\ UNCHANGED faults
         \/ /\ Fault
            /\ unsynced' = unsynced \cup {t}
            /\ UNCHANGED stored
      /\ cooling' = cooling \cup {t}
      /\ Goto(Daemon, "app_insert")
      /\ UNCHANGED <<plan, sched, states, load, todo, ref, reg, throttles, restarts, plans,
                     lastSet, cuts, overridden, restored>>

ApplyInsert ==
  /\ pc[Daemon] = "app_insert"
  /\ states' = [states EXCEPT ![reg[Daemon].t] = reg[Daemon].thr]
  /\ Finish(Daemon)
  /\ UNCHANGED <<plan, sched, stored, cooling, load, todo, boundVars, historyVars>>

Apply == ApplyRead \/ ApplyUpdate \/ ApplyPersist \/ ApplyInsert

(***************************************************************************)
(* release_throttle, called by evaluate and by force_release               *)
(***************************************************************************)
ReleaseRead(p) ==
  LET t == reg[p].t
  IN  /\ pc[p] = "rel_read"
      /\ Locals(p, [reg[p] EXCEPT !.pol = sched[t]])
      /\ Goto(p, IF sched[t] = None THEN "rel_clear" ELSE "rel_update")
      /\ UNCHANGED <<plan, sched, states, stored, cooling, load, todo, ref,
                     boundVars, historyVars>>

\* The rate and the burst go back; max_inflight stays reduced.
ReleaseUpdate(p) ==
  /\ pc[p] = "rel_update"
  /\ sched' = [sched EXCEPT ![reg[p].t] =
                 [reg[p].pol EXCEPT !.rate = reg[p].thr.original, !.burst = reg[p].thr.original]]
  /\ Goto(p, "rel_clear")
  /\ UNCHANGED <<plan, states, stored, cooling, load, todo, ref, reg, boundVars, historyVars>>

\* clear_throttle
ClearRecord(t) ==
  \/ /\ stored' = [stored EXCEPT ![t] = None]
     /\ UNCHANGED faults
  \/ /\ Fault
     /\ UNCHANGED stored

ReleaseClear(p) ==
  /\ pc[p] = "rel_clear"
  /\ ClearRecord(reg[p].t)
  /\ unsynced' = IF stored'[reg[p].t] = None THEN unsynced \ {reg[p].t}
                 ELSE unsynced \cup {reg[p].t}
  /\ Goto(p, "rel_remove")
  /\ UNCHANGED <<plan, sched, states, cooling, load, todo, ref, reg, throttles, restarts, plans,
                 lastSet, cuts, overridden, restored>>

\* states.remove waits for the shard's write lock, so for every Ref into it,
\* the caller's own one included (each tenant is given a shard of its own).
ReleaseRemove(p) ==
  /\ pc[p] = "rel_remove"
  /\ ref # reg[p].t
  /\ states' = [states EXCEPT ![reg[p].t] = None]
  /\ restored' = restored \ {reg[p].t}
  /\ Finish(p)
  /\ UNCHANGED <<plan, sched, stored, cooling, load, todo, boundVars,
                 lastSet, cuts, overridden, unsynced>>

Release(p) == ReleaseRead(p) \/ ReleaseUpdate(p) \/ ReleaseClear(p) \/ ReleaseRemove(p)

(***************************************************************************)
(* Operators                                                               *)
(***************************************************************************)
\* force_release drops its Ref before it releases.
ForceRelease(o, t) ==
  /\ "force_release" \in Requests
  /\ pc[o] = "idle"
  /\ states[t] # None
  /\ Locals(o, [t |-> t, pol |-> None, thr |-> states[t]])
  /\ Goto(o, "rel_read")
  /\ UNCHANGED <<plan, sched, states, stored, cooling, load, todo, ref, boundVars, historyVars>>

\* Nothing in memory: only the record on disk is cleared.
ForceReleaseUnknown(o, t) ==
  /\ "force_release" \in Requests
  /\ pc[o] = "idle"
  /\ states[t] = None
  /\ ClearRecord(t)
  /\ unsynced' = IF stored'[t] = None /\ ~Busy(t) THEN unsynced \ {t} ELSE unsynced \cup {t}
  /\ UNCHANGED <<plan, sched, states, cooling, load, procVars, throttles, restarts, plans,
                 lastSet, cuts, overridden, restored>>

\* Policy pol is set for t, by whoever decides on it; while t is throttled, what
\* the throttle read before is out of date.
PolicySet(t, pol) ==
  /\ sched' = [sched EXCEPT ![t] = pol]
  /\ lastSet' = [lastSet EXCEPT ![t] = pol]
  /\ cuts' = [cuts EXCEPT ![t] = 0]
  /\ overridden' = IF states[t] # None \/ Busy(t) THEN overridden \cup {t}
                   ELSE overridden \ {t}
  /\ UNCHANGED <<restored, unsynced>>

\* UpdatePolicy goes straight to the scheduler, and nowhere else.
UpdatePolicy(o, t, pol) ==
  /\ "update_policy" \in Requests
  /\ pc[o] = "idle"
  /\ plans < MaxPlans
  /\ plans' = plans + 1
  /\ PolicySet(t, pol)
  /\ UNCHANGED <<plan, states, stored, cooling, load, procVars, throttles, restarts, faults>>

\* SetNamespacePolicy is about the backlog and its retention, and rewrites the whole
\* record for it; the scheduler learns of that at the next start.
SetNamespacePolicy(o, t) ==
  /\ "namespace" \in Requests
  /\ pc[o] = "idle"
  /\ plan[t] # None
  /\ plans < MaxPlans
  /\ plans' = plans + 1
  /\ plan' = [plan EXCEPT ![t] = NamespacePlan]
  /\ UNCHANGED <<sched, states, stored, cooling, load, procVars, throttles, restarts, faults,
                 historyVars>>

\* DropTenant forgets the tenant everywhere but in AutoThrottle and its record.
DropTenant(o, t) ==
  /\ "drop" \in Requests
  /\ pc[o] = "idle"
  /\ plan[t] # None
  /\ plan' = [plan EXCEPT ![t] = None]
  /\ sched' = [sched EXCEPT ![t] = None]
  /\ lastSet' = [lastSet EXCEPT ![t] = None]
  /\ UNCHANGED <<states, stored, cooling, load, procVars, boundVars,
                 cuts, overridden, restored, unsynced>>

ProvisionTenant(o, t, pol) ==
  /\ "provision" \in Requests
  /\ pc[o] = "idle"
  /\ plan[t] = None
  /\ plans < MaxPlans
  /\ plans' = plans + 1
  /\ plan' = [plan EXCEPT ![t] = pol]
  /\ PolicySet(t, pol)
  /\ UNCHANGED <<states, stored, cooling, load, procVars, throttles, restarts, faults>>

Operate(o) ==
  \/ \E t \in Tenants : ForceRelease(o, t) \/ ForceReleaseUnknown(o, t)
                         \/ SetNamespacePolicy(o, t) \/ DropTenant(o, t)
  \/ \E t \in Tenants, pol \in Updates : UpdatePolicy(o, t, pol)
  \/ \E t \in Tenants, pol \in Plans : ProvisionTenant(o, t, pol)

(***************************************************************************)
(* Time and restarts                                                       *)
(***************************************************************************)
CooldownEnds(t) ==
  /\ t \in cooling
  /\ cooling' = cooling \ {t}
  /\ UNCHANGED <<plan, sched, states, stored, load, procVars, boundVars, historyVars>>

\* A record restore_from_store re-applies; the others it clears.
Restorable(t) == stored[t] # None /\ t \in cooling

\* restore_from_store lowers the rate of a tenant the scheduler knows.
Reapplied(s) ==
  [t \in Tenants |-> IF Restorable(t) /\ s[t] # None
                     THEN [s[t] EXCEPT !.rate = stored[t].applied,
                                       !.burst = Larger(stored[t].applied, 1)]
                     ELSE s[t]]

\* main's loop of scheduler.register over the persisted tenants.
Registered(s) == [t \in Tenants |-> IF plan[t] # None THEN plan[t] ELSE s[t]]

\* Faulty variant: a record is consumed when it is restored.
RecordsConsumed == [t \in Tenants |-> None]

\* The records left on disk: those whose cooldown is over are cleared.
RecordsKept == [t \in Tenants |-> IF Restorable(t) THEN stored[t] ELSE None]

\* main restores the throttles first and registers the tenants afterwards.
Restart ==
  /\ restarts < MaxRestarts
  /\ restarts' = restarts + 1
  /\ sched' = Registered(Reapplied([t \in Tenants |-> None]))
  /\ states' = [t \in Tenants |-> IF Restorable(t) THEN stored[t] ELSE None]
  /\ \/ stored' = RecordsKept /\ UNCHANGED faults
     \/ stored # RecordsKept /\ UNCHANGED stored /\ Fault
  /\ load' = Unloaded
  /\ todo' = {}
  /\ ref' = None
  /\ pc' = [p \in Procs |-> "idle"]
  /\ reg' = [p \in Procs |-> NoRegisters]
  /\ lastSet' = plan
  /\ cuts' = [t \in Tenants |-> 0]
  /\ restored' = {t \in Tenants : Restorable(t)}
  /\ overridden' = {t \in restored' : t \in overridden \cup unsynced \/ lastSet[t] # plan[t]}
  /\ unsynced' = {t \in Tenants : stored'[t] # None /\ ~Restorable(t)}
  /\ UNCHANGED <<plan, cooling, throttles, plans>>

Next ==
  \/ Evaluate
  \/ Apply
  \/ \E p \in Procs : Release(p)
  \/ \E o \in Operators : Operate(o)
  \/ \E t \in Tenants : CooldownEnds(t)
  \/ Restart

Spec == Init /\ [][Next]_vars

\* The daemon's task is scheduled for ever, and the clock moves.
FairSpec ==
  /\ Spec
  /\ WF_vars(Evaluate)
  /\ WF_vars(Apply)
  /\ \A p \in Procs : WF_vars(Release(p))
  /\ \A t \in Tenants : WF_vars(CooldownEnds(t))

(***************************************************************************)
(* Properties                                                              *)
(***************************************************************************)
\* The first four of these are properties of operators who take turns with a
\* tenant.  The code does not see to that: force_release gives up its Ref, so that
\* two calls may find the same throttle, and the slower one then undoes the
\* throttle that the daemon has applied after the faster one.

\* A tenant that is reported as throttled is throttled: the scheduler gives it
\* no more than the rate that was applied.  Two ways lead out of this: setting a
\* policy under a throttle, and a restart, where main registers the persisted
\* policies after the throttles were restored.
ThrottleInForce ==
  \A t \in Tenants :
    ~Busy(t) /\ states[t] # None /\ sched[t] # None /\ t \notin overridden \cup restored =>
      sched[t].rate <= states[t].applied

\* A throttle is temporary: a provisioned tenant that is not throttled has the
\* rate last given to it, however often and by whomever it was throttled and
\* released, and wherever the process died in between, unless its policy was
\* set under the throttle, whose release then brings the older rate back.  The
\* burst that was set does not come back: after a throttle it is the rate.
RateRestored ==
  \A t \in Tenants : ~Busy(t) /\ plan[t] # None /\ states[t] = None /\ t \notin overridden =>
    /\ sched[t].rate = lastSet[t].rate
    /\ sched[t].burst \in {lastSet[t].burst, lastSet[t].rate}

\* A throttle is in memory exactly when it is on disk, so that a restart finds
\* it, and finds no other, unless it is just being applied or released, or its
\* record missed a write that failed, or a forced release that found nothing in
\* memory cleared the record of a throttle that was being applied.
ThrottlePersisted ==
  \A t \in Tenants : ~Busy(t) /\ t \notin unsynced => stored[t] = states[t]

\* The k-th power of the divisor.
Power[k \in Nat] == IF k = 0 THEN 1 ELSE Power[k - 1] * Divisor

\* Every throttle divides max_inflight and no release gives it back: it depends
\* on the number of throttles since the policy was set, and on nothing else, so
\* that the tenant is shut out only after as many as the policy allows for.
MaxInflightDecays ==
  \A t \in Tenants : plan[t] # None /\ t \notin overridden =>
    sched[t].maxInflight = lastSet[t].maxInflight \div Power[cuts[t]]

\* A throttled tenant that every evaluation finds calm is released in the end.
CalmReleases ==
  \A t \in Tenants : (<>[](t \in todo => load[t] = "calm")) => []<>(states[t] = None)
=============================================================================
