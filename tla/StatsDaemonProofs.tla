-------------------------- MODULE StatsDaemonProofs --------------------------
(***************************************************************************)
(* StatsDaemon and, within it, AutoThrottle: for any number of tenants and *)
(* operators, any policies, and any number of throttles, failed writes and *)
(* restarts, a throttle is on disk exactly when it is in memory, it is in  *)
(* force, and its release brings the rate back; a promoted spike threshold *)
(* is never lost, and the totals are credible.                             *)
(*                                                                         *)
(* A throttle is written to three places by separate steps of two kinds of *)
(* process, so that the invariants say for every point of apply_throttle   *)
(* and release_throttle which of the three already agree.  What keeps the  *)
(* two apart is `states`: a throttle is applied where there is no state,   *)
(* and released where there is one (Exclusive).                            *)
(***************************************************************************)
EXTENDS StatsDaemon, SumsProofs

USE ThrottleAssumption, DaemonAssumption

(***************************************************************************)
(* AutoThrottle's invariants                                               *)
(***************************************************************************)
ReleasePCs == {"rel_read", "rel_update", "rel_clear", "rel_remove"}
ApplyPCs == {"app_read", "app_update", "app_persist", "app_insert"}

\* Process p is at one of L, on behalf of tenant t.
At(p, t, L) == pc[p] \in L /\ reg[p].t = t

\* What the registers hold where they are used, and that the daemon holds a Ref
\* through all of its releases.
Shape ==
  /\ \A o \in Operators : pc[o] \in {"idle"} \cup ReleasePCs
  /\ pc[Daemon] \in ApplyPCs \ {"app_read"} =>
       /\ reg[Daemon].pol # None
       /\ reg[Daemon].thr # None
       /\ reg[Daemon].thr.applied = ReducedRate(reg[Daemon].pol.rate)
  /\ \A p \in Procs : pc[p] \in ReleasePCs => reg[p].thr # None
  /\ \A p \in Procs : pc[p] = "rel_update" => reg[p].pol # None
  /\ pc[Daemon] \in ReleasePCs => ref = reg[Daemon].t
  /\ \A t \in Tenants : cuts[t] <= throttles
  /\ pc[Daemon] \in {"app_read", "app_update"} => cuts[reg[Daemon].t] < throttles
  /\ \A t \in Tenants : plan[t] # None => sched[t] # None /\ lastSet[t] # None

ThrottleTypes == TypeOK /\ Shape

\* No two operators force the release of the same tenant at the same time.
OneRelease ==
  \A o \in Operators, q \in Operators :
    pc[o] # "idle" /\ pc[q] # "idle" /\ reg[o].t = reg[q].t => o = q

\* Whoever releases a throttle releases the one in memory, and none is applied
\* meanwhile.
Exclusive ==
  \A t \in Tenants :
    /\ \A p \in Procs : At(p, t, ReleasePCs) => states[t] # None /\ reg[p].thr = states[t]
    /\ At(Daemon, t, ApplyPCs) => states[t] = None
    /\ t \in restored => states[t] # None

\* What the record is, at every point of applying and releasing.
Recorded ==
  \A t \in Tenants \ unsynced :
    stored[t] = IF At(Daemon, t, {"app_insert"}) THEN reg[Daemon].thr
                ELSE IF \E p \in Procs : At(p, t, {"rel_remove"}) THEN None
                ELSE states[t]

\* The scheduler has the rate last set for t.
Given(t) ==
  /\ sched[t].rate = lastSet[t].rate
  /\ sched[t].burst \in {lastSet[t].burst, lastSet[t].rate}

\* Every throttle remembers the rate last set, and the scheduler has that rate
\* until the throttle cuts it and from when the release restores it.
Rates ==
  \A t \in Tenants : plan[t] # None /\ t \notin overridden =>
    /\ states[t] # None => states[t].original = lastSet[t].rate
    /\ At(Daemon, t, ApplyPCs \ {"app_read"}) => reg[Daemon].thr.original = lastSet[t].rate
    /\ states[t] = None /\ ~At(Daemon, t, {"app_persist", "app_insert"}) => Given(t)
    /\ (\E p \in Procs : At(p, t, {"rel_clear", "rel_remove"})) => Given(t)

\* The rate is cut from when the scheduler is told until the release restores it.
InForce ==
  \A t \in Tenants : sched[t] # None /\ t \notin overridden =>
    /\ At(Daemon, t, {"app_persist", "app_insert"}) =>
         sched[t].rate <= reg[Daemon].thr.applied
    /\ states[t] # None /\ t \notin restored
         /\ ~(\E p \in Procs : At(p, t, {"rel_clear", "rel_remove"})) =>
         sched[t].rate <= states[t].applied

\* max_inflight is that of the policy last set, divided once for every throttle,
\* and so is the one in the policy that a throttle or a release is about to write.
Decayed ==
  \A t \in Tenants : plan[t] # None /\ t \notin overridden =>
    /\ sched[t].maxInflight = lastSet[t].maxInflight \div Power[cuts[t]]
    /\ \A p \in Procs : At(p, t, {"app_update", "rel_update"}) =>
         reg[p].pol.maxInflight = sched[t].maxInflight

ThrottleInv == ThrottleTypes /\ Exclusive /\ Recorded /\ Rates /\ InForce

(***************************************************************************)
(* StatsDaemon's invariants                                                *)
(***************************************************************************)
\* No count in f exceeds what was accepted.
Covered(f) == \A t \in Known(f) : f[t] <= accepted[t]

\* Both registries know the tenants that are provisioned; no count exceeds what was
\* accepted; and but for what warm_from_store filled in, the totals that are shown
\* do not exceed the counters they are copied from.
Totals ==
  /\ \A t \in Tenants : counted[t] = None <=> plan[t] = None
  /\ \A t \in Tenants : total[t] = None <=> plan[t] = None
  /\ Covered(counted) /\ Covered(total) /\ Covered(snap) /\ Covered(savedTotal)
  /\ \A t \in Known(total) \ warmed : total[t] <= counted[t]

\* A promotion is in memory and not yet saved, of one tenant at a time.
Promoted(t) == stage = "promoted" /\ t \in Known(bsnap)

\* The throttles are evaluated in their stage only.  Memory and record agree, and
\* so does a snapshot that is still to be written.
Thresholds ==
  /\ pc[Daemon] # "idle" => stage = "throttles"
  /\ stage = "promoted" => \E t \in Tenants : Known(bsnap) = {t}
  /\ \A t \in Known(threshold) \ unsaved : ~Promoted(t) => threshold[t] = WarmThreshold(t)
  /\ stage = "flush_baselines" =>
       left \subseteq Known(bsnap) /\ \A t \in left \ unsaved : bsnap[t] = WarmThreshold(t)

StatsInv == ThrottleTypes /\ StatsTypeOK /\ Totals /\ Thresholds

(***************************************************************************)
(* AutoThrottle's steps, as either specification takes them                *)
(***************************************************************************)
ThrottleStep ==
  \/ \E S \in SUBSET Tenants, l \in [Tenants -> Loads] : CycleBegin(S, l)
  \/ CycleEnd
  \/ \E t \in Tenants : EvaluateSkip(t) \/ EvaluateRelease(t) \/ EvaluateApply(t)
  \/ Apply
  \/ \E p \in Procs : Release(p)
  \/ \E o \in Operators : Operate(o)
  \/ \E t \in Tenants : CooldownEnds(t)
  \/ Restart
  \/ FailedWrite

LEMMA StatsThrottleStep ==
  ASSUME [StatsNext]_allVars
  PROVE  [ThrottleStep]_vars
<1>1. CASE UNCHANGED allVars
  BY <1>1 DEF allVars
<1>2. CASE DaemonStep
  <2>1. ASSUME NEW l \in [Tenants -> Loads], EvaluateBegin(l)
        PROVE  ThrottleStep
    <3>1. Known(snap) \in SUBSET Tenants /\ CycleBegin(Known(snap), l)
      BY <2>1 DEF EvaluateBegin, Known
    <3> QED
      BY <3>1 DEF ThrottleStep
  <2>2. EvaluateStep \/ EvaluateEnd => ThrottleStep
    BY DEF EvaluateStep, EvaluateEnd, ThrottleStep, Procs
  <2>3. ASSUME NEW t \in Tenants, FlushPromotion(t) \/ FlushStats(t) \/ FlushBaseline(t)
        PROVE  UNCHANGED vars \/ FailedWrite
    BY <2>3 DEF FlushPromotion, FlushStats, FlushBaseline, SaveThreshold
  <2>4. Refresh \/ FlushBegin \/ (\E t \in Tenants : Unpromoted(t) \/ Promote(t))
          => UNCHANGED vars
    BY DEF Refresh, FlushBegin, Unpromoted, Promote
  <2> QED
    BY <1>2, <2>1, <2>2, <2>3, <2>4 DEF DaemonStep, ThrottleStep
<1>3. CASE \E o \in Operators : Release(o) /\ UNCHANGED statsVars
  BY <1>3 DEF ThrottleStep, Procs
<1>4. CASE \E o \in Operators : StatsOperate(o)
  BY <1>4 DEF StatsOperate, StatsDrop, StatsProvision, Operate, ThrottleStep
<1>5. CASE \E t \in Tenants : RecordEnqueue(t)
  BY <1>5 DEF RecordEnqueue
<1>6. CASE \E t \in Tenants : CooldownEnds(t) /\ UNCHANGED statsVars
  BY <1>6 DEF ThrottleStep
<1>7. CASE StatsRestart
  BY <1>7 DEF StatsRestart, ThrottleStep
<1> QED
  BY <1>1, <1>2, <1>3, <1>4, <1>5, <1>6, <1>7 DEF StatsNext

(***************************************************************************)
(* Division                                                                *)
(***************************************************************************)
LEMMA DivisionType == \A n \in Nat : n \div Divisor \in Nat
OBVIOUS

LEMMA NestedDivision ==
  \A a \in Nat, n \in Nat \ {0} : (a \div n) \div Divisor = a \div (n * Divisor)
OBVIOUS

LEMMA DivisionByOne == \A pol \in Policy : pol.maxInflight \div 1 = pol.maxInflight
BY DEF Policy

(***************************************************************************)
(* Powers of the divisor                                                   *)
(***************************************************************************)
\* f holds the powers of the divisor up to the n-th.
PowersUpTo(f, n) ==
  /\ f \in [0..n -> Nat \ {0}]
  /\ f[0] = 1
  /\ \A k \in 1..n : f[k] = f[k - 1] * Divisor

LEMMA PositiveProduct == \A n \in Nat \ {0} : n * Divisor \in Nat \ {0}
OBVIOUS

LEMMA PowersExist == \A n \in Nat : \E f : PowersUpTo(f, n)
<1> DEFINE Bad == {n \in Nat : ~\E f : PowersUpTo(f, n)}
<1>1. 0 \notin Bad
  <2>1. PowersUpTo([k \in 0..0 |-> 1], 0)
    BY DEF PowersUpTo
  <2> QED
    BY <2>1
<1>2. ASSUME NEW n \in Nat, NEW f, PowersUpTo(f, n) PROVE \E g : PowersUpTo(g, n + 1)
  <2> DEFINE g == [k \in 0..(n + 1) |-> IF k = n + 1 THEN f[n] * Divisor ELSE f[k]]
  <2>1. f \in [0..n -> Nat \ {0}] /\ f[0] = 1 /\ \A k \in 1..n : f[k] = f[k - 1] * Divisor
    BY <1>2 DEF PowersUpTo
  <2>2. f[n] * Divisor \in Nat \ {0}
    BY <2>1, PositiveProduct
  <2>3. g \in [0..(n + 1) -> Nat \ {0}] /\ g[0] = 1
    BY <2>1, <2>2
  <2>4. ASSUME NEW k \in 1..(n + 1) PROVE g[k] = g[k - 1] * Divisor
    <3>1. CASE k = n + 1
      BY <3>1
    <3>2. CASE k # n + 1
      <4>1. k \in 1..n /\ k - 1 \in 0..n /\ k \in 0..(n + 1) /\ k - 1 \in 0..(n + 1) /\ k - 1 # n + 1
        BY <3>2
      <4>2. g[k] = f[k] /\ g[k - 1] = f[k - 1]
        BY <3>2, <4>1
      <4> QED
        BY <2>1, <4>1, <4>2
    <3> QED
      BY <3>1, <3>2
  <2> HIDE DEF g
  <2> QED
    BY <2>3, <2>4 DEF PowersUpTo
<1>3. SUFFICES ASSUME Bad # {} PROVE FALSE
  OBVIOUS
<1>4. PICK n \in Bad : \A m \in Bad : n <= m
  <2>1. Bad \in SUBSET Nat
    OBVIOUS
  <2> HIDE DEF Bad
  <2> QED
    BY <1>3, <2>1, LeastNumber
<1>5. n \in Nat /\ n # 0
  BY <1>1
<1>6. n - 1 \in Nat /\ n - 1 \notin Bad /\ n - 1 + 1 = n
  <2> HIDE DEF Bad
  <2> QED
    BY <1>4, <1>5
<1>7. \E f : PowersUpTo(f, n - 1)
  BY <1>6
<1> QED
  BY <1>2, <1>6, <1>7

\* Two such functions agree where both are defined.
LEMMA PowersAgree ==
  ASSUME NEW m \in Nat, NEW n \in Nat, NEW f, NEW g, PowersUpTo(f, m), PowersUpTo(g, n), m <= n
  PROVE  f[m] = g[m]
<1> DEFINE Bad == {k \in 0..m : f[k] # g[k]}
<1>1. Bad = {}
  <2>1. SUFFICES ASSUME Bad # {} PROVE FALSE
    OBVIOUS
  <2>2. PICK k \in Bad : \A j \in Bad : k <= j
    <3>1. Bad \in SUBSET Nat
      OBVIOUS
    <3> HIDE DEF Bad
    <3> QED
      BY <2>1, <3>1, LeastNumber
  <2>3. k \in 0..m /\ f[k] # g[k]
    BY <2>2
  <2>4. k # 0
    BY <2>3 DEF PowersUpTo
  <2>5. k \in 1..m /\ k \in 1..n /\ k - 1 \in 0..m /\ ~(k <= k - 1)
    BY <2>3, <2>4
  <2>6. f[k - 1] = g[k - 1]
    BY <2>2, <2>5
  <2> QED
    BY <2>3, <2>5, <2>6 DEF PowersUpTo
<1> QED
  BY <1>1

LEMMA PowerObeys ==
  Power = [k \in Nat |-> IF k = 0 THEN 1 ELSE Power[k - 1] * Divisor]
<1> DEFINE F(n) == CHOOSE f : PowersUpTo(f, n)
           P == [n \in Nat |-> F(n)[n]]
<1>1. \A n \in Nat : PowersUpTo(F(n), n)
  BY PowersExist
<1>2. ASSUME NEW k \in Nat PROVE P[k] = IF k = 0 THEN 1 ELSE P[k - 1] * Divisor
  <2>1. CASE k = 0
    BY <1>1, <2>1 DEF PowersUpTo
  <2>2. CASE k # 0
    <3>1. k - 1 \in Nat /\ k \in 1..k /\ k - 1 <= k
      BY <2>2
    <3>2. F(k)[k] = F(k)[k - 1] * Divisor
      BY <1>1, <3>1 DEF PowersUpTo
    <3>3. PowersUpTo(F(k - 1), k - 1) /\ PowersUpTo(F(k), k)
      BY <1>1, <3>1
    <3> HIDE DEF F
    <3>4. F(k - 1)[k - 1] = F(k)[k - 1]
      BY <3>1, <3>3, PowersAgree
    <3> QED
      BY <2>2, <3>1, <3>2, <3>4
  <2> QED
    BY <2>1, <2>2
<1>3. P = [k \in Nat |-> IF k = 0 THEN 1 ELSE P[k - 1] * Divisor]
  <2> HIDE DEF F
  <2> QED
    BY <1>2
<1>4. \E g : g = [k \in Nat |-> IF k = 0 THEN 1 ELSE g[k - 1] * Divisor]
  <2> HIDE DEF P
  <2> QED
    BY <1>3
<1> QED
  BY <1>4, Zenon DEF Power

LEMMA PowerLaw ==
  /\ Power[0] = 1
  /\ \A k \in Nat : Power[k] \in Nat \ {0} /\ Power[k + 1] = Power[k] * Divisor
<1>1. Power[0] = 1 /\ \A k \in Nat : Power[k + 1] = Power[k] * Divisor
  <2> DEFINE R == [k \in Nat |-> IF k = 0 THEN 1 ELSE Power[k - 1] * Divisor]
  <2>1. \A k \in Nat : R[k + 1] = Power[k] * Divisor
    OBVIOUS
  <2>2. R[0] = 1 /\ R = Power
    BY PowerObeys
  <2> HIDE DEF R
  <2> QED
    BY <2>1, <2>2
<1> DEFINE Bad == {k \in Nat : Power[k] \notin Nat \ {0}}
<1>2. Bad = {}
  <2>1. SUFFICES ASSUME Bad # {} PROVE FALSE
    OBVIOUS
  <2>2. PICK k \in Bad : \A j \in Bad : k <= j
    <3>1. Bad \in SUBSET Nat
      OBVIOUS
    <3> HIDE DEF Bad
    <3> QED
      BY <2>1, <3>1, LeastNumber
  <2>3. k \in Nat /\ Power[k] \notin Nat \ {0} /\ k # 0
    BY <1>1, <2>2
  <2>4. k - 1 \in Nat /\ k - 1 + 1 = k /\ ~(k <= k - 1)
    BY <2>3
  <2>5. Power[k - 1] \in Nat \ {0}
    BY <2>2, <2>4
  <2>6. Power[k - 1] * Divisor \in Nat \ {0}
    BY <2>5, PositiveProduct
  <2> QED
    BY <1>1, <2>3, <2>4, <2>6
<1> QED
  BY <1>1, <1>2

(***************************************************************************)
(* Policies and registers                                                  *)
(***************************************************************************)
LEMMA ThrottledType ==
  \A pol \in Policy : /\ Throttled(pol) \in Policy
                      /\ Throttled(pol).rate = ReducedRate(pol.rate)
                      /\ ReducedRate(pol.rate) \in Nat
BY DivisionType DEF Throttled, ReducedRate, Larger, Policy

LEMMA NamespacePlanType == NamespacePlan \in Policy /\ NamespacePlan # None
<1>1. NamespacePlan \in Policy
  BY DEF NamespacePlan, Policy
<1> QED
  BY <1>1

\* What a tenant may be planned for is a policy.
LEMMA PlansType ==
  ASSUME TypeOK
  PROVE  plan \in [Tenants -> Policy \cup {None}]
BY NamespacePlanType DEF TypeOK

LEMMA NoRegistersType ==
  /\ NoRegisters \in Registers
  /\ NoRegisters.t \in Tenants
BY DEF NoRegisters, Registers

LEMMA DaemonNotOperator ==
  /\ Daemon \in Procs /\ Daemon \notin Operators
  /\ Procs = {Daemon} \cup Operators
BY DEF Procs

LEMMA ThrottleTypesInit ==
  ASSUME Init
  PROVE  ThrottleTypes
<1>1. TypeOK
  BY NoRegistersType DEF Init, TypeOK, Unloaded, Loads, PCs
<1>2. Shape
  BY DEF Init, Shape, ApplyPCs, ReleasePCs, Procs
<1> QED
  BY <1>1, <1>2 DEF ThrottleTypes

\* What the types say of a process that is in the middle of something.
LEMMA RegistersType ==
  ASSUME ThrottleTypes, NEW p \in Procs
  PROVE  /\ reg[p].t \in Tenants
         /\ pc[p] \in ReleasePCs => reg[p].thr \in Throttle
         /\ pc[p] = "rel_update" => reg[p].pol \in Policy
         /\ p = Daemon /\ pc[p] \in ApplyPCs \ {"app_read"} =>
              reg[p].pol \in Policy /\ reg[p].thr \in Throttle
BY DEF ThrottleTypes, TypeOK, Shape, Registers, Procs

LEMMA EvaluateTypes ==
  ASSUME ThrottleTypes,
         \/ \E S \in SUBSET Tenants, l \in [Tenants -> Loads] : CycleBegin(S, l)
         \/ CycleEnd
         \/ \E t \in Tenants : EvaluateSkip(t) \/ EvaluateRelease(t) \/ EvaluateApply(t)
  PROVE  ThrottleTypes'
<1>0. Daemon \in Procs /\ Daemon \notin Operators
  BY DEF Procs
<1>1. ASSUME NEW S \in SUBSET Tenants, NEW l \in [Tenants -> Loads], CycleBegin(S, l)
      PROVE  ThrottleTypes'
  <2>1. TypeOK'
    BY <1>0, <1>1 DEF CycleBegin, ThrottleTypes, TypeOK, Goto, PCs, boundVars, historyVars
  <2>2. Shape'
    BY <1>0, <1>1 DEF CycleBegin, ThrottleTypes, TypeOK, Shape, Goto, boundVars, historyVars,
                     ApplyPCs, ReleasePCs
  <2> QED
    BY <2>1, <2>2 DEF ThrottleTypes
<1>2. CASE CycleEnd
  <2>1. TypeOK'
    BY <1>0, <1>2 DEF CycleEnd, ThrottleTypes, TypeOK, Goto, PCs, boundVars, historyVars,
                     Unloaded, Loads
  <2>2. Shape'
    BY <1>0, <1>2 DEF CycleEnd, ThrottleTypes, TypeOK, Shape, Goto, boundVars, historyVars,
                     ApplyPCs, ReleasePCs
  <2> QED
    BY <2>1, <2>2 DEF ThrottleTypes
<1>3. ASSUME NEW t \in Tenants, EvaluateSkip(t)
      PROVE  ThrottleTypes'
  <2>1. TypeOK'
    BY <1>3 DEF EvaluateSkip, ThrottleTypes, TypeOK, boundVars, historyVars
  <2>2. Shape'
    BY <1>3 DEF EvaluateSkip, ThrottleTypes, Shape, boundVars, historyVars
  <2> QED
    BY <2>1, <2>2 DEF ThrottleTypes
<1>4. ASSUME NEW t \in Tenants, EvaluateRelease(t)
      PROVE  ThrottleTypes'
  <2>1. [t |-> t, pol |-> None, thr |-> states[t]] \in Registers /\ states[t] # None
    BY <1>4 DEF EvaluateRelease, Unthrottled, ThrottleTypes, TypeOK, Registers
  <2>2. TypeOK'
    BY <1>0, <1>4, <2>1 DEF EvaluateRelease, ThrottleTypes, TypeOK, Goto, Locals, PCs, boundVars,
                           historyVars
  <2>3. Shape'
    BY <1>0, <1>4, <2>1 DEF EvaluateRelease, ThrottleTypes, TypeOK, Shape, Goto, Locals, boundVars,
                           historyVars, ApplyPCs, ReleasePCs
  <2> QED
    BY <2>2, <2>3 DEF ThrottleTypes
<1>5. ASSUME NEW t \in Tenants, EvaluateApply(t)
      PROVE  ThrottleTypes'
  <2>1. [t |-> t, pol |-> None, thr |-> None] \in Registers
    BY DEF Registers
  <2>2. TypeOK'
    BY <1>0, <1>5, <2>1 DEF EvaluateApply, ThrottleTypes, TypeOK, Goto, Locals, PCs, historyVars
  <2>3. Shape'
    <3>1. \A s \in Tenants : cuts'[s] < throttles'
      BY <1>5 DEF EvaluateApply, ThrottleTypes, TypeOK, Shape, historyVars
    <3> QED
      BY <1>0, <1>5, <2>1, <3>1 DEF EvaluateApply, ThrottleTypes, TypeOK, Shape, Goto, Locals,
                                  historyVars, ApplyPCs, ReleasePCs
  <2> QED
    BY <2>2, <2>3 DEF ThrottleTypes
<1> QED
  BY <1>1, <1>2, <1>3, <1>4, <1>5

LEMMA ApplyTypes ==
  ASSUME ThrottleTypes, Apply
  PROVE  ThrottleTypes'
<1>0. Daemon \in Procs /\ Daemon \notin Operators /\ reg[Daemon].t \in Tenants
  BY RegistersType DEF Procs
<1>1. CASE ApplyRead
  <2> DEFINE t == reg[Daemon].t
             r == [t |-> t, pol |-> sched[t],
                   thr |-> [original |-> sched[t].rate, applied |-> ReducedRate(sched[t].rate)]]
  <2>1. CASE sched[t] = None
    <3>1. /\ pc' = [pc EXCEPT ![Daemon] = "evaluate"]
          /\ reg' = [reg EXCEPT ![Daemon] = NoRegisters]
          /\ ref' = None
      BY <1>1, <2>1 DEF ApplyRead, Finish, Goto, Locals
    <3>2. TypeOK'
      BY <1>0, <1>1, <3>1, NoRegistersType
         DEF ApplyRead, ThrottleTypes, TypeOK, PCs, boundVars, historyVars
    <3>3. Shape'
      BY <1>0, <1>1, <3>1 DEF ApplyRead, ThrottleTypes, TypeOK, Shape, boundVars, historyVars,
                            ApplyPCs, ReleasePCs
    <3> QED
      BY <3>2, <3>3 DEF ThrottleTypes
  <2>2. CASE sched[t] # None
    <3>1. /\ pc' = [pc EXCEPT ![Daemon] = "app_update"]
          /\ reg' = [reg EXCEPT ![Daemon] = r]
          /\ ref' = ref
      BY <1>1, <2>2 DEF ApplyRead, Goto, Locals
    <3>2. sched[t] \in Policy
      BY <1>0, <2>2 DEF ThrottleTypes, TypeOK
    <3>3. /\ r \in Registers /\ r.t = t /\ r.pol # None /\ r.thr # None
          /\ r.thr.applied = ReducedRate(r.pol.rate)
      BY <1>0, <3>2, ThrottledType DEF Registers, Throttle, Policy
    <3> HIDE DEF r
    <3>4. TypeOK'
      BY <1>0, <1>1, <3>1, <3>3 DEF ApplyRead, ThrottleTypes, TypeOK, PCs, boundVars, historyVars
    <3>5. Shape'
      BY <1>0, <1>1, <3>1, <3>3 DEF ApplyRead, ThrottleTypes, TypeOK, Shape, boundVars,
                                  historyVars, ApplyPCs, ReleasePCs
    <3> QED
      BY <3>4, <3>5 DEF ThrottleTypes
  <2> QED
    BY <2>1, <2>2
<1>2. CASE ApplyUpdate
  <2>1. Throttled(reg[Daemon].pol) \in Policy
    BY <1>0, <1>2, RegistersType, ThrottledType DEF ApplyUpdate, ApplyPCs
  <2>2. cuts[reg[Daemon].t] < throttles /\ cuts[reg[Daemon].t] \in Nat
    BY <1>0, <1>2 DEF ApplyUpdate, ThrottleTypes, TypeOK, Shape
  <2>3. TypeOK'
    BY <1>0, <1>2, <2>1, <2>2 DEF ApplyUpdate, ThrottleTypes, TypeOK, Goto, PCs, boundVars
  <2>4. Shape'
    BY <1>0, <1>2, <2>1, <2>2 DEF ApplyUpdate, ThrottleTypes, TypeOK, Shape, Goto, boundVars,
                                ApplyPCs, ReleasePCs
  <2> QED
    BY <2>3, <2>4 DEF ThrottleTypes
<1>3. CASE ApplyPersist
  <2>1. reg[Daemon].thr \in Throttle
    BY <1>0, <1>3, RegistersType DEF ApplyPersist, ApplyPCs
  <2>2. TypeOK'
    BY <1>0, <1>3, <2>1 DEF ApplyPersist, Fault, ThrottleTypes, TypeOK, Goto, PCs
  <2>3. Shape'
    BY <1>0, <1>3 DEF ApplyPersist, ThrottleTypes, TypeOK, Shape, Goto, ApplyPCs, ReleasePCs
  <2> QED
    BY <2>2, <2>3 DEF ThrottleTypes
<1>4. CASE ApplyInsert
  <2>1. reg[Daemon].thr \in Throttle
    BY <1>0, <1>4, RegistersType DEF ApplyInsert, ApplyPCs
  <2>2. TypeOK'
    BY <1>0, <1>4, <2>1, NoRegistersType
       DEF ApplyInsert, Finish, ThrottleTypes, TypeOK, Goto, Locals, PCs, boundVars, historyVars
  <2>3. Shape'
    BY <1>0, <1>4 DEF ApplyInsert, Finish, ThrottleTypes, TypeOK, Shape, Goto, Locals, boundVars,
                     historyVars, ApplyPCs, ReleasePCs
  <2> QED
    BY <2>2, <2>3 DEF ThrottleTypes
<1> QED
  BY <1>1, <1>2, <1>3, <1>4 DEF Apply

LEMMA ReleaseTypes ==
  ASSUME ThrottleTypes, NEW p \in Procs, Release(p)
  PROVE  ThrottleTypes'
<1>0. reg[p].t \in Tenants /\ Daemon \in Procs /\ Daemon \notin Operators /\ Operators \subseteq Procs
  BY RegistersType DEF Procs
<1>1. CASE ReleaseRead(p)
  <2> DEFINE r == [reg[p] EXCEPT !.pol = sched[reg[p].t]]
  <2>1. r \in Registers /\ r.t = reg[p].t /\ r.thr = reg[p].thr /\ r.pol = sched[reg[p].t]
    <3>1. reg[p] \in Registers /\ sched[reg[p].t] \in Policy \cup {None}
      BY <1>0 DEF ThrottleTypes, TypeOK
    <3> QED
      BY <3>1 DEF Registers
  <2>2. reg' = [reg EXCEPT ![p] = r]
    BY <1>1 DEF ReleaseRead, Locals
  <2> HIDE DEF r
  <2>3. TypeOK'
    BY <1>1, <2>1, <2>2 DEF ReleaseRead, ThrottleTypes, TypeOK, Goto, PCs, boundVars, historyVars
  <2>4. Shape'
    BY <1>0, <1>1, <2>1, <2>2 DEF ReleaseRead, ThrottleTypes, TypeOK, Shape, Goto, boundVars,
                                historyVars, ApplyPCs, ReleasePCs
  <2> QED
    BY <2>3, <2>4 DEF ThrottleTypes
<1>2. CASE ReleaseUpdate(p)
  <2> DEFINE pol == [reg[p].pol EXCEPT !.rate = reg[p].thr.original,
                                       !.burst = reg[p].thr.original]
  <2>1. pol \in Policy
    BY <1>2, RegistersType DEF ReleaseUpdate, ReleasePCs, Policy, Throttle
  <2>2. sched' = [sched EXCEPT ![reg[p].t] = pol]
    BY <1>2 DEF ReleaseUpdate
  <2> HIDE DEF pol
  <2>3. TypeOK'
    <3>1. sched' \in [Tenants -> Policy \cup {None}]
      BY <1>0, <2>1, <2>2 DEF ThrottleTypes, TypeOK
    <3>2. pc' \in [Procs -> PCs]
      BY <1>2 DEF ReleaseUpdate, ThrottleTypes, TypeOK, Goto, PCs
    <3> QED
      BY <1>2, <3>1, <3>2 DEF ReleaseUpdate, ThrottleTypes, TypeOK, boundVars, historyVars
  <2>4. Shape'
    BY <1>0, <1>2, <2>1, <2>2 DEF ReleaseUpdate, ThrottleTypes, TypeOK, Shape, Goto, boundVars,
                                historyVars, ApplyPCs, ReleasePCs
  <2> QED
    BY <2>3, <2>4 DEF ThrottleTypes
<1>3. CASE ReleaseClear(p)
  <2>1. TypeOK'
    BY <1>0, <1>3 DEF ReleaseClear, ClearRecord, Fault, ThrottleTypes, TypeOK, Goto, PCs
  <2>2. Shape'
    BY <1>0, <1>3 DEF ReleaseClear, ThrottleTypes, TypeOK, Shape, Goto, ApplyPCs, ReleasePCs
  <2> QED
    BY <2>1, <2>2 DEF ThrottleTypes
<1>4. CASE ReleaseRemove(p)
  <2>1. TypeOK'
    BY <1>0, <1>4, NoRegistersType DEF ReleaseRemove, Finish, ThrottleTypes, TypeOK, Goto, Locals,
                                      PCs, boundVars
  <2>2. Shape'
    BY <1>0, <1>4 DEF ReleaseRemove, Finish, ThrottleTypes, TypeOK, Shape, Goto, Locals, boundVars,
                     ApplyPCs, ReleasePCs
  <2> QED
    BY <2>1, <2>2 DEF ThrottleTypes
<1> QED
  BY <1>1, <1>2, <1>3, <1>4 DEF Release

LEMMA OperateTypes ==
  ASSUME ThrottleTypes, NEW o \in Operators, Operate(o)
  PROVE  ThrottleTypes'
<1>0. o \in Procs /\ o # Daemon /\ Daemon \in Procs
  BY DEF Procs
<1>1. ASSUME NEW t \in Tenants, ForceRelease(o, t)
      PROVE  ThrottleTypes'
  <2>1. [t |-> t, pol |-> None, thr |-> states[t]] \in Registers /\ states[t] # None
    BY <1>1 DEF ForceRelease, ThrottleTypes, TypeOK, Registers
  <2>2. TypeOK'
    BY <1>0, <1>1, <2>1 DEF ForceRelease, ThrottleTypes, TypeOK, Goto, Locals, PCs, boundVars,
                           historyVars
  <2>3. Shape'
    BY <1>0, <1>1, <2>1 DEF ForceRelease, ThrottleTypes, TypeOK, Shape, Goto, Locals, boundVars,
                           historyVars, ApplyPCs, ReleasePCs
  <2> QED
    BY <2>2, <2>3 DEF ThrottleTypes
<1>2. ASSUME NEW t \in Tenants, ForceReleaseUnknown(o, t)
      PROVE  ThrottleTypes'
  <2>1. TypeOK'
    BY <1>2 DEF ForceReleaseUnknown, ClearRecord, Fault, ThrottleTypes, TypeOK, procVars
  <2>2. Shape'
    BY <1>2 DEF ForceReleaseUnknown, ThrottleTypes, Shape, procVars
  <2> QED
    BY <2>1, <2>2 DEF ThrottleTypes
<1>3. ASSUME NEW t \in Tenants, DropTenant(o, t)
      PROVE  ThrottleTypes'
  <2>1. TypeOK'
    BY <1>3 DEF DropTenant, ThrottleTypes, TypeOK, procVars, boundVars
  <2>2. Shape'
    BY <1>3 DEF DropTenant, ThrottleTypes, TypeOK, Shape, procVars, boundVars
  <2> QED
    BY <2>1, <2>2 DEF ThrottleTypes
<1>4. ASSUME NEW t \in Tenants, NEW pol \in Updates, UpdatePolicy(o, t, pol)
      PROVE  ThrottleTypes'
  <2>1. pol \in Policy /\ pol # None
    OBVIOUS
  <2>2. TypeOK'
    BY <1>4, <2>1 DEF UpdatePolicy, PolicySet, ThrottleTypes, TypeOK, procVars
  <2>3. Shape'
    BY <1>4, <2>1 DEF UpdatePolicy, PolicySet, ThrottleTypes, TypeOK, Shape, procVars
  <2> QED
    BY <2>2, <2>3 DEF ThrottleTypes
<1>5. ASSUME NEW t \in Tenants, NEW pol \in Plans, ProvisionTenant(o, t, pol)
      PROVE  ThrottleTypes'
  <2>1. pol \in Policy /\ pol # None
    OBVIOUS
  <2>2. TypeOK'
    BY <1>5, <2>1 DEF ProvisionTenant, PolicySet, ThrottleTypes, TypeOK, procVars
  <2>3. Shape'
    BY <1>5, <2>1 DEF ProvisionTenant, PolicySet, ThrottleTypes, TypeOK, Shape, procVars
  <2> QED
    BY <2>2, <2>3 DEF ThrottleTypes
<1>6. ASSUME NEW t \in Tenants, SetNamespacePolicy(o, t)
      PROVE  ThrottleTypes'
  <2>1. plan' \in [Tenants -> Plans \cup {NamespacePlan, None}]
    BY <1>6 DEF SetNamespacePolicy, ThrottleTypes, TypeOK
  <2>2. TypeOK'
    BY <1>6, <2>1 DEF SetNamespacePolicy, ThrottleTypes, TypeOK, procVars, historyVars
  <2>3. NamespacePlan # None
    BY NamespacePlanType
  <2>4. Shape'
    BY <1>6, <2>3 DEF SetNamespacePolicy, ThrottleTypes, TypeOK, Shape, procVars, historyVars
  <2> QED
    BY <2>2, <2>4 DEF ThrottleTypes
<1> QED
  BY <1>1, <1>2, <1>3, <1>4, <1>5, <1>6 DEF Operate

\* What restore_from_store re-applies to a scheduler without tenants: nothing.
LEMMA RestartScheduler ==
  ASSUME ThrottleTypes, Restart
  PROVE  sched' = [t \in Tenants |-> plan[t]]
<1>1. Reapplied([t \in Tenants |-> None]) = [t \in Tenants |-> None]
  BY DEF Reapplied
<1>2. \A t \in Tenants : Registered([s \in Tenants |-> None])[t] = plan[t]
  BY DEF Registered
<1> QED
  BY <1>1, <1>2 DEF Restart, Registered

LEMMA OtherTypes ==
  ASSUME ThrottleTypes, (\E t \in Tenants : CooldownEnds(t)) \/ Restart \/ FailedWrite \/ UNCHANGED vars
  PROVE  ThrottleTypes'
<1>1. CASE \E t \in Tenants : CooldownEnds(t)
  BY <1>1 DEF CooldownEnds, ThrottleTypes, TypeOK, Shape, procVars, boundVars, historyVars
<1>2. CASE Restart
  <2>1. sched' = [t \in Tenants |-> plan[t]]
    BY <1>2, RestartScheduler
  <2>2. stored' \in [Tenants -> Throttle \cup {None}] /\ states' \in [Tenants -> Throttle \cup {None}]
    BY <1>2 DEF Restart, RecordsKept, ThrottleTypes, TypeOK
  <2>3. faults' \in 0 .. MaxFaults /\ restarts' \in 0 .. MaxRestarts
    BY <1>2 DEF Restart, Fault, ThrottleTypes, TypeOK
  <2>4. TypeOK'
    BY <1>2, <2>1, <2>2, <2>3, NoRegistersType, PlansType
       DEF Restart, ThrottleTypes, TypeOK, Unloaded, Loads, PCs
  <2>5. Shape'
    BY <1>2, <2>1 DEF Restart, ThrottleTypes, TypeOK, Shape, Procs, ApplyPCs, ReleasePCs
  <2> QED
    BY <2>4, <2>5 DEF ThrottleTypes
<1>3. CASE FailedWrite
  BY <1>3 DEF FailedWrite, Fault, ThrottleTypes, TypeOK, Shape, procVars, historyVars
<1>4. CASE UNCHANGED vars
  BY <1>4 DEF vars, ThrottleTypes, TypeOK, Shape, procVars, boundVars, historyVars
<1> QED
  BY <1>1, <1>2, <1>3, <1>4

LEMMA ThrottleTypesStep ==
  ASSUME ThrottleTypes, [ThrottleStep]_vars
  PROVE  ThrottleTypes'
BY EvaluateTypes, ApplyTypes, ReleaseTypes, OperateTypes, OtherTypes DEF ThrottleStep

(***************************************************************************)
(* Applying and releasing exclude each other                               *)
(***************************************************************************)
LEMMA ExclusiveStep ==
  ASSUME ThrottleTypes, OneRelease, Exclusive, [ThrottleStep]_vars
  PROVE  Exclusive'
<1>0. Daemon \in Procs /\ Daemon \notin Operators /\ Procs = {Daemon} \cup Operators
  BY DEF Procs
<1> USE DEF ThrottleTypes, TypeOK, Exclusive, At, ApplyPCs, ReleasePCs
<1>1. ASSUME NEW S \in SUBSET Tenants, NEW l \in [Tenants -> Loads], CycleBegin(S, l)
      PROVE  Exclusive'
  BY <1>0, <1>1 DEF CycleBegin, Goto, historyVars
<1>2. CASE CycleEnd
  BY <1>0, <1>2 DEF CycleEnd, Goto, historyVars
<1>3. ASSUME NEW t \in Tenants, EvaluateSkip(t)
      PROVE  Exclusive'
  BY <1>3 DEF EvaluateSkip, historyVars
<1>4. ASSUME NEW t \in Tenants, EvaluateRelease(t)
      PROVE  Exclusive'
  BY <1>0, <1>4 DEF EvaluateRelease, Unthrottled, Goto, Locals, historyVars
<1>5. ASSUME NEW t \in Tenants, EvaluateApply(t)
      PROVE  Exclusive'
  BY <1>0, <1>5 DEF EvaluateApply, Unthrottled, Goto, Locals, historyVars
<1>6. CASE ApplyRead
  BY <1>0, <1>6 DEF ApplyRead, Finish, Goto, Locals, historyVars
<1>7. CASE ApplyUpdate
  BY <1>0, <1>7 DEF ApplyUpdate, Goto
<1>8. CASE ApplyPersist
  BY <1>0, <1>8 DEF ApplyPersist, Goto
<1>9. CASE ApplyInsert
  BY <1>0, <1>9, RegistersType DEF ApplyInsert, Finish, Goto, Locals, historyVars
<1>10. ASSUME NEW p \in Procs, ReleaseRead(p)
       PROVE  Exclusive'
  BY <1>0, <1>10 DEF ReleaseRead, Goto, Locals, historyVars, Registers
<1>11. ASSUME NEW p \in Procs, ReleaseUpdate(p)
       PROVE  Exclusive'
  BY <1>0, <1>11 DEF ReleaseUpdate, Goto, historyVars
<1>12. ASSUME NEW p \in Procs, ReleaseClear(p)
       PROVE  Exclusive'
  BY <1>0, <1>12 DEF ReleaseClear, Goto
<1>13. ASSUME NEW p \in Procs, ReleaseRemove(p)
       PROVE  Exclusive'
  BY <1>0, <1>13 DEF ReleaseRemove, Finish, Goto, Locals, OneRelease, Shape
<1>14. ASSUME NEW o \in Operators, NEW t \in Tenants, ForceRelease(o, t)
       PROVE  Exclusive'
  BY <1>0, <1>14 DEF ForceRelease, Goto, Locals, historyVars
<1>15. ASSUME NEW o \in Operators, NEW t \in Tenants,
              ForceReleaseUnknown(o, t) \/ SetNamespacePolicy(o, t) \/ DropTenant(o, t)
       PROVE  Exclusive'
  BY <1>15 DEF ForceReleaseUnknown, SetNamespacePolicy, DropTenant, procVars, historyVars
<1>16. ASSUME NEW o \in Operators, NEW t \in Tenants, NEW pol,
              UpdatePolicy(o, t, pol) \/ ProvisionTenant(o, t, pol)
       PROVE  Exclusive'
  BY <1>16 DEF UpdatePolicy, ProvisionTenant, PolicySet, procVars
<1>17. CASE (\E t \in Tenants : CooldownEnds(t)) \/ FailedWrite \/ UNCHANGED vars
  BY <1>17 DEF CooldownEnds, FailedWrite, vars, procVars, historyVars
<1>18. CASE Restart
  BY <1>0, <1>18 DEF Restart, Restorable
<1> QED
  BY <1>1, <1>2, <1>3, <1>4, <1>5, <1>6, <1>7, <1>8, <1>9, <1>10, <1>11, <1>12, <1>13, <1>14,
     <1>15, <1>16, <1>17, <1>18 DEF ThrottleStep, Apply, Release, Operate

(***************************************************************************)
(* The record on disk                                                      *)
(***************************************************************************)
\* Every write of the record is the one the place of its writer calls for.
LEMMA RecordedStep ==
  ASSUME ThrottleTypes, OneRelease, Exclusive, Recorded, [ThrottleStep]_vars
  PROVE  Recorded'
<1>0. /\ Daemon \in Procs /\ Daemon \notin Operators /\ Procs = {Daemon} \cup Operators
      /\ \A p \in Procs : reg[p].t \in Tenants
  BY RegistersType DEF Procs
<1> USE DEF ThrottleTypes, TypeOK, Exclusive, Recorded, At, ApplyPCs, ReleasePCs
<1>1. ASSUME NEW S \in SUBSET Tenants, NEW l \in [Tenants -> Loads], CycleBegin(S, l)
      PROVE  Recorded'
  BY <1>0, <1>1
     DEF CycleBegin, Goto, historyVars
<1>2. CASE CycleEnd
  BY <1>0, <1>2
     DEF CycleEnd, Goto, historyVars
<1>3. ASSUME NEW t \in Tenants, EvaluateSkip(t)
      PROVE  Recorded'
  BY <1>0, <1>3
     DEF EvaluateSkip, historyVars
<1>4. ASSUME NEW t \in Tenants, EvaluateRelease(t)
      PROVE  Recorded'
  BY <1>0, <1>4
     DEF EvaluateRelease, Unthrottled, Goto, Locals, historyVars
<1>5. ASSUME NEW t \in Tenants, EvaluateApply(t)
      PROVE  Recorded'
  BY <1>0, <1>5
     DEF EvaluateApply, Unthrottled, Goto, Locals, historyVars
<1>6. CASE ApplyRead
  BY <1>0, <1>6
     DEF ApplyRead, Finish, Goto, Locals, historyVars
<1>7. CASE ApplyUpdate
  BY <1>0, <1>7
     DEF ApplyUpdate, Goto
<1>8. CASE ApplyPersist
  BY <1>0, <1>8
     DEF ApplyPersist, Goto
<1>9. CASE ApplyInsert
  BY <1>0, <1>9
     DEF ApplyInsert, Finish, Goto, Locals, historyVars
<1>10. ASSUME NEW p \in Procs, ReleaseRead(p)
       PROVE  Recorded'
  BY <1>0, <1>10
     DEF ReleaseRead, Goto, Locals, historyVars, Registers
<1>11. ASSUME NEW p \in Procs, ReleaseUpdate(p)
       PROVE  Recorded'
  BY <1>0, <1>11
     DEF ReleaseUpdate, Goto, historyVars
<1>12. ASSUME NEW p \in Procs, ReleaseClear(p)
       PROVE  Recorded'
  BY <1>0, <1>12
     DEF ReleaseClear, ClearRecord, Goto
<1>13. ASSUME NEW p \in Procs, ReleaseRemove(p)
       PROVE  Recorded'
  BY <1>0, <1>13
     DEF ReleaseRemove, Finish, Goto, Locals, OneRelease, Shape
<1>14. ASSUME NEW o \in Operators, NEW t \in Tenants, ForceRelease(o, t)
       PROVE  Recorded'
  BY <1>0, <1>14
     DEF ForceRelease, Goto, Locals, historyVars
<1>15. ASSUME NEW o \in Operators, NEW t \in Tenants, ForceReleaseUnknown(o, t)
       PROVE  Recorded'
  BY <1>0, <1>15
     DEF ForceReleaseUnknown, ClearRecord, Busy, procVars
<1>16. ASSUME NEW o \in Operators, NEW t \in Tenants,
              SetNamespacePolicy(o, t) \/ DropTenant(o, t)
       PROVE  Recorded'
  BY <1>0, <1>16
     DEF SetNamespacePolicy, DropTenant, procVars, historyVars
<1>17. ASSUME NEW o \in Operators, NEW t \in Tenants, NEW pol \in Policy,
              UpdatePolicy(o, t, pol) \/ ProvisionTenant(o, t, pol)
       PROVE  Recorded'
  BY <1>0, <1>17
     DEF UpdatePolicy, ProvisionTenant, PolicySet, Busy, procVars
<1>18. CASE (\E t \in Tenants : CooldownEnds(t)) \/ FailedWrite \/ UNCHANGED vars
  BY <1>0, <1>18
     DEF CooldownEnds, FailedWrite, vars, procVars, historyVars
<1>19. CASE Restart
  BY <1>0, <1>19
     DEF Restart, Restorable, RecordsKept
<1> QED
  BY <1>1, <1>2, <1>3, <1>4, <1>5, <1>6, <1>7, <1>8, <1>9, <1>10,
     <1>11, <1>12, <1>13, <1>14, <1>15, <1>16, <1>17, <1>18, <1>19
     DEF ThrottleStep, Apply, Release, Operate

(***************************************************************************)
(* The rate comes back                                                     *)
(***************************************************************************)
\* A throttle takes the rate it finds, which is the one last set, and gives it back.
LEMMA RatesStep ==
  ASSUME ThrottleTypes, OneRelease, Exclusive, Recorded, Rates, [ThrottleStep]_vars
  PROVE  Rates'
<1>0. /\ Daemon \in Procs /\ Daemon \notin Operators /\ Procs = {Daemon} \cup Operators
      /\ \A p \in Procs : reg[p].t \in Tenants
  BY RegistersType DEF Procs
<1> USE DEF ThrottleTypes, TypeOK, Exclusive, Recorded, Rates, Given, At, ApplyPCs, ReleasePCs
<1>1. ASSUME NEW S \in SUBSET Tenants, NEW l \in [Tenants -> Loads], CycleBegin(S, l)
      PROVE  Rates'
  BY <1>0, <1>1
     DEF CycleBegin, Goto, historyVars
<1>2. CASE CycleEnd
  BY <1>0, <1>2
     DEF CycleEnd, Goto, historyVars
<1>3. ASSUME NEW t \in Tenants, EvaluateSkip(t)
      PROVE  Rates'
  BY <1>0, <1>3
     DEF EvaluateSkip, historyVars
<1>4. ASSUME NEW t \in Tenants, EvaluateRelease(t)
      PROVE  Rates'
  BY <1>0, <1>4
     DEF EvaluateRelease, Unthrottled, Goto, Locals, historyVars
<1>5. ASSUME NEW t \in Tenants, EvaluateApply(t)
      PROVE  Rates'
  BY <1>0, <1>5
     DEF EvaluateApply, Unthrottled, Goto, Locals, historyVars
<1>6. CASE ApplyRead
  BY <1>0, <1>6
     DEF ApplyRead, Finish, Goto, Locals, historyVars
<1>7. CASE ApplyUpdate
  BY <1>0, <1>7
     DEF ApplyUpdate, Goto
<1>8. CASE ApplyPersist
  BY <1>0, <1>8
     DEF ApplyPersist, Goto
<1>9. CASE ApplyInsert
  BY <1>0, <1>9
     DEF ApplyInsert, Finish, Goto, Locals, historyVars, Shape
<1>10. ASSUME NEW p \in Procs, ReleaseRead(p)
       PROVE  Rates'
  BY <1>0, <1>10
     DEF ReleaseRead, Goto, Locals, historyVars, Registers, Shape
<1>11. ASSUME NEW p \in Procs, ReleaseUpdate(p)
       PROVE  Rates'
  BY <1>0, <1>11, RegistersType
     DEF ReleaseUpdate, Goto, historyVars, Policy
<1>12. ASSUME NEW p \in Procs, ReleaseClear(p)
       PROVE  Rates'
  BY <1>0, <1>12
     DEF ReleaseClear, ClearRecord, Goto
<1>13. ASSUME NEW p \in Procs, ReleaseRemove(p)
       PROVE  Rates'
  BY <1>0, <1>13
     DEF ReleaseRemove, Finish, Goto, Locals, OneRelease, Shape
<1>14. ASSUME NEW o \in Operators, NEW t \in Tenants, ForceRelease(o, t)
       PROVE  Rates'
  BY <1>0, <1>14
     DEF ForceRelease, Goto, Locals, historyVars
<1>15. ASSUME NEW o \in Operators, NEW t \in Tenants, ForceReleaseUnknown(o, t)
       PROVE  Rates'
  BY <1>0, <1>15
     DEF ForceReleaseUnknown, ClearRecord, Busy, procVars
<1>16. ASSUME NEW o \in Operators, NEW t \in Tenants,
              SetNamespacePolicy(o, t) \/ DropTenant(o, t)
       PROVE  Rates'
  BY <1>0, <1>16
     DEF SetNamespacePolicy, DropTenant, procVars, historyVars
<1>17. ASSUME NEW o \in Operators, NEW t \in Tenants, NEW pol \in Policy,
              UpdatePolicy(o, t, pol) \/ ProvisionTenant(o, t, pol)
       PROVE  Rates'
  BY <1>0, <1>17
     DEF UpdatePolicy, ProvisionTenant, PolicySet, Busy, procVars
<1>18. CASE (\E t \in Tenants : CooldownEnds(t)) \/ FailedWrite \/ UNCHANGED vars
  BY <1>0, <1>18
     DEF CooldownEnds, FailedWrite, vars, procVars, historyVars
<1>19. CASE Restart
  BY <1>0, <1>19, RestartScheduler
     DEF Restart, Restorable, RecordsKept
<1> QED
  BY <1>1, <1>2, <1>3, <1>4, <1>5, <1>6, <1>7, <1>8, <1>9, <1>10,
     <1>11, <1>12, <1>13, <1>14, <1>15, <1>16, <1>17, <1>18, <1>19
     DEF ThrottleStep, Apply, Release, Operate

(***************************************************************************)
(* The throttle is in force                                                *)
(***************************************************************************)
\* What the scheduler is told is the rate that the state reports.
LEMMA InForceStep ==
  ASSUME ThrottleTypes, OneRelease, Exclusive, InForce, [ThrottleStep]_vars
  PROVE  InForce'
<1>0. /\ Daemon \in Procs /\ Daemon \notin Operators /\ Procs = {Daemon} \cup Operators
      /\ \A p \in Procs : reg[p].t \in Tenants
  BY RegistersType DEF Procs
<1> USE DEF ThrottleTypes, TypeOK, Exclusive, InForce, At, ApplyPCs, ReleasePCs
<1>1. ASSUME NEW S \in SUBSET Tenants, NEW l \in [Tenants -> Loads], CycleBegin(S, l)
      PROVE  InForce'
  BY <1>0, <1>1
     DEF CycleBegin, Goto, historyVars
<1>2. CASE CycleEnd
  BY <1>0, <1>2
     DEF CycleEnd, Goto, historyVars
<1>3. ASSUME NEW t \in Tenants, EvaluateSkip(t)
      PROVE  InForce'
  BY <1>0, <1>3
     DEF EvaluateSkip, historyVars
<1>4. ASSUME NEW t \in Tenants, EvaluateRelease(t)
      PROVE  InForce'
  BY <1>0, <1>4
     DEF EvaluateRelease, Unthrottled, Goto, Locals, historyVars
<1>5. ASSUME NEW t \in Tenants, EvaluateApply(t)
      PROVE  InForce'
  BY <1>0, <1>5
     DEF EvaluateApply, Unthrottled, Goto, Locals, historyVars
<1>6. CASE ApplyRead
  <2>1. sched' = sched /\ states' = states /\ overridden' = overridden /\ restored' = restored
    BY <1>6 DEF ApplyRead, historyVars
  <2>2. /\ pc[Daemon] = "app_read" /\ pc'[Daemon] \in {"evaluate", "app_update"}
        /\ \A p \in Procs : p # Daemon => pc'[p] = pc[p] /\ reg'[p] = reg[p]
    BY <1>0, <1>6 DEF ApplyRead, Finish, Goto, Locals
  <2>3. \A p \in Procs, t \in Tenants :
          At(p, t, {"rel_clear", "rel_remove"}) <=> At(p, t, {"rel_clear", "rel_remove"})'
    BY <2>2
  <2> QED
    BY <2>1, <2>2, <2>3
<1>7. CASE ApplyUpdate
  BY <1>0, <1>7, RegistersType, ThrottledType
     DEF ApplyUpdate, Goto, Shape, Policy
<1>8. CASE ApplyPersist
  BY <1>0, <1>8
     DEF ApplyPersist, Goto
<1>9. CASE ApplyInsert
  BY <1>0, <1>9
     DEF ApplyInsert, Finish, Goto, Locals, historyVars
<1>10. ASSUME NEW p \in Procs, ReleaseRead(p)
       PROVE  InForce'
  BY <1>0, <1>10
     DEF ReleaseRead, Goto, Locals, historyVars, Registers
<1>11. ASSUME NEW p \in Procs, ReleaseUpdate(p)
       PROVE  InForce'
  BY <1>0, <1>11
     DEF ReleaseUpdate, Goto, historyVars
<1>12. ASSUME NEW p \in Procs, ReleaseClear(p)
       PROVE  InForce'
  BY <1>0, <1>12
     DEF ReleaseClear, ClearRecord, Goto
<1>13. ASSUME NEW p \in Procs, ReleaseRemove(p)
       PROVE  InForce'
  BY <1>0, <1>13
     DEF ReleaseRemove, Finish, Goto, Locals, OneRelease, Shape
<1>14. ASSUME NEW o \in Operators, NEW t \in Tenants, ForceRelease(o, t)
       PROVE  InForce'
  BY <1>0, <1>14
     DEF ForceRelease, Goto, Locals, historyVars
<1>15. ASSUME NEW o \in Operators, NEW t \in Tenants, ForceReleaseUnknown(o, t)
       PROVE  InForce'
  BY <1>0, <1>15
     DEF ForceReleaseUnknown, ClearRecord, Busy, procVars
<1>16. ASSUME NEW o \in Operators, NEW t \in Tenants,
              SetNamespacePolicy(o, t) \/ DropTenant(o, t)
       PROVE  InForce'
  <2>1. /\ states' = states /\ overridden' = overridden /\ restored' = restored
        /\ pc' = pc /\ reg' = reg
    BY <1>16 DEF SetNamespacePolicy, DropTenant, procVars, historyVars
  <2>2. \A u \in Tenants : sched'[u] # None => sched'[u] = sched[u]
    BY <1>16 DEF SetNamespacePolicy, DropTenant
  <2> QED
    BY <2>1, <2>2
<1>17. ASSUME NEW o \in Operators, NEW t \in Tenants, NEW pol \in Policy,
              UpdatePolicy(o, t, pol) \/ ProvisionTenant(o, t, pol)
       PROVE  InForce'
  <2>1. states' = states /\ restored' = restored /\ pc' = pc /\ reg' = reg
    BY <1>17 DEF UpdatePolicy, ProvisionTenant, PolicySet, procVars
  <2>2. \A u \in Tenants : u # t => sched'[u] = sched[u] /\ (u \in overridden' <=> u \in overridden)
    BY <1>17 DEF UpdatePolicy, ProvisionTenant, PolicySet
  <2>3. t \in overridden' \/ (states[t] = None /\ ~At(Daemon, t, {"app_persist", "app_insert"}))
    BY <1>0, <1>17 DEF UpdatePolicy, ProvisionTenant, PolicySet, Busy
  <2> QED
    BY <2>1, <2>2, <2>3
<1>18. CASE (\E t \in Tenants : CooldownEnds(t)) \/ FailedWrite \/ UNCHANGED vars
  BY <1>0, <1>18
     DEF CooldownEnds, FailedWrite, vars, procVars, historyVars
<1>19. CASE Restart
  BY <1>0, <1>19
     DEF Restart, Restorable, RecordsKept
<1> QED
  BY <1>1, <1>2, <1>3, <1>4, <1>5, <1>6, <1>7, <1>8, <1>9, <1>10,
     <1>11, <1>12, <1>13, <1>14, <1>15, <1>16, <1>17, <1>18, <1>19
     DEF ThrottleStep, Apply, Release, Operate

(***************************************************************************)
(* max_inflight decays                                                     *)
(***************************************************************************)
\* One more throttle is one more division; nothing else changes max_inflight.
LEMMA DecayedStep ==
  ASSUME ThrottleTypes, OneRelease, Exclusive, Decayed, [ThrottleStep]_vars
  PROVE  Decayed'
<1>0. /\ Daemon \in Procs /\ Daemon \notin Operators /\ Procs = {Daemon} \cup Operators
      /\ \A p \in Procs : reg[p].t \in Tenants
  BY RegistersType DEF Procs
<1> USE DEF ThrottleTypes, TypeOK, Exclusive, Decayed, At, ApplyPCs, ReleasePCs
<1>1. ASSUME NEW S \in SUBSET Tenants, NEW l \in [Tenants -> Loads], CycleBegin(S, l)
      PROVE  Decayed'
  BY <1>0, <1>1
     DEF CycleBegin, Goto, historyVars
<1>2. CASE CycleEnd
  BY <1>0, <1>2
     DEF CycleEnd, Goto, historyVars
<1>3. ASSUME NEW t \in Tenants, EvaluateSkip(t)
      PROVE  Decayed'
  BY <1>0, <1>3
     DEF EvaluateSkip, historyVars
<1>4. ASSUME NEW t \in Tenants, EvaluateRelease(t)
      PROVE  Decayed'
  BY <1>0, <1>4
     DEF EvaluateRelease, Unthrottled, Goto, Locals, historyVars
<1>5. ASSUME NEW t \in Tenants, EvaluateApply(t)
      PROVE  Decayed'
  BY <1>0, <1>5
     DEF EvaluateApply, Unthrottled, Goto, Locals, historyVars
<1>6. CASE ApplyRead
  BY <1>0, <1>6
     DEF ApplyRead, Finish, Goto, Locals, historyVars, Policy, Registers
<1>7. CASE ApplyUpdate
  <2> DEFINE t == reg[Daemon].t
  <2>1. CASE plan[t] # None /\ t \notin overridden
    <3>1. lastSet[t] \in Policy /\ sched[t] \in Policy /\ reg[Daemon].pol \in Policy
      BY <1>0, <1>7, <2>1, RegistersType DEF ApplyUpdate, Shape
    <3>2. /\ lastSet[t].maxInflight \in Nat /\ cuts[t] \in Nat
          /\ sched[t].maxInflight = lastSet[t].maxInflight \div Power[cuts[t]]
          /\ reg[Daemon].pol.maxInflight = sched[t].maxInflight
      BY <1>0, <1>7, <2>1, <3>1 DEF ApplyUpdate, Policy
    <3>3. /\ Power[cuts[t]] \in Nat \ {0}
          /\ Power[cuts[t] + 1] = Power[cuts[t]] * Divisor
      BY <3>2, PowerLaw
    <3>4. sched[t].maxInflight \div Divisor = lastSet[t].maxInflight \div Power[cuts[t] + 1]
      <4> DEFINE n == Power[cuts[t]]
                 m == Power[cuts[t] + 1]
                 a == lastSet[t].maxInflight
      <4>1. a \in Nat /\ n \in Nat \ {0} /\ m = n * Divisor /\ sched[t].maxInflight = a \div n
        BY <3>2, <3>3
      <4> HIDE DEF n, m, a
      <4>2. (a \div n) \div Divisor = a \div (n * Divisor)
        BY <4>1, NestedDivision
      <4>3. sched[t].maxInflight \div Divisor = a \div m
        BY <4>1, <4>2
      <4> QED
        BY <4>3 DEF a, m
    <3>5. sched'[t].maxInflight = sched[t].maxInflight \div Divisor /\ cuts'[t] = cuts[t] + 1
      BY <1>0, <1>7, <3>2 DEF ApplyUpdate, Throttled
    <3>6. /\ plan' = plan /\ lastSet' = lastSet /\ overridden' = overridden /\ reg' = reg
          /\ pc' = [pc EXCEPT ![Daemon] = "app_persist"]
          /\ \A u \in Tenants \ {t} : sched'[u] = sched[u] /\ cuts'[u] = cuts[u]
      BY <1>7 DEF ApplyUpdate, Goto
    <3>7. \A p \in Procs : ~At(p, t, {"rel_update"})
      BY <1>0, <1>7 DEF ApplyUpdate
    <3> SUFFICES ASSUME NEW u \in Tenants, plan[u] # None, u \notin overridden
                 PROVE  /\ sched'[u].maxInflight = lastSet[u].maxInflight \div Power[cuts'[u]]
                        /\ \A p \in Procs : At(p, u, {"app_update", "rel_update"})' =>
                             reg[p].pol.maxInflight = sched'[u].maxInflight
      BY <3>6
    <3>8. CASE u = t
      <4>1. sched'[u].maxInflight = lastSet[u].maxInflight \div Power[cuts'[u]]
        BY <3>4, <3>5, <3>8
      <4>2. \A p \in Procs : ~At(p, t, {"app_update", "rel_update"})'
        BY <1>0, <3>6, <3>7 DEF Shape
      <4> QED
        BY <3>6, <3>8, <4>1, <4>2
    <3>9. CASE u # t
      BY <1>0, <3>6, <3>9
    <3> QED
      BY <3>8, <3>9
  <2>2. CASE ~(plan[t] # None /\ t \notin overridden)
    BY <1>0, <1>7, <2>2 DEF ApplyUpdate, Goto
  <2> QED
    BY <2>1, <2>2
<1>8. CASE ApplyPersist
  BY <1>0, <1>8
     DEF ApplyPersist, Goto
<1>9. CASE ApplyInsert
  BY <1>0, <1>9
     DEF ApplyInsert, Finish, Goto, Locals, historyVars
<1>10. ASSUME NEW p \in Procs, ReleaseRead(p)
       PROVE  Decayed'
  BY <1>0, <1>10
     DEF ReleaseRead, Goto, Locals, historyVars, Registers, Policy
<1>11. ASSUME NEW p \in Procs, ReleaseUpdate(p)
       PROVE  Decayed'
  BY <1>0, <1>11, RegistersType
     DEF ReleaseUpdate, Goto, historyVars, Policy
<1>12. ASSUME NEW p \in Procs, ReleaseClear(p)
       PROVE  Decayed'
  BY <1>0, <1>12
     DEF ReleaseClear, ClearRecord, Goto
<1>13. ASSUME NEW p \in Procs, ReleaseRemove(p)
       PROVE  Decayed'
  BY <1>0, <1>13
     DEF ReleaseRemove, Finish, Goto, Locals, OneRelease, Shape
<1>14. ASSUME NEW o \in Operators, NEW t \in Tenants, ForceRelease(o, t)
       PROVE  Decayed'
  BY <1>0, <1>14
     DEF ForceRelease, Goto, Locals, historyVars
<1>15. ASSUME NEW o \in Operators, NEW t \in Tenants, ForceReleaseUnknown(o, t)
       PROVE  Decayed'
  BY <1>0, <1>15
     DEF ForceReleaseUnknown, ClearRecord, Busy, procVars
<1>16. ASSUME NEW o \in Operators, NEW t \in Tenants,
              SetNamespacePolicy(o, t) \/ DropTenant(o, t)
       PROVE  Decayed'
  BY <1>0, <1>16
     DEF SetNamespacePolicy, DropTenant, procVars, historyVars
<1>17. ASSUME NEW o \in Operators, NEW t \in Tenants, NEW pol \in Policy,
              UpdatePolicy(o, t, pol) \/ ProvisionTenant(o, t, pol)
       PROVE  Decayed'
  BY <1>0, <1>17, DivisionByOne, PowerLaw, SMTT(60)
     DEF UpdatePolicy, ProvisionTenant, PolicySet, Busy, procVars
<1>18. CASE (\E t \in Tenants : CooldownEnds(t)) \/ FailedWrite \/ UNCHANGED vars
  BY <1>0, <1>18
     DEF CooldownEnds, FailedWrite, vars, procVars, historyVars
<1>19. CASE Restart
  BY <1>0, <1>19, RestartScheduler, PlansType, DivisionByOne, PowerLaw
     DEF Restart, Restorable, RecordsKept
<1> QED
  BY <1>1, <1>2, <1>3, <1>4, <1>5, <1>6, <1>7, <1>8, <1>9, <1>10,
     <1>11, <1>12, <1>13, <1>14, <1>15, <1>16, <1>17, <1>18, <1>19
     DEF ThrottleStep, Apply, Release, Operate

(***************************************************************************)
(* The types of the statistics                                             *)
(***************************************************************************)
\* Counts and thresholds stay in their ranges.
LEMMA StatsTypeOKStep ==
  ASSUME ThrottleTypes, ThrottleTypes', StatsTypeOK, Totals, [StatsNext]_allVars
  PROVE  StatsTypeOK'
<1> USE DEF ThrottleTypes, StatsTypeOK, Totals, Covered, Known, Nothing, Count, Threshold, Stages, WarmThreshold, WarmTotal, statsVars, memoryVars, recordVars, daemonVars
<1>1. CASE Refresh
  BY <1>1
     DEF Refresh, CountersLeft, vars
<1>2. ASSUME NEW t \in Tenants, Unpromoted(t)
      PROVE  StatsTypeOK'
  BY <1>2
     DEF Unpromoted, vars
<1>3. ASSUME NEW t \in Tenants, Promote(t)
      PROVE  StatsTypeOK'
  BY <1>3
     DEF Promote, vars
<1>4. ASSUME NEW t \in Tenants, FlushPromotion(t)
      PROVE  StatsTypeOK'
  BY <1>4
     DEF FlushPromotion, SaveThreshold, PromotionRecord, FailedWrite, vars
<1>5. ASSUME NEW l \in [Tenants -> Loads], EvaluateBegin(l)
      PROVE  StatsTypeOK'
  BY <1>5
     DEF EvaluateBegin, CycleBegin
<1>6. CASE EvaluateStep
  BY <1>6
     DEF EvaluateStep, EvaluateSkip, EvaluateRelease, EvaluateApply, Apply, ApplyRead,
         ApplyUpdate, ApplyPersist, ApplyInsert, Release, ReleaseRead, ReleaseUpdate,
         ReleaseClear, ReleaseRemove
<1>7. CASE EvaluateEnd
  BY <1>7
     DEF EvaluateEnd, CycleEnd
<1>8. ASSUME NEW t \in Tenants, FlushStats(t)
      PROVE  StatsTypeOK'
  BY <1>8
     DEF FlushStats, FailedWrite, vars
<1>9. CASE FlushBegin
  BY <1>9
     DEF FlushBegin, vars
<1>10. ASSUME NEW t \in Tenants, FlushBaseline(t)
       PROVE  StatsTypeOK'
  BY <1>10
     DEF FlushBaseline, SaveThreshold, FailedWrite, vars
<1>11. CASE \E o \in Operators : Release(o) /\ UNCHANGED statsVars
  BY <1>11
     DEF Release, ReleaseRead, ReleaseUpdate, ReleaseClear, ReleaseRemove
<1>12. ASSUME NEW o \in Operators, NEW t \in Tenants, UNCHANGED statsVars,
              ForceRelease(o, t) \/ ForceReleaseUnknown(o, t) \/ SetNamespacePolicy(o, t)
                \/ (\E pol \in Updates : UpdatePolicy(o, t, pol))
       PROVE  StatsTypeOK'
  BY <1>12
     DEF ForceRelease, ForceReleaseUnknown, SetNamespacePolicy, UpdatePolicy
<1>13. ASSUME NEW o \in Operators, NEW t \in Tenants, StatsDrop(o, t)
       PROVE  StatsTypeOK'
  BY <1>13
     DEF StatsDrop, DropTenant
<1>14. ASSUME NEW o \in Operators, NEW t \in Tenants, NEW pol \in Plans, StatsProvision(o, t, pol)
       PROVE  StatsTypeOK'
  BY <1>14
     DEF StatsProvision, ProvisionTenant
<1>15. ASSUME NEW t \in Tenants, RecordEnqueue(t)
       PROVE  StatsTypeOK'
  BY <1>15
     DEF RecordEnqueue, vars
<1>16. CASE StatsRestart
  BY <1>16
     DEF StatsRestart, Restart
<1>17. CASE UNCHANGED allVars \/ \E t \in Tenants : CooldownEnds(t) /\ UNCHANGED statsVars
  BY <1>17
     DEF CooldownEnds, allVars, vars
<1> QED
  BY <1>1, <1>2, <1>3, <1>4, <1>5, <1>6, <1>7, <1>8, <1>9, <1>10,
     <1>11, <1>12, <1>13, <1>14, <1>15, <1>16, <1>17
     DEF StatsNext, DaemonStep, StatsOperate

(***************************************************************************)
(* Totals                                                                  *)
(***************************************************************************)
\* Totals are copies of counters, or of records of such copies.
LEMMA TotalsStep ==
  ASSUME ThrottleTypes, ThrottleTypes', StatsTypeOK, Totals, [StatsNext]_allVars
  PROVE  Totals'
<1> USE DEF ThrottleTypes, StatsTypeOK, Totals, Covered, Known, Nothing, Count, WarmTotal, statsVars, memoryVars, recordVars, daemonVars
<1>1. CASE Refresh
  BY <1>1
     DEF Refresh, CountersLeft, vars
<1>2. ASSUME NEW t \in Tenants, Unpromoted(t)
      PROVE  Totals'
  BY <1>2
     DEF Unpromoted, vars
<1>3. ASSUME NEW t \in Tenants, Promote(t)
      PROVE  Totals'
  BY <1>3
     DEF Promote, vars
<1>4. ASSUME NEW t \in Tenants, FlushPromotion(t)
      PROVE  Totals'
  BY <1>4
     DEF FlushPromotion, SaveThreshold, PromotionRecord, FailedWrite, vars
<1>5. ASSUME NEW l \in [Tenants -> Loads], EvaluateBegin(l)
      PROVE  Totals'
  BY <1>5
     DEF EvaluateBegin, CycleBegin
<1>6. CASE EvaluateStep
  BY <1>6
     DEF EvaluateStep, EvaluateSkip, EvaluateRelease, EvaluateApply, Apply, ApplyRead,
         ApplyUpdate, ApplyPersist, ApplyInsert, Release, ReleaseRead, ReleaseUpdate,
         ReleaseClear, ReleaseRemove
<1>7. CASE EvaluateEnd
  BY <1>7
     DEF EvaluateEnd, CycleEnd
<1>8. ASSUME NEW t \in Tenants, FlushStats(t)
      PROVE  Totals'
  BY <1>8
     DEF FlushStats, FailedWrite, vars
<1>9. CASE FlushBegin
  BY <1>9
     DEF FlushBegin, vars
<1>10. ASSUME NEW t \in Tenants, FlushBaseline(t)
       PROVE  Totals'
  BY <1>10
     DEF FlushBaseline, SaveThreshold, FailedWrite, vars
<1>11. CASE \E o \in Operators : Release(o) /\ UNCHANGED statsVars
  BY <1>11
     DEF Release, ReleaseRead, ReleaseUpdate, ReleaseClear, ReleaseRemove
<1>12. ASSUME NEW o \in Operators, NEW t \in Tenants, UNCHANGED statsVars,
              ForceRelease(o, t) \/ ForceReleaseUnknown(o, t) \/ SetNamespacePolicy(o, t)
                \/ (\E pol \in Updates : UpdatePolicy(o, t, pol))
       PROVE  Totals'
  <2>1. /\ counted' = counted /\ total' = total /\ snap' = snap
        /\ savedTotal' = savedTotal /\ accepted' = accepted /\ warmed' = warmed
    BY <1>12 DEF statsVars, memoryVars, recordVars, daemonVars
  <2>2. \A u \in Tenants : plan'[u] = None <=> plan[u] = None
    BY <1>12, NamespacePlanType
       DEF ForceRelease, ForceReleaseUnknown, SetNamespacePolicy, UpdatePolicy, TypeOK
  <2> QED
    BY <2>1, <2>2
<1>13. ASSUME NEW o \in Operators, NEW t \in Tenants, StatsDrop(o, t)
       PROVE  Totals'
  BY <1>13
     DEF StatsDrop, DropTenant, TypeOK
<1>14. ASSUME NEW o \in Operators, NEW t \in Tenants, NEW pol \in Plans, StatsProvision(o, t, pol)
       PROVE  Totals'
  BY <1>14
     DEF StatsProvision, ProvisionTenant, TypeOK
<1>15. ASSUME NEW t \in Tenants, RecordEnqueue(t)
       PROVE  Totals'
  BY <1>15
     DEF RecordEnqueue, vars
<1>16. CASE StatsRestart
  BY <1>16
     DEF StatsRestart, Restart
<1>17. CASE UNCHANGED allVars \/ \E t \in Tenants : CooldownEnds(t) /\ UNCHANGED statsVars
  BY <1>17
     DEF CooldownEnds, allVars, vars
<1> QED
  BY <1>1, <1>2, <1>3, <1>4, <1>5, <1>6, <1>7, <1>8, <1>9, <1>10,
     <1>11, <1>12, <1>13, <1>14, <1>15, <1>16, <1>17
     DEF StatsNext, DaemonStep, StatsOperate

(***************************************************************************)
(* Spike thresholds                                                        *)
(***************************************************************************)
\* A promotion is saved before anything else is, and a flush writes what is saved.
LEMMA ThresholdsStep ==
  ASSUME ThrottleTypes, StatsTypeOK, Thresholds, [StatsNext]_allVars
  PROVE  Thresholds'
<1> USE DEF ThrottleTypes, StatsTypeOK, TypeOK, Thresholds, Promoted, Known, Nothing, Threshold, WarmThreshold, statsVars, memoryVars, recordVars, daemonVars
<1>1. CASE Refresh
  BY <1>1
     DEF Refresh, CountersLeft, vars, procVars
<1>2. ASSUME NEW t \in Tenants, Unpromoted(t)
      PROVE  Thresholds'
  BY <1>2
     DEF Unpromoted, vars, procVars
<1>3. ASSUME NEW t \in Tenants, Promote(t)
      PROVE  Thresholds'
  BY <1>3
     DEF Promote, vars, procVars
<1>4. ASSUME NEW t \in Tenants, FlushPromotion(t)
      PROVE  Thresholds'
  BY <1>4
     DEF FlushPromotion, SaveThreshold, PromotionRecord, FailedWrite, vars, procVars
<1>5. ASSUME NEW l \in [Tenants -> Loads], EvaluateBegin(l)
      PROVE  Thresholds'
  BY <1>5
     DEF EvaluateBegin, CycleBegin, Goto
<1>6. CASE EvaluateStep
  BY <1>6, DaemonNotOperator
     DEF EvaluateStep, EvaluateSkip, EvaluateRelease, EvaluateApply, Apply, ApplyRead,
         ApplyUpdate, ApplyPersist, ApplyInsert, Release, ReleaseRead, ReleaseUpdate,
         ReleaseClear, ReleaseRemove, Goto, Finish
<1>7. CASE EvaluateEnd
  BY <1>7, DaemonNotOperator
     DEF EvaluateEnd, CycleEnd, Goto
<1>8. ASSUME NEW t \in Tenants, FlushStats(t)
      PROVE  Thresholds'
  BY <1>8
     DEF FlushStats, FailedWrite, vars, procVars
<1>9. CASE FlushBegin
  BY <1>9
     DEF FlushBegin, vars, procVars
<1>10. ASSUME NEW t \in Tenants, FlushBaseline(t)
       PROVE  Thresholds'
  BY <1>10
     DEF FlushBaseline, SaveThreshold, FailedWrite, vars, procVars
<1>11. CASE \E o \in Operators : Release(o) /\ UNCHANGED statsVars
  BY <1>11, DaemonNotOperator
     DEF Release, ReleaseRead, ReleaseUpdate, ReleaseClear, ReleaseRemove, Goto, Finish
<1>12. ASSUME NEW o \in Operators, NEW t \in Tenants, UNCHANGED statsVars,
              ForceRelease(o, t) \/ ForceReleaseUnknown(o, t) \/ SetNamespacePolicy(o, t)
                \/ (\E pol \in Updates : UpdatePolicy(o, t, pol))
       PROVE  Thresholds'
  BY <1>12, DaemonNotOperator
     DEF ForceRelease, ForceReleaseUnknown, SetNamespacePolicy, UpdatePolicy, Goto, procVars
<1>13. ASSUME NEW o \in Operators, NEW t \in Tenants, StatsDrop(o, t)
       PROVE  Thresholds'
  BY <1>13
     DEF StatsDrop, DropTenant, procVars
<1>14. ASSUME NEW o \in Operators, NEW t \in Tenants, NEW pol \in Plans, StatsProvision(o, t, pol)
       PROVE  Thresholds'
  BY <1>14
     DEF StatsProvision, ProvisionTenant, procVars
<1>15. ASSUME NEW t \in Tenants, RecordEnqueue(t)
       PROVE  Thresholds'
  BY <1>15
     DEF RecordEnqueue, vars, procVars
<1>16. CASE StatsRestart
  BY <1>16, DaemonNotOperator
     DEF StatsRestart, Restart
<1>17. CASE UNCHANGED allVars \/ \E t \in Tenants : CooldownEnds(t) /\ UNCHANGED statsVars
  BY <1>17
     DEF CooldownEnds, allVars, vars, procVars
<1> QED
  BY <1>1, <1>2, <1>3, <1>4, <1>5, <1>6, <1>7, <1>8, <1>9, <1>10,
     <1>11, <1>12, <1>13, <1>14, <1>15, <1>16, <1>17
     DEF StatsNext, DaemonStep, StatsOperate

(***************************************************************************)
(* The invariants of the whole                                             *)
(***************************************************************************)
LEMMA StatsInitial ==
  ASSUME StatsInit
  PROVE  StatsInv /\ ThrottleInv /\ Decayed
<1>1. ThrottleTypes /\ Init
  BY ThrottleTypesInit DEF StatsInit
<1>2. StatsTypeOK
  BY <1>1 DEF StatsInit, StatsTypeOK, ThrottleTypes, Zero, Nothing, Count, Threshold, Stages
<1>3. Totals
  BY <1>1 DEF StatsInit, Init, Totals, Covered, Known, Zero, Nothing
<1>4. Thresholds
  BY <1>1, DaemonNotOperator DEF StatsInit, Init, Thresholds, Promoted, Known, Zero, Nothing, WarmThreshold
<1>5. Exclusive /\ Recorded /\ InForce
  BY <1>1, DaemonNotOperator DEF Init, Exclusive, Recorded, InForce, At, ReleasePCs, ApplyPCs
<1>6. Rates
  BY <1>1, DaemonNotOperator DEF Init, Rates, Given, At, ReleasePCs, ApplyPCs
<1>7. Decayed
  BY <1>1, DaemonNotOperator, DivisionByOne, PowerLaw DEF Init, ThrottleTypes, TypeOK, Decayed, At
<1> QED
  BY <1>1, <1>2, <1>3, <1>4, <1>5, <1>6, <1>7 DEF StatsInv, ThrottleInv

LEMMA StatsInvStep ==
  ASSUME StatsInv, [StatsNext]_allVars
  PROVE  StatsInv'
<1>1. ThrottleTypes'
  BY StatsThrottleStep, ThrottleTypesStep DEF StatsInv
<1> QED
  BY <1>1, StatsTypeOKStep, TotalsStep, ThresholdsStep DEF StatsInv

LEMMA ThrottleInvStep ==
  ASSUME ThrottleInv, OneRelease, [StatsNext]_allVars
  PROVE  ThrottleInv'
<1>1. [ThrottleStep]_vars
  BY StatsThrottleStep
<1> QED
  BY <1>1, ThrottleTypesStep, ExclusiveStep, RecordedStep, RatesStep, InForceStep DEF ThrottleInv

LEMMA StatsInvariant == StatsSpec => []StatsInv
<1> QED
  BY StatsInitial, StatsInvStep, PTL DEF StatsSpec

LEMMA ThrottleInvariant == StatsSpec /\ []OneRelease => []ThrottleInv
<1> QED
  BY StatsInitial, ThrottleInvStep, PTL DEF StatsSpec

\* One operator always takes turns.
LEMMA OneOperator ==
  ASSUME \A o \in Operators, q \in Operators : o = q
  PROVE  OneRelease
BY DEF OneRelease

(***************************************************************************)
(* The theorems                                                            *)
(***************************************************************************)
\* The types of the daemon, the registries and the throttles, whatever the daemon
\* and the operators do to each other's policies: a policy is never written from
\* registers that were not read, and max_inflight never goes below zero.
THEOREM StatsTypesCorrect == StatsSpec => []StatsTypeOK
<1>1. StatsInv => StatsTypeOK
  BY DEF StatsInv
<1> QED
  BY <1>1, StatsInvariant, PTL

\* A promoted spike threshold survives restarts and dropping and provisioning the
\* tenant again, for any number of tenants and flushes: flushing is never late
\* enough to write an older threshold over a newer one.
THEOREM ThresholdsSurvive == StatsSpec => []ThresholdSurvives
<1>1. StatsInv => ThresholdSurvives
  BY DEF StatsInv, StatsTypeOK, Thresholds, ThresholdSurvives, Promoted, Known, WarmThreshold,
         Threshold
<1> QED
  BY <1>1, StatsInvariant, PTL

\* The totals that are shown never exceed what was accepted, and go down only in
\* the first refresh after a restart.
THEOREM TotalsStayCredible == StatsSpec => TotalsCredible
<1> DEFINE Credible ==
      \A t \in Known(total) \cap Known(total)' :
        /\ total'[t] <= accepted'[t]
        /\ total'[t] < total[t] => t \in warmed \/ restarts' # restarts
<1>1. ASSUME StatsInv, StatsInv', [StatsNext]_allVars
      PROVE  [Credible]_allVars
  <2>1. \A t \in Known(total)' : total'[t] <= accepted'[t]
    BY <1>1 DEF StatsInv, Totals, Covered
  <2> SUFFICES ASSUME NEW t \in Tenants, total[t] # None, total'[t] # None,
                      total'[t] < total[t], t \notin warmed, restarts' = restarts
               PROVE  FALSE
    BY <2>1 DEF Known
  <2>2. total[t] \in Nat /\ counted[t] \in Nat /\ total[t] <= counted[t]
    BY <1>1 DEF StatsInv, StatsTypeOK, Totals, Known, Count
  <2>3. total'[t] # total[t]
    BY <2>2
  <2>4. CASE Refresh
    BY <2>2, <2>4 DEF Refresh
  <2>5. CASE StatsRestart
    BY <1>1, <2>5 DEF StatsRestart, Restart, StatsInv, ThrottleTypes, TypeOK
  <2>6. ASSUME NEW o \in Operators, NEW u \in Tenants, NEW pol \in Plans, StatsProvision(o, u, pol)
        PROVE  FALSE
    BY <1>1, <2>3, <2>6 DEF StatsProvision, ProvisionTenant, StatsInv, StatsTypeOK, Totals
  <2>7. ASSUME NEW o \in Operators, NEW u \in Tenants, StatsDrop(o, u)
        PROVE  FALSE
    BY <1>1, <2>3, <2>7 DEF StatsDrop, StatsInv, StatsTypeOK
  <2>8. ~(UNCHANGED total)
    BY <2>3
  <2> QED
    BY <1>1, <2>4, <2>5, <2>6, <2>7, <2>8
       DEF StatsNext, DaemonStep, StatsOperate, allVars, statsVars, memoryVars, Unpromoted, Promote,
           FlushPromotion, EvaluateBegin, EvaluateStep, EvaluateEnd, FlushBegin, FlushStats,
           FlushBaseline, RecordEnqueue
<1>2. StatsSpec => [][Credible]_allVars
  BY <1>1, StatsInvariant, PTL DEF StatsSpec
<1> QED
  BY <1>2 DEF TotalsCredible

\* While operators take turns with a tenant, a restart finds the throttles that
\* were in force and no others, but for failed writes.
THEOREM ThrottlesPersisted == StatsSpec /\ []OneRelease => []ThrottlePersisted
<1>1. ThrottleInv => ThrottlePersisted
  BY DaemonNotOperator DEF ThrottleInv, Recorded, ThrottlePersisted, Busy, At
<1> QED
  BY <1>1, ThrottleInvariant, PTL

\* While operators take turns with a tenant, a throttle that is reported is in
\* force, but for policies set meanwhile and restarts.
THEOREM ThrottlesInForce == StatsSpec /\ []OneRelease => []ThrottleInForce
<1>1. ThrottleInv => ThrottleInForce
  BY DaemonNotOperator DEF ThrottleInv, InForce, ThrottleInForce, Busy, At
<1> QED
  BY <1>1, ThrottleInvariant, PTL

\* While operators take turns with a tenant, what a throttle took from the rate
\* comes back, wherever the process died and whoever released it.
THEOREM RatesRestored == StatsSpec /\ []OneRelease => []RateRestored
<1>1. ThrottleInv => RateRestored
  BY DaemonNotOperator DEF ThrottleInv, Rates, Given, RateRestored, Busy, At
<1> QED
  BY <1>1, ThrottleInvariant, PTL

\* While operators take turns with a tenant, max_inflight is divided exactly once
\* for every throttle since the policy was set.
THEOREM InflightDecays == StatsSpec /\ []OneRelease => []MaxInflightDecays
<1>1. ASSUME ThrottleInv, Decayed, OneRelease, [StatsNext]_allVars
      PROVE  Decayed'
  BY <1>1, StatsThrottleStep, DecayedStep DEF ThrottleInv
<1>2. StatsInit => Decayed
  BY StatsInitial
<1>3. Decayed => MaxInflightDecays
  BY DEF Decayed, MaxInflightDecays
<1> QED
  BY <1>1, <1>2, <1>3, ThrottleInvariant, PTL DEF StatsSpec
=============================================================================
