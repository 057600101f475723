----------------------------- MODULE StatsDaemon -----------------------------
(***************************************************************************)
(* The stats daemon with all that hangs on its cycle: StatsCollector's     *)
(* counters and totals, BaselineRegistry's spike thresholds, the throttles *)
(* of AutoThrottle, and the records of the three that StatsStore keeps in  *)
(* __system__ for the next start.                                          *)
(*                                                                         *)
(* A cycle refreshes the statistics, takes snapshots of them, updates the  *)
(* baselines from these (a promotion is saved at once), evaluates the      *)
(* throttles, and every FlushEvery-th time saves statistics and baselines. *)
(* Meanwhile tenants come and go, and the process may die.                 *)
(***************************************************************************)
EXTENDS AutoThrottle

CONSTANT
  FlushEvery      \* cycles between two flushes (10 in the code)

\* Bounds of the model; the code has none of them.
CONSTANTS
  MaxThreshold,   \* spike thresholds, in steps above the initial one
  MaxEnqueues     \* enqueues ever counted

ASSUME DaemonAssumption ==
  /\ None \notin Nat
  /\ FlushEvery \in Nat \ {0}
  /\ MaxThreshold \in Nat
  /\ MaxEnqueues \in Nat

VARIABLES
  counted,        \* tenant -> counters.total_enqueued
  total,          \* tenant -> stats.total_enqueued
  threshold,      \* tenant -> spike_threshold of its baseline
  savedTotal,     \* tenant -> total_enqueued of its stats record
  savedThreshold, \* tenant -> spike_threshold of its baseline record
  cycle,          \* cycle_count, modulo FlushEvery
  stage, left,    \* where the daemon is, and the tenants it has still to do there
  snap, bsnap,    \* the snapshots of totals and of thresholds it works from
  accepted,       \* history: tenant -> enqueues ever counted under its name
  warmed,         \* history: tenants not refreshed since warm_from_store
  unsaved         \* history: tenants whose baseline failed to be saved, until it is

memoryVars == <<counted, total, threshold>>
recordVars == <<savedTotal, savedThreshold>>
daemonVars == <<cycle, stage, left, snap, bsnap>>
statsVars == <<memoryVars, recordVars, daemonVars, accepted, warmed, unsaved>>
allVars == <<vars, statsVars>>

Count == 0 .. MaxEnqueues
Threshold == 0 .. MaxThreshold
Stages ==
  {"rest", "baselines", "promoted", "throttles", "flush_stats", "flush_baselines"}

StatsTypeOK ==
  /\ TypeOK
  /\ counted \in [Tenants -> Count \cup {None}]
  /\ total \in [Tenants -> Count \cup {None}]
  /\ threshold \in [Tenants -> Threshold \cup {None}]
  /\ savedTotal \in [Tenants -> Count \cup {None}]
  /\ savedThreshold \in [Tenants -> Threshold \cup {None}]
  /\ cycle \in 0 .. FlushEvery - 1
  /\ stage \in Stages
  /\ left \subseteq Tenants
  /\ snap \in [Tenants -> Count \cup {None}]
  /\ bsnap \in [Tenants -> Threshold \cup {None}]
  /\ accepted \in [Tenants -> Count]
  /\ warmed \subseteq Tenants
  /\ unsaved \subseteq Tenants

Nothing == [t \in Tenants |-> None]
Zero == [t \in Tenants |-> 0]
Known(f) == {t \in Tenants : f[t] # None}

StatsInit ==
  /\ Init
  /\ counted = Zero
  /\ total = Zero
  /\ threshold = Zero
  /\ savedTotal = Nothing
  /\ savedThreshold = Nothing
  /\ cycle = 0
  /\ stage = "rest"
  /\ left = {}
  /\ snap = Nothing
  /\ bsnap = Nothing
  /\ accepted = Zero
  /\ warmed = {}
  /\ unsaved = {}

(***************************************************************************)
(* StatsCollector and BaselineRegistry                                     *)
(***************************************************************************)
\* record_enqueue; a tenant that is not registered is not counted.
RecordEnqueue(t) ==
  /\ counted[t] # None
  /\ accepted[t] < MaxEnqueues
  /\ counted' = [counted EXCEPT ![t] = @ + 1]
  /\ accepted' = [accepted EXCEPT ![t] = @ + 1]
  /\ UNCHANGED <<vars, total, threshold, recordVars, daemonVars, warmed, unsaved>>

\* The threshold BaselineRegistry::register gives t: that of its record, even if
\* an earlier tenant of that name left it, or else the initial one.
WarmThreshold(t) == IF savedThreshold[t] = None THEN 0 ELSE savedThreshold[t]

\* ProvisionTenant registers with the collector and the baselines too.
StatsProvision(o, t, pol) ==
  /\ ProvisionTenant(o, t, pol)
  /\ counted' = [counted EXCEPT ![t] = 0]
  /\ total' = [total EXCEPT ![t] = 0]
  /\ threshold' = [threshold EXCEPT ![t] = WarmThreshold(t)]
  /\ warmed' = warmed \ {t}
  /\ UNCHANGED <<recordVars, daemonVars, accepted, unsaved>>

\* DropTenant deregisters with both; the records stay.
StatsDrop(o, t) ==
  /\ DropTenant(o, t)
  /\ counted' = [counted EXCEPT ![t] = None]
  /\ total' = [total EXCEPT ![t] = None]
  /\ threshold' = [threshold EXCEPT ![t] = None]
  /\ UNCHANGED <<recordVars, daemonVars, accepted, warmed, unsaved>>

StatsOperate(o) ==
  \/ /\ \/ \E t \in Tenants : ForceRelease(o, t) \/ ForceReleaseUnknown(o, t)
                               \/ SetNamespacePolicy(o, t)
        \/ \E t \in Tenants, pol \in Updates : UpdatePolicy(o, t, pol)
     /\ UNCHANGED statsVars
  \/ \E t \in Tenants : StatsDrop(o, t)
  \/ \E t \in Tenants, pol \in Plans : StatsProvision(o, t, pol)

(***************************************************************************)
(* The daemon's cycle                                                      *)
(***************************************************************************)
\* Faulty variant: refresh takes the totals out of the counters, as it does
\* with the counts of the cycle.
CountersLeftEmpty == [t \in Tenants |-> IF counted[t] = None THEN None ELSE 0]

\* What refresh leaves in counters.total_enqueued.
CountersLeft == counted

\* refresh, where each entry is locked while its totals are copied; the backlogs
\* recorded; all_snapshots.
Refresh ==
  /\ stage = "rest"
  /\ total' = counted
  /\ counted' = CountersLeft
  /\ warmed' = {}
  /\ snap' = total'
  /\ left' = Known(snap')
  /\ stage' = "baselines"
  /\ UNCHANGED <<vars, threshold, recordVars, cycle, bsnap, accepted, unsaved>>

\* update finds no drift, no threshold 5% higher, or no baseline of t.
Unpromoted(t) ==
  /\ stage = "baselines"
  /\ t \in left
  /\ left' = left \ {t}
  /\ UNCHANGED <<vars, memoryVars, recordVars, cycle, stage, snap, bsnap, accepted,
                 warmed, unsaved>>

\* update promotes t's baseline, and only ever to a higher threshold.
Promote(t) ==
  /\ stage = "baselines"
  /\ t \in left
  /\ threshold[t] # None
  /\ \E n \in Threshold : n > threshold[t] /\ threshold' = [threshold EXCEPT ![t] = n]
  /\ bsnap' = [Nothing EXCEPT ![t] = threshold'[t]]
  /\ left' = left \ {t}
  /\ stage' = "promoted"
  /\ UNCHANGED <<vars, counted, total, recordVars, cycle, snap, accepted, warmed, unsaved>>

\* A write that nothing of AutoThrottle's depends on fails.
FailedWrite ==
  /\ Fault
  /\ UNCHANGED <<plan, sched, states, stored, cooling, load, procVars,
                 throttles, restarts, plans, historyVars>>

\* flush_baselines writes threshold n for t, or fails to, which is only logged.
SaveThreshold(t, n) ==
  \/ /\ savedThreshold' = [savedThreshold EXCEPT ![t] = n]
     /\ unsaved' = IF n = threshold[t] THEN unsaved \ {t} ELSE unsaved
     /\ UNCHANGED vars
  \/ /\ FailedWrite
     /\ unsaved' = unsaved \cup {t}
     /\ UNCHANGED savedThreshold

\* Faulty variant: a promotion is left to the next flush.
PromotionRecordLater(t) == savedThreshold[t]

\* What is saved after a promotion: the baseline as it is then.
PromotionRecord(t) == threshold[t]

\* A baseline deregistered since its promotion is not saved.
FlushPromotion(t) ==
  /\ stage = "promoted"
  /\ t \in Known(bsnap)
  /\ IF threshold[t] = None
       THEN UNCHANGED <<vars, savedThreshold, unsaved>>
       ELSE SaveThreshold(t, PromotionRecord(t))
  /\ bsnap' = Nothing
  /\ stage' = "baselines"
  /\ UNCHANGED <<memoryVars, savedTotal, cycle, left, snap, accepted, warmed>>

\* The tenth cycle, and every tenth one from then on.
FlushDue == cycle = FlushEvery - 1

\* The throttles are evaluated from the same snapshots, which are not needed any
\* more afterwards, unless they are to be saved.
EvaluateBegin(l) ==
  /\ stage = "baselines"
  /\ left = {}
  /\ CycleBegin(Known(snap), l)
  /\ snap' = IF FlushDue THEN snap ELSE Nothing
  /\ stage' = "throttles"
  /\ UNCHANGED <<memoryVars, recordVars, cycle, left, bsnap, accepted, warmed, unsaved>>

EvaluateStep ==
  /\ \/ \E t \in Tenants : EvaluateSkip(t) \/ EvaluateRelease(t) \/ EvaluateApply(t)
     \/ Apply
     \/ Release(Daemon)
  /\ UNCHANGED statsVars

EvaluateEnd ==
  /\ CycleEnd
  /\ cycle' = (cycle + 1) % FlushEvery
  /\ stage' = IF FlushDue THEN "flush_stats" ELSE "rest"
  /\ left' = Known(snap)
  /\ UNCHANGED <<memoryVars, recordVars, snap, bsnap, accepted, warmed, unsaved>>

\* flush_stats, one record: of the snapshot, whatever became of the tenant.  That
\* it is not written is only logged.
FlushStats(t) ==
  /\ stage = "flush_stats"
  /\ t \in left
  /\ \/ /\ savedTotal' = [savedTotal EXCEPT ![t] = snap[t]]
        /\ UNCHANGED vars
     \/ /\ FailedWrite
        /\ UNCHANGED savedTotal
  /\ left' = left \ {t}
  /\ UNCHANGED <<memoryVars, savedThreshold, cycle, stage, snap, bsnap, accepted,
                 warmed, unsaved>>

\* BaselineRegistry::flush takes its snapshots, then writes them one by one.
FlushBegin ==
  /\ stage = "flush_stats"
  /\ left = {}
  /\ bsnap' = threshold
  /\ left' = Known(threshold)
  /\ snap' = Nothing
  /\ stage' = IF left' = {} THEN "rest" ELSE "flush_baselines"
  /\ UNCHANGED <<vars, memoryVars, recordVars, cycle, accepted, warmed, unsaved>>

FlushBaseline(t) ==
  /\ stage = "flush_baselines"
  /\ t \in left
  /\ SaveThreshold(t, bsnap[t])
  /\ left' = left \ {t}
  /\ bsnap' = [bsnap EXCEPT ![t] = None]
  /\ stage' = IF left' = {} THEN "rest" ELSE stage
  /\ UNCHANGED <<memoryVars, savedTotal, cycle, snap, accepted, warmed>>

DaemonStep ==
  \/ Refresh
  \/ \E t \in Tenants : Unpromoted(t) \/ Promote(t) \/ FlushPromotion(t)
  \/ \E l \in [Tenants -> Loads] : EvaluateBegin(l)
  \/ EvaluateStep \/ EvaluateEnd
  \/ FlushBegin
  \/ \E t \in Tenants : FlushStats(t) \/ FlushBaseline(t)

(***************************************************************************)
(* Restarts                                                                *)
(***************************************************************************)
\* The total of t's record, as load_all_stats finds it; it does not decay with the
\* time offline, as the rates do.
WarmTotal(t) == IF savedTotal[t] = None THEN 0 ELSE savedTotal[t]

\* After the throttles are restored, main registers every tenant with the
\* collector and the baselines; warm_from_store then fills in the totals of the
\* records, but not the counters they are copied from.
StatsRestart ==
  LET served == {t \in Tenants : plan[t] # None}
  IN  /\ Restart
      /\ counted' = [t \in Tenants |-> IF t \in served THEN 0 ELSE None]
      /\ total' = [t \in Tenants |-> IF t \in served THEN WarmTotal(t) ELSE None]
      /\ threshold' = [t \in Tenants |-> IF t \in served THEN WarmThreshold(t) ELSE None]
      /\ warmed' = served \cap Known(savedTotal)
      /\ unsaved' = {}
      /\ cycle' = 0
      /\ stage' = "rest"
      /\ left' = {}
      /\ snap' = Nothing
      /\ bsnap' = Nothing
      /\ UNCHANGED <<recordVars, accepted>>

StatsNext ==
  \/ DaemonStep
  \/ \E o \in Operators : Release(o) /\ UNCHANGED statsVars
  \/ \E o \in Operators : StatsOperate(o)
  \/ \E t \in Tenants : RecordEnqueue(t)
  \/ \E t \in Tenants : CooldownEnds(t) /\ UNCHANGED statsVars
  \/ StatsRestart

StatsSpec == StatsInit /\ [][StatsNext]_allVars

(***************************************************************************)
(* Properties                                                              *)
(***************************************************************************)
\* A tenant that has proved to need a higher spike threshold does not lose it:
\* what is in memory is covered by the record, so that neither a restart nor
\* dropping and provisioning the tenant again lowers it, unless the promotion
\* is just being saved or saving it failed.
ThresholdSurvives ==
  \A t \in Known(threshold) :
    (stage = "promoted" => t \notin Known(bsnap)) /\ t \notin unsaved =>
      threshold[t] <= WarmThreshold(t)

\* The totals reported for a registered tenant never go down while the process
\* runs, except in the first refresh after a restart, which replaces the totals
\* of the record by those of counters that started from zero; and they never
\* exceed what was accepted under the tenant's name.
TotalsCredible ==
  [][\A t \in Known(total) \cap Known(total)' :
       /\ total'[t] <= accepted'[t]
       /\ total'[t] < total[t] => t \in warmed \/ restarts' # restarts]_allVars
=============================================================================
