----------------------------- MODULE WFQScheduler -----------------------------
(***************************************************************************)
(* Weighted fair queueing: WFQScheduler::schedule and the operations that  *)
(* change the tenants it looks at.                                         *)
(*                                                                         *)
(* `tenants` is a DashMap, so each entry is read and written atomically    *)
(* and nothing holds the map still from one entry to the next.  A call of  *)
(* schedule sums the weights of the eligible tenants entry by entry, goes  *)
(* over the map again to collect the candidates, and then charges them one *)
(* by one: calls of schedule, release, set_paused, update_policy, register *)
(* and deregister may fall between any two of these steps.                 *)
(*                                                                         *)
(* Virtual times are kept in units of 1 / Scale, so that packet_size /     *)
(* weight is a whole number.  A tenant's tokens are the whole tokens in    *)
(* its bucket.  The share of a candidate is the floor of a product of two  *)
(* floating-point numbers, total_slots * (weight / total_weight): where    *)
(* the exact product is a whole number the computed one may fall just      *)
(* below it, and RoundsDown says where it does.                            *)
(***************************************************************************)
EXTENDS Integers, FiniteSets, Sums

CONSTANTS
  Tenants,        \* numbers, in the order the map iterates
  Callers,        \* threads that call schedule
  None,           \* no entry
  Policies,       \* TenantPolicy values a tenant may be given
  SlotRequests,   \* the total_slots callers ask for
  RoundsDown,     \* the <<total_slots, weight, total_weight>> that are rounded down
  Scale           \* units of virtual time; every positive weight divides it

\* Bounds of the model; the code has none of them.
CONSTANTS
  MaxCalls,       \* calls of schedule
  MaxRefill,      \* tokens one refill adds
  MaxChanges,     \* pauses, policy updates, removals and replacements
  ReturnSizes     \* how many slots one release returns

\* What schedule reads of a TenantPolicy; rate_per_sec only decides how many
\* tokens a refill finds, which is arbitrary here.
TenantPolicy == [weight : Nat, maxInflight : Nat, burst : Nat]

TenantState ==
  [policy : Policies, tokens : Int, inflight : Nat, paused : BOOLEAN, vft : Nat]

ASSUME SchedulerAssumption ==
  /\ IsFiniteSet(Tenants) /\ Tenants # {} /\ IsFiniteSet(Callers)
  /\ Tenants \subseteq Nat /\ None \notin Tenants /\ None \notin TenantState
  /\ IsFiniteSet(Policies) /\ Policies \subseteq TenantPolicy /\ Policies # {}
  /\ IsFiniteSet(SlotRequests) /\ SlotRequests \subseteq Nat \ {0} /\ SlotRequests # {}
  /\ RoundsDown \subseteq Nat \X Nat \X Nat
  /\ \A r \in RoundsDown : \E k \in 1 .. r[1] : r[1] * r[2] = k * r[3]
  /\ Scale \in Nat
  /\ \A pol \in Policies : pol.weight > 0 => Scale % pol.weight = 0
  /\ MaxCalls \in Nat
  /\ MaxRefill \in Nat
  /\ MaxChanges \in Nat
  /\ ReturnSizes \subseteq Nat \ {0}

VARIABLES
  tenants,        \* tenant -> TenantState
  virtualTime,    \* the global virtual time
  pc, reg,        \* where each caller is, and its local variables
  missed,         \* the calls of update_policy that found no entry to update
  calls, changes, \* used up so far, of MaxCalls and MaxChanges
  outstanding,    \* history: tenant -> slots answered and not released
  reborn,         \* history: tenants whose entry was removed or replaced
  peak            \* history: most calls of schedule ever under way at once

procVars == <<pc, reg>>
historyVars == <<outstanding, reborn, peak>>
vars == <<tenants, virtualTime, procVars, missed, calls, changes, historyVars>>

\* TenantState::new
Fresh(pol) ==
  [policy |-> pol, tokens |-> pol.burst, inflight |-> 0, paused |-> FALSE, vft |-> 0]

\* An entry of `candidates`.
Candidate == [t : Tenants, vft : Nat, weight : Nat, tokens : Int]

\* The locals of schedule: total_slots, vt, the entries the iterator has still
\* to visit, total_weight, the candidates collected and those charged already,
\* `remaining`, the allocations and the first of them, and (history) the
\* tenants that have been paused ever since the call began.
Registers ==
  [total : Nat, vt : Nat, todo : SUBSET Tenants, weight : Nat, found : SUBSET Candidate,
   charged : SUBSET Tenants, remaining : Nat, alloc : [Tenants -> Nat],
   first : Tenants \cup {None}, barred : SUBSET Tenants]

NoSlots == [t \in Tenants |-> 0]

NoRegisters ==
  [total |-> 0, vt |-> 0, todo |-> {}, weight |-> 0, found |-> {}, charged |-> {},
   remaining |-> 0, alloc |-> NoSlots, first |-> None, barred |-> {}]

PCs == {"idle", "weigh", "collect", "charge"}

\* An update_policy whose get_mut missed; `call` tells equal ones apart.
Miss == [call : 1 .. MaxChanges, t : Tenants, policy : Policies]

TypeOK ==
  /\ tenants \in [Tenants -> TenantState \cup {None}]
  /\ virtualTime \in Nat
  /\ pc \in [Callers -> PCs]
  /\ reg \in [Callers -> Registers]
  /\ missed \subseteq Miss
  /\ calls \in 0 .. MaxCalls
  /\ changes \in 0 .. MaxChanges
  /\ outstanding \in [Tenants -> Nat]
  /\ reborn \subseteq Tenants
  /\ peak \in 0 .. Cardinality(Callers)

\* Every tenant registered, nothing handed out.
Init ==
  /\ \E plan \in [Tenants -> Policies] : tenants = [t \in Tenants |-> Fresh(plan[t])]
  /\ virtualTime = 0
  /\ pc = [p \in Callers |-> "idle"]
  /\ reg = [p \in Callers |-> NoRegisters]
  /\ missed = {}
  /\ calls = 0
  /\ changes = 0
  /\ outstanding = NoSlots
  /\ reborn = {}
  /\ peak = 0

Least(S) == CHOOSE n \in S : \A m \in S : n <= m

Later(a, b) == IF a >= b THEN a ELSE b

Known == {t \in Tenants : tenants[t] # None}

\* The calls of schedule under way.
Busy == {p \in Callers : pc[p] # "idle"}

Goto(p, l) == pc' = [pc EXCEPT ![p] = l]
Locals(p, g) == reg' = [reg EXCEPT ![p] = g]

\* get_mut on t's entry.
Write(t, s) == tenants' = [tenants EXCEPT ![t] = s]

(***************************************************************************)
(* schedule                                                                *)
(***************************************************************************)
\* The early return on total_slots = 0 changes nothing and is left out.
ScheduleBegin(p, n) ==
  /\ pc[p] = "idle"
  /\ calls < MaxCalls
  /\ calls' = calls + 1
  /\ Locals(p, [NoRegisters EXCEPT !.total = n, !.remaining = n, !.vt = virtualTime,
                                   !.todo = Tenants,
                                   !.barred = {t \in Known : tenants[t].paused}])
  /\ Goto(p, "weigh")
  /\ peak' = Later(peak, Cardinality(Busy \cup {p}))
  /\ UNCHANGED <<tenants, virtualTime, missed, changes, outstanding, reborn>>

\* Faulty variant: the pause flag is not looked at.
EligiblePaused(s) == s # None /\ s.inflight < s.policy.maxInflight

\* Faulty variant: the in-flight count is not looked at.
EligibleFull(s) == s # None /\ ~s.paused

\* !paused && inflight < max_inflight
Eligible(s) == s # None /\ ~s.paused /\ s.inflight < s.policy.maxInflight

\* The entry an iterator visits next; the order of the map is fixed.
Visited(p) == Least(reg[p].todo)

\* The first pass visits one entry, for its part of total_weight.  If that is
\* zero in the end there is no allocation, and virtual time stands still.
Weigh(p) ==
  LET t == Visited(p)
      weight == reg[p].weight + IF Eligible(tenants[t]) THEN tenants[t].policy.weight ELSE 0
      more == reg[p].todo # {t}
  IN  /\ pc[p] = "weigh"
      /\ \/ /\ more
            /\ Locals(p, [reg[p] EXCEPT !.todo = @ \ {t}, !.weight = weight])
            /\ UNCHANGED pc
         \/ /\ ~more /\ weight > 0
            /\ Locals(p, [reg[p] EXCEPT !.todo = Tenants, !.weight = weight])
            /\ Goto(p, "collect")
         \/ /\ ~more /\ weight = 0
            /\ Locals(p, NoRegisters)
            /\ Goto(p, "idle")
      /\ UNCHANGED <<tenants, virtualTime, missed, calls, changes, historyVars>>

\* refill: whatever arrived since the last one, up to the burst.
Refilled(s, n) == [s EXCEPT !.tokens = IF s.tokens + n <= s.policy.burst THEN s.tokens + n
                                       ELSE s.policy.burst]

\* The candidate made of t's entry s.
CandidateOf(t, s) ==
  [t |-> t, vft |-> s.vft, weight |-> s.policy.weight, tokens |-> s.tokens]

\* The second pass visits one entry: refilled and, if eligible, a candidate.
Collect(p, n) ==
  LET t == Visited(p)
      s == Refilled(tenants[t], n)
  IN  /\ pc[p] = "collect"
      /\ \/ /\ Eligible(tenants[t])
            /\ Write(t, s)
            /\ Locals(p, [reg[p] EXCEPT !.todo = @ \ {t}, !.found = @ \cup {CandidateOf(t, s)}])
         \/ /\ ~Eligible(tenants[t]) /\ n = 0
            /\ Locals(p, [reg[p] EXCEPT !.todo = @ \ {t}])
            /\ UNCHANGED tenants
      /\ Goto(p, IF reg[p].todo = {t} THEN "charge" ELSE "collect")
      /\ UNCHANGED <<virtualTime, missed, calls, changes, historyVars>>

Whole(tokens) == IF tokens < 0 THEN 0 ELSE tokens

Uncharged(p) == {c \in reg[p].found : c.t \notin reg[p].charged}

\* The sort by virtual finish time is stable, so equal ones keep map order.
Before(c, d) == c.vft < d.vft \/ (c.vft = d.vft /\ c.t <= d.t)

Foremost(p) == CHOOSE c \in Uncharged(p) : \A d \in Uncharged(p) : Before(c, d)

\* Faulty variant: a share of what is left, not of the whole.
RawSlotsOfRest(p, c) == (reg[p].remaining * c.weight) \div reg[p].weight

\* raw_slots: the floor of the exact product, less one where the product of
\* the floating-point numbers falls just below the whole number.
RawSlots(p, c) ==
  ((reg[p].total * c.weight) \div reg[p].weight)
  - IF <<reg[p].total, c.weight, reg[p].weight>> \in RoundsDown THEN 1 ELSE 0

Slots(p, c) == Least({RawSlots(p, c), Whole(c.tokens), reg[p].remaining})

\* Faulty variant: the tokens of the whole request are taken.
ChargedWhole(s, p, c, n) ==
  [s EXCEPT !.tokens = @ - reg[p].total, !.inflight = @ + n,
            !.vft = Later(Scale * reg[p].vt, @) + (n * Scale) \div Later(c.weight, 1)]

\* The entry of a candidate that gets n slots.
Charged(s, p, c, n) ==
  [s EXCEPT !.tokens = @ - n, !.inflight = @ + n,
            !.vft = Later(Scale * reg[p].vt, @) + (n * Scale) \div Later(c.weight, 1)]

\* The loop over the candidates goes on.
Charging(p) == pc[p] = "charge" /\ reg[p].remaining > 0 /\ Uncharged(p) # {}

\* One candidate gets its share.  A tenant removed since it was collected gets
\* its slots all the same.
Charge(p) ==
  LET c == Foremost(p)
      n == Slots(p, c)
  IN  /\ Charging(p)
      /\ IF n > 0 /\ c.t \in Known THEN Write(c.t, Charged(tenants[c.t], p, c, n))
                                   ELSE UNCHANGED tenants
      /\ Locals(p, [reg[p] EXCEPT !.charged = @ \cup {c.t}, !.remaining = @ - n,
                                  !.alloc[c.t] = n,
                                  !.first = IF @ = None /\ n > 0 THEN c.t ELSE @])
      /\ UNCHANGED <<virtualTime, pc, missed, calls, changes, historyVars>>

\* Faulty variant: the slots are handed out and not counted.
LeftoverUncounted(s, n) == s

LeftoverCounted(s, n) == [s EXCEPT !.inflight = @ + n]

\* What is left goes to the first allocation, whatever its tokens and its
\* max_inflight.
Leftover(p) ==
  LET t == reg[p].first
  IN  /\ pc[p] = "charge" /\ ~Charging(p)
      /\ reg[p].remaining > 0 /\ t # None
      /\ IF t \in Known THEN Write(t, LeftoverCounted(tenants[t], reg[p].remaining))
                        ELSE UNCHANGED tenants
      /\ Locals(p, [reg[p] EXCEPT !.alloc[t] = @ + reg[p].remaining, !.remaining = 0])
      /\ UNCHANGED <<virtualTime, pc, missed, calls, changes, historyVars>>

\* The store to virtual_time, a blind one, and the answer.
Advance(p) ==
  /\ pc[p] = "charge" /\ ~Charging(p)
  /\ reg[p].remaining = 0 \/ reg[p].first = None
  /\ virtualTime' = reg[p].vt + 1
  /\ outstanding' = [t \in Tenants |-> outstanding[t] + reg[p].alloc[t]]
  /\ Locals(p, NoRegisters)
  /\ Goto(p, "idle")
  /\ UNCHANGED <<tenants, missed, calls, changes, reborn, peak>>

Schedule(p) ==
  \/ \E n \in SlotRequests : ScheduleBegin(p, n)
  \/ Weigh(p)
  \/ \E n \in 0 .. MaxRefill : Collect(p, n)
  \/ Charge(p)
  \/ Leftover(p)
  \/ Advance(p)

(***************************************************************************)
(* The other operations                                                    *)
(***************************************************************************)
Smaller(a, b) == IF a <= b THEN a ELSE b

\* Faulty variant: a plain subtraction.
SubtractPlain(s, n) == [s EXCEPT !.inflight = @ - n]

\* saturating_sub
Subtract(s, n) == [s EXCEPT !.inflight = @ - Smaller(n, @)]

\* A worker returns slots it was given.
Release(t, n) ==
  /\ n <= outstanding[t]
  /\ outstanding' = [outstanding EXCEPT ![t] = @ - n]
  /\ IF t \in Known THEN Write(t, Subtract(tenants[t], n)) ELSE UNCHANGED tenants
  /\ UNCHANGED <<virtualTime, procVars, missed, calls, changes, reborn, peak>>

Change == changes < MaxChanges /\ changes' = changes + 1

\* History: t has not been paused ever since the calls under way began.
Unbar(t) == reg' = [p \in Callers |-> [reg[p] EXCEPT !.barred = @ \ {t}]]

Pause(t) ==
  /\ Change
  /\ t \in Known
  /\ ~tenants[t].paused
  /\ Write(t, [tenants[t] EXCEPT !.paused = TRUE])
  /\ UNCHANGED <<virtualTime, procVars, missed, calls, historyVars>>

Resume(t) ==
  /\ t \in Known
  /\ tenants[t].paused
  /\ Write(t, [tenants[t] EXCEPT !.paused = FALSE])
  /\ Unbar(t)
  /\ UNCHANGED <<virtualTime, pc, missed, calls, changes, historyVars>>

\* A new entry for t, over the one that may be there: counts, tokens and the
\* pause flag start again.
Insert(t, pol) ==
  /\ Write(t, Fresh(pol))
  /\ Unbar(t)
  /\ reborn' = reborn \cup {t}
  /\ UNCHANGED <<virtualTime, pc, calls, outstanding, peak>>

\* update_policy finds the entry: tokens, counts and the pause flag stay.
UpdatePolicy(t, pol) ==
  /\ Change
  /\ t \in Known
  /\ Write(t, [tenants[t] EXCEPT !.policy = pol])
  /\ UNCHANGED <<virtualTime, procVars, missed, calls, historyVars>>

\* update_policy finds no entry.
UpdatePolicyMiss(t, pol) ==
  /\ Change
  /\ t \notin Known
  /\ missed' = missed \cup {[call |-> changes', t |-> t, policy |-> pol]}
  /\ UNCHANGED <<tenants, virtualTime, procVars, calls, historyVars>>

\* It inserts one, whatever has become of the tenant since.
UpdatePolicyInsert(m) ==
  /\ missed' = missed \ {m}
  /\ Insert(m.t, m.policy)
  /\ UNCHANGED changes

\* register inserts too: also over an entry, which a DropTenant cut off before
\* its deregister, or an update_policy that missed, left there.
Register(t, pol) ==
  /\ IF t \in Known THEN Change ELSE UNCHANGED changes
  /\ Insert(t, pol)
  /\ UNCHANGED missed

Deregister(t) ==
  /\ Change
  /\ t \in Known
  /\ Write(t, None)
  /\ Unbar(t)
  /\ reborn' = reborn \cup {t}
  /\ UNCHANGED <<virtualTime, pc, missed, calls, outstanding, peak>>

Administer(t) ==
  \/ Pause(t)
  \/ Resume(t)
  \/ \E pol \in Policies : \/ UpdatePolicy(t, pol)
                           \/ UpdatePolicyMiss(t, pol)
                           \/ Register(t, pol)
  \/ \E m \in missed : m.t = t /\ UpdatePolicyInsert(m)
  \/ Deregister(t)

Next ==
  \/ \E p \in Callers : Schedule(p)
  \/ \E t \in Tenants : \E n \in ReturnSizes : Release(t, n)
  \/ \E t \in Tenants : Administer(t)

Spec == Init /\ [][Next]_vars

(***************************************************************************)
(* Properties                                                              *)
(***************************************************************************)
Largest(S) == CHOOSE n \in S : \A m \in S : n >= m

\* schedule tests inflight against max_inflight before it adds a whole share
\* and the leftover, and every call that runs at the same time makes that test
\* on its own: one request's worth for each call that ever ran at once, and no
\* more, can be in flight beyond the cap.
InflightOvershoot ==
  \A t \in Known :
    tenants[t].inflight <= Largest({pol.maxInflight : pol \in Policies} \cup {1}) - 1
                           + peak * Largest(SlotRequests)

\* Tokens are read in one step and taken in another, so calls that overlap can
\* take the same tokens; the debt is bounded by what each of them saw.
TokenDebtBounded ==
  \A t \in Known :
    tenants[t].tokens >= Least({pol.burst : pol \in Policies})
                         - peak * Largest({pol.burst : pol \in Policies})

\* No slot leaks: what the scheduler counts as in flight is what the workers
\* were given and have not returned, or a tenant could be locked out for good.
\* A tenant whose entry was removed or replaced meanwhile may be counted too
\* low, never too high.
SlotsAccounted ==
  Busy = {} => \A t \in Known : /\ tenants[t].inflight <= outstanding[t]
                           /\ t \notin reborn => tenants[t].inflight = outstanding[t]

\* A pause holds against every call of schedule that begins after it.
PausedGetsNothing ==
  \A p \in Callers : \A t \in reg[p].barred : reg[p].alloc[t] = 0

TotalWeight(found) == Sum([c \in found |-> c.weight], found)

\* The weighted share of candidate c of a call of p, the fraction dropped.
Share(p, c) == (reg[p].total * c.weight) \div TotalWeight(reg[p].found)

\* The slots candidate c is owed: its share, or one slot less where the share is
\* a whole number and the floating-point product falls below it, as far as its
\* tokens go.
Owed(p, c) ==
  {Smaller(n, Whole(c.tokens)) : n \in
     {Share(p, c)} \cup IF reg[p].total * c.weight = Share(p, c) * TotalWeight(reg[p].found)
                            /\ Share(p, c) > 0
                         THEN {Share(p, c) - 1} ELSE {}}

\* A call whose two passes over the map agreed gives every candidate what its
\* weight and its tokens entitle it to (to within the one slot that rounding may
\* take); only the tenant first in line gets more, and then everything that is
\* left.  A call hands out all it was asked for or nothing, even when the map
\* changed under it.
ProportionalShare ==
  [][\A p \in Callers : Advance(p) =>
       /\ Sum(reg[p].alloc, Tenants) \in {0, reg[p].total}
       /\ reg[p].weight = TotalWeight(reg[p].found) =>
            \A c \in reg[p].found :
              \E n \in Owed(p, c) : IF c.t = reg[p].first THEN reg[p].alloc[c.t] >= n
                                    ELSE reg[p].alloc[c.t] = n]_vars
=============================================================================
