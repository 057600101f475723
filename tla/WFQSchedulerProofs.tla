------------------------- MODULE WFQSchedulerProofs -------------------------
(***************************************************************************)
(* Proofs about WFQScheduler, for any number of tenants, callers, policies *)
(* and requests.                                                           *)
(***************************************************************************)
EXTENDS WFQScheduler, SumsProofs

(***************************************************************************)
(* The invariants                                                          *)
(***************************************************************************)
Bursts == {pol.burst : pol \in Policies}
Caps == {pol.maxInflight : pol \in Policies} \cup {1}

FoundIn(g, t) == \E c \in g.found : c.t = t

\* What a call's local variables are when it is at l.
CallOK(g, l) ==
  /\ l = "idle" => g.found = {} /\ g.total = 0
  /\ l # "idle" => g.total \in SlotRequests
  /\ l \in {"weigh", "collect"} => g.todo # {} /\ g.charged = {}
  /\ l = "weigh" => g.found = {}
  /\ l \in {"collect", "charge"} => g.weight > 0
  /\ l = "collect" => \A c \in g.found : c.t \notin g.todo
  /\ IsFiniteSet(g.found)
  /\ \A c, d \in g.found : c.t = d.t => c = d
  /\ \A c \in g.found : c.tokens <= Largest(Bursts)
  /\ \A t \in g.charged : FoundIn(g, t)
  /\ \A t \in Tenants : t \notin g.charged => g.alloc[t] = 0
  /\ g.first # None => g.first \in g.charged
  /\ g.first = None => \A t \in Tenants : g.alloc[t] = 0
  /\ Sum(g.alloc, Tenants) + g.remaining = g.total

Calls == \A p \in Callers : CallOK(reg[p], pc[p])

\* Tokens never exceed a burst, and peak is a peak.
Buckets == \A t \in Known : tenants[t].tokens <= Largest(Bursts)
Peak == Cardinality(Busy) <= peak

CallInv == TypeOK /\ Calls /\ Buckets /\ Peak

\* A tenant paused since before a call is no candidate of that call.
Barred ==
  \A p \in Callers : \A t \in reg[p].barred :
    t \in Known /\ tenants[t].paused /\ ~FoundIn(reg[p], t)

\* The slots calls under way have given t, and those they could still give it.
Given(R, t) == [p \in Callers |-> R[p].alloc[t]]
ReserveOf(g, t) == IF FoundIn(g, t) THEN g.remaining ELSE 0
Reserve(R, t) == [p \in Callers |-> ReserveOf(R[p], t)]

Accounted ==
  \A t \in Tenants :
    /\ t \notin reborn => t \in Known
    /\ t \in Known =>
         /\ tenants[t].inflight <= outstanding[t] + Sum(Given(reg, t), Callers)
         /\ t \notin reborn => tenants[t].inflight = outstanding[t] + Sum(Given(reg, t), Callers)

Capped ==
  \A t \in Known :
    tenants[t].inflight + Sum(Reserve(reg, t), Callers)
      <= Largest(Caps) - 1 + peak * Largest(SlotRequests)

\* The tokens that calls under way have seen and may still take.
Claim(g, t) ==
  IF FoundIn(g, t) /\ t \notin g.charged
  THEN Whole((CHOOSE c \in g.found : c.t = t).tokens) ELSE 0
Claims(R, t) == [p \in Callers |-> Claim(R[p], t)]

Indebted ==
  \A t \in Known :
    tenants[t].tokens - Sum(Claims(reg, t), Callers)
      >= Least(Bursts) - peak * Largest(Bursts)

\* The share the weight of candidate c entitles it to, and what the code makes
\* of it.
Floor(g, c) == (g.total * c.weight) \div g.weight
Raw(g, c) == Floor(g, c) - IF <<g.total, c.weight, g.weight>> \in RoundsDown THEN 1 ELSE 0
Entitled(g, c) == Smaller(Raw(g, c), Whole(c.tokens))

\* A call whose passes agreed has enough left for the candidates still to come.
ShareOK(g) ==
  g.weight = TotalWeight(g.found) =>
    /\ Sum([c \in g.found |-> Raw(g, c)], {c \in g.found : c.t \notin g.charged}) <= g.remaining
    /\ \A c \in g.found : c.t \in g.charged =>
         IF c.t = g.first THEN g.alloc[c.t] >= Entitled(g, c)
         ELSE g.alloc[c.t] = Entitled(g, c)
Shared == \A p \in Callers : pc[p] = "charge" => ShareOK(reg[p])

(***************************************************************************)
(* Constants and choices                                                   *)
(***************************************************************************)
LEMMA LeastOf ==
  ASSUME NEW S, S \subseteq Nat, S # {}
  PROVE  Least(S) \in S /\ \A m \in S : Least(S) <= m
<1>1. \E n \in S : \A m \in S : n <= m
  BY LeastNumber
<1>2. QED
  BY <1>1 DEF Least

LEMMA LargestOf ==
  ASSUME NEW S, IsFiniteSet(S), S \subseteq Nat, S # {}
  PROVE  Largest(S) \in S /\ \A m \in S : m <= Largest(S)
<1>1. PICK n \in S : \A m \in S : n >= m
  BY GreatestNumber
<1>2. \E k \in S : \A m \in S : k >= m
  BY <1>1
<1>3. Largest(S) \in S /\ \A m \in S : Largest(S) >= m
  BY <1>2 DEF Largest
<1>4. QED
  BY <1>3

LEMMA Bounds ==
  /\ Largest(Bursts) \in Nat
  /\ Largest(SlotRequests) \in Nat
  /\ Largest(Caps) \in Nat /\ Largest(Caps) >= 1
  /\ Least(Bursts) \in Nat /\ Least(Bursts) <= Largest(Bursts)
  /\ \A pol \in Policies : /\ pol.burst \in Nat
                           /\ Least(Bursts) <= pol.burst /\ pol.burst <= Largest(Bursts)
                           /\ pol.maxInflight <= Largest(Caps)
  /\ \A n \in SlotRequests : n <= Largest(SlotRequests)
<1> DEFINE C == {pol.maxInflight : pol \in Policies}
           f == [pol \in Policies |-> pol.burst]
           h == [pol \in Policies |-> pol.maxInflight]
<1>1. Bursts \subseteq Nat /\ Bursts # {} /\ C \subseteq Nat
  BY SchedulerAssumption DEF Bursts, TenantPolicy
<1>2. IsFiniteSet(Bursts) /\ IsFiniteSet(C)
  <2>1. f \in Surjection(Policies, Bursts) /\ h \in Surjection(Policies, C)
    BY DEF Surjection, Bursts
  <2>2. QED
    BY <2>1, SchedulerAssumption, FS_Surjection
<1>3. IsFiniteSet(Caps) /\ Caps \subseteq Nat /\ 1 \in Caps
  BY <1>1, <1>2, FS_AddElement DEF Caps
<1>4. Largest(Bursts) \in Bursts /\ \A m \in Bursts : m <= Largest(Bursts)
  BY <1>1, <1>2, LargestOf
<1>5. Largest(Caps) \in Caps /\ \A m \in Caps : m <= Largest(Caps)
  BY <1>3, LargestOf
<1>6. Largest(SlotRequests) \in SlotRequests /\ \A m \in SlotRequests : m <= Largest(SlotRequests)
  <2>1. IsFiniteSet(SlotRequests) /\ SlotRequests \subseteq Nat /\ SlotRequests # {}
    BY SchedulerAssumption
  <2>2. QED
    BY <2>1, LargestOf
<1>7. Least(Bursts) \in Bursts /\ \A m \in Bursts : Least(Bursts) <= m
  BY <1>1, LeastOf
<1>8. ASSUME NEW pol \in Policies PROVE pol.burst \in Bursts /\ pol.maxInflight \in Caps
  BY DEF Bursts, Caps
<1>9. QED
  BY <1>1, <1>3, <1>4, <1>5, <1>6, <1>7, <1>8, SchedulerAssumption

LEMMA VisitedOf ==
  ASSUME TypeOK, NEW p \in Callers, reg[p].todo # {}
  PROVE  Visited(p) \in reg[p].todo /\ Visited(p) \in Tenants
<1>1. reg[p].todo \subseteq Tenants
  BY DEF TypeOK, Registers
<1>2. reg[p].todo \subseteq Nat
  BY <1>1, SchedulerAssumption
<1>3. QED
  BY <1>1, <1>2, LeastOf DEF Visited

\* The candidates of a call, sorted, have a first one.
LEMMA ForemostOf ==
  ASSUME TypeOK, NEW p \in Callers, Uncharged(p) # {}
  PROVE  /\ Foremost(p) \in reg[p].found /\ Foremost(p).t \notin reg[p].charged
         /\ Foremost(p) \in Candidate /\ Foremost(p).t \in Tenants
<1> DEFINE U == Uncharged(p)
           V == {c.vft : c \in U}
<1>1. U \subseteq Candidate
  BY DEF TypeOK, Registers, Uncharged
<1>2. V \subseteq Nat /\ V # {} /\ \A c \in U : c.t \in Nat /\ c.t \in Tenants /\ c.vft \in Nat
  BY <1>1, SchedulerAssumption DEF Candidate
<1>3. PICK v \in V : \A m \in V : v <= m
  <2> HIDE DEF V
  <2> QED
    BY <1>2, LeastNumber
<1> DEFINE F == {c \in U : c.vft = v}
           N == {c.t : c \in F}
<1>4. N \subseteq Nat /\ N # {}
  BY <1>2, <1>3
<1>5. PICK n \in N : \A m \in N : n <= m
  <2> HIDE DEF N
  <2> QED
    BY <1>4, LeastNumber
<1>6. PICK c \in F : c.t = n
  BY <1>5
<1>7. ASSUME NEW d \in U PROVE Before(c, d)
  <2>1. v <= d.vft /\ c.vft = v /\ v \in Nat /\ d.vft \in Nat
    BY <1>2, <1>3, <1>6
  <2>2. CASE d.vft = v
    <3>1. d.t \in N
      BY <2>2
    <3>2. c.t <= d.t
      BY <3>1, <1>5, <1>6
    <3>3. QED
      BY <2>1, <2>2, <3>2 DEF Before
  <2>3. CASE d.vft # v
    BY <2>1, <2>3 DEF Before
  <2>4. QED
    BY <2>2, <2>3
<1>8. c \in U
  BY <1>6
<1> HIDE DEF U
<1>9. Foremost(p) \in U
  BY <1>7, <1>8 DEF Foremost, U
<1>10. QED
  BY <1>1, <1>2, <1>9 DEF U, Uncharged

\* Rounding costs at most the last slot of a share that is a whole number.
LEMMA RawOfShare ==
  ASSUME NEW g \in Registers, g.weight > 0, NEW c \in Candidate
  PROVE  /\ Floor(g, c) \in Nat /\ Raw(g, c) \in Nat /\ Raw(g, c) <= Floor(g, c)
         /\ \/ Raw(g, c) = Floor(g, c)
            \/ /\ Raw(g, c) = Floor(g, c) - 1 /\ Floor(g, c) > 0
               /\ g.total * c.weight = Floor(g, c) * g.weight
<1>1. g.total \in Nat /\ g.weight \in Nat \ {0} /\ c.weight \in Nat
  BY DEF Registers, Candidate
<1>2. Floor(g, c) \in Nat
  <2>1. g.total * c.weight \in Nat
    BY <1>1, ProductNat
  <2>2. QED
    BY <2>1, <1>1, Quotient DEF Floor
<1>3. CASE <<g.total, c.weight, g.weight>> \in RoundsDown
  <2>1. PICK k \in 1 .. g.total : g.total * c.weight = k * g.weight
    <3> DEFINE r == <<g.total, c.weight, g.weight>>
    <3>1. \E k \in 1 .. r[1] : r[1] * r[2] = k * r[3]
      BY <1>3, SchedulerAssumption
    <3>2. QED
      BY <3>1
  <2>2. k \in Nat /\ k > 0
    BY <1>1
  <2>3. Floor(g, c) = k
    BY <2>1, <2>2, <1>1, ExactQuotient DEF Floor
  <2>4. Raw(g, c) = Floor(g, c) - 1
    BY <1>3 DEF Raw
  <2>5. QED
    BY <1>2, <2>1, <2>2, <2>3, <2>4
<1>4. CASE <<g.total, c.weight, g.weight>> \notin RoundsDown
  <2>1. Raw(g, c) = Floor(g, c)
    BY <1>2, <1>4 DEF Raw
  <2>2. QED
    BY <2>1, <1>2
<1>5. QED
  BY <1>3, <1>4

LEMMA SlotsOf ==
  ASSUME TypeOK, NEW p \in Callers, reg[p].weight > 0, NEW c \in Candidate
  PROVE  /\ Slots(p, c) \in Nat /\ Slots(p, c) <= reg[p].remaining
         /\ Slots(p, c) <= RawSlots(p, c) /\ Slots(p, c) <= Whole(c.tokens)
         /\ Slots(p, c) \in {RawSlots(p, c), Whole(c.tokens), reg[p].remaining}
         /\ RawSlots(p, c) \in Nat /\ Whole(c.tokens) \in Nat
<1> DEFINE S == {RawSlots(p, c), Whole(c.tokens), reg[p].remaining}
<1>1. reg[p].total \in Nat /\ reg[p].weight \in Nat \ {0} /\ reg[p].remaining \in Nat
  BY DEF TypeOK, Registers
<1>2. c.weight \in Nat /\ c.tokens \in Int
  BY DEF Candidate
<1>3. RawSlots(p, c) \in Nat
  <2>1. reg[p] \in Registers
    BY DEF TypeOK
  <2>2. Raw(reg[p], c) \in Nat
    BY <2>1, RawOfShare
  <2>3. QED
    BY <2>2 DEF Raw, Floor, RawSlots
<1>4. Whole(c.tokens) \in Nat
  BY <1>2 DEF Whole
<1>5. S \subseteq Nat /\ S # {}
  BY <1>1, <1>3, <1>4
<1>6. Least(S) \in S /\ \A m \in S : Least(S) <= m
  <2> HIDE DEF S
  <2> QED
    BY <1>5, LeastOf
<1>7. Slots(p, c) = Least(S)
  BY DEF Slots
<1>8. QED
  BY <1>1, <1>3, <1>4, <1>5, <1>6, <1>7

(***************************************************************************)
(* Types and the local variables of calls                                  *)
(***************************************************************************)
LEMMA RegFields ==
  ASSUME TypeOK, NEW p \in Callers
  PROVE  /\ reg[p] \in Registers /\ pc[p] \in PCs
         /\ reg[p].total \in Nat /\ reg[p].vt \in Nat /\ reg[p].todo \subseteq Tenants
         /\ reg[p].weight \in Nat /\ reg[p].found \subseteq Candidate
         /\ reg[p].charged \subseteq Tenants /\ reg[p].remaining \in Nat
         /\ reg[p].alloc \in [Tenants -> Nat] /\ reg[p].first \in Tenants \cup {None}
         /\ reg[p].barred \subseteq Tenants
  BY DEF TypeOK, Registers

LEMMA Entry ==
  ASSUME TypeOK, NEW t \in Known
  PROVE  /\ t \in Tenants /\ tenants[t] \in TenantState
         /\ tenants[t].policy \in Policies /\ tenants[t].tokens \in Int
         /\ tenants[t].inflight \in Nat /\ tenants[t].paused \in BOOLEAN /\ tenants[t].vft \in Nat
         /\ tenants[t].policy.weight \in Nat /\ tenants[t].policy.burst \in Nat
         /\ tenants[t].policy.maxInflight \in Nat
<1>1. t \in Tenants /\ tenants[t] \in TenantState
  BY DEF TypeOK, Known
<1>2. tenants[t].policy \in TenantPolicy
  BY <1>1, SchedulerAssumption DEF TenantState
<1>3. QED
  BY <1>1, <1>2 DEF TenantState, TenantPolicy

LEMMA FreshEntry ==
  ASSUME NEW pol \in Policies
  PROVE  /\ Fresh(pol) \in TenantState
         /\ Fresh(pol).tokens = pol.burst /\ Fresh(pol).inflight = 0
         /\ Fresh(pol).policy = pol /\ Fresh(pol).paused = FALSE
<1>1. pol.burst \in Nat
  BY Bounds
<1>2. QED
  BY <1>1 DEF Fresh, TenantState

LEMMA NoRegistersOK ==
  /\ NoRegisters \in Registers
  /\ CallOK(NoRegisters, "idle")
<1>1. NoSlots \in [Tenants -> Nat] /\ \A t \in Tenants : NoSlots[t] = 0
  BY DEF NoSlots
<1>2. NoRegisters \in Registers
  BY <1>1 DEF NoRegisters, Registers
<1>3. Sum(NoSlots, Tenants) = 0
  BY <1>1, SumZero, SchedulerAssumption
<1>4. QED
  BY <1>1, <1>2, <1>3, FS_EmptySet DEF NoRegisters, CallOK, FoundIn

\* A step of one call.
LEMMA OneCall ==
  ASSUME TypeOK, Calls, NEW p \in Callers, NEW g \in Registers, NEW l \in PCs,
         reg' = [reg EXCEPT ![p] = g], pc' = [pc EXCEPT ![p] = l], CallOK(g, l)
  PROVE  reg' \in [Callers -> Registers] /\ pc' \in [Callers -> PCs] /\ Calls'
  BY DEF TypeOK, Calls

\* barred is the only local variable that other operations change.
LEMMA BarredOnly ==
  ASSUME TypeOK, Calls, NEW t, Unbar(t), UNCHANGED pc
  PROVE  /\ reg' \in [Callers -> Registers] /\ Calls'
         /\ \A p \in Callers : /\ reg'[p].found = reg[p].found /\ reg'[p].alloc = reg[p].alloc
                               /\ reg'[p].remaining = reg[p].remaining
                               /\ reg'[p].charged = reg[p].charged
                               /\ reg'[p].barred = reg[p].barred \ {t}
                               /\ reg'[p].weight = reg[p].weight /\ reg'[p].total = reg[p].total
                               /\ reg'[p].first = reg[p].first /\ reg'[p].todo = reg[p].todo
<1>1. reg' \in [Callers -> Registers]
  <2>1. ASSUME NEW p \in Callers PROVE [reg[p] EXCEPT !.barred = @ \ {t}] \in Registers
    BY ZenonT(60) DEF TypeOK, Registers
  <2>2. QED
    BY <2>1 DEF Unbar
<1>2. ASSUME NEW p \in Callers
      PROVE  /\ reg'[p].found = reg[p].found /\ reg'[p].alloc = reg[p].alloc
             /\ reg'[p].remaining = reg[p].remaining
             /\ reg'[p].charged = reg[p].charged
             /\ reg'[p].barred = reg[p].barred \ {t}
             /\ reg'[p].weight = reg[p].weight /\ reg'[p].total = reg[p].total
             /\ reg'[p].first = reg[p].first /\ reg'[p].todo = reg[p].todo
  BY DEF TypeOK, Registers, Unbar
<1>3. ASSUME NEW p \in Callers PROVE CallOK(reg'[p], pc'[p])
  <2>1. CallOK(reg[p], pc[p])
    BY DEF Calls
  <2>2. QED
    BY <2>1, <1>2 DEF CallOK, FoundIn
<1>4. QED
  BY <1>1, <1>2, <1>3 DEF Calls

\* An entry is written.
LEMMA OneEntry ==
  ASSUME TypeOK, Buckets, NEW t \in Tenants, NEW s \in TenantState \cup {None}, Write(t, s),
         s # None => s.tokens <= Largest(Bursts)
  PROVE  tenants' \in [Tenants -> TenantState \cup {None}] /\ Buckets'
  BY DEF TypeOK, Buckets, Known, Write

LEMMA BusyFinite == IsFiniteSet(Busy) /\ Cardinality(Busy) \in Nat /\ Cardinality(Busy) <= Cardinality(Callers)
  BY SchedulerAssumption, FS_Subset, FS_CardinalityType DEF Busy

LEMMA PeakKept ==
  ASSUME Peak, peak' = peak, Busy' \subseteq Busy, peak \in Nat
  PROVE  Peak'
<1>1. Cardinality(Busy') <= Cardinality(Busy) /\ Cardinality(Busy') \in Nat
  BY BusyFinite, FS_Subset, FS_CardinalityType
<1>2. QED
  BY <1>1, BusyFinite DEF Peak

LEMMA CallInit == Init => CallInv
<1> SUFFICES ASSUME Init PROVE CallInv
  OBVIOUS
<1> USE DEF Init
<1>1. PICK plan \in [Tenants -> Policies] : tenants = [t \in Tenants |-> Fresh(plan[t])]
  OBVIOUS
<1>2. \A t \in Tenants : tenants[t] \in TenantState /\ tenants[t].tokens <= Largest(Bursts)
  BY <1>1, FreshEntry, Bounds
<1>3. Busy = {}
  BY DEF Busy
<1>4. Cardinality(Busy) = 0 /\ Cardinality(Callers) \in Nat
  BY <1>3, FS_EmptySet, FS_CardinalityType, SchedulerAssumption
<1>5. TypeOK
  BY <1>1, <1>2, <1>4, NoRegistersOK, SchedulerAssumption DEF TypeOK, PCs, NoSlots
<1>6. Calls
  BY NoRegistersOK DEF Calls
<1>7. QED
  BY <1>2, <1>4, <1>5, <1>6 DEF CallInv, Buckets, Known, Peak

LEMMA BeginCalls ==
  ASSUME CallInv, NEW p \in Callers, NEW n \in SlotRequests, ScheduleBegin(p, n)
  PROVE  CallInv'
<1> DEFINE g == [NoRegisters EXCEPT !.total = n, !.remaining = n, !.vt = virtualTime,
                                    !.todo = Tenants, !.barred = {t \in Known : tenants[t].paused}]
<1>1. g \in Registers /\ CallOK(g, "weigh")
  <2>1. NoSlots \in [Tenants -> Nat] /\ \A t \in Tenants : NoSlots[t] = 0
    BY DEF NoSlots
  <2>2. n \in Nat /\ virtualTime \in Nat /\ {t \in Known : tenants[t].paused} \subseteq Tenants
    BY SchedulerAssumption DEF CallInv, TypeOK, Known
  <2>3. g \in Registers
    BY <2>1, <2>2 DEF NoRegisters, Registers
  <2>4. Sum(NoSlots, Tenants) = 0
    BY <2>1, SumZero, SchedulerAssumption
  <2>5. /\ g.total = n /\ g.remaining = n /\ g.todo = Tenants /\ g.found = {} /\ g.charged = {}
        /\ g.alloc = NoSlots /\ g.first = None
    BY DEF NoRegisters
  <2> HIDE DEF g
  <2>6. QED
    BY <2>1, <2>2, <2>3, <2>4, <2>5, FS_EmptySet, SchedulerAssumption DEF CallOK, FoundIn
<1>2. reg' = [reg EXCEPT ![p] = g] /\ pc' = [pc EXCEPT ![p] = "weigh"]
  BY DEF ScheduleBegin, Locals, Goto
<1> HIDE DEF g
<1>3. reg' \in [Callers -> Registers] /\ pc' \in [Callers -> PCs] /\ Calls'
  BY <1>1, <1>2, OneCall DEF CallInv, PCs
<1>4. Busy' = Busy \cup {p}
  BY <1>2 DEF Busy, CallInv, TypeOK
<1>5. Cardinality(Busy \cup {p}) \in Nat /\ Cardinality(Busy \cup {p}) <= Cardinality(Callers)
  <2>1. Busy \cup {p} \subseteq Callers
    BY DEF Busy
  <2>2. QED
    BY <2>1, FS_Subset, FS_CardinalityType, SchedulerAssumption
<1>6. peak' \in 0 .. Cardinality(Callers) /\ Peak'
  <2>1. peak' = Later(peak, Cardinality(Busy \cup {p})) /\ peak \in 0 .. Cardinality(Callers)
    BY DEF ScheduleBegin, CallInv, TypeOK
  <2>2. Cardinality(Callers) \in Nat
    BY FS_CardinalityType, SchedulerAssumption
  <2>3. QED
    BY <2>1, <2>2, <1>4, <1>5 DEF Later, Peak
<1>7. calls' \in 0 .. MaxCalls
  BY SchedulerAssumption DEF ScheduleBegin, CallInv, TypeOK
<1>8. UNCHANGED <<tenants, virtualTime, missed, changes, outstanding, reborn>>
  BY DEF ScheduleBegin
<1>9. TypeOK'
  BY <1>3, <1>6, <1>7, <1>8 DEF CallInv, TypeOK
<1>10. QED
  BY <1>3, <1>6, <1>8, <1>9 DEF CallInv, Buckets, Known

LEMMA WeighCalls ==
  ASSUME CallInv, NEW p \in Callers, Weigh(p)
  PROVE  CallInv'
<1> DEFINE t == Visited(p)
           weight == reg[p].weight + IF Eligible(tenants[t]) THEN tenants[t].policy.weight ELSE 0
           more == [reg[p] EXCEPT !.todo = @ \ {t}, !.weight = weight]
           again == [reg[p] EXCEPT !.todo = Tenants, !.weight = weight]
<1>0. TypeOK /\ CallOK(reg[p], "weigh") /\ pc[p] = "weigh" /\ Calls /\ Peak /\ peak \in Nat
  <2>1. TypeOK /\ CallOK(reg[p], "weigh") /\ pc[p] = "weigh" /\ Calls /\ Peak
    BY DEF Weigh, CallInv, Calls
  <2>2. peak \in Nat
    BY <2>1, BusyFinite, FS_CardinalityType, SchedulerAssumption DEF TypeOK
  <2>3. QED
    BY <2>1, <2>2
<1>1. t \in Tenants /\ t \in reg[p].todo
  BY <1>0, VisitedOf DEF CallOK
<1>2. weight \in Nat
  <2>1. Eligible(tenants[t]) => t \in Known
    BY <1>1 DEF Eligible, Known
  <2>2. QED
    BY <2>1, <1>0, RegFields, Entry
<1> HIDE DEF t, weight
<1>3. CASE reg[p].todo # {t} /\ Locals(p, more) /\ UNCHANGED pc
  <2>1. more \in Registers /\ CallOK(more, "weigh")
    <3>1. more \in Registers
      BY <1>0, <1>2, RegFields DEF Registers
    <3>2. /\ more.total = reg[p].total /\ more.todo = reg[p].todo \ {t} /\ more.weight = weight
          /\ more.found = reg[p].found /\ more.charged = reg[p].charged /\ more.alloc = reg[p].alloc
          /\ more.first = reg[p].first /\ more.remaining = reg[p].remaining
      BY <1>0, RegFields DEF Registers
    <3> HIDE DEF more
    <3>3. QED
      BY <1>0, <1>1, <1>3, <3>1, <3>2 DEF CallOK, FoundIn
  <2>2. pc' = [pc EXCEPT ![p] = "weigh"] /\ reg' = [reg EXCEPT ![p] = more]
    BY <1>0, <1>3 DEF TypeOK, Locals
  <2> HIDE DEF more
  <2>3. reg' \in [Callers -> Registers] /\ pc' \in [Callers -> PCs] /\ Calls'
    BY <1>0, <2>1, <2>2, OneCall DEF PCs
  <2>4. Busy' \subseteq Busy
    BY <1>3 DEF Busy
  <2>5. QED
    BY <1>0, <2>3, <2>4, PeakKept DEF Weigh, historyVars, CallInv, TypeOK, Buckets, Known
<1>4. CASE reg[p].todo = {t} /\ weight > 0 /\ Locals(p, again) /\ Goto(p, "collect")
  <2>1. again \in Registers /\ CallOK(again, "collect")
    <3>1. again \in Registers
      BY <1>0, <1>2, RegFields DEF Registers
    <3>2. /\ again.total = reg[p].total /\ again.todo = Tenants /\ again.weight = weight
          /\ again.found = reg[p].found /\ again.charged = reg[p].charged /\ again.alloc = reg[p].alloc
          /\ again.first = reg[p].first /\ again.remaining = reg[p].remaining
      BY <1>0, RegFields DEF Registers
    <3> HIDE DEF again
    <3>3. QED
      BY <1>0, <1>1, <1>4, <3>1, <3>2, SchedulerAssumption DEF CallOK, FoundIn
  <2>2. pc' = [pc EXCEPT ![p] = "collect"] /\ reg' = [reg EXCEPT ![p] = again]
    BY <1>4 DEF Goto, Locals
  <2> HIDE DEF again
  <2>3. reg' \in [Callers -> Registers] /\ pc' \in [Callers -> PCs] /\ Calls'
    BY <1>0, <2>1, <2>2, OneCall DEF PCs
  <2>4. Busy' \subseteq Busy
    BY <2>2, <1>0 DEF Busy, TypeOK
  <2>5. QED
    BY <1>0, <2>3, <2>4, PeakKept DEF Weigh, historyVars, CallInv, TypeOK, Buckets, Known
<1>5. CASE weight = 0 /\ Locals(p, NoRegisters) /\ Goto(p, "idle")
  <2>1. pc' = [pc EXCEPT ![p] = "idle"] /\ reg' = [reg EXCEPT ![p] = NoRegisters]
    BY <1>5 DEF Goto, Locals
  <2>2. reg' \in [Callers -> Registers] /\ pc' \in [Callers -> PCs] /\ Calls'
    BY <1>0, <2>1, OneCall, NoRegistersOK DEF PCs
  <2>3. Busy' \subseteq Busy
    BY <2>1, <1>0 DEF Busy, TypeOK
  <2>4. QED
    BY <1>0, <2>2, <2>3, PeakKept DEF Weigh, historyVars, CallInv, TypeOK, Buckets, Known
<1>6. QED
  BY <1>3, <1>4, <1>5 DEF Weigh, t, weight

\* What a step of Collect does to the entry and to the candidates.
LEMMA CollectStep ==
  ASSUME CallInv, NEW p \in Callers, NEW n \in 0 .. MaxRefill, Collect(p, n)
  PROVE  LET t == Visited(p)
             s == Refilled(tenants[t], n)
             c == CandidateOf(t, s)
         IN  /\ t \in Tenants /\ t \in reg[p].todo /\ pc[p] = "collect" /\ CallOK(reg[p], "collect")
             /\ reg' = [reg EXCEPT ![p] = reg'[p]] /\ reg'[p] \in Registers
             /\ reg'[p].total = reg[p].total /\ reg'[p].todo = reg[p].todo \ {t}
             /\ reg'[p].weight = reg[p].weight /\ reg'[p].charged = reg[p].charged
             /\ reg'[p].alloc = reg[p].alloc /\ reg'[p].first = reg[p].first
             /\ reg'[p].remaining = reg[p].remaining /\ reg'[p].barred = reg[p].barred
             /\ pc' = [pc EXCEPT ![p] = IF reg[p].todo = {t} THEN "charge" ELSE "collect"]
             /\ \/ /\ Eligible(tenants[t]) /\ t \in Known
                   /\ reg'[p].found = reg[p].found \cup {c}
                   /\ c \in Candidate /\ c.t = t /\ c.tokens = s.tokens
                   /\ tenants' = [tenants EXCEPT ![t] = s] /\ s \in TenantState
                   /\ s.tokens <= Largest(Bursts) /\ s.inflight = tenants[t].inflight
                   /\ s.paused = tenants[t].paused
                   /\ s.tokens >= tenants[t].tokens \/ s.tokens >= 0
                \/ reg'[p].found = reg[p].found /\ tenants' = tenants
<1> DEFINE t == Visited(p)
           s == Refilled(tenants[t], n)
           c == CandidateOf(t, s)
           g == [reg[p] EXCEPT !.todo = @ \ {t}, !.found = @ \cup {c}]
           h == [reg[p] EXCEPT !.todo = @ \ {t}]
<1>0. TypeOK /\ CallOK(reg[p], "collect") /\ pc[p] = "collect"
  BY DEF Collect, CallInv, Calls
<1>1. t \in Tenants /\ t \in reg[p].todo
  BY <1>0, VisitedOf DEF CallOK
<1>2. pc' = [pc EXCEPT ![p] = IF reg[p].todo = {t} THEN "charge" ELSE "collect"]
  BY DEF Collect, Goto
<1>3. CASE Eligible(tenants[t]) /\ Write(t, s) /\ Locals(p, g)
  <2>1. t \in Known
    BY <1>1, <1>3 DEF Eligible, Known
  <2>2. /\ s \in TenantState /\ s.inflight = tenants[t].inflight /\ s.paused = tenants[t].paused
        /\ s.tokens = (IF tenants[t].tokens + n <= tenants[t].policy.burst
                       THEN tenants[t].tokens + n ELSE tenants[t].policy.burst)
        /\ s.policy = tenants[t].policy /\ s.vft = tenants[t].vft
    BY <2>1, <1>0, Entry DEF Refilled, TenantState
  <2>3. /\ s.tokens <= tenants[t].policy.burst /\ s.tokens \in Int
        /\ s.tokens >= tenants[t].tokens \/ s.tokens >= 0
    BY <2>1, <2>2, <1>0, Entry
  <2>4. s.tokens <= Largest(Bursts)
    BY <2>1, <2>3, <1>0, Entry, Bounds
  <2>5. c \in Candidate /\ c.t = t /\ c.tokens = s.tokens
    BY <2>1, <2>2, <2>3, <1>0, <1>1, Entry DEF Candidate, CandidateOf
  <2> HIDE DEF s, c, t
  <2>6. reg' = [reg EXCEPT ![p] = g] /\ tenants' = [tenants EXCEPT ![t] = s] /\ reg'[p] = g
    BY <1>0, <1>3 DEF Locals, Write, TypeOK
  <2>7. /\ g \in Registers /\ g.total = reg[p].total /\ g.todo = reg[p].todo \ {t}
        /\ g.found = reg[p].found \cup {c}
        /\ g.weight = reg[p].weight /\ g.charged = reg[p].charged
        /\ g.alloc = reg[p].alloc /\ g.first = reg[p].first
        /\ g.remaining = reg[p].remaining /\ g.barred = reg[p].barred
    BY <2>5, <1>0, RegFields DEF Registers
  <2> HIDE DEF g
  <2>8. QED
    BY <1>0, <1>1, <1>2, <1>3, <2>1, <2>2, <2>3, <2>4, <2>5, <2>6, <2>7 DEF s, c, t
<1>4. CASE UNCHANGED tenants /\ Locals(p, h)
  <2>1. reg' = [reg EXCEPT ![p] = h] /\ reg'[p] = h
    BY <1>0, <1>4 DEF Locals, TypeOK
  <2> HIDE DEF t, s, c
  <2>2. /\ h \in Registers /\ h.total = reg[p].total /\ h.todo = reg[p].todo \ {t}
        /\ h.found = reg[p].found
        /\ h.weight = reg[p].weight /\ h.charged = reg[p].charged
        /\ h.alloc = reg[p].alloc /\ h.first = reg[p].first
        /\ h.remaining = reg[p].remaining /\ h.barred = reg[p].barred
    BY <1>0, RegFields DEF Registers
  <2> HIDE DEF h
  <2>3. QED
    BY <1>0, <1>1, <1>2, <1>4, <2>1, <2>2 DEF t, s, c
<1>5. QED
  BY <1>3, <1>4 DEF Collect

LEMMA CollectCalls ==
  ASSUME CallInv, NEW p \in Callers, NEW n \in 0 .. MaxRefill, Collect(p, n)
  PROVE  CallInv'
<1> DEFINE t == Visited(p)
           s == Refilled(tenants[t], n)
           c == CandidateOf(t, s)
           g == reg'[p]
           l == IF reg[p].todo = {t} THEN "charge" ELSE "collect"
<1>0. TypeOK /\ Calls /\ Buckets /\ Peak /\ peak \in Nat /\ reg[p].found \subseteq Candidate
  BY FS_CardinalityType, SchedulerAssumption, RegFields, SMTT(60) DEF CallInv, TypeOK
<1>1. /\ t \in Tenants /\ t \in reg[p].todo /\ pc[p] = "collect" /\ CallOK(reg[p], "collect")
      /\ reg' = [reg EXCEPT ![p] = g] /\ g \in Registers
      /\ g.total = reg[p].total /\ g.todo = reg[p].todo \ {t}
      /\ g.weight = reg[p].weight /\ g.charged = reg[p].charged
      /\ g.alloc = reg[p].alloc /\ g.first = reg[p].first
      /\ g.remaining = reg[p].remaining
      /\ pc' = [pc EXCEPT ![p] = l]
  BY CollectStep
<1>2. \/ /\ g.found = reg[p].found \cup {c}
         /\ c \in Candidate /\ c.t = t /\ c.tokens = s.tokens
         /\ tenants' = [tenants EXCEPT ![t] = s] /\ s \in TenantState
         /\ s.tokens <= Largest(Bursts)
      \/ g.found = reg[p].found /\ tenants' = tenants
  BY CollectStep
<1>3. l \in PCs /\ l \in {"charge", "collect"} /\ (l = "collect" => g.todo # {})
  BY <1>1 DEF PCs
<1> HIDE DEF t, s, c, g, l
<1>4. IsFiniteSet(g.found)
  <2>1. IsFiniteSet(reg[p].found)
    BY <1>1 DEF CallOK
  <2>2. QED
    BY <2>1, <1>2, FS_AddElement, SMTT(60)
<1>5. \A d, e \in g.found : d.t = e.t => d = e
  BY <1>1, <1>2 DEF CallOK
<1>6. \A d \in g.found : d.t \notin g.todo /\ d.tokens <= Largest(Bursts)
  BY <1>1, <1>2 DEF CallOK
<1>7. CallOK(g, l)
  BY <1>1, <1>3, <1>4, <1>5, <1>6 DEF CallOK, FoundIn
<1>8. reg' \in [Callers -> Registers] /\ pc' \in [Callers -> PCs] /\ Calls'
  BY <1>0, <1>1, <1>3, <1>7, OneCall
<1>9. tenants' \in [Tenants -> TenantState \cup {None}] /\ Buckets'
  <2>1. CASE tenants' = tenants
    BY <2>1, <1>0 DEF TypeOK, Buckets, Known
  <2>2. CASE tenants' = [tenants EXCEPT ![t] = s] /\ s \in TenantState /\ s.tokens <= Largest(Bursts)
    BY <2>2, <1>0, <1>1, OneEntry DEF Write
  <2>3. QED
    BY <1>2, <2>1, <2>2
<1>10. Busy' \subseteq Busy
  BY <1>0, <1>1, <1>3 DEF Busy, TypeOK
<1>11. QED
  BY <1>0, <1>8, <1>9, <1>10, PeakKept DEF Collect, historyVars, CallInv, TypeOK

\* What a step of Charge does: candidate c gets n slots.
LEMMA ChargeStep ==
  ASSUME CallInv, NEW p \in Callers, Charge(p)
  PROVE  LET c == Foremost(p)
             n == Slots(p, c)
             s == Charged(tenants[c.t], p, c, n)
         IN  /\ pc[p] = "charge" /\ CallOK(reg[p], "charge")
             /\ c \in reg[p].found /\ c \in Candidate /\ c.t \in Tenants /\ c.t \notin reg[p].charged
             /\ n \in Nat /\ n <= reg[p].remaining /\ n <= RawSlots(p, c) /\ n <= Whole(c.tokens)
             /\ n \in {RawSlots(p, c), Whole(c.tokens), reg[p].remaining}
             /\ reg' = [reg EXCEPT ![p] = reg'[p]] /\ reg'[p] \in Registers
             /\ reg'[p].total = reg[p].total /\ reg'[p].found = reg[p].found
             /\ reg'[p].weight = reg[p].weight /\ reg'[p].charged = reg[p].charged \cup {c.t}
             /\ reg'[p].alloc = [reg[p].alloc EXCEPT ![c.t] = n]
             /\ reg'[p].first = (IF reg[p].first = None /\ n > 0 THEN c.t ELSE reg[p].first)
             /\ reg'[p].remaining = reg[p].remaining - n /\ reg'[p].barred = reg[p].barred
             /\ \/ /\ c.t \in Known /\ tenants' = [tenants EXCEPT ![c.t] = s]
                   /\ s \in TenantState /\ s.tokens = tenants[c.t].tokens - n
                   /\ s.inflight = tenants[c.t].inflight + n /\ s.paused = tenants[c.t].paused
                \/ tenants' = tenants /\ (c.t \notin Known \/ n = 0)
<1> DEFINE c == Foremost(p)
           n == Slots(p, c)
           s == Charged(tenants[c.t], p, c, n)
           g == [reg[p] EXCEPT !.charged = @ \cup {c.t}, !.remaining = @ - n, !.alloc[c.t] = n,
                               !.first = IF @ = None /\ n > 0 THEN c.t ELSE @]
<1>0. TypeOK /\ CallOK(reg[p], "charge") /\ pc[p] = "charge" /\ Uncharged(p) # {}
  BY DEF Charge, Charging, CallInv, Calls
<1>1. c \in reg[p].found /\ c \in Candidate /\ c.t \in Tenants /\ c.t \notin reg[p].charged
  BY <1>0, ForemostOf
<1>2. /\ n \in Nat /\ n <= reg[p].remaining /\ n <= RawSlots(p, c) /\ n <= Whole(c.tokens)
      /\ n \in {RawSlots(p, c), Whole(c.tokens), reg[p].remaining}
  <2>1. reg[p].weight > 0
    BY <1>0 DEF CallOK
  <2> HIDE DEF c
  <2>2. QED
    BY <2>1, <1>0, <1>1, SlotsOf
<1>3. reg' = [reg EXCEPT ![p] = g] /\ reg'[p] = g
  BY <1>0 DEF Charge, Locals, TypeOK
<1>4. \/ c.t \in Known /\ tenants' = [tenants EXCEPT ![c.t] = s]
      \/ tenants' = tenants /\ (c.t \notin Known \/ n = 0)
  BY <1>2 DEF Charge, Write
<1>5. c.t \in Known => /\ s \in TenantState /\ s.tokens = tenants[c.t].tokens - n
                       /\ s.inflight = tenants[c.t].inflight + n /\ s.paused = tenants[c.t].paused
  <2> HIDE DEF c, n
  <2>1. SUFFICES ASSUME c.t \in Known
                 PROVE  /\ s \in TenantState /\ s.tokens = tenants[c.t].tokens - n
                        /\ s.inflight = tenants[c.t].inflight + n /\ s.paused = tenants[c.t].paused
    OBVIOUS
  <2> DEFINE v == Later(Scale * reg[p].vt, tenants[c.t].vft) + (n * Scale) \div Later(c.weight, 1)
  <2>2. v \in Nat
    <3>1. Scale * reg[p].vt \in Nat /\ n * Scale \in Nat
      BY <1>0, <1>2, RegFields, ProductNat, SchedulerAssumption
    <3>2. Later(c.weight, 1) \in Nat \ {0}
      BY <1>1 DEF Candidate, Later
    <3>3. (n * Scale) \div Later(c.weight, 1) \in Nat
      BY <3>1, <3>2, Quotient
    <3>4. Later(Scale * reg[p].vt, tenants[c.t].vft) \in Nat
      BY <3>1, <2>1, <1>0, Entry DEF Later
    <3>5. QED
      BY <3>3, <3>4
  <2>3. s = [tenants[c.t] EXCEPT !.tokens = @ - n, !.inflight = @ + n, !.vft = v]
    BY <2>1, <1>0, Entry DEF Charged, TenantState
  <2> DEFINE e == tenants[c.t]
  <2>4. /\ e \in TenantState /\ e.tokens \in Int /\ e.inflight \in Nat
        /\ e.tokens - n \in Int /\ e.inflight + n \in Nat
    BY <2>1, <1>0, <1>2, Entry
  <2>5. s = [e EXCEPT !.tokens = e.tokens - n, !.inflight = e.inflight + n, !.vft = v]
    BY <2>3, <2>4 DEF TenantState
  <2> HIDE DEF v, s, e
  <2>6. /\ s \in TenantState /\ s.tokens = e.tokens - n
        /\ s.inflight = e.inflight + n /\ s.paused = e.paused
    BY <2>2, <2>4, <2>5 DEF TenantState
  <2>7. QED
    BY <2>6 DEF e
<1> HIDE DEF c, n, s
<1>6. /\ g \in Registers /\ g.total = reg[p].total /\ g.found = reg[p].found
      /\ g.weight = reg[p].weight /\ g.charged = reg[p].charged \cup {c.t}
      /\ g.alloc = [reg[p].alloc EXCEPT ![c.t] = n]
      /\ g.first = (IF reg[p].first = None /\ n > 0 THEN c.t ELSE reg[p].first)
      /\ g.remaining = reg[p].remaining - n /\ g.barred = reg[p].barred
  <2>1. reg[p].remaining - n \in Nat /\ [reg[p].alloc EXCEPT ![c.t] = n] \in [Tenants -> Nat]
    BY <1>0, <1>1, <1>2, RegFields
  <2>2. QED
    BY <2>1, <1>0, <1>1, <1>2, RegFields, ZenonT(60) DEF Registers
<1> HIDE DEF g
<1>7. QED
  BY <1>0, <1>1, <1>2, <1>3, <1>4, <1>5, <1>6 DEF c, n, s

LEMMA ChargeCalls ==
  ASSUME CallInv, NEW p \in Callers, Charge(p)
  PROVE  CallInv'
<1> DEFINE c == Foremost(p)
           n == Slots(p, c)
           s == Charged(tenants[c.t], p, c, n)
           g == reg'[p]
<1>0. TypeOK /\ Calls /\ Buckets /\ Peak /\ peak \in Nat
  BY FS_CardinalityType, SchedulerAssumption, SMTT(60) DEF CallInv, TypeOK
<1>1. /\ pc[p] = "charge" /\ CallOK(reg[p], "charge")
      /\ c \in reg[p].found /\ c.t \in Tenants /\ c.t \notin reg[p].charged
      /\ n \in Nat /\ n <= reg[p].remaining
      /\ reg' = [reg EXCEPT ![p] = g] /\ g \in Registers
      /\ g.total = reg[p].total /\ g.found = reg[p].found
      /\ g.weight = reg[p].weight /\ g.charged = reg[p].charged \cup {c.t}
      /\ g.alloc = [reg[p].alloc EXCEPT ![c.t] = n]
      /\ g.first = (IF reg[p].first = None /\ n > 0 THEN c.t ELSE reg[p].first)
      /\ g.remaining = reg[p].remaining - n
  BY ChargeStep
<1>2. \/ /\ c.t \in Known /\ tenants' = [tenants EXCEPT ![c.t] = s]
         /\ s \in TenantState /\ s.tokens = tenants[c.t].tokens - n
      \/ tenants' = tenants
  BY ChargeStep
<1> HIDE DEF c, n, s, g
<1>3. reg[p].alloc \in [Tenants -> Nat] /\ reg[p].alloc[c.t] = 0 /\ reg[p].remaining \in Nat
      /\ reg[p].total \in Nat
  BY <1>0, <1>1, RegFields DEF CallOK
<1>4. Sum(g.alloc, Tenants) = Sum(reg[p].alloc, Tenants) + n /\ Sum(reg[p].alloc, Tenants) \in Int
  <2>0. IsFiniteSet(Tenants)
    BY SchedulerAssumption
  <2>1. /\ Sum([reg[p].alloc EXCEPT ![c.t] = n], Tenants)
             = Sum(reg[p].alloc, Tenants) - reg[p].alloc[c.t] + n
        /\ Sum(reg[p].alloc, Tenants) \in Nat
    BY <2>0, <1>1, <1>3, SumExcept
  <2>2. QED
    BY <2>1, <1>1, <1>3
<1>5. Sum(g.alloc, Tenants) + g.remaining = g.total
  BY <1>1, <1>3, <1>4 DEF CallOK
<1>6. /\ \A t \in Tenants : t \notin g.charged => g.alloc[t] = 0
      /\ g.first # None => g.first \in g.charged
      /\ g.first = None => \A t \in Tenants : g.alloc[t] = 0
  BY <1>1, <1>3, SchedulerAssumption DEF CallOK
<1>7. \A t \in g.charged : FoundIn(g, t)
  BY <1>1 DEF CallOK, FoundIn
<1>8. CallOK(g, "charge")
  BY <1>1, <1>5, <1>6, <1>7 DEF CallOK
<1>9. pc' = [pc EXCEPT ![p] = "charge"]
  BY <1>0, <1>1 DEF Charge, TypeOK
<1>10. reg' \in [Callers -> Registers] /\ pc' \in [Callers -> PCs] /\ Calls'
  BY <1>0, <1>1, <1>8, <1>9, OneCall DEF PCs
<1>11. tenants' \in [Tenants -> TenantState \cup {None}] /\ Buckets'
  <2>1. CASE tenants' = tenants
    BY <2>1, <1>0 DEF TypeOK, Buckets, Known
  <2>2. CASE /\ c.t \in Known /\ tenants' = [tenants EXCEPT ![c.t] = s]
             /\ s \in TenantState /\ s.tokens = tenants[c.t].tokens - n
    <3>1. s.tokens <= Largest(Bursts)
      BY <2>2, <1>0, <1>1, Entry, Bounds DEF Buckets
    <3>2. QED
      BY <2>2, <3>1, <1>0, <1>1, OneEntry DEF Write
  <2>3. QED
    BY <1>2, <2>1, <2>2
<1>12. Busy' \subseteq Busy
  BY DEF Busy, Charge
<1>13. QED
  BY <1>0, <1>10, <1>11, <1>12, PeakKept DEF Charge, historyVars, CallInv, TypeOK

\* What a step of Leftover does: the first tenant gets what remains.
LEMMA LeftoverStep ==
  ASSUME CallInv, NEW p \in Callers, Leftover(p)
  PROVE  LET t == reg[p].first
             n == reg[p].remaining
             s == LeftoverCounted(tenants[t], n)
         IN  /\ pc[p] = "charge" /\ CallOK(reg[p], "charge")
             /\ t \in Tenants /\ t \in reg[p].charged /\ n \in Nat /\ n > 0 /\ Uncharged(p) = {}
             /\ reg' = [reg EXCEPT ![p] = reg'[p]] /\ reg'[p] \in Registers
             /\ reg'[p].total = reg[p].total /\ reg'[p].found = reg[p].found
             /\ reg'[p].weight = reg[p].weight /\ reg'[p].charged = reg[p].charged
             /\ reg'[p].alloc = [reg[p].alloc EXCEPT ![t] = @ + n]
             /\ reg'[p].first = reg[p].first
             /\ reg'[p].remaining = 0 /\ reg'[p].barred = reg[p].barred
             /\ \/ /\ t \in Known /\ tenants' = [tenants EXCEPT ![t] = s]
                   /\ s \in TenantState /\ s.tokens = tenants[t].tokens
                   /\ s.inflight = tenants[t].inflight + n /\ s.paused = tenants[t].paused
                \/ tenants' = tenants /\ t \notin Known
<1> DEFINE t == reg[p].first
           n == reg[p].remaining
           s == LeftoverCounted(tenants[t], n)
           g == [reg[p] EXCEPT !.alloc[t] = @ + n, !.remaining = 0]
<1>0. TypeOK /\ CallOK(reg[p], "charge") /\ pc[p] = "charge" /\ t # None /\ n > 0 /\ Uncharged(p) = {}
  BY DEF Leftover, Charging, CallInv, Calls
<1>1. t \in Tenants /\ t \in reg[p].charged /\ n \in Nat
  BY <1>0, RegFields DEF CallOK
<1>2. reg' = [reg EXCEPT ![p] = g] /\ reg'[p] = g
  BY <1>0 DEF Leftover, Locals, TypeOK
<1>3. IF t \in Known THEN tenants' = [tenants EXCEPT ![t] = s] ELSE tenants' = tenants
  BY DEF Leftover, Write
<1>4. t \in Known => /\ s \in TenantState /\ s.tokens = tenants[t].tokens
                     /\ s.inflight = tenants[t].inflight + n /\ s.paused = tenants[t].paused
  <2> HIDE DEF n, t
  <2>1. QED
    BY <1>0, <1>1, Entry DEF LeftoverCounted, TenantState
<1> HIDE DEF s
<1>5. /\ g \in Registers /\ g.total = reg[p].total /\ g.found = reg[p].found
      /\ g.weight = reg[p].weight /\ g.charged = reg[p].charged
      /\ g.alloc = [reg[p].alloc EXCEPT ![t] = @ + n]
      /\ g.first = reg[p].first
      /\ g.remaining = 0 /\ g.barred = reg[p].barred
  <2>1. [reg[p].alloc EXCEPT ![t] = @ + n] \in [Tenants -> Nat]
    BY <1>0, <1>1, RegFields
  <2>2. QED
    BY <2>1, <1>0, <1>1, RegFields DEF Registers
<1> HIDE DEF g
<1>6. QED
  BY <1>0, <1>1, <1>2, <1>3, <1>4, <1>5 DEF s

LEMMA LeftoverCalls ==
  ASSUME CallInv, NEW p \in Callers, Leftover(p)
  PROVE  CallInv'
<1> DEFINE t == reg[p].first
           n == reg[p].remaining
           s == LeftoverCounted(tenants[t], n)
           g == reg'[p]
<1>0. TypeOK /\ Calls /\ Buckets /\ Peak /\ peak \in Nat
  BY FS_CardinalityType, SchedulerAssumption, SMTT(60) DEF CallInv, TypeOK
<1>1. /\ pc[p] = "charge" /\ CallOK(reg[p], "charge")
      /\ t \in Tenants /\ t \in reg[p].charged /\ n \in Nat
      /\ reg' = [reg EXCEPT ![p] = g] /\ g \in Registers
      /\ g.total = reg[p].total /\ g.found = reg[p].found
      /\ g.weight = reg[p].weight /\ g.charged = reg[p].charged
      /\ g.alloc = [reg[p].alloc EXCEPT ![t] = @ + n]
      /\ g.first = t /\ g.remaining = 0
  BY LeftoverStep
<1>2. \/ /\ t \in Known /\ tenants' = [tenants EXCEPT ![t] = s]
         /\ s \in TenantState /\ s.tokens = tenants[t].tokens
      \/ tenants' = tenants
  BY LeftoverStep
<1>3. reg[p].alloc \in [Tenants -> Nat] /\ reg[p].total \in Nat
  BY <1>0, RegFields
<1>4. Sum(reg[p].alloc, Tenants) + n = reg[p].total
  BY <1>1 DEF CallOK
<1> HIDE DEF n, s, g, t
<1>5. Sum(g.alloc, Tenants) = Sum(reg[p].alloc, Tenants) + n
  <2> DEFINE v == reg[p].alloc[t] + n
  <2>0. IsFiniteSet(Tenants)
    BY SchedulerAssumption
  <2>1. g.alloc = [reg[p].alloc EXCEPT ![t] = v] /\ v \in Nat
    BY <1>1, <1>3
  <2>2. v = reg[p].alloc[t] + n
    OBVIOUS
  <2> HIDE DEF v
  <2>3. /\ Sum([reg[p].alloc EXCEPT ![t] = v], Tenants) = Sum(reg[p].alloc, Tenants) - reg[p].alloc[t] + v
        /\ Sum(reg[p].alloc, Tenants) \in Nat /\ reg[p].alloc[t] \in Nat
    BY <2>0, <2>1, <1>1, <1>3, SumExcept
  <2>4. QED
    BY <2>1, <2>2, <2>3, <1>1
<1>6. Sum(g.alloc, Tenants) + g.remaining = g.total
  BY <1>1, <1>3, <1>4, <1>5
<1>7. /\ \A u \in Tenants : u \notin g.charged => g.alloc[u] = 0
      /\ g.first # None
  BY <1>1, <1>3, SchedulerAssumption DEF CallOK
<1>8. CallOK(g, "charge")
  BY <1>1, <1>6, <1>7 DEF CallOK, FoundIn
<1>9. pc' = [pc EXCEPT ![p] = "charge"]
  BY <1>0, <1>1 DEF Leftover, TypeOK
<1>10. reg' \in [Callers -> Registers] /\ pc' \in [Callers -> PCs] /\ Calls'
  BY <1>0, <1>1, <1>8, <1>9, OneCall DEF PCs
<1>11. tenants' \in [Tenants -> TenantState \cup {None}] /\ Buckets'
  <2>1. CASE tenants' = tenants
    BY <2>1, <1>0 DEF TypeOK, Buckets, Known
  <2>2. CASE /\ t \in Known /\ tenants' = [tenants EXCEPT ![t] = s]
             /\ s \in TenantState /\ s.tokens = tenants[t].tokens
    <3>1. s.tokens <= Largest(Bursts)
      BY <2>2, <1>0 DEF Buckets
    <3>2. QED
      BY <2>2, <3>1, <1>0, <1>1, OneEntry DEF Write
  <2>3. QED
    BY <1>2, <2>1, <2>2
<1>12. Busy' \subseteq Busy
  BY DEF Busy, Leftover
<1>13. QED
  BY <1>0, <1>10, <1>11, <1>12, PeakKept DEF Leftover, historyVars, CallInv, TypeOK

LEMMA AdvanceCalls ==
  ASSUME CallInv, NEW p \in Callers, Advance(p)
  PROVE  CallInv'
<1>0. TypeOK /\ Calls /\ Buckets /\ Peak /\ peak \in Nat /\ reg[p] \in Registers
  BY FS_CardinalityType, SchedulerAssumption, RegFields DEF CallInv, TypeOK
<1>1. reg' = [reg EXCEPT ![p] = NoRegisters] /\ pc' = [pc EXCEPT ![p] = "idle"]
  BY DEF Advance, Locals, Goto
<1>2. reg' \in [Callers -> Registers] /\ pc' \in [Callers -> PCs] /\ Calls'
  BY <1>0, <1>1, OneCall, NoRegistersOK DEF PCs
<1>3. Busy' \subseteq Busy
  BY <1>0, <1>1 DEF Busy, TypeOK
<1>4. outstanding' \in [Tenants -> Nat] /\ virtualTime' \in Nat
  <2>1. reg[p].alloc \in [Tenants -> Nat] /\ reg[p].vt \in Nat /\ outstanding \in [Tenants -> Nat]
    BY <1>0, RegFields DEF TypeOK
  <2>2. QED
    BY <2>1 DEF Advance
<1>5. UNCHANGED <<tenants, missed, calls, changes, reborn, peak>>
  BY DEF Advance
<1>6. TypeOK'
  BY <1>0, <1>2, <1>4, <1>5 DEF TypeOK
<1>7. QED
  BY <1>0, <1>2, <1>3, <1>5, <1>6, PeakKept DEF CallInv, Buckets, Known

\* What a release does to an entry.
LEMMA ReleaseStep ==
  ASSUME CallInv, NEW t \in Tenants, NEW n \in ReturnSizes, Release(t, n)
  PROVE  LET s == Subtract(tenants[t], n)
         IN  /\ n \in Nat /\ n <= outstanding[t] /\ outstanding[t] \in Nat
             /\ outstanding' = [outstanding EXCEPT ![t] = @ - n]
             /\ outstanding' \in [Tenants -> Nat]
             /\ \/ /\ t \in Known /\ tenants' = [tenants EXCEPT ![t] = s]
                   /\ s \in TenantState /\ s.tokens = tenants[t].tokens /\ s.paused = tenants[t].paused
                   /\ s.inflight = tenants[t].inflight - Smaller(n, tenants[t].inflight)
                \/ t \notin Known /\ tenants' = tenants
<1> DEFINE s == Subtract(tenants[t], n)
<1>0. TypeOK /\ outstanding \in [Tenants -> Nat]
  BY DEF CallInv, TypeOK
<1>1. /\ n \in Nat /\ n <= outstanding[t] /\ outstanding[t] \in Nat
      /\ outstanding' = [outstanding EXCEPT ![t] = @ - n]
      /\ outstanding' \in [Tenants -> Nat]
  BY <1>0, SchedulerAssumption DEF Release
<1>2. IF t \in Known THEN tenants' = [tenants EXCEPT ![t] = s] ELSE tenants' = tenants
  BY DEF Release, Write
<1>3. ASSUME t \in Known
      PROVE  /\ s \in TenantState /\ s.tokens = tenants[t].tokens /\ s.paused = tenants[t].paused
             /\ s.inflight = tenants[t].inflight - Smaller(n, tenants[t].inflight)
  <2>1. tenants[t] \in TenantState /\ tenants[t].inflight \in Nat
    BY <1>0, <1>3, Entry
  <2>2. tenants[t].inflight - Smaller(n, tenants[t].inflight) \in Nat
    BY <2>1, <1>1 DEF Smaller
  <2>3. QED
    BY <2>1, <2>2 DEF Subtract, TenantState
<1>4. QED
  BY <1>1, <1>2, <1>3

LEMMA ReleaseCalls ==
  ASSUME CallInv, NEW t \in Tenants, NEW n \in ReturnSizes, Release(t, n)
  PROVE  CallInv'
<1> DEFINE s == Subtract(tenants[t], n)
<1>0. TypeOK /\ Calls /\ Buckets /\ Peak /\ peak \in Nat
  BY FS_CardinalityType, SchedulerAssumption DEF CallInv, TypeOK
<1>1. /\ outstanding' \in [Tenants -> Nat]
      /\ \/ /\ t \in Known /\ tenants' = [tenants EXCEPT ![t] = s]
            /\ s \in TenantState /\ s.tokens = tenants[t].tokens
         \/ tenants' = tenants
  BY ReleaseStep
<1> HIDE DEF s
<1>2. tenants' \in [Tenants -> TenantState \cup {None}] /\ Buckets'
  <2>1. CASE tenants' = tenants
    BY <2>1, <1>0 DEF TypeOK, Buckets, Known
  <2>2. CASE /\ t \in Known /\ tenants' = [tenants EXCEPT ![t] = s]
             /\ s \in TenantState /\ s.tokens = tenants[t].tokens
    <3>1. s.tokens <= Largest(Bursts)
      BY <2>2, <1>0 DEF Buckets
    <3>2. QED
      BY <2>2, <3>1, <1>0, OneEntry DEF Write
  <2>3. QED
    BY <1>1, <2>1, <2>2
<1>3. UNCHANGED <<virtualTime, procVars, missed, calls, changes, reborn, peak>>
  BY DEF Release
<1>4. TypeOK' /\ Calls'
  BY <1>0, <1>1, <1>2, <1>3 DEF TypeOK, procVars, Calls
<1>5. Busy' \subseteq Busy
  BY <1>3 DEF Busy, procVars
<1>6. QED
  BY <1>0, <1>2, <1>3, <1>4, <1>5, PeakKept DEF CallInv

\* What the other operations do: they change an entry's policy or its pause,
\* insert one, or remove one, and leave the calls alone.
LEMMA AdminStep ==
  ASSUME TypeOK, NEW t \in Tenants, Administer(t)
  PROVE  /\ UNCHANGED <<virtualTime, pc, calls, outstanding, peak>>
         /\ changes' \in 0 .. MaxChanges /\ missed' \subseteq Miss
         /\ \E s \in TenantState \cup {None} :
              /\ tenants' = [tenants EXCEPT ![t] = s]
              /\ \/ /\ t \in Known /\ s \in TenantState /\ reborn' = reborn
                    /\ s.tokens = tenants[t].tokens /\ s.inflight = tenants[t].inflight
                    /\ Unbar(t) \/ (reg' = reg /\ (tenants[t].paused => s.paused))
                 \/ /\ Unbar(t) /\ reborn' = reborn \cup {t}
                    /\ \E pol \in Policies : s = Fresh(pol)
                 \/ /\ s = None /\ Unbar(t) /\ reborn' = reborn \cup {t}
                 \/ /\ t \notin Known /\ s = None /\ reg' = reg /\ reborn' = reborn
<1>1. CASE Pause(t)
  <2> DEFINE s == [tenants[t] EXCEPT !.paused = TRUE]
  <2>1. t \in Known /\ tenants' = [tenants EXCEPT ![t] = s]
    BY <1>1 DEF Pause, Write
  <2>2. s \in TenantState /\ s.tokens = tenants[t].tokens /\ s.inflight = tenants[t].inflight /\ s.paused
    BY <2>1, Entry DEF TenantState
  <2>3. /\ UNCHANGED <<virtualTime, pc, calls, outstanding, peak>> /\ reg' = reg /\ reborn' = reborn
        /\ changes' \in 0 .. MaxChanges /\ missed' \subseteq Miss
    BY <1>1, SchedulerAssumption DEF Pause, Change, TypeOK, historyVars, procVars
  <2> HIDE DEF s
  <2>4. QED
    BY <2>1, <2>2, <2>3
<1>2. CASE Resume(t)
  <2> DEFINE s == [tenants[t] EXCEPT !.paused = FALSE]
  <2>1. t \in Known /\ tenants' = [tenants EXCEPT ![t] = s] /\ tenants[t].paused
    BY <1>2 DEF Resume, Write
  <2>2. s \in TenantState /\ s.tokens = tenants[t].tokens /\ s.inflight = tenants[t].inflight
    BY <2>1, Entry DEF TenantState
  <2>3. /\ UNCHANGED <<virtualTime, pc, calls, outstanding, peak>> /\ Unbar(t) /\ reborn' = reborn
        /\ changes' \in 0 .. MaxChanges /\ missed' \subseteq Miss
    BY <1>2 DEF Resume, TypeOK, historyVars
  <2> HIDE DEF s
  <2>4. QED
    BY <2>1, <2>2, <2>3
<1>3. ASSUME NEW pol \in Policies, UpdatePolicy(t, pol), t \in Known
      PROVE  \E s \in TenantState \cup {None} :
               /\ tenants' = [tenants EXCEPT ![t] = s]
               /\ s \in TenantState /\ reborn' = reborn
               /\ s.tokens = tenants[t].tokens /\ s.inflight = tenants[t].inflight
               /\ reg' = reg /\ (tenants[t].paused => s.paused)
  <2> DEFINE s == [tenants[t] EXCEPT !.policy = pol]
  <2>1. tenants' = [tenants EXCEPT ![t] = s] /\ reg' = reg /\ reborn' = reborn
    BY <1>3 DEF UpdatePolicy, Write, historyVars, procVars
  <2>2. /\ s \in TenantState /\ s.tokens = tenants[t].tokens /\ s.inflight = tenants[t].inflight
        /\ s.paused = tenants[t].paused
    BY <1>3, Entry DEF TenantState
  <2> HIDE DEF s
  <2>3. QED
    BY <2>1, <2>2
<1>4. ASSUME NEW pol \in Policies, Insert(t, pol)
      PROVE  /\ Fresh(pol) \in TenantState /\ tenants' = [tenants EXCEPT ![t] = Fresh(pol)]
             /\ Unbar(t) /\ reborn' = reborn \cup {t}
             /\ UNCHANGED <<virtualTime, pc, calls, outstanding, peak>>
  BY <1>4, FreshEntry DEF Insert, Write
<1>5. ASSUME NEW pol \in Policies, UpdatePolicy(t, pol)
      PROVE  /\ UNCHANGED <<virtualTime, pc, missed, calls, outstanding, peak>>
             /\ changes' \in 0 .. MaxChanges /\ t \in Known
  BY <1>5, SchedulerAssumption DEF UpdatePolicy, Change, TypeOK, historyVars, procVars
<1>6. CASE \E pol \in Policies : UpdatePolicy(t, pol)
  <2>1. PICK pol \in Policies : UpdatePolicy(t, pol)
    BY <1>6
  <2>2. missed' \subseteq Miss
    BY <2>1, <1>5 DEF TypeOK
  <2>3. QED
    BY <2>1, <2>2, <1>3, <1>5
<1>a. CASE \E pol \in Policies : UpdatePolicyMiss(t, pol)
  <2>1. PICK pol \in Policies : UpdatePolicyMiss(t, pol)
    BY <1>a
  <2>2. /\ UNCHANGED <<tenants, virtualTime, pc, reg, calls, outstanding, reborn, peak>>
        /\ changes' \in 0 .. MaxChanges /\ changes' \in 1 .. MaxChanges
        /\ missed' = missed \cup {[call |-> changes', t |-> t, policy |-> pol]}
    BY <2>1, SchedulerAssumption DEF UpdatePolicyMiss, Change, TypeOK, historyVars, procVars
  <2>3. missed' \subseteq Miss
    BY <2>2 DEF Miss, TypeOK
  <2>4. t \notin Known /\ tenants[t] = None
    BY <2>1 DEF UpdatePolicyMiss, Known
  <2>5. tenants' = [tenants EXCEPT ![t] = None]
    BY <2>2, <2>4 DEF TypeOK
  <2>6. None \in TenantState \cup {None}
    OBVIOUS
  <2>7. QED
    BY <2>2, <2>3, <2>4, <2>5, <2>6
<1>b. CASE \E pol \in Policies : Register(t, pol)
  <2>1. PICK pol \in Policies : Register(t, pol)
    BY <1>b
  <2>2. Insert(t, pol) /\ missed' \subseteq Miss /\ changes' \in 0 .. MaxChanges
    BY <2>1, SchedulerAssumption DEF Register, Change, TypeOK
  <2>3. QED
    BY <2>2, <1>4
<1>c. CASE \E m \in missed : m.t = t /\ UpdatePolicyInsert(m)
  <2>1. PICK m \in missed : m.t = t /\ UpdatePolicyInsert(m)
    BY <1>c
  <2>2. m.policy \in Policies
    BY DEF TypeOK, Miss
  <2>3. Insert(t, m.policy) /\ missed' \subseteq Miss /\ changes' \in 0 .. MaxChanges
    BY <2>1 DEF UpdatePolicyInsert, TypeOK
  <2>4. QED
    BY <2>2, <2>3, <1>4
<1>7. CASE Deregister(t)
  <2>1. tenants' = [tenants EXCEPT ![t] = None] /\ Unbar(t) /\ reborn' = reborn \cup {t}
    BY <1>7 DEF Deregister, Write
  <2>2. /\ UNCHANGED <<virtualTime, pc, calls, outstanding, peak>> /\ changes' \in 0 .. MaxChanges
        /\ missed' \subseteq Miss
    BY <1>7, SchedulerAssumption DEF Deregister, Change, TypeOK
  <2>3. None \in TenantState \cup {None}
    OBVIOUS
  <2>4. QED
    BY <2>1, <2>2, <2>3
<1>8. QED
  BY <1>1, <1>2, <1>6, <1>7, <1>a, <1>b, <1>c DEF Administer

LEMMA AdminCalls ==
  ASSUME CallInv, NEW t \in Tenants, Administer(t)
  PROVE  CallInv'
<1>0. TypeOK /\ Calls /\ Buckets /\ Peak /\ peak \in Nat
  BY FS_CardinalityType, SchedulerAssumption DEF CallInv, TypeOK
<1>1. /\ UNCHANGED <<virtualTime, pc, calls, outstanding, peak>>
      /\ changes' \in 0 .. MaxChanges /\ missed' \subseteq Miss
  BY <1>0, AdminStep
<1>2. PICK s \in TenantState \cup {None} :
              /\ tenants' = [tenants EXCEPT ![t] = s]
              /\ \/ /\ t \in Known /\ s \in TenantState /\ reborn' = reborn
                    /\ s.tokens = tenants[t].tokens
                    /\ Unbar(t) \/ reg' = reg
                 \/ /\ Unbar(t) /\ reborn' = reborn \cup {t}
                    /\ \E pol \in Policies : s = Fresh(pol)
                 \/ /\ s = None /\ Unbar(t) /\ reborn' = reborn \cup {t}
                 \/ /\ t \notin Known /\ s = None /\ reg' = reg /\ reborn' = reborn
  BY <1>0, AdminStep
<1>3. s # None => s.tokens <= Largest(Bursts)
  <2>1. CASE t \in Known /\ s.tokens = tenants[t].tokens
    BY <2>1, <1>0 DEF Buckets
  <2>2. CASE \E pol \in Policies : s = Fresh(pol)
    BY <2>2, FreshEntry, Bounds
  <2>3. QED
    BY <1>2, <2>1, <2>2
<1>4. tenants' \in [Tenants -> TenantState \cup {None}] /\ Buckets'
  BY <1>0, <1>2, <1>3, OneEntry DEF Write
<1>5. reg' \in [Callers -> Registers] /\ Calls'
  <2>1. CASE reg' = reg
    BY <2>1, <1>0, <1>1 DEF TypeOK, Calls
  <2>2. CASE Unbar(t)
    BY <2>2, <1>0, <1>1, BarredOnly
  <2>3. QED
    BY <1>2, <2>1, <2>2
<1>6. Busy' \subseteq Busy
  BY <1>1 DEF Busy
<1>7. reborn' \subseteq Tenants
  BY <1>0, <1>2 DEF TypeOK
<1>8. TypeOK'
  BY <1>0, <1>1, <1>4, <1>5, <1>7 DEF TypeOK
<1>9. QED
  BY <1>0, <1>1, <1>4, <1>5, <1>6, <1>8, PeakKept DEF CallInv

LEMMA CallStep == CallInv /\ [Next]_vars => CallInv'
<1> SUFFICES ASSUME CallInv, [Next]_vars PROVE CallInv'
  OBVIOUS
<1>1. CASE UNCHANGED vars
  BY <1>1 DEF vars, procVars, historyVars, CallInv, TypeOK, Calls, Buckets, Known, Peak, Busy
<1>2. ASSUME NEW p \in Callers, Schedule(p) PROVE CallInv'
  BY <1>2, BeginCalls, WeighCalls, CollectCalls, ChargeCalls, LeftoverCalls, AdvanceCalls DEF Schedule
<1>3. ASSUME NEW t \in Tenants, \E n \in ReturnSizes : Release(t, n) PROVE CallInv'
  BY <1>3, ReleaseCalls
<1>4. ASSUME NEW t \in Tenants, Administer(t) PROVE CallInv'
  BY <1>4, AdminCalls
<1>5. QED
  BY <1>1, <1>2, <1>3, <1>4 DEF Next

LEMMA CallsHold == Spec => []CallInv
  BY CallInit, CallStep, PTL DEF Spec

\* The variables of the scheduler keep their types: counts never go below zero
\* (the saturating subtraction of release, `remaining` in the loop of schedule),
\* and finish times and slots are whole numbers.
THEOREM SchedulerTypes == Spec => []TypeOK
<1>1. CallInv => TypeOK
  BY DEF CallInv
<1>2. QED
  BY <1>1, CallsHold, PTL

(***************************************************************************)
(* A pause holds                                                           *)
(***************************************************************************)
\* What a step of Weigh does to the call's local variables.
LEMMA WeighStep ==
  ASSUME CallInv, NEW p \in Callers, Weigh(p)
  PROVE  /\ reg' = [reg EXCEPT ![p] = reg'[p]]
         /\ reg[p].found = {} /\ reg[p].charged = {} /\ reg'[p].found = {} /\ reg'[p].charged = {}
         /\ reg'[p].barred \subseteq reg[p].barred
         /\ \A q \in Callers : pc'[q] = "charge" => pc[q] = "charge" /\ q # p
<1>0. TypeOK /\ CallOK(reg[p], "weigh") /\ reg[p] \in Registers
  BY RegFields DEF Weigh, CallInv, Calls
<1>1. reg[p].found = {} /\ reg[p].charged = {}
  BY <1>0 DEF CallOK
<1>2. PICK g : /\ reg' = [reg EXCEPT ![p] = g] /\ g.found = {} /\ g.charged = {}
               /\ g.barred \subseteq reg[p].barred
  <2>1. ASSUME NEW S, NEW w PROVE LET g == [reg[p] EXCEPT !.todo = S, !.weight = w]
                                  IN  g.found = {} /\ g.charged = {} /\ g.barred = reg[p].barred
    BY <1>0, <1>1 DEF Registers
  <2>2. NoRegisters.found = {} /\ NoRegisters.charged = {} /\ NoRegisters.barred = {}
    BY DEF NoRegisters
  <2>3. \/ \E S, w : reg' = [reg EXCEPT ![p] = [reg[p] EXCEPT !.todo = S, !.weight = w]]
        \/ reg' = [reg EXCEPT ![p] = NoRegisters]
    BY DEF Weigh, Locals
  <2>4. CASE \E S, w : reg' = [reg EXCEPT ![p] = [reg[p] EXCEPT !.todo = S, !.weight = w]]
    <3>1. PICK S, w : reg' = [reg EXCEPT ![p] = [reg[p] EXCEPT !.todo = S, !.weight = w]]
      BY <2>4
    <3> DEFINE g == [reg[p] EXCEPT !.todo = S, !.weight = w]
    <3>2. g.found = {} /\ g.charged = {} /\ g.barred = reg[p].barred
      BY <2>1
    <3>3. reg' = [reg EXCEPT ![p] = g]
      BY <3>1
    <3> HIDE DEF g
    <3>4. QED
      BY <3>2, <3>3
  <2>5. CASE reg' = [reg EXCEPT ![p] = NoRegisters]
    BY <2>2, <2>5
  <2>6. QED
    BY <2>3, <2>4, <2>5
<1>3. \A q \in Callers : pc'[q] = "charge" => pc[q] = "charge" /\ q # p
  BY <1>0 DEF Weigh, Goto, TypeOK
<1>4. reg'[p] = g
  BY <1>0, <1>2 DEF TypeOK
<1>5. QED
  BY <1>1, <1>2, <1>3, <1>4

LEMMA BeginStep ==
  ASSUME CallInv, NEW p \in Callers, NEW n \in SlotRequests, ScheduleBegin(p, n)
  PROVE  /\ reg' = [reg EXCEPT ![p] = reg'[p]]
         /\ reg[p].found = {} /\ reg[p].charged = {} /\ reg'[p].found = {} /\ reg'[p].charged = {}
         /\ reg'[p].barred = {t \in Known : tenants[t].paused}
         /\ pc' = [pc EXCEPT ![p] = "weigh"]
<1> DEFINE g == [NoRegisters EXCEPT !.total = n, !.remaining = n, !.vt = virtualTime,
                                    !.todo = Tenants, !.barred = {t \in Known : tenants[t].paused}]
<1>0. TypeOK /\ CallOK(reg[p], "idle")
  BY DEF ScheduleBegin, CallInv, Calls
<1>1. reg' = [reg EXCEPT ![p] = g] /\ reg'[p] = g /\ pc' = [pc EXCEPT ![p] = "weigh"]
  BY <1>0 DEF ScheduleBegin, Locals, Goto, TypeOK
<1>2. g.found = {} /\ g.charged = {} /\ g.barred = {t \in Known : tenants[t].paused}
  BY DEF NoRegisters
<1>3. reg[p].found = {} /\ reg[p].charged = {}
  BY <1>0 DEF CallOK, FoundIn
<1> HIDE DEF g
<1>4. QED
  BY <1>1, <1>2, <1>3

\* Entries stay paused, and one call's candidates become others.
LEMMA BarredKept ==
  ASSUME TypeOK, Barred, NEW p \in Callers, reg' = [reg EXCEPT ![p] = reg'[p]],
         \A t \in Known : tenants[t].paused => t \in Known' /\ tenants'[t].paused,
         \A t \in reg'[p].barred : t \in reg[p].barred /\ ~FoundIn(reg'[p], t)
  PROVE  Barred'
<1> SUFFICES ASSUME NEW q \in Callers, NEW t \in reg'[q].barred
             PROVE  t \in Known' /\ tenants'[t].paused /\ ~FoundIn(reg'[q], t)
  BY DEF Barred
<1>1. CASE q = p
  BY <1>1 DEF Barred
<1>2. CASE q # p
  <2>1. reg'[q] = reg[q]
    BY <1>2 DEF TypeOK
  <2>2. QED
    BY <2>1 DEF Barred
<1>3. QED
  BY <1>1, <1>2

LEMMA BarredStep == CallInv /\ Barred /\ [Next]_vars => Barred'
<1> SUFFICES ASSUME CallInv, Barred, [Next]_vars PROVE Barred'
  OBVIOUS
<1>0. TypeOK
  BY DEF CallInv
<1>1. CASE UNCHANGED vars
  BY <1>1 DEF vars, procVars, Barred, Known
<1>2. ASSUME NEW p \in Callers, NEW n \in SlotRequests, ScheduleBegin(p, n) PROVE Barred'
  <2>1. tenants' = tenants
    BY <1>2 DEF ScheduleBegin
  <2>2. /\ reg' = [reg EXCEPT ![p] = reg'[p]] /\ reg'[p].found = {}
        /\ reg'[p].barred = {t \in Known : tenants[t].paused}
    BY <1>2, BeginStep
  <2>3. ASSUME NEW q \in Callers, NEW t \in reg'[q].barred
        PROVE  t \in Known' /\ tenants'[t].paused /\ ~FoundIn(reg'[q], t)
    <3>1. CASE q = p
      BY <3>1, <2>1, <2>2 DEF Known, FoundIn
    <3>2. CASE q # p
      <4>1. reg'[q] = reg[q]
        BY <3>2, <2>2, <1>0 DEF TypeOK
      <4>2. QED
        BY <4>1, <2>1 DEF Barred, Known
    <3>3. QED
      BY <3>1, <3>2
  <2>4. QED
    BY <2>3 DEF Barred
<1>3. ASSUME NEW p \in Callers, Weigh(p) PROVE Barred'
  <2>1. tenants' = tenants
    BY <1>3 DEF Weigh
  <2>2. reg' = [reg EXCEPT ![p] = reg'[p]] /\ reg'[p].found = {} /\ reg'[p].barred \subseteq reg[p].barred
    BY <1>3, WeighStep
  <2>3. QED
    BY <2>1, <2>2, <1>0, BarredKept DEF Known, FoundIn
<1>4. ASSUME NEW p \in Callers, NEW n \in 0 .. MaxRefill, Collect(p, n) PROVE Barred'
  <2> DEFINE t == Visited(p)
             s == Refilled(tenants[t], n)
             c == CandidateOf(t, s)
  <2>1. /\ reg' = [reg EXCEPT ![p] = reg'[p]] /\ reg'[p].barred = reg[p].barred /\ t \in Tenants
        /\ \/ /\ Eligible(tenants[t]) /\ t \in Known
              /\ reg'[p].found = reg[p].found \cup {c} /\ c.t = t
              /\ tenants' = [tenants EXCEPT ![t] = s]
           \/ reg'[p].found = reg[p].found /\ tenants' = tenants
    BY <1>4, CollectStep
  <2> HIDE DEF t, s, c
  <2>2. CASE reg'[p].found = reg[p].found /\ tenants' = tenants
    BY <2>1, <2>2, <1>0, BarredKept DEF Known, FoundIn, Barred
  <2>3. CASE /\ Eligible(tenants[t]) /\ t \in Known
             /\ reg'[p].found = reg[p].found \cup {c} /\ c.t = t
             /\ tenants' = [tenants EXCEPT ![t] = s]
    <3>1. ~tenants[t].paused
      BY <2>3 DEF Eligible
    <3>2. \A u \in Known : tenants[u].paused => u \in Known' /\ tenants'[u].paused
      BY <3>1, <2>3, <1>0 DEF Known, TypeOK
    <3>3. \A u \in reg'[p].barred : u \in reg[p].barred /\ ~FoundIn(reg'[p], u)
      BY <3>1, <2>1, <2>3 DEF Barred, FoundIn
    <3>4. QED
      BY <3>2, <3>3, <2>1, <1>0, BarredKept
  <2>4. QED
    BY <2>1, <2>2, <2>3
<1>5. ASSUME NEW p \in Callers, Charge(p) PROVE Barred'
  <2> DEFINE c == Foremost(p)
             s == Charged(tenants[c.t], p, c, Slots(p, c))
  <2>1. /\ reg' = [reg EXCEPT ![p] = reg'[p]] /\ reg'[p].barred = reg[p].barred
        /\ reg'[p].found = reg[p].found
        /\ \/ /\ c.t \in Known /\ tenants' = [tenants EXCEPT ![c.t] = s]
              /\ s \in TenantState /\ s.paused = tenants[c.t].paused
           \/ tenants' = tenants
    BY <1>5, ChargeStep
  <2> HIDE DEF c, s
  <2>2. \A u \in Known : tenants[u].paused => u \in Known' /\ tenants'[u].paused
    BY <2>1, <1>0, SchedulerAssumption DEF Known, TypeOK
  <2>3. \A u \in reg'[p].barred : u \in reg[p].barred /\ ~FoundIn(reg'[p], u)
    BY <2>1 DEF Barred, FoundIn
  <2>4. QED
    BY <2>1, <2>2, <2>3, <1>0, BarredKept
<1>6. ASSUME NEW p \in Callers, Leftover(p) PROVE Barred'
  <2> DEFINE t == reg[p].first
             s == LeftoverCounted(tenants[t], reg[p].remaining)
  <2>1. /\ reg' = [reg EXCEPT ![p] = reg'[p]] /\ reg'[p].barred = reg[p].barred
        /\ reg'[p].found = reg[p].found
        /\ \/ /\ t \in Known /\ tenants' = [tenants EXCEPT ![t] = s]
              /\ s \in TenantState /\ s.paused = tenants[t].paused
           \/ tenants' = tenants
    BY <1>6, LeftoverStep
  <2> HIDE DEF t, s
  <2>2. \A u \in Known : tenants[u].paused => u \in Known' /\ tenants'[u].paused
    BY <2>1, <1>0, SchedulerAssumption DEF Known, TypeOK
  <2>3. \A u \in reg'[p].barred : u \in reg[p].barred /\ ~FoundIn(reg'[p], u)
    BY <2>1 DEF Barred, FoundIn
  <2>4. QED
    BY <2>1, <2>2, <2>3, <1>0, BarredKept
<1>7. ASSUME NEW p \in Callers, Advance(p) PROVE Barred'
  <2>1. reg' = [reg EXCEPT ![p] = reg'[p]] /\ reg'[p].barred = {} /\ tenants' = tenants
    BY <1>7, <1>0 DEF Advance, Locals, TypeOK, NoRegisters
  <2>2. QED
    BY <2>1, <1>0, BarredKept DEF Known
<1>8. ASSUME NEW t \in Tenants, NEW n \in ReturnSizes, Release(t, n) PROVE Barred'
  <2> DEFINE s == Subtract(tenants[t], n)
  <2>1. \/ /\ t \in Known /\ tenants' = [tenants EXCEPT ![t] = s]
           /\ s \in TenantState /\ s.paused = tenants[t].paused
        \/ tenants' = tenants
    BY <1>8, ReleaseStep
  <2>2. reg' = reg
    BY <1>8 DEF Release, procVars
  <2> HIDE DEF s
  <2>3. \A u \in Known : tenants[u].paused => u \in Known' /\ tenants'[u].paused
    BY <2>1, <1>0, SchedulerAssumption DEF Known, TypeOK
  <2>4. QED
    BY <2>2, <2>3 DEF Barred
<1>9. ASSUME NEW t \in Tenants, Administer(t) PROVE Barred'
  <2>1. PICK s \in TenantState \cup {None} :
          /\ tenants' = [tenants EXCEPT ![t] = s]
          /\ \/ Unbar(t)
             \/ reg' = reg /\ t \notin Known
             \/ reg' = reg /\ s \in TenantState /\ (tenants[t].paused => s.paused)
    BY <1>9, <1>0, AdminStep
  <2>2. \A u \in Known : u # t => u \in Known' /\ tenants'[u] = tenants[u]
    BY <2>1, <1>0 DEF Known, TypeOK
  <2>3. CASE reg' = reg /\ s \in TenantState /\ (tenants[t].paused => s.paused)
    <3>1. tenants[t].paused => t \in Known' /\ tenants'[t].paused
      BY <2>1, <2>3, <1>0, SchedulerAssumption DEF Known, TypeOK
    <3>2. QED
      BY <3>1, <2>2, <2>3 DEF Barred
  <2>4. CASE Unbar(t)
    <3>1. \A p \in Callers : reg'[p].barred = reg[p].barred \ {t} /\ reg'[p].found = reg[p].found
      BY <2>4, <1>0 DEF Unbar, TypeOK, Registers
    <3>2. QED
      BY <3>1, <2>2 DEF Barred, FoundIn
  <2>5. CASE reg' = reg /\ t \notin Known
    BY <2>2, <2>5 DEF Barred
  <2>6. QED
    BY <2>1, <2>3, <2>4, <2>5
<1>10. QED
  BY <1>1, <1>2, <1>3, <1>4, <1>5, <1>6, <1>7, <1>8, <1>9 DEF Next, Schedule

\* A tenant that is paused when a call of schedule begins, and stays paused,
\* gets no slot from that call, whatever other calls and operations do: neither
\* pass finds it eligible, so it is no candidate.
THEOREM PausesHold == Spec => []PausedGetsNothing
<1>1. Init => Barred
  BY DEF Init, Barred, NoRegisters
<1>2. CallInv /\ Barred => PausedGetsNothing
  <2> SUFFICES ASSUME CallInv, Barred, NEW p \in Callers, NEW t \in reg[p].barred
               PROVE  reg[p].alloc[t] = 0
    BY DEF PausedGetsNothing
  <2>1. ~FoundIn(reg[p], t) /\ t \in Tenants
    BY DEF Barred, Known
  <2>2. CallOK(reg[p], pc[p])
    BY DEF CallInv, Calls
  <2>3. QED
    BY <2>1, <2>2 DEF CallOK
<1>3. QED
  BY <1>1, <1>2, BarredStep, CallsHold, PTL DEF Spec

(***************************************************************************)
(* No slot leaks                                                           *)
(***************************************************************************)
LEMMA CallersSum ==
  ASSUME NEW F \in [Callers -> Nat], NEW G \in [Callers -> Nat], NEW p \in Callers,
         \A q \in Callers : q # p => G[q] = F[q]
  PROVE  /\ Sum(G, Callers) = Sum(F, Callers) - F[p] + G[p]
         /\ Sum(F, Callers) \in Nat /\ Sum(G, Callers) \in Nat
<1>0. IsFiniteSet(Callers)
  BY SchedulerAssumption
<1>1. \A q \in Callers : F[q] \in Int /\ G[q] \in Int /\ (q # p => G[q] = F[q])
  OBVIOUS
<1>2. Sum(G, Callers) = Sum(F, Callers) - F[p] + G[p]
  BY <1>0, <1>1, SumChange
<1>3. \A q \in Callers : F[q] \in Nat /\ G[q] \in Nat
  OBVIOUS
<1>4. Sum(F, Callers) \in Nat /\ Sum(G, Callers) \in Nat
  BY <1>0, <1>3, SumNat
<1>5. QED
  BY <1>2, <1>4

LEMMA GivenMoves ==
  ASSUME TypeOK, reg' \in [Callers -> Registers], NEW p \in Callers, NEW t \in Tenants,
         reg' = [reg EXCEPT ![p] = reg'[p]]
  PROVE  /\ Sum(Given(reg', t), Callers) = Sum(Given(reg, t), Callers) - reg[p].alloc[t] + reg'[p].alloc[t]
         /\ Sum(Given(reg, t), Callers) \in Nat /\ Sum(Given(reg', t), Callers) \in Nat
         /\ reg[p].alloc[t] \in Nat /\ reg'[p].alloc[t] \in Nat
<1> DEFINE F == Given(reg, t)
           G == Given(reg', t)
<1>1. F \in [Callers -> Nat] /\ G \in [Callers -> Nat]
  BY DEF TypeOK, Registers, Given
<1>2. F[p] = reg[p].alloc[t] /\ G[p] = reg'[p].alloc[t]
  BY DEF Given
<1>3. \A q \in Callers : q # p => G[q] = F[q]
  BY DEF Given, TypeOK
<1> HIDE DEF F, G
<1>4. /\ Sum(G, Callers) = Sum(F, Callers) - F[p] + G[p]
      /\ Sum(F, Callers) \in Nat /\ Sum(G, Callers) \in Nat
  BY <1>1, <1>3, CallersSum
<1>5. QED
  BY <1>1, <1>2, <1>4 DEF F, G

\* Nothing is given, or taken into account.
LEMMA AccountedKept ==
  ASSUME CallInv, CallInv', Accounted, NEW p \in Callers, reg' = [reg EXCEPT ![p] = reg'[p]],
         \A t \in Tenants : reg'[p].alloc[t] = reg[p].alloc[t],
         \A t \in Tenants : /\ t \in Known' <=> t \in Known
                            /\ t \in Known => tenants'[t].inflight = tenants[t].inflight,
         UNCHANGED <<outstanding, reborn>>
  PROVE  Accounted'
<1> SUFFICES ASSUME NEW t \in Tenants
             PROVE  /\ t \notin reborn' => t \in Known'
                    /\ t \in Known' =>
                         /\ tenants'[t].inflight <= outstanding'[t] + Sum(Given(reg', t), Callers)
                         /\ t \notin reborn' =>
                              tenants'[t].inflight = outstanding'[t] + Sum(Given(reg', t), Callers)
  BY DEF Accounted
<1>1. Sum(Given(reg', t), Callers) = Sum(Given(reg, t), Callers)
  <2>1. TypeOK /\ reg' \in [Callers -> Registers]
    BY DEF CallInv, TypeOK
  <2>2. /\ Sum(Given(reg', t), Callers) = Sum(Given(reg, t), Callers) - reg[p].alloc[t] + reg'[p].alloc[t]
        /\ Sum(Given(reg, t), Callers) \in Nat /\ reg[p].alloc[t] \in Nat
    BY <2>1, GivenMoves
  <2>3. QED
    BY <2>2
<1>2. QED
  BY <1>1 DEF Accounted

\* t's entry and its account with call p grow by n.
LEMMA AccountedGrows ==
  ASSUME CallInv, CallInv', Accounted, NEW p \in Callers, reg' = [reg EXCEPT ![p] = reg'[p]],
         NEW t \in Tenants, NEW n \in Nat, NEW k \in Nat, k = reg[p].alloc[t],
         reg'[p].alloc = [reg[p].alloc EXCEPT ![t] = k + n],
         \A u \in Tenants : u \in Known' <=> u \in Known,
         t \in Known => tenants'[t].inflight = tenants[t].inflight + n,
         \A u \in Known : u # t => tenants'[u].inflight = tenants[u].inflight,
         UNCHANGED <<outstanding, reborn>>
  PROVE  Accounted'
<1> SUFFICES ASSUME NEW u \in Tenants
             PROVE  /\ u \notin reborn' => u \in Known'
                    /\ u \in Known' =>
                         /\ tenants'[u].inflight <= outstanding'[u] + Sum(Given(reg', u), Callers)
                         /\ u \notin reborn' =>
                              tenants'[u].inflight = outstanding'[u] + Sum(Given(reg', u), Callers)
  BY DEF Accounted
<1>0. TypeOK /\ reg' \in [Callers -> Registers] /\ outstanding[u] \in Nat
  BY DEF CallInv, TypeOK
<1>1. /\ Sum(Given(reg', u), Callers) = Sum(Given(reg, u), Callers) - reg[p].alloc[u] + reg'[p].alloc[u]
      /\ Sum(Given(reg, u), Callers) \in Nat /\ reg[p].alloc[u] \in Nat
  BY <1>0, GivenMoves
<1>2. reg[p].alloc \in [Tenants -> Nat]
  BY <1>0, RegFields
<1>3. u \in Known => tenants[u].inflight \in Nat
  BY <1>0, Entry
<1>4. CASE u = t
  <2>1. Sum(Given(reg', u), Callers) = Sum(Given(reg, u), Callers) + n
    BY <1>1, <1>2, <1>4
  <2>2. QED
    BY <2>1, <1>0, <1>1, <1>3, <1>4 DEF Accounted
<1>5. CASE u # t
  <2>1. Sum(Given(reg', u), Callers) = Sum(Given(reg, u), Callers)
    BY <1>1, <1>2, <1>5
  <2>2. QED
    BY <2>1, <1>5 DEF Accounted
<1>6. QED
  BY <1>4, <1>5

\* A call that has charged nobody has given nothing.
LEMMA NothingGiven ==
  ASSUME CallInv, NEW p \in Callers, reg[p].charged = {}
  PROVE  \A t \in Tenants : reg[p].alloc[t] = 0
  BY DEF CallInv, Calls, CallOK

LEMMA AccountedStep == CallInv /\ CallInv' /\ Accounted /\ [Next]_vars => Accounted'
<1> SUFFICES ASSUME CallInv, CallInv', Accounted, [Next]_vars PROVE Accounted'
  OBVIOUS
<1>0. TypeOK /\ TypeOK' /\ reg' \in [Callers -> Registers]
  BY DEF CallInv, TypeOK
<1>00. ASSUME NEW p \in Callers, reg'[p].charged = {} PROVE \A t \in Tenants : reg'[p].alloc[t] = 0
  BY <1>00 DEF CallInv, Calls, CallOK
<1>1. CASE UNCHANGED vars
  BY <1>1 DEF vars, procVars, historyVars, Accounted, Known
<1>2. ASSUME NEW p \in Callers, NEW n \in SlotRequests, ScheduleBegin(p, n) PROVE Accounted'
  <2>1. /\ reg' = [reg EXCEPT ![p] = reg'[p]] /\ reg[p].charged = {} /\ reg'[p].charged = {}
    BY <1>2, BeginStep
  <2>2. tenants' = tenants /\ UNCHANGED <<outstanding, reborn>>
    BY <1>2 DEF ScheduleBegin
  <2>3. \A t \in Tenants : reg'[p].alloc[t] = reg[p].alloc[t]
    BY <2>1, <1>00, NothingGiven
  <2>4. QED
    BY <2>1, <2>2, <2>3, AccountedKept DEF Known
<1>3. ASSUME NEW p \in Callers, Weigh(p) PROVE Accounted'
  <2>1. /\ reg' = [reg EXCEPT ![p] = reg'[p]] /\ reg[p].charged = {} /\ reg'[p].charged = {}
    BY <1>3, WeighStep
  <2>2. tenants' = tenants /\ UNCHANGED <<outstanding, reborn>>
    BY <1>3 DEF Weigh, historyVars
  <2>3. \A t \in Tenants : reg'[p].alloc[t] = reg[p].alloc[t]
    BY <2>1, <1>00, NothingGiven
  <2>4. QED
    BY <2>1, <2>2, <2>3, AccountedKept DEF Known
<1>4. ASSUME NEW p \in Callers, NEW n \in 0 .. MaxRefill, Collect(p, n) PROVE Accounted'
  <2> DEFINE t == Visited(p)
             s == Refilled(tenants[t], n)
  <2>1. /\ reg' = [reg EXCEPT ![p] = reg'[p]] /\ reg'[p].alloc = reg[p].alloc /\ t \in Tenants
        /\ \/ /\ t \in Known /\ s \in TenantState /\ s.inflight = tenants[t].inflight
              /\ tenants' = [tenants EXCEPT ![t] = s]
           \/ tenants' = tenants
    BY <1>4, CollectStep
  <2>2. UNCHANGED <<outstanding, reborn>>
    BY <1>4 DEF Collect, historyVars
  <2> HIDE DEF t, s
  <2>3. \A u \in Tenants : /\ u \in Known' <=> u \in Known
                           /\ u \in Known => tenants'[u].inflight = tenants[u].inflight
    BY <2>1, <1>0, SchedulerAssumption DEF Known, TypeOK
  <2>4. QED
    BY <2>1, <2>2, <2>3, AccountedKept
<1>5. ASSUME NEW p \in Callers, Charge(p) PROVE Accounted'
  <2> DEFINE c == Foremost(p)
             n == Slots(p, c)
             s == Charged(tenants[c.t], p, c, n)
  <2>1. /\ reg' = [reg EXCEPT ![p] = reg'[p]] /\ c.t \in Tenants /\ n \in Nat
        /\ c.t \notin reg[p].charged /\ CallOK(reg[p], "charge")
        /\ reg'[p].alloc = [reg[p].alloc EXCEPT ![c.t] = n]
        /\ \/ /\ c.t \in Known /\ tenants' = [tenants EXCEPT ![c.t] = s]
              /\ s \in TenantState /\ s.inflight = tenants[c.t].inflight + n
           \/ tenants' = tenants /\ (c.t \notin Known \/ n = 0)
    BY <1>5, ChargeStep
  <2>2. UNCHANGED <<outstanding, reborn>>
    BY <1>5 DEF Charge, historyVars
  <2> HIDE DEF c, n, s
  <2>3. reg[p].alloc[c.t] = 0
    BY <2>1 DEF CallOK
  <2>4. /\ \A u \in Tenants : u \in Known' <=> u \in Known
        /\ c.t \in Known => tenants'[c.t].inflight = tenants[c.t].inflight + n
        /\ \A u \in Known : u # c.t => tenants'[u].inflight = tenants[u].inflight
    <3>1. CASE tenants' = tenants /\ (c.t \notin Known \/ n = 0)
      <4>1. c.t \in Known => tenants[c.t].inflight \in Nat
        BY <1>0, Entry
      <4>2. QED
        BY <3>1, <4>1 DEF Known
    <3>2. CASE /\ c.t \in Known /\ tenants' = [tenants EXCEPT ![c.t] = s]
               /\ s \in TenantState /\ s.inflight = tenants[c.t].inflight + n
      BY <3>2, <2>1, <1>0, SchedulerAssumption DEF Known, TypeOK
    <3>3. QED
      BY <2>1, <3>1, <3>2
  <2>5. reg'[p].alloc = [reg[p].alloc EXCEPT ![c.t] = 0 + n]
    BY <2>1
  <2>6. QED
    BY <2>1, <2>2, <2>3, <2>4, <2>5, AccountedGrows
<1>6. ASSUME NEW p \in Callers, Leftover(p) PROVE Accounted'
  <2> DEFINE t == reg[p].first
             n == reg[p].remaining
             s == LeftoverCounted(tenants[t], n)
             k == reg[p].alloc[t]
  <2>1. /\ reg' = [reg EXCEPT ![p] = reg'[p]] /\ t \in Tenants /\ n \in Nat
        /\ reg'[p].alloc = [reg[p].alloc EXCEPT ![t] = @ + n]
        /\ \/ /\ t \in Known /\ tenants' = [tenants EXCEPT ![t] = s]
              /\ s \in TenantState /\ s.inflight = tenants[t].inflight + n
           \/ tenants' = tenants /\ t \notin Known
    BY <1>6, LeftoverStep
  <2>2. UNCHANGED <<outstanding, reborn>>
    BY <1>6 DEF Leftover, historyVars
  <2>3. k \in Nat /\ reg[p].alloc \in [Tenants -> Nat] /\ k = reg[p].alloc[t]
    BY <1>0, <2>1, RegFields
  <2> HIDE DEF n, s, t
  <2>4. reg'[p].alloc = [reg[p].alloc EXCEPT ![t] = k + n]
    BY <2>1, <2>3
  <2> HIDE DEF k
  <2>5. /\ \A u \in Tenants : u \in Known' <=> u \in Known
        /\ t \in Known => tenants'[t].inflight = tenants[t].inflight + n
        /\ \A u \in Known : u # t => tenants'[u].inflight = tenants[u].inflight
    BY <2>1, <1>0, SchedulerAssumption DEF Known, TypeOK
  <2>6. QED
    BY <2>1, <2>2, <2>3, <2>4, <2>5, AccountedGrows
<1>7. ASSUME NEW p \in Callers, Advance(p) PROVE Accounted'
  <2>1. /\ reg' = [reg EXCEPT ![p] = reg'[p]] /\ reg'[p].charged = {} /\ tenants' = tenants
        /\ reborn' = reborn /\ outstanding' = [t \in Tenants |-> outstanding[t] + reg[p].alloc[t]]
    BY <1>7, <1>0 DEF Advance, Locals, TypeOK, NoRegisters
  <2>2. ASSUME NEW t \in Tenants
        PROVE  outstanding'[t] + Sum(Given(reg', t), Callers) = outstanding[t] + Sum(Given(reg, t), Callers)
    <3>1. /\ Sum(Given(reg', t), Callers) = Sum(Given(reg, t), Callers) - reg[p].alloc[t] + reg'[p].alloc[t]
          /\ Sum(Given(reg, t), Callers) \in Nat /\ reg[p].alloc[t] \in Nat
      BY <2>1, <1>0, GivenMoves
    <3>2. reg'[p].alloc[t] = 0 /\ outstanding[t] \in Nat
      BY <2>1, <1>0, <1>00 DEF TypeOK
    <3>3. outstanding'[t] = outstanding[t] + reg[p].alloc[t]
      BY <2>1
    <3>4. QED
      BY <3>1, <3>2, <3>3
  <2>3. QED
    BY <2>1, <2>2 DEF Accounted, Known
<1>8. ASSUME NEW t \in Tenants, NEW n \in ReturnSizes, Release(t, n) PROVE Accounted'
  <2> DEFINE s == Subtract(tenants[t], n)
  <2>1. /\ n \in Nat /\ n <= outstanding[t] /\ outstanding \in [Tenants -> Nat]
        /\ outstanding' = [outstanding EXCEPT ![t] = @ - n]
        /\ \/ /\ t \in Known /\ tenants' = [tenants EXCEPT ![t] = s] /\ s \in TenantState
              /\ s.inflight = tenants[t].inflight - Smaller(n, tenants[t].inflight)
           \/ t \notin Known /\ tenants' = tenants
    BY <1>8, <1>0, ReleaseStep DEF TypeOK
  <2>2. reg' = reg /\ reborn' = reborn
    BY <1>8 DEF Release, procVars
  <2> HIDE DEF s
  <2>3. ASSUME NEW u \in Tenants
        PROVE  /\ u \notin reborn' => u \in Known'
               /\ u \in Known' =>
                    /\ tenants'[u].inflight <= outstanding'[u] + Sum(Given(reg', u), Callers)
                    /\ u \notin reborn' =>
                         tenants'[u].inflight = outstanding'[u] + Sum(Given(reg', u), Callers)
    <3>1. u \in Known' <=> u \in Known
      BY <2>1, <1>0, SchedulerAssumption DEF Known, TypeOK
    <3>2. CASE u # t \/ u \notin Known
      <4>1. u \in Known => outstanding'[u] = outstanding[u] /\ tenants'[u] = tenants[u]
        BY <3>2, <2>1, <1>0 DEF TypeOK
      <4>2. QED
        BY <4>1, <3>1, <2>2 DEF Accounted
    <3>3. CASE u = t /\ u \in Known
      <4> DEFINE G == Sum(Given(reg, t), Callers)
      <4>1. G \in Nat
        <5>1. Given(reg, t) \in [Callers -> Nat]
          BY <1>0 DEF TypeOK, Registers, Given
        <5>2. QED
          BY <5>1, SumNat, SchedulerAssumption
      <4>2. tenants[t].inflight \in Nat /\ outstanding[t] \in Nat
        BY <1>0, <3>3, <2>1, Entry
      <4>3. /\ tenants'[t].inflight = tenants[t].inflight - Smaller(n, tenants[t].inflight)
            /\ outstanding'[t] = outstanding[t] - n
        BY <2>1, <3>3, <1>0 DEF TypeOK
      <4>4. /\ tenants[t].inflight <= outstanding[t] + G
            /\ t \notin reborn => tenants[t].inflight = outstanding[t] + G
        BY <3>3 DEF Accounted
      <4> HIDE DEF G
      <4>5. /\ tenants'[t].inflight <= outstanding'[t] + G
            /\ t \notin reborn => tenants'[t].inflight = outstanding'[t] + G
        BY <4>1, <4>2, <4>3, <4>4, <2>1 DEF Smaller
      <4>6. QED
        BY <4>5, <3>1, <3>3, <2>2 DEF Accounted, G
    <3>4. QED
      BY <3>2, <3>3
  <2>4. QED
    BY <2>3 DEF Accounted
<1>9. ASSUME NEW t \in Tenants, Administer(t) PROVE Accounted'
  <2>1. PICK s \in TenantState \cup {None} :
              /\ tenants' = [tenants EXCEPT ![t] = s]
              /\ \/ /\ t \in Known /\ s \in TenantState /\ reborn' = reborn
                    /\ s.inflight = tenants[t].inflight
                    /\ Unbar(t) \/ reg' = reg
                 \/ /\ Unbar(t) /\ reborn' = reborn \cup {t}
                    /\ \E pol \in Policies : s = Fresh(pol)
                 \/ /\ s = None /\ Unbar(t) /\ reborn' = reborn \cup {t}
                 \/ /\ t \notin Known /\ s = None /\ reg' = reg /\ reborn' = reborn
    BY <1>9, <1>0, AdminStep
  <2>2. outstanding' = outstanding /\ pc' = pc
    BY <1>9, <1>0, AdminStep
  <2>3. \A q \in Callers : reg'[q].alloc = reg[q].alloc
    <3>1. CASE reg' = reg
      BY <3>1
    <3>2. CASE Unbar(t)
      BY <3>2, <2>2, <1>0, BarredOnly DEF CallInv
    <3>3. QED
      BY <2>1, <3>1, <3>2
  <2>4. \A u \in Tenants : Given(reg', u) = Given(reg, u)
    BY <2>3 DEF Given
  <2>5. ASSUME NEW u \in Tenants, u # t
        PROVE  (u \in Known' <=> u \in Known) /\ tenants'[u] = tenants[u] /\ (u \in reborn' <=> u \in reborn)
    BY <2>1, <2>5, <1>0 DEF Known, TypeOK
  <2>6. Sum(Given(reg, t), Callers) \in Nat /\ outstanding[t] \in Nat
    <3>1. Given(reg, t) \in [Callers -> Nat]
      BY <1>0 DEF TypeOK, Registers, Given
    <3>2. QED
      BY <3>1, <1>0, SumNat, SchedulerAssumption DEF TypeOK
  <2>7. tenants'[t] = s
    BY <2>1, <1>0 DEF TypeOK
  <2>8. /\ t \notin reborn' => t \in Known'
        /\ t \in Known' =>
             /\ tenants'[t].inflight <= outstanding[t] + Sum(Given(reg, t), Callers)
             /\ t \notin reborn' => tenants'[t].inflight = outstanding[t] + Sum(Given(reg, t), Callers)
    <3>1. CASE /\ t \in Known /\ s \in TenantState /\ reborn' = reborn
               /\ s.inflight = tenants[t].inflight
      BY <3>1, <2>7, SchedulerAssumption DEF Accounted, Known
    <3>2. CASE reborn' = reborn \cup {t} /\ \E pol \in Policies : s = Fresh(pol)
      <4>1. s.inflight = 0 /\ t \in reborn'
        BY <3>2, FreshEntry
      <4>2. QED
        BY <4>1, <2>6, <2>7
    <3>3. CASE s = None /\ reborn' = reborn \cup {t}
      BY <3>3, <2>7 DEF Known
    <3>4. CASE t \notin Known /\ s = None /\ reborn' = reborn
      BY <3>4, <2>7 DEF Known, Accounted
    <3>5. QED
      BY <2>1, <3>1, <3>2, <3>3, <3>4
  <2>9. QED
    BY <2>2, <2>4, <2>5, <2>8 DEF Accounted
<1>10. QED
  BY <1>1, <1>2, <1>3, <1>4, <1>5, <1>6, <1>7, <1>8, <1>9 DEF Next, Schedule

\* When no call is under way, what the scheduler counts as in flight for a tenant
\* is what workers were given and have not released; after a deregister, or an
\* insert over its entry, it may be too low, never too high.
THEOREM NoSlotLeaks == Spec => []SlotsAccounted
<1>1. Init => Accounted
  <2> SUFFICES ASSUME Init, NEW t \in Tenants
               PROVE  t \in Known /\ tenants[t].inflight = outstanding[t] + Sum(Given(reg, t), Callers)
                      /\ tenants[t].inflight \in Nat
    BY DEF Accounted
  <2>1. PICK plan \in [Tenants -> Policies] : tenants = [u \in Tenants |-> Fresh(plan[u])]
    BY DEF Init
  <2>2. tenants[t].inflight = 0 /\ t \in Known
    <3>1. PICK pol \in Policies : tenants[t] = Fresh(pol)
      BY <2>1
    <3>2. Fresh(pol) \in TenantState /\ Fresh(pol).inflight = 0
      BY FreshEntry
    <3>3. QED
      BY <3>1, <3>2, SchedulerAssumption DEF Known
  <2>3. \A p \in Callers : Given(reg, t)[p] = 0
    BY DEF Init, Given, NoRegisters, NoSlots
  <2>4. Sum(Given(reg, t), Callers) = 0
    BY <2>3, SumZero, SchedulerAssumption
  <2>5. outstanding[t] = 0
    BY DEF Init, NoSlots
  <2>6. QED
    BY <2>2, <2>4, <2>5
<1>2. CallInv /\ Accounted => SlotsAccounted
  <2> SUFFICES ASSUME CallInv, Accounted, Busy = {}, NEW t \in Known
               PROVE  /\ tenants[t].inflight <= outstanding[t]
                      /\ t \notin reborn => tenants[t].inflight = outstanding[t]
    BY DEF SlotsAccounted
  <2>1. ASSUME NEW p \in Callers PROVE Given(reg, t)[p] = 0
    <3>1. pc[p] = "idle" /\ t \in Tenants
      BY DEF Busy, Known
    <3>2. CallOK(reg[p], "idle")
      BY <3>1 DEF CallInv, Calls
    <3>3. reg[p].alloc[t] = 0
      BY <3>1, <3>2 DEF CallOK, FoundIn
    <3>4. QED
      BY <3>3 DEF Given
  <2>2. Sum(Given(reg, t), Callers) = 0
    BY <2>1, SumZero, SchedulerAssumption
  <2>3. t \in Tenants /\ outstanding[t] \in Nat
    BY DEF Known, CallInv, TypeOK
  <2>4. QED
    BY <2>2, <2>3 DEF Accounted
<1>3. QED
  BY <1>1, <1>2, AccountedStep, CallsHold, PTL DEF Spec

(***************************************************************************)
(* How far max_inflight can be exceeded                                    *)
(***************************************************************************)
LEMMA ReserveType ==
  ASSUME NEW R \in [Callers -> Registers], NEW t \in Tenants
  PROVE  Reserve(R, t) \in [Callers -> Nat] /\ Sum(Reserve(R, t), Callers) \in Nat
<1>1. Reserve(R, t) \in [Callers -> Nat]
  BY DEF Registers, Reserve, ReserveOf
<1>2. \A p \in Callers : Reserve(R, t)[p] \in Nat
  BY <1>1
<1>3. QED
  BY <1>1, <1>2, SumNat, SchedulerAssumption

LEMMA ReserveMoves ==
  ASSUME TypeOK, reg' \in [Callers -> Registers], NEW p \in Callers, NEW t \in Tenants,
         reg' = [reg EXCEPT ![p] = reg'[p]]
  PROVE  /\ Sum(Reserve(reg', t), Callers)
              = Sum(Reserve(reg, t), Callers) - ReserveOf(reg[p], t) + ReserveOf(reg'[p], t)
         /\ Sum(Reserve(reg, t), Callers) \in Nat /\ Sum(Reserve(reg', t), Callers) \in Nat
         /\ ReserveOf(reg[p], t) \in Nat /\ ReserveOf(reg'[p], t) \in Nat
<1> DEFINE F == Reserve(reg, t)
           G == Reserve(reg', t)
<1>0. reg \in [Callers -> Registers]
  BY DEF TypeOK
<1>1. F \in [Callers -> Nat] /\ G \in [Callers -> Nat]
  BY <1>0, ReserveType
<1>2. F[p] = ReserveOf(reg[p], t) /\ G[p] = ReserveOf(reg'[p], t)
  BY DEF Reserve
<1>3. \A q \in Callers : q # p => G[q] = F[q]
  BY DEF Reserve, TypeOK
<1> HIDE DEF F, G
<1>4. /\ Sum(G, Callers) = Sum(F, Callers) - F[p] + G[p]
      /\ Sum(F, Callers) \in Nat /\ Sum(G, Callers) \in Nat
  BY <1>1, <1>3, CallersSum
<1>5. QED
  BY <1>1, <1>2, <1>4 DEF F, G

\* Every call under way can give at most what it was asked for.
LEMMA ReserveBounded ==
  ASSUME NEW R \in [Callers -> Registers], NEW L, \A p \in Callers : CallOK(R[p], L[p]),
         NEW k \in Nat, Cardinality({p \in Callers : L[p] # "idle"}) <= k, NEW t \in Tenants
  PROVE  Sum(Reserve(R, t), Callers) <= k * Largest(SlotRequests)
<1> DEFINE A == {p \in Callers : L[p] # "idle"}
           b == Largest(SlotRequests)
           F == Reserve(R, t)
<1>0. b \in Nat /\ IsFiniteSet(Callers) /\ A \in SUBSET Callers
  BY Bounds, SchedulerAssumption
<1>1. F \in [Callers -> Nat]
  BY ReserveType
<1>2. ASSUME NEW p \in Callers PROVE F[p] <= b /\ (p \notin A => F[p] = 0)
  <2>1. R[p] \in Registers /\ CallOK(R[p], L[p]) /\ F[p] = ReserveOf(R[p], t)
    BY DEF Reserve
  <2>2. CASE p \notin A
    BY <2>1, <2>2, <1>0 DEF CallOK, ReserveOf, FoundIn
  <2>3. CASE p \in A
    <3>1. R[p].total <= b /\ R[p].alloc \in [Tenants -> Nat] /\ R[p].remaining \in Nat /\ R[p].total \in Nat
      BY <2>1, <2>3, Bounds DEF CallOK, Registers
    <3>2. Sum(R[p].alloc, Tenants) \in Nat
      BY <3>1, SumNat, SchedulerAssumption
    <3>3. Sum(R[p].alloc, Tenants) + R[p].remaining = R[p].total
      BY <2>1 DEF CallOK
    <3>4. R[p].remaining <= b
      BY <3>1, <3>2, <3>3, <1>0
    <3>5. QED
      BY <2>1, <2>3, <3>4, <1>0 DEF ReserveOf
  <2>4. QED
    BY <2>2, <2>3
<1>3. \A p \in Callers : F[p] \in Nat /\ F[p] <= b /\ (p \notin A => F[p] = 0)
  BY <1>1, <1>2
<1> HIDE DEF F, b, A
<1>4. Sum(F, Callers) <= Cardinality(A) * b
  BY <1>0, <1>3, SumAtMost
<1>5. IsFiniteSet(A) /\ Cardinality(A) \in Nat /\ Cardinality(A) <= k
  BY <1>0, FS_Subset, FS_CardinalityType DEF A
<1>6. Cardinality(A) * b <= k * b
  BY <1>0, <1>5, ProductMonotone
<1>7. Sum(F, Callers) \in Nat /\ k * b \in Nat /\ Cardinality(A) * b \in Nat
  BY <1>0, <1>3, <1>5, ProductNat, SumNat
<1>8. QED
  BY <1>4, <1>6, <1>7 DEF F, b

LEMMA PeakReserve ==
  ASSUME CallInv, CallInv', NEW t \in Tenants
  PROVE  /\ Sum(Reserve(reg, t), Callers) <= peak * Largest(SlotRequests)
         /\ Sum(Reserve(reg', t), Callers) <= peak' * Largest(SlotRequests)
         /\ Sum(Reserve(reg, t), Callers) \in Nat /\ Sum(Reserve(reg', t), Callers) \in Nat
         /\ peak * Largest(SlotRequests) \in Nat /\ peak' * Largest(SlotRequests) \in Nat
         /\ peak \in Nat /\ peak' \in Nat
<1>1. reg \in [Callers -> Registers] /\ reg' \in [Callers -> Registers] /\ peak \in Nat /\ peak' \in Nat
  <2>1. Cardinality(Callers) \in Nat
    BY FS_CardinalityType, SchedulerAssumption
  <2>2. QED
    BY <2>1 DEF CallInv, TypeOK
<1>2. Cardinality({p \in Callers : pc[p] # "idle"}) <= peak
  BY DEF CallInv, Peak, Busy
<1>3. Cardinality({p \in Callers : pc'[p] # "idle"}) <= peak'
  BY DEF CallInv, Peak, Busy
<1>4. (\A p \in Callers : CallOK(reg[p], pc[p])) /\ (\A p \in Callers : CallOK(reg'[p], pc'[p]))
  BY DEF CallInv, Calls
<1>5. Sum(Reserve(reg, t), Callers) <= peak * Largest(SlotRequests)
  BY <1>1, <1>2, <1>4, ReserveBounded
<1>6. Sum(Reserve(reg', t), Callers) <= peak' * Largest(SlotRequests)
  BY <1>1, <1>3, <1>4, ReserveBounded
<1>7. QED
  BY <1>1, <1>5, <1>6, ReserveType, ProductNat, Bounds

\* t's count and what calls may still add to it do not grow together, and no
\* more calls are under way than before at some time.
LEMMA CappedKept ==
  ASSUME CallInv, CallInv', Capped, peak <= peak', NEW t \in Known, t \in Known',
         tenants'[t].inflight + Sum(Reserve(reg', t), Callers)
           <= tenants[t].inflight + Sum(Reserve(reg, t), Callers)
  PROVE  tenants'[t].inflight + Sum(Reserve(reg', t), Callers)
           <= Largest(Caps) - 1 + peak' * Largest(SlotRequests)
<1>1. t \in Tenants /\ tenants[t].inflight \in Nat
  BY Entry DEF CallInv
<1>2. tenants'[t] \in TenantState /\ tenants'[t].inflight \in Nat
  BY <1>1 DEF CallInv, TypeOK, Known, TenantState
<1>3. /\ Sum(Reserve(reg, t), Callers) \in Nat /\ Sum(Reserve(reg', t), Callers) \in Nat
      /\ peak * Largest(SlotRequests) \in Nat /\ peak' * Largest(SlotRequests) \in Nat
      /\ peak \in Nat /\ peak' \in Nat
  BY <1>1, PeakReserve
<1>4. peak * Largest(SlotRequests) <= peak' * Largest(SlotRequests)
  BY <1>3, ProductMonotone, Bounds
<1>5. tenants[t].inflight + Sum(Reserve(reg, t), Callers) <= Largest(Caps) - 1 + peak * Largest(SlotRequests)
  BY DEF Capped
<1>6. Largest(Caps) \in Nat
  BY Bounds
<1>7. QED
  BY <1>1, <1>2, <1>3, <1>4, <1>5, <1>6

\* t's count is below a cap now, whatever it was.
LEMMA CappedAnew ==
  ASSUME CallInv, CallInv', NEW t \in Tenants, t \in Known', NEW n \in Nat,
         tenants'[t].inflight = n, n <= Largest(Caps) - 1
  PROVE  tenants'[t].inflight + Sum(Reserve(reg', t), Callers)
           <= Largest(Caps) - 1 + peak' * Largest(SlotRequests)
<1>1. /\ Sum(Reserve(reg', t), Callers) <= peak' * Largest(SlotRequests)
      /\ Sum(Reserve(reg', t), Callers) \in Nat /\ peak' * Largest(SlotRequests) \in Nat
  BY PeakReserve
<1>2. Largest(Caps) \in Nat
  BY Bounds
<1>3. QED
  BY <1>1, <1>2

LEMMA CappedStep == CallInv /\ CallInv' /\ Capped /\ [Next]_vars => Capped'
<1> SUFFICES ASSUME CallInv, CallInv', Capped, [Next]_vars, NEW u \in Tenants, u \in Known'
             PROVE  tenants'[u].inflight + Sum(Reserve(reg', u), Callers)
                      <= Largest(Caps) - 1 + peak' * Largest(SlotRequests)
  BY DEF Capped, Known
<1> DEFINE Goal == tenants'[u].inflight + Sum(Reserve(reg', u), Callers)
                     <= Largest(Caps) - 1 + peak' * Largest(SlotRequests)
           r == Sum(Reserve(reg, u), Callers)
           r2 == Sum(Reserve(reg', u), Callers)
<1>0. TypeOK /\ TypeOK' /\ reg' \in [Callers -> Registers] /\ reg \in [Callers -> Registers]
      /\ peak \in Nat /\ r \in Nat /\ r2 \in Nat
  BY PeakReserve, ReserveType DEF CallInv, TypeOK
<1>00. u \in Known => tenants[u].inflight \in Nat
  BY <1>0, Entry
\* The entry stays as it is, or its count falls.
<1>a. ASSUME u \in Known, peak <= peak', r2 <= r, tenants'[u].inflight \in Nat,
             tenants'[u].inflight <= tenants[u].inflight
      PROVE  Goal
  <2>1. tenants'[u].inflight + r2 <= tenants[u].inflight + r
    BY <1>a, <1>0, <1>00
  <2>2. QED
    BY <2>1, <1>a, CappedKept
\* Call p's reserve for u is not larger than it was.
<1>b. ASSUME NEW p \in Callers, reg' = [reg EXCEPT ![p] = reg'[p]],
             ReserveOf(reg'[p], u) <= ReserveOf(reg[p], u)
      PROVE  r2 <= r
  <2>1. /\ r2 = r - ReserveOf(reg[p], u) + ReserveOf(reg'[p], u)
        /\ ReserveOf(reg[p], u) \in Nat /\ ReserveOf(reg'[p], u) \in Nat
    BY <1>b, <1>0, ReserveMoves
  <2>2. QED
    BY <2>1, <1>b, <1>0
<1>1. CASE UNCHANGED vars
  BY <1>1, <1>a, <1>0, <1>00 DEF vars, procVars, historyVars, Known
<1>2. ASSUME NEW p \in Callers, NEW n \in SlotRequests, ScheduleBegin(p, n) PROVE Goal
  <2>1. reg' = [reg EXCEPT ![p] = reg'[p]] /\ reg[p].found = {} /\ reg'[p].found = {}
    BY <1>2, BeginStep
  <2>2. tenants' = tenants /\ u \in Known
    BY <1>2 DEF ScheduleBegin, Known
  <2>3. peak <= peak'
    <3>1. Cardinality(Busy \cup {p}) \in Nat
      BY BusyFinite, FS_AddElement, FS_CardinalityType
    <3>2. QED
      BY <3>1, <1>2, <1>0 DEF ScheduleBegin, Later
  <2>4. ReserveOf(reg'[p], u) <= ReserveOf(reg[p], u)
    BY <2>1 DEF ReserveOf, FoundIn
  <2>5. QED
    BY <2>1, <2>2, <2>3, <2>4, <1>a, <1>b, <1>0, <1>00
<1>3. ASSUME NEW p \in Callers, Weigh(p) PROVE Goal
  <2>1. reg' = [reg EXCEPT ![p] = reg'[p]] /\ reg[p].found = {} /\ reg'[p].found = {}
    BY <1>3, WeighStep
  <2>2. tenants' = tenants /\ u \in Known /\ peak' = peak
    BY <1>3 DEF Weigh, Known, historyVars
  <2>3. ReserveOf(reg'[p], u) <= ReserveOf(reg[p], u)
    BY <2>1 DEF ReserveOf, FoundIn
  <2>4. QED
    BY <2>1, <2>2, <2>3, <1>a, <1>b, <1>0, <1>00
<1>4. ASSUME NEW p \in Callers, NEW n \in 0 .. MaxRefill, Collect(p, n) PROVE Goal
  <2> DEFINE t == Visited(p)
             s == Refilled(tenants[t], n)
             c == CandidateOf(t, s)
  <2>1. /\ reg' = [reg EXCEPT ![p] = reg'[p]] /\ t \in Tenants
        /\ reg'[p].remaining = reg[p].remaining
        /\ \/ /\ Eligible(tenants[t]) /\ t \in Known
              /\ reg'[p].found = reg[p].found \cup {c} /\ c.t = t
              /\ tenants' = [tenants EXCEPT ![t] = s] /\ s.inflight = tenants[t].inflight
           \/ reg'[p].found = reg[p].found /\ tenants' = tenants
    BY <1>4, CollectStep
  <2>2. peak' = peak
    BY <1>4 DEF Collect, historyVars
  <2> HIDE DEF t, s, c
  <2>3. CASE u = t /\ tenants' # tenants
    <3>1. /\ t \in Known /\ Eligible(tenants[t]) /\ s.inflight = tenants[t].inflight
          /\ tenants'[t] = s
      BY <2>1, <2>3, <1>0 DEF TypeOK
    <3>2. tenants[t].policy \in Policies /\ tenants[t].inflight \in Nat
          /\ tenants[t].policy.maxInflight \in Nat
      BY <3>1, <1>0, Entry
    <3>3. tenants[t].inflight <= Largest(Caps) - 1
      BY <3>1, <3>2, Bounds DEF Eligible
    <3>4. QED
      BY <3>1, <3>2, <3>3, <2>3, CappedAnew
  <2>4. CASE u # t \/ tenants' = tenants
    <3>1. u \in Known /\ tenants'[u] = tenants[u]
      BY <2>1, <2>4, <1>0 DEF Known, TypeOK
    <3>2. CASE reg'[p].found = reg[p].found \/ u # t
      <4>1. ReserveOf(reg'[p], u) = ReserveOf(reg[p], u)
        BY <3>2, <2>1 DEF ReserveOf, FoundIn
      <4>2. ReserveOf(reg[p], u) \in Nat
        BY <2>1, <1>0, ReserveMoves
      <4>3. QED
        BY <4>1, <4>2, <3>1, <2>1, <2>2, <1>a, <1>b, <1>0, <1>00
    <3>3. CASE u = t /\ Eligible(tenants[t]) /\ t \in Known
      <4>2. tenants[t].policy \in Policies /\ tenants[t].inflight \in Nat
            /\ tenants[t].policy.maxInflight \in Nat
        BY <3>3, <1>0, Entry
      <4>3. tenants[t].inflight <= Largest(Caps) - 1
        BY <3>3, <4>2, Bounds DEF Eligible
      <4>4. QED
        BY <3>1, <3>3, <4>2, <4>3, CappedAnew
    <3>4. QED
      BY <2>1, <3>2, <3>3
  <2>5. QED
    BY <2>3, <2>4
<1>5. ASSUME NEW p \in Callers, Charge(p) PROVE Goal
  <2> DEFINE c == Foremost(p)
             n == Slots(p, c)
             s == Charged(tenants[c.t], p, c, n)
  <2>1. /\ reg' = [reg EXCEPT ![p] = reg'[p]] /\ c.t \in Tenants /\ c \in reg[p].found
        /\ n \in Nat /\ n <= reg[p].remaining
        /\ reg'[p].found = reg[p].found /\ reg'[p].remaining = reg[p].remaining - n
        /\ \/ /\ c.t \in Known /\ tenants' = [tenants EXCEPT ![c.t] = s]
              /\ s.inflight = tenants[c.t].inflight + n
           \/ tenants' = tenants
    BY <1>5, ChargeStep
  <2>2. peak' = peak /\ reg[p].remaining \in Nat
    BY <1>5, <1>0, RegFields DEF Charge, historyVars
  <2> HIDE DEF c, n, s
  <2>3. CASE u = c.t /\ tenants' # tenants
    <3>1. /\ u \in Known /\ tenants'[u] = s /\ s.inflight = tenants[u].inflight + n
      BY <2>1, <2>3, <1>0 DEF TypeOK
    <3>2. FoundIn(reg[p], u) /\ FoundIn(reg'[p], u)
      BY <2>1, <2>3 DEF FoundIn
    <3>3. ReserveOf(reg[p], u) = reg[p].remaining /\ ReserveOf(reg'[p], u) = reg[p].remaining - n
      BY <3>2, <2>1 DEF ReserveOf
    <3>4. r2 = r - ReserveOf(reg[p], u) + ReserveOf(reg'[p], u)
      BY <2>1, <1>0, ReserveMoves
    <3>5. r2 = r - n
      BY <3>3, <3>4, <2>1, <2>2, <1>0
    <3>6. tenants'[u].inflight + r2 <= tenants[u].inflight + r
      BY <3>1, <3>5, <2>1, <1>0, <1>00
    <3>7. QED
      BY <3>1, <3>6, <2>2, <1>0, CappedKept
  <2>4. CASE u # c.t \/ tenants' = tenants
    <3>1. u \in Known /\ tenants'[u] = tenants[u]
      BY <2>1, <2>4, <1>0 DEF Known, TypeOK
    <3>2. ReserveOf(reg'[p], u) <= ReserveOf(reg[p], u)
      BY <2>1, <2>2 DEF ReserveOf, FoundIn
    <3>3. QED
      BY <3>1, <3>2, <2>1, <2>2, <1>a, <1>b, <1>0, <1>00
  <2>5. QED
    BY <2>3, <2>4
<1>6. ASSUME NEW p \in Callers, Leftover(p) PROVE Goal
  <2> DEFINE t == reg[p].first
             n == reg[p].remaining
             s == LeftoverCounted(tenants[t], n)
  <2>1. /\ reg' = [reg EXCEPT ![p] = reg'[p]] /\ t \in Tenants /\ n \in Nat
        /\ t \in reg[p].charged /\ CallOK(reg[p], "charge")
        /\ reg'[p].found = reg[p].found /\ reg'[p].remaining = 0
        /\ \/ /\ t \in Known /\ tenants' = [tenants EXCEPT ![t] = s]
              /\ s.inflight = tenants[t].inflight + n
           \/ tenants' = tenants
    BY <1>6, LeftoverStep
  <2>2. peak' = peak
    BY <1>6 DEF Leftover, historyVars
  <2>3. FoundIn(reg[p], t)
    BY <2>1 DEF CallOK
  <2>4. n = reg[p].remaining
    OBVIOUS
  <2> HIDE DEF n, s, t
  <2>5. CASE u = t /\ tenants' # tenants
    <3>1. /\ u \in Known /\ tenants'[u] = s /\ s.inflight = tenants[u].inflight + n
      BY <2>1, <2>5, <1>0 DEF TypeOK
    <3>2. FoundIn(reg[p], u) /\ FoundIn(reg'[p], u)
      BY <2>1, <2>3, <2>5 DEF FoundIn
    <3>3. ReserveOf(reg[p], u) = n /\ ReserveOf(reg'[p], u) = 0
      BY <3>2, <2>1, <2>4 DEF ReserveOf
    <3>4. r2 = r - ReserveOf(reg[p], u) + ReserveOf(reg'[p], u)
      BY <2>1, <1>0, ReserveMoves
    <3>5. r2 = r - n
      BY <3>3, <3>4, <2>1, <2>2, <1>0
    <3>6. tenants'[u].inflight + r2 <= tenants[u].inflight + r
      BY <3>1, <3>5, <2>1, <1>0, <1>00
    <3>7. QED
      BY <3>1, <3>6, <2>2, <1>0, CappedKept
  <2>6. CASE u # t \/ tenants' = tenants
    <3>1. u \in Known /\ tenants'[u] = tenants[u]
      BY <2>1, <2>6, <1>0 DEF Known, TypeOK
    <3>2. ReserveOf(reg'[p], u) <= ReserveOf(reg[p], u)
      BY <2>1, <2>4 DEF ReserveOf, FoundIn
    <3>3. QED
      BY <3>1, <3>2, <2>1, <2>2, <1>a, <1>b, <1>0, <1>00
  <2>7. QED
    BY <2>5, <2>6
<1>7. ASSUME NEW p \in Callers, Advance(p) PROVE Goal
  <2>1. /\ reg' = [reg EXCEPT ![p] = reg'[p]] /\ reg'[p].found = {} /\ tenants' = tenants /\ peak' = peak
    BY <1>7, <1>0 DEF Advance, Locals, TypeOK, NoRegisters
  <2>2. ReserveOf(reg'[p], u) <= ReserveOf(reg[p], u)
    <3>1. ReserveOf(reg[p], u) \in Nat
      BY <2>1, <1>0, ReserveMoves
    <3>2. QED
      BY <3>1, <2>1 DEF ReserveOf, FoundIn
  <2>3. u \in Known
    BY <2>1 DEF Known
  <2>4. QED
    BY <2>1, <2>2, <2>3, <1>a, <1>b, <1>0, <1>00
<1>8. ASSUME NEW t \in Tenants, NEW n \in ReturnSizes, Release(t, n) PROVE Goal
  <2> DEFINE s == Subtract(tenants[t], n)
  <2>1. /\ n \in Nat
        /\ \/ /\ t \in Known /\ tenants' = [tenants EXCEPT ![t] = s] /\ s \in TenantState
              /\ s.inflight = tenants[t].inflight - Smaller(n, tenants[t].inflight)
           \/ tenants' = tenants
    BY <1>8, ReleaseStep
  <2>2. reg' = reg /\ peak' = peak
    BY <1>8 DEF Release, procVars
  <2> HIDE DEF s
  <2>3. /\ u \in Known
        /\ \/ tenants'[u].inflight = tenants[u].inflight - Smaller(n, tenants[u].inflight)
           \/ tenants'[u] = tenants[u]
    BY <2>1, <1>0 DEF Known, TypeOK
  <2>4. tenants'[u].inflight \in Nat /\ tenants'[u].inflight <= tenants[u].inflight
    BY <2>1, <2>3, <1>00 DEF Smaller
  <2>5. QED
    BY <2>2, <2>3, <2>4, <1>a, <1>0
<1>9. ASSUME NEW t \in Tenants, Administer(t) PROVE Goal
  <2>1. PICK s \in TenantState \cup {None} :
              /\ tenants' = [tenants EXCEPT ![t] = s]
              /\ \/ /\ t \in Known /\ s.inflight = tenants[t].inflight
                    /\ Unbar(t) \/ reg' = reg
                 \/ /\ Unbar(t) /\ \E pol \in Policies : s = Fresh(pol)
                 \/ /\ s = None /\ (Unbar(t) \/ reg' = reg)
    BY <1>9, <1>0, AdminStep
  <2>2. peak' = peak /\ pc' = pc
    BY <1>9, <1>0, AdminStep
  <2>3. \A q \in Callers : reg'[q].found = reg[q].found /\ reg'[q].remaining = reg[q].remaining
    <3>1. CASE reg' = reg
      BY <3>1
    <3>2. CASE Unbar(t)
      BY <3>2, <2>2, <1>0, BarredOnly DEF CallInv
    <3>3. QED
      BY <2>1, <3>1, <3>2
  <2>4. r2 = r
    BY <2>3 DEF Reserve, ReserveOf, FoundIn
  <2>5. tenants'[t] = s
    BY <2>1, <1>0 DEF TypeOK
  <2>6. CASE u # t
    <3>1. u \in Known /\ tenants'[u] = tenants[u]
      BY <2>1, <2>6, <1>0 DEF Known, TypeOK
    <3>2. QED
      BY <3>1, <2>2, <2>4, <1>a, <1>0, <1>00
  <2>7. CASE u = t /\ t \in Known /\ s.inflight = tenants[t].inflight
    BY <2>7, <2>2, <2>4, <2>5, <1>a, <1>0, <1>00
  <2>8. CASE u = t /\ \E pol \in Policies : s = Fresh(pol)
    <3>1. PICK pol \in Policies : s = Fresh(pol)
      BY <2>8
    <3>2. s.inflight = 0
      BY <3>1, FreshEntry
    <3>3. 0 <= Largest(Caps) - 1
      BY Bounds
    <3>4. QED
      BY <3>2, <3>3, <2>5, <2>8, CappedAnew
  <2>9. CASE u = t /\ s = None
    BY <2>9, <2>5 DEF Known
  <2>10. QED
    BY <2>1, <2>6, <2>7, <2>8, <2>9
<1>10. QED
  BY <1>1, <1>2, <1>3, <1>4, <1>5, <1>6, <1>7, <1>8, <1>9 DEF Next, Schedule

\* max_inflight is tested before a share is added, and each call that runs at
\* the same time tests it on its own: a tenant has at most one request in flight
\* beyond the largest cap for each call that ever ran at once.
THEOREM OvershootBounded == Spec => []InflightOvershoot
<1>1. Init => Capped
  <2> SUFFICES ASSUME Init, NEW t \in Tenants
               PROVE  tenants[t].inflight + Sum(Reserve(reg, t), Callers)
                        <= Largest(Caps) - 1 + peak * Largest(SlotRequests)
    BY DEF Capped, Known
  <2>1. tenants[t].inflight = 0
    <3>1. PICK plan \in [Tenants -> Policies] : tenants = [u \in Tenants |-> Fresh(plan[u])]
      BY DEF Init
    <3>2. PICK pol \in Policies : tenants[t] = Fresh(pol)
      BY <3>1
    <3>3. QED
      BY <3>2, FreshEntry
  <2>2. \A p \in Callers : Reserve(reg, t)[p] = 0
    BY DEF Init, Reserve, ReserveOf, FoundIn, NoRegisters
  <2>3. Sum(Reserve(reg, t), Callers) = 0
    BY <2>2, SumZero, SchedulerAssumption
  <2>4. peak * Largest(SlotRequests) = 0 /\ Largest(Caps) >= 1 /\ Largest(Caps) \in Nat
    BY Bounds DEF Init
  <2>5. QED
    BY <2>1, <2>3, <2>4
<1>2. CallInv /\ Capped => InflightOvershoot
  <2> SUFFICES ASSUME CallInv, Capped, NEW t \in Known
               PROVE  tenants[t].inflight <= Largest(Caps) - 1 + peak * Largest(SlotRequests)
    BY DEF InflightOvershoot, Caps
  <2>1. reg \in [Callers -> Registers] /\ t \in Tenants /\ tenants[t].inflight \in Nat /\ peak \in Nat
    <3>1. Cardinality(Callers) \in Nat
      BY FS_CardinalityType, SchedulerAssumption
    <3>2. QED
      BY <3>1, Entry DEF CallInv, TypeOK
  <2>2. Sum(Reserve(reg, t), Callers) \in Nat /\ peak * Largest(SlotRequests) \in Nat /\ Largest(Caps) \in Nat
    BY <2>1, ReserveType, ProductNat, Bounds
  <2>3. QED
    BY <2>1, <2>2 DEF Capped
<1>3. QED
  BY <1>1, <1>2, CappedStep, CallsHold, PTL DEF Spec

(***************************************************************************)
(* How far a bucket can go into debt                                       *)
(***************************************************************************)
\* A candidate's claim, as long as it is not charged.
LEMMA ClaimOf ==
  ASSUME NEW g, NEW c \in g.found, \A d, e \in g.found : d.t = e.t => d = e
  PROVE  Claim(g, c.t) = IF c.t \notin g.charged THEN Whole(c.tokens) ELSE 0
<1>1. (CHOOSE d \in g.found : d.t = c.t) = c
  <2> DEFINE x == CHOOSE d \in g.found : d.t = c.t
  <2>1. x \in g.found /\ x.t = c.t
    OBVIOUS
  <2> HIDE DEF x
  <2>2. x = c
    BY <2>1
  <2>3. QED
    BY <2>2 DEF x
<1>2. FoundIn(g, c.t)
  BY DEF FoundIn
<1>3. QED
  BY <1>1, <1>2 DEF Claim

LEMMA NoClaim ==
  ASSUME NEW g, NEW t, ~FoundIn(g, t) PROVE Claim(g, t) = 0
  BY DEF Claim

\* What is true of a call's claims at any time.
LEMMA ClaimBound ==
  ASSUME NEW g \in Registers, NEW l, CallOK(g, l), NEW t \in Tenants
  PROVE  /\ Claim(g, t) \in Nat /\ Claim(g, t) <= Largest(Bursts)
         /\ l = "idle" => Claim(g, t) = 0
<1>0. Largest(Bursts) \in Nat
  BY Bounds
<1>1. CASE ~FoundIn(g, t)
  BY <1>0, <1>1, NoClaim
<1>2. CASE FoundIn(g, t)
  <2>1. PICK c \in g.found : c.t = t
    BY <1>2 DEF FoundIn
  <2>2. c.tokens \in Int /\ c.tokens <= Largest(Bursts) /\ \A d, e \in g.found : d.t = e.t => d = e
    BY <2>1 DEF Registers, Candidate, CallOK
  <2>3. Claim(g, c.t) = IF c.t \notin g.charged THEN Whole(c.tokens) ELSE 0
    BY <2>2, ClaimOf
  <2>4. Whole(c.tokens) \in Nat /\ Whole(c.tokens) <= Largest(Bursts)
    BY <2>2, <1>0 DEF Whole
  <2>5. l # "idle"
    BY <2>1 DEF CallOK
  <2>6. QED
    BY <2>1, <2>3, <2>4, <2>5, <1>0
<1>3. QED
  BY <1>1, <1>2

LEMMA ClaimsType ==
  ASSUME NEW R \in [Callers -> Registers], NEW L, \A p \in Callers : CallOK(R[p], L[p]), NEW t \in Tenants
  PROVE  Claims(R, t) \in [Callers -> Nat] /\ Sum(Claims(R, t), Callers) \in Nat
<1>1. \A p \in Callers : Claim(R[p], t) \in Nat
  BY ClaimBound
<1>2. Claims(R, t) \in [Callers -> Nat]
  BY <1>1 DEF Claims
<1>3. \A p \in Callers : Claims(R, t)[p] \in Nat
  BY <1>2
<1>4. QED
  BY <1>2, <1>3, SumNat, SchedulerAssumption

LEMMA ClaimsBounded ==
  ASSUME NEW R \in [Callers -> Registers], NEW L, \A p \in Callers : CallOK(R[p], L[p]),
         NEW A \in SUBSET Callers, NEW k \in Nat, Cardinality(A) <= k, NEW t \in Tenants,
         \A p \in Callers \ A : Claim(R[p], t) = 0
  PROVE  Sum(Claims(R, t), Callers) <= k * Largest(Bursts)
<1> DEFINE b == Largest(Bursts)
           F == Claims(R, t)
<1>0. b \in Nat /\ IsFiniteSet(Callers)
  BY Bounds, SchedulerAssumption
<1>1. F \in [Callers -> Nat] /\ Sum(F, Callers) \in Nat
  BY ClaimsType
<1>2. ASSUME NEW p \in Callers PROVE F[p] <= b /\ (p \notin A => F[p] = 0)
  BY ClaimBound DEF Claims
<1>3. \A p \in Callers : F[p] \in Nat /\ F[p] <= b /\ (p \notin A => F[p] = 0)
  BY <1>1, <1>2
<1> HIDE DEF F, b
<1>4. Sum(F, Callers) <= Cardinality(A) * b
  BY <1>0, <1>3, SumAtMost
<1>5. IsFiniteSet(A) /\ Cardinality(A) \in Nat
  BY <1>0, FS_Subset, FS_CardinalityType
<1>6. Cardinality(A) * b <= k * b
  BY <1>0, <1>5, ProductMonotone
<1>7. k * b \in Nat /\ Cardinality(A) * b \in Nat
  BY <1>0, <1>5, ProductNat
<1>8. QED
  BY <1>1, <1>4, <1>6, <1>7 DEF F, b

LEMMA PeakClaims ==
  ASSUME CallInv, CallInv', NEW t \in Tenants
  PROVE  /\ Sum(Claims(reg', t), Callers) <= peak' * Largest(Bursts)
         /\ Sum(Claims(reg, t), Callers) \in Nat /\ Sum(Claims(reg', t), Callers) \in Nat
         /\ peak * Largest(Bursts) \in Nat /\ peak' * Largest(Bursts) \in Nat
         /\ peak \in Nat /\ peak' \in Nat
<1>1. reg \in [Callers -> Registers] /\ reg' \in [Callers -> Registers] /\ peak \in Nat /\ peak' \in Nat
  <2>1. Cardinality(Callers) \in Nat
    BY FS_CardinalityType, SchedulerAssumption
  <2>2. QED
    BY <2>1 DEF CallInv, TypeOK
<1>2. (\A p \in Callers : CallOK(reg[p], pc[p])) /\ (\A p \in Callers : CallOK(reg'[p], pc'[p]))
  BY DEF CallInv, Calls
<1> DEFINE A == {p \in Callers : pc'[p] # "idle"}
<1>3. Cardinality(A) <= peak' /\ A \in SUBSET Callers
  BY DEF CallInv, Peak, Busy
<1>4. \A p \in Callers \ A : Claim(reg'[p], t) = 0
  BY <1>1, <1>2, ClaimBound
<1> HIDE DEF A
<1>5. Sum(Claims(reg', t), Callers) <= peak' * Largest(Bursts)
  BY <1>1, <1>2, <1>3, <1>4, ClaimsBounded
<1>6. Sum(Claims(reg, t), Callers) \in Nat /\ Sum(Claims(reg', t), Callers) \in Nat
  BY <1>1, <1>2, ClaimsType
<1>7. QED
  BY <1>1, <1>5, <1>6, ProductNat, Bounds

LEMMA ClaimsMove ==
  ASSUME CallInv, CallInv', NEW p \in Callers, NEW t \in Tenants,
         reg' = [reg EXCEPT ![p] = reg'[p]]
  PROVE  /\ Sum(Claims(reg', t), Callers)
              = Sum(Claims(reg, t), Callers) - Claim(reg[p], t) + Claim(reg'[p], t)
         /\ Sum(Claims(reg, t), Callers) \in Nat /\ Sum(Claims(reg', t), Callers) \in Nat
         /\ Claim(reg[p], t) \in Nat /\ Claim(reg'[p], t) \in Nat
<1> DEFINE F == Claims(reg, t)
           G == Claims(reg', t)
<1>0. reg \in [Callers -> Registers] /\ reg' \in [Callers -> Registers]
  BY DEF CallInv, TypeOK
<1>00. (\A q \in Callers : CallOK(reg[q], pc[q])) /\ (\A q \in Callers : CallOK(reg'[q], pc'[q]))
  BY DEF CallInv, Calls
<1>1. F \in [Callers -> Nat] /\ G \in [Callers -> Nat]
  BY <1>0, <1>00, ClaimsType
<1>2. F[p] = Claim(reg[p], t) /\ G[p] = Claim(reg'[p], t)
  BY DEF Claims
<1>3. \A q \in Callers : q # p => G[q] = F[q]
  BY <1>0 DEF Claims
<1> HIDE DEF F, G
<1>4. /\ Sum(G, Callers) = Sum(F, Callers) - F[p] + G[p]
      /\ Sum(F, Callers) \in Nat /\ Sum(G, Callers) \in Nat
  BY <1>1, <1>3, CallersSum
<1>5. QED
  BY <1>1, <1>2, <1>4 DEF F, G

\* t's tokens, less what calls may still take of them, do not fall.
LEMMA DebtKept ==
  ASSUME CallInv, CallInv', Indebted, peak <= peak', NEW t \in Known,
         NEW a \in Int, NEW b \in Int, a = tenants[t].tokens, b = tenants'[t].tokens,
         b - Sum(Claims(reg', t), Callers) >= a - Sum(Claims(reg, t), Callers)
  PROVE  tenants'[t].tokens - Sum(Claims(reg', t), Callers) >= Least(Bursts) - peak' * Largest(Bursts)
<1>1. t \in Tenants
  BY DEF Known
<1>2. /\ Sum(Claims(reg, t), Callers) \in Nat /\ Sum(Claims(reg', t), Callers) \in Nat
      /\ peak * Largest(Bursts) \in Nat /\ peak' * Largest(Bursts) \in Nat
      /\ peak \in Nat /\ peak' \in Nat
  BY <1>1, PeakClaims
<1>3. peak * Largest(Bursts) <= peak' * Largest(Bursts)
  BY <1>2, ProductMonotone, Bounds
<1>4. tenants[t].tokens - Sum(Claims(reg, t), Callers) >= Least(Bursts) - peak * Largest(Bursts)
  BY DEF Indebted
<1>5. Least(Bursts) \in Nat
  BY Bounds
<1>6. QED
  BY <1>2, <1>3, <1>4, <1>5

\* A call under way had no claim on t and now claims all of t's tokens: the
\* other calls, one fewer than peak, claim a burst each at most.
LEMMA DebtClaimed ==
  ASSUME CallInv, CallInv', NEW p \in Callers, pc[p] # "idle", NEW t \in Tenants, peak' = peak,
         reg' = [reg EXCEPT ![p] = reg'[p]], Claim(reg[p], t) = 0,
         NEW b \in Nat, b = Claim(reg'[p], t)
  PROVE  b - Sum(Claims(reg', t), Callers) >= Least(Bursts) - peak' * Largest(Bursts)
<1> DEFINE A == Busy \ {p}
           L == Largest(Bursts)
           m == Sum(Claims(reg, t), Callers)
           m2 == Sum(Claims(reg', t), Callers)
<1>1. m2 = m - Claim(reg[p], t) + Claim(reg'[p], t) /\ m \in Nat /\ m2 \in Nat
  BY ClaimsMove
<1>2. L \in Nat /\ Least(Bursts) \in Nat /\ Least(Bursts) <= L
  BY Bounds
<1>3. peak \in Nat /\ peak * L \in Nat
  BY PeakClaims
<1>4. p \in Busy /\ IsFiniteSet(Busy) /\ Cardinality(Busy) \in Nat
  BY BusyFinite DEF Busy
<1>5. Cardinality(A) = Cardinality(Busy) - 1 /\ IsFiniteSet(A)
  BY <1>4, FS_RemoveElement
<1>6. Cardinality(A) \in Nat
  BY <1>5, FS_CardinalityType
<1>7. Cardinality(Busy) <= peak
  BY DEF CallInv, Peak
<1>8. PICK k \in Nat : peak = k + 1
  <2>1. peak - 1 \in Nat /\ peak = (peak - 1) + 1
    BY <1>3, <1>4, <1>5, <1>6, <1>7
  <2>2. QED
    BY <2>1
<1>9. Cardinality(A) <= k
  BY <1>3, <1>4, <1>5, <1>7, <1>8
<1>10. reg \in [Callers -> Registers] /\ \A q \in Callers : CallOK(reg[q], pc[q])
  BY DEF CallInv, TypeOK, Calls
<1>11. A \in SUBSET Callers /\ \A q \in Callers \ A : Claim(reg[q], t) = 0
  BY <1>10, ClaimBound DEF Busy
<1> HIDE DEF A, m, m2, L
<1>12. m <= k * L
  BY <1>9, <1>10, <1>11, ClaimsBounded DEF m, L
<1>13. peak * L = k * L + L /\ k * L \in Nat
  <2>1. (k + 1) * L = k * L + L
    BY <1>2, ProductNext
  <2>2. QED
    BY <2>1, <1>2, <1>8, ProductNat
<1>14. b - m2 >= Least(Bursts) - peak * L
  BY <1>1, <1>2, <1>3, <1>12, <1>13
<1>15. QED
  BY <1>14 DEF m2, L

LEMMA DebtStep == CallInv /\ CallInv' /\ Indebted /\ [Next]_vars => Indebted'
<1> SUFFICES ASSUME CallInv, CallInv', Indebted, [Next]_vars, NEW u \in Tenants, u \in Known'
             PROVE  tenants'[u].tokens - Sum(Claims(reg', u), Callers)
                      >= Least(Bursts) - peak' * Largest(Bursts)
  BY DEF Indebted, Known
<1> DEFINE Goal == tenants'[u].tokens - Sum(Claims(reg', u), Callers)
                     >= Least(Bursts) - peak' * Largest(Bursts)
           m == Sum(Claims(reg, u), Callers)
           m2 == Sum(Claims(reg', u), Callers)
<1>0. /\ TypeOK /\ TypeOK' /\ reg' \in [Callers -> Registers] /\ reg \in [Callers -> Registers]
      /\ peak \in Nat /\ m \in Nat /\ m2 \in Nat
  BY PeakClaims DEF CallInv, TypeOK
<1>00. (u \in Known => tenants[u].tokens \in Int) /\ tenants'[u].tokens \in Int
  BY <1>0, Entry DEF Known, TypeOK, TenantState
\* The tokens stay as they are, and the claims on them do not grow.
<1>a. ASSUME u \in Known, peak <= peak', m2 <= m, tenants'[u].tokens = tenants[u].tokens
      PROVE  Goal
  <2>1. tenants'[u].tokens - m2 >= tenants[u].tokens - m
    BY <1>a, <1>0, <1>00
  <2>2. QED
    BY <2>1, <1>a, <1>00, DebtKept
\* Call p's claim on u is not larger than it was.
<1>b. ASSUME NEW p \in Callers, reg' = [reg EXCEPT ![p] = reg'[p]],
             Claim(reg'[p], u) <= Claim(reg[p], u)
      PROVE  m2 <= m
  <2>1. /\ m2 = m - Claim(reg[p], u) + Claim(reg'[p], u)
        /\ Claim(reg[p], u) \in Nat /\ Claim(reg'[p], u) \in Nat
    BY <1>b, ClaimsMove
  <2>2. QED
    BY <2>1, <1>b, <1>0
<1>1. CASE UNCHANGED vars
  BY <1>1, <1>a, <1>0 DEF vars, procVars, historyVars, Known
<1>2. ASSUME NEW p \in Callers, NEW n \in SlotRequests, ScheduleBegin(p, n) PROVE Goal
  <2>1. reg' = [reg EXCEPT ![p] = reg'[p]] /\ reg[p].found = {} /\ reg'[p].found = {}
    BY <1>2, BeginStep
  <2>2. tenants' = tenants /\ u \in Known
    BY <1>2 DEF ScheduleBegin, Known
  <2>3. peak <= peak'
    <3>1. Cardinality(Busy \cup {p}) \in Nat
      BY BusyFinite, FS_AddElement, FS_CardinalityType
    <3>2. QED
      BY <3>1, <1>2, <1>0 DEF ScheduleBegin, Later
  <2>4. Claim(reg'[p], u) <= Claim(reg[p], u)
    BY <2>1 DEF Claim, FoundIn
  <2>5. QED
    BY <2>1, <2>2, <2>3, <2>4, <1>a, <1>b
<1>3. ASSUME NEW p \in Callers, Weigh(p) PROVE Goal
  <2>1. reg' = [reg EXCEPT ![p] = reg'[p]] /\ reg[p].found = {} /\ reg'[p].found = {}
    BY <1>3, WeighStep
  <2>2. tenants' = tenants /\ u \in Known /\ peak' = peak
    BY <1>3 DEF Weigh, Known, historyVars
  <2>3. Claim(reg'[p], u) <= Claim(reg[p], u)
    BY <2>1 DEF Claim, FoundIn
  <2>4. QED
    BY <2>1, <2>2, <2>3, <1>a, <1>b, <1>0
<1>4. ASSUME NEW p \in Callers, NEW n \in 0 .. MaxRefill, Collect(p, n) PROVE Goal
  <2> DEFINE t == Visited(p)
             s == Refilled(tenants[t], n)
             c == CandidateOf(t, s)
  <2>1. /\ reg' = [reg EXCEPT ![p] = reg'[p]] /\ t \in Tenants /\ t \in reg[p].todo
        /\ pc[p] = "collect" /\ CallOK(reg[p], "collect")
        /\ reg'[p].charged = reg[p].charged
        /\ \/ /\ t \in Known /\ reg'[p].found = reg[p].found \cup {c}
              /\ c \in Candidate /\ c.t = t /\ c.tokens = s.tokens
              /\ tenants' = [tenants EXCEPT ![t] = s] /\ s \in TenantState
              /\ s.tokens >= tenants[t].tokens \/ s.tokens >= 0
           \/ reg'[p].found = reg[p].found /\ tenants' = tenants
    BY <1>4, CollectStep
  <2>2. peak' = peak
    BY <1>4 DEF Collect, historyVars
  <2> HIDE DEF t, s, c
  <2>3. ~FoundIn(reg[p], t) /\ reg[p].charged = {}
    BY <2>1 DEF CallOK, FoundIn
  <2>4. \A d, e \in reg'[p].found : d.t = e.t => d = e
    BY DEF CallInv, Calls, CallOK
  <2>5. CASE reg'[p].found = reg[p].found /\ tenants' = tenants
    <3>1. u \in Known /\ Claim(reg'[p], u) = Claim(reg[p], u)
      BY <2>5, <2>1 DEF Known, Claim, FoundIn
    <3>2. Claim(reg[p], u) \in Nat
      BY <2>1, ClaimsMove
    <3>3. QED
      BY <3>1, <3>2, <2>1, <2>2, <2>5, <1>a, <1>b, <1>0
  <2>6. CASE /\ t \in Known /\ reg'[p].found = reg[p].found \cup {c} /\ c.t = t
             /\ c.tokens = s.tokens /\ tenants' = [tenants EXCEPT ![t] = s] /\ s \in TenantState
             /\ s.tokens >= tenants[t].tokens \/ s.tokens >= 0
    <3>1. CASE u # t
      <4>1. u \in Known /\ tenants'[u] = tenants[u]
        BY <2>6, <3>1, <1>0 DEF Known, TypeOK
      <4>2. Claim(reg'[p], u) = Claim(reg[p], u)
        <5>1. {d \in reg'[p].found : d.t = u} = {d \in reg[p].found : d.t = u}
          BY <2>6, <3>1
        <5>2. CASE FoundIn(reg[p], u)
          <6>1. PICK d \in reg[p].found : d.t = u
            BY <5>2 DEF FoundIn
          <6>2. d \in reg'[p].found
            BY <6>1, <5>1
          <6>3. \A x, y \in reg[p].found : x.t = y.t => x = y
            BY <2>1 DEF CallOK
          <6>4. Claim(reg[p], d.t) = IF d.t \notin reg[p].charged THEN Whole(d.tokens) ELSE 0
            BY <6>1, <6>3, ClaimOf
          <6>5. Claim(reg'[p], d.t) = IF d.t \notin reg'[p].charged THEN Whole(d.tokens) ELSE 0
            BY <6>2, <2>4, ClaimOf
          <6>6. QED
            BY <6>1, <6>4, <6>5, <2>1
        <5>3. CASE ~FoundIn(reg[p], u)
          <6>1. ~FoundIn(reg'[p], u)
            BY <5>1, <5>3 DEF FoundIn
          <6>2. QED
            BY <5>3, <6>1, NoClaim
        <5>4. QED
          BY <5>2, <5>3
      <4>3. Claim(reg[p], u) \in Nat
        BY <2>1, ClaimsMove
      <4>4. QED
        BY <4>1, <4>2, <4>3, <2>1, <2>2, <1>a, <1>b, <1>0
    <3>2. CASE u = t
      <4>1. tenants'[u] = s /\ s.tokens \in Int /\ u \in Known
        BY <2>6, <3>2, <1>0 DEF TypeOK, TenantState
      <4>2. Claim(reg[p], u) = 0
        BY <2>3, <3>2, NoClaim
      <4>3. Claim(reg'[p], u) = Whole(s.tokens)
        <5>1. c \in reg'[p].found
          BY <2>6
        <5>2. Claim(reg'[p], c.t) = IF c.t \notin reg'[p].charged THEN Whole(c.tokens) ELSE 0
          BY <5>1, <2>4, ClaimOf
        <5>3. QED
          BY <5>2, <2>1, <2>3, <2>6, <3>2
      <4>4. CASE s.tokens >= 0
        <5>1. s.tokens \in Nat /\ s.tokens = Claim(reg'[p], u)
          BY <4>1, <4>3, <4>4 DEF Whole
        <5>2. s.tokens - m2 >= Least(Bursts) - peak' * Largest(Bursts)
          BY <5>1, <4>2, <2>1, <2>2, DebtClaimed
        <5>3. QED
          BY <5>2, <4>1
      <4>5. CASE s.tokens < 0
        <5>1. Claim(reg'[p], u) = 0 /\ s.tokens >= tenants[u].tokens
          BY <4>1, <4>3, <4>5, <2>6, <3>2 DEF Whole
        <5>2. m2 <= m
          BY <5>1, <4>2, <2>1, <1>b
        <5>3. tenants'[u].tokens - m2 >= tenants[u].tokens - m
          BY <5>1, <5>2, <4>1, <1>0, <1>00
        <5>4. peak <= peak' /\ tenants[u].tokens \in Int /\ tenants'[u].tokens \in Int
          BY <4>1, <2>2, <1>0, <1>00
        <5>5. QED
          BY <5>3, <5>4, <4>1, DebtKept
      <4>6. QED
        BY <4>1, <4>4, <4>5
    <3>3. QED
      BY <3>1, <3>2
  <2>7. QED
    BY <2>1, <2>5, <2>6
<1>5. ASSUME NEW p \in Callers, Charge(p) PROVE Goal
  <2> DEFINE c == Foremost(p)
             n == Slots(p, c)
             s == Charged(tenants[c.t], p, c, n)
  <2>1. /\ reg' = [reg EXCEPT ![p] = reg'[p]] /\ c.t \in Tenants /\ c \in reg[p].found
        /\ c \in Candidate /\ c.t \notin reg[p].charged /\ CallOK(reg[p], "charge")
        /\ n \in Nat /\ n <= Whole(c.tokens)
        /\ reg'[p].found = reg[p].found /\ reg'[p].charged = reg[p].charged \cup {c.t}
        /\ \/ /\ c.t \in Known /\ tenants' = [tenants EXCEPT ![c.t] = s]
              /\ s.tokens = tenants[c.t].tokens - n
           \/ tenants' = tenants
    BY <1>5, ChargeStep
  <2>2. peak' = peak
    BY <1>5 DEF Charge, historyVars
  <2> HIDE DEF c, n, s
  <2>3. \A d, e \in reg[p].found : d.t = e.t => d = e
    BY <2>1 DEF CallOK
  <2>4. Claim(reg[p], c.t) = Whole(c.tokens) /\ Claim(reg'[p], c.t) = 0
    <3>1. Claim(reg[p], c.t) = IF c.t \notin reg[p].charged THEN Whole(c.tokens) ELSE 0
      BY <2>1, <2>3, ClaimOf
    <3>2. QED
      BY <3>1, <2>1 DEF Claim
  <2>5. CASE u = c.t /\ tenants' # tenants
    <3>1. u \in Known /\ tenants'[u].tokens = tenants[u].tokens - n
      BY <2>1, <2>5, <1>0 DEF TypeOK
    <3>2. m2 = m - Claim(reg[p], u) + Claim(reg'[p], u) /\ Claim(reg[p], u) \in Nat
      BY <2>1, ClaimsMove
    <3>3. m2 <= m - n
      BY <3>2, <2>1, <2>4, <2>5, <1>0
    <3>4. tenants'[u].tokens - m2 >= tenants[u].tokens - m
      BY <3>1, <3>3, <2>1, <1>0, <1>00
    <3>5. QED
      BY <3>1, <3>4, <2>2, <1>0, <1>00, DebtKept
  <2>6. CASE u # c.t \/ tenants' = tenants
    <3>1. u \in Known /\ tenants'[u] = tenants[u]
      BY <2>1, <2>6, <1>0 DEF Known, TypeOK
    <3>2. Claim(reg[p], u) \in Nat
      BY <2>1, ClaimsMove
    <3>3. Claim(reg'[p], u) = IF u = c.t THEN 0 ELSE Claim(reg[p], u)
      BY <2>1 DEF Claim, FoundIn
    <3>4. Claim(reg'[p], u) <= Claim(reg[p], u)
      BY <3>2, <3>3
    <3>5. QED
      BY <3>1, <3>4, <2>1, <2>2, <1>a, <1>b, <1>0
  <2>7. QED
    BY <2>5, <2>6
<1>6. ASSUME NEW p \in Callers, Leftover(p) PROVE Goal
  <2> DEFINE t == reg[p].first
             n == reg[p].remaining
             s == LeftoverCounted(tenants[t], n)
  <2>1. /\ reg' = [reg EXCEPT ![p] = reg'[p]] /\ t \in Tenants
        /\ reg'[p].found = reg[p].found /\ reg'[p].charged = reg[p].charged
        /\ \/ /\ t \in Known /\ tenants' = [tenants EXCEPT ![t] = s]
              /\ s.tokens = tenants[t].tokens
           \/ tenants' = tenants
    BY <1>6, LeftoverStep
  <2>2. peak' = peak
    BY <1>6 DEF Leftover, historyVars
  <2> HIDE DEF n, s, t
  <2>3. u \in Known /\ tenants'[u].tokens = tenants[u].tokens
    BY <2>1, <1>0 DEF Known, TypeOK
  <2>4. Claim(reg'[p], u) = Claim(reg[p], u)
    BY <2>1 DEF Claim, FoundIn
  <2>5. Claim(reg[p], u) \in Nat
    BY <2>1, ClaimsMove
  <2>6. QED
    BY <2>1, <2>2, <2>3, <2>4, <2>5, <1>a, <1>b, <1>0
<1>7. ASSUME NEW p \in Callers, Advance(p) PROVE Goal
  <2>1. /\ reg' = [reg EXCEPT ![p] = reg'[p]] /\ reg'[p].found = {} /\ tenants' = tenants /\ peak' = peak
    BY <1>7, <1>0 DEF Advance, Locals, TypeOK, NoRegisters
  <2>2. Claim(reg[p], u) \in Nat
    BY <2>1, ClaimsMove
  <2>3. Claim(reg'[p], u) <= Claim(reg[p], u)
    BY <2>1, <2>2 DEF Claim, FoundIn
  <2>4. u \in Known
    BY <2>1 DEF Known
  <2>5. QED
    BY <2>1, <2>3, <2>4, <1>a, <1>b, <1>0
<1>8. ASSUME NEW t \in Tenants, NEW n \in ReturnSizes, Release(t, n) PROVE Goal
  <2> DEFINE s == Subtract(tenants[t], n)
  <2>1. \/ /\ t \in Known /\ tenants' = [tenants EXCEPT ![t] = s] /\ s.tokens = tenants[t].tokens
        \/ tenants' = tenants
    BY <1>8, ReleaseStep
  <2>2. reg' = reg /\ peak' = peak
    BY <1>8 DEF Release, procVars
  <2> HIDE DEF s
  <2>3. u \in Known /\ tenants'[u].tokens = tenants[u].tokens
    BY <2>1, <1>0 DEF Known, TypeOK
  <2>4. QED
    BY <2>2, <2>3, <1>a, <1>0
<1>9. ASSUME NEW t \in Tenants, Administer(t) PROVE Goal
  <2>1. PICK s \in TenantState \cup {None} :
              /\ tenants' = [tenants EXCEPT ![t] = s]
              /\ \/ /\ t \in Known /\ s.tokens = tenants[t].tokens
                    /\ Unbar(t) \/ reg' = reg
                 \/ /\ Unbar(t) /\ \E pol \in Policies : s = Fresh(pol)
                 \/ /\ s = None /\ (Unbar(t) \/ reg' = reg)
    BY <1>9, <1>0, AdminStep
  <2>2. peak' = peak /\ pc' = pc
    BY <1>9, <1>0, AdminStep
  <2>3. \A q \in Callers : reg'[q].found = reg[q].found /\ reg'[q].charged = reg[q].charged
    <3>1. CASE reg' = reg
      BY <3>1
    <3>2. CASE Unbar(t)
      BY <3>2, <2>2, <1>0, BarredOnly DEF CallInv
    <3>3. QED
      BY <2>1, <3>1, <3>2
  <2>4. m2 = m
    <3>1. ASSUME NEW q \in Callers PROVE Claim(reg'[q], u) = Claim(reg[q], u)
      BY <2>3 DEF Claim, FoundIn
    <3>2. Claims(reg', u) = Claims(reg, u)
      BY <3>1 DEF Claims
    <3>3. QED
      BY <3>2
  <2>5. tenants'[t] = s
    BY <2>1, <1>0 DEF TypeOK
  <2>6. CASE u # t
    <3>1. u \in Known /\ tenants'[u] = tenants[u]
      BY <2>1, <2>6, <1>0 DEF Known, TypeOK
    <3>2. QED
      BY <3>1, <2>2, <2>4, <1>a, <1>0
  <2>7. CASE u = t /\ t \in Known /\ s.tokens = tenants[t].tokens
    BY <2>7, <2>2, <2>4, <2>5, <1>a, <1>0
  <2>8. CASE u = t /\ \E pol \in Policies : s = Fresh(pol)
    <3>1. PICK pol \in Policies : s = Fresh(pol)
      BY <2>8
    <3>2. s.tokens = pol.burst
      BY <3>1, FreshEntry
    <3>3. s.tokens \in Nat /\ s.tokens >= Least(Bursts) /\ Least(Bursts) \in Nat
      BY <3>2, Bounds
    <3>4. m2 <= peak' * Largest(Bursts) /\ peak' * Largest(Bursts) \in Nat
      BY PeakClaims
    <3>5. QED
      BY <3>3, <3>4, <2>5, <2>8, <1>0
  <2>9. CASE u = t /\ s = None
    BY <2>9, <2>5 DEF Known
  <2>10. QED
    BY <2>1, <2>6, <2>7, <2>8, <2>9
<1>10. QED
  BY <1>1, <1>2, <1>3, <1>4, <1>5, <1>6, <1>7, <1>8, <1>9 DEF Next, Schedule

\* Tokens are read in one step and taken in another: calls that overlap can take
\* the same tokens, and a bucket goes no further into debt than one burst for
\* each call that ever ran at once.
THEOREM DebtBounded == Spec => []TokenDebtBounded
<1>1. Init => Indebted
  <2> SUFFICES ASSUME Init, NEW t \in Tenants
               PROVE  tenants[t].tokens - Sum(Claims(reg, t), Callers)
                        >= Least(Bursts) - peak * Largest(Bursts)
    BY DEF Indebted, Known
  <2>1. PICK plan \in [Tenants -> Policies] : tenants = [u \in Tenants |-> Fresh(plan[u])]
    BY DEF Init
  <2>2. PICK pol \in Policies : tenants[t] = Fresh(pol)
    BY <2>1
  <2>3. tenants[t].tokens = pol.burst /\ pol.burst \in Nat /\ pol.burst >= Least(Bursts)
        /\ Least(Bursts) \in Nat
    BY <2>2, FreshEntry, Bounds
  <2>4. \A p \in Callers : Claims(reg, t)[p] = 0
    BY DEF Init, Claims, Claim, FoundIn, NoRegisters
  <2>5. Sum(Claims(reg, t), Callers) = 0
    BY <2>4, SumZero, SchedulerAssumption
  <2>6. peak * Largest(Bursts) = 0
    BY Bounds DEF Init
  <2>7. QED
    BY <2>3, <2>5, <2>6
<1>2. CallInv /\ Indebted => TokenDebtBounded
  <2> SUFFICES ASSUME CallInv, Indebted, NEW t \in Known
               PROVE  tenants[t].tokens >= Least(Bursts) - peak * Largest(Bursts)
    BY DEF TokenDebtBounded, Bursts
  <2>1. /\ reg \in [Callers -> Registers] /\ t \in Tenants /\ tenants[t].tokens \in Int
        /\ peak \in Nat /\ \A p \in Callers : CallOK(reg[p], pc[p])
    <3>1. Cardinality(Callers) \in Nat
      BY FS_CardinalityType, SchedulerAssumption
    <3>2. QED
      BY <3>1, Entry DEF CallInv, TypeOK, Calls
  <2>2. /\ Sum(Claims(reg, t), Callers) \in Nat /\ peak * Largest(Bursts) \in Nat
        /\ Least(Bursts) \in Nat
    BY <2>1, ClaimsType, ProductNat, Bounds
  <2>3. QED
    BY <2>1, <2>2 DEF Indebted
<1>3. QED
  BY <1>1, <1>2, DebtStep, CallsHold, PTL DEF Spec

(***************************************************************************)
(* Shares in proportion to the weights                                     *)
(***************************************************************************)
RawOf(g) == [c \in g.found |-> Raw(g, c)]
Waiting(g) == {c \in g.found : c.t \notin g.charged}

LEMMA RawType ==
  ASSUME NEW g \in Registers, g.weight > 0, IsFiniteSet(g.found)
  PROVE  /\ \A c \in g.found : Raw(g, c) \in Nat /\ Entitled(g, c) \in Nat /\ RawOf(g)[c] = Raw(g, c)
         /\ IsFiniteSet(Waiting(g)) /\ Waiting(g) \subseteq g.found
         /\ \A c \in Waiting(g) : RawOf(g)[c] \in Nat
<1>1. g.total \in Nat /\ g.weight \in Nat \ {0} /\ g.found \subseteq Candidate
  BY DEF Registers
<1>2. ASSUME NEW c \in g.found PROVE Raw(g, c) \in Nat /\ Entitled(g, c) \in Nat
  <2>1. c.weight \in Nat /\ c.tokens \in Int
    BY <1>1 DEF Candidate
  <2>2. c \in Candidate
    BY <1>1
  <2>3. Raw(g, c) \in Nat
    BY <2>2, RawOfShare
  <2>4. QED
    BY <2>1, <2>3 DEF Entitled, Smaller, Whole
<1>3. Waiting(g) \subseteq g.found
  BY DEF Waiting
<1>4. IsFiniteSet(Waiting(g))
  BY <1>3, FS_Subset
<1>5. QED
  BY <1>2, <1>3, <1>4 DEF RawOf

\* Before the first candidate is charged, all of the request is left, and the
\* shares of the candidates fit into it.
LEMMA ShareBegin ==
  ASSUME NEW g \in Registers, CallOK(g, "charge"), g.charged = {}
  PROVE  ShareOK(g)
<1>1. /\ g.weight \in Nat \ {0} /\ g.total \in Nat /\ g.found \subseteq Candidate
      /\ IsFiniteSet(g.found) /\ g.remaining \in Nat /\ g.alloc \in [Tenants -> Nat]
  BY DEF Registers, CallOK
<1>2. g.remaining = g.total
  <2>1. \A t \in Tenants : g.alloc[t] = 0
    BY DEF CallOK
  <2>2. Sum(g.alloc, Tenants) = 0
    BY <2>1, SumZero, SchedulerAssumption
  <2>3. QED
    BY <2>2, <1>1 DEF CallOK
<1> SUFFICES ASSUME g.weight = TotalWeight(g.found) PROVE Sum(RawOf(g), g.found) <= g.remaining
  <2>1. Waiting(g) = g.found
    BY DEF Waiting
  <2>2. QED
    BY <2>1 DEF ShareOK, RawOf, Waiting
<1> DEFINE w == [c \in g.found |-> c.weight]
           f == RawOf(g)
           e == [c \in g.found |-> Floor(g, c)]
<1>3. g.weight = Sum(w, g.found)
  BY DEF TotalWeight
<1>4. \A c \in g.found : w[c] \in Nat /\ e[c] = (g.total * w[c]) \div g.weight
  BY <1>1 DEF Candidate, Floor
<1>a. \A c \in g.found : f[c] \in Nat /\ e[c] \in Nat /\ f[c] <= e[c]
  <2>1. ASSUME NEW c \in g.found
        PROVE  Raw(g, c) \in Nat /\ Floor(g, c) \in Nat /\ Raw(g, c) <= Floor(g, c)
    <3>1. c \in Candidate /\ g.weight > 0
      BY <1>1
    <3>2. QED
      BY <3>1, RawOfShare
  <2>2. QED
    BY <2>1 DEF RawOf
<1> HIDE DEF w, f, e
<1>5. Sum(f, g.found) <= g.total
  <2>0. IsFiniteSet(g.found) /\ g.total \in Nat /\ g.weight \in Nat \ {0}
    BY <1>1
  <2>1. Sum(e, g.found) <= g.total
    BY <2>0, <1>3, <1>4, SharesFit, SMTT(60)
  <2>2. Sum(f, g.found) <= Sum(e, g.found)
    BY <1>1, <1>a, SumMonotone
  <2>3. Sum(f, g.found) \in Nat /\ Sum(e, g.found) \in Nat
    BY <1>1, <1>a, SumNat
  <2>4. QED
    BY <2>1, <2>2, <2>3, <1>1
<1>6. QED
  BY <1>2, <1>5 DEF f

\* Candidate c is charged n slots: no more than its share were there to give.
LEMMA ShareCharged ==
  ASSUME NEW g \in Registers, NEW h \in Registers, CallOK(g, "charge"), ShareOK(g),
         NEW c \in g.found, c.t \in Tenants, c.t \notin g.charged,
         NEW n \in Nat, n <= g.remaining, n <= Raw(g, c), n <= Whole(c.tokens),
         n \in {Raw(g, c), Whole(c.tokens), g.remaining},
         h.total = g.total, h.found = g.found, h.weight = g.weight,
         h.charged = g.charged \cup {c.t}, h.alloc = [g.alloc EXCEPT ![c.t] = n],
         h.first \in {g.first, c.t}, h.first = g.first \/ g.first = None,
         h.remaining = g.remaining - n
  PROVE  ShareOK(h)
<1> SUFFICES ASSUME h.weight = TotalWeight(h.found) PROVE ShareOK(h)
  BY DEF ShareOK
<1>0. /\ g.remaining \in Nat /\ IsFiniteSet(g.found) /\ g.weight > 0 /\ g.alloc \in [Tenants -> Nat]
      /\ \A d, e \in g.found : d.t = e.t => d = e
      /\ g.found \subseteq Candidate
  BY DEF Registers, CallOK
<1>1. /\ \A d \in g.found : Raw(g, d) \in Nat /\ Entitled(g, d) \in Nat /\ RawOf(g)[d] = Raw(g, d)
      /\ IsFiniteSet(Waiting(g)) /\ \A d \in Waiting(g) : RawOf(g)[d] \in Nat
  BY <1>0, RawType
<1>2. /\ Sum(RawOf(g), Waiting(g)) <= g.remaining
      /\ \A d \in g.found : d.t \in g.charged =>
           IF d.t = g.first THEN g.alloc[d.t] >= Entitled(g, d) ELSE g.alloc[d.t] = Entitled(g, d)
  BY DEF ShareOK, RawOf, Waiting
<1>3. RawOf(h) = RawOf(g) /\ \A d \in g.found : Raw(h, d) = Raw(g, d) /\ Entitled(h, d) = Entitled(g, d)
  BY DEF RawOf, Raw, Floor, Entitled
<1>4. Waiting(h) = Waiting(g) \ {c} /\ c \in Waiting(g)
  BY <1>0 DEF Waiting
<1> DEFINE f == RawOf(g)
           S == Waiting(g)
<1>5. \A d \in S : f[d] \in Int /\ f[d] \in Nat
  BY <1>1
<1>6. f[c] = Raw(g, c) /\ IsFiniteSet(S) /\ c \in S /\ IsFiniteSet(S \ {c})
  BY <1>1, <1>4, FS_RemoveElement
<1> HIDE DEF f, S
<1>7. Sum(f, S) = f[c] + Sum(f, S \ {c})
  BY <1>5, <1>6, SumRemove
<1>8. Sum(f, S \ {c}) \in Nat
  <2>1. \A d \in S \ {c} : f[d] \in Nat
    BY <1>5
  <2>2. QED
    BY <2>1, <1>6, SumNat
<1>9. Raw(g, c) \in Nat /\ Whole(c.tokens) \in Nat
  BY <1>0, <1>1 DEF Candidate, Whole
<1>10. Raw(g, c) + Sum(f, S \ {c}) <= g.remaining
  BY <1>2, <1>6, <1>7 DEF f, S
<1>11. n = Entitled(g, c)
  BY <1>0, <1>8, <1>9, <1>10 DEF Entitled, Smaller
<1>12. Sum(RawOf(h), Waiting(h)) <= h.remaining
  <2>1. Sum(f, S \ {c}) <= g.remaining - n
    BY <1>0, <1>8, <1>9, <1>10
  <2>2. QED
    BY <2>1, <1>3, <1>4 DEF f, S
<1>13. ASSUME NEW d \in h.found, d.t \in h.charged
       PROVE  IF d.t = h.first THEN h.alloc[d.t] >= Entitled(h, d) ELSE h.alloc[d.t] = Entitled(h, d)
  <2>1. CASE d = c
    <3>1. h.alloc[d.t] = Entitled(h, d) /\ Entitled(h, d) \in Nat
      BY <2>1, <1>0, <1>1, <1>3, <1>11
    <3>2. QED
      BY <3>1
  <2>2. CASE d # c
    <3>1. d \in g.found /\ d.t # c.t /\ d.t \in g.charged /\ d.t \in Tenants
      BY <2>2, <1>0, <1>13 DEF Candidate
    <3>2. h.alloc[d.t] = g.alloc[d.t] /\ g.alloc[d.t] \in Nat
      BY <3>1, <1>0
    <3>3. d.t = h.first <=> d.t = g.first
      <4>1. None \notin Tenants
        BY SchedulerAssumption
      <4>2. QED
        BY <4>1, <3>1
    <3>4. IF d.t = g.first THEN g.alloc[d.t] >= Entitled(g, d) ELSE g.alloc[d.t] = Entitled(g, d)
      BY <3>1, <1>2
    <3>5. Entitled(h, d) = Entitled(g, d)
      BY <3>1, <1>3
    <3>6. QED
      BY <3>2, <3>3, <3>4, <3>5
  <2>3. QED
    BY <2>1, <2>2
<1>14. QED
  BY <1>12, <1>13 DEF ShareOK, RawOf, Waiting

\* What is left goes to the first allocation.
LEMMA ShareLeftover ==
  ASSUME NEW g \in Registers, NEW h \in Registers, CallOK(g, "charge"), ShareOK(g),
         Waiting(g) = {}, g.first \in Tenants,
         h.total = g.total, h.found = g.found, h.weight = g.weight,
         h.charged = g.charged, h.first = g.first, h.remaining = 0,
         h.alloc = [g.alloc EXCEPT ![g.first] = @ + g.remaining]
  PROVE  ShareOK(h)
<1> SUFFICES ASSUME h.weight = TotalWeight(h.found) PROVE ShareOK(h)
  BY DEF ShareOK
<1>0. /\ g.remaining \in Nat /\ g.alloc \in [Tenants -> Nat] /\ IsFiniteSet(g.found) /\ g.weight > 0
      /\ g.found \subseteq Candidate
  BY DEF Registers, CallOK
<1>1. \A d \in g.found : Entitled(g, d) \in Nat /\ Entitled(h, d) = Entitled(g, d)
  BY <1>0, RawType DEF Entitled, Raw, Floor
<1>2. Waiting(h) = {}
  BY DEF Waiting
<1>3. Sum(RawOf(h), Waiting(h)) <= h.remaining
  BY <1>2, SumEmpty
<1>4. ASSUME NEW d \in h.found, d.t \in h.charged
      PROVE  IF d.t = h.first THEN h.alloc[d.t] >= Entitled(h, d) ELSE h.alloc[d.t] = Entitled(h, d)
  <2>1. IF d.t = g.first THEN g.alloc[d.t] >= Entitled(g, d) ELSE g.alloc[d.t] = Entitled(g, d)
    BY <1>4 DEF ShareOK
  <2>2. d.t \in Tenants /\ g.alloc[d.t] \in Nat
    BY <1>0, <1>4 DEF Candidate
  <2>3. h.alloc[d.t] = IF d.t = g.first THEN g.alloc[d.t] + g.remaining ELSE g.alloc[d.t]
    BY <1>0, <2>2
  <2>4. Entitled(g, d) \in Nat /\ Entitled(h, d) = Entitled(g, d)
    BY <1>1, <1>4
  <2>5. QED
    BY <2>1, <2>2, <2>3, <2>4, <1>0
<1>5. QED
  BY <1>3, <1>4 DEF ShareOK, RawOf, Waiting

LEMMA ShareSame ==
  ASSUME NEW g, NEW h, ShareOK(g),
         h.total = g.total, h.found = g.found, h.weight = g.weight, h.charged = g.charged,
         h.first = g.first, h.remaining = g.remaining, h.alloc = g.alloc
  PROVE  ShareOK(h)
<1>1. [c \in h.found |-> Raw(h, c)] = [c \in g.found |-> Raw(g, c)]
      /\ \A c \in g.found : Entitled(h, c) = Entitled(g, c)
  BY DEF Raw, Floor, Entitled
<1>2. QED
  BY <1>1 DEF ShareOK

LEMMA SharedStep == CallInv /\ CallInv' /\ Shared /\ [Next]_vars => Shared'
<1> SUFFICES ASSUME CallInv, CallInv', Shared, [Next]_vars, NEW q \in Callers, pc'[q] = "charge"
             PROVE  ShareOK(reg'[q])
  BY DEF Shared
<1>0. /\ TypeOK /\ TypeOK' /\ reg' \in [Callers -> Registers] /\ reg \in [Callers -> Registers]
      /\ pc \in [Callers -> PCs] /\ pc' \in [Callers -> PCs]
  BY DEF CallInv, TypeOK
<1>00. pc[q] = "charge" => ShareOK(reg[q])
  BY DEF Shared
<1>000. reg'[q] \in Registers /\ CallOK(reg'[q], "charge")
  BY <1>0 DEF CallInv, Calls
\* A call that took no step.
<1>a. ASSUME pc'[q] = pc[q], reg'[q] = reg[q] PROVE ShareOK(reg'[q])
  BY <1>a, <1>00
\* Another call took a step.
<1>b. ASSUME NEW p \in Callers, p # q, reg' = [reg EXCEPT ![p] = reg'[p]],
             pc' = [pc EXCEPT ![p] = pc'[p]]
      PROVE  ShareOK(reg'[q])
  BY <1>a, <1>b, <1>0
<1>1. CASE UNCHANGED vars
  BY <1>1, <1>a DEF vars, procVars
<1>2. ASSUME NEW p \in Callers, NEW n \in SlotRequests, ScheduleBegin(p, n) PROVE ShareOK(reg'[q])
  <2>1. reg' = [reg EXCEPT ![p] = reg'[p]] /\ pc' = [pc EXCEPT ![p] = "weigh"]
    BY <1>2, BeginStep
  <2>2. p # q /\ pc' = [pc EXCEPT ![p] = pc'[p]]
    BY <2>1, <1>0
  <2>3. QED
    BY <2>1, <2>2, <1>b
<1>3. ASSUME NEW p \in Callers, Weigh(p) PROVE ShareOK(reg'[q])
  <2>1. reg' = [reg EXCEPT ![p] = reg'[p]] /\ pc[q] = "charge" /\ q # p
    BY <1>3, WeighStep
  <2>2. reg'[q] = reg[q]
    BY <2>1, <1>0
  <2>3. QED
    BY <2>1, <2>2, <1>00
<1>4. ASSUME NEW p \in Callers, NEW n \in 0 .. MaxRefill, Collect(p, n) PROVE ShareOK(reg'[q])
  <2> DEFINE l == IF reg[p].todo = {Visited(p)} THEN "charge" ELSE "collect"
  <2>1. /\ reg' = [reg EXCEPT ![p] = reg'[p]] /\ CallOK(reg[p], "collect")
        /\ reg'[p].charged = reg[p].charged /\ pc' = [pc EXCEPT ![p] = l]
    BY <1>4, CollectStep
  <2> HIDE DEF l
  <2>2. CASE p = q
    <3>1. reg'[q].charged = {}
      BY <2>1, <2>2 DEF CallOK
    <3>2. QED
      BY <3>1, <1>000, ShareBegin
  <2>3. CASE p # q
    <3>1. reg'[q] = reg[q] /\ pc'[q] = pc[q]
      BY <2>1, <2>3, <1>0
    <3>2. QED
      BY <3>1, <1>a
  <2>4. QED
    BY <2>2, <2>3
<1>5. ASSUME NEW p \in Callers, Charge(p) PROVE ShareOK(reg'[q])
  <2> DEFINE c == Foremost(p)
             n == Slots(p, c)
  <2>1. /\ pc[p] = "charge" /\ CallOK(reg[p], "charge")
        /\ c \in reg[p].found /\ c.t \in Tenants /\ c.t \notin reg[p].charged
        /\ n \in Nat /\ n <= reg[p].remaining /\ n <= RawSlots(p, c) /\ n <= Whole(c.tokens)
        /\ n \in {RawSlots(p, c), Whole(c.tokens), reg[p].remaining}
        /\ reg' = [reg EXCEPT ![p] = reg'[p]] /\ reg'[p] \in Registers
        /\ reg'[p].total = reg[p].total /\ reg'[p].found = reg[p].found
        /\ reg'[p].weight = reg[p].weight /\ reg'[p].charged = reg[p].charged \cup {c.t}
        /\ reg'[p].alloc = [reg[p].alloc EXCEPT ![c.t] = n]
        /\ reg'[p].first = (IF reg[p].first = None /\ n > 0 THEN c.t ELSE reg[p].first)
        /\ reg'[p].remaining = reg[p].remaining - n
    BY <1>5, ChargeStep
  <2>2. RawSlots(p, c) = Raw(reg[p], c)
    BY DEF RawSlots, Raw, Floor
  <2>3. pc' = pc
    BY <1>5 DEF Charge
  <2> HIDE DEF c, n
  <2>4. CASE p = q
    <3>1. ShareOK(reg[p]) /\ reg[p] \in Registers
      BY <2>1, <2>4, <1>0, <1>00
    <3>2. reg'[p].first \in {reg[p].first, c.t} /\ (reg'[p].first = reg[p].first \/ reg[p].first = None)
      BY <2>1
    <3>3. ShareOK(reg'[p])
      BY <3>1, <3>2, <2>1, <2>2, ShareCharged
    <3>4. QED
      BY <3>3, <2>4
  <2>5. CASE p # q
    BY <2>1, <2>3, <2>5, <1>0, <1>b
  <2>6. QED
    BY <2>4, <2>5
<1>6. ASSUME NEW p \in Callers, Leftover(p) PROVE ShareOK(reg'[q])
  <2>1. /\ pc[p] = "charge" /\ CallOK(reg[p], "charge")
        /\ reg[p].first \in Tenants /\ Uncharged(p) = {}
        /\ reg' = [reg EXCEPT ![p] = reg'[p]] /\ reg'[p] \in Registers
        /\ reg'[p].total = reg[p].total /\ reg'[p].found = reg[p].found
        /\ reg'[p].weight = reg[p].weight /\ reg'[p].charged = reg[p].charged
        /\ reg'[p].alloc = [reg[p].alloc EXCEPT ![reg[p].first] = @ + reg[p].remaining]
        /\ reg'[p].first = reg[p].first /\ reg'[p].remaining = 0
    BY <1>6, LeftoverStep
  <2>2. pc' = pc
    BY <1>6 DEF Leftover
  <2>3. CASE p = q
    <3>1. ShareOK(reg[p]) /\ reg[p] \in Registers /\ Waiting(reg[p]) = {}
      BY <2>1, <2>3, <1>0, <1>00 DEF Waiting, Uncharged
    <3>2. ShareOK(reg'[p])
      BY <3>1, <2>1, ShareLeftover
    <3>3. QED
      BY <3>2, <2>3
  <2>4. CASE p # q
    BY <2>1, <2>2, <2>4, <1>0, <1>b
  <2>5. QED
    BY <2>3, <2>4
<1>7. ASSUME NEW p \in Callers, Advance(p) PROVE ShareOK(reg'[q])
  <2>1. p # q /\ reg'[q] = reg[q] /\ pc'[q] = pc[q]
    BY <1>7, <1>0 DEF Advance, Locals, Goto
  <2>2. QED
    BY <2>1, <1>a
<1>8. ASSUME NEW t \in Tenants, NEW n \in ReturnSizes, Release(t, n) PROVE ShareOK(reg'[q])
  BY <1>8, <1>a DEF Release, procVars
<1>9. ASSUME NEW t \in Tenants, Administer(t) PROVE ShareOK(reg'[q])
  <2>1. pc' = pc /\ (Unbar(t) \/ reg' = reg)
    BY <1>9, <1>0, AdminStep
  <2>2. CASE reg' = reg
    BY <2>1, <2>2, <1>a
  <2>3. CASE Unbar(t)
    <3>1. /\ reg'[q].found = reg[q].found /\ reg'[q].alloc = reg[q].alloc
          /\ reg'[q].remaining = reg[q].remaining /\ reg'[q].charged = reg[q].charged
          /\ reg'[q].weight = reg[q].weight /\ reg'[q].total = reg[q].total
          /\ reg'[q].first = reg[q].first
      BY <2>1, <2>3, <1>0, BarredOnly DEF CallInv
    <3>2. ShareOK(reg[q])
      BY <2>1, <1>00
    <3>3. QED
      BY <3>1, <3>2, ShareSame
  <2>4. QED
    BY <2>1, <2>2, <2>3
<1>10. QED
  BY <1>1, <1>2, <1>3, <1>4, <1>5, <1>6, <1>7, <1>8, <1>9 DEF Next, Schedule

\* What a call answers with.
LEMMA ShareEnd ==
  ASSUME CallInv, Shared, NEW p \in Callers, Advance(p)
  PROVE  /\ Sum(reg[p].alloc, Tenants) \in {0, reg[p].total}
         /\ reg[p].weight = TotalWeight(reg[p].found) =>
              \A c \in reg[p].found :
                \E n \in Owed(p, c) : IF c.t = reg[p].first THEN reg[p].alloc[c.t] >= n
                                      ELSE reg[p].alloc[c.t] = n
<1> DEFINE g == reg[p]
<1>1. /\ pc[p] = "charge" /\ ~Charging(p) /\ (g.remaining = 0 \/ g.first = None)
  BY DEF Advance
<1>2. g \in Registers /\ CallOK(g, "charge") /\ ShareOK(g)
  BY <1>1 DEF CallInv, TypeOK, Calls, Shared
<1>3. /\ g.remaining \in Nat /\ g.total \in Nat /\ g.alloc \in [Tenants -> Nat] /\ IsFiniteSet(g.found)
      /\ g.weight > 0 /\ g.found \subseteq Candidate
      /\ Sum(g.alloc, Tenants) + g.remaining = g.total
  BY <1>2 DEF Registers, CallOK
<1>4. g.remaining = 0 \/ Waiting(g) = {}
  BY <1>1, <1>3 DEF Charging, Uncharged, Waiting
<1>5. ASSUME g.weight = TotalWeight(g.found), NEW c \in g.found PROVE Entitled(g, c) \in Owed(p, c)
  <2>1. c \in Candidate
    BY <1>3
  <2>2. \/ Raw(g, c) = Floor(g, c)
        \/ /\ Raw(g, c) = Floor(g, c) - 1 /\ Floor(g, c) > 0
           /\ g.total * c.weight = Floor(g, c) * g.weight
    BY <2>1, <1>2, <1>3, RawOfShare
  <2>3. Share(p, c) = Floor(g, c)
    BY <1>5 DEF Share, Floor
  <2>4. QED
    BY <2>2, <2>3, <1>5 DEF Owed, Entitled
<1> HIDE DEF g
<1>6. Sum(g.alloc, Tenants) \in {0, g.total}
  <2>1. CASE g.remaining = 0
    <3>1. \A t \in Tenants : g.alloc[t] \in Nat
      BY <1>3
    <3>2. Sum(g.alloc, Tenants) \in Nat
      BY <3>1, SumNat, SchedulerAssumption
    <3>3. QED
      BY <3>2, <2>1, <1>3
  <2>2. CASE g.first = None
    <3>1. \A t \in Tenants : g.alloc[t] = 0
      BY <2>2, <1>2 DEF CallOK
    <3>2. QED
      BY <3>1, SumZero, SchedulerAssumption
  <2>3. QED
    BY <1>1, <2>1, <2>2 DEF g
<1>7. ASSUME g.weight = TotalWeight(g.found), NEW c \in g.found
      PROVE  \E n \in Owed(p, c) : IF c.t = g.first THEN g.alloc[c.t] >= n ELSE g.alloc[c.t] = n
  <2>1. Entitled(g, c) \in Owed(p, c)
    BY <1>5, <1>7 DEF g
  <2>2. CASE c.t \in g.charged
    <3>1. IF c.t = g.first THEN g.alloc[c.t] >= Entitled(g, c) ELSE g.alloc[c.t] = Entitled(g, c)
      BY <2>2, <1>2, <1>7 DEF ShareOK
    <3>2. QED
      BY <3>1, <2>1
  <2>3. CASE c.t \notin g.charged
    <3>1. c \in Waiting(g) /\ g.remaining = 0
      BY <2>3, <1>4 DEF Waiting
    <3>2. /\ Sum(RawOf(g), Waiting(g)) <= 0
          /\ IsFiniteSet(Waiting(g)) /\ \A d \in Waiting(g) : RawOf(g)[d] \in Nat
          /\ RawOf(g)[c] = Raw(g, c) /\ Raw(g, c) \in Nat
      BY <3>1, <1>2, <1>3, <1>7, RawType DEF ShareOK, RawOf, Waiting
    <3>3. RawOf(g)[c] <= Sum(RawOf(g), Waiting(g)) /\ Sum(RawOf(g), Waiting(g)) \in Nat
      BY <3>1, <3>2, SumNat
    <3>4. Raw(g, c) = 0
      BY <3>2, <3>3
    <3>5. c.tokens \in Int /\ c.t \in Tenants
      BY <1>3 DEF Candidate
    <3>6. Entitled(g, c) = 0
      BY <3>4, <3>5 DEF Entitled, Smaller, Whole
    <3>7. g.alloc[c.t] = 0
      BY <3>5, <2>3, <1>2 DEF CallOK
    <3>8. QED
      BY <3>6, <3>7, <2>1
  <2>4. QED
    BY <2>2, <2>3
<1>8. QED
  BY <1>6, <1>7 DEF g

\* A call whose two passes over the map agreed gives every candidate its
\* weighted share (less one slot at most, where the floating-point product falls
\* below a share that is a whole number), as far as its tokens go, whatever other calls and operations
\* fall between its steps; a call hands out all it was asked for, or nothing.
THEOREM SharesProportional == Spec => ProportionalShare
<1>1. Init => Shared
  BY DEF Init, Shared
<1>2. CallInv /\ Shared =>
        \A p \in Callers : Advance(p) =>
          /\ Sum(reg[p].alloc, Tenants) \in {0, reg[p].total}
          /\ reg[p].weight = TotalWeight(reg[p].found) =>
               \A c \in reg[p].found :
                 \E n \in Owed(p, c) : IF c.t = reg[p].first THEN reg[p].alloc[c.t] >= n
                                       ELSE reg[p].alloc[c.t] = n
  BY ShareEnd
<1>3. QED
  BY <1>1, <1>2, SharedStep, CallsHold, PTL DEF Spec, ProportionalShare
=============================================================================
