-------------------------- MODULE FairWorkersProofs --------------------------
(***************************************************************************)
(* Proofs about FairWorkers, for any number of workers, tenants, queues    *)
(* and tasks.                                                              *)
(*                                                                         *)
(* A task is counted by the keys it is stored under, the deliveries of it  *)
(* that workers hold, and the acks of it; doubled and expired are what     *)
(* keeps these counts in balance (Balanced).  That the counts are right    *)
(* rests on the locks of dequeue and ack (QueueHeld, AckHeld), on sequence *)
(* numbers being drawn once (Drawn) and on a key never being pending and   *)
(* in flight at the same time (Apart).                                     *)
(***************************************************************************)
EXTENDS FairWorkers, SumsProofs

(***************************************************************************)
(* The invariants                                                          *)
(***************************************************************************)
Of(D, i) == {d \in D : d[1] = i}
LateKeys(F) == Keys({r \in F : r.late})

\* The deliveries of task i in workers' hands, each with its worker.
InHand(R, i) == {x \in Workers \X Deliveries : x[2] \in R[x[1]].todo /\ x[2][1] = i}

\* The workers that are about to count an ack of task i.
Count(p, R, i) == {w \in Workers : p[w] = "ack_count" /\ R[w].cur[1] = i}

\* What a worker has at hand where.
Controls ==
  \A w \in Workers :
    /\ pc[w] \in {"tick", "filter", "dequeue"} => reg[w].todo = {}
    /\ pc[w] \in {"ack", "ack_write", "nack", "nack_write"} => reg[w].cur \in reg[w].todo
    /\ pc[w] = "ack_count" => reg[w].cur \in Deliveries \ reg[w].todo

KeysFinite ==
  /\ IsFiniteSet(Keys(pending)) /\ IsFiniteSet(Keys(inflight)) /\ IsFiniteSet(Keys(reaping))
  /\ \A i \in Ids : IsFiniteSet(InHand(reg, i))

TypeInv == TypeOK /\ Controls /\ KeysFinite

\* A key is pending or in flight, and what the reaper has read is not pending.
Apart ==
  Keys(pending) \cap Keys(inflight) = {} /\ Keys(pending) \cap Keys(reaping) = {}

Drawing(w) == pc[w] = "nack_write" /\ reg[w].fresh > 0
FreshKey(w) == <<reg[w].cur[1], reg[w].fresh>>

\* Keys in use were drawn from the counter; one that a nack has drawn and not yet
\* written is its own.
Drawn ==
  /\ \A d \in Keys(pending) \cup Keys(inflight) \cup Keys(reaping) : d[2] < seq[TenantOf[d[1]]]
  /\ \A w \in Workers : Drawing(w) =>
       /\ reg[w].fresh < seq[TenantOf[reg[w].cur[1]]]
       /\ FreshKey(w) \notin Keys(pending) \cup Keys(inflight) \cup Keys(reaping)
       /\ \A x \in Workers \ {w} : Drawing(x) => FreshKey(x) # FreshKey(w)

\* What a dequeue has read under the queue lock stays there until it writes, and
\* nobody else has read it.
QueueHeld ==
  \A w \in Workers : pc[w] = "dequeue" =>
    /\ Keys(reg[w].found) \subseteq Keys(pending)
    /\ \A x \in Workers \ {w} : pc[x] = "dequeue" =>
         Keys(reg[x].found) \cap Keys(reg[w].found) = {}

KeyInv == Apart /\ Drawn /\ QueueHeld

\* Where a task is stored.
Places == Keys(pending) \cup Keys(inflight) \cup Keys(dlq)
Has(S, i) == \E d \in S : d[1] = i

\* A task whose ack holds the lock is stored, and no other ack of it is as far.
AckHeld ==
  \A w \in Workers : pc[w] = "ack_write" =>
    /\ Has(Places, reg[w].cur[1])
    /\ \A x \in Workers \ {w} : pc[x] = "ack_write" => reg[x].cur[1] # reg[w].cur[1]

Accounted ==
  \A i \in sent : Has(Places, i) \/ Count(pc, reg, i) # {} \/ acked[i] > 0

\* The task's places and acks, and its deliveries and overdue records, with what
\* pays for each.
Balanced ==
  \A i \in Ids :
    /\ Cardinality(Of(Keys(pending) \cup Keys(inflight), i))
          + Cardinality(Count(pc, reg, i)) + acked[i]
         <= doubled[i] + IF i \in sent THEN 1 ELSE 0
    /\ doubled[i] + Cardinality(InHand(reg, i))
          + Cardinality(Of(LateKeys(inflight) \cup Keys(reaping), i))
         <= expired[i] + Cardinality(Of(Keys(inflight), i))

\* What is in flight is in some worker's hands.
Owned ==
  \A d \in Keys(inflight) : \E w \in Workers : d \in reg[w].todo

PoolInv == TypeInv /\ KeyInv /\ AckHeld /\ Accounted /\ Balanced /\ Owned

(***************************************************************************)
(* Constants and shares                                                    *)
(***************************************************************************)
LEMMA TenantsFinite ==
  IsFiniteSet(Tenants) /\ \A i \in Ids : TenantOf[i] \in Tenants
<1> DEFINE f == [i \in Ids |-> TenantOf[i]]
<1>1. f \in Surjection(Ids, Tenants)
  BY DEF Surjection, Tenants
<1>2. IsFiniteSet(Tenants)
  BY <1>1, WorkerAssumption, FS_Surjection
<1>3. QED
  BY <1>2 DEF Tenants

LEMMA SlotsType == WorkerSlots \in Nat
<1>1. Cardinality(Workers) \in Nat
  BY WorkerAssumption, FS_CardinalityType
<1>2. Cardinality(Workers) # 0
  BY WorkerAssumption, FS_EmptySet
<1>3. TotalSlots \div Cardinality(Workers) \in Nat
  BY <1>1, <1>2, WorkerAssumption, Quotient
<1>4. QED
  BY <1>3 DEF WorkerSlots, Larger

\* What guaranteed tenants leave of a worker's slots.
LEMMA BudgetType ==
  ASSUME NEW G, IsFiniteSet(G)
  PROVE  /\ NormalBudget(G) \in Nat /\ MinGuarantee * Cardinality(G) \in Nat
         /\ MinGuarantee * Cardinality(G) + NormalBudget(G)
              = Larger(WorkerSlots, MinGuarantee * Cardinality(G))
<1>1. Cardinality(G) \in Nat /\ MinGuarantee \in Nat
  BY WorkerAssumption, FS_CardinalityType
<1> DEFINE m == MinGuarantee * Cardinality(G)
<1>2. m \in Nat
  BY <1>1, ProductNat
<1>3. m = MinGuarantee * Cardinality(G)
  OBVIOUS
<1> HIDE DEF m
<1>4. WorkerSlots - Smaller(m, WorkerSlots) \in Nat
      /\ m + (WorkerSlots - Smaller(m, WorkerSlots)) = Larger(WorkerSlots, m)
  BY <1>2, SlotsType DEF Smaller, Larger
<1>5. QED
  BY <1>2, <1>3, <1>4 DEF NormalBudget

\* The tenant at the top gets what rounding leaves of B.
LEMMA TopUp ==
  ASSUME NEW N, IsFiniteSet(N), NEW B \in Nat, NEW share, \A t \in N : share[t] \in Nat,
         Sum(share, N) <= B, NEW top \in N, NEW S,
         \A t \in N : S[t] = IF t = top THEN share[t] + B - Sum(share, N) ELSE share[t]
  PROVE  (\A t \in N : S[t] \in Nat) /\ Sum(S, N) = B
<1>1. Sum(share, N) \in Nat
  BY SumNat
<1>2. \A t \in N : S[t] \in Nat
  BY <1>1
<1>3. \A t \in N : share[t] \in Int /\ S[t] \in Int /\ (t # top => S[t] = share[t])
  BY <1>2
<1>4. Sum(S, N) = Sum(share, N) - share[top] + S[top]
  BY <1>3, SumChange
<1>5. QED
  BY <1>1, <1>2, <1>4

\* The shares of a budget are whole numbers that add up to it, or to nothing if
\* nobody has a score: the rounding never gives away more than there is.
LEMMA SharesSum ==
  ASSUME NEW N, IsFiniteSet(N), NEW B \in Nat, NEW score \in [N -> Nat],
         NEW top, N # {} => top \in N
  PROVE  /\ Shares(score, N, B, top) \in [N -> Nat]
         /\ Sum(Shares(score, N, B, top), N) = IF Sum(score, N) = 0 THEN 0 ELSE B
         /\ Sum(score, N) \in Nat /\ \A t \in N : score[t] <= Sum(score, N)
<1> DEFINE m == Sum(score, N)
           share == [t \in N |-> (B * score[t]) \div m]
           S == Shares(score, N, B, top)
<1>1. \A t \in N : score[t] \in Nat
  OBVIOUS
<1>2. m \in Nat /\ \A t \in N : score[t] <= m
  BY <1>1, SumNat
<1>3. CASE m = 0
  <2>1. S = [t \in N |-> 0]
    BY <1>3 DEF Shares
  <2> HIDE DEF S
  <2>2. \A t \in N : S[t] = 0
    BY <2>1
  <2>3. Sum(S, N) = 0
    BY <2>2, SumZero
  <2>4. S \in [N -> Nat]
    BY <2>1
  <2>5. QED
    BY <2>3, <2>4, <1>2, <1>3 DEF S
<1>4. CASE m # 0
  <2>1. N # {}
    BY <1>4, SumEmpty
  <2>2. S = [share EXCEPT ![top] = @ + B - Sum(share, N)]
    BY <1>4 DEF Shares
  <2> HIDE DEF m
  <2>3. \A t \in N : share[t] \in Nat
    <3>1. ASSUME NEW t \in N PROVE (B * score[t]) \div m \in Nat
      <4>1. B * score[t] \in Nat
        BY <1>1, ProductNat
      <4>2. QED
        BY <4>1, <1>2, <1>4, Quotient
    <3>2. QED
      BY <3>1
  <2>4. Sum(share, N) <= B
    <3>1. m \in Nat \ {0} /\ m = Sum(score, N)
      BY <1>2, <1>4 DEF m
    <3>2. \A t \in N : score[t] \in Nat /\ share[t] = (B * score[t]) \div m
      BY <1>1
    <3> HIDE DEF share
    <3>3. QED
      BY <3>1, <3>2, SharesFit
  <2>5. share \in [N -> Nat]
    BY <2>3
  <2> HIDE DEF share, S
  <2>6. top \in N
    BY <2>1
  <2>7. /\ S \in [N -> Int]
        /\ \A t \in N : S[t] = IF t = top THEN share[t] + B - Sum(share, N) ELSE share[t]
    <3>1. Sum(share, N) \in Nat
      BY <2>3, SumNat
    <3>2. PICK v \in Int : v = share[top] + B - Sum(share, N)
      BY <3>1, <2>3, <2>6
    <3>3. S = [share EXCEPT ![top] = v]
      BY <3>2, <2>2
    <3>4. \A t \in N : S[t] = IF t = top THEN v ELSE share[t]
      BY <3>3, <2>5, Zenon
    <3>5. share \in [N -> Int]
      BY <2>5
    <3>6. S \in [N -> Int]
      BY <3>2, <3>3, <3>5, Zenon
    <3>7. QED
      BY <3>2, <3>4, <3>6
  <2>8. (\A t \in N : S[t] \in Nat) /\ Sum(S, N) = B
    BY <2>3, <2>4, <2>6, <2>7, TopUp
  <2>9. S \in [N -> Nat] /\ Sum(S, N) = B
    BY <2>7, <2>8
  <2>10. QED
    BY <2>9, <1>2, <1>4 DEF m, S
<1>5. QED
  BY <1>3, <1>4

(***************************************************************************)
(* Types                                                                   *)
(***************************************************************************)
LEMMA RegFields ==
  ASSUME TypeOK, NEW w \in Workers
  PROVE  /\ reg[w] \in Registers /\ reg[w].guaranteed \subseteq Tenants
         /\ reg[w].rated \subseteq Tenants /\ reg[w].sched \in [Tenants -> Nat]
         /\ reg[w].visited \in [Tenants -> 0 .. NumQueues] /\ reg[w].found \subseteq Records
         /\ reg[w].todo \subseteq Deliveries /\ reg[w].cur \in Deliveries \cup {NoDelivery}
         /\ reg[w].attempts \in Nat /\ reg[w].fresh \in Nat
         /\ IsFiniteSet(reg[w].guaranteed) /\ IsFiniteSet(Normal(w)) /\ Normal(w) \subseteq Tenants
<1>1. /\ reg[w] \in Registers /\ reg[w].guaranteed \subseteq Tenants
      /\ reg[w].rated \subseteq Tenants /\ reg[w].sched \in [Tenants -> Nat]
      /\ reg[w].visited \in [Tenants -> 0 .. NumQueues] /\ reg[w].found \subseteq Records
      /\ reg[w].todo \subseteq Deliveries /\ reg[w].cur \in Deliveries \cup {NoDelivery}
      /\ reg[w].attempts \in Nat /\ reg[w].fresh \in Nat
  BY DEF TypeOK, Registers
<1>2. Normal(w) \subseteq Tenants
  BY DEF Normal
<1>3. IsFiniteSet(reg[w].guaranteed) /\ IsFiniteSet(Normal(w))
  BY <1>1, <1>2, TenantsFinite, FS_Subset
<1>4. QED
  BY <1>1, <1>2, <1>3

LEMMA NoRegistersOK ==
  /\ NoRegisters \in Registers /\ NoRegisters.todo = {}
  BY WorkerAssumption DEF NoRegisters, Registers

\* A worker's schedule, and what it adds up to.
LEMMA AllocateStep ==
  ASSUME TypeOK, NEW w \in Workers, Allocate(w)
  PROVE  LET G == reg[w].guaranteed
             N == Normal(w)
             most == Larger(WorkerSlots, MinGuarantee * Cardinality(G))
         IN  /\ reg' = [reg EXCEPT ![w] = reg'[w]] /\ reg'[w] \in Registers /\ reg'[w].todo = {}
             /\ Sum(reg'[w].sched, Tenants) <= most
             /\ reg[w].rated \cap N # {} => Sum(reg'[w].sched, Tenants) = most
<1> DEFINE G == reg[w].guaranteed
           N == Normal(w)
           B == NormalBudget(G)
           m == MinGuarantee * Cardinality(G)
           most == Larger(WorkerSlots, m)
<1>1. /\ G \subseteq Tenants /\ N \subseteq Tenants /\ IsFiniteSet(G) /\ IsFiniteSet(N)
      /\ G \cap N = {}
  BY RegFields DEF Normal
<1>2. B \in Nat /\ m \in Nat /\ m + B = most
  BY <1>1, BudgetType
<1>3. PICK score \in Scores(w), top \in IF N = {} THEN Tenants ELSE N :
        Locals(w, [NoRegisters EXCEPT
                     !.sched = [t \in Tenants |-> IF t \in G THEN GuaranteedSlots(G)
                                                  ELSE IF t \in N THEN Shares(score, N, B, top)[t]
                                                  ELSE 0]])
  BY DEF Allocate
<1> DEFINE S == Shares(score, N, B, top)
           f == [t \in Tenants |-> IF t \in G THEN MinGuarantee ELSE IF t \in N THEN S[t] ELSE 0]
           r == Sum(score, N)
<1>4. score \in [N -> Nat] /\ \A t \in N : score[t] > 0 <=> t \in reg[w].rated
  <2>1. score \in [N -> 0 .. MaxScore]
    BY DEF Scores
  <2>2. \A t \in N : score[t] \in Nat
    BY <2>1, WorkerAssumption
  <2>3. QED
    BY <2>1, <2>2 DEF Scores
<1>5. /\ S \in [N -> Nat] /\ Sum(S, N) = (IF r = 0 THEN 0 ELSE B)
      /\ r \in Nat /\ \A t \in N : score[t] <= r
  <2>1. N # {} => top \in N
    BY <1>3
  <2> HIDE DEF N, B
  <2>2. QED
    BY <2>1, <1>1, <1>2, <1>4, SharesSum
<1>6. reg' = [reg EXCEPT ![w] = [NoRegisters EXCEPT !.sched = f]]
  BY <1>3 DEF Locals, GuaranteedSlots
<1> HIDE DEF S, N, G, B, m, r
<1>7. f \in [Tenants -> Nat]
  BY <1>1, <1>5, WorkerAssumption
<1>8. /\ reg' = [reg EXCEPT ![w] = reg'[w]] /\ reg'[w] \in Registers /\ reg'[w].todo = {}
      /\ reg'[w].sched = f
  <2> DEFINE g == [NoRegisters EXCEPT !.sched = f]
  <2>1. g \in Registers /\ g.todo = {} /\ g.sched = f
    <3> HIDE DEF f
    <3>1. QED
      BY <1>7, WorkerAssumption DEF NoRegisters, Registers
  <2> HIDE DEF g
  <2>2. reg' = [reg EXCEPT ![w] = g]
    BY <1>6 DEF g
  <2>3. reg'[w] = g
    BY <2>2 DEF TypeOK
  <2>4. QED
    BY <2>1, <2>2, <2>3
<1>9. \A t \in Tenants : f[t] \in Int
  BY <1>7
<1>10. \A t \in G : f[t] = MinGuarantee
  BY <1>1
<1>11. \A t \in N : f[t] \in Int /\ S[t] = f[t]
  BY <1>1, <1>9
<1>12. \A t \in (Tenants \ G) \ N : f[t] = 0
  OBVIOUS
<1> HIDE DEF f
<1>13. Sum(f, G) = m
  BY <1>1, <1>10, WorkerAssumption, SumConstant DEF m
<1>14. Sum(f, N) = Sum(S, N)
  BY <1>1, <1>11, SumSame
<1>15. Sum(f, (Tenants \ G) \ N) = 0
  <2>1. IsFiniteSet((Tenants \ G) \ N)
    BY TenantsFinite, FS_Difference
  <2>2. QED
    BY <2>1, <1>12, SumZero
<1>16. Sum(f, Tenants) = Sum(f, G) + Sum(f, Tenants \ G)
  BY <1>1, <1>9, TenantsFinite, SumDisjoint
<1>17. Sum(f, Tenants \ G) = Sum(f, N) + Sum(f, (Tenants \ G) \ N)
  <2>1. IsFiniteSet(Tenants \ G) /\ N \in SUBSET (Tenants \ G)
    BY <1>1, TenantsFinite, FS_Difference
  <2>2. \A t \in Tenants \ G : f[t] \in Int
    BY <1>9
  <2> DEFINE A == Tenants \ G
  <2> HIDE DEF A
  <2>3. Sum(f, A) = Sum(f, N) + Sum(f, A \ N)
    BY <2>1, <2>2, SumDisjoint DEF A
  <2>4. QED
    BY <2>3 DEF A
<1>18. Sum(f, Tenants) = m + IF r = 0 THEN 0 ELSE B
  BY <1>2, <1>5, <1>13, <1>14, <1>15, <1>16, <1>17
<1>19. Sum(f, Tenants) <= most
  BY <1>2, <1>18
<1>20. ASSUME reg[w].rated \cap N # {} PROVE Sum(f, Tenants) = most
  <2>1. PICK t \in N : t \in reg[w].rated
    BY <1>20
  <2>2. score[t] > 0 /\ score[t] <= r /\ score[t] \in Nat
    BY <2>1, <1>4, <1>5
  <2>3. r # 0
    BY <2>2, <1>5
  <2>4. QED
    BY <2>3, <1>2, <1>18
<1>21. QED
  BY <1>8, <1>19, <1>20 DEF G, N, m

(***************************************************************************)
(* Keys                                                                    *)
(***************************************************************************)
LEMMA KeysDelete ==
  ASSUME NEW F, NEW K
  PROVE  /\ Keys(Delete(F, K)) = Keys(F) \ K
         /\ LateKeys(Delete(F, K)) = LateKeys(F) \ K
  BY DEF Keys, Delete, LateKeys

LEMMA KeysUnion ==
  ASSUME NEW F, NEW B
  PROVE  Keys(F \cup B) = Keys(F) \cup Keys(B)
  BY DEF Keys

LEMMA KeysSubset ==
  ASSUME NEW F, NEW B \in SUBSET F
  PROVE  Keys(B) \subseteq Keys(F)
  BY DEF Keys

LEMMA KeysPut ==
  ASSUME NEW F, NEW B
  PROVE  /\ Keys(Put(F, B)) = Keys(F) \cup Keys(B)
         /\ (\A r \in B : ~r.late) => LateKeys(Put(F, B)) \subseteq LateKeys(F)
<1>1. Keys(Put(F, B)) = (Keys(F) \ Keys(B)) \cup Keys(B)
  BY KeysDelete, KeysUnion DEF Put
<1>2. ASSUME \A r \in B : ~r.late PROVE LateKeys(Put(F, B)) \subseteq LateKeys(F)
  BY <1>2 DEF LateKeys, Put, Delete, Keys
<1>3. QED
  BY <1>1, <1>2

LEMMA KeysTyped ==
  ASSUME NEW F \in SUBSET Records
  PROVE  Keys(F) \subseteq Deliveries /\ LateKeys(F) \subseteq Keys(F)
  BY DEF Keys, LateKeys, Records, Deliveries

LEMMA KeysLeased ==
  ASSUME NEW B \in SUBSET Records
  PROVE  /\ Leased(B) \subseteq Records /\ Keys(Leased(B)) = Keys(B)
         /\ \A r \in Leased(B) : ~r.late
<1> DEFINE g(r) == [r EXCEPT !.attempts = @ + 1, !.late = FALSE]
<1>1. ASSUME NEW r \in Records
      PROVE  g(r) \in Records /\ g(r).id = r.id /\ g(r).key = r.key /\ ~g(r).late
  <2>1. PICK n \in Nat : n = r.attempts + 1
    BY DEF Records
  <2>2. g(r) = [r EXCEPT !.attempts = n, !.late = FALSE]
    BY <2>1
  <2> HIDE DEF g
  <2>3. g(r) \in Records /\ g(r).id = r.id /\ g(r).key = r.key /\ g(r).late = FALSE
    BY <2>2, Zenon DEF Records
  <2>4. QED
    BY <2>3
<1>2. Leased(B) = {g(r) : r \in B}
  BY DEF Leased
<1> HIDE DEF g
<1>3. QED
  BY <1>1, <1>2 DEF Keys

LEMMA KeyOf ==
  ASSUME NEW r
  PROVE  Keys({r}) = {<<r.id, r.key>>}
  BY DEF Keys

(***************************************************************************)
(* What each step does                                                     *)
(***************************************************************************)
\* The workers but w stay as they are.
Others(w) == \A v \in Workers : v # w => reg'[v] = reg[v] /\ pc'[v] = pc[v]

LEMMA WorkerMoves ==
  ASSUME TypeOK, NEW w \in Workers, NEW g \in Registers, NEW l \in PCs, Locals(w, g), Goto(w, l)
  PROVE  /\ reg' \in [Workers -> Registers] /\ pc' \in [Workers -> PCs]
         /\ reg'[w] = g /\ pc'[w] = l /\ Others(w)
  BY DEF TypeOK, Locals, Goto, Others

Typed == reg' \in [Workers -> Registers] /\ pc' \in [Workers -> PCs]

Stores == pending' = pending /\ inflight' = inflight /\ dlq' = dlq /\ reaping' = reaping

Counts == acked' = acked /\ expired' = expired /\ doubled' = doubled

Stats == new' = new /\ rated' = rated /\ dormant' = dormant

Idle == Stores /\ Counts /\ seq' = seq /\ sent' = sent

\* Steps after which a worker still has the deliveries it had.
Quiet(w) ==
  \/ AllocateBegin(w) \/ Allocate(w) \/ ServeEnd(w)
  \/ \E t \in Tenants : DequeueScan(w, t)
  \/ \E d \in reg[w].todo, l \in {"ack", "nack"} : Handle(w, d, l)

LEMMA ScanStep ==
  ASSUME TypeInv, NEW w \in Workers, NEW t \in Tenants, DequeueScan(w, t)
  PROVE  /\ Typed /\ Others(w) /\ pc[w] = "serve" /\ pc'[w] \in {"serve", "dequeue"}
         /\ reg[w].todo = {} /\ reg'[w].todo = {}
         /\ Keys(reg'[w].found) \subseteq Keys(pending)
         /\ \A x \in Workers : pc[x] = "dequeue" => Keys(reg[x].found) \cap Keys(reg'[w].found) = {}
<1> DEFINE q == reg[w].visited[t] + 1
           got == Oldest(InQueue(pending, t, q), reg[w].sched[t])
           g == [reg[w] EXCEPT !.visited[t] = q % NumQueues, !.found = got,
                               !.sched[t] = IF q = NumQueues THEN 0 ELSE @]
           l == IF got = {} THEN "serve" ELSE "dequeue"
<1>1. /\ pc[w] = "serve" /\ reg[w].todo = {} /\ ~QueueLocked(t, q)
      /\ Locals(w, g) /\ Goto(w, l)
  BY DEF DequeueScan, Serving
<1>2. TypeOK
  BY DEF TypeInv
<1>3. got \subseteq InQueue(pending, t, q) /\ got \subseteq pending /\ got \subseteq Records
  BY <1>2 DEF Oldest, InQueue, TypeOK
<1>4. l \in PCs
  BY DEF PCs
<1> HIDE DEF got, l
<1>5. g \in Registers /\ g.todo = reg[w].todo /\ g.found = got
  <2>1. /\ reg[w] \in Registers /\ reg[w].visited \in [Tenants -> 0 .. NumQueues]
        /\ reg[w].sched \in [Tenants -> Nat]
    BY <1>2, RegFields
  <2>2. q % NumQueues \in 0 .. NumQueues
    <3>1. q \in Nat /\ NumQueues \in Nat \ {0}
      BY <2>1, WorkerAssumption
    <3>2. QED
      BY <3>1
  <2> DEFINE v == [reg[w].visited EXCEPT ![t] = q % NumQueues]
             s == [reg[w].sched EXCEPT ![t] = IF q = NumQueues THEN 0 ELSE @]
  <2>3. v \in [Tenants -> 0 .. NumQueues] /\ s \in [Tenants -> Nat]
    BY <2>1, <2>2
  <2>4. g = [reg[w] EXCEPT !.visited = v, !.found = got, !.sched = s]
    BY <2>1 DEF Registers
  <2> HIDE DEF v, s, g
  <2>5. QED
    BY <2>1, <2>3, <2>4, <1>3, Zenon DEF Registers
<1> HIDE DEF g
<1>6. Typed /\ Others(w) /\ reg'[w] = g /\ pc'[w] = l
  BY <1>1, <1>2, <1>4, <1>5, WorkerMoves DEF Typed
<1>7. ASSUME NEW x \in Workers, pc[x] = "dequeue" PROVE Keys(reg[x].found) \cap Keys(got) = {}
  <2> SUFFICES ASSUME NEW a \in reg[x].found, NEW b \in got, <<a.id, a.key>> = <<b.id, b.key>>
               PROVE  FALSE
    BY DEF Keys
  <2>1. a.id = b.id
    OBVIOUS
  <2>2. a \in InQueue(reg[x].found, t, q)
    BY <2>1, <1>3 DEF InQueue
  <2>3. QED
    BY <2>2, <1>1, <1>7 DEF QueueLocked
<1>8. QED
  BY <1>1, <1>3, <1>5, <1>6, <1>7, KeysSubset DEF l

LEMMA QuietStep ==
  ASSUME TypeInv, NEW w \in Workers, Quiet(w)
  PROVE  /\ Idle /\ Stats /\ Typed /\ Others(w) /\ reg'[w].todo = reg[w].todo
         /\ pc[w] \in {"tick", "filter", "serve"}
         /\ pc'[w] \in {"tick", "filter", "serve", "dequeue", "ack", "nack"}
         /\ pc'[w] \in {"tick", "filter", "dequeue"} => reg'[w].todo = {}
         /\ pc'[w] \in {"ack", "nack"} => reg'[w].cur \in reg'[w].todo
         /\ pc'[w] = "dequeue" =>
              /\ Keys(reg'[w].found) \subseteq Keys(pending)
              /\ \A x \in Workers : pc[x] = "dequeue" =>
                   Keys(reg[x].found) \cap Keys(reg'[w].found) = {}
<1>0. TypeOK /\ Controls
  BY DEF TypeInv
<1>1. Idle /\ Stats
  BY DEF Quiet, AllocateBegin, Allocate, ServeEnd, DequeueScan, Handle, Idle, Stats, Stores, Counts,
         storeVars, statVars, historyVars
<1>2. CASE AllocateBegin(w)
  <2> DEFINE g == [NoRegisters EXCEPT !.guaranteed = new \cup dormant, !.rated = rated]
  <2>1. g \in Registers /\ g.todo = {}
    <3>1. new \cup dormant \subseteq Tenants /\ rated \subseteq Tenants
      BY <1>0 DEF TypeOK
    <3>2. QED
      BY <3>1, NoRegistersOK DEF Registers
  <2>2. Locals(w, g) /\ Goto(w, "filter") /\ pc[w] = "tick"
    BY <1>2 DEF AllocateBegin
  <2> HIDE DEF g
  <2>3. "filter" \in PCs
    BY DEF PCs
  <2>4. Typed /\ Others(w) /\ reg'[w] = g /\ pc'[w] = "filter"
    BY <2>1, <2>2, <2>3, <1>0, WorkerMoves DEF Typed
  <2>5. reg[w].todo = {}
    BY <2>2, <1>0 DEF Controls
  <2>6. QED
    BY <1>1, <2>1, <2>2, <2>4, <2>5
<1>3. CASE Allocate(w)
  <2>1. reg' = [reg EXCEPT ![w] = reg'[w]] /\ reg'[w] \in Registers /\ reg'[w].todo = {}
    BY <1>3, <1>0, AllocateStep
  <2>2. Locals(w, reg'[w]) /\ Goto(w, "serve") /\ pc[w] = "filter"
    BY <1>3, <2>1 DEF Allocate, Locals
  <2>3. "serve" \in PCs
    BY DEF PCs
  <2>4. Typed /\ Others(w) /\ pc'[w] = "serve"
    BY <2>1, <2>2, <2>3, <1>0, WorkerMoves DEF Typed
  <2>5. reg[w].todo = {}
    BY <2>2, <1>0 DEF Controls
  <2>6. QED
    BY <1>1, <2>1, <2>2, <2>4, <2>5
<1>4. CASE ServeEnd(w)
  <2>1. Locals(w, NoRegisters) /\ Goto(w, "tick") /\ pc[w] = "serve" /\ reg[w].todo = {}
    BY <1>4 DEF ServeEnd, Serving
  <2>2. "tick" \in PCs
    BY DEF PCs
  <2>3. Typed /\ Others(w) /\ reg'[w] = NoRegisters /\ pc'[w] = "tick"
    BY <2>1, <2>2, <1>0, NoRegistersOK, WorkerMoves DEF Typed
  <2>4. QED
    BY <1>1, <2>1, <2>3, NoRegistersOK
<1>5. ASSUME NEW t \in Tenants, DequeueScan(w, t)
      PROVE  /\ Typed /\ Others(w) /\ pc[w] = "serve" /\ pc'[w] \in {"serve", "dequeue"}
             /\ reg[w].todo = {} /\ reg'[w].todo = {}
             /\ Keys(reg'[w].found) \subseteq Keys(pending)
             /\ \A x \in Workers : pc[x] = "dequeue" => Keys(reg[x].found) \cap Keys(reg'[w].found) = {}
  BY <1>5, ScanStep
<1>6. ASSUME NEW d \in reg[w].todo, NEW l \in {"ack", "nack"}, Handle(w, d, l)
      PROVE  /\ Typed /\ Others(w) /\ pc[w] = "serve" /\ pc'[w] \in {"ack", "nack"}
             /\ reg'[w].todo = reg[w].todo /\ reg'[w].cur \in reg'[w].todo
  <2> DEFINE g == [reg[w] EXCEPT !.cur = d]
  <2>1. Locals(w, g) /\ Goto(w, l) /\ pc[w] = "serve"
    BY <1>6 DEF Handle
  <2>2. reg[w] \in Registers /\ d \in Deliveries
    BY <1>0, RegFields
  <2>3. g \in Registers /\ g.todo = reg[w].todo /\ g.cur = d
    BY <2>2 DEF Registers
  <2>4. l \in PCs
    BY DEF PCs
  <2> HIDE DEF g
  <2>5. Typed /\ Others(w) /\ reg'[w] = g /\ pc'[w] = l
    BY <2>1, <2>3, <2>4, <1>0, WorkerMoves DEF Typed
  <2>6. QED
    BY <2>1, <2>3, <2>5
<1>7. QED
  BY <1>1, <1>2, <1>3, <1>4, <1>5, <1>6 DEF Quiet

\* A worker that finds its delivery gone is through with it.
Absent(w) == (AckRead(w) \/ NackRead(w)) /\ ~InFlight(reg[w].cur)

LEMMA FinishedFields ==
  ASSUME TypeOK, NEW w \in Workers
  PROVE  /\ Finished(w) \in Registers /\ Finished(w).todo = reg[w].todo \ {reg[w].cur}
         /\ Answered(w) \in Registers /\ Answered(w).todo = reg[w].todo \ {reg[w].cur}
         /\ Answered(w).cur = reg[w].cur
<1>1. reg[w] \in Registers
  BY RegFields
<1>2. QED
  BY <1>1 DEF Finished, Answered, Registers

LEMMA AbsentStep ==
  ASSUME TypeInv, NEW w \in Workers, Absent(w)
  PROVE  /\ Idle /\ Stats /\ Typed /\ Others(w) /\ reg'[w].todo = reg[w].todo \ {reg[w].cur}
         /\ pc[w] \in {"ack", "nack"} /\ pc'[w] = "serve" /\ reg[w].cur \notin Keys(inflight)
<1>0. TypeOK /\ "serve" \in PCs
  BY DEF TypeInv, PCs
<1>1. reg[w].cur \notin Keys(inflight)
  BY DEF Absent, InFlight
<1>2. \A r \in inflight : ~NackFound(w, r)
  BY <1>1 DEF NackFound, Keys
<1>3. /\ Locals(w, Finished(w)) /\ Goto(w, "serve") /\ pc[w] \in {"ack", "nack"}
      /\ Idle /\ Stats
  BY <1>1, <1>2 DEF Absent, AckRead, NackRead, Idle, Stats, Stores, Counts, storeVars, statVars, historyVars
<1>4. Typed /\ Others(w) /\ reg'[w] = Finished(w) /\ pc'[w] = "serve"
  BY <1>0, <1>3, FinishedFields, WorkerMoves DEF Typed
<1>5. QED
  BY <1>0, <1>1, <1>3, <1>4, FinishedFields

LEMMA AckReadStep ==
  ASSUME TypeInv, NEW w \in Workers, AckRead(w), InFlight(reg[w].cur)
  PROVE  /\ Idle /\ Stats /\ Typed /\ Others(w) /\ reg' = reg /\ pc[w] = "ack" /\ pc'[w] = "ack_write"
         /\ reg[w].cur \in Keys(inflight)
         /\ \A x \in Workers : pc[x] = "ack_write" => reg[x].cur[1] # reg[w].cur[1]
<1>0. TypeOK /\ "ack_write" \in PCs
  BY DEF TypeInv, PCs
<1>1. reg[w].cur \in Keys(inflight)
  BY DEF InFlight
<1>2. /\ reg' = reg /\ Goto(w, "ack_write") /\ pc[w] = "ack" /\ ~AckLocked(reg[w].cur)
      /\ Idle /\ Stats
  BY DEF AckRead, Idle, Stats, Stores, Counts, storeVars, statVars, historyVars
<1>3. Typed /\ Others(w) /\ pc'[w] = "ack_write"
  BY <1>0, <1>2 DEF Typed, Others, TypeOK, Goto
<1>4. \A x \in Workers : pc[x] = "ack_write" => reg[x].cur[1] # reg[w].cur[1]
  BY <1>2 DEF AckLocked
<1>5. QED
  BY <1>1, <1>2, <1>3, <1>4

LEMMA NackReadStep ==
  ASSUME TypeInv, NEW w \in Workers, NackRead(w), InFlight(reg[w].cur)
  PROVE  LET t == TenantOf[reg[w].cur[1]]
         IN  /\ Stores /\ Counts /\ Stats /\ sent' = sent /\ Typed /\ Others(w) /\ seq' \in [Tenants -> Nat]
             /\ reg'[w].todo = reg[w].todo /\ reg'[w].cur = reg[w].cur /\ t \in Tenants
             /\ pc[w] = "nack" /\ pc'[w] = "nack_write"
             /\ \/ reg'[w].fresh = 0 /\ seq' = seq
                \/ reg'[w].fresh = seq[t] /\ seq' = [seq EXCEPT ![t] = @ + 1]
<1>0. TypeOK /\ "nack_write" \in PCs
  BY DEF TypeInv, PCs
<1>1. PICK r \in inflight : NackFound(w, r)
  BY DEF NackRead
<1> DEFINE t == TenantOf[r.id]
           n == IF Retryable(r) THEN seq[t] ELSE 0
           g == [reg[w] EXCEPT !.attempts = r.attempts, !.fresh = n]
<1>2. r.id \in Ids /\ r.attempts \in Nat /\ t \in Tenants
  BY <1>0, TenantsFinite DEF TypeOK, Records
<1>3. /\ Locals(w, g) /\ Goto(w, "nack_write") /\ pc[w] = "nack" /\ <<r.id, r.key>> = reg[w].cur
      /\ seq' = IF Retryable(r) THEN [seq EXCEPT ![t] = @ + 1] ELSE seq
      /\ Stores /\ Counts /\ Stats /\ sent' = sent
  BY <1>1 DEF NackFound, NackRead, Stats, Stores, Counts, statVars, historyVars
<1>4. r.id = reg[w].cur[1]
  BY <1>3
<1> HIDE DEF t
<1>5. seq[t] \in Nat /\ n \in Nat /\ seq' \in [Tenants -> Nat]
  BY <1>0, <1>2, <1>3 DEF TypeOK
<1>6. g \in Registers /\ g.todo = reg[w].todo /\ g.cur = reg[w].cur /\ g.fresh = n
  <2>1. reg[w] \in Registers
    BY <1>0, RegFields
  <2> HIDE DEF n
  <2>2. QED
    BY <2>1, <1>2, <1>5 DEF Registers
<1> HIDE DEF g
<1>7. Typed /\ Others(w) /\ reg'[w] = g /\ pc'[w] = "nack_write"
  BY <1>0, <1>3, <1>6, WorkerMoves DEF Typed
<1>8. \/ n = 0 /\ seq' = seq
      \/ n = seq[t] /\ seq' = [seq EXCEPT ![t] = @ + 1]
  BY <1>3
<1>9. QED
  BY <1>2, <1>3, <1>4, <1>5, <1>6, <1>7, <1>8 DEF t

LEMMA AckWriteStep ==
  ASSUME TypeInv, NEW w \in Workers, AckWrite(w)
  PROVE  LET d == reg[w].cur
         IN  /\ d \in reg[w].todo /\ d \in Deliveries /\ d[1] \in Ids
             /\ Typed /\ Others(w) /\ Stats /\ pc[w] = "ack_write" /\ pc'[w] = "ack_count"
             /\ reg'[w].todo = reg[w].todo \ {d} /\ reg'[w].cur = d
             /\ inflight' = Delete(inflight, {d}) /\ pending' = pending /\ dlq' = dlq
             /\ reaping' = reaping /\ seq' = seq /\ sent' = sent /\ acked' = acked /\ expired' = expired
             /\ doubled' = DeletedElsewhere(d)
<1>0. TypeOK /\ Controls /\ "ack_count" \in PCs
  BY DEF TypeInv, PCs
<1> DEFINE d == reg[w].cur
<1>1. /\ pc[w] = "ack_write" /\ Goto(w, "ack_count") /\ Locals(w, Answered(w)) /\ Stats
      /\ inflight' = Delete(inflight, {d}) /\ pending' = pending /\ dlq' = dlq
      /\ reaping' = reaping /\ seq' = seq /\ sent' = sent /\ acked' = acked /\ expired' = expired
      /\ doubled' = DeletedElsewhere(d)
  BY DEF AckWrite, Stats, statVars
<1>2. Typed /\ Others(w) /\ reg'[w] = Answered(w) /\ pc'[w] = "ack_count"
  BY <1>0, <1>1, FinishedFields, WorkerMoves DEF Typed
<1>3. d \in reg[w].todo
  BY <1>0, <1>1 DEF Controls
<1>4. d \in Deliveries /\ d[1] \in Ids
  BY <1>0, <1>3, RegFields DEF Deliveries
<1>5. QED
  BY <1>0, <1>1, <1>2, <1>3, <1>4, FinishedFields

LEMMA AckCountStep ==
  ASSUME TypeInv, NEW w \in Workers, AckCount(w)
  PROVE  LET d == reg[w].cur
         IN  /\ d \in Deliveries /\ d[1] \in Ids
             /\ Typed /\ Others(w) /\ Stores /\ Stats /\ pc[w] = "ack_count" /\ pc'[w] = "serve"
             /\ reg'[w].todo = reg[w].todo /\ seq' = seq /\ sent' = sent
             /\ expired' = expired /\ doubled' = doubled
             /\ acked' = [acked EXCEPT ![d[1]] = @ + 1]
<1>0. TypeOK /\ Controls /\ "serve" \in PCs
  BY DEF TypeInv, PCs
<1> DEFINE d == reg[w].cur
<1>1. /\ pc[w] = "ack_count" /\ Goto(w, "serve") /\ Locals(w, Finished(w))
      /\ Stores /\ Stats /\ seq' = seq /\ sent' = sent /\ expired' = expired /\ doubled' = doubled
      /\ acked' = [acked EXCEPT ![d[1]] = @ + 1]
  BY DEF AckCount, Stores, Stats, storeVars, historyVars
<1>2. Typed /\ Others(w) /\ reg'[w] = Finished(w) /\ pc'[w] = "serve"
  BY <1>0, <1>1, FinishedFields, WorkerMoves DEF Typed
<1>3. d \in Deliveries \ reg[w].todo
  BY <1>0, <1>1 DEF Controls
<1>4. d[1] \in Ids
  BY <1>3 DEF Deliveries
<1>5. reg'[w].todo = reg[w].todo
  <2>1. Finished(w).todo = reg[w].todo \ {d}
    BY <1>0, FinishedFields
  <2>2. QED
    BY <2>1, <1>2, <1>3
<1>6. QED
  BY <1>1, <1>2, <1>3, <1>4, <1>5

LEMMA DequeueWriteStep ==
  ASSUME TypeInv, NEW w \in Workers, DequeueWrite(w)
  PROVE  LET K == Keys(reg[w].found)
         IN  /\ Typed /\ Others(w) /\ Counts /\ Stats /\ K \subseteq Deliveries
             /\ pc[w] = "dequeue" /\ pc'[w] = "serve"
             /\ reg[w].todo = {} /\ reg'[w].todo = K
             /\ pending' \subseteq Records /\ inflight' \subseteq Records
             /\ Keys(pending') = Keys(pending) \ K /\ Keys(inflight') = Keys(inflight) \cup K
             /\ LateKeys(inflight') \subseteq LateKeys(inflight)
             /\ dlq' = dlq /\ reaping' = reaping /\ seq' = seq /\ sent' = sent
<1>0. TypeOK /\ Controls /\ "serve" \in PCs
  BY DEF TypeInv, PCs
<1> DEFINE got == reg[w].found
           K == Keys(got)
           g == [reg[w] EXCEPT !.found = {}, !.todo = K]
<1>1. /\ pc[w] = "dequeue" /\ Locals(w, g) /\ Goto(w, "serve") /\ Counts /\ Stats
      /\ pending' = Delete(pending, K) /\ inflight' = Put(inflight, Leased(got))
      /\ dlq' = dlq /\ reaping' = reaping /\ seq' = seq /\ sent' = sent
  BY DEF DequeueWrite, Counts, Stats, statVars, historyVars
<1>2. reg[w] \in Registers /\ got \subseteq Records /\ K \subseteq Deliveries
  BY <1>0, RegFields, KeysTyped
<1> HIDE DEF K
<1>3. g \in Registers /\ g.todo = K
  BY <1>2 DEF Registers
<1> HIDE DEF g
<1>4. Typed /\ Others(w) /\ reg'[w] = g /\ pc'[w] = "serve"
  BY <1>0, <1>1, <1>3, WorkerMoves DEF Typed
<1>5. reg[w].todo = {}
  BY <1>0, <1>1 DEF Controls
<1>6. /\ Leased(got) \subseteq Records /\ Keys(Leased(got)) = K
      /\ \A r \in Leased(got) : ~r.late
  BY <1>2, KeysLeased DEF K
<1>7. pending' \subseteq Records /\ inflight' \subseteq Records
  BY <1>0, <1>1, <1>6 DEF TypeOK, Delete, Put
<1>8. Keys(pending') = Keys(pending) \ K
  BY <1>1, KeysDelete
<1>9. Keys(inflight') = Keys(inflight) \cup K /\ LateKeys(inflight') \subseteq LateKeys(inflight)
  BY <1>1, <1>6, KeysPut
<1>10. QED
  BY <1>1, <1>2, <1>3, <1>4, <1>5, <1>7, <1>8, <1>9 DEF K

LEMMA NackWriteStep ==
  ASSUME TypeInv, NEW w \in Workers, NackWrite(w)
  PROVE  LET d == reg[w].cur
         IN  /\ d \in reg[w].todo /\ d \in Deliveries /\ d[1] \in Ids
             /\ Typed /\ Others(w) /\ Stats /\ pc[w] = "nack_write" /\ pc'[w] = "serve"
             /\ reg'[w].todo = reg[w].todo \ {d}
             /\ pending' \subseteq Records /\ inflight' \subseteq Records /\ dlq' \subseteq Records
             /\ Keys(inflight') = Keys(inflight) \ {d}
             /\ LateKeys(inflight') \subseteq LateKeys(inflight)
             /\ \/ /\ reg[w].fresh > 0 /\ Keys(pending') = Keys(pending) \cup {FreshKey(w)}
                   /\ Keys(dlq') = Keys(dlq)
                \/ Keys(pending') = Keys(pending) /\ Keys(dlq') = Keys(dlq) \cup {d}
             /\ reaping' = reaping /\ seq' = seq /\ sent' = sent /\ acked' = acked /\ expired' = expired
             /\ doubled' = PutTwice(d)
<1>0. TypeOK /\ Controls /\ "serve" \in PCs
  BY DEF TypeInv, PCs
<1> DEFINE d == reg[w].cur
           put(k) == {[id |-> d[1], key |-> k, attempts |-> reg[w].attempts, late |-> FALSE]}
<1>1. /\ pc[w] = "nack_write" /\ Goto(w, "serve") /\ Locals(w, Finished(w)) /\ Stats
      /\ inflight' = Delete(inflight, {d})
      /\ \/ reg[w].fresh > 0 /\ pending' = Put(pending, put(reg[w].fresh)) /\ dlq' = dlq
         \/ pending' = pending /\ dlq' = Put(dlq, put(d[2]))
      /\ reaping' = reaping /\ seq' = seq /\ sent' = sent /\ acked' = acked /\ expired' = expired
      /\ doubled' = PutTwice(d)
  BY DEF NackWrite, Stats, statVars
<1>2. Typed /\ Others(w) /\ reg'[w] = Finished(w) /\ pc'[w] = "serve"
  BY <1>0, <1>1, FinishedFields, WorkerMoves DEF Typed
<1>3. d \in reg[w].todo
  BY <1>0, <1>1 DEF Controls
<1>4. d \in Deliveries /\ d[1] \in Ids /\ d[2] \in Nat /\ d = <<d[1], d[2]>>
  BY <1>0, <1>3, RegFields DEF Deliveries
<1>5. reg[w].fresh \in Nat /\ reg[w].attempts \in Nat
  BY <1>0, RegFields
<1>6. ASSUME NEW k \in Nat PROVE put(k) \subseteq Records /\ Keys(put(k)) = {<<d[1], k>>}
  <2> DEFINE r == [id |-> d[1], key |-> k, attempts |-> reg[w].attempts, late |-> FALSE]
  <2>1. r \in Records /\ r.id = d[1] /\ r.key = k
    BY <1>4, <1>5 DEF Records
  <2>2. Keys({r}) = {<<r.id, r.key>>}
    BY KeyOf
  <2>3. QED
    BY <2>1, <2>2
<1> HIDE DEF put
<1>7. pending' \subseteq Records /\ inflight' \subseteq Records /\ dlq' \subseteq Records
  BY <1>0, <1>1, <1>4, <1>5, <1>6 DEF TypeOK, Delete, Put
<1>8. Keys(inflight') = Keys(inflight) \ {d} /\ LateKeys(inflight') \subseteq LateKeys(inflight)
  BY <1>1, KeysDelete
<1>9. \/ /\ reg[w].fresh > 0 /\ Keys(pending') = Keys(pending) \cup {FreshKey(w)}
         /\ Keys(dlq') = Keys(dlq)
      \/ Keys(pending') = Keys(pending) /\ Keys(dlq') = Keys(dlq) \cup {d}
  <2>1. CASE reg[w].fresh > 0 /\ pending' = Put(pending, put(reg[w].fresh)) /\ dlq' = dlq
    <3>1. Keys(put(reg[w].fresh)) = {FreshKey(w)}
      BY <1>5, <1>6 DEF FreshKey
    <3>2. QED
      BY <2>1, <3>1, KeysPut
  <2>2. CASE pending' = pending /\ dlq' = Put(dlq, put(d[2]))
    <3>1. Keys(put(d[2])) = {d}
      BY <1>4, <1>6
    <3>2. QED
      BY <2>2, <3>1, KeysPut
  <2>3. QED
    BY <2>1, <2>2, <1>1
<1>10. QED
  BY <1>0, <1>1, <1>2, <1>3, <1>4, <1>7, <1>8, <1>9, FinishedFields

LEMMA EnqueueStep ==
  ASSUME TypeInv, NEW i \in Ids, Enqueue(i)
  PROVE  LET t == TenantOf[i]
         IN  /\ i \notin sent /\ sent' = sent \cup {i} /\ t \in Tenants /\ seq[t] \in Nat
             /\ pending' \subseteq Records /\ Keys(pending') = Keys(pending) \cup {<<i, seq[t]>>}
             /\ seq' = [seq EXCEPT ![t] = @ + 1] /\ seq' \in [Tenants -> Nat]
             /\ inflight' = inflight /\ dlq' = dlq /\ reaping' = reaping
             /\ pc' = pc /\ reg' = reg /\ Counts /\ Stats
<1>0. TypeOK
  BY DEF TypeInv
<1> DEFINE t == TenantOf[i]
           r == [id |-> i, key |-> seq[t], attempts |-> 0, late |-> FALSE]
<1>1. /\ i \notin sent /\ sent' = sent \cup {i} /\ pending' = Put(pending, {r})
      /\ seq' = [seq EXCEPT ![t] = @ + 1]
      /\ inflight' = inflight /\ dlq' = dlq /\ reaping' = reaping
      /\ pc' = pc /\ reg' = reg /\ Counts /\ Stats
  BY DEF Enqueue, Counts, Stats, statVars, historyVars
<1>2. t \in Tenants /\ seq[t] \in Nat /\ seq' \in [Tenants -> Nat]
  BY <1>0, <1>1, TenantsFinite DEF TypeOK
<1>3. r \in Records /\ r.id = i /\ r.key = seq[t]
  BY <1>2 DEF Records
<1> HIDE DEF r
<1>4. pending' \subseteq Records
  BY <1>0, <1>1, <1>3 DEF TypeOK, Put, Delete
<1>5. Keys(pending') = Keys(pending) \cup {<<i, seq[t]>>}
  BY <1>1, <1>3, KeysPut, KeyOf
<1>6. QED
  BY <1>1, <1>2, <1>4, <1>5

LEMMA ExpireStep ==
  ASSUME TypeInv, NEW r \in inflight, Expire(r)
  PROVE  /\ r.id \in Ids /\ inflight' \subseteq Records /\ Keys(inflight') = Keys(inflight)
         /\ LateKeys(inflight') \subseteq LateKeys(inflight) \cup {<<r.id, r.key>>}
         /\ expired' = [expired EXCEPT ![r.id] = @ + 1] /\ expired' \in [Ids -> 0 .. MaxExpiries]
         /\ pending' = pending /\ dlq' = dlq /\ reaping' = reaping /\ seq' = seq /\ sent' = sent
         /\ pc' = pc /\ reg' = reg /\ acked' = acked /\ doubled' = doubled /\ Stats
<1>0. TypeOK
  BY DEF TypeInv
<1> DEFINE x == [r EXCEPT !.late = TRUE]
<1>1. /\ Sum(expired, Ids) < MaxExpiries /\ inflight' = (inflight \ {r}) \cup {x}
      /\ expired' = [expired EXCEPT ![r.id] = @ + 1]
      /\ pending' = pending /\ dlq' = dlq /\ reaping' = reaping /\ seq' = seq /\ sent' = sent
      /\ pc' = pc /\ reg' = reg /\ acked' = acked /\ doubled' = doubled /\ Stats
  BY DEF Expire, Stats, statVars
<1>2. r \in Records /\ r.id \in Ids
  BY <1>0 DEF TypeOK, Records
<1>3. x \in Records /\ x.id = r.id /\ x.key = r.key
  BY <1>2 DEF Records
<1> HIDE DEF x
<1>4. inflight' \subseteq Records
  BY <1>0, <1>1, <1>3 DEF TypeOK
<1>5. Keys(inflight') = Keys(inflight)
  BY <1>1, <1>3 DEF Keys
<1>6. LateKeys(inflight') \subseteq LateKeys(inflight) \cup {<<r.id, r.key>>}
  BY <1>1, <1>3 DEF LateKeys, Keys
<1>7. expired' \in [Ids -> 0 .. MaxExpiries]
  <2>1. expired \in [Ids -> 0 .. MaxExpiries] /\ \A j \in Ids : expired[j] \in Nat
    BY <1>0, WorkerAssumption DEF TypeOK
  <2>2. Sum(expired, Ids) \in Nat /\ expired[r.id] <= Sum(expired, Ids)
    BY <2>1, <1>2, SumNat, WorkerAssumption
  <2>3. expired[r.id] + 1 \in 0 .. MaxExpiries
    BY <2>1, <2>2, <1>1, <1>2, WorkerAssumption
  <2>4. QED
    BY <2>1, <2>3, <1>1
<1>8. QED
  BY <1>1, <1>2, <1>4, <1>5, <1>6, <1>7

LEMMA ReapScanStep ==
  ASSUME TypeInv, NEW t \in Tenants, NEW q \in Queues, ReapScan(t, q)
  PROVE  /\ reaping = {} /\ reaping' \subseteq Records /\ Keys(reaping') \subseteq LateKeys(inflight)
         /\ pending' = pending /\ inflight' = inflight /\ dlq' = dlq /\ seq' = seq /\ sent' = sent
         /\ pc' = pc /\ reg' = reg /\ Counts /\ Stats
<1>1. /\ reaping = {} /\ reaping' = {r \in InQueue(inflight, t, q) : r.late}
      /\ pending' = pending /\ inflight' = inflight /\ dlq' = dlq /\ seq' = seq /\ sent' = sent
      /\ pc' = pc /\ reg' = reg /\ Counts /\ Stats
  BY DEF ReapScan, Overdue, Counts, Stats, storeVars, statVars, historyVars
<1>2. reaping' \subseteq {r \in inflight : r.late} /\ reaping' \subseteq inflight
  BY <1>1 DEF InQueue
<1>3. Keys(reaping') \subseteq LateKeys(inflight)
  BY <1>2, KeysSubset DEF LateKeys
<1>4. QED
  BY <1>1, <1>2, <1>3 DEF TypeInv, TypeOK

LEMMA ReapWriteStep ==
  ASSUME TypeInv, ReapWrite
  PROVE  LET K == Keys(reaping)
         IN  /\ pending' \subseteq Records /\ inflight' \subseteq Records /\ reaping' = {}
             /\ Keys(pending') = Keys(pending) \cup K /\ Keys(inflight') = Keys(inflight) \ K
             /\ LateKeys(inflight') = LateKeys(inflight) \ K
             /\ doubled' \in [Ids -> Nat]
             /\ \A i \in Ids : doubled'[i] = doubled[i] + Cardinality(Of(K \ Keys(inflight), i))
             /\ dlq' = dlq /\ seq' = seq /\ sent' = sent /\ acked' = acked /\ expired' = expired
             /\ pc' = pc /\ reg' = reg /\ Stats
<1>0. TypeOK /\ KeysFinite
  BY DEF TypeInv
<1> DEFINE K == Keys(reaping)
           f(r) == [r EXCEPT !.late = FALSE]
           B == {f(r) : r \in reaping}
<1>1. /\ inflight' = Delete(inflight, K) /\ pending' = Put(pending, B) /\ reaping' = {}
      /\ doubled' = [i \in Ids |->
           doubled[i] + Cardinality({d \in K : d[1] = i /\ ~InFlight(d)})]
      /\ dlq' = dlq /\ seq' = seq /\ sent' = sent /\ acked' = acked /\ expired' = expired
      /\ pc' = pc /\ reg' = reg /\ Stats
  BY DEF ReapWrite, Stats, statVars
<1>2. \A r \in Records : f(r) \in Records /\ f(r).id = r.id /\ f(r).key = r.key
  BY DEF Records
<1> HIDE DEF f
<1>3. B \subseteq Records /\ Keys(B) = K
  BY <1>0, <1>2 DEF TypeOK, Keys
<1> HIDE DEF B
<1>4. pending' \subseteq Records /\ inflight' \subseteq Records
  BY <1>0, <1>1, <1>3 DEF TypeOK, Put, Delete
<1> HIDE DEF K
<1>5. /\ Keys(pending') = Keys(pending) \cup K /\ Keys(inflight') = Keys(inflight) \ K
      /\ LateKeys(inflight') = LateKeys(inflight) \ K
  BY <1>1, <1>3, KeysPut, KeysDelete
<1>6. \A i \in Ids : {d \in K : d[1] = i /\ ~InFlight(d)} = Of(K \ Keys(inflight), i)
  BY DEF Of, InFlight
<1>7. \A i \in Ids : Cardinality(Of(K \ Keys(inflight), i)) \in Nat /\ doubled[i] \in Nat
  <2>1. IsFiniteSet(K)
    BY <1>0 DEF KeysFinite, K
  <2>2. \A i \in Ids : Of(K \ Keys(inflight), i) \subseteq K
    BY DEF Of
  <2>3. QED
    BY <2>1, <2>2, <1>0, FS_Subset, FS_CardinalityType DEF TypeOK
<1>8. doubled' = [i \in Ids |-> doubled[i] + Cardinality(Of(K \ Keys(inflight), i))]
  BY <1>1, <1>6
<1>9. doubled' \in [Ids -> Nat]
  BY <1>7, <1>8
<1>10. QED
  BY <1>1, <1>4, <1>5, <1>8, <1>9 DEF K

\* The kinds of steps there are.
LEMMA Steps ==
  ASSUME Next
  PROVE  \/ \E w \in Workers :
              \/ Quiet(w) \/ Absent(w) \/ DequeueWrite(w) \/ AckWrite(w) \/ AckCount(w) \/ NackWrite(w)
              \/ AckRead(w) /\ InFlight(reg[w].cur)
              \/ NackRead(w) /\ InFlight(reg[w].cur)
         \/ \E i \in Ids : Enqueue(i)
         \/ \E r \in inflight : Expire(r)
         \/ \E t \in Tenants, q \in Queues : ReapScan(t, q)
         \/ ReapWrite
         \/ \E t \in Tenants : Refresh(t) \/ FallDormant(t)
  BY DEF Next, Work, Process, Reap, Quiet, Absent

(***************************************************************************)
(* Types                                                                   *)
(***************************************************************************)
LEMMA HandSame ==
  ASSUME NEW w \in Workers, Others(w), reg'[w].todo = reg[w].todo, NEW i
  PROVE  InHand(reg', i) = InHand(reg, i)
<1>1. \A v \in Workers : reg'[v].todo = reg[v].todo
  BY DEF Others
<1>2. \A x \in Workers \X Deliveries : reg'[x[1]].todo = reg[x[1]].todo
  BY <1>1
<1>3. QED
  BY <1>2 DEF InHand

LEMMA HandLess ==
  ASSUME NEW w \in Workers, Others(w), NEW d \in Deliveries, d \in reg[w].todo,
         reg'[w].todo = reg[w].todo \ {d}
  PROVE  /\ <<w, d>> \in InHand(reg, d[1])
         /\ InHand(reg', d[1]) = InHand(reg, d[1]) \ {<<w, d>>}
         /\ \A i : i # d[1] => InHand(reg', i) = InHand(reg, i)
<1>1. \A x \in Workers \X Deliveries : x[1] # w => reg'[x[1]].todo = reg[x[1]].todo
  BY DEF Others
<1>2. \A x \in Workers \X Deliveries : x = <<x[1], x[2]>>
  OBVIOUS
<1>3. <<w, d>> \in InHand(reg, d[1])
  BY DEF InHand
<1>4. ASSUME NEW x \in Workers \X Deliveries
      PROVE  x[2] \in reg'[x[1]].todo <=> x[2] \in reg[x[1]].todo /\ x # <<w, d>>
  <2>1. CASE x[1] = w
    BY <2>1, <1>2
  <2>2. CASE x[1] # w
    BY <2>2, <1>1, <1>2
  <2>3. QED
    BY <2>1, <2>2
<1>5. InHand(reg', d[1]) = InHand(reg, d[1]) \ {<<w, d>>}
  BY <1>4 DEF InHand
<1>6. ASSUME NEW i, i # d[1] PROVE InHand(reg', i) = InHand(reg, i)
  <2>1. \A x \in Workers \X Deliveries : x[2][1] = i => x # <<w, d>>
    BY <1>6
  <2>2. QED
    BY <2>1, <1>4 DEF InHand
<1>7. QED
  BY <1>3, <1>5, <1>6

LEMMA HandMore ==
  ASSUME NEW w \in Workers, Others(w), NEW i
  PROVE  InHand(reg', i) \subseteq InHand(reg, i) \cup ({w} \X Of(reg'[w].todo, i))
<1>1. \A x \in Workers \X Deliveries : x[1] # w => reg'[x[1]].todo = reg[x[1]].todo
  BY DEF Others
<1>2. SUFFICES ASSUME NEW x \in InHand(reg', i), x \notin InHand(reg, i)
               PROVE  x \in {w} \X Of(reg'[w].todo, i)
  OBVIOUS
<1>3. x \in Workers \X Deliveries /\ x = <<x[1], x[2]>> /\ x[2] \in reg'[x[1]].todo /\ x[2][1] = i
  BY DEF InHand
<1>4. x[1] = w
  BY <1>1, <1>2, <1>3 DEF InHand
<1>5. QED
  BY <1>3, <1>4 DEF Of

LEMMA ControlsKept ==
  ASSUME Controls, NEW w \in Workers, Others(w),
         pc'[w] \in {"tick", "filter", "dequeue"} => reg'[w].todo = {},
         pc'[w] \in {"ack", "ack_write", "nack", "nack_write"} => reg'[w].cur \in reg'[w].todo,
         pc'[w] = "ack_count" => reg'[w].cur \in Deliveries \ reg'[w].todo
  PROVE  Controls'
  BY DEF Controls, Others

LEMMA OfFinite ==
  ASSUME NEW D, IsFiniteSet(D), NEW i
  PROVE  IsFiniteSet(Of(D, i)) /\ Cardinality(Of(D, i)) \in Nat
<1>1. Of(D, i) \subseteq D
  BY DEF Of
<1>2. QED
  BY <1>1, FS_Subset, FS_CardinalityType

\* A step of a worker that leaves the store alone.
LEMMA FiniteKept ==
  ASSUME KeysFinite, Stores, NEW w \in Workers, Others(w), TypeOK,
         \/ reg'[w].todo = reg[w].todo
         \/ reg[w].cur \in reg[w].todo /\ reg'[w].todo = reg[w].todo \ {reg[w].cur}
  PROVE  KeysFinite'
<1>1. /\ IsFiniteSet(Keys(pending')) /\ IsFiniteSet(Keys(inflight')) /\ IsFiniteSet(Keys(reaping'))
  BY DEF KeysFinite, Stores
<1>2. ASSUME NEW i \in Ids PROVE IsFiniteSet(InHand(reg', i))
  <2>1. InHand(reg', i) \subseteq InHand(reg, i)
    <3>1. CASE reg'[w].todo = reg[w].todo
      BY <3>1, HandSame
    <3>2. CASE reg[w].cur \in reg[w].todo /\ reg'[w].todo = reg[w].todo \ {reg[w].cur}
      <4>1. reg[w].cur \in Deliveries
        BY <3>2, RegFields
      <4>2. QED
        BY <4>1, <3>2, HandLess
    <3>3. QED
      BY <3>1, <3>2
  <2>2. QED
    BY <2>1, FS_Subset DEF KeysFinite
<1>3. QED
  BY <1>1, <1>2 DEF KeysFinite

LEMMA FiniteStays ==
  ASSUME NEW S, IsFiniteSet(S), NEW T
  PROVE  /\ IsFiniteSet(S \ T) /\ \A x : IsFiniteSet(S \cup {x})
         /\ IsFiniteSet(T) => IsFiniteSet(S \cup T)
<1>1. \A x : IsFiniteSet({x})
  BY FS_Singleton
<1>2. QED
  BY <1>1, FS_Difference, FS_Union

LEMMA TypesStep == TypeInv /\ KeyInv /\ [Next]_vars => TypeInv'
<1> SUFFICES ASSUME TypeInv, KeyInv, [Next]_vars PROVE TypeInv'
  OBVIOUS
<1>0. TypeOK /\ Controls /\ KeysFinite
  BY DEF TypeInv
<1>1. CASE UNCHANGED vars
  <2>1. TypeOK' /\ Controls'
    BY <1>0, <1>1 DEF vars, storeVars, statVars, historyVars, TypeOK, Controls
  <2>2. KeysFinite'
    BY <1>0, <1>1 DEF vars, storeVars, KeysFinite
  <2>3. QED
    BY <2>1, <2>2 DEF TypeInv
\* The part of the types that a step of a worker leaves to be shown.
<1>a. ASSUME Typed, Stats, pending' \subseteq Records, inflight' \subseteq Records,
             dlq' \subseteq Records, reaping' \subseteq Records, seq' \in [Tenants -> Nat],
             sent' \subseteq Ids, acked' \in [Ids -> Nat], expired' \in [Ids -> 0 .. MaxExpiries],
             doubled' \in [Ids -> Nat]
      PROVE  TypeOK'
  BY <1>a, <1>0 DEF Typed, Stats, TypeOK
<1>b. ASSUME Typed, Stats, Idle PROVE TypeOK'
  BY <1>b, <1>0 DEF Typed, Stats, Idle, Stores, Counts, TypeOK
<1>2. ASSUME NEW w \in Workers, Quiet(w) PROVE TypeInv'
  <2>1. /\ Idle /\ Stats /\ Typed /\ Others(w) /\ reg'[w].todo = reg[w].todo
        /\ pc'[w] \in {"tick", "filter", "serve", "dequeue", "ack", "nack"}
        /\ pc'[w] \in {"tick", "filter", "dequeue"} => reg'[w].todo = {}
        /\ pc'[w] \in {"ack", "nack"} => reg'[w].cur \in reg'[w].todo
    BY <1>2, QuietStep
  <2>2. TypeOK'
    BY <2>1, <1>b
  <2>3. Controls'
    BY <2>1, <1>0, ControlsKept
  <2>4. KeysFinite'
    BY <2>1, <1>0, FiniteKept DEF Idle
  <2>5. QED
    BY <2>2, <2>3, <2>4 DEF TypeInv
<1>3. ASSUME NEW w \in Workers, Absent(w) PROVE TypeInv'
  <2>1. /\ Idle /\ Stats /\ Typed /\ Others(w) /\ reg'[w].todo = reg[w].todo \ {reg[w].cur}
        /\ pc[w] \in {"ack", "nack"} /\ pc'[w] = "serve"
    BY <1>3, AbsentStep
  <2>2. TypeOK'
    BY <2>1, <1>b
  <2>3. Controls'
    BY <2>1, <1>0, ControlsKept
  <2>4. reg[w].cur \in reg[w].todo
    BY <2>1, <1>0 DEF Controls
  <2>5. KeysFinite'
    BY <2>1, <2>4, <1>0, FiniteKept DEF Idle
  <2>6. QED
    BY <2>2, <2>3, <2>5 DEF TypeInv
<1>4. ASSUME NEW w \in Workers, AckRead(w), InFlight(reg[w].cur) PROVE TypeInv'
  <2>1. Idle /\ Stats /\ Typed /\ Others(w) /\ reg' = reg /\ pc[w] = "ack" /\ pc'[w] = "ack_write"
    BY <1>4, AckReadStep
  <2>2. TypeOK'
    BY <2>1, <1>b
  <2>3. reg[w].cur \in reg[w].todo
    BY <2>1, <1>0 DEF Controls
  <2>4. Controls'
    BY <2>1, <2>3, <1>0, ControlsKept
  <2>5. KeysFinite'
    BY <2>1, <1>0, FiniteKept DEF Idle
  <2>6. QED
    BY <2>2, <2>4, <2>5 DEF TypeInv
<1>5. ASSUME NEW w \in Workers, NackRead(w), InFlight(reg[w].cur) PROVE TypeInv'
  <2>1. /\ Stores /\ Counts /\ Stats /\ sent' = sent /\ Typed /\ Others(w) /\ seq' \in [Tenants -> Nat]
        /\ reg'[w].todo = reg[w].todo /\ reg'[w].cur = reg[w].cur
        /\ pc[w] = "nack" /\ pc'[w] = "nack_write"
    BY <1>5, NackReadStep
  <2>2. TypeOK'
    BY <2>1, <1>0 DEF Typed, Stats, Stores, Counts, TypeOK
  <2>3. reg[w].cur \in reg[w].todo
    BY <2>1, <1>0 DEF Controls
  <2>4. Controls'
    BY <2>1, <2>3, <1>0, ControlsKept
  <2>5. KeysFinite'
    BY <2>1, <1>0, FiniteKept
  <2>6. QED
    BY <2>2, <2>4, <2>5 DEF TypeInv
<1>6. ASSUME NEW w \in Workers, DequeueWrite(w) PROVE TypeInv'
  <2> DEFINE K == Keys(reg[w].found)
  <2>1. /\ Typed /\ Others(w) /\ Counts /\ Stats /\ K \subseteq Deliveries
        /\ pc[w] = "dequeue" /\ pc'[w] = "serve" /\ reg'[w].todo = K
        /\ pending' \subseteq Records /\ inflight' \subseteq Records
        /\ Keys(pending') = Keys(pending) \ K /\ Keys(inflight') = Keys(inflight) \cup K
        /\ dlq' = dlq /\ reaping' = reaping /\ seq' = seq /\ sent' = sent
    BY <1>6, DequeueWriteStep
  <2>2. TypeOK'
    BY <2>1, <1>0 DEF Typed, Stats, Counts, TypeOK
  <2>3. Controls'
    BY <2>1, <1>0, ControlsKept
  <2>4. IsFiniteSet(K)
    <3>1. K \subseteq Keys(pending)
      BY <2>1 DEF KeyInv, QueueHeld
    <3>2. QED
      BY <3>1, <1>0, FS_Subset DEF KeysFinite
  <2> HIDE DEF K
  <2>5. IsFiniteSet(Keys(pending')) /\ IsFiniteSet(Keys(inflight')) /\ IsFiniteSet(Keys(reaping'))
    <3>1. IsFiniteSet(Keys(pending)) /\ IsFiniteSet(Keys(inflight)) /\ IsFiniteSet(Keys(reaping))
      BY <1>0 DEF KeysFinite
    <3>2. IsFiniteSet(Keys(pending) \ K) /\ IsFiniteSet(Keys(inflight) \cup K)
      BY <3>1, <2>4, FiniteStays
    <3>3. QED
      BY <3>1, <3>2, <2>1
  <2>6. ASSUME NEW i \in Ids PROVE IsFiniteSet(InHand(reg', i))
    <3>1. IsFiniteSet({w} \X Of(K, i))
      BY <2>4, OfFinite, FS_Singleton, FS_Product
    <3>2. IsFiniteSet(InHand(reg, i) \cup ({w} \X Of(K, i)))
      BY <3>1, <1>0, FS_Union DEF KeysFinite
    <3>3. InHand(reg', i) \subseteq InHand(reg, i) \cup ({w} \X Of(K, i))
      BY <2>1, HandMore
    <3>4. QED
      BY <3>2, <3>3, FS_Subset
  <2>7. KeysFinite'
    BY <2>5, <2>6 DEF KeysFinite
  <2>8. QED
    BY <2>2, <2>3, <2>7 DEF TypeInv
<1>7. ASSUME NEW w \in Workers, AckWrite(w) PROVE TypeInv'
  <2> DEFINE d == reg[w].cur
  <2>1. /\ d \in reg[w].todo /\ d \in Deliveries /\ d[1] \in Ids
        /\ Typed /\ Others(w) /\ Stats /\ pc'[w] = "ack_count"
        /\ reg'[w].todo = reg[w].todo \ {d} /\ reg'[w].cur = d
        /\ inflight' = Delete(inflight, {d}) /\ pending' = pending /\ dlq' = dlq
        /\ reaping' = reaping /\ seq' = seq /\ sent' = sent /\ acked' = acked /\ expired' = expired
        /\ doubled' = DeletedElsewhere(d)
    BY <1>7, AckWriteStep
  <2>2. doubled' \in [Ids -> Nat]
    BY <2>1, <1>0 DEF DeletedElsewhere, TypeOK
  <2>3. inflight' \subseteq Records
    BY <2>1, <1>0 DEF Delete, TypeOK
  <2>4. TypeOK'
    BY <2>1, <2>2, <2>3, <1>0 DEF Typed, Stats, TypeOK
  <2>5. Controls'
    BY <2>1, <1>0, ControlsKept
  <2>6. Keys(inflight') = Keys(inflight) \ {d}
    BY <2>1, KeysDelete
  <2>7. IsFiniteSet(Keys(inflight'))
    BY <2>6, <1>0, FS_Difference DEF KeysFinite
  <2>8. ASSUME NEW i \in Ids PROVE IsFiniteSet(InHand(reg', i))
    <3>1. InHand(reg', i) \subseteq InHand(reg, i)
      BY <2>1, HandLess
    <3>2. QED
      BY <3>1, <1>0, FS_Subset DEF KeysFinite
  <2>9. KeysFinite'
    BY <2>1, <2>7, <2>8, <1>0 DEF KeysFinite
  <2>10. QED
    BY <2>4, <2>5, <2>9 DEF TypeInv
<1>8. ASSUME NEW w \in Workers, AckCount(w) PROVE TypeInv'
  <2> DEFINE d == reg[w].cur
  <2>1. /\ d[1] \in Ids /\ Typed /\ Others(w) /\ Stores /\ Stats /\ pc'[w] = "serve"
        /\ reg'[w].todo = reg[w].todo /\ seq' = seq /\ sent' = sent
        /\ expired' = expired /\ doubled' = doubled
        /\ acked' = [acked EXCEPT ![d[1]] = @ + 1]
    BY <1>8, AckCountStep
  <2>2. acked' \in [Ids -> Nat]
    BY <2>1, <1>0 DEF TypeOK
  <2>3. TypeOK'
    BY <2>1, <2>2, <1>0 DEF Typed, Stats, Stores, TypeOK
  <2>4. Controls'
    BY <2>1, <1>0, ControlsKept
  <2>5. KeysFinite'
    BY <2>1, <1>0, FiniteKept
  <2>6. QED
    BY <2>3, <2>4, <2>5 DEF TypeInv
<1>9. ASSUME NEW w \in Workers, NackWrite(w) PROVE TypeInv'
  <2> DEFINE d == reg[w].cur
  <2>1. /\ d \in reg[w].todo /\ d \in Deliveries /\ d[1] \in Ids
        /\ Typed /\ Others(w) /\ Stats /\ pc'[w] = "serve"
        /\ reg'[w].todo = reg[w].todo \ {d}
        /\ pending' \subseteq Records /\ inflight' \subseteq Records /\ dlq' \subseteq Records
        /\ Keys(inflight') = Keys(inflight) \ {d}
        /\ \/ Keys(pending') = Keys(pending) \cup {FreshKey(w)}
           \/ Keys(pending') = Keys(pending)
        /\ reaping' = reaping /\ seq' = seq /\ sent' = sent /\ acked' = acked /\ expired' = expired
        /\ doubled' = PutTwice(d)
    BY <1>9, NackWriteStep
  <2>2. doubled' \in [Ids -> Nat]
    BY <2>1, <1>0 DEF PutTwice, TypeOK
  <2>3. TypeOK'
    BY <2>1, <2>2, <1>0 DEF Typed, Stats, TypeOK
  <2>4. Controls'
    BY <2>1, <1>0, ControlsKept
  <2>5. IsFiniteSet(Keys(inflight'))
    <3>1. IsFiniteSet(Keys(inflight) \ {d})
      BY <1>0, FiniteStays DEF KeysFinite
    <3>2. QED
      BY <3>1, <2>1
  <2>6. IsFiniteSet(Keys(pending'))
    <3>1. IsFiniteSet(Keys(pending)) /\ IsFiniteSet(Keys(pending) \cup {FreshKey(w)})
      BY <1>0, FiniteStays DEF KeysFinite
    <3>2. QED
      BY <3>1, <2>1
  <2>7. ASSUME NEW i \in Ids PROVE IsFiniteSet(InHand(reg', i))
    <3>1. InHand(reg', i) \subseteq InHand(reg, i)
      BY <2>1, HandLess
    <3>2. QED
      BY <3>1, <1>0, FS_Subset DEF KeysFinite
  <2>8. KeysFinite'
    BY <2>1, <2>5, <2>6, <2>7, <1>0 DEF KeysFinite
  <2>9. QED
    BY <2>3, <2>4, <2>8 DEF TypeInv
\* The steps of the others leave the workers alone.
<1>c. ASSUME reg' = reg, pc' = pc, Stats, pending' \subseteq Records, inflight' \subseteq Records,
             dlq' = dlq, reaping' \subseteq Records, seq' \in [Tenants -> Nat],
             sent' \subseteq Ids, acked' = acked, expired' \in [Ids -> 0 .. MaxExpiries],
             doubled' \in [Ids -> Nat], IsFiniteSet(Keys(pending')), IsFiniteSet(Keys(inflight')),
             IsFiniteSet(Keys(reaping'))
      PROVE  TypeInv'
  <2>1. TypeOK'
    BY <1>c, <1>0 DEF Stats, TypeOK
  <2>2. Controls'
    BY <1>c, <1>0 DEF Controls
  <2>3. KeysFinite'
    BY <1>c, <1>0 DEF KeysFinite
  <2>4. QED
    BY <2>1, <2>2, <2>3 DEF TypeInv
<1>d. /\ pending \subseteq Records /\ inflight \subseteq Records /\ reaping \subseteq Records
      /\ seq \in [Tenants -> Nat] /\ sent \subseteq Ids /\ expired \in [Ids -> 0 .. MaxExpiries]
      /\ doubled \in [Ids -> Nat] /\ IsFiniteSet(Keys(pending)) /\ IsFiniteSet(Keys(inflight))
      /\ IsFiniteSet(Keys(reaping))
  BY <1>0 DEF TypeOK, KeysFinite
<1>10. ASSUME NEW i \in Ids, Enqueue(i) PROVE TypeInv'
  <2>1. /\ sent' = sent \cup {i} /\ pending' \subseteq Records /\ seq' \in [Tenants -> Nat]
        /\ Keys(pending') = Keys(pending) \cup {<<i, seq[TenantOf[i]]>>}
        /\ inflight' = inflight /\ dlq' = dlq /\ reaping' = reaping
        /\ pc' = pc /\ reg' = reg /\ Counts /\ Stats
    BY <1>10, EnqueueStep
  <2>2. IsFiniteSet(Keys(pending'))
    <3>1. IsFiniteSet(Keys(pending) \cup {<<i, seq[TenantOf[i]]>>})
      BY <1>d, FiniteStays
    <3>2. QED
      BY <3>1, <2>1
  <2>3. QED
    BY <2>1, <2>2, <1>c, <1>d DEF Counts
<1>11. ASSUME NEW r \in inflight, Expire(r) PROVE TypeInv'
  <2>1. /\ inflight' \subseteq Records /\ Keys(inflight') = Keys(inflight)
        /\ expired' \in [Ids -> 0 .. MaxExpiries]
        /\ pending' = pending /\ dlq' = dlq /\ reaping' = reaping /\ seq' = seq /\ sent' = sent
        /\ pc' = pc /\ reg' = reg /\ acked' = acked /\ doubled' = doubled /\ Stats
    BY <1>11, ExpireStep
  <2>2. QED
    BY <2>1, <1>c, <1>d
<1>12. ASSUME NEW t \in Tenants, NEW q \in Queues, ReapScan(t, q) PROVE TypeInv'
  <2>1. /\ reaping' \subseteq Records /\ Keys(reaping') \subseteq LateKeys(inflight)
        /\ pending' = pending /\ inflight' = inflight /\ dlq' = dlq /\ seq' = seq /\ sent' = sent
        /\ pc' = pc /\ reg' = reg /\ Counts /\ Stats
    BY <1>12, ReapScanStep
  <2>2. Keys(reaping') \subseteq Keys(inflight)
    BY <2>1, <1>d, KeysTyped
  <2>3. IsFiniteSet(Keys(reaping'))
    BY <2>2, <1>d, FS_Subset
  <2>4. QED
    BY <2>1, <2>3, <1>c, <1>d DEF Counts
<1>13. CASE ReapWrite
  <2>1. /\ pending' \subseteq Records /\ inflight' \subseteq Records /\ reaping' = {}
        /\ Keys(pending') = Keys(pending) \cup Keys(reaping)
        /\ Keys(inflight') = Keys(inflight) \ Keys(reaping) /\ doubled' \in [Ids -> Nat]
        /\ dlq' = dlq /\ seq' = seq /\ sent' = sent /\ acked' = acked /\ expired' = expired
        /\ pc' = pc /\ reg' = reg /\ Stats
    BY <1>13, ReapWriteStep
  <2>2. IsFiniteSet(Keys(pending')) /\ IsFiniteSet(Keys(inflight'))
    <3>1. /\ IsFiniteSet(Keys(pending) \cup Keys(reaping))
          /\ IsFiniteSet(Keys(inflight) \ Keys(reaping))
      BY <1>d, FiniteStays
    <3>2. QED
      BY <3>1, <2>1
  <2>3. Keys(reaping') = {}
    BY <2>1 DEF Keys
  <2>4. IsFiniteSet(Keys(reaping'))
    BY <2>3, FS_EmptySet
  <2>5. reaping' \subseteq Records
    BY <2>1
  <2>6. QED
    BY <2>1, <2>2, <2>4, <2>5, <1>c, <1>d
<1>14. ASSUME NEW t \in Tenants, Refresh(t) \/ FallDormant(t) PROVE TypeInv'
  <2>1. TypeOK'
    BY <1>14, <1>0 DEF Refresh, FallDormant, storeVars, historyVars, TypeOK
  <2>2. Controls' /\ KeysFinite'
    BY <1>14, <1>0 DEF Refresh, FallDormant, storeVars, Controls, KeysFinite
  <2>3. QED
    BY <2>1, <2>2 DEF TypeInv
<1>15. QED
  <2>1. CASE Next
    BY <2>1, Steps, <1>2, <1>3, <1>4, <1>5, <1>6, <1>7, <1>8, <1>9, <1>10, <1>11, <1>12, <1>13, <1>14
  <2>2. QED
    BY <2>1, <1>1

(***************************************************************************)
(* Keys are drawn once, and where they are                                 *)
(***************************************************************************)
InUse == Keys(pending) \cup Keys(inflight) \cup Keys(reaping)

LEMMA InUseTyped ==
  ASSUME TypeOK, NEW d \in InUse
  PROVE  d \in Deliveries /\ d[1] \in Ids /\ d[2] \in Nat /\ d = <<d[1], d[2]>>
         /\ TenantOf[d[1]] \in Tenants
<1>1. d \in Deliveries
  BY KeysTyped DEF InUse, TypeOK
<1>2. QED
  BY <1>1, TenantsFinite DEF Deliveries

\* A step of a worker that does not draw a key: one that it had drawn comes into use.
LEMMA DrawnKept ==
  ASSUME Drawn, NEW w \in Workers, Others(w), pc'[w] # "nack_write", seq' = seq,
         \A d \in InUse' : d \in InUse \/ (Drawing(w) /\ d = FreshKey(w))
  PROVE  Drawn'
<1>1. \A d \in InUse : d[2] < seq[TenantOf[d[1]]]
  BY DEF Drawn, InUse
<1>2. ASSUME NEW v \in Workers, Drawing(v)
      PROVE  /\ reg[v].fresh < seq[TenantOf[reg[v].cur[1]]] /\ FreshKey(v) \notin InUse
             /\ \A x \in Workers \ {v} : Drawing(x) => FreshKey(x) # FreshKey(v)
  BY <1>2 DEF Drawn, InUse
<1>3. ASSUME NEW d \in InUse' PROVE d[2] < seq'[TenantOf[d[1]]]
  <2>1. CASE d \in InUse
    BY <2>1, <1>1
  <2>2. CASE Drawing(w) /\ d = FreshKey(w)
    BY <2>2, <1>2 DEF FreshKey
  <2>3. QED
    BY <2>1, <2>2
<1>4. \A v \in Workers : Drawing(v)' => v # w /\ Drawing(v) /\ FreshKey(v)' = FreshKey(v)
                                       /\ reg'[v] = reg[v]
  BY DEF Drawing, FreshKey, Others
<1>5. ASSUME NEW v \in Workers, Drawing(v)'
      PROVE  /\ reg'[v].fresh < seq'[TenantOf[reg'[v].cur[1]]] /\ FreshKey(v)' \notin InUse'
             /\ \A x \in Workers \ {v} : Drawing(x)' => FreshKey(x)' # FreshKey(v)'
  <2>1. v # w /\ Drawing(v) /\ FreshKey(v)' = FreshKey(v) /\ reg'[v] = reg[v]
    BY <1>4, <1>5
  <2>2. reg'[v].fresh < seq'[TenantOf[reg'[v].cur[1]]]
    BY <2>1, <1>2
  <2>3. FreshKey(v)' \notin InUse'
    BY <2>1, <1>2
  <2>4. \A x \in Workers \ {v} : Drawing(x)' => FreshKey(x)' # FreshKey(v)'
    BY <2>1, <1>2, <1>4
  <2>5. QED
    BY <2>2, <2>3, <2>4
<1>6. QED
  BY <1>3, <1>5 DEF Drawn, InUse

\* A step that draws a key: for worker w, or for a task that comes to be pending.
LEMMA DrawnNext ==
  ASSUME TypeOK, Drawn, NEW t \in Tenants, seq' = [seq EXCEPT ![t] = @ + 1],
         \A d \in InUse' : d \in InUse \/ (d[2] = seq[t] /\ TenantOf[d[1]] = t),
         \A v \in Workers : Drawing(v)' =>
           \/ Drawing(v) /\ reg'[v] = reg[v]
           \/ reg'[v].fresh = seq[t] /\ TenantOf[reg'[v].cur[1]] = t /\ InUse' = InUse,
         \A v, x \in Workers : Drawing(v)' /\ Drawing(x)' /\ v # x =>
           \/ Drawing(v) /\ reg'[v] = reg[v]
           \/ Drawing(x) /\ reg'[x] = reg[x]
  PROVE  Drawn'
<1>0. seq \in [Tenants -> Nat] /\ seq[t] \in Nat /\ seq'[t] = seq[t] + 1
      /\ \A u \in Tenants : u # t => seq'[u] = seq[u]
  BY DEF TypeOK
<1>1. \A d \in InUse : d[2] < seq[TenantOf[d[1]]] /\ d[2] \in Nat /\ TenantOf[d[1]] \in Tenants
  BY InUseTyped DEF Drawn, InUse
<1>2. ASSUME NEW v \in Workers, Drawing(v)
      PROVE  /\ reg[v].fresh < seq[TenantOf[reg[v].cur[1]]] /\ FreshKey(v) \notin InUse
             /\ reg[v].fresh \in Nat
             /\ \A x \in Workers \ {v} : Drawing(x) => FreshKey(x) # FreshKey(v)
  BY <1>2, RegFields DEF Drawn, InUse
<1>3. ASSUME NEW d \in InUse' PROVE d[2] < seq'[TenantOf[d[1]]]
  <2>1. CASE d \in InUse
    <3>1. d[2] < seq[TenantOf[d[1]]] /\ d[2] \in Nat /\ TenantOf[d[1]] \in Tenants
      BY <2>1, <1>1
    <3>2. CASE TenantOf[d[1]] = t
      BY <3>1, <3>2, <1>0
    <3>3. CASE TenantOf[d[1]] # t
      BY <3>1, <3>3, <1>0
    <3>4. QED
      BY <3>2, <3>3
  <2>2. CASE d[2] = seq[t] /\ TenantOf[d[1]] = t
    BY <2>2, <1>0
  <2>3. QED
    BY <2>1, <2>2
\* An old key is smaller than what its tenant draws now.
<1>4. ASSUME NEW v \in Workers, Drawing(v), reg'[v] = reg[v]
      PROVE  /\ FreshKey(v)' = FreshKey(v)
             /\ TenantOf[reg[v].cur[1]] = t => reg[v].fresh < seq[t]
  BY <1>2, <1>4 DEF FreshKey
<1>5. ASSUME NEW v \in Workers, Drawing(v)'
      PROVE  /\ reg'[v].fresh < seq'[TenantOf[reg'[v].cur[1]]] /\ FreshKey(v)' \notin InUse'
             /\ \A x \in Workers \ {v} : Drawing(x)' => FreshKey(x)' # FreshKey(v)'
  <2>1. CASE Drawing(v) /\ reg'[v] = reg[v]
    <3>1. /\ reg[v].fresh < seq[TenantOf[reg[v].cur[1]]] /\ reg[v].fresh \in Nat
          /\ FreshKey(v)' = FreshKey(v)
      BY <2>1, <1>2, <1>4
    <3>2. reg'[v].fresh < seq'[TenantOf[reg'[v].cur[1]]]
      <4>1. CASE TenantOf[reg[v].cur[1]] = t
        BY <4>1, <2>1, <3>1, <1>0
      <4>2. CASE TenantOf[reg[v].cur[1]] # t
        BY <4>2, <2>1, <3>1 DEF TypeOK
      <4>3. QED
        BY <4>1, <4>2
    <3>3. FreshKey(v)' \notin InUse'
      <4> SUFFICES ASSUME FreshKey(v) \in InUse' PROVE FALSE
        BY <3>1
      <4>1. FreshKey(v) \notin InUse
        BY <2>1, <1>2
      <4>2. reg[v].fresh = seq[t] /\ TenantOf[reg[v].cur[1]] = t
        BY <4>1 DEF FreshKey
      <4>3. QED
        BY <4>2, <3>1, <1>0
    <3>4. ASSUME NEW x \in Workers \ {v}, Drawing(x)' PROVE FreshKey(x)' # FreshKey(v)'
      <4>1. CASE Drawing(x) /\ reg'[x] = reg[x]
        BY <4>1, <2>1, <3>1, <1>2, <1>4
      <4>2. CASE reg'[x].fresh = seq[t] /\ TenantOf[reg'[x].cur[1]] = t
        <5> SUFFICES ASSUME FreshKey(x)' = FreshKey(v) PROVE FALSE
          BY <3>1
        <5>1. reg[v].fresh = seq[t] /\ TenantOf[reg[v].cur[1]] = t
          BY <4>2 DEF FreshKey
        <5>2. QED
          BY <5>1, <3>1, <1>0
      <4>3. QED
        BY <4>1, <4>2, <3>4
    <3>5. QED
      BY <3>2, <3>3, <3>4
  <2>2. CASE reg'[v].fresh = seq[t] /\ TenantOf[reg'[v].cur[1]] = t /\ InUse' = InUse
    <3>1. reg'[v].fresh < seq'[TenantOf[reg'[v].cur[1]]]
      BY <2>2, <1>0
    <3>2. FreshKey(v)' \notin InUse'
      <4> SUFFICES ASSUME FreshKey(v)' \in InUse PROVE FALSE
        BY <2>2
      <4>1. PICK d \in InUse : d = FreshKey(v)'
        OBVIOUS
      <4>2. d[2] = seq[t] /\ TenantOf[d[1]] = t
        BY <4>1, <2>2 DEF FreshKey
      <4>3. QED
        BY <4>2, <1>0, <1>1
    <3>3. ASSUME NEW x \in Workers \ {v}, Drawing(x)' PROVE FreshKey(x)' # FreshKey(v)'
      <4>1. CASE Drawing(x) /\ reg'[x] = reg[x]
        <5> SUFFICES ASSUME FreshKey(x) = FreshKey(v)' PROVE FALSE
          BY <4>1, <1>4
        <5>1. reg[x].fresh = seq[t] /\ TenantOf[reg[x].cur[1]] = t
          BY <2>2 DEF FreshKey
        <5>2. QED
          BY <5>1, <4>1, <1>0, <1>2
      <4>2. CASE Drawing(v) /\ reg'[v] = reg[v]
        <5>1. reg[v].fresh < seq[t] /\ reg[v].fresh = seq[t]
          BY <4>2, <2>2, <1>2
        <5>2. QED
          BY <5>1, <1>0
      <4>3. QED
        BY <4>1, <4>2, <1>5, <3>3
    <3>4. QED
      BY <3>1, <3>2, <3>3
  <2>3. QED
    BY <2>1, <2>2, <1>5
<1>6. QED
  BY <1>3, <1>5 DEF Drawn, InUse

LEMMA QueueHeldKept ==
  ASSUME QueueHeld, NEW w \in Workers, Others(w),
         pc'[w] = "dequeue" =>
           /\ Keys(reg'[w].found) \subseteq Keys(pending')
           /\ \A x \in Workers : pc[x] = "dequeue" => Keys(reg[x].found) \cap Keys(reg'[w].found) = {},
         \A v \in Workers : v # w /\ pc[v] = "dequeue" => Keys(reg[v].found) \subseteq Keys(pending')
  PROVE  QueueHeld'
<1> SUFFICES ASSUME NEW v \in Workers, pc'[v] = "dequeue"
             PROVE  /\ Keys(reg'[v].found) \subseteq Keys(pending')
                    /\ \A x \in Workers \ {v} : pc'[x] = "dequeue" =>
                         Keys(reg'[x].found) \cap Keys(reg'[v].found) = {}
  BY DEF QueueHeld
<1>1. \A x \in Workers : x # w => reg'[x] = reg[x] /\ pc'[x] = pc[x]
  BY DEF Others
<1>2. CASE v = w
  BY <1>1, <1>2
<1>3. CASE v # w
  <2>1. Keys(reg'[v].found) \subseteq Keys(pending')
    BY <1>1, <1>3
  <2>2. ASSUME NEW x \in Workers \ {v}, pc'[x] = "dequeue"
        PROVE  Keys(reg'[x].found) \cap Keys(reg'[v].found) = {}
    <3>1. CASE x = w
      BY <3>1, <2>2, <1>1, <1>3
    <3>2. CASE x # w
      BY <3>2, <2>2, <1>1, <1>3 DEF QueueHeld
    <3>3. QED
      BY <3>1, <3>2
  <2>3. QED
    BY <2>1, <2>2
<1>4. QED
  BY <1>2, <1>3

LEMMA KeysStep == TypeInv /\ KeyInv /\ [Next]_vars => KeyInv'
<1> SUFFICES ASSUME TypeInv, KeyInv, [Next]_vars PROVE KeyInv'
  OBVIOUS
<1>0. TypeOK /\ Controls /\ Apart /\ Drawn /\ QueueHeld
  BY DEF TypeInv, KeyInv
<1>1. CASE UNCHANGED vars
  BY <1>0, <1>1 DEF vars, storeVars, KeyInv, Apart, Drawn, QueueHeld, Drawing, FreshKey
\* A step of a worker that leaves the store alone and draws no key.
<1>a. ASSUME Stores, seq' = seq, NEW w \in Workers, Others(w), pc'[w] # "nack_write",
             pc'[w] = "dequeue" =>
               /\ Keys(reg'[w].found) \subseteq Keys(pending)
               /\ \A x \in Workers : pc[x] = "dequeue" => Keys(reg[x].found) \cap Keys(reg'[w].found) = {}
      PROVE  KeyInv'
  <2>1. Apart' /\ InUse' = InUse
    BY <1>a, <1>0 DEF Apart, Stores, InUse
  <2>2. Drawn'
    BY <2>1, <1>a, <1>0, DrawnKept
  <2>3. QueueHeld'
    <3>1. \A v \in Workers : pc[v] = "dequeue" => Keys(reg[v].found) \subseteq Keys(pending)
      BY <1>0 DEF QueueHeld
    <3>2. QED
      BY <3>1, <1>a, <1>0, QueueHeldKept DEF Stores
  <2>4. QED
    BY <2>1, <2>2, <2>3 DEF KeyInv
<1>2. ASSUME NEW w \in Workers, Quiet(w) PROVE KeyInv'
  <2>1. /\ Idle /\ Others(w) /\ pc'[w] \in {"tick", "filter", "serve", "dequeue", "ack", "nack"}
        /\ pc'[w] = "dequeue" =>
              /\ Keys(reg'[w].found) \subseteq Keys(pending)
              /\ \A x \in Workers : pc[x] = "dequeue" =>
                   Keys(reg[x].found) \cap Keys(reg'[w].found) = {}
    BY <1>2, QuietStep
  <2>2. QED
    BY <2>1, <1>a DEF Idle
<1>3. ASSUME NEW w \in Workers, Absent(w) PROVE KeyInv'
  <2>1. Idle /\ Others(w) /\ pc'[w] = "serve"
    BY <1>3, AbsentStep
  <2>2. QED
    BY <2>1, <1>a DEF Idle
<1>4. ASSUME NEW w \in Workers, AckRead(w), InFlight(reg[w].cur) PROVE KeyInv'
  <2>1. Idle /\ Others(w) /\ pc'[w] = "ack_write"
    BY <1>4, AckReadStep
  <2>2. QED
    BY <2>1, <1>a DEF Idle
<1>5. ASSUME NEW w \in Workers, NackRead(w), InFlight(reg[w].cur) PROVE KeyInv'
  <2> DEFINE t == TenantOf[reg[w].cur[1]]
  <2>1. /\ Stores /\ Others(w) /\ reg'[w].cur = reg[w].cur /\ t \in Tenants
        /\ pc[w] = "nack" /\ pc'[w] = "nack_write"
        /\ \/ reg'[w].fresh = 0 /\ seq' = seq
           \/ reg'[w].fresh = seq[t] /\ seq' = [seq EXCEPT ![t] = @ + 1]
    BY <1>5, NackReadStep
  <2>2. Apart' /\ InUse' = InUse
    BY <2>1, <1>0 DEF Apart, Stores, InUse
  <2>3. QueueHeld'
    <3>1. \A v \in Workers : pc[v] = "dequeue" => Keys(reg[v].found) \subseteq Keys(pending)
      BY <1>0 DEF QueueHeld
    <3>2. QED
      BY <3>1, <2>1, <1>0, QueueHeldKept DEF Stores
  <2>4. \A v \in Workers : v # w => reg'[v] = reg[v] /\ (Drawing(v)' <=> Drawing(v))
                                    /\ FreshKey(v)' = FreshKey(v)
    BY <2>1 DEF Others, Drawing, FreshKey
  <2>5. CASE reg'[w].fresh = 0 /\ seq' = seq
    <3>1. ~Drawing(w)' /\ ~Drawing(w)
      BY <2>1, <2>5 DEF Drawing
    <3>2. Drawn'
      BY <3>1, <2>2, <2>4, <2>5, <1>0 DEF Drawn, InUse
    <3>3. QED
      BY <3>2, <2>2, <2>3 DEF KeyInv
  <2>6. CASE reg'[w].fresh = seq[t] /\ seq' = [seq EXCEPT ![t] = @ + 1]
    <3>1. \A d \in InUse' : d \in InUse
      BY <2>2
    <3>2. \A v \in Workers : Drawing(v)' =>
            \/ Drawing(v) /\ reg'[v] = reg[v]
            \/ reg'[v].fresh = seq[t] /\ TenantOf[reg'[v].cur[1]] = t /\ InUse' = InUse
      BY <2>1, <2>2, <2>4, <2>6
    <3>3. \A v, x \in Workers : Drawing(v)' /\ Drawing(x)' /\ v # x =>
            \/ Drawing(v) /\ reg'[v] = reg[v]
            \/ Drawing(x) /\ reg'[x] = reg[x]
      BY <2>4
    <3> HIDE DEF t
    <3>4. t \in Tenants /\ seq' = [seq EXCEPT ![t] = @ + 1]
      BY <2>1, <2>6 DEF t
    <3>5. Drawn'
      BY <3>1, <3>2, <3>3, <3>4, <1>0, DrawnNext
    <3>6. QED
      BY <3>5, <2>2, <2>3 DEF KeyInv
  <2>7. QED
    BY <2>1, <2>5, <2>6
<1>6. ASSUME NEW w \in Workers, DequeueWrite(w) PROVE KeyInv'
  <2> DEFINE K == Keys(reg[w].found)
  <2>1. /\ Others(w) /\ pc[w] = "dequeue" /\ pc'[w] = "serve"
        /\ Keys(pending') = Keys(pending) \ K /\ Keys(inflight') = Keys(inflight) \cup K
        /\ reaping' = reaping /\ seq' = seq
    BY <1>6, DequeueWriteStep
  <2>2. /\ K \subseteq Keys(pending)
        /\ \A x \in Workers : x # w /\ pc[x] = "dequeue" =>
             Keys(reg[x].found) \subseteq Keys(pending) /\ Keys(reg[x].found) \cap K = {}
    BY <2>1, <1>0 DEF QueueHeld
  <2> HIDE DEF K
  <2>3. Apart'
    BY <2>1, <2>2, <1>0 DEF Apart
  <2>4. \A d \in InUse' : d \in InUse
    BY <2>1, <2>2 DEF InUse
  <2>5. Drawn'
    BY <2>1, <2>4, <1>0, DrawnKept
  <2>6. \A v \in Workers : v # w /\ pc[v] = "dequeue" => Keys(reg[v].found) \subseteq Keys(pending')
    BY <2>1, <2>2
  <2>7. QueueHeld'
    BY <2>1, <2>6, <1>0, QueueHeldKept
  <2>8. QED
    BY <2>3, <2>5, <2>7 DEF KeyInv
<1>b. \A v \in Workers : pc[v] = "dequeue" => Keys(reg[v].found) \subseteq Keys(pending)
  BY <1>0 DEF QueueHeld
<1>7. ASSUME NEW w \in Workers, AckWrite(w) PROVE KeyInv'
  <2>1. /\ Others(w) /\ pc'[w] = "ack_count" /\ inflight' = Delete(inflight, {reg[w].cur})
        /\ pending' = pending /\ reaping' = reaping /\ seq' = seq
    BY <1>7, AckWriteStep
  <2>2. Keys(inflight') \subseteq Keys(inflight)
    BY <2>1, KeysDelete
  <2>3. Apart' /\ \A d \in InUse' : d \in InUse
    BY <2>1, <2>2, <1>0 DEF Apart, InUse
  <2>4. Drawn'
    BY <2>1, <2>3, <1>0, DrawnKept
  <2>5. QueueHeld'
    BY <2>1, <1>0, <1>b, QueueHeldKept
  <2>6. QED
    BY <2>3, <2>4, <2>5 DEF KeyInv
<1>8. ASSUME NEW w \in Workers, AckCount(w) PROVE KeyInv'
  <2>1. Stores /\ seq' = seq /\ Others(w) /\ pc'[w] = "serve"
    BY <1>8, AckCountStep
  <2>2. QED
    BY <2>1, <1>a
<1>9. ASSUME NEW w \in Workers, NackWrite(w) PROVE KeyInv'
  <2>1. /\ Others(w) /\ pc[w] = "nack_write" /\ pc'[w] = "serve"
        /\ Keys(inflight') = Keys(inflight) \ {reg[w].cur} /\ reaping' = reaping /\ seq' = seq
        /\ \/ reg[w].fresh > 0 /\ Keys(pending') = Keys(pending) \cup {FreshKey(w)}
           \/ Keys(pending') = Keys(pending)
    BY <1>9, NackWriteStep
  <2>2. Keys(pending') = Keys(pending) \/ (Drawing(w) /\ Keys(pending') = Keys(pending) \cup {FreshKey(w)})
    BY <2>1 DEF Drawing
  <2>3. Drawing(w) => FreshKey(w) \notin InUse
    BY <1>0 DEF Drawn, InUse
  <2>4. Apart'
    BY <2>1, <2>2, <2>3, <1>0 DEF Apart, InUse
  <2>5. \A d \in InUse' : d \in InUse \/ (Drawing(w) /\ d = FreshKey(w))
    BY <2>1, <2>2 DEF InUse
  <2>6. Drawn'
    BY <2>1, <2>5, <1>0, DrawnKept
  <2>7. QueueHeld'
    BY <2>1, <2>2, <1>0, <1>b, QueueHeldKept
  <2>8. QED
    BY <2>4, <2>6, <2>7 DEF KeyInv
<1>10. ASSUME NEW i \in Ids, Enqueue(i) PROVE KeyInv'
  <2> DEFINE t == TenantOf[i]
  <2>1. /\ t \in Tenants /\ seq[t] \in Nat /\ Keys(pending') = Keys(pending) \cup {<<i, seq[t]>>}
        /\ seq' = [seq EXCEPT ![t] = @ + 1]
        /\ inflight' = inflight /\ reaping' = reaping /\ pc' = pc /\ reg' = reg
    BY <1>10, EnqueueStep
  <2>2. <<i, seq[t]>> \notin InUse
    <3> SUFFICES ASSUME <<i, seq[t]>> \in InUse PROVE FALSE
      OBVIOUS
    <3>1. <<i, seq[t]>>[2] < seq[TenantOf[<<i, seq[t]>>[1]]]
      BY <1>0 DEF Drawn, InUse
    <3>2. QED
      BY <3>1, <2>1
  <2>3. Apart'
    BY <2>1, <2>2, <1>0 DEF Apart, InUse
  <2>4. \A d \in InUse' : d \in InUse \/ (d[2] = seq[t] /\ TenantOf[d[1]] = t)
    BY <2>1 DEF InUse
  <2>5. \A v \in Workers : Drawing(v)' => Drawing(v) /\ reg'[v] = reg[v]
    BY <2>1 DEF Drawing
  <2> HIDE DEF t
  <2>6. Drawn'
    BY <2>1, <2>4, <2>5, <1>0, DrawnNext
  <2>7. QueueHeld'
    BY <2>1, <1>0 DEF QueueHeld
  <2>8. QED
    BY <2>3, <2>6, <2>7 DEF KeyInv
\* The reaper and the clock leave the workers and the counter alone.
<1>c. ASSUME pc' = pc, reg' = reg, seq' = seq, Apart', \A d \in InUse' : d \in InUse,
             Keys(pending) \subseteq Keys(pending')
      PROVE  KeyInv'
  <2>1. Drawn'
    BY <1>c, <1>0 DEF Drawn, InUse, Drawing, FreshKey
  <2>2. QueueHeld'
    BY <1>c, <1>0 DEF QueueHeld
  <2>3. QED
    BY <1>c, <2>1, <2>2 DEF KeyInv
<1>11. ASSUME NEW r \in inflight, Expire(r) PROVE KeyInv'
  <2>1. /\ Keys(inflight') = Keys(inflight) /\ pending' = pending /\ reaping' = reaping
        /\ seq' = seq /\ pc' = pc /\ reg' = reg
    BY <1>11, ExpireStep
  <2>2. Apart' /\ InUse' = InUse
    BY <2>1, <1>0 DEF Apart, InUse
  <2>3. QED
    BY <2>1, <2>2, <1>c
<1>12. ASSUME NEW t \in Tenants, NEW q \in Queues, ReapScan(t, q) PROVE KeyInv'
  <2>1. /\ Keys(reaping') \subseteq LateKeys(inflight) /\ pending' = pending /\ inflight' = inflight
        /\ seq' = seq /\ pc' = pc /\ reg' = reg
    BY <1>12, ReapScanStep
  <2>2. Keys(reaping') \subseteq Keys(inflight)
    BY <2>1, <1>0, KeysTyped DEF TypeOK
  <2>3. Apart' /\ \A d \in InUse' : d \in InUse
    BY <2>1, <2>2, <1>0 DEF Apart, InUse
  <2>4. QED
    BY <2>1, <2>3, <1>c
<1>13. CASE ReapWrite
  <2>1. /\ Keys(pending') = Keys(pending) \cup Keys(reaping)
        /\ Keys(inflight') = Keys(inflight) \ Keys(reaping) /\ reaping' = {}
        /\ seq' = seq /\ pc' = pc /\ reg' = reg
    BY <1>13, ReapWriteStep
  <2>2. Keys(reaping') = {}
    BY <2>1 DEF Keys
  <2>3. Apart' /\ \A d \in InUse' : d \in InUse
    BY <2>1, <2>2, <1>0 DEF Apart, InUse
  <2>4. QED
    BY <2>1, <2>3, <1>c
<1>14. ASSUME NEW t \in Tenants, Refresh(t) \/ FallDormant(t) PROVE KeyInv'
  BY <1>14, <1>0 DEF Refresh, FallDormant, storeVars, KeyInv, Apart, Drawn, QueueHeld, Drawing, FreshKey
<1>15. QED
  <2>1. CASE Next
    BY <2>1, Steps, <1>2, <1>3, <1>4, <1>5, <1>6, <1>7, <1>8, <1>9, <1>10, <1>11, <1>12, <1>13, <1>14
  <2>2. QED
    BY <2>1, <1>1

(***************************************************************************)
(* The ack lock, and what becomes of a task                                *)
(***************************************************************************)
LEMMA StoredIs ==
  ASSUME NEW i
  PROVE  Stored(i) <=> Has(Places, i)
<1> DEFINE F == pending \cup inflight \cup dlq
<1>1. Places = Keys(F)
  BY DEF Places, Keys
<1> HIDE DEF F
<1>2. ASSUME NEW r \in F, r.id = i PROVE Has(Keys(F), i)
  <2>1. <<r.id, r.key>> \in Keys(F) /\ <<r.id, r.key>>[1] = i
    BY <1>2 DEF Keys
  <2>2. QED
    BY <2>1 DEF Has
<1>3. ASSUME NEW d \in Keys(F), d[1] = i PROVE \E r \in F : r.id = i
  <2>1. PICK r \in F : d = <<r.id, r.key>>
    BY DEF Keys
  <2>2. QED
    BY <2>1, <1>3
<1>4. QED
  BY <1>1, <1>2, <1>3 DEF Stored, Has, F

LEMMA CountSame ==
  ASSUME NEW w \in Workers, Others(w), pc[w] # "ack_count", NEW i
  PROVE  /\ Count(pc, reg, i) \subseteq Count(pc', reg', i)
         /\ pc'[w] # "ack_count" => Count(pc', reg', i) = Count(pc, reg, i)
         /\ Count(pc', reg', i) \subseteq Count(pc, reg, i) \cup {w}
         /\ reg'[w].cur[1] # i => Count(pc', reg', i) = Count(pc, reg, i)
<1>1. \A v \in Workers : v # w =>
        (pc'[v] = "ack_count" /\ reg'[v].cur[1] = i <=> pc[v] = "ack_count" /\ reg[v].cur[1] = i)
  BY DEF Others
<1>2. QED
  BY <1>1 DEF Count

LEMMA AckHeldKept ==
  ASSUME AckHeld, NEW w \in Workers, Others(w),
         pc'[w] = "ack_write" =>
           /\ Has(Places', reg'[w].cur[1])
           /\ \A x \in Workers : pc[x] = "ack_write" => reg[x].cur[1] # reg'[w].cur[1],
         \A v \in Workers : v # w /\ pc[v] = "ack_write" => Has(Places', reg[v].cur[1])
  PROVE  AckHeld'
<1>1. \A x \in Workers : x # w => reg'[x] = reg[x] /\ pc'[x] = pc[x]
  BY DEF Others
<1>2. ASSUME NEW v \in Workers, pc'[v] = "ack_write"
      PROVE  /\ Has(Places', reg'[v].cur[1])
             /\ \A x \in Workers \ {v} : pc'[x] = "ack_write" => reg'[x].cur[1] # reg'[v].cur[1]
  <2>1. CASE v = w
    BY <2>1, <1>1, <1>2
  <2>2. CASE v # w
    <3>1. reg'[v] = reg[v] /\ pc[v] = "ack_write"
      BY <2>2, <1>1, <1>2
    <3>2. Has(Places', reg[v].cur[1])
      BY <3>1, <2>2
    <3>3. ASSUME NEW x \in Workers \ {v}, pc'[x] = "ack_write" PROVE reg'[x].cur[1] # reg'[v].cur[1]
      <4>1. CASE x = w
        BY <4>1, <3>1, <3>3
      <4>2. CASE x # w
        BY <4>2, <3>1, <3>3, <1>1 DEF AckHeld
      <4>3. QED
        BY <4>1, <4>2
    <3>4. QED
      BY <3>1, <3>2, <3>3
  <2>3. QED
    BY <2>1, <2>2
<1>3. QED
  BY <1>2 DEF AckHeld

AccountInv == AckHeld /\ Accounted

LEMMA AccountsStep == TypeInv /\ AccountInv /\ [Next]_vars => AccountInv'
<1> SUFFICES ASSUME TypeInv, AccountInv, [Next]_vars PROVE AccountInv'
  OBVIOUS
<1>0. TypeOK /\ Controls /\ AckHeld /\ Accounted
  BY DEF TypeInv, AccountInv
<1>1. CASE UNCHANGED vars
  BY <1>0, <1>1 DEF vars, storeVars, statVars, AccountInv, AckHeld, Accounted, Places, Has, Count
<1>h. \A v \in Workers : pc[v] = "ack_write" => Has(Places, reg[v].cur[1])
  BY <1>0 DEF AckHeld
<1>s. ASSUME Stores PROVE \A j : Has(Places', j) <=> Has(Places, j)
  BY <1>s DEF Stores, Places
\* A step of a worker that counts no ack and after which what was stored still is.
<1>a. ASSUME NEW w \in Workers, Others(w), pc[w] # "ack_count", sent' = sent, acked' = acked,
             \A j : Has(Places, j) => Has(Places', j),
             pc'[w] = "ack_write" =>
               \A x \in Workers : pc[x] = "ack_write" => reg[x].cur[1] # reg'[w].cur[1],
             pc'[w] = "ack_write" => Has(Places', reg'[w].cur[1])
      PROVE  AccountInv'
  <2>1. AckHeld'
    BY <1>a, <1>0, <1>h, AckHeldKept
  <2>2. ASSUME NEW i \in sent PROVE Has(Places', i) \/ Count(pc', reg', i) # {} \/ acked'[i] > 0
    <3>1. Count(pc, reg, i) \subseteq Count(pc', reg', i)
      BY <1>a, CountSame
    <3>2. QED
      BY <3>1, <1>a, <1>0 DEF Accounted
  <2>3. QED
    BY <2>1, <2>2, <1>a DEF AccountInv, Accounted
<1>2. ASSUME NEW w \in Workers, Quiet(w) PROVE AccountInv'
  <2>1. /\ Idle /\ Others(w) /\ pc[w] \in {"tick", "filter", "serve"}
        /\ pc'[w] \in {"tick", "filter", "serve", "dequeue", "ack", "nack"}
    BY <1>2, QuietStep
  <2>2. QED
    BY <2>1, <1>a, <1>s DEF Idle, Counts
<1>3. ASSUME NEW w \in Workers, Absent(w) PROVE AccountInv'
  <2>1. Idle /\ Others(w) /\ pc[w] \in {"ack", "nack"} /\ pc'[w] = "serve"
    BY <1>3, AbsentStep
  <2>2. QED
    BY <2>1, <1>a, <1>s DEF Idle, Counts
<1>4. ASSUME NEW w \in Workers, AckRead(w), InFlight(reg[w].cur) PROVE AccountInv'
  <2>1. /\ Idle /\ Others(w) /\ reg' = reg /\ pc[w] = "ack" /\ pc'[w] = "ack_write"
        /\ reg[w].cur \in Keys(inflight)
        /\ \A x \in Workers : pc[x] = "ack_write" => reg[x].cur[1] # reg[w].cur[1]
    BY <1>4, AckReadStep
  <2>2. Has(Places, reg[w].cur[1])
    BY <2>1 DEF Places, Has
  <2>3. \A j : Has(Places', j) <=> Has(Places, j)
    BY <2>1, <1>s DEF Idle
  <2>4. QED
    BY <2>1, <2>2, <2>3, <1>a DEF Idle, Counts
<1>5. ASSUME NEW w \in Workers, NackRead(w), InFlight(reg[w].cur) PROVE AccountInv'
  <2>1. Stores /\ Counts /\ sent' = sent /\ Others(w) /\ pc[w] = "nack" /\ pc'[w] = "nack_write"
    BY <1>5, NackReadStep
  <2>2. QED
    BY <2>1, <1>a, <1>s DEF Counts
<1>6. ASSUME NEW w \in Workers, DequeueWrite(w) PROVE AccountInv'
  <2> DEFINE K == Keys(reg[w].found)
  <2>1. /\ Counts /\ Others(w) /\ pc[w] = "dequeue" /\ pc'[w] = "serve"
        /\ Keys(pending') = Keys(pending) \ K /\ Keys(inflight') = Keys(inflight) \cup K
        /\ dlq' = dlq /\ sent' = sent
    BY <1>6, DequeueWriteStep
  <2> HIDE DEF K
  <2>2. Places \subseteq Places'
    BY <2>1 DEF Places
  <2>3. \A j : Has(Places, j) => Has(Places', j)
    BY <2>2 DEF Has
  <2>4. QED
    BY <2>1, <2>3, <1>a DEF Counts
<1>7. ASSUME NEW w \in Workers, AckWrite(w) PROVE AccountInv'
  <2> DEFINE d == reg[w].cur
  <2>1. /\ Others(w) /\ pc[w] = "ack_write" /\ pc'[w] = "ack_count" /\ reg'[w].cur = d
        /\ inflight' = Delete(inflight, {d}) /\ pending' = pending /\ dlq' = dlq
        /\ sent' = sent /\ acked' = acked
    BY <1>7, AckWriteStep
  <2>2. Keys(inflight') = Keys(inflight) \ {d}
    BY <2>1, KeysDelete
  <2>3. \A e \in Places : e # d => e \in Places'
    BY <2>1, <2>2 DEF Places
  <2>4. \A j : j # d[1] /\ Has(Places, j) => Has(Places', j)
    BY <2>3 DEF Has
  <2>5. \A v \in Workers : v # w /\ pc[v] = "ack_write" => Has(Places', reg[v].cur[1])
    BY <2>1, <2>4, <1>0, <1>h DEF AckHeld
  <2>6. AckHeld'
    BY <2>1, <2>5, <1>0, AckHeldKept
  <2>7. ASSUME NEW i \in sent PROVE Has(Places', i) \/ Count(pc', reg', i) # {} \/ acked'[i] > 0
    <3>1. CASE i = d[1]
      <4>1. w \in Count(pc', reg', i)
        BY <2>1, <3>1 DEF Count
      <4>2. QED
        BY <4>1
    <3>2. CASE i # d[1]
      <4>1. Count(pc, reg, i) \subseteq Count(pc', reg', i)
        BY <2>1, CountSame
      <4>2. QED
        BY <4>1, <3>2, <2>1, <2>4, <1>0 DEF Accounted
    <3>3. QED
      BY <3>1, <3>2
  <2>8. QED
    BY <2>1, <2>6, <2>7 DEF AccountInv, Accounted
<1>8. ASSUME NEW w \in Workers, AckCount(w) PROVE AccountInv'
  <2> DEFINE d == reg[w].cur
  <2>1. /\ d[1] \in Ids /\ Others(w) /\ Stores /\ pc[w] = "ack_count" /\ pc'[w] = "serve"
        /\ sent' = sent /\ acked' = [acked EXCEPT ![d[1]] = @ + 1]
    BY <1>8, AckCountStep
  <2>2. \A j : Has(Places', j) <=> Has(Places, j)
    BY <2>1, <1>s
  <2>3. \A v \in Workers : v # w /\ pc[v] = "ack_write" => Has(Places', reg[v].cur[1])
    BY <2>2, <1>h
  <2>4. AckHeld'
    BY <2>1, <2>3, <1>0, AckHeldKept
  <2>5. acked \in [Ids -> Nat] /\ sent \subseteq Ids
    BY <1>0 DEF TypeOK
  <2>6. ASSUME NEW i \in sent PROVE Has(Places', i) \/ Count(pc', reg', i) # {} \/ acked'[i] > 0
    <3>1. CASE i = d[1]
      BY <3>1, <2>1, <2>5
    <3>2. CASE i # d[1]
      <4>1. Count(pc, reg, i) \subseteq Count(pc', reg', i)
        BY <3>2, <2>1 DEF Count, Others
      <4>2. acked'[i] = acked[i]
        BY <3>2, <2>1, <2>5
      <4>3. QED
        BY <4>1, <4>2, <2>2, <1>0 DEF Accounted
    <3>3. QED
      BY <3>1, <3>2
  <2>7. QED
    BY <2>1, <2>4, <2>6 DEF AccountInv, Accounted
<1>9. ASSUME NEW w \in Workers, NackWrite(w) PROVE AccountInv'
  <2> DEFINE d == reg[w].cur
  <2>1. /\ Others(w) /\ pc[w] = "nack_write" /\ pc'[w] = "serve" /\ sent' = sent /\ acked' = acked
        /\ Keys(inflight') = Keys(inflight) \ {d}
        /\ \/ Keys(pending') = Keys(pending) \cup {FreshKey(w)} /\ Keys(dlq') = Keys(dlq)
           \/ Keys(pending') = Keys(pending) /\ Keys(dlq') = Keys(dlq) \cup {d}
    BY <1>9, NackWriteStep
  <2>2. \A e \in Places : e # d => e \in Places'
    BY <2>1 DEF Places
  <2>3. \E e \in Places' : e[1] = d[1]
    <3>1. FreshKey(w) \in Places' \/ d \in Places'
      BY <2>1 DEF Places
    <3>2. FreshKey(w)[1] = d[1]
      BY DEF FreshKey
    <3>3. QED
      BY <3>1, <3>2
  <2>4. \A j : Has(Places, j) => Has(Places', j)
    BY <2>2, <2>3 DEF Has
  <2>5. QED
    BY <2>1, <2>4, <1>a
\* The steps of the others leave the workers and the acks alone.
<1>b. ASSUME pc' = pc, reg' = reg, acked' = acked, Places \subseteq Places',
             \A i \in sent' : i \in sent \/ Has(Places', i)
      PROVE  AccountInv'
  <2>1. \A j : Has(Places, j) => Has(Places', j)
    BY <1>b DEF Has
  <2>2. AckHeld'
    BY <2>1, <1>b, <1>0 DEF AckHeld
  <2>3. Accounted'
    BY <2>1, <1>b, <1>0 DEF Accounted, Count
  <2>4. QED
    BY <2>2, <2>3 DEF AccountInv
<1>10. ASSUME NEW i \in Ids, Enqueue(i) PROVE AccountInv'
  <2> DEFINE k == <<i, seq[TenantOf[i]]>>
  <2>1. /\ sent' = sent \cup {i} /\ Keys(pending') = Keys(pending) \cup {k}
        /\ inflight' = inflight /\ dlq' = dlq /\ pc' = pc /\ reg' = reg /\ acked' = acked
    BY <1>10, EnqueueStep DEF Counts
  <2>2. k[1] = i
    OBVIOUS
  <2> HIDE DEF k
  <2>3. Places \subseteq Places' /\ k \in Places'
    BY <2>1 DEF Places
  <2>4. Has(Places', i)
    BY <2>2, <2>3 DEF Has
  <2>5. QED
    BY <2>1, <2>3, <2>4, <1>b
<1>11. ASSUME NEW r \in inflight, Expire(r) PROVE AccountInv'
  <2>1. /\ Keys(inflight') = Keys(inflight) /\ pending' = pending /\ dlq' = dlq
        /\ pc' = pc /\ reg' = reg /\ acked' = acked /\ sent' = sent
    BY <1>11, ExpireStep
  <2>2. Places \subseteq Places'
    BY <2>1 DEF Places
  <2>3. QED
    BY <2>1, <2>2, <1>b
<1>12. ASSUME NEW t \in Tenants, NEW q \in Queues, ReapScan(t, q) PROVE AccountInv'
  <2>1. /\ pending' = pending /\ inflight' = inflight /\ dlq' = dlq
        /\ pc' = pc /\ reg' = reg /\ acked' = acked /\ sent' = sent
    BY <1>12, ReapScanStep DEF Counts
  <2>2. Places \subseteq Places'
    BY <2>1 DEF Places
  <2>3. QED
    BY <2>1, <2>2, <1>b
<1>13. CASE ReapWrite
  <2>1. /\ Keys(pending') = Keys(pending) \cup Keys(reaping)
        /\ Keys(inflight') = Keys(inflight) \ Keys(reaping) /\ dlq' = dlq
        /\ pc' = pc /\ reg' = reg /\ acked' = acked /\ sent' = sent
    BY <1>13, ReapWriteStep
  <2>2. Places \subseteq Places'
    BY <2>1 DEF Places
  <2>3. QED
    BY <2>1, <2>2, <1>b
<1>14. ASSUME NEW t \in Tenants, Refresh(t) \/ FallDormant(t) PROVE AccountInv'
  <2>1. /\ pending' = pending /\ inflight' = inflight /\ dlq' = dlq
        /\ pc' = pc /\ reg' = reg /\ acked' = acked /\ sent' = sent
    BY <1>14 DEF Refresh, FallDormant, storeVars
  <2>2. Places \subseteq Places'
    BY <2>1 DEF Places
  <2>3. QED
    BY <2>1, <2>2, <1>b
<1>15. QED
  <2>1. CASE Next
    BY <2>1, Steps, <1>2, <1>3, <1>4, <1>5, <1>6, <1>7, <1>8, <1>9, <1>10, <1>11, <1>12, <1>13, <1>14
  <2>2. QED
    BY <2>1, <1>1

(***************************************************************************)
(* The balance                                                             *)
(***************************************************************************)
LEMMA Sizes ==
  ASSUME NEW S, IsFiniteSet(S), NEW T, IsFiniteSet(T)
  PROVE  /\ Cardinality(S) \in Nat /\ Cardinality(T) \in Nat
         /\ S \subseteq T => Cardinality(S) <= Cardinality(T)
         /\ S \cap T = {} => Cardinality(S \cup T) = Cardinality(S) + Cardinality(T)
         /\ S \subseteq T => Cardinality(T \ S) = Cardinality(T) - Cardinality(S)
         /\ \A V \in SUBSET (S \cup T) : /\ Cardinality(V) \in Nat
                                      /\ Cardinality(V) <= Cardinality(S) + Cardinality(T)
<1>1. Cardinality(S) \in Nat /\ Cardinality(T) \in Nat
  BY FS_CardinalityType
<1>2. S \subseteq T => Cardinality(S) <= Cardinality(T)
  BY FS_Subset
<1>3. /\ IsFiniteSet(S \cup T) /\ IsFiniteSet(S \cap T)
      /\ Cardinality(S \cup T) = Cardinality(S) + Cardinality(T) - Cardinality(S \cap T)
  BY FS_Union, FS_Intersection
<1>4. Cardinality(S \cap T) \in Nat
  BY <1>3, FS_CardinalityType
<1>5. S \cap T = {} => Cardinality(S \cup T) = Cardinality(S) + Cardinality(T)
  BY <1>1, <1>3, FS_EmptySet
<1>6. ASSUME S \subseteq T PROVE Cardinality(T \ S) = Cardinality(T) - Cardinality(S)
  <2>1. Cardinality(T \ S) = Cardinality(T) - Cardinality(T \cap S)
    BY FS_Difference
  <2>2. T \cap S = S
    BY <1>6
  <2>3. QED
    BY <2>1, <2>2
<1>7. ASSUME NEW V \in SUBSET (S \cup T)
      PROVE  Cardinality(V) \in Nat /\ Cardinality(V) <= Cardinality(S) + Cardinality(T)
  <2>1. IsFiniteSet(V) /\ Cardinality(V) <= Cardinality(S \cup T)
    BY <1>3, FS_Subset
  <2>2. Cardinality(V) \in Nat
    BY <2>1, FS_CardinalityType
  <2>3. QED
    BY <2>1, <2>2, <1>1, <1>3, <1>4
<1>8. QED
  BY <1>1, <1>2, <1>5, <1>6, <1>7

\* The two inequalities of Balanced for a task, as a relation of its sets and numbers.
Balance(U, C, H, B, M, acks, dbl, exp, s) ==
  /\ Cardinality(U) + Cardinality(C) + acks <= dbl + s
  /\ dbl + Cardinality(H) + Cardinality(B) <= exp + Cardinality(M)

LEMMA BalancedIs ==
  /\ Balanced <=> \A i \in Ids :
       Balance(Of(Keys(pending) \cup Keys(inflight), i), Count(pc, reg, i), InHand(reg, i),
               Of(LateKeys(inflight) \cup Keys(reaping), i), Of(Keys(inflight), i),
               acked[i], doubled[i], expired[i], IF i \in sent THEN 1 ELSE 0)
  /\ Balanced' <=> \A i \in Ids :
       Balance(Of(Keys(pending') \cup Keys(inflight'), i), Count(pc', reg', i), InHand(reg', i),
               Of(LateKeys(inflight') \cup Keys(reaping'), i), Of(Keys(inflight'), i),
               acked'[i], doubled'[i], expired'[i], IF i \in sent' THEN 1 ELSE 0)
  BY DEF Balanced, Balance

\* The sets of a task are finite, its numbers are numbers.
LEMMA TaskSets ==
  ASSUME TypeInv, NEW i \in Ids
  PROVE  /\ IsFiniteSet(Of(Keys(pending) \cup Keys(inflight), i)) /\ IsFiniteSet(Count(pc, reg, i))
         /\ IsFiniteSet(InHand(reg, i)) /\ IsFiniteSet(Of(LateKeys(inflight) \cup Keys(reaping), i))
         /\ IsFiniteSet(Of(Keys(inflight), i))
         /\ acked[i] \in Nat /\ doubled[i] \in Nat /\ expired[i] \in Nat
<1>1. TypeOK /\ KeysFinite
  BY DEF TypeInv
<1>2. acked[i] \in Nat /\ doubled[i] \in Nat /\ expired[i] \in Nat
  BY <1>1, WorkerAssumption DEF TypeOK
<1>3. /\ IsFiniteSet(Keys(pending)) /\ IsFiniteSet(Keys(inflight)) /\ IsFiniteSet(Keys(reaping))
      /\ IsFiniteSet(InHand(reg, i))
  BY <1>1 DEF KeysFinite
<1>4. IsFiniteSet(Keys(pending) \cup Keys(inflight))
  BY <1>3, FS_Union
<1>5. LateKeys(inflight) \subseteq Keys(inflight)
  BY <1>1, KeysTyped DEF TypeOK
<1>6. IsFiniteSet(LateKeys(inflight))
  BY <1>3, <1>5, FS_Subset
<1>7. IsFiniteSet(LateKeys(inflight) \cup Keys(reaping))
  BY <1>3, <1>6, FS_Union
<1>8. IsFiniteSet(Count(pc, reg, i))
  <2>1. Count(pc, reg, i) \subseteq Workers
    BY DEF Count
  <2>2. QED
    BY <2>1, WorkerAssumption, FS_Subset
<1>9. QED
  BY <1>2, <1>3, <1>4, <1>7, <1>8, OfFinite

LEMMA SubsetSize ==
  ASSUME NEW S, IsFiniteSet(S), NEW T \in SUBSET S
  PROVE  IsFiniteSet(T) /\ Cardinality(T) \in Nat /\ Cardinality(T) <= Cardinality(S)
<1>1. IsFiniteSet(T) /\ Cardinality(T) <= Cardinality(S)
  BY FS_Subset
<1>2. QED
  BY <1>1, FS_CardinalityType

LEMMA OneMore ==
  ASSUME NEW S, IsFiniteSet(S), NEW x, NEW T \in SUBSET (S \cup {x})
  PROVE  Cardinality(T) \in Nat /\ Cardinality(T) <= Cardinality(S) + 1
<1>1. IsFiniteSet({x}) /\ Cardinality({x}) = 1
  BY FS_Singleton
<1>2. QED
  BY <1>1, Sizes

LEMMA OneLess ==
  ASSUME NEW S, IsFiniteSet(S), NEW x \in S
  PROVE  /\ IsFiniteSet(S \ {x}) /\ Cardinality(S \ {x}) \in Nat
         /\ Cardinality(S \ {x}) = Cardinality(S) - 1
<1>1. IsFiniteSet(S \ {x}) /\ Cardinality(S \ {x}) = Cardinality(S) - 1
  BY FS_RemoveElement
<1>2. QED
  BY <1>1, FS_CardinalityType

Uses(i) == Of(Keys(pending) \cup Keys(inflight), i)
Late(i) == Of(LateKeys(inflight) \cup Keys(reaping), i)
Leases(i) == Of(Keys(inflight), i)
IsSent(i) == IF i \in sent THEN 1 ELSE 0

BalancedAt(i) ==
  Balance(Uses(i), Count(pc, reg, i), InHand(reg, i), Late(i), Leases(i),
          acked[i], doubled[i], expired[i], IsSent(i))

LEMMA BalancedWhen ==
  (Balanced <=> \A i \in Ids : BalancedAt(i)) /\ (Balanced' <=> \A i \in Ids : BalancedAt(i)')
  BY BalancedIs DEF BalancedAt, Uses, Late, Leases, IsSent

BalanceInv == Balanced /\ Owned

LEMMA BalanceStep == TypeInv /\ KeyInv /\ AccountInv /\ BalanceInv /\ [Next]_vars => BalanceInv'
<1> SUFFICES ASSUME TypeInv, KeyInv, AccountInv, BalanceInv, [Next]_vars PROVE BalanceInv'
  OBVIOUS
<1>0. TypeOK /\ Controls /\ Apart /\ Balanced /\ Owned /\ AckHeld
  BY DEF TypeInv, KeyInv, BalanceInv, AccountInv
\* What is known of a task before the step.
<1>i. ASSUME NEW i \in Ids
      PROVE  /\ Balance(Uses(i), Count(pc, reg, i), InHand(reg, i), Late(i), Leases(i),
                        acked[i], doubled[i], expired[i], IsSent(i))
             /\ IsSent(i) \in {0, 1}
             /\ IsFiniteSet(Uses(i)) /\ IsFiniteSet(Count(pc, reg, i)) /\ IsFiniteSet(InHand(reg, i))
             /\ IsFiniteSet(Late(i)) /\ IsFiniteSet(Leases(i))
             /\ acked[i] \in Nat /\ doubled[i] \in Nat /\ expired[i] \in Nat
  BY <1>0, BalancedWhen, TaskSets DEF BalancedAt, Uses, Late, Leases, IsSent
<1>n. ASSUME NEW i \in Ids
      PROVE  /\ Cardinality(Uses(i)) \in Nat /\ Cardinality(Count(pc, reg, i)) \in Nat
             /\ Cardinality(InHand(reg, i)) \in Nat /\ Cardinality(Late(i)) \in Nat
             /\ Cardinality(Leases(i)) \in Nat
  BY <1>i, FS_CardinalityType
\* A task that the step adds nothing to.
<1>k. ASSUME NEW i \in Ids, Uses(i)' \subseteq Uses(i), Count(pc', reg', i) \subseteq Count(pc, reg, i),
             InHand(reg', i) \subseteq InHand(reg, i), Late(i)' \subseteq Late(i), Leases(i)' = Leases(i),
             acked'[i] = acked[i], doubled'[i] = doubled[i], expired'[i] = expired[i],
             IsSent(i)' = IsSent(i)
      PROVE  BalancedAt(i)'
  <2>1. Cardinality(Uses(i)') \in Nat /\ Cardinality(Uses(i)') <= Cardinality(Uses(i))
    BY <1>i, <1>k, SubsetSize
  <2>2. /\ Cardinality(Count(pc', reg', i)) \in Nat
        /\ Cardinality(Count(pc', reg', i)) <= Cardinality(Count(pc, reg, i))
    BY <1>i, <1>k, SubsetSize
  <2>3. /\ Cardinality(InHand(reg', i)) \in Nat
        /\ Cardinality(InHand(reg', i)) <= Cardinality(InHand(reg, i))
    BY <1>i, <1>k, SubsetSize
  <2>4. Cardinality(Late(i)') \in Nat /\ Cardinality(Late(i)') <= Cardinality(Late(i))
    BY <1>i, <1>k, SubsetSize
  <2>5. QED
    BY <2>1, <2>2, <2>3, <2>4, <1>i, <1>k, <1>n DEF BalancedAt, Balance
<1>b. ASSUME \A i \in Ids : BalancedAt(i)', Owned' PROVE BalanceInv'
  BY <1>b, BalancedWhen DEF BalanceInv
<1>1. CASE UNCHANGED vars
  <2>1. Balanced'
    BY <1>0, <1>1 DEF vars, storeVars, statVars, historyVars, Balanced
  <2>2. Owned'
    BY <1>0, <1>1 DEF vars, storeVars, Owned
  <2>3. QED
    BY <2>1, <2>2 DEF BalanceInv
\* A worker's step that leaves the store alone, and what the worker has at hand, or
\* takes from it a delivery whose record is not there.
<1>a. ASSUME Stores, Counts, sent' = sent, NEW w \in Workers, Others(w),
             pc[w] # "ack_count", pc'[w] # "ack_count",
             \/ reg'[w].todo = reg[w].todo
             \/ /\ reg[w].cur \in reg[w].todo /\ reg'[w].todo = reg[w].todo \ {reg[w].cur}
                /\ reg[w].cur \notin Keys(inflight)
      PROVE  BalanceInv'
  <2>1. ASSUME NEW i \in Ids PROVE BalancedAt(i)'
    <3>1. InHand(reg', i) \subseteq InHand(reg, i)
      <4>1. CASE reg'[w].todo = reg[w].todo
        BY <4>1, <1>a, HandSame
      <4>2. CASE reg[w].cur \in reg[w].todo /\ reg'[w].todo = reg[w].todo \ {reg[w].cur}
        <5>1. reg[w].cur \in Deliveries
          BY <4>2, <1>0, RegFields
        <5>2. QED
          BY <5>1, <4>2, <1>a, HandLess
      <4>3. QED
        BY <4>1, <4>2, <1>a
    <3>2. Count(pc', reg', i) = Count(pc, reg, i)
      BY <1>a, CountSame
    <3>3. Uses(i)' = Uses(i) /\ Late(i)' = Late(i) /\ Leases(i)' = Leases(i) /\ IsSent(i)' = IsSent(i)
      BY <1>a DEF Stores, Uses, Late, Leases, IsSent
    <3>4. acked'[i] = acked[i] /\ doubled'[i] = doubled[i] /\ expired'[i] = expired[i]
      BY <1>a DEF Counts
    <3>5. QED
      BY <3>1, <3>2, <3>3, <3>4, <1>k
  <2>2. Owned'
    <3> SUFFICES ASSUME NEW d \in Keys(inflight) PROVE \E v \in Workers : d \in reg'[v].todo
      BY <1>a DEF Owned, Stores
    <3>1. PICK v \in Workers : d \in reg[v].todo
      BY <1>0 DEF Owned
    <3>2. CASE v = w
      BY <3>1, <3>2, <1>a
    <3>3. CASE v # w
      BY <3>1, <3>3, <1>a DEF Others
    <3>4. QED
      BY <3>2, <3>3
  <2>3. QED
    BY <2>1, <2>2, <1>b
<1>2. ASSUME NEW w \in Workers, Quiet(w) PROVE BalanceInv'
  <2>1. /\ Idle /\ Others(w) /\ reg'[w].todo = reg[w].todo
        /\ pc[w] \in {"tick", "filter", "serve"}
        /\ pc'[w] \in {"tick", "filter", "serve", "dequeue", "ack", "nack"}
    BY <1>2, QuietStep
  <2>2. QED
    BY <2>1, <1>a DEF Idle
<1>3. ASSUME NEW w \in Workers, Absent(w) PROVE BalanceInv'
  <2>1. /\ Idle /\ Others(w) /\ reg'[w].todo = reg[w].todo \ {reg[w].cur}
        /\ pc[w] \in {"ack", "nack"} /\ pc'[w] = "serve" /\ reg[w].cur \notin Keys(inflight)
    BY <1>3, AbsentStep
  <2>2. reg[w].cur \in reg[w].todo
    BY <2>1, <1>0 DEF Controls
  <2>3. QED
    BY <2>1, <2>2, <1>a DEF Idle
<1>4. ASSUME NEW w \in Workers, AckRead(w), InFlight(reg[w].cur) PROVE BalanceInv'
  <2>1. Idle /\ Others(w) /\ reg' = reg /\ pc[w] = "ack" /\ pc'[w] = "ack_write"
    BY <1>4, AckReadStep
  <2>2. QED
    BY <2>1, <1>a DEF Idle
<1>5. ASSUME NEW w \in Workers, NackRead(w), InFlight(reg[w].cur) PROVE BalanceInv'
  <2>1. /\ Stores /\ Counts /\ sent' = sent /\ Others(w) /\ reg'[w].todo = reg[w].todo
        /\ pc[w] = "nack" /\ pc'[w] = "nack_write"
    BY <1>5, NackReadStep
  <2>2. QED
    BY <2>1, <1>a
<1>6. ASSUME NEW w \in Workers, DequeueWrite(w) PROVE BalanceInv'
  <2> DEFINE K == Keys(reg[w].found)
  <2>1. /\ Others(w) /\ Counts /\ pc[w] = "dequeue" /\ pc'[w] = "serve"
        /\ reg[w].todo = {} /\ reg'[w].todo = K
        /\ Keys(pending') = Keys(pending) \ K /\ Keys(inflight') = Keys(inflight) \cup K
        /\ LateKeys(inflight') \subseteq LateKeys(inflight) /\ reaping' = reaping /\ sent' = sent
    BY <1>6, DequeueWriteStep
  <2>2. K \subseteq Keys(pending) /\ K \cap Keys(inflight) = {}
    BY <2>1, <1>0 DEF KeyInv, QueueHeld, Apart
  <2>3. IsFiniteSet(K)
    BY <2>2, FS_Subset DEF TypeInv, KeysFinite
  <2> HIDE DEF K
  <2>4. ASSUME NEW i \in Ids PROVE BalancedAt(i)'
    <3>1. InHand(reg', i) \subseteq InHand(reg, i) \cup ({w} \X Of(K, i))
      BY <2>1, HandMore
    <3>2. Count(pc', reg', i) = Count(pc, reg, i)
      BY <2>1, CountSame
    <3>3. /\ Uses(i)' = Uses(i) /\ Late(i)' \subseteq Late(i) /\ Leases(i)' = Leases(i) \cup Of(K, i)
          /\ IsSent(i)' = IsSent(i) /\ Leases(i) \cap Of(K, i) = {}
      BY <2>1, <2>2 DEF Uses, Late, Leases, IsSent, Of
    <3>4. acked'[i] = acked[i] /\ doubled'[i] = doubled[i] /\ expired'[i] = expired[i]
      BY <2>1 DEF Counts
    <3>5. IsFiniteSet(Of(K, i))
      BY <2>3, OfFinite
    <3>6. Cardinality(Of(K, i)) \in Nat
      BY <3>5, FS_CardinalityType
    <3>7. IsFiniteSet({w} \X Of(K, i)) /\ Cardinality({w} \X Of(K, i)) = Cardinality(Of(K, i))
      <4>1. IsFiniteSet({w}) /\ Cardinality({w}) = 1
        BY FS_Singleton
      <4>2. /\ IsFiniteSet({w} \X Of(K, i))
            /\ Cardinality({w} \X Of(K, i)) = Cardinality({w}) * Cardinality(Of(K, i))
        BY <3>5, <4>1, FS_Product
      <4>3. QED
        BY <4>1, <4>2, <3>6
    <3>8. /\ Cardinality(InHand(reg', i)) \in Nat
          /\ Cardinality(InHand(reg', i)) <= Cardinality(InHand(reg, i)) + Cardinality(Of(K, i))
      BY <3>1, <3>7, <1>i, Sizes
    <3>9. Cardinality(Late(i)') \in Nat /\ Cardinality(Late(i)') <= Cardinality(Late(i))
      BY <3>3, <1>i, SubsetSize
    <3>10. Cardinality(Leases(i)') = Cardinality(Leases(i)) + Cardinality(Of(K, i))
      BY <3>3, <3>5, <1>i, Sizes
    <3>11. QED
      BY <3>2, <3>3, <3>4, <3>6, <3>8, <3>9, <3>10, <1>i, <1>n DEF BalancedAt, Balance
  <2>5. Owned'
    <3> SUFFICES ASSUME NEW d \in Keys(inflight') PROVE \E v \in Workers : d \in reg'[v].todo
      BY DEF Owned
    <3>1. CASE d \in K
      BY <3>1, <2>1
    <3>2. CASE d \in Keys(inflight)
      <4>1. PICK v \in Workers : d \in reg[v].todo
        BY <3>2, <1>0 DEF Owned
      <4>2. v # w
        BY <4>1, <2>1
      <4>3. QED
        BY <4>1, <4>2, <2>1 DEF Others
    <3>3. QED
      BY <3>1, <3>2, <2>1
  <2>6. QED
    BY <2>4, <2>5, <1>b
<1>7. ASSUME NEW w \in Workers, AckWrite(w) PROVE BalanceInv'
  <2> DEFINE d == reg[w].cur
             h == <<w, d>>
  <2>1. /\ d \in reg[w].todo /\ d \in Deliveries /\ d[1] \in Ids
        /\ Others(w) /\ pc[w] = "ack_write" /\ pc'[w] = "ack_count"
        /\ reg'[w].todo = reg[w].todo \ {d} /\ reg'[w].cur = d
        /\ inflight' = Delete(inflight, {d}) /\ pending' = pending
        /\ reaping' = reaping /\ sent' = sent /\ acked' = acked /\ expired' = expired
        /\ doubled' = DeletedElsewhere(d)
    BY <1>7, AckWriteStep
  <2>2. Keys(inflight') = Keys(inflight) \ {d} /\ LateKeys(inflight') = LateKeys(inflight) \ {d}
    BY <2>1, KeysDelete
  <2>3. Stored(d[1])
    BY <2>1, <1>0, StoredIs DEF AckHeld
  <2>4. doubled \in [Ids -> Nat]
    BY <1>0 DEF TypeOK
  <2>5. /\ h \in InHand(reg, d[1]) /\ InHand(reg', d[1]) = InHand(reg, d[1]) \ {h}
        /\ \A i : i # d[1] => InHand(reg', i) = InHand(reg, i)
    BY <2>1, HandLess
  <2>6. ASSUME NEW i \in Ids PROVE Late(i)' \subseteq Late(i) /\ IsSent(i)' = IsSent(i)
    BY <2>1, <2>2 DEF Late, IsSent, Of
  <2>7. ASSUME NEW i \in Ids, i = d[1] PROVE BalancedAt(i)'
    <3>1. i \in Ids /\ i = d[1]
      BY <2>7
    <3>2. Cardinality(InHand(reg', i)) = Cardinality(InHand(reg, i)) - 1
      BY <2>5, <3>1, <1>i, OneLess
    <3>3. /\ Cardinality(Count(pc', reg', i)) \in Nat
          /\ Cardinality(Count(pc', reg', i)) <= Cardinality(Count(pc, reg, i)) + 1
      <4>1. Count(pc', reg', i) \subseteq Count(pc, reg, i) \cup {w}
        BY <2>1, <3>1, CountSame
      <4>2. QED
        BY <4>1, <3>1, <1>i, OneMore
    <3>4. Cardinality(Late(i)') \in Nat /\ Cardinality(Late(i)') <= Cardinality(Late(i))
      BY <2>6, <3>1, <1>i, SubsetSize
    <3>5. CASE InFlight(d)
      <4>1. /\ Uses(i)' = Uses(i) \ {d} /\ d \in Uses(i) /\ Leases(i)' = Leases(i) \ {d}
            /\ d \in Leases(i)
        BY <3>1, <3>5, <2>1, <2>2, <1>0 DEF Uses, Leases, Of, Apart, InFlight
      <4>2. /\ Cardinality(Uses(i)') = Cardinality(Uses(i)) - 1
            /\ Cardinality(Leases(i)') = Cardinality(Leases(i)) - 1
        BY <4>1, <3>1, <1>i, OneLess
      <4>3. doubled'[i] = doubled[i]
        BY <3>1, <3>5, <2>1, <2>4 DEF DeletedElsewhere
      <4>4. QED
        BY <4>2, <4>3, <3>1, <3>2, <3>3, <3>4, <2>1, <2>6, <1>i, <1>n DEF BalancedAt, Balance
    <3>6. CASE ~InFlight(d)
      <4>1. Uses(i)' = Uses(i) /\ Leases(i)' = Leases(i)
        BY <3>1, <3>6, <2>1, <2>2 DEF Uses, Leases, InFlight
      <4>2. doubled'[i] = doubled[i] + 1
        BY <3>1, <3>6, <2>1, <2>3, <2>4 DEF DeletedElsewhere
      <4>3. QED
        BY <4>1, <4>2, <3>1, <3>2, <3>3, <3>4, <2>1, <2>6, <1>i, <1>n DEF BalancedAt, Balance
    <3>7. QED
      BY <3>5, <3>6
  <2>8. ASSUME NEW i \in Ids, i # d[1] PROVE BalancedAt(i)'
    <3>1. Count(pc', reg', i) = Count(pc, reg, i)
      BY <2>1, <2>8, CountSame
    <3>2. Uses(i)' = Uses(i) /\ Leases(i)' = Leases(i)
      BY <2>1, <2>2, <2>8 DEF Uses, Leases, Of
    <3>3. doubled'[i] = doubled[i]
      BY <2>1, <2>4, <2>8 DEF DeletedElsewhere
    <3>4. QED
      BY <3>1, <3>2, <3>3, <2>1, <2>5, <2>6, <2>8, <1>k
  <2>9. Owned'
    <3> SUFFICES ASSUME NEW e \in Keys(inflight') PROVE \E v \in Workers : e \in reg'[v].todo
      BY DEF Owned
    <3>1. e \in Keys(inflight) /\ e # d
      BY <2>2
    <3>2. PICK v \in Workers : e \in reg[v].todo
      BY <3>1, <1>0 DEF Owned
    <3>3. QED
      BY <3>1, <3>2, <2>1 DEF Others
  <2>10. QED
    BY <2>7, <2>8, <2>9, <1>b
<1>8. ASSUME NEW w \in Workers, AckCount(w) PROVE BalanceInv'
  <2> DEFINE d == reg[w].cur
  <2>1. /\ d[1] \in Ids /\ Others(w) /\ Stores /\ pc[w] = "ack_count" /\ pc'[w] = "serve"
        /\ reg'[w].todo = reg[w].todo /\ sent' = sent /\ expired' = expired /\ doubled' = doubled
        /\ acked' = [acked EXCEPT ![d[1]] = @ + 1]
    BY <1>8, AckCountStep
  <2>2. acked \in [Ids -> Nat]
    BY <1>0 DEF TypeOK
  <2>3. ASSUME NEW i \in Ids
        PROVE  /\ Uses(i)' = Uses(i) /\ Late(i)' = Late(i) /\ Leases(i)' = Leases(i)
               /\ IsSent(i)' = IsSent(i) /\ InHand(reg', i) = InHand(reg, i)
    <3>1. InHand(reg', i) = InHand(reg, i)
      BY <2>1, HandSame
    <3>2. QED
      BY <3>1, <2>1 DEF Stores, Uses, Late, Leases, IsSent
  <2>4. ASSUME NEW i \in Ids, i = d[1] PROVE BalancedAt(i)'
    <3>1. i \in Ids /\ i = d[1]
      BY <2>4
    <3>2. Count(pc', reg', i) = Count(pc, reg, i) \ {w} /\ w \in Count(pc, reg, i)
      BY <3>1, <2>1 DEF Count, Others
    <3>3. Cardinality(Count(pc', reg', i)) = Cardinality(Count(pc, reg, i)) - 1
      BY <3>1, <3>2, <1>i, OneLess
    <3>4. acked'[i] = acked[i] + 1
      BY <3>1, <2>1, <2>2
    <3>5. QED
      BY <3>1, <3>3, <3>4, <2>1, <2>3, <1>i, <1>n DEF BalancedAt, Balance
  <2>5. ASSUME NEW i \in Ids, i # d[1] PROVE BalancedAt(i)'
    <3>1. Count(pc', reg', i) \subseteq Count(pc, reg, i)
      BY <2>1, <2>5 DEF Count, Others
    <3>2. acked'[i] = acked[i]
      BY <2>1, <2>2, <2>5
    <3>3. QED
      BY <3>1, <3>2, <2>1, <2>3, <1>k
  <2>6. Owned'
    <3>1. \A v \in Workers : reg'[v].todo = reg[v].todo
      BY <2>1 DEF Others
    <3>2. QED
      BY <3>1, <2>1, <1>0 DEF Owned, Stores
  <2>7. QED
    BY <2>4, <2>5, <2>6, <1>b
<1>9. ASSUME NEW w \in Workers, NackWrite(w) PROVE BalanceInv'
  <2> DEFINE d == reg[w].cur
             f == FreshKey(w)
             h == <<w, d>>
  <2>1. /\ d \in reg[w].todo /\ d \in Deliveries /\ d[1] \in Ids
        /\ Others(w) /\ pc[w] = "nack_write" /\ pc'[w] = "serve"
        /\ reg'[w].todo = reg[w].todo \ {d}
        /\ Keys(inflight') = Keys(inflight) \ {d} /\ LateKeys(inflight') \subseteq LateKeys(inflight)
        /\ Keys(pending') \subseteq Keys(pending) \cup {f}
        /\ reaping' = reaping /\ sent' = sent /\ acked' = acked /\ expired' = expired
        /\ doubled' = PutTwice(d)
    BY <1>9, NackWriteStep
  <2>2. f[1] = d[1]
    BY DEF FreshKey
  <2> HIDE DEF f
  <2>4. doubled \in [Ids -> Nat]
    BY <1>0 DEF TypeOK
  <2>5. /\ h \in InHand(reg, d[1]) /\ InHand(reg', d[1]) = InHand(reg, d[1]) \ {h}
        /\ \A i : i # d[1] => InHand(reg', i) = InHand(reg, i)
    BY <2>1, HandLess
  <2>6. ASSUME NEW i \in Ids
        PROVE  /\ Late(i)' \subseteq Late(i) /\ IsSent(i)' = IsSent(i)
               /\ Count(pc', reg', i) = Count(pc, reg, i)
    <3>1. Count(pc', reg', i) = Count(pc, reg, i)
      BY <2>1, CountSame
    <3>2. QED
      BY <3>1, <2>1 DEF Late, IsSent, Of
  <2>7. ASSUME NEW i \in Ids, i = d[1] PROVE BalancedAt(i)'
    <3>1. i \in Ids /\ i = d[1]
      BY <2>7
    <3>2. Cardinality(InHand(reg', i)) = Cardinality(InHand(reg, i)) - 1
      BY <2>5, <3>1, <1>i, OneLess
    <3>4. Cardinality(Late(i)') \in Nat /\ Cardinality(Late(i)') <= Cardinality(Late(i))
      BY <2>6, <3>1, <1>i, SubsetSize
    <3>5. CASE InFlight(d)
      <4>1. /\ Uses(i)' \subseteq (Uses(i) \ {d}) \cup {f} /\ d \in Uses(i)
            /\ Leases(i)' = Leases(i) \ {d} /\ d \in Leases(i)
        BY <3>1, <3>5, <2>1, <2>2, <1>0 DEF Uses, Leases, Of, Apart, InFlight
      <4>2. /\ IsFiniteSet(Uses(i) \ {d}) /\ Cardinality(Uses(i) \ {d}) = Cardinality(Uses(i)) - 1
            /\ Cardinality(Leases(i)') = Cardinality(Leases(i)) - 1
        BY <4>1, <3>1, <1>i, OneLess
      <4>3. Cardinality(Uses(i)') \in Nat /\ Cardinality(Uses(i)') <= Cardinality(Uses(i) \ {d}) + 1
        BY <4>1, <4>2, OneMore
      <4>4. doubled'[i] = doubled[i]
        BY <3>1, <3>5, <2>1, <2>4 DEF PutTwice
      <4>5. QED
        BY <4>2, <4>3, <4>4, <3>1, <3>2, <3>4, <2>1, <2>6, <1>i, <1>n DEF BalancedAt, Balance
    <3>6. CASE ~InFlight(d)
      <4>1. Uses(i)' \subseteq Uses(i) \cup {f} /\ Leases(i)' = Leases(i)
        BY <3>1, <3>6, <2>1, <2>2 DEF Uses, Leases, Of, InFlight
      <4>2. Cardinality(Uses(i)') \in Nat /\ Cardinality(Uses(i)') <= Cardinality(Uses(i)) + 1
        BY <4>1, <3>1, <1>i, OneMore
      <4>3. doubled'[i] = doubled[i] + 1
        BY <3>1, <3>6, <2>1, <2>4 DEF PutTwice
      <4>4. QED
        BY <4>1, <4>2, <4>3, <3>1, <3>2, <3>4, <2>1, <2>6, <1>i, <1>n DEF BalancedAt, Balance
    <3>7. QED
      BY <3>5, <3>6
  <2>8. ASSUME NEW i \in Ids, i # d[1] PROVE BalancedAt(i)'
    <3>1. Uses(i)' \subseteq Uses(i) /\ Leases(i)' = Leases(i)
      BY <2>1, <2>2, <2>8 DEF Uses, Leases, Of
    <3>2. doubled'[i] = doubled[i]
      BY <2>1, <2>4, <2>8 DEF PutTwice
    <3>3. QED
      BY <3>1, <3>2, <2>1, <2>5, <2>6, <2>8, <1>k
  <2>9. Owned'
    <3> SUFFICES ASSUME NEW e \in Keys(inflight') PROVE \E v \in Workers : e \in reg'[v].todo
      BY DEF Owned
    <3>1. e \in Keys(inflight) /\ e # d
      BY <2>1
    <3>2. PICK v \in Workers : e \in reg[v].todo
      BY <3>1, <1>0 DEF Owned
    <3>3. QED
      BY <3>1, <3>2, <2>1 DEF Others
  <2>10. QED
    BY <2>7, <2>8, <2>9, <1>b
\* The steps of the others leave the workers alone.
<1>c. ASSUME pc' = pc, reg' = reg, acked' = acked, NEW i \in Ids
      PROVE  /\ Count(pc', reg', i) = Count(pc, reg, i) /\ InHand(reg', i) = InHand(reg, i)
             /\ acked'[i] = acked[i]
  BY <1>c
<1>o. ASSUME reg' = reg, Keys(inflight') \subseteq Keys(inflight) PROVE Owned'
  BY <1>o, <1>0 DEF Owned
<1>10. ASSUME NEW j \in Ids, Enqueue(j) PROVE BalanceInv'
  <2> DEFINE k == <<j, seq[TenantOf[j]]>>
  <2>1. /\ j \notin sent /\ sent' = sent \cup {j} /\ Keys(pending') = Keys(pending) \cup {k}
        /\ inflight' = inflight /\ reaping' = reaping /\ pc' = pc /\ reg' = reg
        /\ acked' = acked /\ doubled' = doubled /\ expired' = expired
    BY <1>10, EnqueueStep DEF Counts
  <2>2. k[1] = j
    OBVIOUS
  <2> HIDE DEF k
  <2>3. ASSUME NEW i \in Ids PROVE BalancedAt(i)'
    <3>1. Late(i)' = Late(i) /\ Leases(i)' = Leases(i)
      BY <2>1 DEF Late, Leases
    <3>2. CASE i = j
      <4>1. Uses(i)' \subseteq Uses(i) \cup {k}
        BY <2>1 DEF Uses, Of
      <4>2. Cardinality(Uses(i)') \in Nat /\ Cardinality(Uses(i)') <= Cardinality(Uses(i)) + 1
        BY <4>1, <1>i, OneMore
      <4>3. IsSent(i) = 0 /\ IsSent(i)' = 1
        BY <3>2, <2>1 DEF IsSent
      <4>4. QED
        BY <4>2, <4>3, <3>1, <2>1, <1>c, <1>i, <1>n DEF BalancedAt, Balance
    <3>3. CASE i # j
      <4>1. Uses(i)' = Uses(i) /\ IsSent(i)' = IsSent(i)
        BY <3>3, <2>1, <2>2 DEF Uses, Of, IsSent
      <4>2. QED
        BY <4>1, <3>1, <2>1, <1>c, <1>k
    <3>4. QED
      BY <3>2, <3>3
  <2>4. QED
    BY <2>1, <2>3, <1>b, <1>o
<1>11. ASSUME NEW r \in inflight, Expire(r) PROVE BalanceInv'
  <2> DEFINE k == <<r.id, r.key>>
  <2>1. /\ r.id \in Ids /\ Keys(inflight') = Keys(inflight)
        /\ LateKeys(inflight') \subseteq LateKeys(inflight) \cup {k}
        /\ expired' = [expired EXCEPT ![r.id] = @ + 1]
        /\ pending' = pending /\ reaping' = reaping /\ sent' = sent
        /\ pc' = pc /\ reg' = reg /\ acked' = acked /\ doubled' = doubled
    BY <1>11, ExpireStep
  <2>2. k[1] = r.id
    OBVIOUS
  <2> HIDE DEF k
  <2>3. expired \in [Ids -> 0 .. MaxExpiries]
    BY <1>0 DEF TypeOK
  <2>4. ASSUME NEW i \in Ids PROVE BalancedAt(i)'
    <3>1. Uses(i)' = Uses(i) /\ Leases(i)' = Leases(i) /\ IsSent(i)' = IsSent(i)
      BY <2>1 DEF Uses, Leases, IsSent
    <3>2. CASE i = r.id
      <4>1. Late(i)' \subseteq Late(i) \cup {k}
        BY <2>1 DEF Late, Of
      <4>2. Cardinality(Late(i)') \in Nat /\ Cardinality(Late(i)') <= Cardinality(Late(i)) + 1
        BY <4>1, <1>i, OneMore
      <4>3. expired'[i] = expired[i] + 1
        BY <3>2, <2>1, <2>3
      <4>4. QED
        BY <4>2, <4>3, <3>1, <2>1, <1>c, <1>i, <1>n DEF BalancedAt, Balance
    <3>3. CASE i # r.id
      <4>1. Late(i)' \subseteq Late(i)
        BY <3>3, <2>1, <2>2 DEF Late, Of
      <4>2. expired'[i] = expired[i]
        BY <3>3, <2>1, <2>3
      <4>3. QED
        BY <4>1, <4>2, <3>1, <2>1, <1>c, <1>k
    <3>4. QED
      BY <3>2, <3>3
  <2>5. QED
    BY <2>1, <2>4, <1>b, <1>o
<1>12. ASSUME NEW t \in Tenants, NEW q \in Queues, ReapScan(t, q) PROVE BalanceInv'
  <2>1. /\ Keys(reaping') \subseteq LateKeys(inflight) /\ pending' = pending /\ inflight' = inflight
        /\ sent' = sent /\ pc' = pc /\ reg' = reg
        /\ acked' = acked /\ doubled' = doubled /\ expired' = expired
    BY <1>12, ReapScanStep DEF Counts
  <2>2. ASSUME NEW i \in Ids PROVE BalancedAt(i)'
    <3>1. Uses(i)' = Uses(i) /\ Leases(i)' = Leases(i) /\ IsSent(i)' = IsSent(i)
      BY <2>1 DEF Uses, Leases, IsSent
    <3>2. Late(i)' \subseteq Late(i)
      BY <2>1 DEF Late, Of
    <3>3. QED
      BY <3>1, <3>2, <2>1, <1>c, <1>k
  <2>3. QED
    BY <2>1, <2>2, <1>b, <1>o
<1>13. CASE ReapWrite
  <2> DEFINE K == Keys(reaping)
  <2>1. /\ reaping' = {} /\ Keys(pending') = Keys(pending) \cup K
        /\ Keys(inflight') = Keys(inflight) \ K /\ LateKeys(inflight') = LateKeys(inflight) \ K
        /\ \A i \in Ids : doubled'[i] = doubled[i] + Cardinality(Of(K \ Keys(inflight), i))
        /\ sent' = sent /\ acked' = acked /\ expired' = expired /\ pc' = pc /\ reg' = reg
    BY <1>13, ReapWriteStep
  <2>2. Keys(reaping') = {}
    BY <2>1 DEF Keys
  <2>3. IsFiniteSet(K)
    BY DEF TypeInv, KeysFinite
  <2>4. ASSUME NEW i \in Ids PROVE BalancedAt(i)'
    <3> DEFINE X == Of(K \ Keys(inflight), i)
               Y == Of(K \cap Keys(inflight), i)
    <3>1. IsFiniteSet(X) /\ IsFiniteSet(Y)
      <4>1. IsFiniteSet(K \ Keys(inflight)) /\ IsFiniteSet(K \cap Keys(inflight))
        BY <2>3, FS_Difference, FS_Intersection
      <4>2. QED
        BY <4>1, OfFinite
    <3>2. /\ X \cap Y = {} /\ X \cup Y \subseteq Late(i) /\ Y \subseteq Leases(i)
          /\ Late(i)' = Late(i) \ (X \cup Y) /\ Leases(i)' = Leases(i) \ Y
          /\ Uses(i)' \subseteq Uses(i) \cup X /\ IsSent(i)' = IsSent(i)
      BY <2>1, <2>2 DEF Of, Late, Leases, Uses, IsSent
    <3>3. doubled'[i] = doubled[i] + Cardinality(X)
      BY <2>1
    <3> HIDE DEF X, Y, K
    <3>4. /\ Cardinality(X) \in Nat /\ Cardinality(Y) \in Nat /\ IsFiniteSet(X \cup Y)
          /\ Cardinality(X \cup Y) = Cardinality(X) + Cardinality(Y)
      BY <3>1, <3>2, FS_Union, Sizes
    <3>5. Cardinality(Late(i)') = Cardinality(Late(i)) - Cardinality(X \cup Y)
      BY <3>2, <3>4, <1>i, Sizes
    <3>6. Cardinality(Leases(i)') = Cardinality(Leases(i)) - Cardinality(Y)
      BY <3>1, <3>2, <1>i, Sizes
    <3>7. Cardinality(Uses(i)') \in Nat /\ Cardinality(Uses(i)') <= Cardinality(Uses(i)) + Cardinality(X)
      BY <3>1, <3>2, <1>i, Sizes
    <3>8. QED
      BY <3>2, <3>3, <3>4, <3>5, <3>6, <3>7, <2>1, <1>c, <1>i, <1>n DEF BalancedAt, Balance
  <2>5. QED
    BY <2>1, <2>4, <1>b, <1>o
<1>14. ASSUME NEW t \in Tenants, Refresh(t) \/ FallDormant(t) PROVE BalanceInv'
  <2>1. /\ pending' = pending /\ inflight' = inflight /\ reaping' = reaping /\ sent' = sent
        /\ pc' = pc /\ reg' = reg /\ acked' = acked /\ doubled' = doubled /\ expired' = expired
    BY <1>14 DEF Refresh, FallDormant, storeVars, historyVars
  <2>2. Balanced' /\ Owned'
    BY <2>1, <1>0 DEF Balanced, Owned
  <2>3. QED
    BY <2>2 DEF BalanceInv
<1>15. QED
  <2>1. CASE Next
    BY <2>1, Steps, <1>2, <1>3, <1>4, <1>5, <1>6, <1>7, <1>8, <1>9, <1>10, <1>11, <1>12, <1>13, <1>14
  <2>2. QED
    BY <2>1, <1>1

(***************************************************************************)
(* The theorems                                                            *)
(***************************************************************************)
LEMMA PoolInit == Init => PoolInv
<1> SUFFICES ASSUME Init PROVE PoolInv
  OBVIOUS
<1>1. /\ pending = {} /\ inflight = {} /\ dlq = {} /\ reaping = {} /\ sent = {}
      /\ acked = [i \in Ids |-> 0] /\ expired = [i \in Ids |-> 0] /\ doubled = [i \in Ids |-> 0]
      /\ pc = [w \in Workers |-> "tick"] /\ reg = [w \in Workers |-> NoRegisters]
  BY DEF Init
<1>2. /\ Keys(pending) = {} /\ Keys(inflight) = {} /\ Keys(reaping) = {} /\ LateKeys(inflight) = {}
  BY <1>1 DEF Keys, LateKeys
<1>3. \A w \in Workers : pc[w] = "tick" /\ reg[w].todo = {}
  BY <1>1, NoRegistersOK
<1>4. ASSUME NEW i PROVE InHand(reg, i) = {} /\ Count(pc, reg, i) = {}
  BY <1>3 DEF InHand, Count
<1>5. TypeOK
  <2>1. 0 \in 0 .. MaxExpiries /\ "tick" \in PCs
    BY WorkerAssumption DEF PCs
  <2>2. /\ reg \in [Workers -> Registers] /\ pc \in [Workers -> PCs]
        /\ expired \in [Ids -> 0 .. MaxExpiries]
    BY <1>1, <2>1, NoRegistersOK
  <2>3. QED
    BY <1>1, <2>2 DEF Init, TypeOK
<1>6. Controls
  BY <1>3 DEF Controls
<1>7. KeysFinite
  BY <1>2, <1>4, FS_EmptySet DEF KeysFinite
<1>8. KeyInv
  BY <1>2, <1>3 DEF KeyInv, Apart, Drawn, QueueHeld, Drawing
<1>9. AckHeld /\ Accounted /\ Owned
  BY <1>1, <1>2, <1>3 DEF AckHeld, Accounted, Owned
<1>10. Balanced
  <2> SUFFICES ASSUME NEW i \in Ids PROVE BalancedAt(i)
    BY BalancedWhen
  <2>1. Uses(i) = {} /\ Late(i) = {} /\ Leases(i) = {} /\ IsSent(i) = 0
    BY <1>1, <1>2 DEF Uses, Late, Leases, IsSent, Of
  <2>2. acked[i] = 0 /\ doubled[i] = 0 /\ expired[i] = 0
    BY <1>1
  <2>3. Cardinality({}) = 0
    BY FS_EmptySet
  <2>4. QED
    BY <2>1, <2>2, <2>3, <1>4 DEF BalancedAt, Balance
<1>11. QED
  BY <1>5, <1>6, <1>7, <1>8, <1>9, <1>10 DEF PoolInv, TypeInv

\* The inductive invariant of the pool: the keys, the locks and the balance.
THEOREM PoolInvariant == Spec => []PoolInv
<1>1. PoolInv /\ [Next]_vars => PoolInv'
  <2> SUFFICES ASSUME PoolInv, [Next]_vars PROVE PoolInv'
    OBVIOUS
  <2>1. TypeInv /\ KeyInv /\ AccountInv /\ BalanceInv
    BY DEF PoolInv, AccountInv, BalanceInv
  <2>2. TypeInv' /\ KeyInv' /\ AccountInv' /\ BalanceInv'
    BY <2>1, TypesStep, KeysStep, AccountsStep, BalanceStep
  <2>3. QED
    BY <2>2 DEF PoolInv, AccountInv, BalanceInv
<1>2. QED
  BY <1>1, PoolInit, PTL DEF Spec

\* The variables of the pool keep their types.  What is not obvious of this is
\* that schedules are of whole numbers: no subtraction in allocate_slots goes
\* below zero, whatever the scores, and rounding leaves nothing negative to add
\* to the tenant at the top.
THEOREM PoolTypes == Spec => []TypeOK
<1>1. PoolInv => TypeOK
  BY DEF PoolInv, TypeInv
<1>2. QED
  BY <1>1, PoolInvariant, PTL

\* A schedule hands out all the slots that guaranteed tenants leave, as soon as
\* a normal tenant has a score, and exceeds the worker's slots only by what is
\* guaranteed.
THEOREM BudgetsSpent == Spec => BudgetSpent
<1> DEFINE Spent ==
      \A w \in Workers : pc[w] = "filter" /\ pc'[w] = "serve" =>
        LET most == Larger(WorkerSlots, MinGuarantee * Cardinality(reg[w].guaranteed))
            given == Sum(reg'[w].sched, Tenants)
        IN  /\ given <= most
            /\ reg[w].rated \cap Normal(w) # {} => given = most
<1>1. PoolInv /\ [Next]_vars => [Spent]_vars
  <2> SUFFICES ASSUME TypeInv, Next, NEW w \in Workers, pc[w] = "filter", pc'[w] = "serve"
               PROVE  LET most == Larger(WorkerSlots, MinGuarantee * Cardinality(reg[w].guaranteed))
                          given == Sum(reg'[w].sched, Tenants)
                      IN  /\ given <= most
                          /\ reg[w].rated \cap Normal(w) # {} => given = most
    BY DEF PoolInv
  <2>0. TypeOK
    BY DEF TypeInv
  <2>1. ASSUME NEW v \in Workers, v # w, Others(v) PROVE FALSE
    BY <2>1 DEF Others
  <2>2. ASSUME NEW v \in Workers, Quiet(v) PROVE Allocate(w)
    <3>1. v = w
      BY <2>1, <2>2, QuietStep
    <3>2. AllocateBegin(w) => pc'[w] = "filter"
      BY <2>0 DEF AllocateBegin, Goto, TypeOK
    <3>3. QED
      BY <3>1, <3>2, <2>2 DEF Quiet, ServeEnd, DequeueScan, Handle, Serving
  <2>3. ASSUME NEW v \in Workers, Absent(v) \/ DequeueWrite(v) \/ AckWrite(v) \/ AckCount(v)
                                    \/ NackWrite(v) \/ AckRead(v) \/ NackRead(v)
        PROVE  FALSE
    <3>1. pc[v] # "filter"
      BY <2>3 DEF Absent, DequeueWrite, AckWrite, AckCount, NackWrite, AckRead, NackRead
    <3>2. pc'[w] = pc[w]
      <4>1. \E l : pc' = [pc EXCEPT ![v] = l]
        BY <2>3 DEF Absent, DequeueWrite, AckWrite, AckCount, NackWrite, AckRead, NackRead, NackFound, Goto
      <4>2. QED
        BY <4>1, <3>1, <2>0 DEF TypeOK
    <3>3. QED
      BY <3>2
  <2>4. pc' # pc
    OBVIOUS
  <2>5. Allocate(w)
    BY <2>2, <2>3, <2>4, Steps DEF Enqueue, Expire, ReapScan, ReapWrite, Refresh, FallDormant
  <2>6. QED
    BY <2>0, <2>5, AllocateStep
<1>2. QED
  BY <1>1, PoolInvariant, PTL DEF Spec, BudgetSpent

\* What is in flight of a task is at most what workers hold of it.
LEMMA LeasesHeld ==
  ASSUME PoolInv, NEW i \in Ids
  PROVE  Cardinality(Leases(i)) <= Cardinality(InHand(reg, i))
<1> DEFINE H == InHand(reg, i)
           S == {x[2] : x \in H}
           f == [x \in H |-> x[2]]
<1>1. IsFiniteSet(H)
  BY DEF PoolInv, TypeInv, KeysFinite
<1>2. Leases(i) \subseteq S
  <2> SUFFICES ASSUME NEW d \in Leases(i) PROVE d \in S
    OBVIOUS
  <2>1. d \in Keys(inflight) /\ d[1] = i
    BY DEF Leases, Of
  <2>2. PICK w \in Workers : d \in reg[w].todo
    BY <2>1 DEF PoolInv, Owned
  <2>3. d \in Deliveries
    BY <2>2, RegFields DEF PoolInv, TypeInv
  <2>4. <<w, d>> \in H
    BY <2>1, <2>2, <2>3 DEF InHand
  <2>5. QED
    BY <2>4
<1>3. f \in Surjection(H, S)
  BY DEF Surjection
<1>4. IsFiniteSet(S) /\ Cardinality(S) <= Cardinality(H)
  BY <1>1, <1>3, FS_Surjection
<1>5. /\ Cardinality(Leases(i)) <= Cardinality(S) /\ Cardinality(Leases(i)) \in Nat
      /\ Cardinality(S) \in Nat /\ Cardinality(H) \in Nat
  BY <1>1, <1>2, <1>4, SubsetSize, FS_CardinalityType
<1>6. QED
  BY <1>4, <1>5

\* The statistics count the acks that took a task away: no task leaves the store
\* uncounted, two acks never count for one record, and a task is counted again only
\* for each time that it was doubled by a write deciding from a record that was gone,
\* of which there is at most one for each lease that ran out.  This is for reads and
\* writes of ack, nack and the reaper interleaving as they may.
THEOREM PoolAcksAccounted == Spec => []AcksAccounted
<1>1. PoolInv => AcksAccounted
  <2> SUFFICES ASSUME PoolInv, NEW i \in Ids
               PROVE  /\ i \in sent /\ ~Stored(i) => acked[i] + Cardinality(Counting(i)) > 0
                      /\ acked[i] + Cardinality(Counting(i)) <= 1 + doubled[i]
                      /\ doubled[i] <= expired[i]
    BY DEF AcksAccounted
  <2>0. TypeInv /\ KeyInv /\ Balanced
    BY DEF PoolInv
  <2>1. Counting(i) = Count(pc, reg, i)
    BY DEF Counting, Count
  <2>2. acked[i] \in Nat /\ doubled[i] \in Nat /\ expired[i] \in Nat
    BY <2>0 DEF TypeInv, TypeOK
  <2>3. /\ IsFiniteSet(Uses(i)) /\ IsFiniteSet(Late(i)) /\ IsFiniteSet(Leases(i))
        /\ IsFiniteSet(InHand(reg, i)) /\ IsFiniteSet(Count(pc, reg, i))
    BY <2>0, TaskSets DEF Uses, Late, Leases
  <2>4. /\ Cardinality(Uses(i)) \in Nat /\ Cardinality(Late(i)) \in Nat
        /\ Cardinality(Leases(i)) \in Nat /\ Cardinality(InHand(reg, i)) \in Nat
        /\ Cardinality(Count(pc, reg, i)) \in Nat
    BY <2>3, FS_CardinalityType
  <2>5. BalancedAt(i)
    BY <2>0, BalancedWhen
  <2>6. IsSent(i) \in 0 .. 1
    BY DEF IsSent
  <2>7. Cardinality(Leases(i)) <= Cardinality(InHand(reg, i))
    BY LeasesHeld
  <2>8. ASSUME i \in sent, ~Stored(i) PROVE acked[i] + Cardinality(Counting(i)) > 0
    <3>1. Count(pc, reg, i) # {} \/ acked[i] > 0
      BY <2>8, StoredIs DEF PoolInv, Accounted
    <3>2. Count(pc, reg, i) # {} => Cardinality(Count(pc, reg, i)) # 0
      BY <2>3, FS_EmptySet
    <3>3. QED
      BY <3>1, <3>2, <2>1, <2>2, <2>4
  <2>9. QED
    BY <2>1, <2>2, <2>4, <2>5, <2>6, <2>7, <2>8 DEF BalancedAt, Balance
<1>2. QED
  BY <1>1, PoolInvariant, PTL

\* A task is in the hands of one worker only, and of another one only for each
\* lease on it that ran out.
THEOREM PoolHoldersBounded == Spec => []HoldersBounded
<1>1. PoolInv => HoldersBounded
  <2> SUFFICES ASSUME PoolInv, NEW i \in Ids PROVE Cardinality(Holders(i)) <= 1 + expired[i]
    BY DEF HoldersBounded
  <2> DEFINE H == InHand(reg, i)
             C == Count(pc, reg, i)
             S == {x[1] : x \in H}
             f == [x \in H |-> x[1]]
  <2>0. TypeInv /\ KeyInv /\ Balanced
    BY DEF PoolInv
  <2>1. Holders(i) \subseteq S \cup C
    <3> SUFFICES ASSUME NEW w \in Holders(i), w \notin C PROVE w \in S
      OBVIOUS
    <3>1. PICK d \in reg[w].todo : d[1] = i /\ w \in Workers
      BY DEF Holders, Counting, Count
    <3>2. d \in Deliveries
      BY <3>1, <2>0, RegFields DEF TypeInv
    <3>3. <<w, d>> \in H
      BY <3>1, <3>2 DEF InHand
    <3>4. QED
      BY <3>3
  <2>2. acked[i] \in Nat /\ doubled[i] \in Nat /\ expired[i] \in Nat
    BY <2>0 DEF TypeInv, TypeOK
  <2>3. /\ IsFiniteSet(Uses(i)) /\ IsFiniteSet(Late(i)) /\ IsFiniteSet(Leases(i))
        /\ IsFiniteSet(H) /\ IsFiniteSet(C)
    BY <2>0, TaskSets DEF Uses, Late, Leases
  <2>4. /\ Cardinality(Uses(i)) \in Nat /\ Cardinality(Late(i)) \in Nat
        /\ Cardinality(Leases(i)) \in Nat /\ Cardinality(H) \in Nat /\ Cardinality(C) \in Nat
    BY <2>3, FS_CardinalityType
  <2>5. BalancedAt(i)
    BY <2>0, BalancedWhen
  <2>6. IsSent(i) \in 0 .. 1
    BY DEF IsSent
  <2>7. Cardinality(Leases(i)) <= Cardinality(Uses(i))
    <3>1. Leases(i) \subseteq Uses(i)
      BY DEF Leases, Uses, Of
    <3>2. QED
      BY <3>1, <2>3, SubsetSize
  <2>8. IsFiniteSet(S) /\ Cardinality(S) <= Cardinality(H)
    <3>1. f \in Surjection(H, S)
      BY DEF Surjection
    <3>2. QED
      BY <3>1, <2>3, FS_Surjection
  <2> HIDE DEF S, C, H
  <2>9. /\ Cardinality(S) \in Nat /\ Cardinality(Holders(i)) \in Nat
        /\ Cardinality(Holders(i)) <= Cardinality(S) + Cardinality(C)
    BY <2>1, <2>3, <2>8, Sizes
  <2>10. QED
    BY <2>2, <2>4, <2>5, <2>6, <2>7, <2>8, <2>9 DEF BalancedAt, Balance, H, C
<1>2. QED
  BY <1>1, PoolInvariant, PTL

=============================================================================
