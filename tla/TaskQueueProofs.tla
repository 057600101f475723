-------------------------- MODULE TaskQueueProofs --------------------------
(***************************************************************************)
(* Machine-checked proofs about TaskQueue, for every number of threads,    *)
(* queues, tasks, policies, restarts and faults.                           *)
(***************************************************************************)
EXTENDS TaskQueue, FiniteSetTheorems, TLAPS

(***************************************************************************)
(* Finite sets                                                             *)
(***************************************************************************)
\* The image of a finite set under a function is finite.
LEMMA ImageFinite ==
  ASSUME NEW S, IsFiniteSet(S), NEW f
  PROVE  IsFiniteSet({f[x] : x \in S})
<1> DEFINE T == {f[x] : x \in S}
           g == [x \in S |-> f[x]]
<1>1. g \in Surjection(S, T)
  BY DEF Surjection
<1> QED
  BY <1>1, FS_Surjection

\* A scan of a finite family is finite, and so are its counts.
LEMMA PartFinite ==
  ASSUME NEW S, IsFiniteSet(S), NEW T, T \subseteq S
  PROVE  IsFiniteSet(T) /\ Cardinality(T) \in Nat
  BY FS_Subset, FS_CardinalityType

\* What the record constructors of the write batches build from finite sets
\* of records is finite.
LEMMA BuiltFinite ==
  ASSUME NEW S, IsFiniteSet(S)
  PROVE  /\ IsFiniteSet({Delivered(r) : r \in S})
         /\ IsFiniteSet({Poison(r) : r \in S})
         /\ IsFiniteSet({Retried(r, r.seq) : r \in S})
         /\ \A T : IsFiniteSet({Replayed(r, seq + Rank(T, r)) : r \in S})
<1>1. IsFiniteSet({Delivered(r) : r \in S})
  <2> DEFINE f == [r \in S |-> Delivered(r)]
  <2>1. {f[r] : r \in S} = {Delivered(r) : r \in S}
    OBVIOUS
  <2> HIDE DEF f
  <2>2. IsFiniteSet({f[r] : r \in S})
    BY ImageFinite
  <2> QED BY <2>1, <2>2
<1>2. IsFiniteSet({Poison(r) : r \in S})
  <2> DEFINE f == [r \in S |-> Poison(r)]
  <2>1. {f[r] : r \in S} = {Poison(r) : r \in S}
    OBVIOUS
  <2> HIDE DEF f
  <2>2. IsFiniteSet({f[r] : r \in S})
    BY ImageFinite
  <2> QED BY <2>1, <2>2
<1>3. IsFiniteSet({Retried(r, r.seq) : r \in S})
  <2> DEFINE f == [r \in S |-> Retried(r, r.seq)]
  <2>1. {f[r] : r \in S} = {Retried(r, r.seq) : r \in S}
    OBVIOUS
  <2> HIDE DEF f
  <2>2. IsFiniteSet({f[r] : r \in S})
    BY ImageFinite
  <2> QED BY <2>1, <2>2
<1>4. ASSUME NEW T
      PROVE  IsFiniteSet({Replayed(r, seq + Rank(T, r)) : r \in S})
  <2> DEFINE f == [r \in S |-> Replayed(r, seq + Rank(T, r))]
  <2>1. {f[r] : r \in S} = {Replayed(r, seq + Rank(T, r)) : r \in S}
    OBVIOUS
  <2> HIDE DEF f
  <2>2. IsFiniteSet({f[r] : r \in S})
    BY ImageFinite
  <2> QED BY <2>1, <2>2
<1> QED
  BY <1>1, <1>2, <1>3, <1>4

(***************************************************************************)
(* Type correctness                                                        *)
(***************************************************************************)
USE ProcessAssumption, QueueAssumption, PolicyAssumption, BoundAssumption

\* The locals an idle process starts from are well typed.
LEMMA NoRegistersType ==
  NoRegisters \in Registers /\ NoBatch \in Batch
  BY DEF NoRegisters, Registers, NoBatch, Batch

\* Returning from an operation keeps the types of what it resets.
LEMMA ReturnType ==
  ASSUME TypeOK, Finite, NEW p \in Procs, Return(p)
  PROVE  /\ pc' \in [Procs -> PCs]
         /\ reg' \in [Procs -> Registers]
         /\ batch' \in [Procs -> Batch]
         /\ queueLock' \in [Queues -> Threads \cup {Free}]
         /\ ackLock' \in [Queues -> Threads \cup {Free}]
         /\ \A o \in Procs : IsFiniteSet(batch'[o].put) /\ IsFiniteSet(reg'[o].found)
<1>1. IsFiniteSet(NoBatch.put) /\ IsFiniteSet(NoRegisters.found)
  BY FS_EmptySet DEF NoBatch, NoRegisters
<1>2. pc' \in [Procs -> PCs]
  BY DEF Return, Goto, TypeOK, PCs
<1>3. reg' \in [Procs -> Registers] /\ batch' \in [Procs -> Batch]
  BY NoRegistersType DEF Return, Locals, TypeOK
<1>4. queueLock' \in [Queues -> Threads \cup {Free}] /\ ackLock' \in [Queues -> Threads \cup {Free}]
  BY DEF Return, Released, TypeOK
<1>5. \A o \in Procs : IsFiniteSet(batch'[o].put) /\ IsFiniteSet(reg'[o].found)
  BY <1>1 DEF Return, Locals, TypeOK, Finite
<1> QED
  BY <1>2, <1>3, <1>4, <1>5

RegOK ==
  /\ reg \in [Procs -> Registers]
  /\ \A p \in Procs : IsFiniteSet(reg[p].found)

BatchOK ==
  /\ batch \in [Procs -> Batch]
  /\ \A p \in Procs : IsFiniteSet(batch[p].put)

\* A batch built from stored records is well typed.
LEMMA BuildType ==
  ASSUME TypeOK, Finite, NEW p \in Procs, NEW S, S \subseteq Rec,
         NEW R, R \subseteq Rec, IsFiniteSet(R), Build(p, S, R)
  PROVE  BatchOK'
<1>1. Places(S) \subseteq CFs \X Queues \X Nat
  BY DEF Places, Place, Rec
<1>2. [del |-> Places(S), put |-> R] \in Batch
  BY <1>1 DEF Batch
<1> HIDE DEF Places
<1>3. batch' \in [Procs -> Batch]
  BY <1>2 DEF Build, TypeOK
<1>4. \A o \in Procs : IsFiniteSet(batch'[o].put)
  BY DEF Build, TypeOK, Finite
<1> QED
  BY <1>3, <1>4 DEF BatchOK

\* Local variables stay well typed when what is assigned to them is.
LEMMA LocalsType ==
  ASSUME TypeOK, Finite, NEW p \in Procs, NEW g \in Registers, IsFiniteSet(g.found), Locals(p, g)
  PROVE  RegOK'
  BY DEF Locals, TypeOK, Finite, RegOK

\* Each assignment to a local that some operation makes keeps Registers.
LEMMA AssignType ==
  ASSUME TypeOK, Finite, NEW p \in Procs
  PROVE  /\ \A q \in Queues, n \in Nat, pol \in Policies :
              Locals(p, [reg[p] EXCEPT !.q = q, !.n = n, !.pol = pol]) => RegOK'
         /\ \A q \in Queues, n \in Nat :
              Locals(p, [reg[p] EXCEPT !.q = q, !.n = n]) => RegOK'
         /\ \A n \in Nat :
              Locals(p, [reg[p] EXCEPT !.n = n]) => RegOK'
         /\ \A n \in Nat :
              Locals(p, [reg[p] EXCEPT !.seen = n]) => RegOK'
         /\ \A S \in SUBSET Rec :
              Locals(p, [reg[p] EXCEPT !.found = S]) /\ IsFiniteSet(S) => RegOK'
         /\ \A K \in SUBSET Key, W \in SUBSET Queues :
              Locals(p, [reg[p] EXCEPT !.keys = K, !.want = W]) => RegOK'
         /\ \A W \in SUBSET Queues :
              Locals(p, [reg[p] EXCEPT !.want = W]) => RegOK'
         /\ \A K \in SUBSET Key, S \in SUBSET Rec :
              Locals(p, [reg[p] EXCEPT !.keys = K, !.found = S]) /\ IsFiniteSet(S) => RegOK'
         /\ \A q \in Queues, I \in SUBSET Ids :
              Locals(p, [reg[p] EXCEPT !.q = q, !.goal = I]) => RegOK'
         /\ \A n, b \in Nat :
              Locals(p, [reg[p] EXCEPT !.seen = n, !.back = b]) => RegOK'
<1>0. reg[p] \in Registers /\ IsFiniteSet(reg[p].found)
  BY DEF TypeOK, Finite
<1>1. ASSUME NEW q \in Queues, NEW n \in Nat, NEW pol \in Policies,
             Locals(p, [reg[p] EXCEPT !.q = q, !.n = n, !.pol = pol])
      PROVE  RegOK'
  <2> DEFINE g == [reg[p] EXCEPT !.q = q, !.n = n, !.pol = pol]
  <2>1. g \in Registers /\ IsFiniteSet(g.found)
    BY <1>0, <1>1 DEF Registers
  <2>2. Locals(p, g)
    BY <1>1
  <2> HIDE DEF g
  <2> QED
    BY <2>1, <2>2, LocalsType
<1>2. ASSUME NEW q \in Queues, NEW n \in Nat,
             Locals(p, [reg[p] EXCEPT !.q = q, !.n = n])
      PROVE  RegOK'
  <2> DEFINE g == [reg[p] EXCEPT !.q = q, !.n = n]
  <2>1. g \in Registers /\ IsFiniteSet(g.found)
    BY <1>0, <1>2 DEF Registers
  <2>2. Locals(p, g)
    BY <1>2
  <2> HIDE DEF g
  <2> QED
    BY <2>1, <2>2, LocalsType
<1>3. ASSUME NEW n \in Nat,
             Locals(p, [reg[p] EXCEPT !.n = n])
      PROVE  RegOK'
  <2> DEFINE g == [reg[p] EXCEPT !.n = n]
  <2>1. g \in Registers /\ IsFiniteSet(g.found)
    BY <1>0, <1>3 DEF Registers
  <2>2. Locals(p, g)
    BY <1>3
  <2> HIDE DEF g
  <2> QED
    BY <2>1, <2>2, LocalsType
<1>4. ASSUME NEW n \in Nat,
             Locals(p, [reg[p] EXCEPT !.seen = n])
      PROVE  RegOK'
  <2> DEFINE g == [reg[p] EXCEPT !.seen = n]
  <2>1. g \in Registers /\ IsFiniteSet(g.found)
    BY <1>0, <1>4 DEF Registers
  <2>2. Locals(p, g)
    BY <1>4
  <2> HIDE DEF g
  <2> QED
    BY <2>1, <2>2, LocalsType
<1>5. ASSUME NEW S \in SUBSET Rec, IsFiniteSet(S),
             Locals(p, [reg[p] EXCEPT !.found = S])
      PROVE  RegOK'
  <2> DEFINE g == [reg[p] EXCEPT !.found = S]
  <2>1. g \in Registers /\ IsFiniteSet(g.found)
    BY <1>0, <1>5 DEF Registers
  <2>2. Locals(p, g)
    BY <1>5
  <2> HIDE DEF g
  <2> QED
    BY <2>1, <2>2, LocalsType
<1>6. ASSUME NEW K \in SUBSET Key, NEW W \in SUBSET Queues,
             Locals(p, [reg[p] EXCEPT !.keys = K, !.want = W])
      PROVE  RegOK'
  <2> DEFINE g == [reg[p] EXCEPT !.keys = K, !.want = W]
  <2>1. g \in Registers /\ IsFiniteSet(g.found)
    BY <1>0, <1>6 DEF Registers
  <2>2. Locals(p, g)
    BY <1>6
  <2> HIDE DEF g
  <2> QED
    BY <2>1, <2>2, LocalsType
<1>7. ASSUME NEW W \in SUBSET Queues,
             Locals(p, [reg[p] EXCEPT !.want = W])
      PROVE  RegOK'
  <2> DEFINE g == [reg[p] EXCEPT !.want = W]
  <2>1. g \in Registers /\ IsFiniteSet(g.found)
    BY <1>0, <1>7 DEF Registers
  <2>2. Locals(p, g)
    BY <1>7
  <2> HIDE DEF g
  <2> QED
    BY <2>1, <2>2, LocalsType
<1>8. ASSUME NEW K \in SUBSET Key, NEW S \in SUBSET Rec, IsFiniteSet(S),
             Locals(p, [reg[p] EXCEPT !.keys = K, !.found = S])
      PROVE  RegOK'
  <2> DEFINE g == [reg[p] EXCEPT !.keys = K, !.found = S]
  <2>1. g \in Registers /\ IsFiniteSet(g.found)
    BY <1>0, <1>8 DEF Registers
  <2>2. Locals(p, g)
    BY <1>8
  <2> HIDE DEF g
  <2> QED
    BY <2>1, <2>2, LocalsType
<1>9. ASSUME NEW q \in Queues, NEW I \in SUBSET Ids,
             Locals(p, [reg[p] EXCEPT !.q = q, !.goal = I])
      PROVE  RegOK'
  <2> DEFINE g == [reg[p] EXCEPT !.q = q, !.goal = I]
  <2>1. g \in Registers /\ IsFiniteSet(g.found)
    BY <1>0, <1>9 DEF Registers
  <2>2. Locals(p, g)
    BY <1>9
  <2> HIDE DEF g
  <2> QED
    BY <2>1, <2>2, LocalsType
<1>10. ASSUME NEW n \in Nat, NEW b \in Nat,
              Locals(p, [reg[p] EXCEPT !.seen = n, !.back = b])
       PROVE  RegOK'
  <2> DEFINE g == [reg[p] EXCEPT !.seen = n, !.back = b]
  <2>1. g \in Registers /\ IsFiniteSet(g.found)
    BY <1>0, <1>10 DEF Registers
  <2>2. Locals(p, g)
    BY <1>10
  <2> HIDE DEF g
  <2> QED
    BY <2>1, <2>2, LocalsType
<1> QED
  BY <1>1, <1>2, <1>3, <1>4, <1>5, <1>6, <1>7, <1>8, <1>9, <1>10

\* Committing a batch keeps the store well typed and finite.
LEMMA AppliedType ==
  ASSUME TypeOK, Finite, NEW p \in Procs, db' = Applied(batch[p])
  PROVE  db' \subseteq Rec /\ IsFiniteSet(db')
<1> DEFINE kept == {r \in db : Place(r) \notin batch[p].del \cup Places(batch[p].put)}
<1>1. db' = kept \cup batch[p].put
  BY DEF Applied
<1>2. batch[p].put \subseteq Rec
  BY DEF TypeOK, Batch
<1>3. IsFiniteSet(kept)
  BY FS_Subset DEF Finite
<1>4. IsFiniteSet(kept \cup batch[p].put)
  BY <1>3, FS_Union DEF Finite
<1> QED
  BY <1>1, <1>2, <1>4 DEF TypeOK

\* The constructors make records of records.
LEMMA ConstructorType ==
  ASSUME NEW r \in Rec
  PROVE  /\ Delivered(r) \in Rec
         /\ Poison(r) \in Rec
         /\ [r EXCEPT !.cf = "dlq"] \in Rec
         /\ [r EXCEPT !.deadline = "past"] \in Rec
         /\ [r EXCEPT !.kind = "garbage", !.deadline = "none"] \in Rec
         /\ \A s \in Nat : Retried(r, s) \in Rec /\ Replayed(r, s) \in Rec
<1>1. Delivered(r) \in Rec
  <2>1. r.attempts + 1 \in Nat
    BY DEF Rec
  <2>2. \A n \in Nat :
          [r EXCEPT !.cf = "inflight", !.attempts = n, !.deadline = "live"] \in Rec
    BY DEF Rec, CFs
  <2> QED
    BY <2>1, <2>2 DEF Delivered
<1>2. Poison(r) \in Rec
  BY DEF Poison, Rec, CFs
<1>3. [r EXCEPT !.cf = "dlq"] \in Rec /\ [r EXCEPT !.deadline = "past"] \in Rec
  BY DEF Rec, CFs
<1>4. [r EXCEPT !.kind = "garbage", !.deadline = "none"] \in Rec
  BY DEF Rec
<1>5. ASSUME NEW s \in Nat
      PROVE  Retried(r, s) \in Rec /\ Replayed(r, s) \in Rec
  BY <1>5 DEF Retried, Replayed, Rec, CFs
<1> QED
  BY <1>1, <1>2, <1>3, <1>4, <1>5

\* A freshly opened registry is well typed and holds finitely much.
LEMMA TypeInit == Init => TypeOK /\ Finite
<1> SUFFICES ASSUME Init PROVE TypeOK /\ Finite
  OBVIOUS
<1>1. IsFiniteSet(NoBatch.put) /\ IsFiniteSet(NoRegisters.found) /\ IsFiniteSet({})
  BY FS_EmptySet DEF NoBatch, NoRegisters
<1>2. Finite
  BY <1>1 DEF Init, Finite
<1>3. TypeOK
  BY NoRegistersType DEF Init, TypeOK, PCs
<1> QED
  BY <1>2, <1>3

\* Counting one queue of a column family.
LEMMA CountType ==
  ASSUME Finite
  PROVE  \A c, q : Cardinality(Of(In(c), q)) \in Nat
  BY PartFinite DEF Finite, Of, In

\* enqueue_batch_sync, with the quota check and the eviction, keeps the types.
LEMMA EnqueueType ==
  ASSUME TypeOK, Finite, NEW t \in Threads, Enqueue(t)
  PROVE  TypeOK' /\ Finite'
<1>0. t \in Procs /\ reg[t] \in Registers /\ IsFiniteSet(reg[t].found)
  BY DEF Procs, TypeOK, Finite
<1>1. ASSUME NEW q \in Queues, NEW n \in 1 .. MaxBatch, NEW pol \in Policies,
             EnqueueBegin(t, q, n, pol)
      PROVE  TypeOK' /\ Finite'
  <2>1. n \in Nat
    OBVIOUS
  <2>2. RegOK'
    BY <1>0, <1>1, <2>1, AssignType DEF EnqueueBegin
  <2> QED
    BY <1>0, <1>1, <2>2 DEF EnqueueBegin, TypeOK, Finite, RegOK, BatchOK, PCs, Goto, boundVars, historyVars, lockVars
<1>2. CASE EnqueueCountPending(t)
  <2>1. RegOK'
    BY <1>0, <1>2, CountType, AssignType DEF EnqueueCountPending
  <2> QED
    BY <1>0, <1>2, <2>1 DEF EnqueueCountPending, TypeOK, Finite, RegOK, BatchOK, PCs, Goto, boundVars, historyVars, lockVars
<1>3. CASE QuotaFits(t)
  BY <1>0, <1>3 DEF QuotaFits, TypeOK, Finite, RegOK, BatchOK, PCs, Goto, boundVars, historyVars, lockVars
<1>4. CASE QuotaExceeded(t)
  BY <1>0, <1>4, ReturnType DEF QuotaExceeded, TypeOK, Finite, boundVars, historyVars
<1>5. CASE QuotaWait(t)
  BY <1>0, <1>5 DEF QuotaWait, TypeOK, Finite, RegOK, BatchOK, PCs, Goto, boundVars, historyVars, lockVars
<1>6. CASE QuotaEvict(t)
  <2>1. (Current(t) + reg[t].n) - reg[t].pol.quota \in Nat
    BY <1>0, <1>6, CountType DEF QuotaEvict, Fits, Current, Registers, NamespacePolicy
  <2>2. RegOK'
    BY <1>0, <1>6, <2>1, AssignType DEF QuotaEvict
  <2> QED
    BY <1>0, <1>6, <2>2 DEF QuotaEvict, TypeOK, Finite, RegOK, BatchOK, PCs, Goto, boundVars, historyVars, lockVars
<1>7. CASE EvictScan(t)
  <2> DEFINE backlog == Of(In("pending"), reg[t].q)
             oldest == {r \in backlog : Rank(backlog, r) < reg[t].seen}
  <2>1. oldest \subseteq db
    BY DEF Of, In
  <2>2. Build(t, oldest, {}) /\ Locals(t, [reg[t] EXCEPT !.found = oldest])
    BY <1>7 DEF EvictScan, Oldest
  <2> HIDE DEF oldest
  <2>3. oldest \subseteq Rec /\ IsFiniteSet(oldest) /\ IsFiniteSet({})
    BY <2>1, PartFinite, FS_EmptySet DEF TypeOK, Finite
  <2>4. RegOK'
    BY <1>0, <2>2, <2>3, AssignType
  <2>5. BatchOK'
    BY <1>0, <2>2, <2>3, BuildType
  <2> QED
    BY <1>0, <1>7, <2>4, <2>5 DEF EvictScan, Oldest, TypeOK, Finite, RegOK, BatchOK, PCs, Goto, boundVars, historyVars, lockVars
<1>8. CASE EvictWrite(t)
  <2>1. db' \subseteq Rec /\ IsFiniteSet(db')
    BY <1>0, <1>8, AppliedType DEF EvictWrite
  <2>2. IdsOf(reg[t].found) \subseteq Ids
    BY <1>0 DEF IdsOf, Registers, Rec
  <2>3. RegOK'
    BY <1>0, <1>8, AssignType, FS_EmptySet DEF EvictWrite
  <2>4. BatchOK'
    <3>1. IsFiniteSet(NoBatch.put)
      BY FS_EmptySet DEF NoBatch
    <3> QED
      BY <1>0, <1>8, <3>1, NoRegistersType DEF EvictWrite, TypeOK, Finite, BatchOK
  <2> QED
    BY <1>0, <1>8, <2>1, <2>2, <2>3, <2>4 DEF EvictWrite, TypeOK, Finite, RegOK, BatchOK, PCs, Goto, boundVars, historyVars, lockVars
<1>9. CASE EnqueueBuild(t)
  <2> DEFINE new(i) == [cf |-> "pending", q |-> reg[t].q, seq |-> seq + i, id |-> nextId + i,
                        attempts |-> 0, deadline |-> "none", kind |-> "task"]
             dom == 0 .. reg[t].n - 1
             news == {new(i) : i \in dom}
             f == [i \in dom |-> new(i)]
  <2>1. reg[t].n \in Nat /\ reg[t].q \in Queues
    BY <1>0 DEF Registers
  <2>2. Build(t, {}, news) /\ nextId + reg[t].n <= MaxTasks + 1
    BY <1>9 DEF EnqueueBuild, NextSeq
  <2>3. ASSUME NEW i \in dom
        PROVE  new(i) \in Rec
    BY <2>1, <2>2 DEF TypeOK, Rec, CFs, Ids
  <2>4. {f[i] : i \in dom} = news
    OBVIOUS
  <2>5. IsFiniteSet(dom)
    <3>1. dom \in SUBSET Nat /\ \A i \in dom : i <= reg[t].n
      BY <2>1
    <3> HIDE DEF dom
    <3> QED
      BY <2>1, <3>1, FS_BoundedSetOfNaturals
  <2> HIDE DEF f, dom
  <2>6. IsFiniteSet(news)
    BY <2>4, <2>5, ImageFinite
  <2>7. news \subseteq Rec
    BY <2>3
  <2> HIDE DEF news
  <2>8. BatchOK'
    BY <1>0, <2>2, <2>6, <2>7, BuildType
  <2>9. nextId' \in 1 .. MaxTasks + 1 /\ seq' \in Nat
    BY <1>9, <2>1 DEF EnqueueBuild, NextSeq, TypeOK
  <2> QED
    BY <1>0, <1>9, <2>8, <2>9 DEF EnqueueBuild, NextSeq, TypeOK, Finite, RegOK, BatchOK, PCs, Goto, boundVars, historyVars, lockVars
<1>10. CASE EnqueueWrite(t)
  <2>1. db' \subseteq Rec /\ IsFiniteSet(db')
    BY <1>0, <1>10, AppliedType DEF EnqueueWrite
  <2>2. IdsOf(batch[t].put) \subseteq Ids
    BY <1>0 DEF IdsOf, TypeOK, Batch, Rec
  <2> QED
    BY <1>0, <1>10, <2>1, <2>2, ReturnType DEF EnqueueWrite, TypeOK, Finite, boundVars
<1> QED
  BY <1>1, <1>2, <1>3, <1>4, <1>5, <1>6, <1>7, <1>8, <1>9, <1>10 DEF Enqueue

\* Both dequeues keep the types: a delivery is a record like any other.
LEMMA DequeueType ==
  ASSUME TypeOK, Finite, NEW t \in Threads, Dequeue(t)
  PROVE  TypeOK' /\ Finite'
<1>0. t \in Procs /\ reg[t] \in Registers /\ IsFiniteSet(reg[t].found)
  BY DEF Procs, TypeOK, Finite
<1>1. ASSUME NEW q \in Queues, NEW n \in 1 .. MaxBatch, NEW pol \in Policies,
             DequeueBegin(t, q, n, pol)
      PROVE  TypeOK' /\ Finite'
  <2>1. n \in Nat
    OBVIOUS
  <2>2. RegOK'
    BY <1>0, <1>1, <2>1, AssignType DEF DequeueBegin
  <2> QED
    BY <1>0, <1>1, <2>2 DEF DequeueBegin, TypeOK, Finite, RegOK, BatchOK, PCs, Goto, boundVars, historyVars, lockVars
<1>2. ASSUME NEW q \in Queues, NEW n \in 1 .. MaxBatch, DequeueUncappedBegin(t, q, n)
      PROVE  TypeOK' /\ Finite'
  <2>1. n \in Nat
    OBVIOUS
  <2>2. RegOK'
    BY <1>0, <1>2, <2>1, AssignType DEF DequeueUncappedBegin
  <2> QED
    BY <1>0, <1>2, <2>2 DEF DequeueUncappedBegin, TypeOK, Finite, RegOK, BatchOK, PCs, Goto, boundVars, historyVars, lockVars
<1>3. CASE DequeueCount(t)
  <2> DEFINE m == IF reg[t].n <= Room(t) THEN reg[t].n ELSE Room(t)
  <2>1. m \in Nat
    BY <1>0, <1>3, CountType DEF DequeueCount, Limit, AtCap, Room, Registers, NamespacePolicy
  <2>2. Locals(t, [reg[t] EXCEPT !.n = m])
    BY <1>3 DEF DequeueCount, Limit
  <2> HIDE DEF m
  <2>3. RegOK'
    BY <1>0, <2>1, <2>2, AssignType
  <2> QED
    BY <1>0, <1>3, <2>3 DEF DequeueCount, Limit, TypeOK, Finite, RegOK, BatchOK, PCs, Goto, boundVars, historyVars, lockVars
<1>4. CASE DequeueAtCap(t)
  BY <1>0, <1>4, ReturnType DEF DequeueAtCap, TypeOK, Finite, boundVars, historyVars
<1>5. CASE DequeueScan(t)
  <2> DEFINE S == Scanned(t)
             V == Valid(S)
             R == {Delivered(r) : r \in V} \cup {Poison(r) : r \in S \ V}
  <2>1. S \subseteq db /\ V \subseteq S
    BY DEF Scanned, Of, In, Valid
  <2>2. Build(t, S, R)
    BY <1>5 DEF DequeueScan
  <2> HIDE DEF S, V
  <2>3. S \subseteq Rec /\ IsFiniteSet(V) /\ IsFiniteSet(S \ V)
    BY <2>1, PartFinite DEF TypeOK, Finite
  <2>4. R \subseteq Rec
    BY <2>1, <2>3, ConstructorType
  <2>5. IsFiniteSet(R)
    BY <2>3, BuiltFinite, FS_Union
  <2> HIDE DEF R
  <2>6. BatchOK'
    BY <1>0, <2>2, <2>3, <2>4, <2>5, BuildType
  <2> QED
    BY <1>0, <1>5, <2>6 DEF DequeueScan, TypeOK, Finite, RegOK, BatchOK, PCs, Goto, boundVars, historyVars, lockVars
<1>6. CASE DequeueEmpty(t)
  BY <1>0, <1>6, ReturnType DEF DequeueEmpty, TypeOK, Finite, boundVars, historyVars
<1>7. CASE DequeueWrite(t)
  <2> DEFINE out == {r \in batch[t].put : r.cf = "inflight"}
  <2>1. db' \subseteq Rec /\ IsFiniteSet(db')
    BY <1>0, <1>7, AppliedType DEF DequeueWrite
  <2>2. handed' = handed \cup KeysOf(out)
    BY <1>7 DEF DequeueWrite
  <2>3. KeysOf(out) \subseteq Key
    BY <1>0 DEF KeysOf, KeyOf, Key, TypeOK, Batch, Rec
  <2>4. deliveries' = [i \in Ids |-> deliveries[i] + Cardinality({r \in out : r.id = i})]
    BY <1>7 DEF DequeueWrite
  <2>5. \A i \in Ids : Cardinality({r \in out : r.id = i}) \in Nat
    BY <1>0, PartFinite DEF Finite
  <2> HIDE DEF out
  <2>6. deliveries' \in [Ids -> Nat]
    BY <2>4, <2>5 DEF TypeOK
  <2>7. handed' \subseteq Key
    BY <2>2, <2>3 DEF TypeOK
  <2> QED
    BY <1>0, <1>7, <2>1, <2>6, <2>7, ReturnType DEF DequeueWrite, TypeOK, Finite, boundVars
<1> QED
  BY <1>1, <1>2, <1>3, <1>4, <1>5, <1>6, <1>7 DEF Dequeue

\* The commit of either acknowledgement.
LEMMA AckedType ==
  ASSUME TypeOK, Finite, NEW t \in Procs, Acked(t)
  PROVE  TypeOK' /\ Finite'
<1>0. reg[t] \in Registers /\ IsFiniteSet(reg[t].found)
  BY DEF TypeOK, Finite
<1>1. db' \subseteq Rec /\ IsFiniteSet(db')
  BY AppliedType DEF Acked
<1>2. IdsOf(reg[t].found) \subseteq Ids
  BY <1>0 DEF IdsOf, Registers, Rec
<1>3. \A i \in Ids : Cardinality({r \in reg[t].found : r.id = i}) \in Nat
  BY <1>0, PartFinite
<1>4. tally' \in [Ids -> Nat]
  BY <1>3 DEF Acked, TypeOK
<1> QED
  BY <1>1, <1>2, <1>4, ReturnType DEF Acked, TypeOK, Finite, boundVars

\* ack_batch and cumulative_ack keep the types of locks, scans and counts.
LEMMA AckType ==
  ASSUME TypeOK, Finite, NEW t \in Threads, Ack(t)
  PROVE  TypeOK' /\ Finite'
<1>0. t \in Procs /\ reg[t] \in Registers /\ IsFiniteSet(reg[t].found)
  BY DEF Procs, TypeOK, Finite
<1>1. ASSUME NEW K \in SUBSET handed, AckBegin(t, K)
      PROVE  TypeOK' /\ Finite'
  <2>1. K \in SUBSET Key /\ QueuesOf(K) \in SUBSET Queues
    BY DEF TypeOK, QueuesOf, Key
  <2>2. RegOK'
    BY <1>0, <1>1, <2>1, AssignType DEF AckBegin
  <2> QED
    BY <1>0, <1>1, <2>2 DEF AckBegin, TypeOK, Finite, RegOK, BatchOK, PCs, Goto, boundVars, historyVars, lockVars
<1>2. CASE AckLock(t)
  <2>1. PICK q \in Queues :
          /\ ackLock' = [ackLock EXCEPT ![q] = t]
          /\ Locals(t, [reg[t] EXCEPT !.want = reg[t].want \ {q}])
          /\ Goto(t, IF reg[t].want = {q} THEN "ack_read" ELSE "ack_lock")
    BY <1>2 DEF AckLock
  <2>2. reg[t].want \ {q} \in SUBSET Queues
    BY <1>0 DEF Registers
  <2>3. RegOK'
    BY <1>0, <2>1, <2>2, AssignType
  <2>4. BatchOK'
    BY <1>0, <1>2, FS_EmptySet, BuildType DEF AckLock
  <2> QED
    BY <1>0, <1>2, <2>1, <2>3, <2>4 DEF AckLock, TypeOK, Finite, RegOK, BatchOK, PCs, Goto, boundVars, historyVars, lockVars
<1>3. CASE AckRead(t)
  <2>1. PICK k \in reg[t].keys :
          /\ Locals(t, [reg[t] EXCEPT !.keys = reg[t].keys \ {k},
                                     !.found = reg[t].found \cup Hit(k)])
          /\ Build(t, reg[t].found \cup Hit(k), {})
          /\ Goto(t, IF reg[t].keys = {k} THEN "ack_write" ELSE "ack_read")
    BY <1>3 DEF AckRead
  <2>2. reg[t].keys \ {k} \in SUBSET Key /\ reg[t].found \in SUBSET Rec
    BY <1>0 DEF Registers
  <2>3. Hit(k) \subseteq db
    BY DEF Hit, In
  <2>4. reg[t].found \cup Hit(k) \in SUBSET Rec
    BY <2>2, <2>3 DEF TypeOK
  <2>5. IsFiniteSet(reg[t].found \cup Hit(k))
    BY <1>0, <2>3, PartFinite, FS_Union DEF Finite
  <2>6. RegOK'
    BY <1>0, <2>1, <2>2, <2>4, <2>5, AssignType
  <2>7. BatchOK'
    BY <1>0, <2>1, <2>4, FS_EmptySet, BuildType
  <2> QED
    BY <1>0, <1>3, <2>1, <2>6, <2>7 DEF AckRead, TypeOK, Finite, RegOK, BatchOK, PCs, Goto, boundVars, historyVars, lockVars
<1>4. CASE AckWrite(t)
  BY <1>0, <1>4, AckedType DEF AckWrite
<1>5. ASSUME NEW q \in Queues, NEW upTo \in 0 .. MaxSeq, CumulativeAckScan(t, q, upTo)
      PROVE  TypeOK' /\ Finite'
  <2> DEFINE covered == {r \in Of(In("inflight"), q) : r.seq <= upTo}
  <2>1. covered \subseteq db
    BY DEF Of, In
  <2>2. Build(t, covered, {}) /\ Locals(t, [reg[t] EXCEPT !.found = covered])
    BY <1>5 DEF CumulativeAckScan
  <2> HIDE DEF covered
  <2>3. covered \subseteq Rec /\ IsFiniteSet(covered) /\ IsFiniteSet({})
    BY <2>1, PartFinite, FS_EmptySet DEF TypeOK, Finite
  <2>4. RegOK' /\ BatchOK'
    BY <1>0, <2>2, <2>3, AssignType, BuildType
  <2> QED
    BY <1>0, <1>5, <2>4 DEF CumulativeAckScan, TypeOK, Finite, RegOK, BatchOK, PCs, Goto, boundVars, historyVars, lockVars
<1>6. CASE CumulativeAckWrite(t)
  BY <1>0, <1>6, AckedType DEF CumulativeAckWrite
<1> QED
  BY <1>1, <1>2, <1>3, <1>4, <1>5, <1>6 DEF Ack

\* The commit of a batch that puts records back.
LEMMA PutBackType ==
  ASSUME TypeOK, Finite, NEW p \in Procs, PutBack(p)
  PROVE  TypeOK' /\ Finite'
<1>1. db' \subseteq Rec /\ IsFiniteSet(db')
  BY AppliedType DEF PutBack
<1>2. \A q \in Queues :
        Cardinality({r \in batch[p].put : r.cf = "pending" /\ r.q = q}) \in Nat
  BY PartFinite DEF Finite
<1>3. returned' \in [Queues -> Nat]
  BY <1>2 DEF PutBack, TypeOK
<1> QED
  BY <1>1, <1>3, ReturnType DEF PutBack, TypeOK, Finite, boundVars

\* An iterator position is a natural number.
LEMMA RankType ==
  ASSUME NEW S, IsFiniteSet(S), NEW r
  PROVE  Rank(S, r) \in Nat
  BY PartFinite DEF Rank

\* nack, purge_dlq and replay_dlq keep the types.
LEMMA NackOrDlqType ==
  ASSUME TypeOK, Finite, NEW t \in Threads, NackOrDlq(t)
  PROVE  TypeOK' /\ Finite'
<1>0. t \in Procs /\ reg[t] \in Registers /\ IsFiniteSet(reg[t].found)
  BY DEF Procs, TypeOK, Finite
<1>1. ASSUME NEW k \in handed, NackRead(t, k)
      PROVE  TypeOK' /\ Finite'
  <2>1. PICK r \in Hit(k) :
          \/ Build(t, {r}, {Poison(r)}) /\ seq' = seq
          \/ Build(t, {r}, {[r EXCEPT !.cf = "dlq"]}) /\ seq' = seq
          \/ Build(t, {r}, {Retried(r, seq)}) /\ seq' = seq + 1
    BY <1>1 DEF NackRead, NextSeq, Exhausted
  <2>2. r \in Rec
    BY DEF Hit, In, TypeOK
  <2>3. /\ {r} \subseteq Rec
        /\ {Poison(r)} \subseteq Rec
        /\ {[r EXCEPT !.cf = "dlq"]} \subseteq Rec
        /\ {Retried(r, seq)} \subseteq Rec
    BY <2>2, ConstructorType DEF TypeOK
  <2>4. /\ IsFiniteSet({Poison(r)})
        /\ IsFiniteSet({[r EXCEPT !.cf = "dlq"]})
        /\ IsFiniteSet({Retried(r, seq)})
    BY FS_Singleton
  <2>5. BatchOK'
    BY <1>0, <2>1, <2>3, <2>4, BuildType
  <2>6. seq' \in Nat
    BY <2>1 DEF TypeOK
  <2> QED
    BY <1>0, <1>1, <2>5, <2>6 DEF NackRead, NextSeq, Exhausted, TypeOK, Finite, RegOK, BatchOK, PCs, Goto, boundVars, historyVars, lockVars
<1>2. CASE NackWrite(t)
  BY <1>0, <1>2, PutBackType DEF NackWrite
<1>3. CASE PurgeScan(t)
  <2>1. In("dlq") \subseteq db
    BY DEF In
  <2>2. In("dlq") \subseteq Rec /\ IsFiniteSet(In("dlq")) /\ IsFiniteSet({})
    BY <2>1, PartFinite, FS_EmptySet DEF TypeOK, Finite
  <2>3. RegOK' /\ BatchOK'
    BY <1>0, <1>3, <2>2, AssignType, BuildType DEF PurgeScan
  <2> QED
    BY <1>0, <1>3, <2>3 DEF PurgeScan, TypeOK, Finite, RegOK, BatchOK, PCs, Goto, boundVars, historyVars, lockVars
<1>4. CASE PurgeWrite(t)
  <2>1. db' \subseteq Rec /\ IsFiniteSet(db')
    BY <1>0, <1>4, AppliedType DEF PurgeWrite
  <2>2. IdsOf(reg[t].found) \subseteq Ids
    BY <1>0 DEF IdsOf, Registers, Rec
  <2> QED
    BY <1>0, <1>4, <2>1, <2>2, ReturnType DEF PurgeWrite, TypeOK, Finite, boundVars
<1>5. CASE ReplayScan(t)
  <2> DEFINE D == In("dlq")
             R == {Replayed(r, seq + Rank(D, r)) : r \in D}
  <2>1. D \subseteq db
    BY DEF In
  <2>2. Build(t, D, R) /\ seq' = seq + Cardinality(D)
    BY <1>5 DEF ReplayScan, NextSeq, ReplaySeq
  <2> HIDE DEF D
  <2>3. D \subseteq Rec /\ IsFiniteSet(D) /\ Cardinality(D) \in Nat
    BY <2>1, PartFinite DEF TypeOK, Finite
  <2>4. R \subseteq Rec
    <3>1. \A r \in D : seq + Rank(D, r) \in Nat
      BY <2>3, RankType DEF TypeOK
    <3> QED
      BY <2>3, <3>1, ConstructorType
  <2>5. IsFiniteSet(R)
    BY <2>3, BuiltFinite
  <2> HIDE DEF R
  <2>6. BatchOK' /\ seq' \in Nat
    BY <1>0, <2>2, <2>3, <2>4, <2>5, BuildType DEF TypeOK
  <2> QED
    BY <1>0, <1>5, <2>6 DEF ReplayScan, NextSeq, ReplaySeq, TypeOK, Finite, RegOK, BatchOK, PCs, Goto, boundVars, historyVars, lockVars
<1>6. CASE ReplayAborts(t)
  <2>1. IsFiniteSet(In("dlq"))
    BY PartFinite DEF In, Finite
  <2>2. seq' \in Nat
    BY <1>6, <2>1, RankType DEF ReplayAborts, NextSeq, TypeOK
  <2> QED
    BY <1>6, <2>2 DEF ReplayAborts, NextSeq, TypeOK, Finite, procVars, boundVars, historyVars, lockVars
<1>7. CASE ReplayWrite(t)
  BY <1>0, <1>7, PutBackType DEF ReplayWrite
<1> QED
  BY <1>1, <1>2, <1>3, <1>4, <1>5, <1>6, <1>7 DEF NackOrDlq

\* reap_inflight keeps the types.
LEMMA ReapType ==
  ASSUME TypeOK, Finite, Reap
  PROVE  TypeOK' /\ Finite'
<1>0. Reaper \in Procs
  BY DEF Procs
<1>1. ASSUME NEW q \in Reaped, ReapScan(q)
      PROVE  TypeOK' /\ Finite'
  <2> DEFINE leased == Of(In("inflight"), q)
             late == {r \in leased : Overdue(r)}
             corrupt == leased \ Valid(leased)
             R == {Retried(r, r.seq) : r \in late} \cup {Poison(r) : r \in corrupt}
  <2>1. late \subseteq db /\ corrupt \subseteq db
    BY DEF Of, In
  <2>2. Build(Reaper, late \cup corrupt, R)
    BY <1>1 DEF ReapScan, CorruptIn
  <2> HIDE DEF late, corrupt
  <2>3. /\ late \subseteq Rec /\ corrupt \subseteq Rec
        /\ IsFiniteSet(late) /\ IsFiniteSet(corrupt)
    BY <2>1, PartFinite DEF TypeOK, Finite
  <2>4. \A r \in late : r.seq \in Nat
    BY <2>3 DEF Rec
  <2>5. R \subseteq Rec
    BY <2>3, <2>4, ConstructorType
  <2>6. IsFiniteSet(R)
    BY <2>3, BuiltFinite, FS_Union
  <2> HIDE DEF R
  <2>7. BatchOK'
    BY <1>0, <2>2, <2>3, <2>5, <2>6, BuildType
  <2> QED
    BY <1>0, <1>1, <2>7 DEF ReapScan, CorruptIn, TypeOK, Finite, RegOK, BatchOK, PCs, Goto, boundVars, historyVars, lockVars
<1>2. CASE ReapWrite
  BY <1>0, <1>2, PutBackType DEF ReapWrite
<1> QED
  BY <1>1, <1>2 DEF Reap

\* drain_tenant only counts, and keeps the types.
LEMMA DrainType ==
  ASSUME TypeOK, Finite, NEW t \in Threads, Drain(t)
  PROVE  TypeOK' /\ Finite'
<1>0. t \in Procs /\ reg[t] \in Registers /\ IsFiniteSet(reg[t].found)
  BY DEF Procs, TypeOK, Finite
<1>1. CASE DrainBegin(t)
  <2>1. IdsOf(Backlog(DrainedQueue)) \in SUBSET Ids
    BY DEF IdsOf, Backlog, Of, In, TypeOK, Rec
  <2>2. RegOK'
    BY <1>0, <1>1, <2>1, AssignType DEF DrainBegin
  <2> QED
    BY <1>0, <1>1, <2>2 DEF DrainBegin, TypeOK, Finite, RegOK, BatchOK, PCs, Goto, boundVars, historyVars, lockVars
<1>2. CASE DrainCountPending(t)
  <2>1. returned[reg[t].q] \in Nat
    BY <1>0 DEF Registers, TypeOK
  <2>2. RegOK'
    BY <1>0, <1>2, <2>1, CountType, AssignType DEF DrainCountPending
  <2> QED
    BY <1>0, <1>2, <2>2 DEF DrainCountPending, TypeOK, Finite, RegOK, BatchOK, PCs, Goto, boundVars, historyVars, lockVars
<1>3. CASE DrainDone(t)
  BY <1>0, <1>3, ReturnType DEF DrainDone, TypeOK, Finite, boundVars, historyVars
<1>4. CASE DrainPoll(t)
  BY <1>0, <1>4 DEF DrainPoll, TypeOK, Finite, RegOK, BatchOK, PCs, Goto, boundVars, historyVars, lockVars
<1>5. CASE DrainTimeout(t)
  BY <1>0, <1>5, ReturnType DEF DrainTimeout, TypeOK, Finite, boundVars, historyVars
<1> QED
  BY <1>1, <1>2, <1>3, <1>4, <1>5 DEF Drain

\* The clock, compaction, faults and restarts keep the types.
LEMMA EnvironmentType ==
  ASSUME TypeOK, Finite, Environment
  PROVE  TypeOK' /\ Finite'
<1>1. ASSUME NEW r \in In("inflight"), Expire(r)
      PROVE  TypeOK' /\ Finite'
  <2>1. r \in Rec
    BY DEF In, TypeOK
  <2> DEFINE x == [r EXCEPT !.deadline = "past"]
  <2>2. db' \subseteq Rec /\ IsFiniteSet(db')
    <3>1. db' = (db \ {r}) \cup {x} /\ x \in Rec
      BY <1>1, <2>1, ConstructorType DEF Expire
    <3> HIDE DEF x
    <3>2. IsFiniteSet(db \ {r})
      BY FS_RemoveElement DEF Finite
    <3>3. IsFiniteSet((db \ {r}) \cup {x})
      BY <3>2, FS_AddElement
    <3> QED
      BY <3>1, <3>3 DEF TypeOK
  <2> QED
    BY <1>1, <2>2 DEF Expire, TypeOK, Finite, procVars, boundVars, historyVars, lockVars
<1>2. ASSUME NEW r \in db, Compact(r)
      PROVE  TypeOK' /\ Finite'
  <2>1. r.id \in Ids
    BY DEF TypeOK, Rec
  <2>2. db' \subseteq Rec /\ IsFiniteSet(db')
    BY <1>2, FS_RemoveElement DEF Compact, TypeOK, Finite
  <2> QED
    BY <1>2, <2>1, <2>2 DEF Compact, TypeOK, Finite, procVars, boundVars, lockVars
<1>3. ASSUME NEW r \in db, Corrupt(r)
      PROVE  TypeOK' /\ Finite'
  <2> DEFINE x == [r EXCEPT !.kind = "garbage", !.deadline = "none"]
  <2>1. db' \subseteq Rec /\ IsFiniteSet(db')
    <3>1. db' = (db \ {r}) \cup {x} /\ x \in Rec
      BY <1>3, ConstructorType DEF Corrupt, TypeOK
    <3> HIDE DEF x
    <3>2. IsFiniteSet(db \ {r})
      BY FS_RemoveElement DEF Finite
    <3>3. IsFiniteSet((db \ {r}) \cup {x})
      BY <3>2, FS_AddElement
    <3> QED
      BY <3>1, <3>3 DEF TypeOK
  <2> QED
    BY <1>3, <2>1 DEF Corrupt, TypeOK, Finite, procVars, historyVars, lockVars
<1>4. ASSUME NEW p \in Procs, IoError(p)
      PROVE  TypeOK' /\ Finite'
  BY <1>4, ReturnType DEF IoError, TypeOK, Finite, historyVars
<1>5. ASSUME NEW now \in 0 .. MaxSeq, Restart(now)
      PROVE  TypeOK' /\ Finite'
  <2>1. IsFiniteSet(NoBatch.put) /\ IsFiniteSet(NoRegisters.found)
    BY FS_EmptySet DEF NoBatch, NoRegisters
  <2> QED
    BY <1>5, <2>1, NoRegistersType DEF Restart, Seed, TypeOK, Finite, PCs, historyVars
<1> QED
  BY <1>1, <1>2, <1>3, <1>4, <1>5 DEF Environment

\* Every step keeps the types and the finiteness they rest on.
LEMMA TypeStep ==
  ASSUME TypeOK, Finite, [Next]_vars
  PROVE  TypeOK' /\ Finite'
<1>1. CASE Next
  BY <1>1, EnqueueType, DequeueType, AckType, NackOrDlqType, DrainType, ReapType,
     EnvironmentType DEF Next
<1>2. CASE UNCHANGED vars
  BY <1>2 DEF vars, TypeOK, Finite, procVars, boundVars, historyVars, lockVars
<1> QED
  BY <1>1, <1>2

\* Every variable of the data path keeps its type, and every column family,
\* write batch and scan stays finite, whatever the operations do.
THEOREM TypeCorrect == Spec => [](TypeOK /\ Finite)
  BY TypeInit, TypeStep, PTL DEF Spec

(***************************************************************************)
(* No task is lost and keys are never shared                               *)
(***************************************************************************)
\* What is stored, about to be written or about to be deleted are records.
LEMMA RecordsType ==
  ASSUME TypeOK
  PROVE  Records \subseteq Rec
  BY DEF TypeOK, Records, Batch, Registers

\* What a step must satisfy to keep sequence numbers fresh, keys unshared and
\* deletions covered: each record it leaves anywhere has the key and the id
\* of a known one or a sequence number just drawn, and each deletion it
\* leaves waiting was covered already or deletes a known record whose task
\* it covers.
LEMMA StepKeeps ==
  ASSUME TypeOK, TypeOK', SeqFresh, KeyNamesOneTask, Covered,
         seq <= seq',
         \A r \in Records' :
            \/ \E s \in Records : KeyOf(r) = KeyOf(s) /\ r.id = s.id
            \/ seq <= r.seq /\ r.seq < seq',
         \A r, s \in Records' : seq <= r.seq /\ KeyOf(r) = KeyOf(s) => r.id = s.id,
         \A p \in Procs : \A d \in batch'[p].del :
            \/ d \in batch[p].del /\ IdsOf(Covering(p)) \subseteq IdsOf(Covering(p)')
            \/ \E s \in Records : Place(s) = d /\ s.id \in IdsOf(Covering(p)')
  PROVE  SeqFresh' /\ KeyNamesOneTask' /\ Covered'
<1>1. Records \subseteq Rec /\ Records' \subseteq Rec /\ seq \in Nat /\ seq' \in Nat
  BY RecordsType DEF TypeOK, Records, Batch, Registers
<1>2. ASSUME NEW r \in Records', NEW s \in Records, KeyOf(r) = KeyOf(s)
      PROVE  r.q = s.q /\ r.seq = s.seq /\ r.seq < seq
  BY <1>1, <1>2 DEF KeyOf, SeqFresh
<1>3. ASSUME NEW p \in Procs, NEW d \in batch'[p].del
      PROVE  d[3] < seq /\ d[3] \in Nat
  <2>1. CASE d \in batch[p].del
    BY <2>1 DEF SeqFresh, TypeOK, Batch
  <2>2. CASE \E s \in Records : Place(s) = d
    BY <1>1, <2>2 DEF SeqFresh, Place, Rec
  <2> QED
    BY <2>1, <2>2
<1>4. \A r \in Records' : r.seq < seq'
  BY <1>1, <1>2 DEF Rec
<1>5. SeqFresh'
  BY <1>1, <1>3, <1>4 DEF SeqFresh
<1>6. ASSUME NEW r \in Records', NEW s \in Records', KeyOf(r) = KeyOf(s)
      PROVE  r.id = s.id
  <2>1. r.seq = s.seq /\ r.seq \in Nat
    BY <1>1, <1>6 DEF KeyOf, Rec
  <2>2. CASE seq <= r.seq
    BY <1>6, <2>2
  <2>3. CASE ~(seq <= r.seq)
    <3>1. PICK u \in Records : KeyOf(r) = KeyOf(u) /\ r.id = u.id
      BY <2>3
    <3>2. PICK v \in Records : KeyOf(s) = KeyOf(v) /\ s.id = v.id
      BY <2>1, <2>3
    <3> QED
      BY <1>6, <3>1, <3>2 DEF KeyNamesOneTask
  <2> QED
    BY <2>2, <2>3
<1>7. ASSUME NEW p \in Procs, NEW d \in batch'[p].del
      PROVE  \E i \in IdsOf(Covering(p)') :
               \A r \in Records' : KeyOf(r) = <<d[2], d[3]>> => r.id = i
  <2>1. ASSUME NEW r \in Records', KeyOf(r) = <<d[2], d[3]>>
        PROVE  \E s \in Records : KeyOf(s) = <<d[2], d[3]>> /\ r.id = s.id
    <3>1. r.seq = d[3]
      BY <2>1 DEF KeyOf
    <3>2. ~(seq <= r.seq)
      BY <1>1, <1>3, <3>1
    <3> QED
      BY <2>1, <3>2
  <2>2. CASE d \in batch[p].del /\ IdsOf(Covering(p)) \subseteq IdsOf(Covering(p)')
    <3>1. PICK i \in IdsOf(Covering(p)) :
            \A r \in Records : KeyOf(r) = <<d[2], d[3]>> => r.id = i
      BY <2>2 DEF Covered
    <3> QED
      BY <2>1, <2>2, <3>1
  <2>3. CASE \E s \in Records : Place(s) = d /\ s.id \in IdsOf(Covering(p)')
    <3>1. PICK s \in Records : Place(s) = d /\ s.id \in IdsOf(Covering(p)')
      BY <2>3
    <3>2. KeyOf(s) = <<d[2], d[3]>>
      BY <3>1 DEF Place, KeyOf
    <3> QED
      BY <2>1, <3>1, <3>2 DEF KeyNamesOneTask
  <2> QED
    BY <1>7, <2>2, <2>3
<1> QED
  BY <1>5, <1>6, <1>7 DEF KeyNamesOneTask, Covered

Safe == SeqFresh /\ KeyNamesOneTask /\ Covered /\ NoTaskLost

\* A step that writes nothing to the store, its batches or its scans.
LEMMA QuietKeeps ==
  ASSUME TypeOK, TypeOK', Safe, seq <= seq',
         db' = db, batch' = batch, accepted' = accepted, settled' = settled,
         \A p \in Procs : reg'[p].found = reg[p].found,
         \A p \in Procs : (pc'[p] \in Settling) <=> (pc[p] \in Settling)
  PROVE  Safe'
<1>1. Records' \subseteq Records
  BY DEF Records
<1>2. ASSUME NEW p \in Procs
      PROVE  Covering(p)' = Covering(p)
  <2>1. CASE pc[p] \in Settling
    BY <2>1 DEF Covering
  <2>2. CASE pc[p] \notin Settling
    BY <2>2 DEF Covering
  <2> QED
    BY <2>1, <2>2
<1>3. \A r \in Records : ~(seq <= r.seq)
  BY RecordsType DEF Safe, SeqFresh, TypeOK, Rec
<1>4. SeqFresh' /\ KeyNamesOneTask' /\ Covered'
  BY <1>1, <1>2, <1>3, StepKeeps DEF Safe
<1> QED
  BY <1>4 DEF Safe, NoTaskLost

\* Committing a covered batch leaves every task in the store or covered.
LEMMA CommitCovers ==
  ASSUME TypeOK, Safe, NEW p \in Procs, db' = Applied(batch[p])
  PROVE  /\ IdsOf(db) \subseteq IdsOf(db') \cup IdsOf(Covering(p))
         /\ batch[p].put \subseteq db'
         /\ db' \subseteq db \cup batch[p].put
<1>1. batch[p].put \subseteq db' /\ db' \subseteq db \cup batch[p].put
  BY DEF Applied
<1>2. batch[p].put \subseteq Records /\ db \subseteq Records
  BY DEF Records
<1>3. ASSUME NEW r \in db
      PROVE  r.id \in IdsOf(db') \cup IdsOf(Covering(p))
  <2>1. CASE Place(r) \in batch[p].del
    <3>1. PICK i \in IdsOf(Covering(p)) :
            \A x \in Records : KeyOf(x) = <<Place(r)[2], Place(r)[3]>> => x.id = i
      BY <2>1 DEF Safe, Covered
    <3>2. KeyOf(r) = <<Place(r)[2], Place(r)[3]>>
      BY DEF KeyOf, Place
    <3> QED
      BY <1>2, <3>1, <3>2
  <2>2. CASE Place(r) \in Places(batch[p].put)
    <3>1. PICK x \in batch[p].put : Place(x) = Place(r)
      BY <2>2 DEF Places
    <3>2. KeyOf(x) = KeyOf(r)
      BY <3>1 DEF Place, KeyOf
    <3>3. x.id = r.id
      BY <1>2, <3>2 DEF Safe, KeyNamesOneTask
    <3> QED
      BY <1>1, <3>3 DEF IdsOf
  <2>3. CASE Place(r) \notin batch[p].del \cup Places(batch[p].put)
    BY <2>3 DEF Applied, IdsOf
  <2> QED
    BY <2>1, <2>2, <2>3
<1> QED
  BY <1>1, <1>3 DEF IdsOf

\* Committing a batch, when the settled history records what it settles.
LEMMA CommitKeeps ==
  ASSUME TypeOK, TypeOK', Safe, NEW p \in Procs,
         db' = Applied(batch[p]), seq' = seq,
         batch' = [batch EXCEPT ![p] = NoBatch], reg'[p].found = {},
         \A o \in Procs : o # p => reg'[o] = reg[o] /\ pc'[o] = pc[o],
         settled \subseteq settled',
         pc[p] \in Settling => IdsOf(reg[p].found) \subseteq settled',
         accepted' \subseteq accepted \cup IdsOf(batch[p].put)
  PROVE  Safe'
<1>1. batch'[p] = NoBatch /\ \A o \in Procs : o # p => batch'[o] = batch[o]
  BY DEF TypeOK
<1>2. NoBatch.del = {} /\ NoBatch.put = {}
  BY DEF NoBatch
<1>3. db' \subseteq Records
  BY CommitCovers DEF Records
<1>4. \A o \in Procs : batch'[o].put \cup reg'[o].found \subseteq Records
  BY <1>1, <1>2 DEF Records
<1>5. Records' \subseteq Records
  BY <1>3, <1>4 DEF Records
<1>6. \A r \in Records : ~(seq <= r.seq)
  BY RecordsType DEF Safe, SeqFresh, TypeOK, Rec
<1>7. \A o \in Procs : \A d \in batch'[o].del :
        d \in batch[o].del /\ IdsOf(Covering(o)) \subseteq IdsOf(Covering(o)')
  BY <1>1, <1>2 DEF Covering
<1>8. SeqFresh' /\ KeyNamesOneTask' /\ Covered'
  BY <1>5, <1>6, <1>7, StepKeeps DEF Safe, TypeOK
<1>9. IdsOf(batch[p].put) \subseteq IdsOf(db')
  BY CommitCovers DEF IdsOf
<1>10. IdsOf(Covering(p)) \subseteq settled' \cup IdsOf(db')
  BY <1>9 DEF Covering
<1>11. NoTaskLost'
  BY <1>9, <1>10, CommitCovers DEF Safe, NoTaskLost
<1> QED
  BY <1>8, <1>11 DEF Safe

\* An operation that returns without writing.
LEMMA ReturnKeeps ==
  ASSUME TypeOK, TypeOK', Safe, NEW p \in Procs, Return(p),
         db' = db, seq' = seq, accepted' = accepted, settled' = settled
  PROVE  Safe'
<1>1. /\ batch'[p].put = {} /\ batch'[p].del = {} /\ reg'[p].found = {}
      /\ \A o \in Procs : o # p => batch'[o] = batch[o] /\ reg'[o] = reg[o] /\ pc'[o] = pc[o]
  BY DEF Return, Locals, Goto, NoBatch, NoRegisters, TypeOK
<1>2. Records' \subseteq Records
  BY <1>1 DEF Records
<1>3. \A r \in Records : ~(seq <= r.seq)
  BY RecordsType DEF Safe, SeqFresh, TypeOK, Rec
<1>4. \A o \in Procs : \A d \in batch'[o].del :
        d \in batch[o].del /\ IdsOf(Covering(o)) \subseteq IdsOf(Covering(o)')
  BY <1>1 DEF Covering
<1>5. SeqFresh' /\ KeyNamesOneTask' /\ Covered'
  BY <1>2, <1>3, <1>4, StepKeeps DEF Safe, TypeOK
<1> QED
  BY <1>5 DEF Safe, NoTaskLost

\* A scan that builds a batch: it deletes known records, each of which it
\* covers, and puts records that are known or freshly numbered.
LEMMA BuildKeeps ==
  ASSUME TypeOK, TypeOK', Safe, NEW p \in Procs, NEW S, NEW R, Build(p, S, R),
         db' = db, seq <= seq', accepted' = accepted, settled' = settled,
         \A o \in Procs : o # p => reg'[o] = reg[o] /\ pc'[o] = pc[o],
         S \subseteq Records, reg'[p].found \subseteq Records,
         \A r \in R :
            \/ \E s \in Records : KeyOf(r) = KeyOf(s) /\ r.id = s.id
            \/ seq <= r.seq /\ r.seq < seq',
         \A r, s \in R : seq <= r.seq /\ KeyOf(r) = KeyOf(s) => r.id = s.id,
         \A s \in S : s.id \in IdsOf(IF pc'[p] \in Settling THEN reg'[p].found ELSE R)
  PROVE  Safe'
<1>1. /\ batch'[p].put = R /\ batch'[p].del = Places(S)
      /\ \A o \in Procs : o # p => batch'[o] = batch[o]
  BY DEF Build, TypeOK
<1>2. Records' \subseteq Records \cup R
  BY <1>1 DEF Records
<1>3. \A r \in Records : ~(seq <= r.seq)
  BY RecordsType DEF Safe, SeqFresh, TypeOK, Rec
<1>4. \A r, s \in Records' : seq <= r.seq /\ KeyOf(r) = KeyOf(s) => r.id = s.id
  <2> SUFFICES ASSUME NEW r \in Records', NEW s \in Records', seq <= r.seq, KeyOf(r) = KeyOf(s)
               PROVE  r.id = s.id
    OBVIOUS
  <2>1. r.seq = s.seq
    BY DEF KeyOf
  <2> QED
    BY <1>2, <1>3, <2>1
<1>5. \A o \in Procs : \A d \in batch'[o].del :
         \/ d \in batch[o].del /\ IdsOf(Covering(o)) \subseteq IdsOf(Covering(o)')
         \/ \E s \in Records : Place(s) = d /\ s.id \in IdsOf(Covering(o)')
  <2> SUFFICES ASSUME NEW o \in Procs, NEW d \in batch'[o].del
               PROVE  \/ d \in batch[o].del /\ IdsOf(Covering(o)) \subseteq IdsOf(Covering(o)')
                      \/ \E s \in Records : Place(s) = d /\ s.id \in IdsOf(Covering(o)')
    OBVIOUS
  <2>1. CASE o = p
    <3>1. PICK s \in S : Place(s) = d
      BY <1>1, <2>1 DEF Places
    <3>2. Covering(o)' = IF pc'[p] \in Settling THEN reg'[p].found ELSE R
      BY <1>1, <2>1 DEF Covering
    <3> QED
      BY <3>1, <3>2
  <2>2. CASE o # p
    BY <1>1, <2>2 DEF Covering
  <2> QED
    BY <2>1, <2>2
<1>6. SeqFresh' /\ KeyNamesOneTask' /\ Covered'
  BY <1>2, <1>4, <1>5, StepKeeps DEF Safe
<1> QED
  BY <1>6 DEF Safe, NoTaskLost

\* A count changes no scan.
LEMMA SeenKeepsFound ==
  ASSUME TypeOK, NEW p \in Procs, NEW n, Locals(p, [reg[p] EXCEPT !.seen = n])
  PROVE  \A o \in Procs : reg'[o].found = reg[o].found
  BY DEF Locals, TypeOK, Registers

\* enqueue_batch_sync: new tasks get numbers no record has, evicted ones are
\* settled.
LEMMA EnqueueSafe ==
  ASSUME TypeOK, TypeOK', Safe, NEW t \in Threads, Enqueue(t)
  PROVE  Safe'
<1>0. t \in Procs /\ reg[t] \in Registers /\ pc[t] \in PCs
  BY DEF Procs, TypeOK
<1>1. ASSUME NEW q \in Queues, NEW n \in 1 .. MaxBatch, NEW pol \in Policies,
             EnqueueBegin(t, q, n, pol)
      PROVE  Safe'
  BY <1>0, <1>1, QuietKeeps DEF EnqueueBegin, Locals, Goto, Settling, TypeOK, Registers, boundVars, historyVars
<1>2. CASE EnqueueCountPending(t)
  <2>1. \A p \in Procs : reg'[p].found = reg[p].found
    BY <1>0, <1>2, SeenKeepsFound DEF EnqueueCountPending, TypeOK
  <2>2. \A p \in Procs : (pc'[p] \in Settling) <=> (pc[p] \in Settling)
    BY <1>0, <1>2 DEF EnqueueCountPending, Goto, Settling, TypeOK
  <2> QED
    BY <1>2, <2>1, <2>2, QuietKeeps DEF EnqueueCountPending, historyVars, TypeOK
<1>3. CASE QuotaFits(t)
  BY <1>0, <1>3, QuietKeeps DEF QuotaFits, Locals, Goto, Settling, TypeOK, Registers, boundVars, historyVars
<1>4. CASE QuotaExceeded(t)
  BY <1>0, <1>4, ReturnKeeps DEF QuotaExceeded, historyVars
<1>5. CASE QuotaWait(t)
  BY <1>0, <1>5, QuietKeeps DEF QuotaWait, Locals, Goto, Settling, TypeOK, Registers, boundVars, historyVars
<1>6. CASE QuotaEvict(t)
  <2>1. \A p \in Procs : reg'[p].found = reg[p].found
    BY <1>0, <1>6, SeenKeepsFound DEF QuotaEvict, TypeOK
  <2>2. \A p \in Procs : (pc'[p] \in Settling) <=> (pc[p] \in Settling)
    BY <1>0, <1>6 DEF QuotaEvict, Goto, Settling, TypeOK
  <2> QED
    BY <1>6, <2>1, <2>2, QuietKeeps DEF QuotaEvict, historyVars, TypeOK
<1>7. CASE EvictScan(t)
  <2> DEFINE backlog == Of(In("pending"), reg[t].q)
             oldest == {r \in backlog : Rank(backlog, r) < reg[t].seen}
  <2>1. oldest \subseteq Records
    BY DEF Of, In, Records
  <2>2. /\ Build(t, oldest, {}) /\ Locals(t, [reg[t] EXCEPT !.found = oldest])
        /\ Goto(t, "enq_evictwrite")
        /\ db' = db /\ seq' = seq /\ accepted' = accepted /\ settled' = settled
    BY <1>7 DEF EvictScan, Oldest, historyVars
  <2> HIDE DEF oldest
  <2>3. /\ reg'[t].found = oldest /\ pc'[t] \in Settling
        /\ \A o \in Procs : o # t => reg'[o] = reg[o] /\ pc'[o] = pc[o]
    BY <1>0, <2>2 DEF Locals, Goto, Settling, TypeOK, Registers
  <2> QED
    BY <1>0, <2>1, <2>2, <2>3, BuildKeeps DEF IdsOf, TypeOK
<1>8. CASE EvictWrite(t)
  <2>1. /\ reg'[t].found = {}
        /\ \A o \in Procs : o # t => reg'[o] = reg[o] /\ pc'[o] = pc[o]
    BY <1>0, <1>8 DEF EvictWrite, Locals, Goto, TypeOK, Registers
  <2> QED
    BY <1>0, <1>8, <2>1, CommitKeeps DEF EvictWrite
<1>9. CASE EnqueueBuild(t)
  <2> DEFINE new(i) == [cf |-> "pending", q |-> reg[t].q, seq |-> seq + i, id |-> nextId + i,
                        attempts |-> 0, deadline |-> "none", kind |-> "task"]
             news == {new(i) : i \in 0 .. reg[t].n - 1}
  <2>1. reg[t].n \in Nat /\ seq \in Nat /\ nextId \in Nat
    BY <1>0 DEF Registers, TypeOK
  <2>2. /\ Build(t, {}, news) /\ seq' = seq + reg[t].n /\ Goto(t, "enq_write")
        /\ db' = db /\ reg' = reg /\ accepted' = accepted /\ settled' = settled
    BY <1>9 DEF EnqueueBuild, NextSeq, historyVars
  <2>3. \A r \in news : seq <= r.seq /\ r.seq < seq'
    BY <2>1, <2>2
  <2>4. \A r, s \in news : KeyOf(r) = KeyOf(s) => r.id = s.id
    BY <2>1 DEF KeyOf
  <2> HIDE DEF news
  <2>5. reg'[t].found \subseteq Records /\ \A o \in Procs : o # t => pc'[o] = pc[o]
    BY <1>0, <2>2 DEF Records, Goto, TypeOK
  <2> QED
    BY <1>0, <2>1, <2>2, <2>3, <2>4, <2>5, BuildKeeps
<1>10. CASE EnqueueWrite(t)
  <2>1. /\ reg'[t].found = {} /\ batch' = [batch EXCEPT ![t] = NoBatch]
        /\ \A o \in Procs : o # t => reg'[o] = reg[o] /\ pc'[o] = pc[o]
    BY <1>0, <1>10 DEF EnqueueWrite, Return, Locals, Goto, NoRegisters, TypeOK
  <2>2. pc[t] \notin Settling
    BY <1>10 DEF EnqueueWrite, Settling
  <2> QED
    BY <1>0, <1>10, <2>1, <2>2, CommitKeeps DEF EnqueueWrite
<1> QED
  BY <1>1, <1>2, <1>3, <1>4, <1>5, <1>6, <1>7, <1>8, <1>9, <1>10 DEF Enqueue

\* Delivering, poisoning or requeueing under the same key keeps key and id.
LEMMA SameTask ==
  ASSUME NEW r \in Rec
  PROVE  /\ KeyOf(Delivered(r)) = KeyOf(r) /\ Delivered(r).id = r.id
         /\ KeyOf(Poison(r)) = KeyOf(r) /\ Poison(r).id = r.id
         /\ KeyOf(Retried(r, r.seq)) = KeyOf(r)
         /\ \A s : /\ Retried(r, s).id = r.id /\ Retried(r, s).seq = s
                  /\ Replayed(r, s).id = r.id /\ Replayed(r, s).seq = s
         /\ KeyOf([r EXCEPT !.cf = "dlq"]) = KeyOf(r) /\ [r EXCEPT !.cf = "dlq"].id = r.id
         /\ KeyOf([r EXCEPT !.deadline = "past"]) = KeyOf(r)
         /\ [r EXCEPT !.deadline = "past"].id = r.id
         /\ KeyOf([r EXCEPT !.kind = "garbage", !.deadline = "none"]) = KeyOf(r)
         /\ [r EXCEPT !.kind = "garbage", !.deadline = "none"].id = r.id
<1>1. /\ Delivered(r).q = r.q /\ Delivered(r).seq = r.seq /\ Delivered(r).id = r.id
      /\ Poison(r).q = r.q /\ Poison(r).seq = r.seq /\ Poison(r).id = r.id
  BY DEF Delivered, Poison, Rec
<1>2. \A s : /\ Retried(r, s).q = r.q /\ Retried(r, s).id = r.id /\ Retried(r, s).seq = s
             /\ Replayed(r, s).id = r.id /\ Replayed(r, s).seq = s
  BY DEF Retried, Replayed, Rec
<1> QED
  BY <1>1, <1>2 DEF KeyOf, Rec

\* dequeue: a scanned record moves to inflight or to the dlq under its key.
LEMMA DequeueSafe ==
  ASSUME TypeOK, TypeOK', Safe, NEW t \in Threads, Dequeue(t)
  PROVE  Safe'
<1>0. t \in Procs /\ reg[t] \in Registers /\ pc[t] \in PCs
  BY DEF Procs, TypeOK
<1>1. ASSUME NEW q \in Queues, NEW n \in 1 .. MaxBatch, NEW pol \in Policies,
             DequeueBegin(t, q, n, pol)
      PROVE  Safe'
  BY <1>0, <1>1, QuietKeeps DEF DequeueBegin, Locals, Goto, Settling, TypeOK, Registers, boundVars, historyVars
<1>2. ASSUME NEW q \in Queues, NEW n \in 1 .. MaxBatch, DequeueUncappedBegin(t, q, n)
      PROVE  Safe'
  BY <1>0, <1>2, QuietKeeps DEF DequeueUncappedBegin, Locals, Goto, Settling, TypeOK, Registers, boundVars, historyVars
<1>3. CASE DequeueCount(t)
  <2> DEFINE m == IF reg[t].n <= Room(t) THEN reg[t].n ELSE Room(t)
  <2>1. Locals(t, [reg[t] EXCEPT !.n = m])
    BY <1>3 DEF DequeueCount, Limit
  <2> HIDE DEF m
  <2>2. \A p \in Procs : reg'[p].found = reg[p].found
    BY <1>0, <2>1 DEF Locals, TypeOK, Registers
  <2>3. \A p \in Procs : (pc'[p] \in Settling) <=> (pc[p] \in Settling)
    BY <1>0, <1>3 DEF DequeueCount, Limit, Goto, Settling, TypeOK
  <2> QED
    BY <1>3, <2>2, <2>3, QuietKeeps DEF DequeueCount, Limit, historyVars, TypeOK
<1>4. CASE DequeueAtCap(t)
  BY <1>0, <1>4, ReturnKeeps DEF DequeueAtCap, historyVars
<1>5. CASE DequeueScan(t)
  <2> DEFINE S == Scanned(t)
             V == Valid(S)
             R == {Delivered(r) : r \in V} \cup {Poison(r) : r \in S \ V}
  <2>1. S \subseteq db /\ V \subseteq S
    BY DEF Scanned, Of, In, Valid
  <2>2. /\ Build(t, S, R) /\ Goto(t, "deq_write")
        /\ db' = db /\ reg' = reg /\ seq' = seq /\ accepted' = accepted /\ settled' = settled
    BY <1>5 DEF DequeueScan, historyVars
  <2> HIDE DEF S, V
  <2>3. S \subseteq Records /\ S \subseteq Rec
    BY <2>1 DEF Records, TypeOK
  <2>a. \A x \in S : /\ KeyOf(Delivered(x)) = KeyOf(x) /\ Delivered(x).id = x.id
                    /\ KeyOf(Poison(x)) = KeyOf(x) /\ Poison(x).id = x.id
    BY <2>3, SameTask
  <2>4. \A r \in R : \E s \in S : KeyOf(r) = KeyOf(s) /\ r.id = s.id
    BY <2>1, <2>a
  <2>5. \A s \in S : s.id \in IdsOf(R)
    <3>1. \A s \in S : Delivered(s) \in R \/ Poison(s) \in R
      OBVIOUS
    <3> QED
      BY <2>a, <3>1 DEF IdsOf
  <2>6. \A r \in R : ~(seq <= r.seq)
    BY <2>3, <2>4, RecordsType DEF KeyOf, Safe, SeqFresh, TypeOK, Rec
  <2> HIDE DEF R
  <2>7. /\ pc'[t] \notin Settling /\ reg'[t].found \subseteq Records
        /\ \A o \in Procs : o # t => pc'[o] = pc[o]
    BY <1>0, <2>2 DEF Goto, Settling, Records, TypeOK
  <2> QED
    BY <1>0, <2>2, <2>3, <2>4, <2>5, <2>6, <2>7, BuildKeeps DEF TypeOK
<1>6. CASE DequeueEmpty(t)
  BY <1>0, <1>6, ReturnKeeps DEF DequeueEmpty, historyVars
<1>7. CASE DequeueWrite(t)
  <2>1. /\ reg'[t].found = {} /\ batch' = [batch EXCEPT ![t] = NoBatch]
        /\ \A o \in Procs : o # t => reg'[o] = reg[o] /\ pc'[o] = pc[o]
    BY <1>0, <1>7 DEF DequeueWrite, Return, Locals, Goto, NoRegisters, TypeOK
  <2>2. pc[t] \notin Settling
    BY <1>7 DEF DequeueWrite, Settling
  <2> QED
    BY <1>0, <1>7, <2>1, <2>2, CommitKeeps DEF DequeueWrite
<1> QED
  BY <1>1, <1>2, <1>3, <1>4, <1>5, <1>6, <1>7 DEF Dequeue

\* An acknowledgement settles exactly what it deletes.
LEMMA AckedSafe ==
  ASSUME TypeOK, TypeOK', Safe, NEW p \in Procs, Acked(p)
  PROVE  Safe'
<1>1. /\ reg'[p].found = {} /\ batch' = [batch EXCEPT ![p] = NoBatch]
      /\ \A o \in Procs : o # p => reg'[o] = reg[o] /\ pc'[o] = pc[o]
  BY DEF Acked, Return, Locals, Goto, NoRegisters, TypeOK
<1> QED
  BY <1>1, CommitKeeps DEF Acked

\* ack_batch and cumulative_ack: what is read stays covered until the commit.
LEMMA AckSafe ==
  ASSUME TypeOK, TypeOK', Safe, NEW t \in Threads, Ack(t)
  PROVE  Safe'
<1>0. t \in Procs /\ reg[t] \in Registers /\ pc[t] \in PCs
  BY DEF Procs, TypeOK
<1>1. ASSUME NEW K \in SUBSET handed, AckBegin(t, K)
      PROVE  Safe'
  BY <1>0, <1>1, QuietKeeps DEF AckBegin, Locals, Goto, Settling, TypeOK, Registers, boundVars, historyVars
<1>2. CASE AckLock(t)
  <2>1. PICK q \in Queues :
          /\ Locals(t, [reg[t] EXCEPT !.want = reg[t].want \ {q}])
          /\ Goto(t, IF reg[t].want = {q} THEN "ack_read" ELSE "ack_lock")
    BY <1>2 DEF AckLock
  <2>2. /\ Build(t, {}, {}) /\ db' = db /\ seq' = seq
        /\ accepted' = accepted /\ settled' = settled
    BY <1>2 DEF AckLock, historyVars
  <2>3. /\ reg'[t].found = reg[t].found
        /\ \A o \in Procs : o # t => reg'[o] = reg[o] /\ pc'[o] = pc[o]
    BY <1>0, <2>1 DEF Locals, Goto, TypeOK, Registers
  <2>4. reg'[t].found \subseteq Records
    BY <1>0, <2>3 DEF Records
  <2> QED
    BY <1>0, <2>2, <2>3, <2>4, BuildKeeps DEF TypeOK
<1>3. CASE AckRead(t)
  <2>1. PICK k \in reg[t].keys :
          /\ Locals(t, [reg[t] EXCEPT !.keys = reg[t].keys \ {k},
                                     !.found = reg[t].found \cup Hit(k)])
          /\ Build(t, reg[t].found \cup Hit(k), {})
          /\ Goto(t, IF reg[t].keys = {k} THEN "ack_write" ELSE "ack_read")
    BY <1>3 DEF AckRead
  <2> DEFINE S == reg[t].found \cup Hit(k)
  <2>2. S \subseteq Records
    BY <1>0 DEF Hit, In, Records
  <2>3. /\ Build(t, S, {}) /\ db' = db /\ seq' = seq
        /\ accepted' = accepted /\ settled' = settled
    BY <1>3, <2>1 DEF AckRead, historyVars
  <2>4. /\ reg'[t].found = S /\ pc'[t] \in Settling
        /\ \A o \in Procs : o # t => reg'[o] = reg[o] /\ pc'[o] = pc[o]
    BY <1>0, <2>1 DEF Locals, Goto, Settling, TypeOK, Registers
  <2> HIDE DEF S
  <2> QED
    BY <1>0, <2>2, <2>3, <2>4, BuildKeeps DEF IdsOf, TypeOK
<1>4. CASE AckWrite(t)
  BY <1>0, <1>4, AckedSafe DEF AckWrite
<1>5. ASSUME NEW q \in Queues, NEW upTo \in 0 .. MaxSeq, CumulativeAckScan(t, q, upTo)
      PROVE  Safe'
  <2> DEFINE S == {r \in Of(In("inflight"), q) : r.seq <= upTo}
  <2>1. S \subseteq Records
    BY DEF Of, In, Records
  <2>2. /\ Build(t, S, {}) /\ Locals(t, [reg[t] EXCEPT !.found = S]) /\ Goto(t, "cum_write")
        /\ db' = db /\ seq' = seq /\ accepted' = accepted /\ settled' = settled
    BY <1>5 DEF CumulativeAckScan, historyVars
  <2> HIDE DEF S
  <2>3. /\ reg'[t].found = S /\ pc'[t] \in Settling
        /\ \A o \in Procs : o # t => reg'[o] = reg[o] /\ pc'[o] = pc[o]
    BY <1>0, <2>2 DEF Locals, Goto, Settling, TypeOK, Registers
  <2> QED
    BY <1>0, <2>1, <2>2, <2>3, BuildKeeps DEF IdsOf, TypeOK
<1>6. CASE CumulativeAckWrite(t)
  BY <1>0, <1>6, AckedSafe DEF CumulativeAckWrite
<1> QED
  BY <1>1, <1>2, <1>3, <1>4, <1>5, <1>6 DEF Ack

\* Iteration order: a smaller key comes strictly earlier, and every position
\* is below the number of records.
LEMMA RankOrder ==
  ASSUME NEW S, S \subseteq Rec, IsFiniteSet(S)
  PROVE  /\ \A x \in S : Rank(S, x) \in Nat /\ Rank(S, x) < Cardinality(S)
         /\ \A x, y \in S : Rank(S, x) = Rank(S, y) => KeyOf(x) = KeyOf(y)
<1> DEFINE Before(x) == {u \in S : KeyLess(u, x)}
<1>0. \A x \in S : x.q \in Nat /\ x.seq \in Nat
  BY DEF Rec
<1>1. \A x \in S : IsFiniteSet(Before(x)) /\ Cardinality(Before(x)) \in Nat
  BY PartFinite
<1>2. ASSUME NEW x \in S
      PROVE  Cardinality(Before(x)) < Cardinality(S)
  <2>1. Before(x) \subseteq S /\ x \notin Before(x)
    BY <1>0 DEF KeyLess
  <2>2. Cardinality(Before(x)) <= Cardinality(S) /\ Cardinality(S) # Cardinality(Before(x))
    BY <2>1, FS_Subset
  <2> QED
    BY <1>1, <2>2, FS_CardinalityType
<1>3. ASSUME NEW x \in S, NEW y \in S, KeyLess(x, y)
      PROVE  Cardinality(Before(x)) < Cardinality(Before(y))
  <2>1. Before(x) \subseteq Before(y) /\ x \in Before(y) /\ x \notin Before(x)
    BY <1>0, <1>3 DEF KeyLess
  <2>2. /\ Cardinality(Before(x)) <= Cardinality(Before(y))
        /\ Cardinality(Before(y)) # Cardinality(Before(x))
    BY <1>1, <2>1, FS_Subset
  <2>3. Cardinality(Before(x)) \in Nat /\ Cardinality(Before(y)) \in Nat
    BY <1>1
  <2> HIDE DEF Before
  <2> QED
    BY <2>2, <2>3
<1>4. \A x, y \in S : KeyLess(x, y) \/ KeyLess(y, x) \/ KeyOf(x) = KeyOf(y)
  BY <1>0 DEF KeyLess, KeyOf
<1>5. \A x, y \in S : Cardinality(Before(x)) = Cardinality(Before(y)) => KeyOf(x) = KeyOf(y)
  <2> HIDE DEF Before
  <2> QED
    BY <1>1, <1>3, <1>4
<1> QED
  BY <1>1, <1>2, <1>5 DEF Rank

\* A nack, a reap or a replay puts back every task it deletes.
LEMMA PutBackSafe ==
  ASSUME TypeOK, TypeOK', Safe, NEW p \in Procs, pc[p] \notin Settling, PutBack(p)
  PROVE  Safe'
<1>1. /\ reg'[p].found = {} /\ batch' = [batch EXCEPT ![p] = NoBatch]
      /\ \A o \in Procs : o # p => reg'[o] = reg[o] /\ pc'[o] = pc[o]
  BY DEF PutBack, Return, Locals, Goto, NoRegisters, TypeOK
<1> QED
  BY <1>1, CommitKeeps DEF PutBack

\* nack, purge_dlq and replay_dlq: each new key gets a fresh number.
LEMMA NackOrDlqSafe ==
  ASSUME TypeOK, TypeOK', Finite, Safe, NEW t \in Threads, NackOrDlq(t)
  PROVE  Safe'
<1>0. t \in Procs /\ reg[t] \in Registers /\ pc[t] \in PCs
  BY DEF Procs, TypeOK
<1>1. ASSUME NEW k \in handed, NackRead(t, k)
      PROVE  Safe'
  <2>1. PICK r \in Hit(k) :
          \/ Build(t, {r}, {Poison(r)}) /\ seq' = seq
          \/ Build(t, {r}, {[r EXCEPT !.cf = "dlq"]}) /\ seq' = seq
          \/ Build(t, {r}, {Retried(r, seq)}) /\ seq' = seq + 1
    BY <1>1 DEF NackRead, NextSeq, Exhausted
  <2>2. /\ Goto(t, "nack_write")
        /\ db' = db /\ reg' = reg /\ accepted' = accepted /\ settled' = settled
    BY <1>1 DEF NackRead, NextSeq, Exhausted, historyVars
  <2>3. r \in Rec /\ {r} \subseteq Records /\ seq \in Nat
    BY DEF Hit, In, TypeOK, Records
  <2>4. /\ pc'[t] \notin Settling /\ reg'[t].found \subseteq Records
        /\ \A o \in Procs : o # t => pc'[o] = pc[o]
    BY <1>0, <2>2 DEF Goto, Settling, Records, TypeOK
  <2>5. CASE Build(t, {r}, {Retried(r, seq)}) /\ seq' = seq + 1
    <3>1. Retried(r, seq).id = r.id /\ Retried(r, seq).seq = seq
      BY <2>3, SameTask
    <3> QED
      BY <1>0, <2>2, <2>3, <2>4, <2>5, <3>1, BuildKeeps DEF IdsOf
  <2>6. ASSUME NEW x, Build(t, {r}, {x}), seq' = seq, KeyOf(x) = KeyOf(r), x.id = r.id
        PROVE  Safe'
    BY <1>0, <2>2, <2>3, <2>4, <2>6, BuildKeeps DEF IdsOf
  <2> QED
    BY <2>1, <2>3, <2>5, <2>6, SameTask
<1>2. CASE NackWrite(t)
  BY <1>0, <1>2, PutBackSafe DEF NackWrite, Settling
<1>3. CASE PurgeScan(t)
  <2> DEFINE S == In("dlq")
  <2>1. S \subseteq Records
    BY DEF In, Records
  <2>2. /\ Build(t, S, {}) /\ Locals(t, [reg[t] EXCEPT !.found = S]) /\ Goto(t, "purge_write")
        /\ db' = db /\ seq' = seq /\ accepted' = accepted /\ settled' = settled
    BY <1>3 DEF PurgeScan, historyVars
  <2> HIDE DEF S
  <2>3. /\ reg'[t].found = S /\ pc'[t] \in Settling
        /\ \A o \in Procs : o # t => reg'[o] = reg[o] /\ pc'[o] = pc[o]
    BY <1>0, <2>2 DEF Locals, Goto, Settling, TypeOK, Registers
  <2> QED
    BY <1>0, <2>1, <2>2, <2>3, BuildKeeps DEF IdsOf, TypeOK
<1>4. CASE PurgeWrite(t)
  <2>1. /\ reg'[t].found = {} /\ batch' = [batch EXCEPT ![t] = NoBatch]
        /\ \A o \in Procs : o # t => reg'[o] = reg[o] /\ pc'[o] = pc[o]
    BY <1>0, <1>4 DEF PurgeWrite, Return, Locals, Goto, NoRegisters, TypeOK
  <2> QED
    BY <1>0, <1>4, <2>1, CommitKeeps DEF PurgeWrite
<1>5. CASE ReplayScan(t)
  <2> DEFINE D == In("dlq")
             R == {Replayed(r, seq + Rank(D, r)) : r \in D}
  <2>1. D \subseteq db
    BY DEF In
  <2>2. /\ Build(t, D, R) /\ seq' = seq + Cardinality(D) /\ Goto(t, "replay_write")
        /\ db' = db /\ reg' = reg /\ accepted' = accepted /\ settled' = settled
    BY <1>5 DEF ReplayScan, NextSeq, ReplaySeq, historyVars
  <2> HIDE DEF D
  <2>3. D \subseteq Records /\ D \subseteq Rec /\ seq \in Nat
        /\ IsFiniteSet(D) /\ Cardinality(D) \in Nat
    BY <2>1, PartFinite DEF Records, TypeOK, Finite
  <2>4. \A x \in D : Rank(D, x) \in Nat /\ Rank(D, x) < Cardinality(D)
    BY <2>3, RankOrder
  <2>5. \A x, y \in D : Rank(D, x) = Rank(D, y) => x.id = y.id
    BY <2>3, RankOrder DEF Safe, KeyNamesOneTask
  <2>6. \A x \in D : \A s : Replayed(x, s).id = x.id /\ Replayed(x, s).seq = s
    BY <2>3, SameTask
  <2>7. \A r \in R : seq <= r.seq /\ r.seq < seq'
    BY <2>2, <2>3, <2>4, <2>6
  <2>8. \A r, s \in R : KeyOf(r) = KeyOf(s) => r.id = s.id
    <3> SUFFICES ASSUME NEW x \in D, NEW y \in D,
                        KeyOf(Replayed(x, seq + Rank(D, x))) = KeyOf(Replayed(y, seq + Rank(D, y)))
                 PROVE  Replayed(x, seq + Rank(D, x)).id = Replayed(y, seq + Rank(D, y)).id
      OBVIOUS
    <3>1. seq + Rank(D, x) = seq + Rank(D, y)
      BY <2>6 DEF KeyOf
    <3>2. Rank(D, x) = Rank(D, y)
      BY <2>3, <2>4, <3>1
    <3> QED
      BY <2>5, <2>6, <3>2
  <2>9. \A s \in D : s.id \in IdsOf(R)
    BY <2>6 DEF IdsOf
  <2> HIDE DEF R
  <2>10. /\ pc'[t] \notin Settling /\ reg'[t].found \subseteq Records
         /\ \A o \in Procs : o # t => pc'[o] = pc[o]
    BY <1>0, <2>2 DEF Goto, Settling, Records, TypeOK
  <2> QED
    BY <1>0, <2>2, <2>3, <2>7, <2>8, <2>9, <2>10, BuildKeeps
<1>6. CASE ReplayAborts(t)
  <2>1. IsFiniteSet(In("dlq"))
    BY PartFinite DEF In, Finite
  <2>2. seq <= seq'
    BY <1>6, <2>1, RankType DEF ReplayAborts, NextSeq, TypeOK
  <2> QED
    BY <1>6, <2>2, QuietKeeps DEF ReplayAborts, NextSeq, procVars, historyVars
<1>7. CASE ReplayWrite(t)
  BY <1>0, <1>7, PutBackSafe DEF ReplayWrite, Settling
<1> QED
  BY <1>1, <1>2, <1>3, <1>4, <1>5, <1>6, <1>7 DEF NackOrDlq

\* reap_inflight: a record returns under its own key, so it names the same task.
LEMMA ReapSafe ==
  ASSUME TypeOK, TypeOK', Safe, Reap
  PROVE  Safe'
<1>0. Reaper \in Procs
  BY DEF Procs
<1>1. ASSUME NEW q \in Reaped, ReapScan(q)
      PROVE  Safe'
  <2> DEFINE leased == Of(In("inflight"), q)
             late == {r \in leased : Overdue(r)}
             corrupt == leased \ Valid(leased)
             R == {Retried(r, r.seq) : r \in late} \cup {Poison(r) : r \in corrupt}
  <2>1. late \subseteq db /\ corrupt \subseteq db
    BY DEF Of, In
  <2>2. /\ Build(Reaper, late \cup corrupt, R) /\ Goto(Reaper, "reap_write")
        /\ db' = db /\ reg' = reg /\ seq' = seq /\ accepted' = accepted /\ settled' = settled
    BY <1>1 DEF ReapScan, CorruptIn, historyVars
  <2> HIDE DEF late, corrupt
  <2> DEFINE S == late \cup corrupt
  <2>3. S \subseteq Records /\ S \subseteq Rec
    BY <2>1 DEF Records, TypeOK
  <2>4. \A x \in S :
          /\ KeyOf(Retried(x, x.seq)) = KeyOf(x) /\ Retried(x, x.seq).id = x.id
          /\ KeyOf(Poison(x)) = KeyOf(x) /\ Poison(x).id = x.id
    BY <2>3, SameTask
  <2>5. \A r \in R : \E s \in S : KeyOf(r) = KeyOf(s) /\ r.id = s.id
    BY <2>4
  <2>6. \A s \in S : s.id \in IdsOf(R)
    <3>1. \A s \in S : Retried(s, s.seq) \in R \/ Poison(s) \in R
      OBVIOUS
    <3> QED
      BY <2>4, <3>1 DEF IdsOf
  <2>7. \A r \in R : ~(seq <= r.seq)
    BY <2>3, <2>5, RecordsType DEF KeyOf, Safe, SeqFresh, TypeOK, Rec
  <2>8. Build(Reaper, S, R)
    BY <2>2
  <2> HIDE DEF R, S
  <2>9. /\ pc'[Reaper] \notin Settling /\ reg'[Reaper].found \subseteq Records
        /\ \A o \in Procs : o # Reaper => pc'[o] = pc[o]
    BY <1>0, <2>2 DEF Goto, Settling, Records, TypeOK
  <2> QED
    BY <1>0, <2>2, <2>3, <2>5, <2>6, <2>7, <2>8, <2>9, BuildKeeps DEF TypeOK
<1>2. CASE ReapWrite
  BY <1>0, <1>2, PutBackSafe DEF ReapWrite, Settling
<1> QED
  BY <1>1, <1>2 DEF Reap

\* drain_tenant changes neither the store nor a batch.
LEMMA DrainSafe ==
  ASSUME TypeOK, TypeOK', Safe, NEW t \in Threads, Drain(t)
  PROVE  Safe'
<1>0. t \in Procs /\ reg[t] \in Registers /\ pc[t] \in PCs
  BY DEF Procs, TypeOK
<1>1. CASE DrainBegin(t)
  <2>1. \A p \in Procs : reg'[p].found = reg[p].found
    BY <1>0, <1>1 DEF DrainBegin, Locals, TypeOK, Registers
  <2>2. \A p \in Procs : (pc'[p] \in Settling) <=> (pc[p] \in Settling)
    BY <1>0, <1>1 DEF DrainBegin, Goto, Settling, TypeOK
  <2> QED
    BY <1>1, <2>1, <2>2, QuietKeeps DEF DrainBegin, historyVars, TypeOK
<1>2. CASE DrainCountPending(t)
  <2>1. \A p \in Procs : reg'[p].found = reg[p].found
    BY <1>0, <1>2 DEF DrainCountPending, Locals, TypeOK, Registers
  <2>2. \A p \in Procs : (pc'[p] \in Settling) <=> (pc[p] \in Settling)
    BY <1>0, <1>2 DEF DrainCountPending, Goto, Settling, TypeOK
  <2> QED
    BY <1>2, <2>1, <2>2, QuietKeeps DEF DrainCountPending, historyVars, TypeOK
<1>3. CASE DrainDone(t)
  BY <1>0, <1>3, ReturnKeeps DEF DrainDone, historyVars
<1>4. CASE DrainPoll(t)
  <2>1. \A p \in Procs : (pc'[p] \in Settling) <=> (pc[p] \in Settling)
    BY <1>0, <1>4 DEF DrainPoll, Goto, Settling, TypeOK
  <2> QED
    BY <1>4, <2>1, QuietKeeps DEF DrainPoll, historyVars, TypeOK
<1>5. CASE DrainTimeout(t)
  BY <1>0, <1>5, ReturnKeeps DEF DrainTimeout, historyVars
<1> QED
  BY <1>1, <1>2, <1>3, <1>4, <1>5 DEF Drain

\* A stored record is rewritten under its own key.
LEMMA RewriteKeeps ==
  ASSUME TypeOK, TypeOK', Safe, NEW r \in db, NEW x, KeyOf(x) = KeyOf(r), x.id = r.id,
         db' = (db \ {r}) \cup {x}, seq' = seq, pc' = pc, reg' = reg, batch' = batch,
         accepted' = accepted, settled' = settled
  PROVE  Safe'
<1>1. Records' \subseteq Records \cup {x}
  BY DEF Records
<1>2. r \in Records
  BY DEF Records
<1>3. \A u \in Records \cup {x} : \E s \in Records : KeyOf(u) = KeyOf(s) /\ u.id = s.id
  BY <1>2
<1>4. \A u \in Records' : ~(seq <= u.seq)
  BY <1>1, <1>3, RecordsType DEF KeyOf, Safe, SeqFresh, TypeOK, Rec
<1>5. \A p \in Procs : Covering(p)' = Covering(p)
  BY DEF Covering
<1>6. SeqFresh' /\ KeyNamesOneTask' /\ Covered'
  BY <1>1, <1>3, <1>4, <1>5, StepKeeps DEF Safe, TypeOK
<1>7. IdsOf(db) \subseteq IdsOf(db')
  BY DEF IdsOf
<1> QED
  BY <1>6, <1>7 DEF Safe, NoTaskLost

\* Expiry and corruption rewrite a record in place, compaction settles it, and a
\* restart seeds the counter above every number drawn.
LEMMA EnvironmentSafe ==
  ASSUME TypeOK, TypeOK', Safe, ClockAhead \/ MaxRestarts = 0, Environment
  PROVE  Safe'
<1>1. ASSUME NEW r \in In("inflight"), Expire(r)
      PROVE  Safe'
  <2> DEFINE x == [r EXCEPT !.deadline = "past"]
  <2>1. r \in db /\ r \in Rec
    BY DEF In, TypeOK
  <2>2. KeyOf(x) = KeyOf(r) /\ x.id = r.id
    BY <2>1, SameTask
  <2>3. /\ db' = (db \ {r}) \cup {x} /\ seq' = seq /\ pc' = pc /\ reg' = reg /\ batch' = batch
        /\ accepted' = accepted /\ settled' = settled
    BY <1>1 DEF Expire, procVars, historyVars
  <2> HIDE DEF x
  <2> QED
    BY <2>1, <2>2, <2>3, RewriteKeeps
<1>2. ASSUME NEW r \in db, Compact(r)
      PROVE  Safe'
  <2>1. /\ db' = db \ {r} /\ seq' = seq /\ pc' = pc /\ reg' = reg /\ batch' = batch
        /\ accepted' = accepted /\ settled' = settled \cup {r.id}
    BY <1>2 DEF Compact, procVars
  <2>2. Records' \subseteq Records
    BY <2>1 DEF Records
  <2>3. \A u \in Records : ~(seq <= u.seq)
    BY RecordsType DEF Safe, SeqFresh, TypeOK, Rec
  <2>4. \A p \in Procs : Covering(p)' = Covering(p)
    BY <2>1 DEF Covering
  <2>5. SeqFresh' /\ KeyNamesOneTask' /\ Covered'
    BY <2>1, <2>2, <2>3, <2>4, StepKeeps DEF Safe, TypeOK
  <2>6. IdsOf(db) \subseteq IdsOf(db') \cup {r.id}
    BY <2>1 DEF IdsOf
  <2> QED
    BY <2>1, <2>5, <2>6 DEF Safe, NoTaskLost
<1>3. ASSUME NEW r \in db, Corrupt(r)
      PROVE  Safe'
  <2> DEFINE x == [r EXCEPT !.kind = "garbage", !.deadline = "none"]
  <2>1. r \in Rec
    BY DEF TypeOK
  <2>2. KeyOf(x) = KeyOf(r) /\ x.id = r.id
    BY <2>1, SameTask
  <2>3. /\ db' = (db \ {r}) \cup {x} /\ seq' = seq /\ pc' = pc /\ reg' = reg /\ batch' = batch
        /\ accepted' = accepted /\ settled' = settled
    BY <1>3 DEF Corrupt, procVars, historyVars
  <2> HIDE DEF x
  <2> QED
    BY <2>2, <2>3, RewriteKeeps
<1>4. ASSUME NEW p \in Procs, IoError(p)
      PROVE  Safe'
  BY <1>4, ReturnKeeps DEF IoError, historyVars
<1>5. ASSUME NEW now \in 0 .. MaxSeq, Restart(now)
      PROVE  Safe'
  <2>1. seq <= seq' /\ db' = db /\ accepted' = accepted /\ settled' = settled
    BY <1>5 DEF Restart, Seed, TypeOK, historyVars
  <2>2. \A p \in Procs : batch'[p].put = {} /\ batch'[p].del = {} /\ reg'[p].found = {}
    BY <1>5 DEF Restart, Seed, NoBatch, NoRegisters
  <2>3. Records' \subseteq Records
    BY <2>1, <2>2 DEF Records
  <2>4. \A u \in Records : ~(seq <= u.seq)
    BY RecordsType DEF Safe, SeqFresh, TypeOK, Rec
  <2>5. SeqFresh' /\ KeyNamesOneTask' /\ Covered'
    BY <2>1, <2>2, <2>3, <2>4, StepKeeps DEF Safe
  <2> QED
    BY <2>1, <2>5 DEF Safe, NoTaskLost
<1> QED
  BY <1>1, <1>2, <1>3, <1>4, <1>5 DEF Environment

\* Nothing is stored when the registry is first opened.
LEMMA SafeInit == Init => Safe
<1> SUFFICES ASSUME Init PROVE Safe
  OBVIOUS
<1>1. Records = {} /\ \A p \in Procs : batch[p].del = {}
  BY DEF Init, Records, NoBatch, NoRegisters
<1> QED
  BY <1>1 DEF Init, Safe, SeqFresh, KeyNamesOneTask, Covered, NoTaskLost

\* Every step keeps the safety part of the inductive invariant.
LEMMA SafeStep ==
  ASSUME ClockAhead \/ MaxRestarts = 0, TypeOK, Finite, Safe, [Next]_vars
  PROVE  Safe'
<1>0. TypeOK'
  BY TypeStep
<1>1. CASE Next
  BY <1>0, <1>1, EnqueueSafe, DequeueSafe, AckSafe, NackOrDlqSafe, DrainSafe, ReapSafe,
     EnvironmentSafe DEF Next
<1>2. CASE UNCHANGED vars
  <2>1. /\ db' = db /\ batch' = batch /\ seq' = seq /\ pc' = pc /\ reg' = reg
        /\ accepted' = accepted /\ settled' = settled
    BY <1>2 DEF vars, procVars, historyVars
  <2> QED
    BY <1>0, <2>1, QuietKeeps DEF TypeOK
<1> QED
  BY <1>1, <1>2

\* At-least-once storage and unshared keys, for any number of threads, queues
\* and tasks and any interleaving of their operations, with crashes and I/O
\* errors anywhere: provided a restart finds the clock past every sequence
\* number drawn, no accepted task is lost and no key ever names two tasks.
THEOREM NothingLost ==
  ASSUME ClockAhead \/ MaxRestarts = 0
  PROVE  Spec => [](NoTaskLost /\ KeyNamesOneTask)
<1>1. Init => TypeOK /\ Finite /\ Safe
  BY TypeInit, SafeInit
<1>2. (TypeOK /\ Finite /\ Safe) /\ [Next]_vars => (TypeOK /\ Finite /\ Safe)'
  BY TypeStep, SafeStep
<1>3. Safe => NoTaskLost /\ KeyNamesOneTask
  BY DEF Safe
<1> QED
  BY <1>1, <1>2, <1>3, PTL DEF Spec

\* The inductive invariant that the runs check is one.
THEOREM InvariantHolds ==
  ASSUME ClockAhead \/ MaxRestarts = 0
  PROVE  Spec => []Inv
<1>1. Init => Inv
  BY TypeInit, SafeInit DEF Inv, Safe
<1>2. Inv /\ [Next]_vars => Inv'
  BY TypeStep, SafeStep DEF Inv, Safe
<1> QED
  BY <1>1, <1>2, PTL DEF Spec

=============================================================================
