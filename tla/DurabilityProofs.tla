--------------------------- MODULE DurabilityProofs ---------------------------
(***************************************************************************)
(* Durability's type invariant, NoHoles and NothingElseLost, for any number *)
(* of writes, checkpoints and failures.                                    *)
(*                                                                         *)
(* Neither of the two properties is inductive.  NoHoles also has to hold of *)
(* every prefix that a power failure may leave and of every checkpoint an   *)
(* instance may be restored from, so it is stated by position (Causal).     *)
(* NothingElseLost has to be followed through the states in which the       *)
(* database is away: while the instance is lost, what it had and was not    *)
(* forfeited is in the newest finished upload (Reach), and that is the one  *)
(* the restore script is about to install, if it installs any (Staging).    *)
(***************************************************************************)
EXTENDS Durability, FiniteSetTheorems, NaturalsInduction, WellFoundedInduction,
        SequenceTheorems, TLAPS

USE DurabilityAssumption

(***************************************************************************)
(* The inductive invariant                                                 *)
(***************************************************************************)
\* The writes in the first n batches of s.
Prefix(s, n) == {s[i] : i \in 1 .. n}

\* s holds some of the first n writes, each one after all those that b says it
\* was made on top of.
Ordered(s, n, b) ==
  /\ s \in Seq(1 .. n)
  /\ \A i \in 1 .. Len(s) : b[s[i]] \subseteq Prefix(s, i - 1)

\* The database and every checkpoint of it are in causal order.
Causal ==
  /\ Ordered(db, writes, before)
  /\ \A ts \in 1 .. Len(remote) : Ordered(remote[ts].db, writes, before)

\* What a power failure must not take is synced.
Guarded == guarded \subseteq Prefix(db, synced)

\* What was answered and not forfeited is in the database while there is one, and
\* in the newest finished upload while there is none.
Reach ==
  /\ server \in {"up", "down"} => 1 .. writes \subseteq Range(db) \cup forfeit
  /\ server \in {"lost", "broken"} =>
       db = <<>> /\ script = "idle" /\ 1 .. writes \subseteq Uploaded \cup forfeit

\* The restore script stages the latest checkpoint, and nothing is uploaded
\* meanwhile.
Staging == staged # {} => server = "lost" /\ Listed # {} /\ staged = {Latest}

DurabilityInv == TypeOK /\ Causal /\ Guarded /\ Reach /\ Staging

(***************************************************************************)
(* Sets and sequences                                                      *)
(***************************************************************************)
\* A non-empty set of positions has a greatest element, and Max is that.
LEMMA MaxOfPositions ==
  ASSUME NEW n \in Nat, NEW S \in SUBSET (1 .. n), S # {}
  PROVE  Max(S) \in S /\ \A y \in S : Max(S) >= y
<1> DEFINE D == {n - x : x \in S}
<1>1. D \subseteq Nat /\ D # {}
  OBVIOUS
<1>2. PICK d \in D : \A y \in D : ~(<<y, d>> \in OpToRel(<, Nat))
  BY <1>1, NatLessThanWellFounded, WFMin
<1>3. \A y \in D : d <= y
  <2> TAKE y \in D
  <2>1. y \in Nat /\ d \in Nat
    BY <1>1
  <2>2. <<y, d>> \in Nat \X Nat /\ <<y, d>>[1] = y /\ <<y, d>>[2] = d
    BY <2>1
  <2>3. ~(y < d)
    BY <1>2, <2>2 DEF OpToRel
  <2> QED
    BY <2>1, <2>3
<1>4. PICK x \in S : d = n - x
  BY <1>2
<1>5. \A y \in S : x >= y
  BY <1>3, <1>4, SMTT(60)
<1>6. \E m \in S : \A y \in S : m >= y
  BY <1>4, <1>5
<1> QED
  BY <1>6 DEF Max

LEMMA PrefixOfAll ==
  ASSUME NEW T, NEW s \in Seq(T)
  PROVE  Range(s) = Prefix(s, Len(s))
BY DEF Range, Prefix

\* A prefix of an ordered sequence is ordered.
LEMMA OrderedCut ==
  ASSUME NEW n \in Nat, NEW b, NEW s, Ordered(s, n, b), NEW k \in 0 .. Len(s)
  PROVE  /\ Ordered(SubSeq(s, 1, k), n, b)
         /\ Len(SubSeq(s, 1, k)) = k
         /\ \A m \in 0 .. k : Prefix(SubSeq(s, 1, k), m) = Prefix(s, m)
<1> DEFINE r == SubSeq(s, 1, k)
<1>1. s \in Seq(1 .. n) /\ Len(s) \in Nat
  BY LenProperties DEF Ordered
<1>2. r \in Seq(1 .. n) /\ Len(r) = k /\ \A i \in 1 .. k : r[i] = s[i]
  <2>1. k \in Int /\ 1 \in Int /\ \A i \in 1 .. k : s[i] \in 1 .. n
    BY <1>1, ElementOfSeq
  <2>2. /\ r \in Seq(1 .. n)
        /\ Len(r) = IF 1 <= k THEN k - 1 + 1 ELSE 0
        /\ \A i \in 1 .. k - 1 + 1 : r[i] = s[1 + i - 1]
    BY <2>1, SubSeqProperties
  <2> HIDE DEF r
  <2> QED
    BY <1>1, <2>1, <2>2
<1> HIDE DEF r
<1>3. \A m \in 0 .. k : Prefix(r, m) = Prefix(s, m)
  BY <1>2, SMTT(60) DEF Prefix
<1>4. \A i \in 1 .. Len(r) : b[r[i]] \subseteq Prefix(r, i - 1)
  <2> TAKE i \in 1 .. Len(r)
  <2>1. i \in 1 .. k /\ i \in 1 .. Len(s) /\ i - 1 \in 0 .. k
    BY <1>1, <1>2
  <2>2. b[s[i]] \subseteq Prefix(s, i - 1)
    BY <2>1 DEF Ordered
  <2> QED
    BY <1>2, <1>3, <2>1, <2>2
<1>5. Ordered(r, n, b)
  BY <1>2, <1>4 DEF Ordered
<1> QED
  BY <1>2, <1>3, <1>5 DEF r

\* A write, number n + 1, is made on top of what the database d holds: what was
\* ordered stays so, and d with the write at its end is ordered.
LEMMA OrderedWrite ==
  ASSUME NEW n \in Nat, NEW T, NEW b \in [1 .. n -> SUBSET T],
         NEW d, Ordered(d, n, b), Range(d) \subseteq T
  PROVE  /\ \A s : Ordered(s, n, b) => Ordered(s, n + 1, Append(b, Range(d)))
         /\ Ordered(Append(d, n + 1), n + 1, Append(b, Range(d)))
<1> DEFINE c == Append(b, Range(d))
           r == Append(d, n + 1)
<1>1. b \in Seq(SUBSET T) /\ Len(b) = n
  BY SeqDef
<1>2. /\ \A w \in 1 .. n : c[w] = b[w]
      /\ c[n + 1] = Range(d)
  BY <1>1, AppendProperties
<1>3. ASSUME NEW s, Ordered(s, n, b)
      PROVE  Ordered(s, n + 1, c)
  <2>1. s \in Seq(1 .. n)
    BY <1>3 DEF Ordered
  <2>2. s \in Seq(1 .. n + 1)
    BY <2>1, SeqMonotonic
  <2>3. \A i \in 1 .. Len(s) : c[s[i]] \subseteq Prefix(s, i - 1)
    BY <1>2, <1>3, <2>1, ElementOfSeq DEF Ordered
  <2> QED
    BY <2>2, <2>3 DEF Ordered
<1>4. Ordered(r, n + 1, c)
  <2>1. d \in Seq(1 .. n + 1) /\ Len(d) \in Nat /\ n + 1 \in 1 .. n + 1
    BY <1>3, LenProperties DEF Ordered
  <2>2. /\ r \in Seq(1 .. n + 1)
        /\ Len(r) = Len(d) + 1
        /\ \A i \in 1 .. Len(d) : r[i] = d[i]
        /\ r[Len(d) + 1] = n + 1
    BY <2>1, AppendProperties
  <2>3. Range(d) = Prefix(d, Len(d))
    BY <2>1, PrefixOfAll
  <2> HIDE DEF r, c
  <2>4. \A m \in 0 .. Len(d) : Prefix(r, m) = Prefix(d, m)
    <3> TAKE m \in 0 .. Len(d)
    <3>1. \A i \in 1 .. m : r[i] = d[i]
      BY <2>1, <2>2
    <3> QED
      BY <3>1 DEF Prefix
  <2>5. \A i \in 1 .. Len(r) : c[r[i]] \subseteq Prefix(r, i - 1)
    <3> TAKE i \in 1 .. Len(r)
    <3>1. i = Len(d) + 1 \/ i \in 1 .. Len(d)
      BY <2>1, <2>2
    <3>2. i - 1 \in 0 .. Len(d) /\ Prefix(r, i - 1) = Prefix(d, i - 1)
      BY <2>1, <2>4, <3>1
    <3>3. CASE i = Len(d) + 1
      <4>1. i - 1 = Len(d)
        BY <2>1, <3>3
      <4> QED
        BY <1>2, <2>2, <2>3, <3>2, <3>3, <4>1
    <3>4. CASE i \in 1 .. Len(d)
      <4>1. c[d[i]] \subseteq Prefix(d, i - 1)
        BY <1>3, <3>4 DEF Ordered
      <4> QED
        BY <2>2, <3>2, <3>4, <4>1
    <3> QED
      BY <3>1, <3>3, <3>4
  <2> QED
    BY <2>2, <2>5 DEF Ordered
<1> QED
  BY <1>3, <1>4

(***************************************************************************)
(* The invariant holds initially                                           *)
(***************************************************************************)
LEMMA DurabilityInit ==
  ASSUME Init
  PROVE  DurabilityInv
<1>1. TypeOK
  <2>1. <<>> \in Seq(Writes) /\ <<>> \in Seq(Checkpoint) /\ Len(<<>>) = 0
    BY EmptySeq
  <2>2. before \in [1 .. writes -> SUBSET Writes]
    BY DEF Init
  <2>3. halfway \in BOOLEAN
    BY Zenon DEF Init
  <2> QED
    BY <2>1, <2>2, <2>3 DEF Init, TypeOK
<1>2. Causal
  BY EmptySeq DEF Init, Causal, Ordered
<1>3. Guarded /\ Reach /\ Staging
  BY DEF Init, Guarded, Reach, Staging
<1> QED
  BY <1>1, <1>2, <1>3 DEF DurabilityInv

(***************************************************************************)
(* Every step keeps it                                                     *)
(***************************************************************************)
\* Nothing of the invariant but the types depends on the count of failures, and
\* nothing but Reach and Staging on whether the server runs.
LEMMA SameDatabase ==
  ASSUME DurabilityInv, UNCHANGED <<db, synced, remote, writes, before, guarded>>
  PROVE  Causal' /\ Guarded' /\ Uploaded' = Uploaded /\ Listed' = Listed
<1>1. Causal'
  BY DEF DurabilityInv, Causal
<1>2. Guarded'
  BY DEF DurabilityInv, Guarded, Prefix
<1>3. Listed' = Listed /\ Complete' = Complete
  BY DEF Listed, Complete
<1>4. Uploaded' = Uploaded
  BY <1>3 DEF Uploaded
<1> QED
  BY <1>1, <1>2, <1>3, <1>4

\* What the types say of the database.
LEMMA DatabaseFacts ==
  ASSUME DurabilityInv
  PROVE  /\ db \in Seq(Writes) /\ db \in Seq(1 .. writes) /\ Len(db) \in Nat
         /\ writes \in Nat /\ 1 .. writes \subseteq Writes
         /\ remote \in Seq(Checkpoint) /\ Len(remote) \in Nat
         /\ synced \in 0 .. Len(db)
         /\ Range(db) = Prefix(db, Len(db))
         /\ Range(db) \subseteq 1 .. writes
         /\ guarded \subseteq Range(db)
<1>1. /\ db \in Seq(Writes) /\ db \in Seq(1 .. writes) /\ remote \in Seq(Checkpoint)
      /\ synced \in 0 .. Len(db) /\ writes \in 0 .. MaxWrites
  BY DEF DurabilityInv, TypeOK, Causal, Ordered
<1>2. Len(db) \in Nat /\ Len(remote) \in Nat
  BY <1>1, LenProperties
<1>3. Range(db) = Prefix(db, Len(db))
  BY <1>1, PrefixOfAll
<1>4. Range(db) \subseteq 1 .. writes
  BY <1>1, <1>3, ElementOfSeq DEF Prefix
<1>5. Prefix(db, synced) \subseteq Prefix(db, Len(db))
  BY <1>1, <1>2 DEF Prefix
<1>6. guarded \subseteq Prefix(db, synced)
  BY DEF DurabilityInv, Guarded
<1> QED
  BY <1>1, <1>2, <1>3, <1>4, <1>5, <1>6 DEF Writes

\* HotWrite and the administrative writes, which differ in what they sync and guard.
LEMMA WriteKeeps ==
  ASSUME DurabilityInv, HotWrite \/ AdminWrite \/ ProvisionEnd
  PROVE  DurabilityInv'
<1>0. /\ writes < MaxWrites /\ server = "up" /\ writes' = writes + 1
      /\ db' = Append(db, writes + 1)
      /\ before' = Append(before, Range(db))
      /\ UNCHANGED <<server, remote, script, staged, failures, forfeit>>
      /\ halfway' \in {halfway, FALSE}
      /\ \/ synced' = synced /\ guarded' = guarded
         \/ synced' = Len(db) + 1 /\ guarded' = Range(db')
  BY DEF HotWrite, AdminWrite, ProvisionEnd, Written, HotSynced, AdminSynced
<1>1. /\ db \in Seq(Writes) /\ Len(db) \in Nat /\ writes \in Nat
      /\ synced \in 0 .. Len(db) /\ Range(db) = Prefix(db, Len(db))
      /\ Range(db) \subseteq 1 .. writes /\ 1 .. writes \subseteq Writes
  BY DatabaseFacts
<1>2. writes + 1 \in Writes /\ writes' \in 0 .. MaxWrites
  BY <1>0, <1>1 DEF Writes
<1>3. /\ db' \in Seq(Writes)
      /\ Len(db') = Len(db) + 1
      /\ \A i \in 1 .. Len(db) : db'[i] = db[i]
      /\ db'[Len(db) + 1] = writes + 1
  BY <1>0, <1>1, <1>2, AppendProperties
<1>4. Prefix(db', Len(db)) = Prefix(db, Len(db)) /\ Prefix(db', synced) = Prefix(db, synced)
  BY <1>1, <1>3, SMTT(60) DEF Prefix
<1>5. Range(db') = Prefix(db', Len(db) + 1)
  BY <1>3, PrefixOfAll
<1>6. Range(db) \subseteq Range(db') /\ writes + 1 \in Range(db')
  <2>1. Prefix(db', Len(db)) \subseteq Prefix(db', Len(db) + 1)
    BY <1>1 DEF Prefix
  <2>2. db'[Len(db) + 1] \in Prefix(db', Len(db) + 1)
    BY <1>1 DEF Prefix
  <2> QED
    BY <1>1, <1>3, <1>4, <1>5, <2>1, <2>2
<1>7. Range(db') \subseteq Writes
  BY <1>3, ElementOfSeq, LenProperties DEF Range
<1>8. TypeOK'
  <2>1. before \in Seq(SUBSET Writes) /\ Len(before) = writes
    BY <1>1, SeqDef DEF DurabilityInv, TypeOK
  <2>2. Range(db) \in SUBSET Writes
    BY <1>1
  <2>3. before' \in Seq(SUBSET Writes) /\ Len(before') = writes + 1
    BY <1>0, <2>1, <2>2, AppendProperties
  <2>4. before' \in [1 .. writes' -> SUBSET Writes]
    BY <1>0, <2>3, LenProperties
  <2>5. synced' \in 0 .. Len(db')
    BY <1>0, <1>1, <1>3
  <2>6. guarded' \subseteq Writes
    BY <1>0, <1>7 DEF DurabilityInv, TypeOK
  <2> QED
    BY <1>0, <1>2, <1>3, <2>4, <2>5, <2>6 DEF DurabilityInv, TypeOK
<1>9. Causal'
  <2>1. before \in [1 .. writes -> SUBSET Writes] /\ Range(db) \subseteq Writes
    BY <1>1 DEF DurabilityInv, TypeOK
  <2>2. Ordered(db, writes, before)
    BY DEF DurabilityInv, Causal
  <2>3. /\ \A s : Ordered(s, writes, before) => Ordered(s, writes', before')
        /\ Ordered(db', writes', before')
    BY <1>0, <1>1, <2>1, <2>2, OrderedWrite
  <2> QED
    BY <1>0, <2>3 DEF DurabilityInv, Causal
<1>10. Guarded'
  <2>1. Range(db') = Prefix(db', Len(db) + 1)
    BY <1>5
  <2> QED
    BY <1>0, <1>4, <2>1 DEF DurabilityInv, Guarded
<1>11. Reach'
  <2>1. 1 .. writes' \subseteq Range(db') \cup forfeit'
    <3>1. 1 .. writes \subseteq Range(db) \cup forfeit
      BY <1>0 DEF DurabilityInv, Reach
    <3>2. 1 .. writes' = (1 .. writes) \cup {writes + 1}
      BY <1>0, <1>1
    <3> QED
      BY <1>0, <1>6, <3>1, <3>2
  <2> QED
    BY <1>0, <2>1 DEF Reach
<1>12. Staging'
  BY <1>0 DEF DurabilityInv, Staging
<1> QED
  BY <1>8, <1>9, <1>10, <1>11, <1>12 DEF DurabilityInv

\* A power failure leaves a prefix of the log that holds what was synced.
LEMMA PowerFailureKeeps ==
  ASSUME DurabilityInv, PowerFailure
  PROVE  DurabilityInv'
<1>1. /\ db \in Seq(Writes) /\ Len(db) \in Nat /\ writes \in Nat
      /\ synced \in 0 .. Len(db) /\ Range(db) = Prefix(db, Len(db))
      /\ Range(db) \subseteq 1 .. writes /\ 1 .. writes \subseteq Writes
  BY DatabaseFacts
<1>2. PICK k \in synced .. Len(db) : db' = SubSeq(db, 1, k)
  BY DEF PowerFailure, Recoverable
<1>3. k \in 0 .. Len(db)
  BY <1>1, <1>2
<1>4. /\ Ordered(db', writes, before)
      /\ Len(db') = k
      /\ \A m \in 0 .. k : Prefix(db', m) = Prefix(db, m)
  BY <1>1, <1>2, <1>3, OrderedCut DEF DurabilityInv, Causal
<1>5. db' \in Seq(1 .. writes) /\ db' \in Seq(Writes)
  BY <1>1, <1>4, SeqMonotonic DEF Ordered
<1>6. Range(db') = Prefix(db', k)
  BY <1>4, <1>5, PrefixOfAll
<1>7. guarded \subseteq Range(db')
  <2>1. guarded \subseteq Prefix(db, synced)
    BY DEF DurabilityInv, Guarded
  <2>2. Prefix(db, synced) \subseteq Prefix(db, k)
    BY <1>1, <1>3 DEF Prefix
  <2>3. Prefix(db', k) = Prefix(db, k)
    BY <1>3, <1>4
  <2> QED
    BY <1>6, <2>1, <2>2, <2>3
<1>8. TypeOK'
  <2>1. Range(db) \subseteq Writes
    BY <1>1
  <2>2. synced \in 0 .. Len(db')
    BY <1>1, <1>2, <1>3, <1>4
  <2>3. failures' \in 0 .. MaxFailures
    BY DEF PowerFailure, Fail, DurabilityInv, TypeOK
  <2> QED
    BY <1>5, <2>1, <2>2, <2>3 DEF PowerFailure, DurabilityInv, TypeOK
<1>9. Causal'
  BY <1>4 DEF PowerFailure, DurabilityInv, Causal
<1>10. Guarded'
  BY <1>1, <1>2, <1>3, <1>4 DEF PowerFailure, DurabilityInv, Guarded
<1>11. Uploaded' = Uploaded
  BY DEF PowerFailure, Uploaded, Complete, Listed
<1>12. Reach'
  <2>1. CASE server \in {"up", "down"}
    <3>1. 1 .. writes \subseteq Range(db) \cup forfeit
      BY <2>1 DEF DurabilityInv, Reach
    <3>2. 1 .. writes \subseteq Range(db') \cup forfeit'
      BY <1>7, <3>1 DEF PowerFailure
    <3> QED
      BY <2>1, <3>2 DEF PowerFailure, Reach
  <2>2. CASE server \in {"lost", "broken"}
    <3>1. db = <<>> /\ 1 .. writes \subseteq Uploaded \cup forfeit
      BY <2>2 DEF DurabilityInv, Reach
    <3>2. Len(db') = 0
      BY <1>3, <1>4, <3>1
    <3>3. db' = <<>>
      BY <1>5, <3>2, EmptySeq
    <3> QED
      BY <1>11, <2>2, <3>1, <3>3 DEF PowerFailure, Reach
  <2> QED
    BY <2>1, <2>2 DEF DurabilityInv, TypeOK
<1>13. Staging'
  BY DEF PowerFailure, Staging
<1> QED
  BY <1>8, <1>9, <1>10, <1>12, <1>13 DEF DurabilityInv

\* The families of a tenant are made or dropped, which is no write.
LEMMA FamiliesKeep ==
  ASSUME DurabilityInv, ProvisionBegin \/ DropTenant
  PROVE  DurabilityInv'
<1>1. /\ UNCHANGED <<db, synced, server, remote, script, staged, writes, failures, historyVars>>
      /\ halfway' \in BOOLEAN
  BY DEF ProvisionBegin, DropTenant
<1>2. Causal' /\ Guarded' /\ Uploaded' = Uploaded /\ Listed' = Listed
  BY <1>1, SameDatabase DEF historyVars
<1>3. TypeOK'
  BY <1>1 DEF historyVars, DurabilityInv, TypeOK
<1>4. Reach' /\ Staging'
  BY <1>1, <1>2 DEF historyVars, DurabilityInv, Reach, Staging, Latest
<1> QED
  BY <1>2, <1>3, <1>4 DEF DurabilityInv

\* The process dies, starts again, or loses the instance it runs on.
LEMMA ServerKeeps ==
  ASSUME DurabilityInv, ProcessCrash \/ Open \/ InstanceStops
  PROVE  DurabilityInv'
<1>1. /\ db \in Seq(Writes) /\ Len(db) \in Nat /\ synced \in 0 .. Len(db)
      /\ Range(db) = Prefix(db, Len(db)) /\ Range(db) \subseteq Writes
  BY DatabaseFacts
<1>2. CASE ProcessCrash
  <2>1. TypeOK'
    BY <1>2 DEF ProcessCrash, Fail, historyVars, DurabilityInv, TypeOK
  <2>2. Causal' /\ Guarded' /\ Uploaded' = Uploaded /\ Listed' = Listed
    BY <1>2, SameDatabase DEF ProcessCrash, historyVars
  <2>3. Reach'
    BY <1>2, <2>2 DEF ProcessCrash, historyVars, DurabilityInv, Reach
  <2>4. Staging'
    BY <1>2 DEF ProcessCrash, DurabilityInv, Staging
  <2> QED
    BY <2>1, <2>2, <2>3, <2>4 DEF DurabilityInv
<1>3. CASE Open
  <2>1. TypeOK'
    BY <1>1, <1>3 DEF Open, DurabilityInv, TypeOK
  <2>2. Causal'
    BY <1>3 DEF Open, DurabilityInv, Causal
  <2>3. Guarded'
    BY <1>1, <1>3 DEF Open, Guarded
  <2>4. Reach'
    BY <1>3 DEF Open, DurabilityInv, Reach
  <2>5. Staging'
    BY <1>3 DEF Open, DurabilityInv, Staging
  <2> QED
    BY <2>1, <2>2, <2>3, <2>4, <2>5 DEF DurabilityInv
<1>4. CASE InstanceStops
  <2>1. /\ <<>> \in Seq(Writes) /\ <<>> \in Seq(1 .. writes) /\ Len(<<>>) = 0
    BY EmptySeq
  <2>2. TypeOK'
    <3>1. halfway' \in BOOLEAN
      BY <1>4, Zenon DEF InstanceStops
    <3> QED
      BY <1>1, <1>4, <2>1, <3>1 DEF InstanceStops, Fail, DurabilityInv, TypeOK
  <2>3. Causal'
    <3>1. Ordered(<<>>, writes, before)
      BY <2>1 DEF Ordered
    <3> QED
      BY <1>4, <3>1 DEF InstanceStops, DurabilityInv, Causal
  <2>4. Guarded'
    BY <1>4 DEF InstanceStops, Guarded
  <2>5. Uploaded' = Uploaded
    BY <1>4 DEF InstanceStops, Uploaded, Complete, Listed
  <2>6. 1 .. writes \subseteq Uploaded \cup Range(db) \cup forfeit
    BY DEF DurabilityInv, TypeOK, Reach
  <2>7. Reach'
    BY <1>4, <2>5, <2>6 DEF InstanceStops, Reach
  <2>8. Staging'
    BY <1>4 DEF InstanceStops, Staging
  <2> QED
    BY <2>2, <2>3, <2>4, <2>7, <2>8 DEF DurabilityInv
<1> QED
  BY <1>2, <1>3, <1>4

\* The checkpoint script, which runs only while there is a database to serve.
LEMMA CheckpointKeeps ==
  ASSUME DurabilityInv,
         CreateCheckpoint \/ UploadFails \/ \E f \in Files : Upload(f)
  PROVE  DurabilityInv'
<1>1. /\ db \in Seq(Writes) /\ remote \in Seq(Checkpoint) /\ Len(remote) \in Nat
  BY DatabaseFacts
<1>2. CASE UploadFails
  <2>1. TypeOK'
    BY <1>2 DEF UploadFails, historyVars, DurabilityInv, TypeOK
  <2>2. Causal' /\ Guarded' /\ Uploaded' = Uploaded /\ Listed' = Listed
    BY <1>2, SameDatabase DEF UploadFails, historyVars
  <2>3. Reach'
    BY <1>2, <2>2 DEF UploadFails, historyVars, DurabilityInv, Reach
  <2>4. Staging'
    BY <1>2, <2>2 DEF UploadFails, DurabilityInv, Staging, Latest
  <2> QED
    BY <2>1, <2>2, <2>3, <2>4 DEF DurabilityInv
<1>3. CASE CreateCheckpoint
  <2> DEFINE c == [files |-> {}, db |-> db, halfway |-> halfway]
  <2>1. c \in Checkpoint /\ c.db = db
    BY <1>1 DEF Checkpoint, DurabilityInv, TypeOK
  <2>2. remote' = Append(remote, c)
    BY <1>3 DEF CreateCheckpoint
  <2> HIDE DEF c
  <2>3. /\ remote' \in Seq(Checkpoint)
        /\ Len(remote') = Len(remote) + 1
        /\ \A i \in 1 .. Len(remote) : remote'[i] = remote[i]
        /\ remote'[Len(remote) + 1] = c
    BY <1>1, <2>1, <2>2, AppendProperties
  <2>4. staged = {} /\ server = "up"
    BY <1>3 DEF CreateCheckpoint, DurabilityInv, Staging
  <2>5. TypeOK'
    BY <1>3, <2>3, <2>4 DEF CreateCheckpoint, historyVars, DurabilityInv, TypeOK
  <2>6. Causal'
    <3>1. Ordered(db, writes, before) /\ \A i \in 1 .. Len(remote) :
            Ordered(remote[i].db, writes, before)
      BY DEF DurabilityInv, Causal
    <3>2. ASSUME NEW i \in 1 .. Len(remote')
          PROVE  Ordered(remote'[i].db, writes, before)
      <4>1. i \in 1 .. Len(remote) \/ i = Len(remote) + 1
        BY <1>1, <2>3
      <4> QED
        BY <2>1, <2>3, <3>1, <4>1
    <3> QED
      BY <1>3, <3>1, <3>2 DEF CreateCheckpoint, historyVars, Causal
  <2>7. Guarded'
    BY <1>3 DEF CreateCheckpoint, historyVars, DurabilityInv, Guarded
  <2>8. Reach' /\ Staging'
    BY <1>3, <2>4 DEF CreateCheckpoint, historyVars, DurabilityInv, Reach, Staging
  <2> QED
    BY <2>5, <2>6, <2>7, <2>8 DEF DurabilityInv
<1>4. ASSUME NEW f \in Files, Upload(f)
      PROVE  DurabilityInv'
  <2> DEFINE ts == Len(remote)
             c == [remote[ts] EXCEPT !.files = @ \cup {f}]
  <2>1. server \in {"up", "down"} /\ staged = {}
    BY <1>4 DEF Upload, DurabilityInv, TypeOK, Reach, Staging
  <2>2. remote' = [remote EXCEPT ![ts] = c] /\ script' \in {"idle", "upload"}
    BY <1>4 DEF Upload
  <2>3. /\ remote' \in Seq(Checkpoint) /\ Len(remote') = Len(remote)
        /\ \A i \in 1 .. Len(remote) : remote'[i].db = remote[i].db
    <3>1. CASE remote = <<>>
      <4>1. Len(remote) = 0 /\ DOMAIN remote = 1 .. 0
        BY <1>1, <3>1, LenProperties, EmptySeq
      <4>2. remote' = [i \in DOMAIN remote |-> IF i = ts THEN c ELSE remote[i]]
        BY <1>1, <2>2, LenProperties
      <4> HIDE DEF c
      <4>3. remote' \in [1 .. 0 -> Checkpoint] /\ 0 \in Nat
        BY <4>1, <4>2
      <4>4. remote' \in Seq(Checkpoint) /\ DOMAIN remote' = 1 .. 0
        BY <4>3, SeqDef
      <4>5. Len(remote') = 0
        BY <4>4, LenProperties
      <4> QED
        BY <4>1, <4>4, <4>5
    <3>2. CASE remote # <<>>
      <4>1. ts \in 1 .. Len(remote)
        BY <1>1, <3>2, EmptySeq
      <4>2. remote[ts] \in Checkpoint
        BY <1>1, <4>1, ElementOfSeq
      <4>3. c \in Checkpoint /\ c.db = remote[ts].db
        BY <4>2 DEF Checkpoint
      <4> HIDE DEF c
      <4>4. /\ remote' \in Seq(Checkpoint) /\ Len(remote') = Len(remote)
            /\ \A i \in 1 .. Len(remote) : remote'[i] = IF i = ts THEN c ELSE remote[i]
        BY <1>1, <2>2, <4>1, <4>3, ExceptSeq
      <4> QED
        BY <4>3, <4>4
    <3> QED
      BY <3>1, <3>2
  <2>4. TypeOK'
    BY <1>4, <2>1, <2>2, <2>3 DEF Upload, historyVars, DurabilityInv, TypeOK
  <2>5. Causal'
    BY <1>4, <2>3 DEF Upload, historyVars, DurabilityInv, Causal
  <2>6. Guarded'
    BY <1>4 DEF Upload, historyVars, DurabilityInv, Guarded
  <2>7. Reach' /\ Staging'
    BY <1>4, <2>1 DEF Upload, historyVars, DurabilityInv, Reach, Staging
  <2> QED
    BY <2>4, <2>5, <2>6, <2>7 DEF DurabilityInv
<1> QED
  BY <1>2, <1>3, <1>4

\* The latest checkpoint, and the newest finished one if it is finished.
LEMMA LatestIsNewest ==
  ASSUME DurabilityInv, Listed # {}
  PROVE  /\ Latest \in Listed /\ Latest \in 1 .. Len(remote)
         /\ Latest \in Complete => Uploaded = Range(remote[Latest].db)
<1>1. Len(remote) \in Nat /\ Listed \in SUBSET (1 .. Len(remote)) /\ Complete \subseteq Listed
  BY DatabaseFacts DEF Listed, Complete
<1>2. Latest \in Listed /\ \A y \in Listed : Latest >= y
  BY <1>1, MaxOfPositions DEF Latest
<1>3. ASSUME Latest \in Complete
      PROVE  Max(Complete) = Latest
  <2>1. Complete \in SUBSET (1 .. Len(remote)) /\ Complete # {}
    BY <1>1, <1>3
  <2>2. Max(Complete) \in Complete /\ \A y \in Complete : Max(Complete) >= y
    BY <1>1, <2>1, MaxOfPositions
  <2>3. Max(Complete) >= Latest /\ Latest >= Max(Complete)
    BY <1>1, <1>2, <1>3, <2>2
  <2>4. Max(Complete) \in 1 .. Len(remote) /\ Latest \in 1 .. Len(remote)
    BY <1>1, <1>2, <2>1, <2>2
  <2> QED
    BY <2>3, <2>4
<1> QED
  BY <1>1, <1>2, <1>3 DEF Uploaded

\* The restore script, and the instance starting without it.
LEMMA RestoreKeeps ==
  ASSUME DurabilityInv, Restore \/ StartEmpty
  PROVE  DurabilityInv'
<1>1. CASE StartEmpty
  <2>1. Listed = {} /\ Uploaded = {}
    BY <1>1 DEF StartEmpty, Uploaded, Complete
  <2>2. TypeOK'
    BY <1>1 DEF StartEmpty, historyVars, DurabilityInv, TypeOK
  <2>3. Causal' /\ Guarded'
    BY <1>1, SameDatabase DEF StartEmpty, historyVars
  <2>4. Reach'
    BY <1>1, <2>1 DEF StartEmpty, historyVars, DurabilityInv, Reach
  <2>5. Staging'
    BY <1>1, <2>1 DEF StartEmpty, DurabilityInv, Staging
  <2> QED
    BY <2>2, <2>3, <2>4, <2>5 DEF DurabilityInv
<1>2. CASE Download
  <2>1. Latest \in 1 .. Len(remote)
    BY <1>2, LatestIsNewest DEF Download
  <2>2. TypeOK'
    BY <1>2, <2>1 DEF Download, historyVars, DurabilityInv, TypeOK
  <2>3. Causal' /\ Guarded' /\ Uploaded' = Uploaded /\ Listed' = Listed
    BY <1>2, SameDatabase DEF Download, historyVars
  <2>4. Reach'
    BY <1>2, <2>3 DEF Download, historyVars, DurabilityInv, Reach
  <2>5. Staging'
    BY <1>2, <2>3 DEF Download, Staging, Latest
  <2> QED
    BY <2>2, <2>3, <2>4, <2>5 DEF DurabilityInv
<1>3. ASSUME NEW ts \in staged, Abort(ts)
      PROVE  DurabilityInv'
  <2>1. TypeOK'
    BY <1>3 DEF Abort, historyVars, DurabilityInv, TypeOK
  <2>2. Causal' /\ Guarded' /\ Uploaded' = Uploaded /\ Listed' = Listed
    BY <1>3, SameDatabase DEF Abort, historyVars
  <2>3. Reach' /\ Staging'
    BY <1>3, <2>2 DEF Abort, historyVars, DurabilityInv, Reach, Staging
  <2> QED
    BY <2>1, <2>2, <2>3 DEF DurabilityInv
<1>4. ASSUME NEW ts \in staged, Install(ts)
      PROVE  DurabilityInv'
  <2>1. server = "lost" /\ Listed # {} /\ ts = Latest
    BY DEF DurabilityInv, Staging
  <2>2. ts \in 1 .. Len(remote) /\ (ts \in Complete => Uploaded = Range(remote[ts].db))
    BY <2>1, LatestIsNewest
  <2>3. remote \in Seq(Checkpoint) /\ remote[ts] \in Checkpoint
    BY <2>2, DatabaseFacts, ElementOfSeq
  <2>4. Ordered(remote[ts].db, writes, before) /\ Ordered(<<>>, writes, before)
    BY <2>2, EmptySeq DEF DurabilityInv, Causal, Ordered
  <2>5. /\ Ordered(db', writes, before) /\ db' \in Seq(Writes) /\ Len(db') \in Nat
        /\ Range(db') = Prefix(db', Len(db')) /\ Range(db') \subseteq Writes
    <3>1. Ordered(db', writes, before) /\ db' \in Seq(Writes)
      BY <1>4, <2>3, <2>4, EmptySeq DEF Install, Checkpoint
    <3>2. Len(db') \in Nat /\ Range(db') = Prefix(db', Len(db'))
      BY <3>1, LenProperties, PrefixOfAll
    <3> QED
      BY <3>1, <3>2, ElementOfSeq DEF Prefix
  <2>6. TypeOK'
    BY <1>4, <2>5 DEF Install, DurabilityInv, TypeOK
  <2>7. Causal'
    BY <1>4, <2>5 DEF Install, DurabilityInv, Causal
  <2>8. Guarded'
    BY <1>4, <2>5 DEF Install, Guarded
  <2>9. script = "idle" /\ 1 .. writes \subseteq Uploaded \cup forfeit
    BY <2>1 DEF DurabilityInv, Reach
  <2>10. Uploaded' = Uploaded
    BY <1>4 DEF Install, Uploaded, Complete, Listed
  <2>11. Reach'
    BY <1>4, <2>2, <2>9, <2>10 DEF Install, Reach
  <2>12. Staging'
    BY <1>4 DEF Install, Staging
  <2> QED
    BY <2>6, <2>7, <2>8, <2>11, <2>12 DEF DurabilityInv
<1> QED
  BY <1>1, <1>2, <1>3, <1>4 DEF Restore

LEMMA DurabilityStep ==
  ASSUME DurabilityInv, [Next]_vars
  PROVE  DurabilityInv'
<1>1. CASE UNCHANGED vars
  <2>1. UNCHANGED <<db, synced, remote, writes, before, guarded>>
    BY <1>1 DEF vars, historyVars
  <2>2. Causal' /\ Guarded' /\ Uploaded' = Uploaded /\ Listed' = Listed
    BY <2>1, SameDatabase
  <2>3. TypeOK'
    BY <1>1 DEF vars, historyVars, DurabilityInv, TypeOK
  <2>4. Reach' /\ Staging'
    BY <1>1, <2>2 DEF vars, historyVars, DurabilityInv, Reach, Staging, Latest
  <2> QED
    BY <2>2, <2>3, <2>4 DEF DurabilityInv
<1> QED
  BY <1>1, WriteKeeps, FamiliesKeep, PowerFailureKeeps, ServerKeeps, CheckpointKeeps, RestoreKeeps DEF Next

LEMMA DurabilityInvariant == Spec => []DurabilityInv
<1> QED
  BY DurabilityInit, DurabilityStep, PTL DEF Spec

(***************************************************************************)
(* The theorems                                                            *)
(***************************************************************************)
\* Whatever fails and whenever, the variables keep their types; in particular what
\* is synced never exceeds what the log holds, and what restore_from_s3.sh has
\* staged is a checkpoint that was made.
THEOREM DurabilityTypes == Spec => []TypeOK
<1>1. DurabilityInv => TypeOK
  BY DEF DurabilityInv
<1> QED
  BY <1>1, DurabilityInvariant, PTL

\* However many writes, checkpoints, crashes, power failures and losses of the
\* instance there are, a database that opens has no holes: of no write it has lost
\* the ones that were made before it.
THEOREM LogHasNoHoles == Spec => []NoHoles
<1>1. ASSUME DurabilityInv
      PROVE  NoHoles
  <2> SUFFICES ASSUME NEW w \in Range(db)
               PROVE  before[w] \subseteq Range(db)
    BY DEF NoHoles
  <2>1. Range(db) = Prefix(db, Len(db)) /\ Len(db) \in Nat
    BY <1>1, DatabaseFacts
  <2>2. PICK i \in 1 .. Len(db) : w = db[i]
    BY <2>1 DEF Prefix
  <2>3. before[w] \subseteq Prefix(db, i - 1)
    BY <1>1, <2>2 DEF DurabilityInv, Causal, Ordered
  <2>4. Prefix(db, i - 1) \subseteq Prefix(db, Len(db))
    BY <2>1, <2>2 DEF Prefix
  <2> QED
    BY <2>1, <2>3, <2>4
<1> QED
  BY <1>1, DurabilityInvariant, PTL

\* A running server has every write it answered, but those the write options let a
\* power failure take and those that were not uploaded when the instance was lost.
THEOREM OnlyForfeitLost == Spec => []NothingElseLost
<1>1. DurabilityInv => NothingElseLost
  BY DEF DurabilityInv, Reach, NothingElseLost
<1> QED
  BY <1>1, DurabilityInvariant, PTL
=============================================================================
