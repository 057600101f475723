----------------------------- MODULE Durability -----------------------------
(***************************************************************************)
(* What survives a crash, a power failure and the loss of an instance: the *)
(* write options of the registry and of StatsStore, how TenantRegistry     *)
(* opens RocksDB, the checkpoint endpoint, and the two scripts that carry  *)
(* checkpoints to object storage and back.                                 *)
(*                                                                         *)
(* RocksDB is the sequence of the batches that were written to it, each of *)
(* them one WAL record; a write is answered when it returns.  TaskQueue    *)
(* and TenantLifecycle have what the batches contain; of the latter there  *)
(* is here what keeps a database from being opened.                        *)
(***************************************************************************)
EXTENDS Integers, SequencesExt

\* Bounds of the model; the code has none of them.
CONSTANTS
  MaxWrites,      \* writes ever made
  MaxRuns,        \* runs of checkpoint.sh
  MaxFailures     \* crashes, power failures and losses of the instance

ASSUME DurabilityAssumption ==
  /\ MaxWrites \in Nat
  /\ MaxRuns \in Nat
  /\ MaxFailures \in Nat

VARIABLES
  db,             \* the batches that RocksDB's files and the page cache hold
  synced,         \* length of the prefix of db that is on stable storage
  halfway,        \* a tenant has column families and no record of its own
  server,         \* "up", "down", "lost" (no data at all) or "broken"
  remote,         \* the checkpoints in object storage, by timestamp
  script,         \* where checkpoint.sh is
  staged,         \* timestamps of the checkpoint restore_from_s3.sh has downloaded
  writes, failures,  \* used up so far, of the bounds
  before,         \* history: write -> the writes in db when it was made
  guarded,        \* history: writes that a power failure must not take
  forfeit         \* history: writes that a failure was allowed to take

historyVars == <<before, guarded, forfeit>>
vars == <<db, synced, halfway, server, remote, script, staged, writes, failures, historyVars>>

Writes == 1 .. MaxWrites

\* The files of a checkpoint: CURRENT, MANIFEST and OPTIONS, and the tables.
Files == {"meta", "sst"}
Checkpoint == [files : SUBSET Files, db : Seq(Writes), halfway : BOOLEAN]

TypeOK ==
  /\ db \in Seq(Writes)
  /\ synced \in 0 .. Len(db)
  /\ halfway \in BOOLEAN
  /\ server \in {"up", "down", "lost", "broken"}
  /\ remote \in Seq(Checkpoint)
  /\ script \in {"idle", "upload"}
  /\ staged \in SUBSET (1 .. Len(remote))
  /\ writes \in 0 .. MaxWrites
  /\ failures \in 0 .. MaxFailures
  /\ before \in [1 .. writes -> SUBSET Writes]
  /\ guarded \subseteq Writes
  /\ forfeit \subseteq Writes

Init ==
  /\ db = <<>>
  /\ synced = 0
  /\ halfway = FALSE
  /\ server = "up"
  /\ remote = <<>>
  /\ script = "idle"
  /\ staged = {}
  /\ writes = 0
  /\ failures = 0
  /\ before = <<>>
  /\ guarded = {}
  /\ forfeit = {}

(***************************************************************************)
(* Writes                                                                  *)
(***************************************************************************)
\* hot_write_opts: in the WAL, not synced.
HotSynced(n) == synced

\* Faulty variant: set_sync(false), as for the queues.
AdminUnsynced(n) == synced

\* admin_write_opts and StatsStore's sync_write_opts: the WAL is synced up to
\* and including this write, so with all hot writes before it.
AdminSynced(n) == n

Written(sync) ==
  /\ server = "up"
  /\ writes < MaxWrites
  /\ writes' = writes + 1
  /\ db' = Append(db, writes + 1)
  /\ synced' = sync
  /\ before' = Append(before, Range(db))
  /\ UNCHANGED <<server, remote, script, staged, failures, forfeit>>

\* A batch of enqueue, dequeue, ack, nack or the reaper.
HotWrite ==
  /\ Written(HotSynced(Len(db) + 1))
  /\ UNCHANGED <<halfway, guarded>>

\* A tenant's policy, a purge or replay, a record of StatsStore.
AdminWrite ==
  /\ Written(AdminSynced(Len(db) + 1))
  /\ guarded' = Range(db')
  /\ UNCHANGED halfway

\* provision_tenant's first create_cf, which RocksDB makes durable at once.  An
\* error of any call after it leaves things so.
ProvisionBegin ==
  /\ server = "up"
  /\ ~halfway
  /\ halfway' = TRUE
  /\ UNCHANGED <<db, synced, server, remote, script, staged, writes, failures, historyVars>>

\* The tenant's record, after the last create_cf.
ProvisionEnd ==
  /\ halfway
  /\ Written(AdminSynced(Len(db) + 1))
  /\ guarded' = Range(db')
  /\ halfway' = FALSE

\* drop_tenant, of a tenant whose provisioning failed.
DropTenant ==
  /\ server = "up"
  /\ halfway
  /\ halfway' = FALSE
  /\ UNCHANGED <<db, synced, server, remote, script, staged, writes, failures, historyVars>>

(***************************************************************************)
(* Failures and opening                                                    *)
(***************************************************************************)
Fail == failures < MaxFailures /\ failures' = failures + 1

\* Faulty variant: SkipAnyCorruptedRecords.
RecoverableSkipping(log, n) ==
  {SelectSeq(log, LAMBDA w : w \in S \cup Range(SubSeq(log, 1, n))) : S \in SUBSET Range(log)}

\* Faulty variant: what was synced is not safe either.
RecoverableAny(log, n) == {SubSeq(log, 1, k) : k \in 0 .. Len(log)}

\* TolerateCorruptedTailRecords: the log up to its first bad record, which comes
\* after what was synced.
Recoverable(log, n) == {SubSeq(log, 1, k) : k \in n .. Len(log)}

\* The process dies.  Every write goes to the WAL (disable_wal(false)), and the
\* operating system keeps it.
ProcessCrash ==
  /\ server = "up"
  /\ Fail
  /\ server' = "down"
  /\ UNCHANGED <<db, synced, halfway, remote, script, staged, writes, historyVars>>

\* The machine goes down, and the scripts with it.
PowerFailure ==
  /\ Fail
  /\ db' \in Recoverable(db, synced)
  /\ server' = IF server = "up" THEN "down" ELSE server
  /\ script' = "idle"
  /\ staged' = {}
  /\ forfeit' = forfeit \cup (Range(db) \ guarded)
  /\ UNCHANGED <<synced, halfway, remote, writes, before, guarded>>

\* TenantRegistry::open.  The first opening, which reads the tenants' records, is
\* told of every family and recovers the log; the tables that recovery writes are
\* synced.  The second is told of the families of the tenants that have a record,
\* and RocksDB refuses if there are others.
Open ==
  /\ server = "down"
  /\ server' = IF halfway THEN "down" ELSE "up"
  /\ synced' = Len(db)
  /\ guarded' = Range(db)
  /\ UNCHANGED <<db, halfway, remote, script, staged, writes, failures, before, forfeit>>

(***************************************************************************)
(* checkpoint.sh                                                           *)
(***************************************************************************)
\* The POST to checkpoint_handler: RocksDB flushes and links what it holds.
CreateCheckpoint ==
  /\ script = "idle"
  /\ server = "up"
  /\ Len(remote) < MaxRuns
  /\ remote' = Append(remote, [files |-> {}, db |-> db, halfway |-> halfway])
  /\ script' = "upload"
  /\ UNCHANGED <<db, synced, halfway, server, staged, writes, failures, historyVars>>

\* The sync uploads one file after the other, in any order.
Upload(f) ==
  LET ts == Len(remote)
  IN  /\ script = "upload"
      /\ f \notin remote[ts].files
      /\ remote' = [remote EXCEPT ![ts].files = @ \cup {f}]
      /\ script' = IF remote'[ts].files = Files THEN "idle" ELSE "upload"
      /\ UNCHANGED <<db, synced, halfway, server, staged, writes, failures, historyVars>>

\* The sync fails: the script exits, and what it uploaded stays.
UploadFails ==
  /\ script = "upload"
  /\ script' = "idle"
  /\ UNCHANGED <<db, synced, halfway, server, remote, staged, writes, failures, historyVars>>

(***************************************************************************)
(* restore_from_s3.sh                                                      *)
(***************************************************************************)
Listed == {ts \in 1 .. Len(remote) : remote[ts].files # {}}
Complete == {ts \in Listed : remote[ts].files = Files}

\* What a finished upload holds; nothing without one.
Uploaded == IF Complete = {} THEN {} ELSE Range(remote[Max(Complete)].db)

\* The instance is stopped, which wipes its disks.
InstanceStops ==
  /\ Fail
  /\ db' = <<>>
  /\ synced' = 0
  /\ halfway' = FALSE
  /\ server' = "lost"
  /\ script' = "idle"
  /\ staged' = {}
  /\ guarded' = {}
  /\ forfeit' = forfeit \cup (Range(db) \ Uploaded)
  /\ UNCHANGED <<remote, writes, before>>

\* The script fails on an empty listing: aws s3 ls exits with an error and pipefail
\* passes it on.  Whether the instance is then started with nothing is up to its
\* user_data.
StartEmpty ==
  /\ server = "lost"
  /\ Listed = {}
  /\ server' = "down"
  /\ UNCHANGED <<db, synced, halfway, remote, script, staged, writes, failures, historyVars>>

\* The last one of the listing, whether its upload was finished or not.
Latest == Max(Listed)

Download ==
  /\ server = "lost"
  /\ staged = {}
  /\ Listed # {}
  /\ staged' = {Latest}
  /\ UNCHANGED <<db, synced, halfway, server, remote, script, writes, failures, historyVars>>

\* Faulty variant: the log is asked for as well, which a checkpoint was flushed of.
VerifiedLog(ts) == FALSE

\* "Verify integrity" looks for CURRENT, MANIFEST and OPTIONS.
Verified(ts) == "meta" \in remote[ts].files

\* The staging directory becomes the data directory.  Without its tables the
\* database does not open, and there are data now, so nothing is restored again.
Install(ts) ==
  /\ ts \in staged
  /\ Verified(ts)
  /\ db' = IF ts \in Complete THEN remote[ts].db ELSE <<>>
  /\ halfway' = (ts \in Complete /\ remote[ts].halfway)
  /\ synced' = Len(db')
  /\ guarded' = Range(db')
  /\ server' = IF ts \in Complete THEN "down" ELSE "broken"
  /\ staged' = {}
  /\ UNCHANGED <<remote, script, writes, failures, before, forfeit>>

\* "aborting restore"
Abort(ts) ==
  /\ ts \in staged
  /\ ~Verified(ts)
  /\ staged' = {}
  /\ UNCHANGED <<db, synced, halfway, server, remote, script, writes, failures, historyVars>>

Restore ==
  \/ Download
  \/ \E ts \in staged : Install(ts) \/ Abort(ts)

Next ==
  \/ HotWrite
  \/ AdminWrite
  \/ ProvisionBegin
  \/ ProvisionEnd
  \/ DropTenant
  \/ ProcessCrash
  \/ PowerFailure
  \/ InstanceStops
  \/ Open
  \/ CreateCheckpoint
  \/ \E f \in Files : Upload(f)
  \/ UploadFails
  \/ StartEmpty
  \/ Restore

Spec == Init /\ [][Next]_vars

\* The service is restarted when it stops, and the boot script runs.
FairSpec == Spec /\ WF_vars(Open) /\ WF_vars(Restore)

(***************************************************************************)
(* Properties                                                              *)
(***************************************************************************)
\* A server that runs has every write it ever answered, but those that a power
\* failure found unsynced, with no administrative write and no start after
\* them, and those that no finished upload held when the instance was lost.
NothingElseLost ==
  server = "up" => 1 .. writes \subseteq Range(db) \cup forfeit

\* No write outlives one that was made before it: an ack never survives the
\* dequeue it answers, nor a task's dequeue its enqueue, whatever was lost.
NoHoles ==
  \A w \in Range(db) : before[w] \subseteq Range(db)

\* What only an operator can help: the database refuses to be opened, or the
\* instance lost it and there is no checkpoint, or none to be had because the latest
\* upload was cut short.
Stuck ==
  \/ server = "down" /\ halfway
  \/ server = "lost" /\ Listed = {}
  \/ server \in {"lost", "broken"} /\ Listed # {} /\ Latest \notin Complete

\* A server that stopped, or lost its disks, comes back by itself, with three
\* exceptions.  It does not if it stopped, or its latest checkpoint was made, while a
\* tenant was half provisioned: open refuses such a database for ever.  It does not if
\* nothing was uploaded yet, nor if the latest upload was cut short: restoring that
\* fails for ever, and older ones that are complete are not tried.
ServerReturns ==
  server # "up" ~> (server = "up" \/ Stuck)
=============================================================================
