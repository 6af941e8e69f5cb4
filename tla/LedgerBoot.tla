------------------------------ MODULE LedgerBoot ------------------------------
(***************************************************************************)
(* How a node's ledger comes to life and what survives a crash: opening    *)
(* the database, the sentinel that refuses a wrong key, the migration of   *)
(* amounts from the legacy scale, the restore from the JSON snapshot, the  *)
(* genesis allocation of an empty ledger, the snapshot file that several   *)
(* threads write through one temporary file, and the audit log.            *)
(*                                                                         *)
(* db is what the process sees of sled, disk what a crash leaves of it:    *)
(* sled's log keeps the order of the writes, so a crash loses a suffix of  *)
(* them, and a flush (the code's or sled's own) loses none.                *)
(***************************************************************************)
EXTENDS Naturals, FiniteSets, Functions

CONSTANTS BootWallet,     \* rows of the balances tree
          Allocation,     \* GENESIS_*_SHARE_MICRO of each row
          StartDbs,       \* databases the program may find at its first start
          Factor,         \* LEGACY_STEVEMON_PER_TET / STEVEMON
          BootKey,        \* keys an operator may give in TET_DB_KEY_B64
          Snapshotter,    \* threads that write a snapshot
          Auditor,        \* threads that log an operation
          MaxEvents,      \* records logged before the last one, each with its own time
          AuditMax,       \* TET_AUDIT_MAX_EVENTS
          MaxBootCrashes, \* crashes, wrong keys, moved databases
          MaxPays         \* operations that move money

Total(rows) == SumFunction(rows)

\* The trees of the database: balances, the supply, the recorded scale, the sentinel, the
\* audit records, their index and its last number.
Dbs ==
    [rows : [BootWallet -> Nat], supply : Nat, scaled : BOOLEAN, key : BootKey \cup {"-"},
     audit : SUBSET Nat, index : SUBSET [seq : Nat, event : Nat], seq : Nat]

\* The wallets of the database first found hold its supply, in a legacy one some wallet at
\* least a unit of the new scale; what it logged before is left out.
ASSUME BootAssumption ==
    /\ IsFiniteSet(BootWallet) /\ BootWallet # {} /\ "supply" \notin BootWallet
    /\ IsFiniteSet(Snapshotter) /\ Snapshotter # {}
    /\ Allocation \in [BootWallet -> Nat]
    /\ Factor \in Nat \ {0} /\ AuditMax \in Nat \ {0}
    /\ MaxBootCrashes \in Nat /\ MaxPays \in Nat /\ MaxEvents \in Nat
    /\ StartDbs \subseteq Dbs
    /\ \A d \in StartDbs :
          /\ Total(d.rows) = d.supply /\ d.audit = {} /\ d.index = {}
          /\ ~d.scaled => d.supply = 0 \/ \E w \in BootWallet : d.rows[w] >= Factor

VARIABLES db, disk,
          boot,       \* how far the start has come, the rows still to migrate,
                      \* the database first found, the record prune removes next
          file,       \* the inode of tet_ledger.json, of tet_ledger.tmp, contents
          writers,    \* what each snapshot thread is doing
          auditors,   \* what each logging thread is doing
          bootHist    \* crashes, payments, a migration cut short, shared tmp

bootVars == <<db, disk, boot, file, writers, auditors, bootHist>>

NoRows == [w \in BootWallet |-> 0]
\* "-" stands for an empty string.
EmptyDb == [rows |-> NoRows, supply |-> 0, scaled |-> FALSE, key |-> "-",
            audit |-> {}, index |-> {}, seq |-> 0]

NoInode == 0
Inodes == 1..(Cardinality(Snapshotter) + 1)
Torn == [rows |-> NoRows, whole |-> FALSE]
NoThread == [pc |-> "idle", rows |-> NoRows, ino |-> NoInode]
NoLog == [pc |-> "idle", event |-> 0, seq |-> 0]

BootInit ==
    /\ db \in StartDbs
    /\ disk = db
    /\ boot = [at |-> "off", rows |-> {}, first |-> db, doomed |-> 0]
    /\ file = [json |-> NoInode, tmp |-> NoInode, content |-> [i \in Inodes |-> Torn]]
    /\ writers = [t \in Snapshotter |-> NoThread]
    /\ auditors = [t \in Auditor |-> NoLog]
    /\ bootHist = [faults |-> 0, pays |-> 0, logged |-> 0, cut |-> FALSE, shared |-> FALSE,
                   moved |-> FALSE]

At(from, to) == boot.at = from /\ boot' = [boot EXCEPT !.at = to]

\* sled writes its log in the background.
BackgroundFlush ==
    /\ disk # db
    /\ disk' = db
    /\ UNCHANGED <<db, boot, file, writers, auditors, bootHist>>

Holders(i) == {t \in Snapshotter : writers[t].ino = i}
FreeInode == CHOOSE i \in Inodes : i # file.json /\ Holders(i) = {}

\* Mutant: the snapshot is written in place.
InPlace == IF file.json = NoInode THEN FreeInode ELSE file.json

TmpInode == IF file.tmp = NoInode THEN FreeInode ELSE file.tmp

\* persist_snapshot_best_effort where no other thread can run.
WholeSnapshot ==
    [json |-> TmpInode, tmp |-> NoInode,
     content |-> [file.content EXCEPT ![TmpInode] = [rows |-> db.rows, whole |-> TRUE]]]

-----------------------------------------------------------------------------
(* Opening.                                                                *)

\* ensure_db_magic: the first start seals the sentinel, a wrong key is refused.
Open(key) ==
    /\ boot.at = "off"
    /\ IF db.key \in {"-", key}
       THEN /\ At("off", "opened")
            /\ db' = [db EXCEPT !.key = key]
            /\ UNCHANGED bootHist
       ELSE /\ bootHist.faults < MaxBootCrashes
            /\ bootHist' = [bootHist EXCEPT !.faults = @ + 1]
            /\ UNCHANGED <<db, boot>>
    /\ UNCHANGED <<disk, file, writers, auditors>>

HasBalanceRows == \E w \in BootWallet : db.rows[w] >= 1
HasMonetaryState == HasBalanceRows \/ db.supply > 0

\* Mutant: the recorded scale is not looked at.
MigratesAlways == HasMonetaryState

NeedsMigration == ~db.scaled /\ HasMonetaryState

MaybeMigrate ==
    /\ boot.at = "opened"
    /\ boot' = [boot EXCEPT !.at = IF NeedsMigration THEN "migrating" ELSE "migrated",
                            !.rows = IF NeedsMigration THEN BootWallet \cup {"supply"} ELSE {}]
    /\ db' = [db EXCEPT !.scaled = IF NeedsMigration THEN @ ELSE TRUE]
    /\ UNCHANGED <<disk, file, writers, auditors, bootHist>>

\* One row after the other, each a write of its own.
MigrateRow(r) ==
    /\ boot.at = "migrating" /\ r \in boot.rows
    /\ db' = IF r = "supply" THEN [db EXCEPT !.supply = @ \div Factor]
             ELSE [db EXCEPT !.rows[r] = @ \div Factor]
    /\ boot' = [boot EXCEPT !.rows = @ \ {r}]
    /\ UNCHANGED <<disk, file, writers, auditors, bootHist>>

RecordScale ==
    /\ boot.rows = {}
    /\ At("migrating", "migrated")
    /\ db' = [db EXCEPT !.scaled = TRUE]
    /\ UNCHANGED <<disk, file, writers, auditors, bootHist>>

Snapshot == file.content[file.json]
Restorable == file.json # NoInode /\ Snapshot.whole /\ ~HasBalanceRows

\* load_snapshot_if_present restores the balances, not the supply. main then
\* records the founder's wallet, with a flush.
LoadSnapshot ==
    /\ At("migrated", "loaded")
    /\ db' = IF Restorable THEN [db EXCEPT !.rows = Snapshot.rows] ELSE db
    /\ disk' = db'
    /\ UNCHANGED <<file, writers, auditors, bootHist>>

-----------------------------------------------------------------------------
(* Genesis.                                                                *)

\* Mutant: the allocation is made whenever a node starts.
GenesisAlways == TRUE

LedgerIsEmpty == db.supply = 0

StartWithSupply ==
    /\ ~LedgerIsEmpty
    /\ At("loaded", "running")
    /\ UNCHANGED <<db, disk, file, writers, auditors, bootHist>>

\* Mutant: the balances found are left in place.
ClearNothing == db

Cleared == [db EXCEPT !.rows = NoRows]

ClearForGenesis ==
    /\ LedgerIsEmpty
    /\ At("loaded", "cleared")
    /\ db' = Cleared
    /\ disk' = db'
    /\ UNCHANGED <<file, writers, auditors, bootHist>>

\* One sled transaction over the balances and the counters.
MintGenesis ==
    /\ At("cleared", "minted")
    /\ db' = [db EXCEPT !.rows = [w \in BootWallet |-> @[w] + Allocation[w]],
                        !.supply = Total(Allocation)]
    /\ UNCHANGED <<disk, file, writers, auditors, bootHist>>

\* The audit record, a flush, and the first snapshot.
GenesisFlush ==
    LET e == bootHist.logged + 1
    IN  /\ At("minted", "running")
        /\ db' = [db EXCEPT !.audit = @ \cup {e}, !.seq = @ + 1,
                            !.index = @ \cup {[seq |-> db.seq + 1, event |-> e]}]
        /\ disk' = db'
        /\ file' = WholeSnapshot
        /\ bootHist' = [bootHist EXCEPT !.logged = e]
        /\ UNCHANGED <<writers, auditors>>

-----------------------------------------------------------------------------
(* Running: money moves, snapshots and audit records are written.          *)

Running == boot.at = "running"

\* Any settlement: Settlement.tla has them all.
Pay(from, to) ==
    /\ Running /\ bootHist.pays < MaxPays
    /\ from # to /\ db.rows[from] > 0
    /\ db' = [db EXCEPT !.rows[from] = @ - 1, !.rows[to] = @ + 1]
    /\ bootHist' = [bootHist EXCEPT !.pays = @ + 1]
    /\ UNCHANGED <<disk, boot, file, writers, auditors>>

Step(t, from, to) == writers[t].pc = from /\ writers' = [writers EXCEPT ![t].pc = to]

\* build_snapshot_bytes, by the REST operation's thread or the one a block
\* of the right height starts; nothing keeps two of them apart.
BuildSnapshot(t) ==
    /\ Running
    /\ writers[t].pc = "idle"
    /\ writers' = [writers EXCEPT ![t] = [@ EXCEPT !.pc = "built", !.rows = db.rows]]
    /\ UNCHANGED <<db, disk, boot, file, auditors, bootHist>>

\* Opens the temporary file, truncated.
OpenTmp(t) ==
    LET i == TmpInode
    IN  /\ writers[t].pc = "built"
        /\ writers' = [writers EXCEPT ![t] = [@ EXCEPT !.pc = "open", !.ino = i]]
        /\ file' = [file EXCEPT !.tmp = i, !.content[i] = Torn]
        /\ bootHist' = [bootHist EXCEPT !.shared = @ \/ Holders(i) # {}]
        /\ UNCHANGED <<db, disk, boot, auditors>>

\* Over another thread's bytes, a shorter text leaves the end of the longer.
WriteTmp(t) ==
    /\ Step(t, "open", "written")
    /\ LET i == writers[t].ino
           mine == [rows |-> writers[t].rows, whole |-> TRUE]
       IN  \E c \in {mine} \cup (IF file.content[i].whole THEN {Torn} ELSE {}) :
              file' = [file EXCEPT !.content[i] = c]
    /\ UNCHANGED <<db, disk, boot, auditors, bootHist>>

\* The name moves whatever the inode holds by now; without a name it fails.
RenameTmp(t) ==
    /\ writers[t].pc = "written"
    /\ writers' = [writers EXCEPT ![t] = NoThread]
    /\ file' = IF file.tmp = NoInode THEN file ELSE [file EXCEPT !.json = file.tmp, !.tmp = NoInode]
    /\ UNCHANGED <<db, disk, boot, auditors, bootHist>>

\* audit_write: the record under its hash, then the next number, read and
\* written back outside a transaction, then the index.
AuditRecord(t) ==
    /\ Running /\ bootHist.logged < MaxEvents
    /\ auditors[t].pc = "idle"
    /\ LET e == bootHist.logged + 1
       IN  /\ auditors' = [auditors EXCEPT ![t] = [pc |-> "stored", event |-> e, seq |-> 0]]
           /\ db' = [db EXCEPT !.audit = @ \cup {e}]
           /\ bootHist' = [bootHist EXCEPT !.logged = e]
    /\ UNCHANGED <<disk, boot, file, writers>>

ReadAuditSeq(t) ==
    /\ auditors[t].pc = "stored"
    /\ auditors' = [auditors EXCEPT ![t] = [@ EXCEPT !.pc = "numbered", !.seq = db.seq + 1]]
    /\ UNCHANGED <<db, disk, boot, file, writers, bootHist>>

WriteAuditSeq(t) ==
    /\ auditors[t].pc = "numbered"
    /\ auditors' = [auditors EXCEPT ![t].pc = "counted"]
    /\ db' = [db EXCEPT !.seq = auditors[t].seq]
    /\ UNCHANGED <<disk, boot, file, writers, bootHist>>

IndexAudit(t) ==
    LET a == auditors[t]
    IN  /\ a.pc = "counted"
        /\ db' = [db EXCEPT !.index = {x \in @ : x.seq # a.seq}
                                          \cup {[seq |-> a.seq, event |-> a.event]}]
        /\ auditors' = [auditors EXCEPT ![t] = NoLog]
        /\ UNCHANGED <<disk, boot, file, writers, bootHist>>

StaleEntries == {x \in db.index : x.seq + AuditMax <= db.seq}

\* Mutant: the record goes first.
PruneRecordFirst(x) == [db EXCEPT !.audit = @ \ {x.event}]

Unindexed(x) == [db EXCEPT !.index = @ \ {x}]

\* prune_audit_events, after a block: oldest first, the index entry and then
\* its record.
PruneIndex(x) ==
    /\ Running /\ boot.doomed = 0
    /\ x \in StaleEntries
    /\ \A y \in StaleEntries : x.seq <= y.seq
    /\ db' = Unindexed(x)
    /\ boot' = [boot EXCEPT !.doomed = x.event]
    /\ UNCHANGED <<disk, file, writers, auditors, bootHist>>

PruneRecord ==
    /\ boot.doomed # 0
    /\ db' = [db EXCEPT !.audit = @ \ {boot.doomed}]
    /\ boot' = [boot EXCEPT !.doomed = 0]
    /\ UNCHANGED <<disk, file, writers, auditors, bootHist>>

-----------------------------------------------------------------------------
(* Stopping.                                                               *)

AllIdle ==
    /\ \A t \in Snapshotter : writers[t].pc = "idle"
    /\ \A t \in Auditor : auditors[t].pc = "idle"
    /\ boot.doomed = 0

\* Rows in two scales: some of a migration's writes are on disk, not its end.
HalfMigrated ==
    /\ ~disk.scaled /\ disk.supply > 0
    /\ <<disk.rows, disk.supply>> # <<boot.first.rows, boot.first.supply>>

BootCrash ==
    /\ boot.at # "off" /\ bootHist.faults < MaxBootCrashes
    /\ db' = disk
    /\ boot' = [boot EXCEPT !.at = "off", !.rows = {}, !.doomed = 0]
    /\ writers' = [t \in Snapshotter |-> NoThread]
    /\ auditors' = [t \in Auditor |-> NoLog]
    /\ bootHist' = [bootHist EXCEPT !.faults = @ + 1, !.cut = @ \/ HalfMigrated]
    /\ UNCHANGED <<disk, file>>

\* flush_and_snapshot_best_effort on SIGTERM. The operator may then move the
\* database's directory away and keep a snapshot whose path is absolute.
Shutdown(moved) ==
    /\ Running /\ AllIdle
    /\ bootHist.faults < MaxBootCrashes
    /\ db' = IF moved THEN EmptyDb ELSE db
    /\ disk' = db'
    /\ file' = WholeSnapshot
    /\ boot' = [boot EXCEPT !.at = "off"]
    /\ bootHist' = [bootHist EXCEPT !.faults = @ + 1, !.moved = @ \/ moved]
    /\ UNCHANGED <<writers, auditors>>

MoneyNext ==
    \/ \E k \in BootKey : Open(k)
    \/ MaybeMigrate \/ RecordScale \/ LoadSnapshot
    \/ \E r \in BootWallet \cup {"supply"} : MigrateRow(r)
    \/ StartWithSupply \/ ClearForGenesis \/ MintGenesis \/ GenesisFlush
    \/ \E v, w \in BootWallet : Pay(v, w)
    \/ BackgroundFlush \/ BootCrash
    \/ \E moved \in BOOLEAN : Shutdown(moved)

SnapshotNext == \E t \in Snapshotter : BuildSnapshot(t) \/ OpenTmp(t) \/ WriteTmp(t) \/ RenameTmp(t)

AuditNext ==
    \/ \E t \in Auditor : AuditRecord(t) \/ ReadAuditSeq(t) \/ WriteAuditSeq(t) \/ IndexAudit(t)
    \/ \E x \in db.index : PruneIndex(x)
    \/ PruneRecord

BootNext == MoneyNext \/ SnapshotNext \/ AuditNext

BootSpec == BootInit /\ [][BootNext]_bootVars

-----------------------------------------------------------------------------
(* Correctness.                                                            *)

\* Types of the database, the snapshot file and the threads beside them.
BootTypeOK ==
    /\ db.rows \in [BootWallet -> Nat] /\ disk.rows \in [BootWallet -> Nat]
    /\ db.supply \in Nat /\ db.seq \in Nat
    /\ file.json \in Inodes \cup {NoInode} /\ file.tmp \in Inodes \cup {NoInode}
    /\ boot.rows \subseteq BootWallet \cup {"supply"}
    /\ \A t \in Snapshotter : writers[t].pc \in {"idle", "built", "open", "written"}
    /\ \A t \in Auditor : auditors[t].pc \in {"idle", "stored", "numbered", "counted"}

Inherited == IF boot.first.scaled THEN boot.first.supply ELSE boot.first.supply \div Factor
SupplyDue == IF bootHist.moved \/ boot.first.supply = 0 THEN Total(Allocation) ELSE Inherited

\* A node that serves has the supply of one genesis, or of its legacy database
\* scaled once, and wallets that hold it but for what the division of each row
\* rounds away: whatever crash, restart, wrong key or restore came before, if
\* no crash cut a migration short.
MoneyBacked ==
    Running /\ ~bootHist.cut =>
        /\ db.supply = SupplyDue
        /\ Total(db.rows) <= db.supply
        /\ db.supply < Total(db.rows) + Cardinality(BootWallet)

\* The snapshot under its final name is a whole one ("crash-safe external
\* snapshot"), across crashes, as long as no two threads had the temporary
\* file open at once.
SnapshotWhole == file.json # NoInode /\ ~bootHist.shared => Snapshot.whole

\* The index never names a record that is gone: records are stored before and
\* removed after their index entries, also when a crash comes between.
IndexedIsStored == \A d \in {db, disk} : \A x \in d.index : x.event \in d.audit

\* What a node may rely on once it runs, and what it leaves for the next start.
BootSound == BootTypeOK /\ MoneyBacked /\ SnapshotWhole /\ IndexedIsStored

\* These do not hold. A crash in a migration divides rows twice at the next
\* start; restored balances are cleared by the genesis that follows, since the
\* supply is not restored; two logging threads may take one number.
ScaledOnce == Running => db.supply = SupplyDue /\ db.supply < Total(db.rows) + Cardinality(BootWallet)
RestoredIsKept ==
    [][boot.at = "loaded" /\ HasBalanceRows => db'.rows = db.rows]_bootVars
LoggedIsIndexed == AllIdle /\ bootHist.faults = 0 => db.audit = {x.event : x \in db.index}
===============================================================================
