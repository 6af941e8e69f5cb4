------------------------------- MODULE Mempool -------------------------------
(***************************************************************************)
(* The life of a transaction in one TET node: admitted over REST or from   *)
(* a peer, kept in the mempool and in its durable copy, re-announced by    *)
(* the rebroadcast sweep, taken into a block by a miner, settled by a      *)
(* remote block, restored after a crash (tet-core/src/rest/state.rs,       *)
(* consensus.rs, p2p.rs, ledger.rs, main.rs).                              *)
(*                                                                         *)
(* Everything that runs between two acquisitions of the mempool lock, or   *)
(* between two writes another task can observe, is one action.  The REST   *)
(* handlers, the admission worker, the apply worker, the sweep, the        *)
(* auto-miner and the callers of /ledger/mine interleave freely.           *)
(*                                                                         *)
(* A transaction is a transfer out of a wallet; what it pays in is not     *)
(* spent again here.                                                       *)
(***************************************************************************)
EXTENDS Integers, Sequences, FiniteSets, SequencesExt, FiniteSetsExt

CONSTANTS
    Txs,            \* transactions, identified by their hash
    Wallets,        \* senders
    From,           \* sender of a transaction
    Amount,         \* what it takes out of the sender's balance
    Fee,            \* its fee score
    Size,           \* its encoded size
    Balance,        \* spendable balance of a wallet at the start
    Inadmissible,   \* transactions every block refuses
    Poison,         \* transactions the preview accepts and the apply refuses
    MaxTxs,         \* TET_MEMPOOL_MAX_TXS
    MaxBytes,       \* TET_MEMPOOL_MAX_BYTES
    MaxAttempts,    \* TET_TX_REBROADCAST_MAX
    SelectMax,      \* SELECT_ONE_BY_ONE_MAX
    AutoMiner,      \* the auto-miner
    RestMiners,     \* concurrent calls of POST /ledger/mine
    Rotates,        \* another validator leads every second height
    Resubmits,      \* clients submit a transaction again
    NoTx,           \* the admission worker is idle
    NoSweep,        \* no rebroadcast sweep in progress
    MaxSubmits,     \* bound: REST submissions
    MaxDeliveries,  \* bound: transactions delivered by peers
    MaxSweeps,      \* bound: rebroadcast sweeps
    MaxFaults,      \* bound: blocks that fail for reasons of the node
    MaxCrashes      \* bound: crashes

PRE_APPLY_REQUEUE_MAX == 3
Miners == {AutoMiner} \cup RestMiners
Untracked == -1

ASSUME MempoolAssumption ==
    /\ IsFiniteSet(Txs) /\ IsFiniteSet(RestMiners)
    /\ Inadmissible \subseteq Txs /\ Poison \subseteq Txs
    /\ From \in [Txs -> Wallets]
    /\ Amount \in [Txs -> Nat] /\ Fee \in [Txs -> Nat] /\ Size \in [Txs -> Nat]
    /\ Balance \in [Wallets -> Nat]
    /\ MaxTxs \in Nat \ {0} /\ MaxBytes \in Nat \ {0}
    /\ MaxAttempts \in Nat \ {0} /\ SelectMax \in Nat \ {0}
    /\ AutoMiner \notin RestMiners /\ Rotates \in BOOLEAN /\ Resubmits \in BOOLEAN
    /\ NoTx \notin Txs
    /\ MaxSubmits \in Nat /\ MaxDeliveries \in Nat /\ MaxSweeps \in Nat
    /\ MaxFaults \in Nat /\ MaxCrashes \in Nat

VARIABLES
    mempool,    \* RestState.mempool
    durable,    \* the mempool_pending_v1 tree
    tracker,    \* RestState.pending_rebroadcast: attempts, or Untracked
    included,   \* canonical blocks that carry a transaction
    leads,      \* this node leads the next height
    announcing, \* REST submissions admitted but not yet announced
    arriving,   \* a peer's transaction past the duplicate check
    miner,      \* where each miner is, and the transactions it holds
    failures,   \* BLOCK_FAILURES
    remote,     \* where the apply worker is with a remote block
    sweep,      \* the sweep's snapshot of the mempool
    acked,      \* history: transactions a client holds a 202 for
    local,      \* history: transactions admitted over REST
    fate,       \* history: why the node gave a transaction up
    budget      \* what is left of the bounds

vars == <<mempool, durable, tracker, included, leads, announcing, arriving, miner,
          failures, remote, sweep, acked, local, fate, budget>>

history == <<acked, local, fate>>

Spend(what) == budget[what] > 0 /\ budget' = [budget EXCEPT ![what] = @ - 1]

-----------------------------------------------------------------------------
(* The ledger, as far as transactions see it.                              *)

IsTxApplied(t) == included[t] > 0

Spendable(w) ==
    Balance[w] - SumFunctionOnSet(Amount, {t \in Txs : From[t] = w /\ IsTxApplied(t)})

\* What the transfers of w in sequence s take out of its balance.
Outgoing(s, w) ==
    SumFunctionOnSet([i \in DOMAIN s |-> Amount[s[i]]], {i \in DOMAIN s : From[s[i]] = w})

\* block_txs_ok: the preview accepts the block.  It charges every
\* transaction, settled or not.
BlockTxsOk(s) == \A w \in Wallets : Outgoing(s, w) <= Spendable(w)

-----------------------------------------------------------------------------
(* Admission: enqueue_without_broadcast.                                   *)

TxAffordable(t) == Outgoing(mempool, From[t]) + Amount[t] <= Spendable(From[t])

Bytes(s) == SumFunction([i \in DOMAIN s |-> Size[s[i]]])

Fits(s, t) == Len(s) < MaxTxs /\ Bytes(s) + Size[t] <= MaxBytes

\* What s holds at the positions K, in its order.
Kept(s, K) ==
    LET rank(i) == Cardinality({j \in K : j <= i})
    IN  [n \in 1..Cardinality(K) |-> s[CHOOSE i \in K : rank(i) = n]]

\* s without the positions D.
Without(s, D) == Kept(s, DOMAIN s \ D)

\* s without the transactions T.
WithoutTxs(s, T) == Kept(s, {i \in DOMAIN s : s[i] \notin T})

\* The eviction loop takes the lowest fee first, the older first among
\* equals, while t does not fit and the victim pays less than t.
Victims(s, t) ==
    LET before(i) == {j \in DOMAIN s : \/ Fee[s[j]] < Fee[s[i]]
                                       \/ Fee[s[j]] = Fee[s[i]] /\ j < i}
    IN  {i \in DOMAIN s : Fee[s[i]] < Fee[t] /\ ~Fits(Without(s, before(i)), t)}

\* The mempool after an attempt to admit t, and whether t was taken.  What
\* was evicted stays evicted when the loop ends in Full.
Enqueue(t) ==
    LET rest == Without(mempool, Victims(mempool, t))
    IN  IF t \in Inadmissible \/ Size[t] > MaxBytes \/ ~TxAffordable(t)
        THEN [ok |-> FALSE, mempool |-> mempool]
        ELSE [ok |-> Fits(rest, t), mempool |-> IF Fits(rest, t) THEN Append(rest, t) ELSE rest]

\* Both admission paths.
Admit(t) ==
    LET r == Enqueue(t)
        gone == ToSet(mempool) \ ToSet(r.mempool)
    IN  /\ mempool' = r.mempool
        /\ fate' = [u \in Txs |-> IF u \in gone THEN "evicted"
                                  ELSE IF r.ok /\ u = t THEN "none" ELSE fate[u]]

\* submit_local_tx up to the release of the mempool lock.
SubmitLocalTx(t) ==
    /\ Spend("submits") /\ (t \in local => Resubmits)
    /\ Admit(t)
    /\ announcing' = IF Enqueue(t).ok THEN announcing \cup {t} ELSE announcing
    /\ local' = IF Enqueue(t).ok THEN local \cup {t} ELSE local
    /\ UNCHANGED <<durable, tracker, included, leads, arriving, miner, failures, remote,
                   sweep, acked>>

\* broadcast_mempool_tx: the durable copy, the tracker, the first publish;
\* then the client gets its 202.
BroadcastMempoolTx(t) ==
    /\ t \in announcing
    /\ announcing' = announcing \ {t}
    /\ durable' = durable \cup {t}
    /\ tracker' = [tracker EXCEPT ![t] = 0]
    /\ acked' = acked \cup {t}
    /\ UNCHANGED <<mempool, included, leads, arriving, miner, failures, remote, sweep,
                   local, fate, budget>>

\* handle_tx_broadcast up to its second acquisition of the lock.
HandleTxBroadcast(t) ==
    /\ arriving = NoTx /\ Spend("deliveries")
    /\ ~IsTxApplied(t) /\ t \notin ToSet(mempool)
    /\ arriving' = t
    /\ UNCHANGED <<mempool, durable, tracker, included, leads, announcing, miner, failures,
                   remote, sweep, history>>

EnqueueWithoutBroadcast ==
    /\ arriving # NoTx
    /\ arriving' = NoTx
    /\ Admit(arriving)
    /\ UNCHANGED <<durable, tracker, included, leads, announcing, miner, failures, remote,
                   sweep, acked, local, budget>>

-----------------------------------------------------------------------------
(* The rebroadcast sweep.  The snapshot and the tracker have separate      *)
(* locks.                                                                  *)

SweepSnapshot ==
    /\ sweep = NoSweep /\ Spend("sweeps")
    /\ sweep' = mempool
    /\ UNCHANGED <<mempool, durable, tracker, included, leads, announcing, arriving, miner,
                   failures, remote, history>>

Retain(t) == t \in ToSet(sweep) /\ tracker[t] < MaxAttempts

\* Every copy of a retained transaction is published and counted.
SweepTracker ==
    /\ sweep # NoSweep
    /\ sweep' = NoSweep
    /\ tracker' = [t \in Txs |->
          IF tracker[t] = Untracked \/ ~Retain(t) THEN Untracked
          ELSE tracker[t] + Cardinality({i \in DOMAIN sweep : sweep[i] = t})]
    /\ UNCHANGED <<mempool, durable, included, leads, announcing, arriving, miner,
                   failures, remote, acked, local, fate, budget>>

-----------------------------------------------------------------------------
(* Mining: mine_pending_block_as.                                          *)

\* The auto-miner's leader test; /ledger/mine has none.
Elect(m) ==
    /\ miner[m].step = "idle"
    /\ m = AutoMiner => leads
    /\ miner' = [miner EXCEPT ![m].step = "elected"]
    /\ UNCHANGED <<mempool, durable, tracker, included, leads, announcing, arriving,
                   failures, remote, sweep, history, budget>>

\* The whole mempool is taken under the lock.
MineTake(m) ==
    /\ miner[m].step = "elected"
    /\ miner' = [miner EXCEPT ![m] = [step |-> "taken", txs |-> mempool]]
    /\ mempool' = <<>>
    /\ UNCHANGED <<durable, tracker, included, leads, announcing, arriving, failures,
                   remote, sweep, history, budget>>

\* The durable copies go before the block is made.
MineForget(m) ==
    /\ miner[m].step = "taken"
    /\ durable' = durable \ ToSet(miner[m].txs)
    /\ miner' = [miner EXCEPT ![m].step = "forgotten"]
    /\ UNCHANGED <<mempool, tracker, included, leads, announcing, arriving, failures,
                   remote, sweep, history, budget>>

\* Mutant: settled transactions are not dropped.
FreshKeepsSettled(s) == Kept(s, {i \in DOMAIN s : \A j \in 1..(i - 1) : s[j] # s[i]})

\* Duplicates and settled transactions are dropped.
Fresh(s) ==
    Kept(s, {i \in DOMAIN s : ~IsTxApplied(s[i]) /\ \A j \in 1..(i - 1) : s[j] # s[i]})

MineFilter(m) ==
    /\ miner[m].step = "forgotten"
    /\ miner' = [miner EXCEPT ![m] = [step |-> "filtered", txs |-> Fresh(@.txs)]]
    /\ UNCHANGED <<mempool, durable, tracker, included, leads, announcing, arriving,
                   failures, remote, sweep, history, budget>>

\* Positions of s, one by one: each is kept that the preview accepts on top of
\* those kept before it.
OneByOne(s, n) ==
    CHOOSE G \in SUBSET (1..n) :
        \A i \in 1..n : i \in G <=> BlockTxsOk(Kept(s, {j \in G : j < i} \cup {i}))

\* select_block_txs: the transactions for this block.
SelectBlockTxs(s) ==
    IF BlockTxsOk(s) THEN s
    ELSE Kept(s, OneByOne(s, IF Len(s) < SelectMax THEN Len(s) ELSE SelectMax))

SelectLater(s) ==
    IF BlockTxsOk(s) THEN <<>> ELSE SubSeq(s, SelectMax + 1, Len(s))

\* After a failed block, one transaction at a time.
Isolated(s) == IF failures > 0 /\ Len(s) > 1 THEN <<s[1]>> ELSE s

\* Mutant: what waits for a later block is put back without its durable copy.
RequeueVolatile(s) ==
    LET front == WithoutTxs(s, ToSet(mempool))
    IN  mempool' = front \o mempool /\ UNCHANGED durable

\* Mutant: what arrived meanwhile displaces what is put back.
RequeueIfEmpty(s) ==
    /\ mempool' = IF mempool = <<>> THEN s ELSE mempool
    /\ durable' = durable \cup ToSet(s)

\* requeue_txs_front; s has no duplicates.
RequeueTxsFront(s) ==
    LET front == WithoutTxs(s, ToSet(mempool))
    IN  mempool' = front \o mempool /\ durable' = durable \cup ToSet(front)

MineSelect(m) ==
    LET s == miner[m].txs
        selected == SelectBlockTxs(s)
        block == Isolated(selected)
        later == SubSeq(selected, Len(block) + 1, Len(selected)) \o SelectLater(s)
    IN  /\ miner[m].step = "filtered"
        /\ miner' = [miner EXCEPT ![m] = [step |-> "selected", txs |-> block]]
        /\ RequeueTxsFront(later)
        /\ fate' = [t \in Txs |-> IF t \in ToSet(s) \ (ToSet(block) \cup ToSet(later))
                                  THEN "refused" ELSE fate[t]]
        /\ UNCHANGED <<tracker, included, leads, announcing, arriving, failures, remote,
                       sweep, acked, local, budget>>

Idle(m) == miner' = [miner EXCEPT ![m] = [step |-> "idle", txs |-> <<>>]]

NextLeader == leads' = IF Rotates THEN ~leads ELSE leads

\* The block is made.
BuildOk(m) ==
    LET block == miner[m].txs
    IN  /\ miner[m].step = "selected"
        /\ BlockTxsOk(block) /\ ToSet(block) \cap Poison = {}
        /\ included' = [t \in Txs |-> included[t] + (IF t \in ToSet(block) THEN 1 ELSE 0)]
        /\ failures' = 0
        /\ NextLeader /\ Idle(m)
        /\ UNCHANGED <<mempool, durable, tracker, announcing, arriving, remote, sweep,
                       acked, local, fate, budget>>

\* Mutant: a failed batch is dropped like a failed transaction.
AfterFailureDropsBatch(n, len) == len <= 1 /\ n < PRE_APPLY_REQUEUE_MAX

\* after_failure = Requeue, for a failure that wrote nothing.
AfterFailureRequeues(n, len) == len > 1 \/ n < PRE_APPLY_REQUEUE_MAX

\* Mutant: the counter is set, not incremented.
CountFailureOnce(n) == 1

CountFailure(n) == n + 1

\* NothingWritten: the preview or the apply refused the block, or the node
\* failed (no parent record, no undo record).
BuildFails(m) ==
    LET block == miner[m].txs
        n == CountFailure(failures)
        requeue == AfterFailureRequeues(n, Len(block))
    IN  /\ miner[m].step = "selected"
        /\ IF BlockTxsOk(block) /\ ToSet(block) \cap Poison = {}
           THEN Spend("faults") ELSE UNCHANGED budget
        /\ failures' = IF requeue THEN n ELSE 0
        /\ IF requeue THEN RequeueTxsFront(block) ELSE UNCHANGED <<mempool, durable>>
        /\ fate' = [t \in Txs |-> IF ~requeue /\ t \in ToSet(block) THEN "failed" ELSE fate[t]]
        /\ Idle(m)
        /\ UNCHANGED <<tracker, included, leads, announcing, arriving, remote, sweep,
                       acked, local>>

\* MaybeWritten: a storage error in the apply's batches, after which the
\* block may or may not count as applied.
BuildMaybeWritten(m) ==
    LET block == miner[m].txs
    IN  /\ miner[m].step = "selected"
        /\ BlockTxsOk(block) /\ ToSet(block) \cap Poison = {}
        /\ Spend("faults")
        /\ failures' = 0
        /\ fate' = [t \in Txs |-> IF t \in ToSet(block) THEN "storage" ELSE fate[t]]
        /\ \/ UNCHANGED <<included, leads>>
           \/ /\ included' = [t \in Txs |-> included[t] + (IF t \in ToSet(block) THEN 1 ELSE 0)]
              /\ NextLeader
        /\ Idle(m)
        /\ UNCHANGED <<mempool, durable, tracker, announcing, arriving, remote, sweep,
                       acked, local>>

-----------------------------------------------------------------------------
(* A block of another validator, applied by the apply worker.              *)

\* apply_remote_block_from_gossip_sync; the producer of the block is honest.
RemoteApply(B) ==
    /\ Rotates /\ ~leads /\ remote.step = "idle"
    /\ B \cap (Poison \cup Inadmissible) = {}
    /\ \A t \in B : ~IsTxApplied(t) /\ Amount[t] <= Spendable(From[t])
    /\ included' = [t \in Txs |-> included[t] + (IF t \in B THEN 1 ELSE 0)]
    /\ leads' = TRUE
    /\ remote' = [step |-> "applied", txs |-> B]
    /\ UNCHANGED <<mempool, durable, tracker, announcing, arriving, miner, failures, sweep,
                   history, budget>>

RemoteForget ==
    /\ remote.step = "applied"
    /\ durable' = durable \ remote.txs
    /\ remote' = [remote EXCEPT !.step = "forgotten"]
    /\ UNCHANGED <<mempool, tracker, included, leads, announcing, arriving, miner,
                   failures, sweep, history, budget>>

RemoteEvict ==
    /\ remote.step = "forgotten"
    /\ mempool' = WithoutTxs(mempool, remote.txs)
    /\ remote' = [step |-> "idle", txs |-> {}]
    /\ UNCHANGED <<durable, tracker, included, leads, announcing, arriving, miner,
                   failures, sweep, history, budget>>

-----------------------------------------------------------------------------
(* A crash, and the start that follows: mempool_restore and main.rs.       *)

Restored == SetToSeq(durable)

CrashRestart ==
    /\ Spend("crashes")
    /\ mempool' = Restored
    /\ tracker' = [t \in Txs |-> IF t \in durable THEN 0 ELSE Untracked]
    /\ announcing' = {} /\ arriving' = NoTx
    /\ miner' = [m \in Miners |-> [step |-> "idle", txs |-> <<>>]]
    /\ failures' = 0
    /\ remote' = [step |-> "idle", txs |-> {}]
    /\ sweep' = NoSweep
    /\ UNCHANGED <<durable, included, leads, acked, local, fate>>

-----------------------------------------------------------------------------

Init ==
    /\ mempool = <<>> /\ durable = {}
    /\ tracker = [t \in Txs |-> Untracked]
    /\ included = [t \in Txs |-> 0]
    /\ leads = TRUE
    /\ announcing = {} /\ arriving = NoTx
    /\ miner = [m \in Miners |-> [step |-> "idle", txs |-> <<>>]]
    /\ failures = 0
    /\ remote = [step |-> "idle", txs |-> {}]
    /\ sweep = NoSweep
    /\ acked = {} /\ local = {}
    /\ fate = [t \in Txs |-> "none"]
    /\ budget = [submits |-> MaxSubmits, deliveries |-> MaxDeliveries,
                 sweeps |-> MaxSweeps, faults |-> MaxFaults, crashes |-> MaxCrashes]

Build(m) == BuildOk(m) \/ BuildFails(m) \/ BuildMaybeWritten(m)

Mine(m) ==
    \/ Elect(m) \/ MineTake(m) \/ MineForget(m) \/ MineFilter(m) \/ MineSelect(m) \/ Build(m)

Next ==
    \/ \E t \in Txs : SubmitLocalTx(t) \/ BroadcastMempoolTx(t) \/ HandleTxBroadcast(t)
    \/ EnqueueWithoutBroadcast
    \/ SweepSnapshot \/ SweepTracker
    \/ \E m \in Miners : Mine(m)
    \/ \E B \in {{}} \cup {{t} : t \in Txs} : RemoteApply(B)
    \/ RemoteForget \/ RemoteEvict
    \/ CrashRestart

Spec == Init /\ [][Next]_vars

\* Every task of the runtime is scheduled; the other validator makes its
\* blocks, with or without transactions.
Fairness ==
    /\ \A t \in Txs : WF_vars(BroadcastMempoolTx(t))
    /\ WF_vars(EnqueueWithoutBroadcast)
    /\ WF_vars(Mine(AutoMiner))
    /\ WF_vars(RemoteApply({})) /\ WF_vars(RemoteForget) /\ WF_vars(RemoteEvict)

FairSpec == Spec /\ Fairness

-----------------------------------------------------------------------------
(* Properties.                                                             *)

Lists == [step : {"idle", "elected", "taken", "forgotten", "filtered", "selected"},
          txs : Seq(Txs)]

\* How often one transaction can be in the mempool at once.
MaxCopies == (IF Resubmits THEN MaxSubmits ELSE 1) + MaxDeliveries

\* Types; the rebroadcast attempts stay under their ceiling, give or take
\* the copies of one transaction a sweep counts.
TypeOK ==
    /\ mempool \in Seq(Txs) /\ durable \subseteq Txs
    /\ tracker \in [Txs -> Untracked..(MaxAttempts - 1 + MaxCopies)]
    /\ included \in [Txs -> Nat] /\ leads \in BOOLEAN
    /\ announcing \subseteq Txs /\ arriving \in Txs \cup {NoTx}
    /\ miner \in [Miners -> Lists] /\ failures \in Nat
    /\ remote \in [step : {"idle", "applied", "forgotten"}, txs : SUBSET Txs]
    /\ sweep = NoSweep \/ sweep \in Seq(Txs)
    /\ acked \subseteq local /\ local \subseteq Txs
    /\ fate \in [Txs -> {"none", "evicted", "refused", "failed", "storage"}]

Held(t) == \E m \in Miners : t \in ToSet(miner[m].txs)

\* "acknowledged and forgotten" never happens (state.rs, main.rs): a
\* transaction with a 202 is settled, was given up for a reason the node
\* states, or is still in the mempool or a miner's hands, through every
\* interleaving of eviction, selection, isolation, requeueing and remote
\* blocks.
AckedAccounted ==
    \A t \in acked : \/ IsTxApplied(t) \/ fate[t] # "none"
                     \/ t \in ToSet(mempool) \/ Held(t)

\* No transaction is carried by two canonical blocks, which is what makes
\* "the previewed state_root equal the post-apply state_root"
\* (consensus.rs, mine_pending_block_as).
IncludedOnce == \A t \in Txs : included[t] <= 1

\* "One transaction a block would refuse must not cost everyone else
\* theirs" (consensus.rs): while the node itself has not failed, only the
\* transaction that breaks a block is dropped for failing, whatever it was
\* batched with and however the mempool was reordered meanwhile.
OnlyPoisonFails ==
    budget.faults = MaxFaults => \A t \in Txs : fate[t] = "failed" => t \in Poison

\* A transaction that waits in the mempool with a 202 has its durable copy,
\* so a crash now would restore it, or is settled, while no peer has gossiped
\* it here too: what a broadcast admits again after a failed block has no such
\* copy.
WaitingIsDurable ==
    budget.deliveries = MaxDeliveries =>
        \A t \in acked \cap ToSet(mempool) : t \in durable \/ IsTxApplied(t)

\* The types, and what a restart relies on (mempool_persist, mempool_restore).
DurableSound == TypeOK /\ WaitingIsDurable

\* A producer settles every transaction it acknowledged or gives it up for a
\* stated reason: no backlog, failed block or poisonous neighbour holds it
\* back for ever.
AckedSettles ==
    \A t \in Txs : t \in acked ~> IsTxApplied(t) \/ fate[t] # "none"
=============================================================================
