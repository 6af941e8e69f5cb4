------------------------------ MODULE ForkChoice ------------------------------
(***************************************************************************)
(* One node's chain store and the tasks that write it: the apply worker    *)
(* (remote blocks, same-height forks, backfilled-branch reorgs), the local *)
(* miner, the block-plane loop (orphans and backfill) and the undo pruner  *)
(* (tet-core/src/consensus.rs, ledger.rs, p2p.rs, apply_worker.rs).        *)
(*                                                                         *)
(* A block id commits to parent, producer and post-state, so the blocks    *)
(* there are form a constant tree.  The balances tree is named by the      *)
(* block whose replay from genesis produces it, or is Junk when it is the  *)
(* result of no chain: a state root matches exactly when the names do.     *)
(* Each sled write another task, or a crash, can observe is one action.    *)
(***************************************************************************)
EXTENDS Integers, Sequences, FiniteSets, FiniteSetsExt, SequencesExt

CONSTANTS
    Blocks,         \* block ids
    Genesis,        \* the implicit parent of height 1
    None,           \* an absent key
    Junk,           \* balances no chain of blocks produces
    Parent,         \* parent_block_id
    HeightOf,       \* block height; 0 for Genesis
    Chain,          \* a block and its ancestors, Genesis excluded
    Validators,     \* TET_VALIDATOR_IDS
    Producer,       \* producer_id of a block
    LeaderOf,       \* leader of a height, given the CAAC weights
    BadRoots,       \* blocks whose state_root is not that of their replay
    BadClaims,      \* blocks whose zk claims no longer hold when they are replayed
    Gossiped,       \* blocks peers gossip
    Served,         \* blocks peers serve by id
    Fetched,        \* blocks a catch-up range brings
    Mineable,       \* blocks this node can build
    Weights,        \* CAAC weights a worker record may give
    QueueCap,       \* TET_APPLY_QUEUE_CAP less the slots reserved
    MaxBackfillDepth,
    PruneDepth,     \* TET_PRUNE_DEPTH
    PruneEvery,     \* TET_PRUNE_EVERY_BLOCKS
    MaxArrivals,    \* bound: blocks arriving from peers
    MaxCaac,        \* bound: CAAC challenges completed
    MaxLosses,      \* bound: requests lost and orphans expired
    MaxCrashes      \* bound: crashes

Heights == {HeightOf[b] : b \in Blocks}
Tasks == {"worker", "miner"}
States == Blocks \cup {Genesis, Junk}

ASSUME ForkChoiceAssumption ==
    /\ IsFiniteSet(Blocks) /\ Genesis \notin Blocks /\ None \notin Blocks /\ Junk \notin Blocks
    /\ Genesis # None /\ Genesis # Junk /\ None # Junk
    /\ Parent \in [Blocks -> Blocks \cup {Genesis}]
    /\ HeightOf \in [Blocks \cup {Genesis} -> Nat] /\ HeightOf[Genesis] = 0
    /\ \A b \in Blocks : HeightOf[b] = HeightOf[Parent[b]] + 1
    /\ Chain \in [Blocks -> SUBSET Blocks]
    /\ \A b \in Blocks : Chain[b] = {b} \cup (IF Parent[b] = Genesis THEN {} ELSE Chain[Parent[b]])
    /\ Producer \in [Blocks -> Validators]
    /\ LeaderOf \in [Heights -> [[Validators -> Weights] -> Validators]]
    /\ BadRoots \subseteq Blocks /\ BadClaims \subseteq Blocks /\ Gossiped \subseteq Blocks /\ Served \subseteq Blocks
    /\ Fetched \subseteq Blocks /\ Mineable \subseteq Blocks
    /\ Weights \subseteq Nat \ {0} /\ Weights # {}
    /\ QueueCap \in Nat \ {0} /\ MaxBackfillDepth \in Nat
    /\ PruneDepth \in Nat /\ PruneEvery \in Nat \ {0}

VARIABLES
    state,      \* balances tree, named by the block it is the replay of
    height,     \* META_LEDGER_BLOCK_HEIGHT
    summary,    \* blocks tree: height -> block id
    rows,       \* blocks_by_id: known, canonical flag, cumulative weight
    canon,      \* canonical_by_height
    tip,        \* chain_tip
    undo,       \* block_undo
    caac,       \* CAAC weight of each validator's worker record
    queue,      \* jobs of the apply worker
    job,        \* what the apply worker and the miner are in the middle of
    orphans,    \* OrphanBuffer
    requests,   \* pending_backfill
    barred,     \* the serving peer is in blacklisted_peers
    prunes,     \* heights of scheduled history prunes
    arrivals, challenges, losses, crashes   \* bounds

trees == <<state, height, summary, rows, canon, tip, undo>>
loop == <<orphans, requests, barred>>
history == <<arrivals, challenges, losses, crashes>>
vars == <<trees, caac, queue, job, loop, prunes, history>>

NoRow == [known |-> FALSE, canonical |-> FALSE, weight |-> 0]
NoTip == [block |-> None, weight |-> 0]
NoUndo == [kept |-> FALSE, state |-> Genesis, height |-> 0, summary |-> None,
           canon |-> None, tip |-> NoTip]

\* Steps of a task: idle; the writes of an apply; fork choice, unwind, replay.
Applying == {"balances", "meta", "summary", "row", "canon", "tip"}
Reorging == {"choose", "unwind", "u_blocks", "u_canon", "u_tip", "u_meta",
             "u_balances", "u_flag", "replay"}

\* block: applied or unwound now; base: the state its root was previewed on;
\* same: apply returned the root the block declares; target, ancestor, old,
\* branch: reorg_to_branch's locals; undo: the record apply_block_undo read,
\* once, before its first write; tips: candidates still to try.
IdleJob == [pc |-> "idle", mode |-> "none", block |-> None, base |-> None,
            same |-> TRUE, weight |-> 0, target |-> None, ancestor |-> Genesis,
            old |-> 0, branch |-> [b \in Blocks |-> 0], undo |-> NoUndo, tips |-> <<>>,
            backfill |-> FALSE]

BlockJob(b) == [kind |-> "block", block |-> b, tips |-> <<>>]
ReorgJob(tips) == [kind |-> "reorg", block |-> None, tips |-> tips]

--------------------------------------------------------------------------------
(* Reading the chain store *)

\* leader_for_height_with_mode: hash mode ignores the weights.
Leads(b) == LeaderOf[HeightOf[b]][caac] = Producer[b]

Known(b) == b # Genesis => rows[b].known

\* parent_block_id_for_height(height + 1); None is "missing canonical parent".
ExpectedParent ==
    IF height = 0 THEN Genesis
    ELSE IF height \in Heights /\ canon[height] # None THEN canon[height]
    ELSE IF tip.block # None /\ HeightOf[tip.block] = height THEN tip.block
    ELSE None

\* cumulative_weight_for_block: an unknown parent counts for nothing.
CumulativeWeight(b) ==
    (IF Parent[b] # Genesis THEN rows[Parent[b]].weight ELSE 0) + caac[Producer[b]]

\* A block's ancestors as far as the recorded rows lead, the first id without
\* a row included.
AncestorIds(b) ==
    {a \in Chain[b] : \A c \in Chain[b] : HeightOf[c] > HeightOf[a] => rows[c].known}

\* Genesis also when the walk from new ends at a block that is not recorded.
CommonAncestor(new) ==
    LET both == AncestorIds(new) \cap AncestorIds(tip.block)
    IN  IF both = {} THEN Genesis
        ELSE CHOOSE a \in both : \A c \in both : HeightOf[c] <= HeightOf[a]

Branch(ancestor, new) == {b \in Chain[new] : HeightOf[b] > HeightOf[ancestor]}

--------------------------------------------------------------------------------
(* Writes *)

RecordCandidate(b) ==
    rows' = [rows EXCEPT ![b] = [known |-> TRUE, canonical |-> FALSE,
                                 weight |-> CumulativeWeight(b)]]

\* Mutant: the undo record holds the index entry as it will be afterwards.
StoreUndoNewIndex(b) ==
    undo' = [undo EXCEPT ![b] = [kept |-> TRUE, state |-> state, height |-> height,
                 summary |-> summary[HeightOf[b]], canon |-> b, tip |-> tip]]

\* prepare_block_undo and store_block_undo
StoreUndo(b) ==
    undo' = [undo EXCEPT ![b] = [kept |-> TRUE, state |-> state, height |-> height,
                 summary |-> summary[HeightOf[b]], canon |-> canon[HeightOf[b]],
                 tip |-> tip]]

SetJob(t, j) == job' = [job EXCEPT ![t] = j]
Goto(t, pc) == job' = [job EXCEPT ![t].pc = pc]
TipJob(tips) ==
    [IdleJob EXCEPT !.pc = "reweigh", !.backfill = TRUE, !.target = Head(tips), !.tips = Tail(tips)]
\* Finished or failed: the worker goes on with the job's next tip, if any.
Done(t) == SetJob(t, IF job[t].tips = <<>> THEN IdleJob ELSE TipJob(job[t].tips))

--------------------------------------------------------------------------------
(* apply_consensus_block_batch and the records after it *)

ApplyBalances(t) ==
    LET b == job[t].block
        fits == state = Parent[b] /\ b \notin BadRoots
    IN  /\ job[t].pc = "balances"
        /\ state' = IF fits THEN b ELSE Junk
        /\ SetJob(t, [job[t] EXCEPT !.pc = "meta",
                         !.same = IF job[t].mode = "mine" THEN state = job[t].base ELSE fits])
        /\ UNCHANGED <<height, summary, rows, canon, tip, undo, caac, queue, loop, prunes, history>>

\* The height; then the returned root is compared, except by the miner.
ApplyMeta(t) ==
    /\ job[t].pc = "meta"
    /\ height' = HeightOf[job[t].block]
    /\ IF job[t].mode = "mine" \/ job[t].same
       THEN Goto(t, "summary") /\ UNCHANGED barred
       ELSE Done(t) /\ barred' = (barred \/ job[t].backfill)
    /\ UNCHANGED <<state, summary, rows, canon, tip, undo, caac, queue, orphans, requests, prunes, history>>

RecordSummary(t) ==
    /\ job[t].pc = "summary"
    /\ summary' = [summary EXCEPT ![HeightOf[job[t].block]] = job[t].block]
    /\ Goto(t, "row")
    /\ UNCHANGED <<state, height, rows, canon, tip, undo, caac, queue, loop, prunes, history>>

\* A replayed block keeps the weight it was chosen with.
RecordRow(t) ==
    LET b == job[t].block
        w == IF job[t].mode = "reorg" THEN job[t].branch[b] ELSE CumulativeWeight(b)
    IN  /\ job[t].pc = "row"
        /\ rows' = [rows EXCEPT ![b] = [known |-> TRUE, canonical |-> TRUE, weight |-> w]]
        /\ SetJob(t, [job[t] EXCEPT !.pc = "canon", !.weight = w])
        /\ UNCHANGED <<state, height, summary, canon, tip, undo, caac, queue, loop, prunes, history>>

RecordCanonical(t) ==
    /\ job[t].pc = "canon"
    /\ canon' = [canon EXCEPT ![HeightOf[job[t].block]] = job[t].block]
    /\ Goto(t, "tip")
    /\ UNCHANGED <<state, height, summary, rows, tip, undo, caac, queue, loop, prunes, history>>

\* Mutant: the miner's tip write fails and nobody notices.
RecordTipIfRemote(t) ==
    LET b == job[t].block
    IN  /\ job[t].pc = "tip"
        /\ tip' = IF job[t].mode = "mine" THEN tip ELSE [block |-> b, weight |-> job[t].weight]
        /\ IF job[t].mode = "reorg"
           THEN Goto(t, "replay") /\ UNCHANGED prunes
           ELSE /\ Done(t)
                /\ prunes' = IF HeightOf[b] % PruneEvery = 0
                             THEN prunes \cup {HeightOf[b]} ELSE prunes
        /\ UNCHANGED <<state, height, summary, rows, canon, undo, caac, queue, loop, history>>

RecordTip(t) ==
    LET b == job[t].block
    IN  /\ job[t].pc = "tip"
        /\ tip' = [block |-> b, weight |-> job[t].weight]
        /\ IF job[t].mode = "reorg"
           THEN Goto(t, "replay") /\ UNCHANGED prunes
           ELSE /\ Done(t)
                /\ prunes' = IF HeightOf[b] % PruneEvery = 0
                             THEN prunes \cup {HeightOf[b]} ELSE prunes
        /\ UNCHANGED <<state, height, summary, rows, canon, undo, caac, queue, loop, history>>

\* Mutant: prunes the block at the floor as well.
PruneHistoryOneMore(h) ==
    /\ h \in prunes
    /\ prunes' = prunes \ {h}
    /\ undo' = [b \in Blocks |-> IF HeightOf[b] <= h - PruneDepth THEN NoUndo ELSE undo[b]]
    /\ UNCHANGED <<state, height, summary, rows, canon, tip, caac, queue, job, loop, history>>

\* prune_history_after_block, on a blocking thread of its own.
PruneHistory(h) ==
    /\ h \in prunes
    /\ prunes' = prunes \ {h}
    /\ undo' = [b \in Blocks |-> IF HeightOf[b] < h - PruneDepth THEN NoUndo ELSE undo[b]]
    /\ UNCHANGED <<state, height, summary, rows, canon, tip, caac, queue, job, loop, history>>

--------------------------------------------------------------------------------
(* The apply worker: apply_remote_block_from_gossip_sync *)

TakeBlock(b) ==
    /\ job["worker"].pc = "idle" /\ queue # <<>>
    /\ Head(queue).kind = "block" /\ Head(queue).block = b
    /\ queue' = Tail(queue)

\* Stale, beyond the next height, the local block again, or no local summary.
SkipBlock(b) ==
    /\ TakeBlock(b)
    /\ \/ HeightOf[b] \notin {height, height + 1}
       \/ HeightOf[b] = height /\ Leads(b) /\ summary[height] \in {None, b}
    /\ UNCHANGED <<trees, caac, job, loop, prunes, history>>

\* Not by the leader; on the next height also no parent, another parent, or
\* another state root.
RejectBlock(b) ==
    /\ TakeBlock(b)
    /\ HeightOf[b] \in {height, height + 1}
    /\ \/ ~Leads(b)
       \/ /\ HeightOf[b] = height + 1
          /\ ExpectedParent = Parent[b] /\ state = Parent[b] => b \in BadRoots
    /\ UNCHANGED <<trees, caac, job, loop, prunes, history>>

\* Mutant: the previewed state root is not compared.
ApplyNextUnchecked(b) ==
    /\ TakeBlock(b)
    /\ HeightOf[b] = height + 1 /\ Leads(b) /\ ExpectedParent = Parent[b]
    /\ StoreUndo(b)
    /\ SetJob("worker", [IdleJob EXCEPT !.pc = "balances", !.mode = "remote",
                            !.block = b, !.base = state])
    /\ UNCHANGED <<state, height, summary, rows, canon, tip, caac, loop, prunes, history>>

ApplyNext(b) ==
    /\ TakeBlock(b)
    /\ HeightOf[b] = height + 1 /\ Leads(b)
    /\ ExpectedParent = Parent[b] /\ state = Parent[b] /\ b \notin BadRoots
    /\ StoreUndo(b)
    /\ SetJob("worker", [IdleJob EXCEPT !.pc = "balances", !.mode = "remote",
                            !.block = b, !.base = state])
    /\ UNCHANGED <<state, height, summary, rows, canon, tip, caac, loop, prunes, history>>

\* A different block at the local height: recorded aside, then fork choice.
SameHeightFork(b) ==
    /\ TakeBlock(b)
    /\ HeightOf[b] = height /\ Leads(b) /\ summary[height] \notin {None, b}
    /\ RecordCandidate(b)
    /\ SetJob("worker", [IdleJob EXCEPT !.pc = "choose", !.target = b])
    /\ UNCHANGED <<state, height, summary, canon, tip, undo, caac, loop, prunes, history>>

--------------------------------------------------------------------------------
(* reorg_to_branch *)

\* Mutant: ties are won by the newcomer.
HeavierOrEqual(new, old) == new >= old

Heavier(new, old) == new > old

\* No tip to compare with, not heavier, or a branch with a hole in it.
KeepBranch ==
    LET j == job["worker"]
        hole == \E b \in Branch(CommonAncestor(j.target), j.target) : ~rows[b].known
        heavier == tip.block # None /\ Heavier(rows[j.target].weight, tip.weight)
    IN  /\ j.pc = "choose"
        /\ heavier => hole
        /\ Done("worker")
        /\ barred' = (barred \/ (heavier /\ j.backfill))
        /\ UNCHANGED <<trees, caac, queue, orphans, requests, prunes, history>>

ChooseBranch ==
    LET j == job["worker"]
        ancestor == CommonAncestor(j.target)
    IN  /\ j.pc = "choose"
        /\ tip.block # None /\ Heavier(rows[j.target].weight, tip.weight)
        /\ \A b \in Branch(ancestor, j.target) : rows[b].known
        /\ SetJob("worker", [j EXCEPT !.pc = "unwind", !.mode = "reorg",
                                !.block = tip.block, !.ancestor = ancestor, !.old = tip.weight,
                                !.branch = [b \in Blocks |-> rows[b].weight]])
        /\ UNCHANGED <<trees, caac, queue, loop, prunes, history>>

\* Down to the ancestor; a pruned undo record ends the reorg where it stands.
Unwind ==
    LET j == job["worker"]
    IN  /\ j.pc = "unwind"
        /\ \/ j.block = j.ancestor /\ Goto("worker", "replay") /\ UNCHANGED barred
           \/ j.block # j.ancestor /\ undo[j.block].kept
              /\ SetJob("worker", [j EXCEPT !.pc = "u_blocks", !.undo = undo[j.block]])
              /\ UNCHANGED barred
           \/ j.block # j.ancestor /\ ~undo[j.block].kept
              /\ Done("worker") /\ barred' = (barred \/ j.backfill)
        /\ UNCHANGED <<trees, caac, queue, orphans, requests, prunes, history>>

\* apply_block_undo, tree by tree, then the row's canonical flag.
UndoBlocks ==
    LET b == job["worker"].block
    IN  /\ job["worker"].pc = "u_blocks"
        /\ summary' = [summary EXCEPT ![HeightOf[b]] = job["worker"].undo.summary]
        /\ Goto("worker", "u_canon")
        /\ UNCHANGED <<state, height, rows, canon, tip, undo, caac, queue, loop, prunes, history>>

UndoCanonical ==
    LET b == job["worker"].block
    IN  /\ job["worker"].pc = "u_canon"
        /\ canon' = [canon EXCEPT ![HeightOf[b]] = job["worker"].undo.canon]
        /\ Goto("worker", "u_tip")
        /\ UNCHANGED <<state, height, summary, rows, tip, undo, caac, queue, loop, prunes, history>>

UndoTip ==
    /\ job["worker"].pc = "u_tip"
    /\ tip' = job["worker"].undo.tip
    /\ Goto("worker", "u_meta")
    /\ UNCHANGED <<state, height, summary, rows, canon, undo, caac, queue, loop, prunes, history>>

UndoMeta ==
    /\ job["worker"].pc = "u_meta"
    /\ height' = job["worker"].undo.height
    /\ Goto("worker", "u_balances")
    /\ UNCHANGED <<state, summary, rows, canon, tip, undo, caac, queue, loop, prunes, history>>

UndoBalances ==
    LET b == job["worker"].block
    IN  /\ job["worker"].pc = "u_balances"
        /\ state' = IF state = b THEN job["worker"].undo.state ELSE Junk
        /\ Goto("worker", "u_flag")
        /\ UNCHANGED <<height, summary, rows, canon, tip, undo, caac, queue, loop, prunes, history>>

UndoFlag ==
    LET b == job["worker"].block
    IN  /\ job["worker"].pc = "u_flag"
        /\ rows' = [rows EXCEPT ![b].canonical = FALSE]
        /\ SetJob("worker", [job["worker"] EXCEPT !.pc = "unwind", !.block = Parent[b],
                                !.undo = NoUndo])
        /\ UNCHANGED <<state, height, summary, canon, tip, undo, caac, queue, loop, prunes, history>>

\* The next block of the branch, or the end of the reorg.
Replay ==
    LET j == job["worker"]
    IN  /\ j.pc = "replay"
        /\ IF j.block = j.target
           THEN /\ Done("worker")
                /\ orphans' = IF j.backfill THEN orphans \ {j.target} ELSE orphans
                /\ UNCHANGED undo
           ELSE \E b \in Chain[j.target] :
                /\ HeightOf[b] = HeightOf[j.block] + 1 /\ b \notin BadClaims
                /\ StoreUndo(b)
                /\ SetJob("worker", [j EXCEPT !.pc = "balances", !.block = b])
                /\ UNCHANGED orphans
        /\ UNCHANGED <<state, height, summary, rows, canon, tip, caac, queue, requests, barred, prunes, history>>

\* A block refused before anything is written ends the reorg where it stands.
ReplayRefused ==
    LET j == job["worker"]
    IN  /\ j.pc = "replay" /\ j.block # j.target
        /\ \E b \in Chain[j.target] \cap BadClaims : HeightOf[b] = HeightOf[j.block] + 1
        /\ Done("worker") /\ barred' = (barred \/ j.backfill)
        /\ UNCHANGED <<trees, caac, queue, orphans, requests, prunes, history>>

--------------------------------------------------------------------------------
(* The apply worker: try_reorg_backfilled_branch, one tip after the other *)

TakeReorg ==
    /\ job["worker"].pc = "idle" /\ queue # <<>> /\ Head(queue).kind = "reorg"
    /\ queue' = Tail(queue)
    /\ SetJob("worker", TipJob(Head(queue).tips))
    /\ UNCHANGED <<trees, caac, loop, prunes, history>>

\* The branch is weighed again from its ancestor, now that its parents are known.
Reweighed(b, ancestor, new) ==
    (IF ancestor = Genesis THEN 0 ELSE rows[ancestor].weight)
    + SumFunctionOnSet([c \in Blocks |-> caac[Producer[c]]],
                       {c \in Branch(ancestor, new) : HeightOf[c] <= HeightOf[b]})

ReweighBranch ==
    LET j == job["worker"]
        ancestor == CommonAncestor(j.target)
        branch == Branch(ancestor, j.target)
    IN  /\ j.pc = "reweigh"
        /\ tip.block # None /\ \A b \in branch : rows[b].known
        /\ rows' = [b \in Blocks |->
                       IF b \in branch
                       THEN [known |-> TRUE, canonical |-> FALSE,
                             weight |-> Reweighed(b, ancestor, j.target)]
                       ELSE rows[b]]
        /\ Goto("worker", "choose")
        /\ UNCHANGED <<state, height, summary, canon, tip, undo, caac, queue, loop, prunes, history>>

\* No tip yet, or a hole in the branch.
LeaveBranch ==
    LET j == job["worker"]
        hole == \E b \in Branch(CommonAncestor(j.target), j.target) : ~rows[b].known
    IN  /\ j.pc = "reweigh"
        /\ tip.block # None => hole
        /\ Done("worker")
        /\ barred' = (barred \/ tip.block # None)
        /\ UNCHANGED <<trees, caac, queue, orphans, requests, prunes, history>>

--------------------------------------------------------------------------------
(* The miner: prepare_block, then the same writes *)

\* The id commits to the parent found and to the root previewed.  The apply
\* guard is not taken, so the worker may be anywhere.
PrepareBlock(b) ==
    /\ job["miner"].pc = "idle" /\ b \in Mineable
    /\ HeightOf[b] = height + 1 /\ Leads(b) /\ ExpectedParent = Parent[b]
    /\ (b \in BadRoots) = (state # Parent[b])
    /\ StoreUndo(b)
    /\ SetJob("miner", [IdleJob EXCEPT !.pc = "balances", !.mode = "mine",
                           !.block = b, !.base = state])
    /\ UNCHANGED <<state, height, summary, rows, canon, tip, caac, queue, loop, prunes, history>>

\* A CAAC challenge completed over REST replaces a worker record.
CaacComplete(v, w) ==
    /\ challenges < MaxCaac /\ w # caac[v]
    /\ caac' = [caac EXCEPT ![v] = w]
    /\ challenges' = challenges + 1
    /\ UNCHANGED <<trees, queue, job, loop, prunes, arrivals, losses, crashes>>

--------------------------------------------------------------------------------
(* The block-plane loop: gossip, orphans, backfill *)

Arrives ==
    /\ arrivals < MaxArrivals /\ arrivals' = arrivals + 1
    /\ UNCHANGED <<challenges, losses, crashes>>

\* Offered to the apply worker; a full queue drops the block.
GossipBlock(b) ==
    /\ b \in Gossiped /\ Arrives /\ Known(Parent[b])
    /\ queue' = IF Len(queue) < QueueCap THEN Append(queue, BlockJob(b)) ELSE queue
    /\ UNCHANGED <<trees, caac, job, loop, prunes>>

\* Recorded by the loop itself, beside the worker, and its parent asked for.
GossipOrphan(b) ==
    /\ b \in Gossiped /\ Arrives /\ ~Known(Parent[b]) /\ Leads(b)
    /\ RecordCandidate(b)
    /\ orphans' = orphans \cup {b}
    /\ requests' = IF barred \/ MaxBackfillDepth = 0 THEN requests
                   ELSE requests \cup {[block |-> Parent[b], depth |-> 1]}
    /\ UNCHANGED <<state, height, summary, canon, tip, undo, caac, queue, job, barred, prunes>>

\* A candidate that fails its checks bars the peer.
RefuseCandidate(b) ==
    /\ b \in Gossiped /\ Arrives /\ ~Known(Parent[b]) /\ ~Leads(b)
    /\ barred' = TRUE
    /\ UNCHANGED <<trees, caac, queue, job, orphans, requests, prunes>>

\* One block of a catch-up range, into the slots kept for catch-up.
FetchedBlock(b) ==
    /\ b \in Fetched /\ Arrives
    /\ queue' = Append(queue, BlockJob(b))
    /\ UNCHANGED <<trees, caac, job, loop, prunes>>

\* A served parent: recorded; its own parent is asked for if that is missing,
\* otherwise its buffered children and it are the tips to try.
BackfillServed(r) ==
    LET b == r.block
        children == {o \in orphans : Parent[o] = b}
    IN  /\ r \in requests /\ b \in Served /\ Leads(b)
        /\ RecordCandidate(b)
        /\ IF Known(Parent[b])
           THEN /\ \E order \in SetToSeqs(children) :
                    queue' = IF Len(queue) < QueueCap
                             THEN Append(queue, ReorgJob(Append(order, b))) ELSE queue
                /\ requests' = requests \ {r}
                /\ UNCHANGED barred
           ELSE /\ requests' = (requests \ {r}) \cup
                        (IF r.depth >= MaxBackfillDepth THEN {}
                         ELSE {[block |-> Parent[b], depth |-> r.depth + 1]})
                /\ barred' = (barred \/ r.depth >= MaxBackfillDepth)
                /\ UNCHANGED queue
        /\ UNCHANGED <<state, height, summary, canon, tip, undo, caac, job, orphans, prunes,
                       arrivals, challenges, losses, crashes>>

\* An empty or refused answer bars the peer; a failed or expired request does not.
BackfillLost(r) ==
    /\ r \in requests /\ losses < MaxLosses /\ losses' = losses + 1
    /\ requests' = requests \ {r}
    /\ barred' \in {barred, TRUE}
    /\ UNCHANGED <<trees, caac, queue, job, orphans, prunes, arrivals, challenges, crashes>>

\* Past the TTL, or pushed out of a full buffer.
OrphanExpires(b) ==
    /\ b \in orphans /\ losses < MaxLosses /\ losses' = losses + 1
    /\ orphans' = orphans \ {b}
    /\ UNCHANGED <<trees, caac, queue, job, requests, barred, prunes, arrivals, challenges, crashes>>

BarExpires ==
    /\ barred /\ barred' = FALSE
    /\ UNCHANGED <<trees, caac, queue, job, orphans, requests, prunes, history>>

\* The trees keep what was written; everything in memory is gone.
CrashRestart ==
    /\ crashes < MaxCrashes /\ crashes' = crashes + 1
    /\ queue' = <<>> /\ job' = [t \in Tasks |-> IdleJob]
    /\ orphans' = {} /\ requests' = {} /\ barred' = FALSE /\ prunes' = {}
    /\ UNCHANGED <<trees, caac, arrivals, challenges, losses>>

--------------------------------------------------------------------------------
Init ==
    /\ state = Genesis /\ height = 0
    /\ summary = [h \in Heights |-> None] /\ canon = [h \in Heights |-> None]
    /\ rows = [b \in Blocks |-> NoRow] /\ tip = NoTip
    /\ undo = [b \in Blocks |-> NoUndo]
    /\ caac \in [Validators -> Weights]
    /\ queue = <<>> /\ job = [t \in Tasks |-> IdleJob]
    /\ orphans = {} /\ requests = {} /\ barred = FALSE /\ prunes = {}
    /\ arrivals = 0 /\ challenges = 0 /\ losses = 0 /\ crashes = 0

ApplyStep(t) ==
    ApplyBalances(t) \/ ApplyMeta(t) \/ RecordSummary(t) \/ RecordRow(t)
    \/ RecordCanonical(t) \/ RecordTip(t)

TakeStep == \E b \in Blocks : SkipBlock(b) \/ RejectBlock(b) \/ ApplyNext(b) \/ SameHeightFork(b)

ReorgStep ==
    TakeReorg \/ ReweighBranch \/ LeaveBranch \/ KeepBranch \/ ChooseBranch \/ Unwind
    \/ UndoBlocks \/ UndoCanonical \/ UndoTip \/ UndoMeta \/ UndoBalances \/ UndoFlag \/ Replay
    \/ ReplayRefused

LoopStep ==
    \/ \E b \in Blocks : GossipBlock(b) \/ GossipOrphan(b) \/ RefuseCandidate(b)
                          \/ FetchedBlock(b) \/ OrphanExpires(b)
    \/ \E r \in requests : BackfillServed(r) \/ BackfillLost(r)
    \/ BarExpires

Next ==
    \/ \E t \in Tasks : ApplyStep(t)
    \/ TakeStep \/ ReorgStep \/ LoopStep
    \/ \E b \in Blocks : PrepareBlock(b)
    \/ \E h \in prunes : PruneHistory(h)
    \/ \E v \in Validators, w \in Weights : CaacComplete(v, w)
    \/ CrashRestart

Spec == Init /\ [][Next]_vars

--------------------------------------------------------------------------------
Tips == [block : Blocks \cup {None}, weight : Nat]
Undos == [kept : BOOLEAN, state : States, height : Heights \cup {0}, summary : Blocks \cup {None},
          canon : Blocks \cup {None}, tip : Tips]
JobRecords ==
    [pc : {"idle", "reweigh"} \cup Applying \cup Reorging,
     mode : {"none", "remote", "mine", "reorg"},
     block : Blocks \cup {None, Genesis}, base : States \cup {None}, same : BOOLEAN,
     weight : Nat, target : Blocks \cup {None}, ancestor : Blocks \cup {Genesis},
     old : Nat, branch : [Blocks -> Nat], undo : Undos, tips : Seq(Blocks), backfill : BOOLEAN]
QueueJobs == [kind : {"block", "reorg"}, block : Blocks \cup {None}, tips : Seq(Blocks)]

\* Types of the trees of the chain store and of the tasks' locals.
TypeOK ==
    /\ state \in States /\ height \in Heights \cup {0}
    /\ summary \in [Heights -> Blocks \cup {None}] /\ canon \in [Heights -> Blocks \cup {None}]
    /\ rows \in [Blocks -> [known : BOOLEAN, canonical : BOOLEAN, weight : Nat]]
    /\ tip \in Tips /\ undo \in [Blocks -> Undos]
    /\ caac \in [Validators -> Weights]
    /\ queue \in Seq(QueueJobs) /\ job \in [Tasks -> JobRecords]
    /\ orphans \subseteq Blocks /\ requests \subseteq [block : Blocks, depth : Nat]
    /\ barred \in BOOLEAN /\ prunes \subseteq Heights

AllIdle == \A t \in Tasks : job[t].pc = "idle"

\* Whenever neither the worker nor the miner is inside a block, and the balances
\* are those of some chain, the height, the tip, the canonical index and the
\* summaries are those of the same chain, up to its head and not beyond:
\* what apply, unwind and replay write to six trees stays one chain.
StoreIsOneChain ==
    AllIdle /\ state # Junk =>
        /\ height = HeightOf[state]
        /\ tip.block = (IF state = Genesis THEN None ELSE state)
        /\ \A h \in Heights :
              canon[h] = IF \E b \in Blocks : state # Genesis /\ b \in Chain[state] /\ HeightOf[b] = h
                         THEN CHOOSE b \in Chain[state] : HeightOf[b] = h ELSE None
        /\ summary = canon

\* The types, and one chain in the six trees.
StoreSound == TypeOK /\ StoreIsOneChain

\* A reorg that replayed a branch to its end left a tip strictly heavier than
\* the one it replaced, by the weights the tips were stored with.  (A branch
\* with nothing to replay is the tip, or an ancestor of it, served again once
\* its producer weighs more: nothing is replayed and nothing gained.)
ReorgGainsWeight ==
    [][job["worker"].pc = "replay" /\ job["worker"].block = job["worker"].target
       /\ job["worker"].target # job["worker"].ancestor /\ job'["worker"].pc # "replay"
       => tip.block = job["worker"].target /\ tip.weight > job["worker"].old]_vars

\* The balances become those of no chain only after a block with a wrong state
\* root was recorded off the chain, where nothing checks its root: what is
\* gossiped on the tip is previewed first, and unwinding loses nothing.
JunkNeedsRecordedBadRoot == state = Junk => \E b \in BadRoots : rows[b].known

\* On a node that does not mine, a block that is previewed before it is applied
\* never turns the balances into those of no chain, whatever a crash left behind:
\* only a reorg can, whose blocks nobody previewed.
OnlyReplayMisapplies ==
    [][state # Junk /\ state' = Junk => job["worker"].mode = "reorg"]_vars

\* Every block of the chain that pruning has not reached can be unwound.
UndoKept ==
    AllIdle /\ state \notin {Junk, Genesis} =>
        \A b \in Chain[state] :
            undo[b].kept \/ \E c \in Blocks : rows[c].known /\ HeightOf[b] < HeightOf[c] - PruneDepth

\* The root apply returns to the miner is the one the block id commits to.
MinedRootIsPreviewed == job["miner"].same

\* A node that is running can name the parent of its next block.  It does not
\* hold: a crash between the height and the canonical index takes it away.
CanExtend == AllIdle => ExpectedParent # None
=============================================================================
