------------------------------- MODULE Workloads -------------------------------
(***************************************************************************)
(* AI workload tasks on one node: an EnterpriseInference transaction opens *)
(* a task when its block is applied, a VerifyZkProof closes it, and the    *)
(* worker daemon turns open tasks into proofs (worker_daemon.rs, the task  *)
(* records of ledger.rs, validate_zk_task_claims and compute_reward of     *)
(* consensus.rs, post_ledger_zk_verify).                                   *)
(*                                                                         *)
(* Tasks are numbered in the order of their keys.  A claim's journal is of *)
(* kind "court" or "inference": only the first earns a compute reward, and *)
(* only the first is held against the task before a block is accepted.     *)
(***************************************************************************)
EXTENDS Naturals, Sequences, FiniteSets, SequencesExt

CONSTANTS
    Tasks,          \* 1..n, in key order
    Unprovable,     \* tasks whose inference or proof fails every time
    NoPrompt,       \* tasks the daemon passes over
    RestClaims,     \* claims other workers post to this node
    RemoteBlocks,   \* sets of transactions other producers put in a block
    MaxRemoteBlocks, MaxReorgs      \* bounds

DemandTx(t) == [what |-> "demand", task |-> t, by |-> "client", kind |-> "none"]
ClaimTx(t, w, kind) == [what |-> "claim", task |-> t, by |-> w, kind |-> kind]

ASSUME WorkloadAssumption ==
    /\ Tasks \subseteq Nat /\ IsFiniteSet(Tasks) /\ Unprovable \subseteq Tasks /\ NoPrompt \subseteq Tasks
    /\ {MaxRemoteBlocks, MaxReorgs} \subseteq Nat
    /\ \A x \in RestClaims : x.what = "claim" /\ x.task \in Tasks
    /\ \A x \in UNION RemoteBlocks : x.task \in Tasks /\ (x.what = "claim" \/ x = DemandTx(x.task))

VARIABLES
    taskState,  \* META_AI_WORKLOAD_TX: "none", "open" or "done"
    wlPool,     \* the mempool
    wlChain,    \* canonical blocks: the transactions and the undo record of each
    wlSide,     \* a recorded block beside the tip, {} when there is none
    daemon,     \* tick_worker_daemon: where it is, its list and its task
    remoteBlocks, wlReorgs

wlVars == <<taskState, wlPool, wlChain, wlSide, daemon, remoteBlocks, wlReorgs>>

ClaimsIn(txs) == {x \in txs : x.what = "claim"}
CourtIn(txs) == {x \in ClaimsIn(txs) : x.kind = "court"}
Lowest(S) == CHOOSE x \in S : \A y \in S : x <= y

(***************************************************************************)
(* Blocks                                                                  *)
(***************************************************************************)
\* Mutant: a processed task may be claimed again.
TaskKnown(txs, tasks) ==
    /\ \A x \in CourtIn(txs) : tasks[x.task] # "none"
    /\ \A x, y \in CourtIn(txs) : x.task = y.task => x = y
\* validate_zk_task_claims: a court proof claims a task that is on record and open,
\* once in the block; other journals are passed over.
ClaimsValid(txs, tasks) ==
    /\ \A x \in CourtIn(txs) : tasks[x.task] = "open"
    /\ \A x, y \in CourtIn(txs) : x.task = y.task => x = y
\* apply_consensus_block_batch refuses a claim on a task that is not on record.
BlockApplies(txs, tasks) == ClaimsValid(txs, tasks) /\ \A x \in ClaimsIn(txs) : tasks[x.task] # "none"

\* The task records after a block: claims see the records as they were before it.
AfterBlock(txs, tasks) ==
    [t \in Tasks |-> IF \E x \in ClaimsIn(txs) : x.task = t THEN "done"
                     ELSE IF DemandTx(t) \in txs /\ tasks[t] = "none" THEN "open" ELSE tasks[t]]
\* Mutant: the undo record has the demands' keys only.
UndoOfDemands(txs, tasks) == [t \in {x.task : x \in txs \ ClaimsIn(txs)} |-> tasks[t]]
\* prepare_block_undo: the records the block's transactions touch.
UndoOf(txs, tasks) == [t \in {x.task : x \in txs} |-> tasks[t]]
Undone(tasks, undo) == [t \in Tasks |-> IF t \in DOMAIN undo THEN undo[t] ELSE tasks[t]]

ApplyWorkBlock(txs, chain, tasks) ==
    /\ taskState' = AfterBlock(txs, tasks)
    /\ wlChain' = Append(chain, [txs |-> txs, undo |-> UndoOf(txs, tasks)])

\* select_block_txs: a largest part of the mempool a block would accept.
Selected(txs) ==
    {keep \in SUBSET txs : BlockApplies(keep, taskState)
        /\ \A x \in txs \ keep : ~BlockApplies(keep \union {x}, taskState)}
\* mine_pending_block_as of a producer with the PoC role; what does not fit is dropped.
MineWork ==
    /\ wlPool # {} /\ wlPool' = {}
    /\ \E keep \in Selected(wlPool) : ApplyWorkBlock(keep, wlChain, taskState)
    /\ UNCHANGED <<wlSide, daemon, remoteBlocks, wlReorgs>>

\* A gossiped block on the tip, and the eviction of its transactions.
RemoteTip(txs) ==
    /\ remoteBlocks < MaxRemoteBlocks /\ BlockApplies(txs, taskState)
    /\ remoteBlocks' = remoteBlocks + 1
    /\ ApplyWorkBlock(txs, wlChain, taskState)
    /\ wlPool' = wlPool \ txs
    /\ UNCHANGED <<wlSide, daemon, wlReorgs>>
\* A block beside the tip: validate_and_record_backfill_candidate checks its claims
\* against the tasks of the chain it competes with.
RecordSide(txs) ==
    /\ remoteBlocks < MaxRemoteBlocks /\ wlChain # <<>> /\ wlSide = {}
    /\ ClaimsValid(txs, taskState)
    /\ remoteBlocks' = remoteBlocks + 1 /\ wlSide' = txs
    /\ UNCHANGED <<taskState, wlPool, wlChain, daemon, wlReorgs>>
\* reorg_to_branch: the tip is unwound and the recorded block replayed, whose claims
\* apply_block_record_forward checks again; a failure leaves the tip unwound.
ReorgToSide ==
    LET below == Front(wlChain)  tasks == Undone(taskState, Last(wlChain).undo) IN
    /\ wlSide # {} /\ wlReorgs < MaxReorgs
    /\ wlReorgs' = wlReorgs + 1 /\ wlSide' = {}
    /\ IF BlockApplies(wlSide, tasks) THEN ApplyWorkBlock(wlSide, below, tasks)
       ELSE taskState' = tasks /\ wlChain' = below
    /\ UNCHANGED <<wlPool, daemon, remoteBlocks>>

(***************************************************************************)
(* Submissions                                                             *)
(***************************************************************************)
\* post_enterprise_inference: the demand waits for a block.
SubmitDemand(t) ==
    /\ taskState[t] = "none" /\ DemandTx(t) \notin wlPool
    /\ \A i \in DOMAIN wlChain : DemandTx(t) \notin wlChain[i].txs
    /\ wlPool' = wlPool \union {DemandTx(t)}
    /\ UNCHANGED <<taskState, wlChain, wlSide, daemon, remoteBlocks, wlReorgs>>
\* post_ledger_zk_verify: not for a processed or an unknown task; the mempool is not
\* searched for another claim.
PostClaim(x) ==
    /\ taskState[x.task] = "open"
    /\ wlPool' = wlPool \union {x}
    /\ UNCHANGED <<taskState, wlChain, wlSide, daemon, remoteBlocks, wlReorgs>>

(***************************************************************************)
(* tick_worker_daemon                                                      *)
(***************************************************************************)
DaemonIdle == [at |-> "idle", list |-> {}, task |-> 0]
PoolHasClaim(t) == \E x \in ClaimsIn(wlPool) : x.task = t
Resting == UNCHANGED <<taskState, wlPool, wlChain, wlSide, remoteBlocks, wlReorgs>>
\* list_unprocessed_ai_workload_tasks
DaemonLists ==
    /\ daemon.at = "idle" /\ \E t \in Tasks : taskState[t] = "open"
    /\ daemon' = [at |-> "next", list |-> {t \in Tasks : taskState[t] = "open"}, task |-> 0]
    /\ Resting
\* The next listed task, unless it has no prompt, is claimed or is processed by now.
DaemonTakes ==
    LET t == Lowest(daemon.list) IN
    /\ daemon.at = "next"
    /\ daemon' = IF daemon.list = {} THEN DaemonIdle
                 ELSE IF t \in NoPrompt \/ PoolHasClaim(t) \/ taskState[t] = "done"
                 THEN [daemon EXCEPT !.list = @ \ {t}]
                 ELSE [at |-> "proving", list |-> daemon.list \ {t}, task |-> t]
    /\ Resting
\* Mutant: a task that fails is tried again at once.
DaemonRetries ==
    /\ daemon.at = "proving" /\ daemon' = IF daemon.task \in Unprovable THEN daemon ELSE [daemon EXCEPT !.at = "proved"]
    /\ Resting
\* run_inference_for_task and the prover: an error ends the tick and its list.
DaemonProves ==
    /\ daemon.at = "proving"
    /\ daemon' = IF daemon.task \in Unprovable THEN DaemonIdle ELSE [daemon EXCEPT !.at = "proved"]
    /\ Resting
\* The mempool is searched once more, then submit_local_tx.
DaemonSubmits ==
    /\ daemon.at = "proved" /\ daemon' = [daemon EXCEPT !.at = "next"]
    /\ wlPool' = IF PoolHasClaim(daemon.task) THEN wlPool
                 ELSE wlPool \union {ClaimTx(daemon.task, "self", "court")}
    /\ UNCHANGED <<taskState, wlChain, wlSide, remoteBlocks, wlReorgs>>

DaemonStep == DaemonLists \/ DaemonTakes \/ DaemonProves \/ DaemonSubmits

WorkInit ==
    /\ taskState = [t \in Tasks |-> "none"] /\ wlPool = {} /\ wlChain = <<>> /\ wlSide = {}
    /\ daemon = DaemonIdle /\ remoteBlocks = 0 /\ wlReorgs = 0

WorkNext ==
    \/ \E t \in Tasks : SubmitDemand(t)
    \/ \E x \in RestClaims : PostClaim(x)
    \/ DaemonStep \/ MineWork \/ ReorgToSide
    \/ \E b \in RemoteBlocks : RemoteTip(b) \/ RecordSide(b)

\* The daemon polls for ever and the miner has its turn at every slot.
WorkSpec == WorkInit /\ [][WorkNext]_wlVars /\ WF_wlVars(DaemonStep) /\ WF_wlVars(MineWork)

(***************************************************************************)
(* Properties                                                              *)
(***************************************************************************)
\* Types of the task records, of the mempool and of the daemon.
WorkTypeOK ==
    /\ taskState \in [Tasks -> {"none", "open", "done"}]
    /\ daemon.at \in {"idle", "next", "proving", "proved"} /\ daemon.list \subseteq Tasks
    /\ \A x \in wlPool : x.task \in Tasks

\* The task records are those of the canonical chain, after any blocks, reorgs and
\* replays: on record iff a block demands it, processed iff a later one claims it.
TasksMatchChain ==
    \A t \in Tasks :
        LET demanded == \E i \in DOMAIN wlChain : DemandTx(t) \in wlChain[i].txs
            claimed == \E i \in DOMAIN wlChain : \E x \in ClaimsIn(wlChain[i].txs) : x.task = t IN
        taskState[t] = IF claimed THEN "done" ELSE IF demanded THEN "open" ELSE "none"

\* The compute reward of the canonical chain counts a task once at most, however many
\* workers prove it and whichever branch wins (compute_reward_for_block).
RewardedOnce ==
    \A i, j \in DOMAIN wlChain : \A x \in CourtIn(wlChain[i].txs), y \in CourtIn(wlChain[j].txs) :
        x.task = y.task => i = j /\ x = y

\* Task records and rewards stand for the canonical chain.
TasksSound == WorkTypeOK /\ TasksMatchChain /\ RewardedOnce

\* A task that stays on record is processed in the end, if no task before it in the
\* list fails for ever: one that does ends every tick (tick_worker_daemon).
TaskServed ==
    \A t \in Tasks \ (Unprovable \union NoPrompt) :
        []((taskState[t] = "open" /\ \A u \in Unprovable : u > t \/ taskState[u] # "open")
              => <>(taskState[t] # "open" \/ \E u \in Unprovable : u < t /\ taskState[u] = "open"))
================================================================================
