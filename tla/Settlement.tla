------------------------------ MODULE Settlement ------------------------------
(***************************************************************************)
(* Money in ledger.rs.  A block is previewed, its undo record is read and  *)
(* stored, the ledger is read, and then the balances tree and the meta     *)
(* tree are written, each in one batch, with absolute values and without a *)
(* transaction around the five steps.  Unwinding a block writes its undo   *)
(* record back, meta first.  Beside this, REST handlers move money in sled *)
(* transactions of their own.                                              *)
(*                                                                         *)
(*   balances   the balances tree                                          *)
(*   meta       counters, height, transaction markers, AI tasks and the    *)
(*              worker registry                                            *)
(*   stake, bond, court   money outside the balances tree: the meta rows   *)
(*              of /wallet/stake, worker_stakes_v1, zkcourt_bonds          *)
(*   vest       the locked part of a wallet's balance                      *)
(*   nonces     the last nonce a wallet signed a REST operation with       *)
(*   guardians  wallets that had the guardian grant                        *)
(*   request    a REST operation between its reading of the locks and its  *)
(*              transaction                                                *)
(*   chain      the recorded blocks with their undo records; prep, before  *)
(*              and after are history: the versions when the undo record   *)
(*              was read, and the trees before and after the block         *)
(*   job        the block being applied or unwound                         *)
(*   version    how often REST operations wrote a row of the two trees     *)
(*   raced      a block wrote a row that such an operation had written     *)
(*              since the block read it                                    *)
(***************************************************************************)
EXTENDS Fees, FiniteSets, Sequences, SequencesExt, Functions

CONSTANTS
    Users,              \* wallets of clients and workers
    RestUsers,          \* those of them that use the REST operations
    Pool, Treasury, Ecosystem, Dex, Founder, ApiPool,   \* the other wallets
    None,
    Txs,                \* transactions that blocks may hold
    Bodies,             \* the sequences of them that blocks do hold
    Producer,           \* the wallet of the blocks' producer
    GenesisBalances,
    BaseReward, ComputeReward,
    AirdropMicro, MaxRecipients,
    MinWorkerStake, ChallengerBond,
    GuardianGrant, MaxGuardians,
    Amounts,            \* amounts of REST operations
    MaxRest,            \* bound on REST operations
    MaxBlocks           \* bound on started blocks

Accounts == Users \cup {Pool, Treasury, Ecosystem, Dex, Founder, ApiPool}
Counters == "counters"  \* the row of supply, burned and fees in meta
Rows == Accounts \cup {Counters}

\* The transactions a block may hold, by kind.
Transfers == [kind : {"transfer"}, from : Users, to : Accounts, amount : Nat, bps : Nat]
FileFees == [kind : {"file_fee"}, from : Users, storage : Accounts \cup {None}]
Claims == [kind : {"airdrop", "register"}, wallet : Users]
Demands == [kind : {"inference"}, id : Nat]
Proofs == [kind : {"proof"}, task : Demands]

\* No block holds a transaction twice (mine_pending_block_as, apply_remote_block_from_gossip).
ASSUME SettlementAssumption ==
    /\ IsFiniteSet(Users) /\ RestUsers \subseteq Users
    /\ Counters \notin Accounts /\ Producer \in Accounts
    /\ Txs \subseteq Transfers \cup FileFees \cup Claims \cup Demands \cup Proofs
    /\ Bodies \subseteq Seq(Txs) /\ \A body \in Bodies : IsInjective(body)
    /\ GenesisBalances \in [Accounts -> Nat]
    /\ {BaseReward, ComputeReward, AirdropMicro, MaxRecipients, MinWorkerStake, ChallengerBond,
        GuardianGrant, MaxGuardians, MaxRest, MaxBlocks} \subseteq Nat
    /\ Amounts \subseteq Nat

VARIABLES balances, meta, stake, bond, court, vest, nonces, guardians,
          request, chain, job, version, raced, rest, blocks

trees == <<balances, meta>>
outside == <<stake, bond, court, vest, nonces, guardians>>
vars == <<trees, outside, request, chain, job, version, raced, rest, blocks>>

Monus(a, b) == IF a > b THEN a - b ELSE 0
GenesisSupply == SumFunction(GenesisBalances)

Airdrops == {tx \in Txs : tx.kind = "airdrop"}
Tasks == {tx \in Txs : tx.kind = "inference"}

Metas ==
    [supply : Nat, burned : Nat, fees : Nat, airdrops : Nat, height : Nat,
     applied : SUBSET Txs, tasks : SUBSET Tasks, done : SUBSET Tasks,
     registered : SUBSET Users]

Idle == [step |-> "idle"]

-----------------------------------------------------------------------------
(* What a block does to the two trees.  st holds the balances map, the     *)
(* meta values, the dirty balance rows, and whether no step failed.        *)

Debit(bal, a, n) == [bal EXCEPT ![a] = @ - n]
Credit(bal, a, n) == [bal EXCEPT ![a] = @ + n]

Refused(st) == [st EXCEPT !.ok = FALSE]
\* The transaction took effect: new balances and meta values, its marker, the rows it touched.
Settle(st, tx, bal, m, rows) ==
    [bal |-> bal, meta |-> [m EXCEPT !.applied = @ \cup {tx}],
     dirty |-> st.dirty \cup rows, ok |-> TRUE]

Burn(m, split, fee) ==
    [m EXCEPT !.supply = Monus(@, split.burn),
              !.burned = @ + split.burn,
              !.fees = @ + fee]

TransferEffect(st, tx) ==
    LET split == Charge(Transfer(tx.bps), tx.amount)
    IN  IF \/ tx.amount = 0
           \/ ~Chargeable(Transfer(tx.bps), tx.amount)
           \/ Monus(st.bal[tx.from], vest[tx.from]) < tx.amount
        THEN Refused(st)
        ELSE Settle(st, tx,
                    Credit(Credit(Debit(st.bal, tx.from, tx.amount), tx.to, split.net),
                           Pool, split.pool),
                    Burn(st.meta, split, FeeMicro(split)),
                    {tx.from, tx.to} \cup (IF split.pool > 0 THEN {Pool} ELSE {}))

\* An empty storage wallet folds the storage share into the treasury.
StorageWallet(tx) == IF tx.storage = None THEN Treasury ELSE tx.storage

FileFeeEffect(st, tx) ==
    LET split == Charge(File, FILE_FEE_MICRO)
    IN  IF Monus(st.bal[tx.from], vest[tx.from]) < FILE_FEE_MICRO
        THEN Refused(st)
        ELSE Settle(st, tx,
                    Credit(Credit(Debit(st.bal, tx.from, FILE_FEE_MICRO), Treasury, split.treasury),
                           StorageWallet(tx), split.net),
                    Burn(st.meta, split, FILE_FEE_MICRO),
                    {tx.from, Treasury, StorageWallet(tx)})

\* Skipped, without a marker, when the programme or the pool is exhausted.
AirdropEffect(st, tx) ==
    IF st.meta.airdrops >= MaxRecipients \/ st.bal[Pool] < AirdropMicro
    THEN st
    ELSE Settle(st, tx, Credit(Debit(st.bal, Pool, AirdropMicro), tx.wallet, AirdropMicro),
                [st.meta EXCEPT !.airdrops = @ + 1], {Pool, tx.wallet})

\* Bonds and tasks are looked up in the trees, not in what the block did.
RegisterEffect(st, tx) ==
    IF bond[tx.wallet] < MinWorkerStake
    THEN Refused(st)
    ELSE Settle(st, tx, st.bal, [st.meta EXCEPT !.registered = @ \cup {tx.wallet}], {})

ProofEffect(st, tx) ==
    IF tx.task \notin meta.tasks
    THEN Refused(st)
    ELSE Settle(st, tx, st.bal, [st.meta EXCEPT !.done = @ \cup {tx.task}], {})

\* The commit passes over what is settled, the preview over proofs; the preview's meta
\* values are not used.
Passed(tx, committing) == IF committing THEN tx.kind # "proof" /\ tx \in meta.applied
                                        ELSE tx.kind = "proof"
TxEffect(st, tx, committing) ==
    IF ~st.ok \/ Passed(tx, committing) THEN st
    ELSE CASE tx.kind = "transfer" -> TransferEffect(st, tx)
           [] tx.kind = "file_fee" -> FileFeeEffect(st, tx)
           [] tx.kind = "airdrop" -> AirdropEffect(st, tx)
           [] tx.kind = "register" -> RegisterEffect(st, tx)
           [] tx.kind = "proof" -> ProofEffect(st, tx)
           [] tx.kind = "inference" -> [st EXCEPT !.meta.tasks = @ \cup {tx}]

RewardOf(body) ==
    BaseReward + ComputeReward * Cardinality({i \in DOMAIN body : body[i].kind = "proof"})

RewardEffect(st, reward) ==
    IF ~st.ok \/ reward = 0 THEN st
    ELSE IF reward > st.bal[Pool] THEN Refused(st)
    ELSE [st EXCEPT !.bal = Credit(Debit(@, Pool, reward), Producer, reward),
                    !.dirty = @ \cup {Pool, Producer}]

\* The transactions of the body, one after the other.
RunBody(body, committing) ==
    LET after[n \in 0..Len(body)] ==
            IF n = 0 THEN [bal |-> balances, meta |-> meta, dirty |-> {}, ok |-> TRUE]
            ELSE TxEffect(after[n - 1], body[n], committing)
    IN  after[Len(body)]

BlockEffect(body, committing) == RewardEffect(RunBody(body, committing), RewardOf(body))

\* Mutant: the preview leaves out the reward.
PreviewNoReward(body) == RunBody(body, FALSE)

\* compute_state_root_after_remote_block
Preview(body) == BlockEffect(body, FALSE)

\* apply_consensus_block_batch up to its writes
Compute(body) == [BlockEffect(body, TRUE) EXCEPT !.meta.height = Len(chain) + 1]

\* validate_zk_task_claims: a proof is of a recorded, unprocessed task.
ClaimsOk(body) ==
    LET proofs == {i \in DOMAIN body : body[i].kind = "proof"}
    IN  /\ \A i \in proofs : body[i].task \in meta.tasks \ meta.done
        /\ \A i, j \in proofs : body[i].task = body[j].task => i = j

-----------------------------------------------------------------------------
(* The undo record: which rows prepare_block_undo saves, from the          *)
(* transactions alone, and what apply_block_undo writes back.              *)

HasFee(tx) ==
    \/ tx.kind = "file_fee"
    \/ /\ tx.kind = "transfer"
       /\ Chargeable(Transfer(tx.bps), tx.amount)
       /\ FeeMicro(Charge(Transfer(tx.bps), tx.amount)) > 0

UndoRowsOfTx(tx) ==
    CASE tx.kind = "transfer" -> {tx.from, tx.to} \cup (IF HasFee(tx) THEN {Pool} ELSE {})
      [] tx.kind = "file_fee" -> {tx.from, Treasury, StorageWallet(tx)}
      [] tx.kind = "airdrop" -> {Pool, tx.wallet}
      [] tx.kind \in {"register", "proof", "inference"} -> {}

UndoRows(body) ==
    (UNION {UndoRowsOfTx(tx) : tx \in Range(body)})
      \cup (IF RewardOf(body) > 0 THEN {Pool, Producer} ELSE {})

UndoCounters(body) == \E tx \in Range(body) : HasFee(tx)

UndoRecord(body) ==
    [balances |-> [a \in UndoRows(body) |-> balances[a]], meta |-> meta]

\* Mutant: markers outlive their block.
RestoreSetKeeps(now, old, keys) == now

RestoreSet(now, old, keys) == (now \ keys) \cup (old \cap keys)

\* Mutant: the task a proof processed is not in the undo set.
UndoTasksNoProofs(body) == Range(body) \cap Tasks

UndoTasks(body) ==
    (Range(body) \cap Tasks)
      \cup {tx.task : tx \in {t \in Range(body) : t.kind = "proof"}}

RestoreMeta(body, old) ==
    LET txs == Range(body)
        tasks == UndoTasks(body)
        workers == {tx.wallet : tx \in {t \in txs : t.kind = "register"}}
    IN  [meta EXCEPT
           !.height = old.height,
           !.supply = IF UndoCounters(body) THEN old.supply ELSE @,
           !.burned = IF UndoCounters(body) THEN old.burned ELSE @,
           !.fees = IF UndoCounters(body) THEN old.fees ELSE @,
           !.airdrops = IF txs \cap Airdrops # {} THEN old.airdrops ELSE @,
           !.applied = RestoreSet(@, old.applied, txs),
           !.tasks = RestoreSet(@, old.tasks, tasks),
           !.done = RestoreSet(@, old.done, tasks),
           !.registered = RestoreSet(@, old.registered, workers)]

-----------------------------------------------------------------------------
(* Blocks.                                                                 *)

Changed(rows, since) == \E r \in rows : version[r] # since[r]

\* A block of this node (mined) or one whose declared root is the preview's.
\* Its producer left out what was settled before.
StartBlock(body, mined) ==
    /\ job = Idle
    /\ blocks < MaxBlocks
    /\ meta.height = Len(chain)         \* else the block has no parent
    /\ Range(body) \cap meta.applied = {}
    /\ ClaimsOk(body)
    /\ Preview(body).ok
    /\ job' = [step |-> "previewed", body |-> body, mined |-> mined,
               root |-> Preview(body).bal, seen |-> version]
    /\ blocks' = blocks + 1
    /\ UNCHANGED <<trees, outside, request, chain, version, raced, rest>>

PrepareUndo ==
    /\ job.step = "previewed"
    /\ job' = [step |-> "prepared", body |-> job.body, mined |-> job.mined,
               root |-> job.root, seen |-> job.seen,
               undo |-> UndoRecord(job.body), prep |-> version]
    /\ UNCHANGED <<trees, outside, request, chain, version, raced, rest, blocks>>

ReadLedger ==
    /\ job.step = "prepared"
    /\ Compute(job.body).ok
    /\ job' = [step |-> "computed", body |-> job.body, mined |-> job.mined,
               root |-> job.root, seen |-> job.seen,
               undo |-> job.undo, prep |-> job.prep,
               out |-> Compute(job.body), read |-> version,
               before |-> [balances |-> balances, meta |-> meta]]
    /\ UNCHANGED <<trees, outside, request, chain, version, raced, rest, blocks>>

\* A bond, a task or a balance went since the preview.
ApplyRefused ==
    /\ job.step = "prepared"
    /\ ~Compute(job.body).ok
    /\ job' = Idle
    /\ UNCHANGED <<trees, outside, request, chain, version, raced, rest, blocks>>

WriteBalances ==
    /\ job.step = "computed"
    /\ balances' = [a \in Accounts |-> IF a \in job.out.dirty THEN job.out.bal[a]
                                                              ELSE balances[a]]
    /\ raced' = (raced \/ Changed(job.out.dirty, job.read))
    /\ job' = [job EXCEPT !.step = "written"]
    /\ UNCHANGED <<meta, outside, request, chain, version, rest, blocks>>

\* The meta batch holds the counters as read, changed or not.  A remote
\* block whose root came out different is not recorded.
WriteMeta ==
    LET recorded == job.mined \/ job.out.bal = job.root
    IN  /\ job.step = "written"
        /\ meta' = job.out.meta
        /\ raced' = (raced \/ Changed({Counters}, job.read) \/ ~recorded)
        /\ chain' = IF recorded
                    THEN Append(chain, [body |-> job.body, undo |-> job.undo,
                                        prep |-> job.prep, before |-> job.before,
                                        after |-> [balances |-> job.out.bal, meta |-> job.out.meta]])
                    ELSE chain
        /\ job' = Idle
        /\ UNCHANGED <<balances, outside, request, version, rest, blocks>>

\* apply_block_undo: the meta rows and then the balance rows, one step each.
UndoMeta ==
    /\ job = Idle
    /\ chain # <<>>
    /\ LET b == Last(chain)
       IN  /\ meta' = RestoreMeta(b.body, b.undo.meta)
           /\ raced' = (raced \/ (UndoCounters(b.body) /\ Changed({Counters}, b.prep)))
    /\ job' = [step |-> "unwinding"]
    /\ UNCHANGED <<balances, outside, request, chain, version, rest, blocks>>

Restored(b) ==
    [a \in Accounts |-> IF a \in DOMAIN b.undo.balances THEN b.undo.balances[a] ELSE balances[a]]

UndoBalances ==
    /\ job.step = "unwinding"
    /\ LET b == Last(chain)
       IN  /\ balances' = Restored(b)
           /\ raced' = (raced \/ Changed(DOMAIN b.undo.balances, b.prep))
    /\ chain' = Front(chain)
    /\ job' = Idle
    /\ UNCHANGED <<meta, outside, request, version, rest, blocks>>

-----------------------------------------------------------------------------
(* REST operations: one sled transaction over both trees each.             *)

Commit(bal, m) ==
    /\ rest < MaxRest
    /\ rest' = rest + 1
    /\ balances' = bal
    /\ meta' = m
    /\ version' = [r \in Rows |->
                     IF (IF r = Counters THEN m # meta ELSE bal[r] # balances[r])
                     THEN version[r] + 1 ELSE version[r]]
    /\ UNCHANGED <<chain, job, raced, blocks>>

Move(from, to, n) == Credit(Debit(balances, from, n), to, n)
Take(from, n) == Debit(balances, from, n)
Give(to, n) == Credit(balances, to, n)
NonceOk(w, n) == n > nonces[w]

\* stake_micro, stake_worker_bond_micro and settle_transfer_internal read the
\* locks before their transaction, which cannot iterate a tree.
ReadLocks(op, w, amount, nonce) ==
    /\ request = None
    /\ rest < MaxRest
    /\ request' = [op |-> op, wallet |-> w, amount |-> amount, nonce |-> nonce,
                   locked |-> vest[w]]
    /\ UNCHANGED <<trees, outside, chain, job, version, raced, rest, blocks>>

RequestOk ==
    /\ request.op # "transfer" => NonceOk(request.wallet, request.nonce)
    /\ Monus(balances[request.wallet], request.locked) >= request.amount

StakeMicro ==
    /\ request # None /\ request.op = "stake" /\ RequestOk
    /\ stake' = [stake EXCEPT ![request.wallet] = @ + request.amount]
    /\ nonces' = [nonces EXCEPT ![request.wallet] = request.nonce]
    /\ Commit(Take(request.wallet, request.amount), meta)
    /\ request' = None
    /\ UNCHANGED <<bond, court, vest, guardians>>

StakeWorkerBond ==
    /\ request # None /\ request.op = "bond" /\ RequestOk
    /\ bond' = [bond EXCEPT ![request.wallet] = @ + request.amount]
    /\ nonces' = [nonces EXCEPT ![request.wallet] = request.nonce]
    /\ Commit(Take(request.wallet, request.amount), meta)
    /\ request' = None
    /\ UNCHANGED <<stake, court, vest, guardians>>

\* The AI proxy's payments, unsigned, at the minimum rate.
SettleTransfer ==
    /\ request # None /\ request.op = "transfer" /\ RequestOk
    /\ LET split == Charge(Transfer(TRANSFER_FEE_BPS_MIN), request.amount)
       IN  Commit(Credit(Credit(Take(request.wallet, request.amount), ApiPool, split.net),
                         Pool, split.pool),
                  Burn(meta, split, FeeMicro(split)))
    /\ request' = None
    /\ UNCHANGED outside

RequestRefused ==
    /\ request # None /\ ~RequestOk
    /\ request' = None
    /\ UNCHANGED <<trees, outside, chain, job, version, raced, rest, blocks>>

UnstakeWorkerBond(w, amount, nonce) ==
    /\ NonceOk(w, nonce)
    /\ bond[w] >= amount
    /\ bond' = [bond EXCEPT ![w] = @ - amount]
    /\ nonces' = [nonces EXCEPT ![w] = nonce]
    /\ Commit(Give(w, amount), meta)
    /\ UNCHANGED <<stake, court, vest, guardians, request>>

\* Mutant: the challenger's balance is not tested.
LockChallengerBondUnchecked(w) ==
    /\ court[w] = 0
    /\ court' = [court EXCEPT ![w] = ChallengerBond]
    /\ Commit(Take(w, ChallengerBond), meta)
    /\ UNCHANGED <<stake, bond, vest, nonces, guardians, request>>

\* One inference per challenger; no test of the vesting locks.
LockChallengerBond(w) ==
    /\ court[w] = 0
    /\ balances[w] >= ChallengerBond
    /\ court' = [court EXCEPT ![w] = ChallengerBond]
    /\ Commit(Take(w, ChallengerBond), meta)
    /\ UNCHANGED <<stake, bond, vest, nonces, guardians, request>>

SettleChallengerBond(w, valid) ==
    /\ court[w] > 0
    /\ court' = [court EXCEPT ![w] = 0]
    /\ Commit(Give(IF valid THEN w ELSE Ecosystem, court[w]), meta)
    /\ UNCHANGED <<stake, bond, vest, nonces, guardians, request>>

SlashWorkerBond(w) ==
    /\ bond[w] > 0
    /\ bond' = [bond EXCEPT ![w] = 0]
    /\ Commit(Give(Ecosystem, bond[w]), meta)
    /\ UNCHANGED <<stake, court, vest, nonces, guardians, request>>

\* Mutant: the slashed stake is not counted as burned.
SlashStakeUncounted(w, amount) ==
    /\ stake[w] >= amount
    /\ stake' = [stake EXCEPT ![w] = @ - amount]
    /\ Commit(balances, [meta EXCEPT !.supply = Monus(@, amount)])
    /\ UNCHANGED <<bond, court, vest, nonces, guardians, request>>

SlashStake(w, amount) ==
    /\ stake[w] >= amount
    /\ stake' = [stake EXCEPT ![w] = @ - amount]
    /\ Commit(balances, [meta EXCEPT !.supply = Monus(@, amount), !.burned = @ + amount])
    /\ UNCHANGED <<bond, court, vest, nonces, guardians, request>>

WithdrawTreasury(amount, nonce) ==
    /\ NonceOk(Dex, nonce)
    /\ balances[Dex] >= amount
    /\ nonces' = [nonces EXCEPT ![Dex] = nonce]
    /\ Commit(Move(Dex, Founder, amount), meta)
    /\ UNCHANGED <<stake, bond, court, vest, guardians, request>>

\* The worker handler asks only for wallets whose bond is too low.
GrantGuardian(w) ==
    /\ bond[w] < MinWorkerStake
    /\ w \notin guardians
    /\ Cardinality(guardians) < MaxGuardians
    /\ balances[Pool] >= GuardianGrant
    /\ guardians' = guardians \cup {w}
    /\ Commit(Move(Pool, w, GuardianGrant), meta)
    /\ UNCHANGED <<stake, bond, court, vest, nonces, request>>

\* The amount is the one after the uplift of early participants.
MintWorkerReward(w, amount) ==
    /\ balances[Pool] >= amount
    /\ vest' = [vest EXCEPT ![w] = @ + amount]
    /\ Commit(Move(Pool, w, amount), meta)
    /\ UNCHANGED <<stake, bond, court, nonces, guardians, request>>

\* Only the treasury's share counts as a fee.
SettleAiUtility(payer, worker, amount) ==
    LET split == Charge(AiUtility, amount)
    IN  /\ payer # worker
        /\ balances[payer] >= amount
        /\ Commit(Credit(Credit(Take(payer, amount), worker, split.net), Treasury, split.treasury),
                  Burn(meta, split, split.treasury))
        /\ UNCHANGED <<outside, request>>

SettleAiInference(payer, amount) ==
    LET split == Charge(AiInference, amount)
    IN  /\ balances[payer] >= amount
        /\ Commit(Credit(Take(payer, amount), Pool, split.pool),
                  Burn(meta, split, 0))
        /\ UNCHANGED <<outside, request>>

\* The tranches' 90 days pass.
VestUnlocks(w) ==
    /\ vest[w] > 0
    /\ vest' = [vest EXCEPT ![w] = 0]
    /\ UNCHANGED <<trees, stake, bond, court, nonces, guardians, request, chain, job,
                   version, raced, rest, blocks>>

-----------------------------------------------------------------------------
Zero == [w \in Users |-> 0]

\* A ledger after genesis: nothing staked, burned or locked yet.
Init ==
    /\ balances = GenesisBalances
    /\ meta = [supply |-> GenesisSupply, burned |-> 0, fees |-> 0, airdrops |-> 0,
               height |-> 0, applied |-> {}, tasks |-> {}, done |-> {}, registered |-> {}]
    /\ stake = Zero /\ bond = Zero /\ court = Zero /\ vest = Zero
    /\ nonces = [w \in Users \cup {Dex} |-> 0]
    /\ guardians = {}
    /\ request = None
    /\ chain = <<>>
    /\ job = Idle
    /\ version = [r \in Rows |-> 0]
    /\ raced = FALSE
    /\ rest = 0 /\ blocks = 0

\* A client signs the next nonce, or one it used.
Nonces(w) == {nonces[w], nonces[w] + 1}

BlockNext ==
    \/ \E body \in Bodies, mined \in BOOLEAN : StartBlock(body, mined)
    \/ PrepareUndo \/ ReadLedger \/ ApplyRefused \/ WriteBalances \/ WriteMeta
    \/ UndoMeta \/ UndoBalances

RestNext ==
    \/ \E w \in RestUsers, n \in Amounts :
          \/ \E nonce \in Nonces(w) :
                \/ \E op \in {"stake", "bond"} : ReadLocks(op, w, n, nonce)
                \/ UnstakeWorkerBond(w, n, nonce)
          \/ ReadLocks("transfer", w, n, 0)
          \/ SlashStake(w, n)
          \/ MintWorkerReward(w, n)
          \/ SettleAiInference(w, n)
          \/ \E worker \in Users : SettleAiUtility(w, worker, n)
    \/ StakeMicro \/ StakeWorkerBond \/ SettleTransfer \/ RequestRefused
    \/ \E w \in RestUsers :
          \/ LockChallengerBond(w)
          \/ \E valid \in BOOLEAN : SettleChallengerBond(w, valid)
          \/ SlashWorkerBond(w)
          \/ GrantGuardian(w)
          \/ VestUnlocks(w)
    \/ \E n \in Amounts, nonce \in Nonces(Dex) : WithdrawTreasury(n, nonce)

Next == BlockNext \/ RestNext

Spec == Init /\ [][Next]_vars

-----------------------------------------------------------------------------
(* Correctness.                                                            *)

\* No balance, stake, bond or counter is ever negative, in particular where
\* the code subtracts after a test made on a map or a tree it read before.
TypeOK ==
    /\ balances \in [Accounts -> Nat]
    /\ meta \in Metas
    /\ stake \in [Users -> Nat] /\ bond \in [Users -> Nat]
    /\ court \in [Users -> Nat] /\ vest \in [Users -> Nat]
    /\ guardians \subseteq Users

Money == SumFunction(balances) + SumFunction(stake) + SumFunction(bond) + SumFunction(court)

\* Between the two writes of an apply or of an unwind nothing is claimed.
Settled == job.step \notin {"written", "unwinding"}

\* FEE_SPEC 1.1, 1.3: what is in the wallets, stakes and bonds is the total
\* supply, after every apply, unwind and REST operation in any order, unless
\* a block overwrote a row a REST operation had written meanwhile.
Conserved == Settled /\ ~raced => Money = meta.supply

\* What left the supply was burned: the two counters move together, also where a block
\* writes back the counters it read before a REST operation burned, and where an unwind
\* restores them.  They add up to the genesis supply; only money a race made can burn the
\* supply below nothing, where it stays at zero.
BurnAccounted ==
    /\ meta.supply = Monus(GenesisSupply, meta.burned)
    /\ Settled /\ ~raced => meta.supply + meta.burned = GenesisSupply

\* No negative amount anywhere, the wallets, stakes and bonds hold the supply, and what is
\* missing from it was burned.
MoneySound == TypeOK /\ Conserved /\ BurnAccounted

\* The root the block's id commits to is the one apply returns, unless a REST
\* operation wrote balances after the preview ("the value returned by
\* apply_consensus_block_batch below is identical", consensus.rs).
PreviewMatchesApply ==
    job.step = "computed" /\ job.out.bal # job.root =>
        \E a \in Accounts : job.read[a] # job.seen[a]

\* Each marker and the recipient counter stand for the recorded blocks,
\* whatever was unwound: nothing is settled twice or barred for ever.
MarkersMatchChain ==
    job = Idle /\ ~raced =>
        LET held == UNION {Range(chain[i].body) : i \in DOMAIN chain}
        IN  /\ meta.height = Len(chain)
            /\ meta.applied \subseteq held
            /\ held \ (meta.applied \cup Tasks) \subseteq Airdrops
            /\ meta.airdrops = Cardinality(meta.applied \cap Airdrops)
            /\ meta.tasks = held \cap Tasks

\* Unwinding a block restores every row to what it was before the block,
\* except rows REST operations wrote since: the undo set, derived from the
\* transactions, covers whatever the apply wrote.
UndoIsExact ==
    [][UndoBalances /\ ~raced' =>
         LET b == Last(chain)
         IN  /\ \A a \in Accounts :
                   version[a] = b.prep[a] => balances'[a] = b.before.balances[a]
             /\ version[Counters] = b.prep[Counters] => meta = b.before.meta]_vars
===============================================================================
