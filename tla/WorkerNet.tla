------------------------------- MODULE WorkerNet -------------------------------
(***************************************************************************)
(* The workers a node knows: their bonds on the ledger, the registry of    *)
(* heartbeats in memory (tet-core/src/worker_network.rs), their CAAC role, *)
(* and the queue of end-to-end encrypted jobs (rest/handlers/worker.rs).   *)
(* A bond is one sled transaction; registry and queue have a lock each,    *)
(* and a handler that reads the bond before it takes the registry's lock,  *)
(* or writes the ledger before it takes it, is two steps.                  *)
(***************************************************************************)
EXTENDS Naturals, FiniteSets, Sequences, SequencesExt, FiniteSetsExt, Functions

CONSTANTS
    NetWorker,      \* wallets that register as workers
    NetJob,         \* job ids (random in the code, never reused)
    MinBond,        \* MIN_WORKER_STAKE_MICRO; stakes and unstakes move this much
    GuardianGrant,  \* GENESIS_GUARDIAN_GRANT_MICRO
    GuardianPlaces, \* GENESIS_GUARDIANS_TOTAL
    PoolStart,      \* system:worker_pool
    LiquidStart,    \* [NetWorker -> Nat]
    MaxRegistering, \* bound: register requests under way at once
    MaxNetNonce, MaxNetRestarts, MaxCaac    \* bounds

ASSUME WorkerNetAssumption ==
    /\ IsFiniteSet(NetWorker) /\ IsFiniteSet(NetJob)
    /\ LiquidStart \in [NetWorker -> Nat]
    /\ MinBond \in Nat \ {0} /\ GuardianGrant \in Nat \ {0}
    /\ GuardianPlaces \in Nat /\ PoolStart \in Nat
    /\ MaxRegistering \in Nat /\ MaxNetNonce \in Nat /\ MaxNetRestarts \in Nat /\ MaxCaac \in Nat
    /\ "-" \notin NetWorker       \* a wallet id is never empty

VARIABLES
    coins,      \* [pool, eco, liquid, bond]: the wallets on the ledger
    guardians,  \* wallets that had their grant
    bondNonce,  \* wallet nonce log
    entries,    \* WorkerRegistry::by_wallet
    registering,\* register requests past the bond check: [w, keys]
    record,     \* CAAC records on the ledger
    completing, \* caac completions past their ledger write: the role still to be set
    jobBook,    \* E2eeJobQueue::jobs
    queue,      \* E2eeJobQueue::pending_by_worker
    netRuns     \* history: times a job was handed out, overlapping completions; restarts

netVars == <<coins, guardians, bondNonce, entries, registering, record, completing, jobBook, queue, netRuns>>

NoEntry == [keys |-> FALSE, role |-> "unknown"]
\* "-" stands for an empty string.
NoJob == [to |-> "-", done |-> FALSE]
Listed(w) == entries[w] # NoEntry
IsActiveWorker(w) == coins.bond[w] >= MinBond

(***************************************************************************)
(* Bonds                                                                   *)
(***************************************************************************)
Bonded(c, w) == [c EXCEPT !.liquid[w] = @ - MinBond, !.bond[w] = @ + MinBond]
\* stake_worker_bond_micro: the nonce is past the last one and the balance covers it.
StakeBond(w, n) ==
    /\ n > bondNonce[w] /\ coins.liquid[w] >= MinBond
    /\ coins' = Bonded(coins, w)
    /\ bondNonce' = [bondNonce EXCEPT ![w] = n]
    /\ UNCHANGED <<guardians, entries, registering, record, completing, jobBook, queue, netRuns>>

\* Mutant: the money comes back and the bond stays.
UnstakeKeepsBond(c, w) == [c EXCEPT !.liquid[w] = @ + MinBond]
Unbonded(c, w) == [c EXCEPT !.liquid[w] = @ + MinBond, !.bond[w] = @ - MinBond]
\* unstake_worker_bond_micro; the registry is not told.
UnstakeBond(w, n) ==
    /\ n > bondNonce[w] /\ coins.bond[w] >= MinBond
    /\ coins' = Unbonded(coins, w)
    /\ bondNonce' = [bondNonce EXCEPT ![w] = n]
    /\ UNCHANGED <<guardians, entries, registering, record, completing, jobBook, queue, netRuns>>

\* grant_genesis_guardian_if_eligible, the first time a wallet without a bond registers.
GrantDue(w) ==
    /\ w \notin guardians /\ Cardinality(guardians) < GuardianPlaces /\ coins.pool >= GuardianGrant
GrantGuardian(w) ==
    /\ ~IsActiveWorker(w) /\ GrantDue(w)
    /\ coins' = [coins EXCEPT !.pool = @ - GuardianGrant, !.liquid[w] = @ + GuardianGrant]
    /\ guardians' = guardians \cup {w}
    /\ UNCHANGED <<bondNonce, entries, registering, record, completing, jobBook, queue, netRuns>>

\* A verdict of the court takes the whole bond (ZkCourt models how it comes to it).
CourtTakesBond(w) ==
    /\ coins.bond[w] > 0
    /\ coins' = [coins EXCEPT !.eco = @ + coins.bond[w], !.bond[w] = 0]
    /\ UNCHANGED <<guardians, bondNonce, entries, registering, record, completing, jobBook, queue, netRuns>>

(***************************************************************************)
(* The registry                                                            *)
(***************************************************************************)
\* POST /worker/register up to the registry's lock: not the founder, the bond is there.
RegisterCheck(w, keys) ==
    /\ IsActiveWorker(w)
    /\ registering' = registering \cup {[w |-> w, keys |-> keys]}
    /\ registering' # registering /\ Cardinality(registering) < MaxRegistering
    /\ UNCHANGED <<coins, guardians, bondNonce, entries, record, completing, jobBook, queue, netRuns>>
\* WorkerRegistry::heartbeat: the role survives, everything else is replaced. (Its time
\* decides which workers are shown or picked, and is left out: any listed one may be.)
RegisterWrite(r) ==
    /\ entries' = [entries EXCEPT ![r.w] = [keys |-> r.keys,
                                            role |-> IF Listed(r.w) THEN @.role ELSE "none"]]
    /\ registering' = registering \ {r}
    /\ UNCHANGED <<coins, guardians, bondNonce, record, completing, jobBook, queue, netRuns>>

\* A worker found without its bond, by an enterprise request that picked it or by an
\* admin's slash of its stake, leaves the registry.
RemoveWallet(w) ==
    /\ Listed(w) /\ ~IsActiveWorker(w)
    /\ entries' = [entries EXCEPT ![w] = NoEntry]
    /\ UNCHANGED <<coins, guardians, bondNonce, registering, record, completing, jobBook, queue, netRuns>>

\* post_vision_caac_complete: digest and bond checked, the record goes to the ledger ...
CaacComplete(w, role) ==
    /\ IsActiveWorker(w) /\ netRuns.caac < MaxCaac
    /\ record' = [record EXCEPT ![w] = role]
    /\ completing' = Append(completing, [w |-> w, role |-> role])
    /\ netRuns' = [netRuns EXCEPT !.caac = @ + 1,
                                  !.overlap = @ \/ \E i \in DOMAIN completing : completing[i].w = w]
    /\ UNCHANGED <<coins, guardians, bondNonce, entries, registering, jobBook, queue>>
\* ... and the role to the registry, if the worker is there (set_caac_role).
SetCaacRole(i) ==
    /\ LET c == completing[i]
       IN  entries' = IF Listed(c.w) THEN [entries EXCEPT ![c.w].role = c.role] ELSE entries
    /\ completing' = RemoveAt(completing, i)
    /\ UNCHANGED <<coins, guardians, bondNonce, registering, record, jobBook, queue, netRuns>>

(***************************************************************************)
(* Jobs                                                                    *)
(***************************************************************************)
\* enqueue_compute_e2ee_job: for a listed worker with its keys, fresh heartbeat or not.
SubmitJob(j, w) ==
    /\ jobBook[j] = NoJob /\ netRuns.taken[j] = 0
    /\ Listed(w) /\ entries[w].keys
    /\ jobBook' = [jobBook EXCEPT ![j] = [to |-> w, done |-> FALSE]]
    /\ queue' = [queue EXCEPT ![w] = Append(@, j)]
    /\ UNCHANGED <<coins, guardians, bondNonce, entries, registering, record, completing, netRuns>>

\* The first job of a queue that is not completed: those before it are dropped on the way.
Waiting(q) == {i \in DOMAIN q : ~jobBook[q[i]].done}
\* Mutant: the job handed out stays at the head of its queue.
PopPeeks(q) == IF Waiting(q) = {} THEN [job |-> {}, rest |-> <<>>]
               ELSE [job |-> {q[Min(Waiting(q))]}, rest |-> SubSeq(q, Min(Waiting(q)), Len(q))]
PopFront(q) == IF Waiting(q) = {} THEN [job |-> {}, rest |-> <<>>]
               ELSE [job |-> {q[Min(Waiting(q))]}, rest |-> SubSeq(q, Min(Waiting(q)) + 1, Len(q))]
\* GET /worker/e2ee/next: whatever is popped is gone, the answer lost or not.
NextJob(w) ==
    /\ queue[w] # <<>>
    /\ LET p == PopFront(queue[w])
       IN  /\ queue' = [queue EXCEPT ![w] = p.rest]
           /\ netRuns' = [netRuns EXCEPT !.taken = [j \in NetJob |-> IF j \in p.job THEN @[j] + 1 ELSE @[j]]]
    /\ UNCHANGED <<coins, guardians, bondNonce, entries, registering, record, completing, jobBook>>

\* POST /worker/e2ee/complete: by the job's own worker, handed out or not, once or again.
CompleteJob(w, j) ==
    /\ jobBook[j] # NoJob /\ jobBook[j].to = w
    /\ jobBook' = [jobBook EXCEPT ![j].done = TRUE]
    /\ UNCHANGED <<coins, guardians, bondNonce, entries, registering, record, completing, queue, netRuns>>

\* The ledger stays; registry, queue and requests under way go.
NetRestart ==
    /\ netRuns.restarts < MaxNetRestarts
    /\ netRuns' = [netRuns EXCEPT !.restarts = @ + 1,
                                  !.taken = [j \in NetJob |-> IF jobBook[j] # NoJob THEN Max({1, @[j]}) ELSE @[j]]]
    /\ entries' = [w \in NetWorker |-> NoEntry] /\ registering' = {} /\ completing' = <<>>
    /\ jobBook' = [j \in NetJob |-> NoJob] /\ queue' = [w \in NetWorker |-> <<>>]
    /\ UNCHANGED <<coins, guardians, bondNonce, record>>

NetInit ==
    /\ coins = [pool |-> PoolStart, eco |-> 0, liquid |-> LiquidStart, bond |-> [w \in NetWorker |-> 0]]
    /\ guardians = {} /\ bondNonce = [w \in NetWorker |-> 0]
    /\ entries = [w \in NetWorker |-> NoEntry] /\ registering = {}
    /\ record = [w \in NetWorker |-> "none"] /\ completing = <<>>
    /\ jobBook = [j \in NetJob |-> NoJob] /\ queue = [w \in NetWorker |-> <<>>]
    /\ netRuns = [taken |-> [j \in NetJob |-> 0], overlap |-> FALSE, caac |-> 0, restarts |-> 0]

NetNext ==
    \/ \E w \in NetWorker, n \in 1..MaxNetNonce : StakeBond(w, n) \/ UnstakeBond(w, n)
    \/ \E w \in NetWorker : \/ GrantGuardian(w) \/ CourtTakesBond(w) \/ RemoveWallet(w) \/ NextJob(w)
                            \/ \E keys \in BOOLEAN : RegisterCheck(w, keys)
                            \/ \E role \in {"POC", "POR"} : CaacComplete(w, role)
                            \/ \E j \in NetJob : SubmitJob(j, w) \/ CompleteJob(w, j)
    \/ \E r \in registering : RegisterWrite(r)
    \/ \E i \in DOMAIN completing : SetCaacRole(i)
    \/ NetRestart

NetSpec == NetInit /\ [][NetNext]_netVars

(***************************************************************************)
(* Properties                                                              *)
(***************************************************************************)
\* Types of the bonds, the registry and the job queue.
NetTypeOK ==
    /\ coins \in [pool : Nat, eco : Nat, liquid : [NetWorker -> Nat], bond : [NetWorker -> Nat]]
    /\ guardians \subseteq NetWorker /\ bondNonce \in [NetWorker -> 0..MaxNetNonce]
    /\ entries \in [NetWorker -> [keys : BOOLEAN, role : {"unknown", "none", "POC", "POR"}]]
    /\ jobBook \in [NetJob -> [to : NetWorker \cup {"-"}, done : BOOLEAN]]
    /\ \A w \in NetWorker : Range(queue[w]) \subseteq NetJob

\* A job is in the queue of its own worker, once, until it is handed out, and it is handed
\* out at most once (enqueue_compute_e2ee_job, get_worker_e2ee_next).
JobsAccounted ==
    \A j \in NetJob :
        /\ netRuns.taken[j] <= 1
        /\ \A w \in NetWorker : Cardinality({i \in DOMAIN queue[w] : queue[w][i] = j}) <=
                                    (IF jobBook[j].to = w /\ netRuns.taken[j] = 0 THEN 1 ELSE 0)
        /\ jobBook[j] # NoJob /\ ~jobBook[j].done /\ netRuns.taken[j] = 0 => Contains(queue[jobBook[j].to], j)

\* Grants, bonds and the court's slash move coins and make none; the grants stay within the
\* places and a wallet gets one (grant_genesis_guardian_if_eligible).
BondsConserved ==
    /\ coins.pool + coins.eco + SumFunction(coins.liquid) + SumFunction(coins.bond)
         = PoolStart + SumFunction(LiquidStart)
    /\ PoolStart - coins.pool = GuardianGrant * Cardinality(guardians)
    /\ Cardinality(guardians) <= GuardianPlaces

\* The role the registry shows is the one on the ledger, once no completion is under way and
\* unless two of one wallet overlapped (caac_put_worker_record, set_caac_role).
RolesAgree ==
    completing = <<>> /\ ~netRuns.overlap =>
        \A w \in NetWorker : Listed(w) => entries[w].role \in {"none", record[w]}

\* Jobs, bonds and roles of the worker network.
WorkersSound == NetTypeOK /\ JobsAccounted /\ BondsConserved /\ RolesAgree

\* What the refusal in post_worker_register_impl is for ("workers must maintain minimum
\* stake"): it does not hold of the code, which leaves an unstaked worker in the registry.
ListedIsBonded == \A w \in NetWorker : Listed(w) => IsActiveWorker(w)
================================================================================
