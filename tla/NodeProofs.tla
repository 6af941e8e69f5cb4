------------------------------ MODULE NodeProofs ------------------------------
(*****************************************************************************)
(* Proofs about what keeps a node going: the worker network, the gate of the *)
(* auto-miner, the guards of the API and of the swarm loop, and the start of *)
(* the ledger with what survives a crash.                                    *)
(*****************************************************************************)
EXTENDS LedgerBoot, WorkerNet, MiningGate, NodeGuards, DataLemmas

-----------------------------------------------------------------------------
(* The worker network.                                                       *)

\* What the registry holds of a worker, a job and a completion.
NetEntries == [keys : BOOLEAN, role : {"unknown", "none", "POC", "POR"}]
NetJobs == [to : NetWorker \cup {"-"}, done : BOOLEAN]
Completions == [w : NetWorker, role : {"POC", "POR"}]

\* Bonds, registry, roles, jobs and queues have their types; a job was handed out at most
\* once.
NetTypes ==
    /\ coins \in [pool : Nat, eco : Nat, liquid : [NetWorker -> Nat], bond : [NetWorker -> Nat]]
    /\ guardians \in SUBSET NetWorker /\ bondNonce \in [NetWorker -> 0..MaxNetNonce]
    /\ entries \in [NetWorker -> NetEntries]
    /\ registering \in SUBSET [w : NetWorker, keys : BOOLEAN]
    /\ record \in [NetWorker -> {"none", "POC", "POR"}]
    /\ completing \in Seq(Completions)
    /\ jobBook \in [NetJob -> NetJobs]
    /\ queue \in [NetWorker -> Seq(NetJob)]
    /\ netRuns \in [taken : [NetJob -> {0, 1}], overlap : BOOLEAN, caac : Nat, restarts : Nat]

\* Each queue holds jobs of its own worker that nobody was handed, each once.
QueueOwn ==
    \A w \in NetWorker : \A i \in 1..Len(queue[w]) :
        jobBook[queue[w][i]].to = w /\ netRuns.taken[queue[w][i]] = 0
\* No queue holds a job twice.
QueueOnce ==
    \A w \in NetWorker : \A i, k \in 1..Len(queue[w]) : queue[w][i] = queue[w][k] => i = k
\* A job submitted, not completed and not handed out is in its worker's queue.
JobsQueued ==
    \A j \in NetJob :
        jobBook[j] # NoJob /\ ~jobBook[j].done /\ netRuns.taken[j] = 0
        => /\ jobBook[j].to \in NetWorker
           /\ \E i \in 1..Len(queue[jobBook[j].to]) : queue[jobBook[j].to][i] = j
\* A job on the books has a worker.
BookNamed == \A j \in NetJob : jobBook[j] # NoJob => jobBook[j].to \in NetWorker

\* Coins are conserved, the grants are what the pool lost, and within the places.
CoinsKept ==
    /\ coins.pool + coins.eco + SumFunctionOnSet(coins.liquid, NetWorker) + SumFunctionOnSet(coins.bond, NetWorker)
         = PoolStart + SumFunctionOnSet(LiquidStart, NetWorker)
    /\ coins.pool + GuardianGrant * Cardinality(guardians) = PoolStart
    /\ Cardinality(guardians) <= GuardianPlaces

\* Unless two completions of one wallet overlapped, each is alone and brings the role on
\* the ledger.
CompletingOnce ==
    ~netRuns.overlap =>
        /\ \A i, k \in 1..Len(completing) : completing[i].w = completing[k].w => i = k
        /\ \A i \in 1..Len(completing) : completing[i].role = record[completing[i].w]
\* Then a listed role is the ledger's, or a completion will make it so.
RolesPending ==
    ~netRuns.overlap =>
        \A w \in NetWorker : Listed(w) =>
            \/ entries[w].role \in {"none", record[w]}
            \/ \E i \in 1..Len(completing) : completing[i].w = w

JobsInv == QueueOwn /\ QueueOnce /\ JobsQueued /\ BookNamed
RolesInv == CompletingOnce /\ RolesPending
\* The inductive invariant of the worker network.
NetInv == NetTypes /\ JobsInv /\ CoinsKept /\ RolesInv

\* The assumptions on the constants, one by one.
LEMMA NetNats ==
    /\ IsFiniteSet(NetWorker) /\ LiquidStart \in [NetWorker -> Nat]
    /\ MinBond \in Nat \ {0} /\ GuardianGrant \in Nat \ {0} /\ GuardianPlaces \in Nat /\ PoolStart \in Nat
    /\ "-" \notin NetWorker
BY WorkerNetAssumption

\* Where coins may go in one transaction: between the pool, the ecosystem wallet and one
\* worker's balance and bond, what leaves one arriving at another.
LEMMA CoinsMove ==
    ASSUME NetInv, NEW w \in NetWorker,
           coins' \in [pool : Nat, eco : Nat, liquid : [NetWorker -> Nat], bond : [NetWorker -> Nat]],
           \A v \in NetWorker : v # w => coins'.liquid[v] = coins.liquid[v] /\ coins'.bond[v] = coins.bond[v],
           coins'.pool + coins'.eco + coins'.liquid[w] + coins'.bond[w]
             = coins.pool + coins.eco + coins.liquid[w] + coins.bond[w]
    PROVE  coins'.pool + coins'.eco + SumFunctionOnSet(coins'.liquid, NetWorker)
             + SumFunctionOnSet(coins'.bond, NetWorker) = PoolStart + SumFunctionOnSet(LiquidStart, NetWorker)
<1>1. /\ coins.liquid \in [NetWorker -> Nat] /\ coins.bond \in [NetWorker -> Nat]
      /\ coins.pool \in Nat /\ coins.eco \in Nat
      /\ coins'.liquid \in [NetWorker -> Nat] /\ coins'.bond \in [NetWorker -> Nat]
      /\ coins'.pool \in Nat /\ coins'.eco \in Nat
  BY DEF NetInv, NetTypes
<1>2. /\ SumFunctionOnSet(coins'.liquid, NetWorker)
           = SumFunctionOnSet(coins.liquid, NetWorker) - coins.liquid[w] + coins'.liquid[w]
      /\ SumFunctionOnSet(coins'.bond, NetWorker)
           = SumFunctionOnSet(coins.bond, NetWorker) - coins.bond[w] + coins'.bond[w]
  BY <1>1, NetNats, SumChange
<1>3. SumFunctionOnSet(coins.liquid, NetWorker) \in Int /\ SumFunctionOnSet(coins.bond, NetWorker) \in Int
  BY <1>1, NetNats, SumInt
<1>4. coins.pool + coins.eco + SumFunctionOnSet(coins.liquid, NetWorker) + SumFunctionOnSet(coins.bond, NetWorker)
        = PoolStart + SumFunctionOnSet(LiquidStart, NetWorker)
  BY DEF NetInv, CoinsKept
<1>5. coins.liquid[w] \in Nat /\ coins.bond[w] \in Nat /\ coins'.liquid[w] \in Nat /\ coins'.bond[w] \in Nat
  BY <1>1
<1> QED
  BY <1>1, <1>2, <1>3, <1>4, <1>5

\* A transaction on bonds leaves registry, roles and jobs alone.
LEMMA LedgerOnly ==
    ASSUME NetInv, CoinsKept',
           coins' \in [pool : Nat, eco : Nat, liquid : [NetWorker -> Nat], bond : [NetWorker -> Nat]],
           guardians' \in SUBSET NetWorker, bondNonce' \in [NetWorker -> 0..MaxNetNonce],
           UNCHANGED <<entries, registering, record, completing, jobBook, queue, netRuns>>
    PROVE  NetInv'
<1>1. /\ entries' = entries /\ registering' = registering /\ record' = record /\ completing' = completing
      /\ jobBook' = jobBook /\ queue' = queue /\ netRuns' = netRuns
  OBVIOUS
<1>2. NetTypes'
  BY <1>1 DEF NetInv, NetTypes
<1>3. JobsInv'
  BY <1>1 DEF NetInv, JobsInv, QueueOwn, QueueOnce, JobsQueued, BookNamed
<1>4. RolesInv'
  BY <1>1 DEF NetInv, RolesInv, CompletingOnce, RolesPending, Listed
<1> QED BY <1>2, <1>3, <1>4 DEF NetInv

\* The parts of the ledger's coins.
LEMMA CoinFacts ==
    ASSUME NetInv, NEW w \in NetWorker
    PROVE  /\ coins.pool \in Nat /\ coins.eco \in Nat /\ coins.liquid[w] \in Nat /\ coins.bond[w] \in Nat
           /\ coins.liquid \in [NetWorker -> Nat] /\ coins.bond \in [NetWorker -> Nat]
           /\ coins = [pool |-> coins.pool, eco |-> coins.eco, liquid |-> coins.liquid, bond |-> coins.bond]
           /\ coins.pool + GuardianGrant * Cardinality(guardians) = PoolStart
           /\ Cardinality(guardians) <= GuardianPlaces
BY DEF NetInv, NetTypes, CoinsKept

\* stake_worker_bond_micro keeps the invariant.
LEMMA StakeKeeps ==
    ASSUME NetInv, NEW w \in NetWorker, NEW n \in 1..MaxNetNonce, StakeBond(w, n)
    PROVE  NetInv'
<1>0. coins' = [pool |-> coins.pool, eco |-> coins.eco,
                liquid |-> [coins.liquid EXCEPT ![w] = coins.liquid[w] - MinBond],
                bond |-> [coins.bond EXCEPT ![w] = coins.bond[w] + MinBond]]
  BY DEF StakeBond, Bonded, NetInv, NetTypes
<1>00. coins.liquid[w] >= MinBond
  BY DEF StakeBond
<1>1. /\ coins'.pool = coins.pool /\ coins'.eco = coins.eco
      /\ coins'.liquid = [coins.liquid EXCEPT ![w] = @ - MinBond]
      /\ coins'.bond = [coins.bond EXCEPT ![w] = @ + MinBond]
      /\ coins' \in [pool : Nat, eco : Nat, liquid : [NetWorker -> Nat], bond : [NetWorker -> Nat]]
  BY <1>0, <1>00, NetNats, CoinFacts
<1>2. coins'.pool + coins'.eco + coins'.liquid[w] + coins'.bond[w]
        = coins.pool + coins.eco + coins.liquid[w] + coins.bond[w]
  BY <1>1, CoinFacts, NetNats
<1>3. \A v \in NetWorker : v # w => coins'.liquid[v] = coins.liquid[v] /\ coins'.bond[v] = coins.bond[v]
  BY <1>1, CoinFacts
<1>4. coins'.pool + coins'.eco + SumFunctionOnSet(coins'.liquid, NetWorker)
        + SumFunctionOnSet(coins'.bond, NetWorker) = PoolStart + SumFunctionOnSet(LiquidStart, NetWorker)
  BY <1>1, <1>2, <1>3, CoinsMove
<1>5. guardians' = guardians
  BY DEF StakeBond
<1>6. CoinsKept'
  BY <1>1, <1>4, <1>5, CoinFacts DEF CoinsKept
<1>7. guardians' \in SUBSET NetWorker /\ bondNonce' \in [NetWorker -> 0..MaxNetNonce]
  BY DEF StakeBond, NetInv, NetTypes
<1> QED BY <1>1, <1>6, <1>7, LedgerOnly DEF StakeBond

\* unstake_worker_bond_micro keeps the invariant.
LEMMA UnstakeKeeps ==
    ASSUME NetInv, NEW w \in NetWorker, NEW n \in 1..MaxNetNonce, UnstakeBond(w, n)
    PROVE  NetInv'
<1>0. coins' = [pool |-> coins.pool, eco |-> coins.eco,
                liquid |-> [coins.liquid EXCEPT ![w] = coins.liquid[w] + MinBond],
                bond |-> [coins.bond EXCEPT ![w] = coins.bond[w] - MinBond]]
  BY DEF UnstakeBond, Unbonded, NetInv, NetTypes
<1>00. coins.bond[w] >= MinBond
  BY DEF UnstakeBond
<1>1. /\ coins'.pool = coins.pool /\ coins'.eco = coins.eco
      /\ coins'.liquid = [coins.liquid EXCEPT ![w] = @ + MinBond]
      /\ coins'.bond = [coins.bond EXCEPT ![w] = @ - MinBond]
      /\ coins' \in [pool : Nat, eco : Nat, liquid : [NetWorker -> Nat], bond : [NetWorker -> Nat]]
  BY <1>0, <1>00, NetNats, CoinFacts
<1>2. coins'.pool + coins'.eco + coins'.liquid[w] + coins'.bond[w]
        = coins.pool + coins.eco + coins.liquid[w] + coins.bond[w]
  BY <1>1, CoinFacts, NetNats
<1>3. \A v \in NetWorker : v # w => coins'.liquid[v] = coins.liquid[v] /\ coins'.bond[v] = coins.bond[v]
  BY <1>1, CoinFacts
<1>4. coins'.pool + coins'.eco + SumFunctionOnSet(coins'.liquid, NetWorker)
        + SumFunctionOnSet(coins'.bond, NetWorker) = PoolStart + SumFunctionOnSet(LiquidStart, NetWorker)
  BY <1>1, <1>2, <1>3, CoinsMove
<1>5. guardians' = guardians
  BY DEF UnstakeBond
<1>6. CoinsKept'
  BY <1>1, <1>4, <1>5, CoinFacts DEF CoinsKept
<1>7. guardians' \in SUBSET NetWorker /\ bondNonce' \in [NetWorker -> 0..MaxNetNonce]
  BY DEF UnstakeBond, NetInv, NetTypes
<1> QED BY <1>1, <1>6, <1>7, LedgerOnly DEF UnstakeBond

\* The court's slash of a bond keeps the invariant.
LEMMA TakeKeeps ==
    ASSUME NetInv, NEW w \in NetWorker, CourtTakesBond(w)
    PROVE  NetInv'
<1>0. coins' = [pool |-> coins.pool, eco |-> coins.eco + coins.bond[w],
                liquid |-> coins.liquid,
                bond |-> [coins.bond EXCEPT ![w] = 0]]
  BY DEF CourtTakesBond, NetInv, NetTypes
<1>1. /\ coins'.pool = coins.pool /\ coins'.eco = coins.eco + coins.bond[w]
      /\ coins'.liquid = coins.liquid
      /\ coins'.bond = [coins.bond EXCEPT ![w] = 0]
      /\ coins' \in [pool : Nat, eco : Nat, liquid : [NetWorker -> Nat], bond : [NetWorker -> Nat]]
  BY <1>0, CoinFacts
<1>2. coins'.pool + coins'.eco + coins'.liquid[w] + coins'.bond[w]
        = coins.pool + coins.eco + coins.liquid[w] + coins.bond[w]
  BY <1>1, CoinFacts, NetNats
<1>3. \A v \in NetWorker : v # w => coins'.liquid[v] = coins.liquid[v] /\ coins'.bond[v] = coins.bond[v]
  BY <1>1, CoinFacts
<1>4. coins'.pool + coins'.eco + SumFunctionOnSet(coins'.liquid, NetWorker)
        + SumFunctionOnSet(coins'.bond, NetWorker) = PoolStart + SumFunctionOnSet(LiquidStart, NetWorker)
  BY <1>1, <1>2, <1>3, CoinsMove
<1>5. guardians' = guardians
  BY DEF CourtTakesBond
<1>6. CoinsKept'
  BY <1>1, <1>4, <1>5, CoinFacts DEF CoinsKept
<1>7. guardians' \in SUBSET NetWorker /\ bondNonce' \in [NetWorker -> 0..MaxNetNonce]
  BY DEF CourtTakesBond, NetInv, NetTypes
<1> QED BY <1>1, <1>6, <1>7, LedgerOnly DEF CourtTakesBond

\* grant_genesis_guardian_if_eligible keeps the invariant.
LEMMA GrantKeeps ==
    ASSUME NetInv, NEW w \in NetWorker, GrantGuardian(w)
    PROVE  NetInv'
<1>0. coins' = [pool |-> coins.pool - GuardianGrant, eco |-> coins.eco,
                liquid |-> [coins.liquid EXCEPT ![w] = coins.liquid[w] + GuardianGrant],
                bond |-> coins.bond]
  BY DEF GrantGuardian, GrantDue, NetInv, NetTypes
<1>00. coins.pool >= GuardianGrant
  BY DEF GrantGuardian, GrantDue
<1>1. /\ coins'.pool = coins.pool - GuardianGrant /\ coins'.eco = coins.eco
      /\ coins'.liquid = [coins.liquid EXCEPT ![w] = @ + GuardianGrant]
      /\ coins'.bond = coins.bond
      /\ coins' \in [pool : Nat, eco : Nat, liquid : [NetWorker -> Nat], bond : [NetWorker -> Nat]]
  BY <1>0, <1>00, NetNats, CoinFacts
<1>2. coins'.pool + coins'.eco + coins'.liquid[w] + coins'.bond[w]
        = coins.pool + coins.eco + coins.liquid[w] + coins.bond[w]
  BY <1>1, CoinFacts, NetNats
<1>3. \A v \in NetWorker : v # w => coins'.liquid[v] = coins.liquid[v] /\ coins'.bond[v] = coins.bond[v]
  BY <1>1, CoinFacts
<1>4. coins'.pool + coins'.eco + SumFunctionOnSet(coins'.liquid, NetWorker)
        + SumFunctionOnSet(coins'.bond, NetWorker) = PoolStart + SumFunctionOnSet(LiquidStart, NetWorker)
  BY <1>1, <1>2, <1>3, CoinsMove
<1>5. Cardinality(guardians') = Cardinality(guardians) + 1 /\ Cardinality(guardians) \in Nat
  <2>1. IsFiniteSet(guardians)
    BY NetNats, FS_Subset DEF NetInv, NetTypes
  <2> QED BY <2>1, FS_AddElement, FS_CardinalityType DEF GrantGuardian, GrantDue
<1>6. coins'.pool + GuardianGrant * Cardinality(guardians') = PoolStart
  BY <1>1, <1>5, CoinFacts, NetNats
<1>7. Cardinality(guardians') <= GuardianPlaces
  BY <1>5, NetNats DEF GrantGuardian, GrantDue
<1>8. CoinsKept'
  BY <1>4, <1>6, <1>7 DEF CoinsKept
<1>9. guardians' \in SUBSET NetWorker /\ bondNonce' \in [NetWorker -> 0..MaxNetNonce]
  BY DEF GrantGuardian, NetInv, NetTypes
<1> QED BY <1>1, <1>8, <1>9, LedgerOnly DEF GrantGuardian

\* A step that leaves the coins alone conserves them.
LEMMA SameCoins ==
    ASSUME NetInv, coins' = coins, guardians' = guardians
    PROVE  CoinsKept'
BY DEF NetInv, CoinsKept

\* A step that leaves the jobs alone keeps what is said of them.
LEMMA SameJobs ==
    ASSUME NetInv, jobBook' = jobBook, queue' = queue, netRuns'.taken = netRuns.taken
    PROVE  JobsInv'
BY DEF NetInv, JobsInv, QueueOwn, QueueOnce, JobsQueued, BookNamed

\* A step that leaves the registry and the records alone keeps what is said of the roles.
LEMMA SameRoles ==
    ASSUME NetInv, entries' = entries, record' = record, completing' = completing, netRuns'.overlap = netRuns.overlap
    PROVE  RolesInv'
BY DEF NetInv, RolesInv, CompletingOnce, RolesPending, Listed

\* post_worker_register up to the lock keeps the invariant.
LEMMA RegisterCheckKeeps ==
    ASSUME NetInv, NEW w \in NetWorker, NEW keys \in BOOLEAN, RegisterCheck(w, keys)
    PROVE  NetInv'
<1>1. NetTypes'
  BY DEF RegisterCheck, NetInv, NetTypes
<1> QED BY <1>1, SameCoins, SameJobs, SameRoles DEF RegisterCheck, NetInv

\* WorkerRegistry::heartbeat keeps the role, and the invariant.
LEMMA RegisterWriteKeeps ==
    ASSUME NetInv, NEW r \in registering, RegisterWrite(r)
    PROVE  NetInv'
<1>1. r.w \in NetWorker /\ r.keys \in BOOLEAN
  BY DEF NetInv, NetTypes
<1> DEFINE e == [keys |-> r.keys, role |-> IF Listed(r.w) THEN entries[r.w].role ELSE "none"]
<1>2. entries' = [entries EXCEPT ![r.w] = e] /\ registering' \in SUBSET [w : NetWorker, keys : BOOLEAN]
  BY DEF RegisterWrite, NetInv, NetTypes
<1>3. e \in NetEntries /\ e.role = IF Listed(r.w) THEN entries[r.w].role ELSE "none"
  BY <1>1 DEF NetInv, NetTypes, NetEntries
<1> HIDE DEF e
<1>4. /\ coins' = coins /\ guardians' = guardians /\ bondNonce' = bondNonce /\ record' = record
      /\ completing' = completing /\ jobBook' = jobBook /\ queue' = queue /\ netRuns' = netRuns
  BY DEF RegisterWrite
<1>5. NetTypes'
  BY <1>1, <1>2, <1>3, <1>4 DEF NetInv, NetTypes
<1>6. RolesInv'
  <2>1. CompletingOnce'
    BY <1>4 DEF NetInv, RolesInv, CompletingOnce
  <2>2. \A w \in NetWorker : entries'[w] = IF w = r.w THEN e ELSE entries[w]
    BY <1>1, <1>2 DEF NetInv, NetTypes
  <2>3. RolesPending'
    BY <1>3, <1>4, <2>2 DEF NetInv, RolesInv, RolesPending, Listed
  <2> QED BY <2>1, <2>3 DEF RolesInv
<1> QED BY <1>4, <1>5, <1>6, SameCoins, SameJobs DEF NetInv

\* Removing a worker without its bond keeps the invariant.
LEMMA RemoveKeeps ==
    ASSUME NetInv, NEW w \in NetWorker, RemoveWallet(w)
    PROVE  NetInv'
<1>1. entries' = [entries EXCEPT ![w] = NoEntry] /\ NoEntry \in NetEntries
  BY DEF RemoveWallet, NoEntry, NetEntries
<1>2. /\ coins' = coins /\ guardians' = guardians /\ bondNonce' = bondNonce /\ record' = record
      /\ completing' = completing /\ jobBook' = jobBook /\ queue' = queue /\ netRuns' = netRuns
      /\ registering' = registering
  BY DEF RemoveWallet
<1>3. NetTypes'
  BY <1>1, <1>2 DEF NetInv, NetTypes
<1>4. \A v \in NetWorker : entries'[v] = IF v = w THEN NoEntry ELSE entries[v]
  BY <1>1 DEF NetInv, NetTypes
<1>5. RolesInv'
  BY <1>2, <1>4 DEF NetInv, RolesInv, CompletingOnce, RolesPending, Listed
<1> QED BY <1>2, <1>3, <1>5, SameCoins, SameJobs DEF NetInv

\* caac_put_worker_record keeps the invariant: the role is now pending.
LEMMA CaacKeeps ==
    ASSUME NetInv, NEW w \in NetWorker, NEW new \in {"POC", "POR"}, CaacComplete(w, new)
    PROVE  NetInv'
<1> DEFINE r == [w |-> w, role |-> new]
           again == \E i \in DOMAIN completing : completing[i].w = w
           n == Len(completing)
<1>1. r \in Completions /\ r.w = w /\ r.role = new
  BY DEF Completions
<1>2. /\ record' = [record EXCEPT ![w] = new] /\ completing' = Append(completing, r)
      /\ coins' = coins /\ guardians' = guardians /\ bondNonce' = bondNonce /\ entries' = entries
      /\ jobBook' = jobBook /\ queue' = queue /\ registering' = registering
  BY DEF CaacComplete
<1>3. /\ netRuns'.taken = netRuns.taken /\ netRuns'.overlap = (netRuns.overlap \/ again)
      /\ netRuns' \in [taken : [NetJob -> {0, 1}], overlap : BOOLEAN, caac : Nat, restarts : Nat]
  <2> DEFINE b == netRuns.overlap \/ again
  <2>1. netRuns' = [netRuns EXCEPT !.caac = @ + 1, !.overlap = b]
    BY DEF CaacComplete
  <2>2. b \in BOOLEAN
    OBVIOUS
  <2> HIDE DEF b
  <2>3. netRuns' = [taken |-> netRuns.taken, overlap |-> b, caac |-> netRuns.caac + 1,
                    restarts |-> netRuns.restarts]
    BY <2>1 DEF NetInv, NetTypes
  <2>4. netRuns.taken \in [NetJob -> {0, 1}] /\ netRuns.caac + 1 \in Nat /\ netRuns.restarts \in Nat
    BY DEF NetInv, NetTypes
  <2>5. netRuns' \in [taken : [NetJob -> {0, 1}], overlap : BOOLEAN, caac : Nat, restarts : Nat]
    BY <2>2, <2>3, <2>4
  <2>6. netRuns'.taken = netRuns.taken /\ netRuns'.overlap = b
    BY <2>3
  <2> QED BY <2>5, <2>6 DEF b
<1>4. completing \in Seq(Completions) /\ n \in Nat /\ DOMAIN completing = 1..n
  BY DEF NetInv, NetTypes
<1> HIDE DEF r
<1>5. /\ completing' \in Seq(Completions) /\ Len(completing') = n + 1
      /\ \A i \in 1..n : completing'[i] = completing[i]
      /\ completing'[n + 1] = r
  BY <1>1, <1>2, <1>4
<1>6. NetTypes'
  BY <1>2, <1>3, <1>5 DEF NetInv, NetTypes
<1>7. ~netRuns'.overlap => ~netRuns.overlap /\ \A i \in 1..n : completing[i].w # w
  BY <1>3, <1>4
<1>8. CompletingOnce'
  <2> SUFFICES ASSUME ~netRuns'.overlap
               PROVE  /\ \A i, k \in 1..Len(completing') : completing'[i].w = completing'[k].w => i = k
                      /\ \A i \in 1..Len(completing') : completing'[i].role = record'[completing'[i].w]
    BY DEF CompletingOnce
  <2>1. \A i, k \in 1..n : completing[i].w = completing[k].w => i = k
    BY <1>7 DEF NetInv, RolesInv, CompletingOnce
  <2>2. \A i \in 1..n : completing[i].role = record[completing[i].w] /\ completing[i].w \in NetWorker
    <3>1. \A i \in 1..n : completing[i] \in Completions
      BY <1>4
    <3>2. \A i \in 1..n : completing[i].role = record[completing[i].w]
      BY <1>7 DEF NetInv, RolesInv, CompletingOnce
    <3> QED BY <3>1, <3>2 DEF Completions
  <2>3. record'[w] = new /\ \A v \in NetWorker : v # w => record'[v] = record[v]
    BY <1>2 DEF NetInv, NetTypes
  <2>4. \A i \in 1..Len(completing') : i \in 1..n \/ i = n + 1
    BY <1>4, <1>5
  <2> HIDE DEF n
  <2>5. \A i, k \in 1..Len(completing') : completing'[i].w = completing'[k].w => i = k
    BY <1>1, <1>5, <1>7, <2>1, <2>4
  <2>6. \A i \in 1..Len(completing') : completing'[i].role = record'[completing'[i].w]
    BY <1>1, <1>5, <1>7, <2>2, <2>3, <2>4
  <2> QED BY <2>5, <2>6
<1>9. RolesPending'
  <2> SUFFICES ASSUME ~netRuns'.overlap, NEW v \in NetWorker, Listed(v)
               PROVE  \/ entries[v].role \in {"none", record'[v]}
                      \/ \E i \in 1..Len(completing') : completing'[i].w = v
    BY <1>2 DEF RolesPending, Listed
  <2>1. CASE v = w
    <3>1. n + 1 \in 1..Len(completing')
      BY <1>4, <1>5
    <3> QED BY <1>1, <1>5, <2>1, <3>1
  <2>2. CASE v # w
    <3>1. record'[v] = record[v]
      BY <1>2, <2>2 DEF NetInv, NetTypes
    <3>2. \/ entries[v].role \in {"none", record[v]}
          \/ \E i \in 1..Len(completing) : completing[i].w = v
      BY <1>7 DEF NetInv, RolesInv, RolesPending
    <3>3. \A i \in 1..n : i \in 1..Len(completing')
      BY <1>4, <1>5
    <3> QED BY <1>5, <3>1, <3>2, <3>3
  <2> QED BY <2>1, <2>2
<1> QED BY <1>2, <1>3, <1>6, <1>8, <1>9, SameCoins, SameJobs DEF NetInv, RolesInv

\* set_caac_role keeps the invariant: the pending role is in the registry, or the worker
\* is not.
LEMMA SetRoleKeeps ==
    ASSUME NetInv, NEW i \in DOMAIN completing, SetCaacRole(i)
    PROVE  NetInv'
<1> DEFINE c == completing[i]
           n == Len(completing)
<1>1. /\ completing \in Seq(Completions) /\ n \in Nat /\ i \in 1..n
      /\ c \in Completions /\ c.w \in NetWorker /\ c.role \in {"POC", "POR"}
  <2>1. completing \in Seq(Completions) /\ n \in Nat /\ i \in 1..n
    BY DEF NetInv, NetTypes
  <2>2. c \in Completions
    BY <2>1
  <2> HIDE DEF c
  <2> QED BY <2>1, <2>2 DEF Completions
<1>2. /\ entries' = IF Listed(c.w) THEN [entries EXCEPT ![c.w].role = c.role] ELSE entries
      /\ completing' = RemoveAt(completing, i)
      /\ coins' = coins /\ guardians' = guardians /\ bondNonce' = bondNonce /\ record' = record
      /\ jobBook' = jobBook /\ queue' = queue /\ registering' = registering /\ netRuns' = netRuns
  BY DEF SetCaacRole
<1>3. /\ completing' \in Seq(Completions) /\ Len(completing') = n - 1
      /\ \A k \in 1..Len(completing') : completing'[k] = IF k < i THEN completing[k] ELSE completing[k + 1]
  BY <1>1, <1>2, RemovedSeq
<1> HIDE DEF c
<1>4. /\ entries' \in [NetWorker -> NetEntries]
      /\ \A v \in NetWorker : v # c.w => entries'[v] = entries[v]
      /\ Listed(c.w) => entries'[c.w].role = c.role
      /\ ~Listed(c.w) => entries' = entries
  <2>1. CASE ~Listed(c.w)
    BY <1>2, <2>1 DEF NetInv, NetTypes
  <2>2. CASE Listed(c.w)
    <3>1. entries' = [entries EXCEPT ![c.w] = [entries[c.w] EXCEPT !.role = c.role]]
      BY <1>2, <2>2
    <3>2. entries[c.w] \in NetEntries
      BY <1>1 DEF NetInv, NetTypes
    <3>3. /\ [entries[c.w] EXCEPT !.role = c.role] \in NetEntries
          /\ [entries[c.w] EXCEPT !.role = c.role].role = c.role
      <4>1. ASSUME NEW e \in NetEntries, NEW r \in {"POC", "POR"}
            PROVE  [e EXCEPT !.role = r] \in NetEntries /\ [e EXCEPT !.role = r].role = r
        <5>1. [e EXCEPT !.role = r] = [keys |-> e.keys, role |-> r] /\ e.keys \in BOOLEAN
          BY DEF NetEntries
        <5> QED BY <5>1 DEF NetEntries
      <4> QED BY <1>1, <3>2, <4>1
    <3> QED BY <1>1, <2>2, <3>1, <3>3 DEF NetInv, NetTypes
  <2> QED BY <2>1, <2>2
<1>5. NetTypes'
  BY <1>2, <1>3, <1>4 DEF NetInv, NetTypes
<1>6. RolesInv'
  <2> SUFFICES ASSUME ~netRuns.overlap
               PROVE  /\ \A k, l \in 1..Len(completing') : completing'[k].w = completing'[l].w => k = l
                      /\ \A k \in 1..Len(completing') : completing'[k].role = record[completing'[k].w]
                      /\ \A v \in NetWorker : Listed(v)' =>
                            \/ entries'[v].role \in {"none", record[v]}
                            \/ \E k \in 1..Len(completing') : completing'[k].w = v
    BY <1>2 DEF RolesInv, CompletingOnce, RolesPending
  <2>1. /\ \A k, l \in 1..n : completing[k].w = completing[l].w => k = l
        /\ \A k \in 1..n : completing[k].role = record[completing[k].w]
    BY DEF NetInv, RolesInv, CompletingOnce
  <2>2. \A k \in 1..Len(completing') : k \in Int /\ k \in 1..n /\ k + 1 \in 1..n
    BY <1>1, <1>3
  <2>3. \A k, l \in 1..Len(completing') : completing'[k].w = completing'[l].w => k = l
    <3> SUFFICES ASSUME NEW k \in 1..Len(completing'), NEW l \in 1..Len(completing'),
                        completing'[k].w = completing'[l].w
                 PROVE  k = l
      OBVIOUS
    <3> DEFINE K == IF k < i THEN k ELSE k + 1
               L == IF l < i THEN l ELSE l + 1
    <3>1. K \in 1..n /\ L \in 1..n /\ completing'[k] = completing[K] /\ completing'[l] = completing[L]
      BY <1>3, <2>2
    <3>2. (K = L) => (k = l)
      BY <1>1, <2>2
    <3> HIDE DEF K, L
    <3> QED BY <2>1, <3>1, <3>2
  <2>4. \A k \in 1..Len(completing') : completing'[k].role = record[completing'[k].w]
    BY <1>3, <2>1, <2>2
  <2>5. ASSUME NEW v \in NetWorker, Listed(v)'
        PROVE  \/ entries'[v].role \in {"none", record[v]}
               \/ \E k \in 1..Len(completing') : completing'[k].w = v
    <3>1. CASE v = c.w
      <4>1. c.role = record[c.w]
        BY <1>1, <2>1 DEF c
      <4>2. Listed(c.w)
        BY <1>4, <2>5, <3>1 DEF Listed
      <4> QED BY <1>4, <3>1, <4>1, <4>2
    <3>2. CASE v # c.w
      <4>1. entries'[v] = entries[v] /\ Listed(v)
        BY <1>4, <2>5, <3>2 DEF Listed
      <4>2. \/ entries[v].role \in {"none", record[v]}
            \/ \E k \in 1..n : completing[k].w = v
        BY <4>1 DEF NetInv, RolesInv, RolesPending
      <4>3. ASSUME NEW k \in 1..n, completing[k].w = v
            PROVE  \E l \in 1..Len(completing') : completing'[l].w = v
        <5>1. k # i
          BY <3>2, <4>3 DEF c
        <5>2. CASE k < i
          <6>1. k \in 1..Len(completing') /\ completing'[k] = completing[k]
            BY <1>1, <1>3, <5>2
          <6> QED BY <4>3, <6>1
        <5>3. CASE k > i
          <6>1. k - 1 \in 1..Len(completing') /\ ~(k - 1 < i) /\ (k - 1) + 1 = k
            BY <1>1, <1>3, <5>3
          <6>2. completing'[k - 1] = completing[k]
            BY <1>3, <6>1
          <6> QED BY <4>3, <6>1, <6>2
        <5> QED BY <1>1, <5>1, <5>2, <5>3
      <4> QED BY <4>1, <4>2, <4>3
    <3> QED BY <3>1, <3>2
  <2> QED BY <2>3, <2>4, <2>5
<1> QED BY <1>2, <1>5, <1>6, SameCoins, SameJobs DEF NetInv

\* enqueue_compute_e2ee_job keeps the invariant.
LEMMA SubmitJobKeeps ==
    ASSUME NetInv, NEW w \in NetWorker, NEW j \in NetJob, SubmitJob(j, w)
    PROVE  NetInv'
<1> DEFINE b == [to |-> w, done |-> FALSE]
           n == Len(queue[w])
<1>1. b \in NetJobs /\ b.to = w /\ ~b.done
  BY DEF NetJobs
<1>2. /\ jobBook[j] = NoJob /\ netRuns.taken[j] = 0
      /\ jobBook' = [jobBook EXCEPT ![j] = b] /\ queue' = [queue EXCEPT ![w] = Append(@, j)]
      /\ coins' = coins /\ guardians' = guardians /\ bondNonce' = bondNonce /\ record' = record
      /\ entries' = entries /\ registering' = registering /\ completing' = completing /\ netRuns' = netRuns
  BY DEF SubmitJob
<1>3. b # NoJob
  BY <1>1, NetNats DEF NoJob
<1> HIDE DEF b
<1>4. queue[w] \in Seq(NetJob) /\ n \in Nat
  BY DEF NetInv, NetTypes
<1>5. /\ queue'[w] \in Seq(NetJob) /\ Len(queue'[w]) = n + 1 /\ queue'[w][n + 1] = j
      /\ \A i \in 1..n : queue'[w][i] = queue[w][i]
      /\ \A v \in NetWorker : v # w => queue'[v] = queue[v]
      /\ queue' \in [NetWorker -> Seq(NetJob)]
  BY <1>2, <1>4 DEF NetInv, NetTypes
<1>6. NetTypes'
  BY <1>1, <1>2, <1>5 DEF NetInv, NetTypes
<1>7. \A v \in NetWorker : \A i \in 1..Len(queue[v]) : queue[v][i] # j /\ queue[v][i] \in NetJob
  <2> SUFFICES ASSUME NEW v \in NetWorker, NEW i \in 1..Len(queue[v])
               PROVE  queue[v][i] # j /\ queue[v][i] \in NetJob
    OBVIOUS
  <2>1. queue[v] \in Seq(NetJob)
    BY DEF NetInv, NetTypes
  <2>2. jobBook[queue[v][i]].to = v
    BY DEF NetInv, JobsInv, QueueOwn
  <2>3. jobBook[j].to \notin NetWorker
    BY <1>2, NetNats DEF NoJob
  <2> QED BY <2>1, <2>2, <2>3
<1>8. \A k \in NetJob : jobBook'[k] = IF k = j THEN b ELSE jobBook[k]
  BY <1>2 DEF NetInv, NetTypes
<1>9. \A i \in 1..Len(queue'[w]) : i \in 1..n \/ i = n + 1
  BY <1>4, <1>5
<1>10. \A i \in 1..n : i \in 1..Len(queue'[w]) /\ i # n + 1
  BY <1>4, <1>5
<1>11. n + 1 \in 1..Len(queue'[w])
  BY <1>4, <1>5
<1>12. QueueOwn'
  <2>1. ASSUME NEW v \in NetWorker, NEW i \in 1..Len(queue'[v])
        PROVE  jobBook'[queue'[v][i]].to = v /\ netRuns'.taken[queue'[v][i]] = 0
    <3>1. CASE v # w
      BY <1>2, <1>5, <1>7, <1>8, <3>1 DEF NetInv, JobsInv, QueueOwn
    <3>2. CASE v = w /\ i \in 1..n
      BY <1>2, <1>5, <1>7, <1>8, <3>2 DEF NetInv, JobsInv, QueueOwn
    <3>3. CASE v = w /\ i = n + 1
      BY <1>1, <1>2, <1>5, <1>8, <3>3
    <3> QED BY <1>9, <3>1, <3>2, <3>3
  <2> QED BY <2>1 DEF QueueOwn
<1>13. QueueOnce'
  <2>1. ASSUME NEW v \in NetWorker, NEW i \in 1..Len(queue'[v]), NEW k \in 1..Len(queue'[v]),
               queue'[v][i] = queue'[v][k]
        PROVE  i = k
    <3>1. CASE v # w
      BY <1>5, <2>1, <3>1 DEF NetInv, JobsInv, QueueOnce
    <3>2. CASE v = w
      <4>1. \A x, y \in 1..n : queue[w][x] = queue[w][y] => x = y
        BY DEF NetInv, JobsInv, QueueOnce
      <4>2. (i \in 1..n \/ i = n + 1) /\ (k \in 1..n \/ k = n + 1)
        BY <1>9, <3>2
      <4>3. \A x \in 1..n : queue[w][x] # j
        BY <1>7
      <4> HIDE DEF n
      <4>4. CASE i \in 1..n /\ k \in 1..n
        BY <1>5, <2>1, <3>2, <4>1, <4>4
      <4>5. CASE i \in 1..n /\ k = n + 1
        BY <1>5, <2>1, <3>2, <4>3, <4>5
      <4>6. CASE i = n + 1 /\ k \in 1..n
        BY <1>5, <2>1, <3>2, <4>3, <4>6
      <4> QED BY <4>2, <4>4, <4>5, <4>6
    <3> QED BY <3>1, <3>2
  <2> QED BY <2>1 DEF QueueOnce
<1>14. JobsQueued' /\ BookNamed'
  <2>1. ASSUME NEW k \in NetJob, jobBook'[k] # NoJob
        PROVE  jobBook'[k].to \in NetWorker
    BY <1>1, <1>8, <2>1 DEF NetInv, JobsInv, BookNamed
  <2>2. ASSUME NEW k \in NetJob, jobBook'[k] # NoJob, ~jobBook'[k].done, netRuns.taken[k] = 0
        PROVE  \E i \in 1..Len(queue'[jobBook'[k].to]) : queue'[jobBook'[k].to][i] = k
    <3>1. CASE k = j
      BY <1>1, <1>5, <1>8, <1>11, <3>1
    <3>2. CASE k # j
      <4> DEFINE t == jobBook[k].to
      <4>1. jobBook'[k] = jobBook[k] /\ t \in NetWorker
        BY <1>8, <2>1, <2>2, <3>2
      <4>2. PICK i \in 1..Len(queue[t]) : queue[t][i] = k
        BY <2>2, <4>1 DEF NetInv, JobsInv, JobsQueued
      <4> HIDE DEF t
      <4>3. i \in 1..Len(queue'[t]) /\ queue'[t][i] = k
        BY <1>5, <1>10, <4>1, <4>2
      <4> QED BY <4>1, <4>3 DEF t
    <3> QED BY <3>1, <3>2
  <2> QED BY <1>2, <2>1, <2>2 DEF JobsQueued, BookNamed
<1> QED BY <1>2, <1>6, <1>12, <1>13, <1>14, SameCoins, SameRoles DEF NetInv, JobsInv

\* A completion, also a second one or one before the job was handed out, keeps the
\* invariant.
LEMMA CompleteJobKeeps ==
    ASSUME NetInv, NEW w \in NetWorker, NEW j \in NetJob, CompleteJob(w, j)
    PROVE  NetInv'
<1> DEFINE b == [jobBook[j] EXCEPT !.done = TRUE]
<1>1. /\ jobBook' = [jobBook EXCEPT ![j] = b] /\ jobBook[j] # NoJob
      /\ coins' = coins /\ guardians' = guardians /\ bondNonce' = bondNonce /\ record' = record
      /\ entries' = entries /\ registering' = registering /\ completing' = completing /\ netRuns' = netRuns
      /\ queue' = queue
  BY DEF CompleteJob
<1>2. jobBook[j] \in NetJobs
  BY DEF NetInv, NetTypes
<1>3. b \in NetJobs /\ b.to = jobBook[j].to /\ b.done
  <2>1. ASSUME NEW x \in NetJobs, NEW y \in BOOLEAN
        PROVE  /\ [x EXCEPT !.done = y] \in NetJobs
               /\ [x EXCEPT !.done = y].to = x.to
    BY DEF NetJobs
  <2>2. ASSUME NEW x \in NetJobs, NEW y \in BOOLEAN
        PROVE  [x EXCEPT !.done = y].done = y
    BY DEF NetJobs
  <2> QED BY <1>2, <2>1, <2>2
<1> HIDE DEF b
<1>4. \A k \in NetJob : jobBook'[k] = IF k = j THEN b ELSE jobBook[k]
  BY <1>1 DEF NetInv, NetTypes
<1>5. NetTypes'
  BY <1>1, <1>3 DEF NetInv, NetTypes
<1>6. \A v \in NetWorker : \A i \in 1..Len(queue[v]) : queue[v][i] \in NetJob
  BY DEF NetInv, NetTypes
<1>7. \A k \in NetJob : jobBook'[k].to = jobBook[k].to
  BY <1>3, <1>4
<1>8. QueueOwn' /\ QueueOnce'
  BY <1>1, <1>6, <1>7 DEF NetInv, JobsInv, QueueOwn, QueueOnce
<1>9. BookNamed' /\ JobsQueued'
  BY <1>1, <1>3, <1>4, <1>7 DEF NetInv, JobsInv, BookNamed, JobsQueued
<1> QED BY <1>1, <1>5, <1>8, <1>9, SameCoins, SameRoles DEF NetInv, JobsInv

\* What get_worker_e2ee_next leaves of a queue: nothing when every job in it is completed,
\* otherwise what stands behind the first one that is not.
LEMMA Popped ==
    ASSUME NetInv, NEW w \in NetWorker, NextJob(w)
    PROVE  \E m \in Nat :
              /\ m <= Len(queue[w])
              /\ queue' = [queue EXCEPT ![w] = SubSeq(queue[w], m + 1, Len(queue[w]))]
              /\ \A i \in 1..m : i < m => jobBook[queue[w][i]].done
              /\ \A j \in NetJob : netRuns'.taken[j] = netRuns.taken[j] \/ (m > 0 /\ j = queue[w][m])
              /\ \A i \in 1..m : i = m => \/ jobBook[queue[w][i]].done
                                          \/ netRuns'.taken[queue[w][m]] = 1
              /\ netRuns' \in [taken : [NetJob -> {0, 1}], overlap : BOOLEAN, caac : Nat, restarts : Nat]
              /\ netRuns'.overlap = netRuns.overlap
<1> DEFINE q == queue[w]
           S == Waiting(q)
           n == Len(q)
           p == PopFront(q)
           T == [j \in NetJob |-> IF j \in p.job THEN netRuns.taken[j] + 1 ELSE netRuns.taken[j]]
<1>1. q \in Seq(NetJob) /\ n \in Nat /\ \A i \in 1..n : q[i] \in NetJob
  BY DEF NetInv, NetTypes
<1>2. S \subseteq 1..n /\ S \subseteq Nat
  BY <1>1 DEF Waiting
<1>3. netRuns' = [netRuns EXCEPT !.taken = T] /\ queue' = [queue EXCEPT ![w] = p.rest]
  BY DEF NextJob
<1>4. netRuns \in [taken : [NetJob -> {0, 1}], overlap : BOOLEAN, caac : Nat, restarts : Nat]
  BY DEF NetInv, NetTypes
<1>5. ASSUME T \in [NetJob -> {0, 1}]
      PROVE  /\ netRuns' \in [taken : [NetJob -> {0, 1}], overlap : BOOLEAN, caac : Nat, restarts : Nat]
             /\ netRuns'.overlap = netRuns.overlap /\ netRuns'.taken = T
  <2> HIDE DEF T
  <2> QED BY <1>3, <1>4, <1>5
<1>6. CASE S = {}
  <2>1. p = [job |-> {}, rest |-> <<>>]
    BY <1>6 DEF PopFront
  <2>2. p.job = {} /\ p.rest = <<>>
    BY <2>1
  <2> HIDE DEF p
  <2>3. T = netRuns.taken /\ T \in [NetJob -> {0, 1}]
    BY <1>4, <2>2
  <2>4. SubSeq(q, n + 1, n) = <<>>
    BY <1>1
  <2>5. \A i \in 1..n : jobBook[q[i]].done
    BY <1>1, <1>6 DEF Waiting
  <2>6. queue' = [queue EXCEPT ![w] = SubSeq(q, n + 1, n)]
    BY <1>3, <2>2, <2>4
  <2> HIDE DEF T, S
  <2>7. netRuns'.taken = netRuns.taken
    BY <1>5, <2>3
  <2> HIDE DEF q, n
  <2>8. n \in Nat /\ n <= n
    BY <1>1
  <2> QED BY <1>5, <2>3, <2>5, <2>6, <2>7, <2>8 DEF q, n
<1>7. CASE S # {}
  <2> DEFINE m == Min(S)
  <2>1. m \in S /\ \A i \in S : m <= i
    BY <1>2, <1>7, MinIsLeast
  <2>2. p = [job |-> {q[m]}, rest |-> SubSeq(q, m + 1, n)]
    BY <1>7 DEF PopFront
  <2> HIDE DEF m, p
  <2>3. p.job = {q[m]} /\ p.rest = SubSeq(q, m + 1, n)
    <3> HIDE DEF q, n
    <3> QED BY <2>2
  <2>4. m \in 1..n /\ m \in Nat /\ m <= n /\ m > 0
    BY <1>1, <1>2, <2>1
  <2>5. netRuns.taken[q[m]] = 0 /\ q[m] \in NetJob
    BY <1>1, <2>4 DEF NetInv, JobsInv, QueueOwn
  <2>6. \A j \in NetJob : netRuns.taken[j] \in {0, 1}
    BY <1>4
  <2>7. /\ T \in [NetJob -> {0, 1}] /\ T[q[m]] = 1
        /\ \A j \in NetJob : j # q[m] => T[j] = netRuns.taken[j]
    BY <2>3, <2>5, <2>6
  <2>8. \A i \in 1..m : i < m => jobBook[q[i]].done
    <3> SUFFICES ASSUME NEW i \in 1..m, i < m PROVE jobBook[q[i]].done
      OBVIOUS
    <3>1. i \in 1..n /\ ~(m <= i)
      BY <1>1, <2>4
    <3>2. i \notin S
      BY <2>1, <3>1
    <3> QED BY <1>1, <3>1, <3>2 DEF Waiting
  <2>9. queue' = [queue EXCEPT ![w] = SubSeq(q, m + 1, n)]
    BY <1>3, <2>3
  <2> HIDE DEF T, S
  <2>10. netRuns'.taken = T
    BY <1>5, <2>7
  <2> HIDE DEF q, n
  <2> QED BY <1>5, <2>4, <2>7, <2>8, <2>9, <2>10 DEF q, n
<1> QED BY <1>6, <1>7

\* get_worker_e2ee_next keeps the invariant: only completed jobs are dropped on the way
\* to the one handed out.
LEMMA NextJobKeeps ==
    ASSUME NetInv, NEW w \in NetWorker, NextJob(w)
    PROVE  NetInv'
<1> DEFINE q == queue[w]
           n == Len(q)
<1>1. PICK m \in Nat :
              /\ m <= n
              /\ queue' = [queue EXCEPT ![w] = SubSeq(q, m + 1, n)]
              /\ \A i \in 1..m : i < m => jobBook[q[i]].done
              /\ \A j \in NetJob : netRuns'.taken[j] = netRuns.taken[j] \/ (m > 0 /\ j = q[m])
              /\ \A i \in 1..m : i = m => jobBook[q[i]].done \/ netRuns'.taken[q[m]] = 1
              /\ netRuns' \in [taken : [NetJob -> {0, 1}], overlap : BOOLEAN, caac : Nat, restarts : Nat]
              /\ netRuns'.overlap = netRuns.overlap
  BY Popped
<1>2. /\ coins' = coins /\ guardians' = guardians /\ bondNonce' = bondNonce /\ record' = record
      /\ entries' = entries /\ registering' = registering /\ completing' = completing /\ jobBook' = jobBook
  BY DEF NextJob
<1>3. q \in Seq(NetJob) /\ n \in Nat /\ \A i \in 1..n : q[i] \in NetJob
  BY DEF NetInv, NetTypes
<1>4. /\ SubSeq(q, m + 1, n) \in Seq(NetJob) /\ Len(SubSeq(q, m + 1, n)) = n - m
      /\ \A i \in 1..(n - m) : SubSeq(q, m + 1, n)[i] = q[m + i]
  <2> HIDE DEF q
  <2> QED BY <1>1, <1>3
<1>5. /\ queue' \in [NetWorker -> Seq(NetJob)]
      /\ Len(queue'[w]) = n - m
      /\ \A i \in 1..(n - m) : queue'[w][i] = q[m + i] /\ m + i \in 1..n /\ m + i # m
      /\ \A v \in NetWorker : v # w => queue'[v] = queue[v]
  BY <1>1, <1>3, <1>4 DEF NetInv, NetTypes
<1>6. NetTypes'
  BY <1>1, <1>2, <1>5 DEF NetInv, NetTypes
<1>7. \A v \in NetWorker : \A i \in 1..Len(queue[v]) : queue[v][i] \in NetJob
  BY DEF NetInv, NetTypes
<1>8. \A x, y \in 1..n : q[x] = q[y] => x = y
  BY DEF NetInv, JobsInv, QueueOnce
<1>9. QueueOwn'
  <2>1. ASSUME NEW v \in NetWorker, NEW i \in 1..Len(queue'[v])
        PROVE  jobBook'[queue'[v][i]].to = v /\ netRuns'.taken[queue'[v][i]] = 0
    <3>1. CASE v # w
      <4>1. queue'[v] = queue[v] /\ queue[v][i] \in NetJob
        BY <1>5, <1>7, <3>1
      <4>2. jobBook[queue[v][i]].to = v /\ netRuns.taken[queue[v][i]] = 0
        BY <4>1 DEF NetInv, JobsInv, QueueOwn
      <4>3. m > 0 => jobBook[q[m]].to = w
        BY <1>1, <1>3 DEF NetInv, JobsInv, QueueOwn
      <4> QED BY <1>1, <1>2, <3>1, <4>1, <4>2, <4>3
    <3>2. CASE v = w
      <4>1. i \in 1..(n - m) /\ queue'[w][i] = q[m + i] /\ m + i \in 1..n
        BY <1>5, <3>2
      <4>2. jobBook[q[m + i]].to = w /\ netRuns.taken[q[m + i]] = 0 /\ q[m + i] \in NetJob
        BY <1>3, <4>1 DEF NetInv, JobsInv, QueueOwn
      <4>3. m > 0 => q[m + i] # q[m]
        BY <1>1, <1>3, <1>5, <1>8, <4>1
      <4> HIDE DEF q, n
      <4> QED BY <1>1, <1>2, <3>2, <4>1, <4>2, <4>3
    <3> QED BY <3>1, <3>2
  <2> QED BY <2>1 DEF QueueOwn
<1>10. QueueOnce'
  <2>1. ASSUME NEW v \in NetWorker, NEW i \in 1..Len(queue'[v]), NEW k \in 1..Len(queue'[v]),
               queue'[v][i] = queue'[v][k]
        PROVE  i = k
    <3>1. CASE v # w
      BY <1>5, <2>1, <3>1 DEF NetInv, JobsInv, QueueOnce
    <3>2. CASE v = w
      <4>1. i \in 1..(n - m) /\ k \in 1..(n - m)
        BY <1>5, <3>2
      <4>2. q[m + i] = q[m + k] /\ m + i \in 1..n /\ m + k \in 1..n
        BY <1>5, <2>1, <3>2, <4>1
      <4>3. m + i = m + k
        BY <1>8, <4>2
      <4> QED BY <1>3, <4>1, <4>3
    <3> QED BY <3>1, <3>2
  <2> QED BY <2>1 DEF QueueOnce
<1>11. BookNamed'
  BY <1>2 DEF NetInv, JobsInv, BookNamed
<1>12. JobsQueued'
  <2>1. ASSUME NEW j \in NetJob, jobBook[j] # NoJob, ~jobBook[j].done, netRuns'.taken[j] = 0
        PROVE  /\ jobBook[j].to \in NetWorker
               /\ \E i \in 1..Len(queue'[jobBook[j].to]) : queue'[jobBook[j].to][i] = j
    <3> DEFINE t == jobBook[j].to
    <3>1. t \in NetWorker
      BY <2>1 DEF NetInv, JobsInv, BookNamed
    <3>2. ~(m > 0 /\ j = q[m])
      BY <1>1, <2>1
    <3>3. netRuns.taken[j] = 0
      BY <1>1, <2>1, <3>2
    <3>4. PICK i \in 1..Len(queue[t]) : queue[t][i] = j
      BY <2>1, <3>3 DEF NetInv, JobsInv, JobsQueued
    <3> HIDE DEF t
    <3>5. CASE t # w
      BY <1>5, <3>1, <3>4, <3>5 DEF t
    <3>6. CASE t = w
      <4>1. i \in 1..n /\ q[i] = j
        BY <3>4, <3>6
      <4> HIDE DEF q, n
      <4>2. i > m
        BY <1>1, <1>3, <2>1, <3>2, <4>1
      <4>3. i - m \in 1..(n - m) /\ m + (i - m) = i
        <5>1. i \in Int /\ m \in Int /\ n \in Int /\ i <= n
          BY <1>1, <1>3, <4>1
        <5>2. ASSUME NEW x \in Int, NEW y \in Int, NEW z \in Int, x > y, x <= z
              PROVE  x - y \in 1..(z - y) /\ y + (x - y) = x
          BY ONLY <5>2
        <5> QED BY <4>2, <5>1, <5>2
      <4>4. queue'[w][i - m] = j /\ i - m \in 1..Len(queue'[w])
        BY <1>5, <4>1, <4>3
      <4> QED BY <3>1, <3>6, <4>4 DEF t
    <3> QED BY <3>5, <3>6
  <2> QED BY <1>2, <2>1 DEF JobsQueued
<1> QED BY <1>1, <1>2, <1>6, <1>9, <1>10, <1>11, <1>12, SameCoins, SameRoles DEF NetInv, JobsInv

\* A restart keeps the invariant.
LEMMA RestartKeeps ==
    ASSUME NetInv, NetRestart
    PROVE  NetInv'
<1> DEFINE T == [j \in NetJob |-> IF jobBook[j] # NoJob THEN Max({1, netRuns.taken[j]}) ELSE netRuns.taken[j]]
<1>1. /\ coins' = coins /\ guardians' = guardians /\ bondNonce' = bondNonce /\ record' = record
      /\ entries' = [w \in NetWorker |-> NoEntry] /\ registering' = {} /\ completing' = <<>>
      /\ jobBook' = [j \in NetJob |-> NoJob] /\ queue' = [w \in NetWorker |-> <<>>]
      /\ netRuns' = [netRuns EXCEPT !.restarts = @ + 1, !.taken = T]
  BY DEF NetRestart
<1>2. netRuns \in [taken : [NetJob -> {0, 1}], overlap : BOOLEAN, caac : Nat, restarts : Nat]
  BY DEF NetInv, NetTypes
<1>3. ASSUME NEW x \in {0, 1} PROVE Max({1, x}) \in {0, 1}
  <2>1. \E y \in {1, x} : \A z \in {1, x} : y >= z
    OBVIOUS
  <2> QED BY <2>1 DEF Max
<1>4. T \in [NetJob -> {0, 1}]
  BY <1>2, <1>3
<1> HIDE DEF T
<1>5. netRuns' \in [taken : [NetJob -> {0, 1}], overlap : BOOLEAN, caac : Nat, restarts : Nat]
  <2> DEFINE R == netRuns.restarts + 1
  <2>1. R \in Nat
    BY <1>2
  <2>2. netRuns' = [netRuns EXCEPT !.restarts = R, !.taken = T]
    BY <1>1
  <2> HIDE DEF R
  <2> QED BY <1>2, <1>4, <2>1, <2>2
<1>6. NoEntry \in NetEntries
  BY DEF NoEntry, NetEntries
<1>7. NoJob \in NetJobs
  BY DEF NoJob, NetJobs
<1>8. NetTypes'
  BY <1>1, <1>5, <1>6, <1>7 DEF NetInv, NetTypes
<1>9. /\ \A w \in NetWorker : queue'[w] = <<>> /\ Len(queue'[w]) = 0 /\ ~Listed(w)'
      /\ \A j \in NetJob : jobBook'[j] = NoJob
      /\ Len(completing') = 0
  BY <1>1 DEF Listed
<1>10. JobsInv'
  BY <1>9 DEF JobsInv, QueueOwn, QueueOnce, JobsQueued, BookNamed
<1>11. RolesInv'
  BY <1>9 DEF RolesInv, CompletingOnce, RolesPending
<1> QED BY <1>1, <1>8, <1>10, <1>11, SameCoins DEF NetInv

\* The worker network starts within its invariant.
LEMMA NetStarts == NetInit => NetInv
<1> SUFFICES ASSUME NetInit PROVE NetInv
  OBVIOUS
<1>1. NoEntry \in NetEntries
  BY DEF NoEntry, NetEntries
<1>2. NoJob \in NetJobs
  BY DEF NoJob, NetJobs
<1>3. /\ \A w \in NetWorker : queue[w] = <<>> /\ Len(queue[w]) = 0 /\ ~Listed(w)
      /\ \A j \in NetJob : jobBook[j] = NoJob
      /\ Len(completing) = 0
  BY DEF NetInit, Listed
<1>4. /\ coins.pool = PoolStart /\ coins.eco = 0 /\ coins.liquid = LiquidStart
      /\ coins.bond = [w \in NetWorker |-> 0] /\ guardians = {}
  BY DEF NetInit
<1>5. coins \in [pool : Nat, eco : Nat, liquid : [NetWorker -> Nat], bond : [NetWorker -> Nat]]
  BY NetNats DEF NetInit
<1>6. netRuns \in [taken : [NetJob -> {0, 1}], overlap : BOOLEAN, caac : Nat, restarts : Nat]
  <2>1. [j \in NetJob |-> 0] \in [NetJob -> {0, 1}]
    OBVIOUS
  <2> QED BY <2>1 DEF NetInit
<1>7. NetTypes
  <2>1. bondNonce \in [NetWorker -> 0..MaxNetNonce] /\ guardians \in SUBSET NetWorker
    BY WorkerNetAssumption DEF NetInit
  <2>2. /\ record \in [NetWorker -> {"none", "POC", "POR"}] /\ completing \in Seq(Completions)
        /\ registering \in SUBSET [w : NetWorker, keys : BOOLEAN]
        /\ queue \in [NetWorker -> Seq(NetJob)]
    BY DEF NetInit
  <2>3. entries \in [NetWorker -> NetEntries] /\ jobBook \in [NetJob -> NetJobs]
    BY <1>1, <1>2 DEF NetInit
  <2> QED BY <1>5, <1>6, <2>1, <2>2, <2>3 DEF NetTypes
<1>8. JobsInv
  BY <1>3 DEF JobsInv, QueueOwn, QueueOnce, JobsQueued, BookNamed
<1>9. RolesInv
  BY <1>3 DEF RolesInv, CompletingOnce, RolesPending
<1>10. CoinsKept
  <2>1. SumFunctionOnSet(coins.bond, NetWorker) = 0
    BY <1>4, NetNats, SumZero
  <2>2. SumFunctionOnSet(LiquidStart, NetWorker) \in Nat
    BY NetNats, SumNat
  <2>3. Cardinality(guardians) = 0
    BY <1>4, FS_EmptySet
  <2> QED BY <1>4, <2>1, <2>2, <2>3, NetNats DEF CoinsKept
<1> QED BY <1>7, <1>8, <1>9, <1>10 DEF NetInv

\* Every step of the worker network keeps the invariant.
LEMMA NetSteps == NetInv /\ [NetNext]_netVars => NetInv'
<1> SUFFICES ASSUME NetInv, [NetNext]_netVars PROVE NetInv'
  OBVIOUS
<1>1. ASSUME NEW w \in NetWorker, NEW n \in 1..MaxNetNonce, StakeBond(w, n) \/ UnstakeBond(w, n) PROVE NetInv'
  BY <1>1, StakeKeeps, UnstakeKeeps
<1>2. ASSUME NEW w \in NetWorker, GrantGuardian(w) \/ CourtTakesBond(w) \/ RemoveWallet(w) \/ NextJob(w)
      PROVE  NetInv'
  BY <1>2, GrantKeeps, TakeKeeps, RemoveKeeps, NextJobKeeps
<1>3. ASSUME NEW w \in NetWorker, NEW keys \in BOOLEAN, RegisterCheck(w, keys) PROVE NetInv'
  BY <1>3, RegisterCheckKeeps
<1>4. ASSUME NEW w \in NetWorker, NEW new \in {"POC", "POR"}, CaacComplete(w, new) PROVE NetInv'
  BY <1>4, CaacKeeps
<1>5. ASSUME NEW w \in NetWorker, NEW j \in NetJob, SubmitJob(j, w) \/ CompleteJob(w, j) PROVE NetInv'
  BY <1>5, SubmitJobKeeps, CompleteJobKeeps
<1>6. ASSUME NEW r \in registering, RegisterWrite(r) PROVE NetInv'
  BY <1>6, RegisterWriteKeeps
<1>7. ASSUME NEW i \in DOMAIN completing, SetCaacRole(i) PROVE NetInv'
  BY <1>7, SetRoleKeeps
<1>8. ASSUME NetRestart PROVE NetInv'
  BY <1>8, RestartKeeps
<1>9. CASE UNCHANGED netVars
  BY <1>9, SameCoins, SameJobs, SameRoles DEF netVars, NetInv, NetTypes
<1> QED BY <1>1, <1>2, <1>3, <1>4, <1>5, <1>6, <1>7, <1>8, <1>9 DEF NetNext

\* The invariant implies what the runs check.
LEMMA NetInvSound == NetInv => WorkersSound
<1> SUFFICES ASSUME NetInv PROVE WorkersSound
  OBVIOUS
<1>1. /\ \A w \in NetWorker : queue[w] \in Seq(NetJob) /\ DOMAIN queue[w] = 1..Len(queue[w]) /\ Len(queue[w]) \in Nat
      /\ \A w \in NetWorker : \A i \in 1..Len(queue[w]) : queue[w][i] \in NetJob
  BY DEF NetInv, NetTypes
<1>2. NetTypeOK
  <2>1. \A w \in NetWorker : Range(queue[w]) \subseteq NetJob
    BY <1>1 DEF Range
  <2> QED BY <2>1 DEF NetInv, NetTypes, NetTypeOK, NetEntries, NetJobs
<1>3. JobsAccounted
  <2> SUFFICES ASSUME NEW j \in NetJob
               PROVE  /\ netRuns.taken[j] <= 1
                      /\ \A w \in NetWorker : Cardinality({i \in DOMAIN queue[w] : queue[w][i] = j}) <=
                                    (IF jobBook[j].to = w /\ netRuns.taken[j] = 0 THEN 1 ELSE 0)
                      /\ jobBook[j] # NoJob /\ ~jobBook[j].done /\ netRuns.taken[j] = 0
                         => Contains(queue[jobBook[j].to], j)
    BY DEF JobsAccounted
  <2>1. netRuns.taken[j] <= 1
    <3>1. netRuns.taken[j] \in {0, 1}
      BY DEF NetInv, NetTypes
    <3> QED BY <3>1
  <2>2. ASSUME NEW w \in NetWorker
        PROVE  Cardinality({i \in DOMAIN queue[w] : queue[w][i] = j}) <=
                                    (IF jobBook[j].to = w /\ netRuns.taken[j] = 0 THEN 1 ELSE 0)
    <3> DEFINE C == {i \in DOMAIN queue[w] : queue[w][i] = j}
    <3>1. CASE C = {}
      BY <3>1, FS_EmptySet
    <3>2. CASE C # {}
      <4>1. PICK i \in C : TRUE
        BY <3>2
      <4>2. C = {i}
        BY <1>1 DEF NetInv, JobsInv, QueueOnce
      <4>3. Cardinality(C) = 1
        <5> HIDE DEF C
        <5> QED BY <4>2, FS_Singleton
      <4>4. jobBook[j].to = w /\ netRuns.taken[j] = 0
        BY <1>1 DEF NetInv, JobsInv, QueueOwn
      <4> HIDE DEF C
      <4>5. Cardinality(C) <= (IF jobBook[j].to = w /\ netRuns.taken[j] = 0 THEN 1 ELSE 0)
        BY <4>3, <4>4
      <4> QED BY <4>5 DEF C
    <3> QED BY <3>1, <3>2
  <2>3. jobBook[j] # NoJob /\ ~jobBook[j].done /\ netRuns.taken[j] = 0 => Contains(queue[jobBook[j].to], j)
    BY DEF NetInv, JobsInv, JobsQueued, Contains
  <2> QED BY <2>1, <2>2, <2>3
<1>4. BondsConserved
  <2>1. coins.liquid \in [NetWorker -> Nat] /\ coins.bond \in [NetWorker -> Nat] /\ coins.pool \in Nat
    BY DEF NetInv, NetTypes
  <2>2. /\ SumFunction(coins.liquid) = SumFunctionOnSet(coins.liquid, NetWorker)
        /\ SumFunction(coins.bond) = SumFunctionOnSet(coins.bond, NetWorker)
        /\ SumFunction(LiquidStart) = SumFunctionOnSet(LiquidStart, NetWorker)
    BY <2>1, NetNats DEF SumFunction
  <2>3. guardians \in SUBSET NetWorker
    BY DEF NetInv, NetTypes
  <2>4. Cardinality(guardians) \in Nat
    BY <2>3, NetNats, FS_Subset, FS_CardinalityType
  <2>5. GuardianGrant * Cardinality(guardians) \in Nat
    BY <2>4, NetNats
  <2>6. PoolStart - coins.pool = GuardianGrant * Cardinality(guardians)
    BY <2>1, <2>5, NetNats DEF NetInv, CoinsKept
  <2> QED BY <2>2, <2>6 DEF NetInv, CoinsKept, BondsConserved
<1>5. RolesAgree
  BY DEF NetInv, RolesInv, RolesPending, RolesAgree
<1> QED BY <1>2, <1>3, <1>4, <1>5 DEF WorkersSound

\* Jobs are handed out at most once and never lost from their queue, bonds and grants
\* conserve the coins, and the registry's role is the ledger's unless completions
\* overlapped (worker_network.rs, rest/handlers/worker.rs), for every number of workers
\* and jobs.
THEOREM WorkersAreSound == NetSpec => []WorkersSound
BY NetStarts, NetSteps, NetInvSound, PTL DEF NetSpec

-----------------------------------------------------------------------------
(* The gate of the auto-miner.                                               *)

\* Where the loop can be, and what the gate reads and records.
Positions == {"sleep", "read1", "gate1", "elect", "read2", "gate2", "mine"}
Tips == [height : 0..MaxGateHeight, branch : Branch]
Passes == [ahead : BOOLEAN, heard : BOOLEAN, height : 0..MaxGateHeight, since : 0..StableSec]
\* The heights a hello brings; its tip is not typed.
HelloTypes ==
    /\ DOMAIN hellos = GatePeer
    /\ \A p \in GatePeer : hellos[p].height \in 0..MaxGateHeight
\* The settings, the sync state and the loop have their types.
GateTypes ==
    /\ role \in GateRoles
    /\ local \in Tips
    /\ latch \in BOOLEAN /\ busy \in BOOLEAN /\ syncedOnce \in BOOLEAN
    /\ stableAge \in 0..NoAge /\ upAge \in 0..Grace
    /\ miner \in [at : Positions, seen : Tips]
    /\ gateHist \in [fail : 0..StableSec, pass : Passes, hellos : Nat, restarts : Nat]
\* The tip the gate has read is at most the node's own.
SeenBelow == miner.seen.height <= local.height
\* The window is at most as old as the last gate that found the node out of sync.
WindowAge == stableAge # NoAge => stableAge <= gateHist.fail
\* What GateSound says of the last pass.
PassSound ==
    LET g == gateHist.pass
    IN  /\ ~g.ahead /\ g.since >= StableSec
        /\ g.heard \/ ~role.bootnodes \/ role.bootnode \/ (role.sole /\ g.height > 0)
\* The inductive invariant of the gate.
GateInv == GateTypes /\ HelloTypes /\ SeenBelow /\ WindowAge /\ PassSound

\* The assumptions on the constants, one by one.
LEMMA GateNats ==
    /\ StableSec \in Nat /\ StableSec > 0 /\ Grace \in Nat /\ MaxGateHeight \in Nat
    /\ OwnBranch \in Branch /\ StartHeights \subseteq 0..MaxGateHeight
BY MiningGateAssumption

\* The gate starts within its invariant.
LEMMA GateStarts == GateInit => GateInv
<1> SUFFICES ASSUME GateInit PROVE GateInv
  OBVIOUS
<1>1. PICK h \in StartHeights : local = [height |-> h, branch |-> OwnBranch]
  BY DEF GateInit
<1>2. local \in Tips
  BY <1>1, GateNats DEF Tips
<1>3. NoPass \in Passes
  BY GateNats DEF NoPass, Passes
<1>4. GateTypes
  <2>1. miner \in [at : Positions, seen : Tips]
    BY <1>2 DEF GateInit, Positions
  <2>2. gateHist \in [fail : 0..StableSec, pass : Passes, hellos : Nat, restarts : Nat]
    BY <1>3, GateNats DEF GateInit
  <2>3. stableAge \in 0..NoAge /\ upAge \in 0..Grace /\ role \in GateRoles
    BY GateNats DEF GateInit, NoAge
  <2>4. latch \in BOOLEAN /\ busy \in BOOLEAN /\ syncedOnce \in BOOLEAN
    BY DEF GateInit
  <2> QED BY <1>2, <2>1, <2>2, <2>3, <2>4 DEF GateTypes
<1>5. HelloTypes
  BY GateNats DEF GateInit, HelloTypes, NoHello
<1>6. SeenBelow /\ WindowAge
  BY <1>2, GateNats DEF GateInit, SeenBelow, WindowAge, Tips
<1>7. PassSound
  BY GateNats DEF GateInit, PassSound, NoPass
<1> QED BY <1>4, <1>5, <1>6, <1>7 DEF GateInv

\* record_peer_hello and note_peer_block_height keep the invariant.
LEMMA HelloKeeps ==
    ASSUME GateInv, NEW p \in GatePeer, NEW h \in 0..MaxGateHeight, NEW tip,
           RecordHello(p, h, tip) \/ NoteBlockHeight(p, h)
    PROVE  GateInv'
<1>1. HelloTypes'
  <2>1. ASSUME NEW x, x.height \in 0..MaxGateHeight, hellos' = [hellos EXCEPT ![p] = x]
        PROVE  HelloTypes'
    BY <2>1 DEF GateInv, HelloTypes
  <2>2. CASE RecordHello(p, h, tip)
    <3> DEFINE x == [height |-> h, tip |-> tip, here |-> TRUE]
    <3>1. x.height = h /\ hellos' = [hellos EXCEPT ![p] = x]
      BY <2>2 DEF RecordHello
    <3> HIDE DEF x
    <3> QED BY <2>1, <3>1
  <2>3. CASE NoteBlockHeight(p, h)
    <3> DEFINE x == [height |-> h, tip |-> <<"-", 0>>, here |-> TRUE]
    <3>1. x.height = h
      OBVIOUS
    <3> HIDE DEF x
    <3>2. \/ hellos' = [hellos EXCEPT ![p].height = h] \/ hellos' = [hellos EXCEPT ![p] = x] \/ hellos' = hellos
      BY <2>3 DEF NoteBlockHeight, x
    <3>3. CASE hellos' = [hellos EXCEPT ![p].height = h]
      BY <3>3 DEF GateInv, HelloTypes
    <3> QED BY <2>1, <3>1, <3>2, <3>3 DEF GateInv, HelloTypes
  <2> QED BY <2>2, <2>3
<1>2. gateHist' = [gateHist EXCEPT !.hellos = @ + 1] /\ latch' = (latch \/ h > local.height)
  BY DEF RecordHello, NoteBlockHeight
<1>3. UNCHANGED <<role, local, busy, stableAge, syncedOnce, upAge, miner>>
  BY DEF RecordHello, NoteBlockHeight
<1>4. gateHist'.pass = gateHist.pass /\ gateHist'.fail = gateHist.fail
      /\ gateHist' \in [fail : 0..StableSec, pass : Passes, hellos : Nat, restarts : Nat]
  BY <1>2 DEF GateInv, GateTypes
<1>5. latch' \in BOOLEAN
  BY <1>2, Zenon
<1>6. GateTypes'
  BY <1>3, <1>4, <1>5 DEF GateInv, GateTypes
<1> QED BY <1>1, <1>3, <1>4, <1>6 DEF GateInv, SeenBelow, WindowAge, PassSound

\* A peer that leaves keeps the invariant.
LEMMA PeerGoneKeeps ==
    ASSUME GateInv, NEW p \in GatePeer, RemovePeer(p)
    PROVE  GateInv'
BY GateNats DEF GateInv, GateTypes, HelloTypes, SeenBelow, WindowAge, PassSound, RemovePeer, NoHello

\* The driver's step keeps the invariant.
LEMMA DriverKeeps ==
    ASSUME GateInv, DriverStep
    PROVE  GateInv'
<1>1. busy' = AnyPeerAhead(local.height) /\ latch' = (latch /\ busy')
  BY DEF DriverStep
<1>2. busy' \in BOOLEAN /\ latch' \in BOOLEAN
  <2>1. AnyPeerAhead(local.height) \in BOOLEAN
    BY Zenon DEF AnyPeerAhead
  <2> QED BY <1>1, <2>1, Zenon
<1>3. UNCHANGED <<role, local, hellos, stableAge, syncedOnce, upAge, miner, gateHist>>
  BY DEF DriverStep
<1> QED BY <1>2, <1>3 DEF GateInv, GateTypes, HelloTypes, SeenBelow, WindowAge, PassSound

\* A block of the network, applied between the gate's read and its decision or not, keeps
\* the invariant.
LEMMA RemoteKeeps ==
    ASSUME GateInv, NEW b \in Branch, ApplyRemote(b)
    PROVE  GateInv'
<1>1. local' = [height |-> local.height + 1, branch |-> b] /\ local.height < MaxGateHeight
  BY DEF ApplyRemote
<1>2. UNCHANGED <<role, hellos, latch, busy, stableAge, syncedOnce, upAge, miner, gateHist>>
  BY DEF ApplyRemote
<1>3. local.height \in 0..MaxGateHeight /\ miner.seen.height \in 0..MaxGateHeight
  BY DEF GateInv, GateTypes, Tips
<1>4. local' \in Tips /\ local'.height = local.height + 1
  BY <1>1, <1>3, GateNats DEF Tips
<1>5. GateTypes'
  BY <1>2, <1>4 DEF GateInv, GateTypes
<1>6. SeenBelow'
  BY <1>2, <1>3, <1>4 DEF GateInv, SeenBelow
<1> QED BY <1>2, <1>5, <1>6 DEF GateInv, HelloTypes, WindowAge, PassSound

\* mine_pending_block_as keeps the invariant.
LEMMA MineKeeps ==
    ASSUME GateInv, MineOne
    PROVE  GateInv'
<1>1. local' = [local EXCEPT !.height = @ + 1] /\ miner' = [miner EXCEPT !.at = "sleep"] /\ local.height < MaxGateHeight
  BY DEF MineOne
<1>2. UNCHANGED <<role, hellos, latch, busy, stableAge, syncedOnce, upAge, gateHist>>
  BY DEF MineOne
<1>3. local.height \in 0..MaxGateHeight /\ miner.seen.height \in 0..MaxGateHeight
  BY DEF GateInv, GateTypes, Tips
<1>4. local' \in Tips /\ local'.height = local.height + 1
  BY <1>1, <1>3, GateNats DEF Tips, GateInv, GateTypes
<1>5. miner' \in [at : Positions, seen : Tips] /\ miner'.seen = miner.seen
  BY <1>1 DEF GateInv, GateTypes, Positions
<1>6. GateTypes'
  BY <1>2, <1>4, <1>5 DEF GateInv, GateTypes
<1>7. SeenBelow'
  BY <1>3, <1>4, <1>5 DEF GateInv, SeenBelow
<1> QED BY <1>2, <1>6, <1>7 DEF GateInv, HelloTypes, WindowAge, PassSound

\* Where the loop moves without touching the sync state.
LEMMA LoopKeeps ==
    ASSUME GateInv, miner' \in [at : Positions, seen : Tips], miner'.seen.height <= local.height,
           UNCHANGED <<role, local, hellos, latch, busy, stableAge, syncedOnce, upAge, gateHist>>
    PROVE  GateInv'
BY DEF GateInv, GateTypes, HelloTypes, SeenBelow, WindowAge, PassSound

\* The loop moves on and keeps the tip it read.
LEMMA PositionKeeps ==
    ASSUME GateInv, NEW at \in Positions, miner' = [miner EXCEPT !.at = at],
           UNCHANGED local
    PROVE  miner' \in [at : Positions, seen : Tips] /\ miner'.seen = miner.seen /\ miner'.seen.height <= local.height
BY DEF GateInv, GateTypes, SeenBelow

\* Timer and election keep the invariant.
LEMMA WakeKeeps ==
    ASSUME GateInv, NEW leads \in BOOLEAN, Wake \/ ElectLeader(leads)
    PROVE  GateInv'
<1>1. UNCHANGED <<role, local, hellos, latch, busy, stableAge, syncedOnce, upAge, gateHist>>
  BY DEF Wake, ElectLeader
<1>2. \E at \in Positions : miner' = [miner EXCEPT !.at = at]
  BY DEF Wake, ElectLeader, Positions
<1> QED BY <1>1, <1>2, PositionKeeps, LoopKeeps

\* Reading the tip keeps the invariant.
LEMMA ReadKeeps ==
    ASSUME GateInv, GateRead
    PROVE  GateInv'
<1>1. miner' = [at |-> IF miner.at = "read1" THEN "gate1" ELSE "gate2", seen |-> local]
  BY DEF GateRead
<1>2. UNCHANGED <<role, local, hellos, latch, busy, stableAge, syncedOnce, upAge, gateHist>>
  BY DEF GateRead
<1>3. local \in Tips /\ local.height \in Nat
  BY GateNats DEF GateInv, GateTypes, Tips
<1>4. miner' \in [at : Positions, seen : Tips] /\ miner'.seen.height <= local.height
  BY <1>1, <1>3 DEF Positions
<1> QED BY <1>2, <1>4, LoopKeeps

\* auto_mine_blocked_by_sync keeps the invariant. It compares with the tip it read, which
\* is at most the tip of now: a peer not ahead of the one is not ahead of the other.
LEMMA DecideKeeps ==
    ASSUME GateInv, GateDecide
    PROVE  GateInv'
<1>1. UNCHANGED <<role, local, hellos, latch, busy, upAge>>
  BY DEF GateDecide
<1>2. stableAge \in 0..NoAge /\ gateHist.fail \in 0..StableSec /\ NoAge \in Nat /\ NoAge = StableSec + 1
  BY GateNats DEF GateInv, GateTypes, NoAge
<1>3. CASE ~Synced(miner.seen) /\ Blocked
  <2>1. /\ stableAge' = NoAge /\ miner' = [miner EXCEPT !.at = "sleep"] /\ syncedOnce' = syncedOnce
        /\ gateHist' = [gateHist EXCEPT !.fail = 0]
    BY <1>3 DEF Blocked, CloseWindow
  <2>2. /\ gateHist' \in [fail : 0..StableSec, pass : Passes, hellos : Nat, restarts : Nat]
        /\ gateHist'.pass = gateHist.pass
    BY <2>1, GateNats DEF GateInv, GateTypes
  <2>3. miner' \in [at : Positions, seen : Tips] /\ miner'.seen = miner.seen /\ miner'.seen.height <= local.height
    BY <1>1, <2>1, PositionKeeps DEF Positions
  <2> QED BY <1>1, <1>2, <2>1, <2>2, <2>3 DEF GateInv, GateTypes, HelloTypes, SeenBelow, WindowAge, PassSound
<1>4. CASE Synced(miner.seen) /\ Unsettled
  <2>1. /\ stableAge' = (IF stableAge = NoAge THEN 0 ELSE stableAge) /\ miner' = [miner EXCEPT !.at = "sleep"]
        /\ syncedOnce' = TRUE /\ gateHist' = gateHist
    BY <1>4 DEF Unsettled
  <2>2. miner' \in [at : Positions, seen : Tips] /\ miner'.seen = miner.seen /\ miner'.seen.height <= local.height
    BY <1>1, <2>1, PositionKeeps DEF Positions
  <2>3. WindowAge' /\ stableAge' \in 0..NoAge
    BY <1>2, <2>1 DEF GateInv, WindowAge, NoAge
  <2> QED BY <1>1, <2>1, <2>2, <2>3 DEF GateInv, GateTypes, HelloTypes, SeenBelow, PassSound
<1>5. CASE Synced(miner.seen) /\ stableAge # NoAge /\ stableAge >= StableSec /\ Passed
  <2> DEFINE g == [ahead |-> AnyPeerAhead(local.height), heard |-> Heard # {},
                   height |-> miner.seen.height, since |-> gateHist.fail]
  <2>1. /\ miner' = [miner EXCEPT !.at = AfterGate] /\ gateHist' = [gateHist EXCEPT !.pass = g]
        /\ syncedOnce' = TRUE /\ stableAge' = stableAge
    BY <1>5 DEF Passed
  <2>2. AfterGate \in Positions
    BY DEF AfterGate, Positions
  <2>3. miner' \in [at : Positions, seen : Tips] /\ miner'.seen = miner.seen /\ miner'.seen.height <= local.height
    BY <1>1, <2>1, <2>2, PositionKeeps
  <2>4. gateHist.fail >= StableSec /\ miner.seen.height <= local.height
    BY <1>2, <1>5, GateNats DEF GateInv, WindowAge, SeenBelow
  <2>5. miner.seen.height \in 0..MaxGateHeight /\ local.height \in 0..MaxGateHeight
    BY DEF GateInv, GateTypes, Tips
  <2>6. ~AnyPeerAhead(local.height)
    <3>1. ~AnyPeerAhead(miner.seen.height)
      BY <1>5 DEF Synced
    <3> QED BY <2>4, <2>5, <3>1 DEF AnyPeerAhead, Heard, GateInv, HelloTypes
  <2>7. Heard # {} \/ ~role.bootnodes \/ role.bootnode \/ (role.sole /\ miner.seen.height > 0)
    BY <1>5 DEF Synced, AwaitingFirstHello, PeerlessAllowed
  <2>8. ASSUME NEW a \in BOOLEAN, NEW b \in BOOLEAN
        PROVE  /\ [ahead |-> a, heard |-> b, height |-> miner.seen.height, since |-> gateHist.fail] \in Passes
    BY <1>2, <2>5 DEF Passes
  <2>9. (Heard # {}) \in BOOLEAN /\ AnyPeerAhead(local.height) \in BOOLEAN
    BY Zenon DEF AnyPeerAhead
  <2>10. g \in Passes
    BY <2>8, <2>9
  <2>11. g.height = miner.seen.height /\ g.since = gateHist.fail /\ g.heard = (Heard # {}) /\ g.ahead = AnyPeerAhead(local.height)
    BY Zenon
  <2> HIDE DEF g
  <2>12. /\ gateHist' \in [fail : 0..StableSec, pass : Passes, hellos : Nat, restarts : Nat]
         /\ gateHist'.pass = g /\ gateHist'.fail = gateHist.fail
    BY <2>1, <2>10 DEF GateInv, GateTypes
  <2>13. PassSound'
    <3>1. ~g.ahead
      BY <2>6, <2>11
    <3>2. g.heard \/ ~role.bootnodes \/ role.bootnode \/ (role.sole /\ g.height > 0)
      BY <2>7, <2>11
    <3> QED BY <1>1, <2>4, <2>11, <2>12, <3>1, <3>2 DEF PassSound
  <2> QED BY <1>1, <2>1, <2>3, <2>12, <2>13 DEF GateInv, GateTypes, HelloTypes, SeenBelow, WindowAge
<1> QED BY <1>3, <1>4, <1>5 DEF GateDecide

\* Time passing keeps the invariant: window and last refusal age alike.
LEMMA TickKeeps ==
    ASSUME GateInv, GateTick
    PROVE  GateInv'
<1>1. UNCHANGED <<role, local, hellos, latch, busy, syncedOnce, miner>>
  BY DEF GateTick
<1>2. /\ stableAge' = (IF stableAge = NoAge THEN NoAge ELSE Older(stableAge, StableSec))
      /\ upAge' = Older(upAge, Grace)
      /\ gateHist' = [gateHist EXCEPT !.fail = Older(@, StableSec)]
  BY DEF GateTick
<1>3. stableAge \in 0..NoAge /\ gateHist.fail \in 0..StableSec /\ NoAge \in Nat /\ NoAge = StableSec + 1 /\ upAge \in 0..Grace
  BY GateNats DEF GateInv, GateTypes, NoAge
<1>4. /\ gateHist'.fail = Older(gateHist.fail, StableSec) /\ gateHist'.pass = gateHist.pass
      /\ Older(gateHist.fail, StableSec) \in 0..StableSec
      /\ gateHist' \in [fail : 0..StableSec, pass : Passes, hellos : Nat, restarts : Nat]
  BY <1>2, <1>3, GateNats DEF GateInv, GateTypes, Older
<1>5. stableAge' \in 0..NoAge /\ upAge' \in 0..Grace
  BY <1>2, <1>3, GateNats DEF Older
<1>6. WindowAge'
  BY <1>2, <1>3, <1>4, GateNats DEF GateInv, WindowAge, Older, NoAge
<1> QED BY <1>1, <1>4, <1>5, <1>6 DEF GateInv, GateTypes, HelloTypes, SeenBelow, PassSound, NoAge

\* A restart keeps the invariant.
LEMMA GateRestartKeeps ==
    ASSUME GateInv, GateRestart
    PROVE  GateInv'
<1>1. /\ hellos' = [p \in GatePeer |-> NoHello] /\ latch' = FALSE /\ busy' = FALSE
      /\ stableAge' = NoAge /\ syncedOnce' = FALSE /\ upAge' = 0
      /\ miner' = [at |-> "sleep", seen |-> local]
      /\ gateHist' = [gateHist EXCEPT !.restarts = @ + 1, !.fail = 0]
      /\ role' = role /\ local' = local
  BY DEF GateRestart
<1>2. /\ gateHist' \in [fail : 0..StableSec, pass : Passes, hellos : Nat, restarts : Nat]
      /\ gateHist'.pass = gateHist.pass
  <2> DEFINE R == gateHist.restarts + 1
  <2>1. R \in Nat /\ 0 \in 0..StableSec
    BY GateNats DEF GateInv, GateTypes
  <2>2. gateHist' = [gateHist EXCEPT !.restarts = R, !.fail = 0]
    BY <1>1
  <2> HIDE DEF R
  <2> QED BY <2>1, <2>2 DEF GateInv, GateTypes
<1>3. GateTypes' /\ SeenBelow'
  <2>1. local \in Tips /\ local.height \in Nat
    BY GateNats DEF GateInv, GateTypes, Tips
  <2>2. miner' \in [at : Positions, seen : Tips] /\ miner'.seen = local
    BY <1>1, <2>1 DEF Positions
  <2>3. stableAge' \in 0..NoAge /\ upAge' \in 0..Grace
    BY <1>1, GateNats DEF NoAge
  <2>4. latch' \in BOOLEAN /\ busy' \in BOOLEAN /\ syncedOnce' \in BOOLEAN
    BY <1>1
  <2>5. role' \in GateRoles /\ local' \in Tips
    BY <1>1, <2>1 DEF GateInv, GateTypes
  <2>6. GateTypes'
    BY <1>2, <2>2, <2>3, <2>4, <2>5 DEF GateTypes
  <2> QED BY <1>1, <2>1, <2>2, <2>6 DEF SeenBelow
<1>4. HelloTypes' /\ WindowAge'
  BY <1>1, GateNats DEF HelloTypes, NoHello, WindowAge, NoAge
<1>5. PassSound'
  BY <1>1, <1>2 DEF GateInv, PassSound
<1> QED BY <1>3, <1>4, <1>5 DEF GateInv

\* Every step of the gate and of the loop keeps the invariant.
LEMMA GateSteps == GateInv /\ [GateNext]_gateVars => GateInv'
<1> SUFFICES ASSUME GateInv, [GateNext]_gateVars PROVE GateInv'
  OBVIOUS
<1>1. ASSUME NEW p \in GatePeer, NEW h \in 0..MaxGateHeight,
             (\E b \in Branch : RecordHello(p, h, <<b, h>>)) \/ RecordHello(p, h, <<"-", 0>>) \/ NoteBlockHeight(p, h)
      PROVE  GateInv'
  BY <1>1, HelloKeeps
<1>2. ASSUME NEW p \in GatePeer, RemovePeer(p) PROVE GateInv'
  BY <1>2, PeerGoneKeeps
<1>3. ASSUME NEW b \in Branch, ApplyRemote(b) PROVE GateInv'
  BY <1>3, RemoteKeeps
<1>4. CASE MinerStep
  BY <1>4, WakeKeeps, ReadKeeps, DecideKeeps, MineKeeps DEF MinerStep
<1>5. CASE DriverStep \/ GateTick \/ GateRestart
  BY <1>5, DriverKeeps, TickKeeps, GateRestartKeeps
<1>6. CASE UNCHANGED gateVars
  BY <1>6 DEF gateVars, GateInv, GateTypes, HelloTypes, SeenBelow, WindowAge, PassSound, NoAge
<1> QED BY <1>1, <1>2, <1>3, <1>4, <1>5, <1>6 DEF GateNext

\* The invariant implies what the runs check.
LEMMA GateInvSound == GateInv => GateSound
<1> SUFFICES ASSUME GateInv PROVE GateSound
  OBVIOUS
<1>1. {latch, busy, syncedOnce} \subseteq BOOLEAN
  BY Zenon DEF GateInv, GateTypes
<1>2. GateTypeOK
  BY <1>1 DEF GateInv, GateTypes, HelloTypes, GateTypeOK, Tips, Positions
<1> QED BY <1>2 DEF GateInv, PassSound, GateSound

\* The gate lets the miner through only when no registered peer is above the tip of that
\* moment, after the whole stable window, and with nobody heard only where
\* peerless_mining_allowed says so, for all windows, heights and peers.
THEOREM GateIsSound == GateSpec => []GateSound
BY GateStarts, GateSteps, GateInvSound, PTL DEF GateSpec

-----------------------------------------------------------------------------
(* The public API's gate and the watchdog.                                   *)

\* The keys of the gate, the days of the budget, and what the process may grant for its
\* starts.
Keys == Client \cup {Overflow}
Days == 0..MaxGuardTime \div DayTicks
Now == gclock \div DayTicks
Bursts == (guardHist.restarts + 1) * BurstSize

\* A map of buckets with their types.
BucketsTyped(b) ==
    /\ DOMAIN b \subseteq Keys
    /\ \A k \in DOMAIN b : b[k].tokens \in 0..BurstSize /\ b[k].at \in 0..gclock
\* The history has its types.
HistTypes ==
    /\ guardHist = [granted |-> guardHist.granted, charged |-> guardHist.charged, late |-> guardHist.late,
                    requests |-> guardHist.requests, restarts |-> guardHist.restarts,
                    exitedLive |-> guardHist.exitedLive]
    /\ guardHist.granted \in [Keys -> Nat]
    /\ guardHist.charged \in [Client -> [Days -> Nat]]
    /\ guardHist.late \in Nat /\ guardHist.restarts \in Nat
\* Clock, loop, budgets and uploads have their types.
GuardTypes ==
    /\ gclock \in 0..MaxGuardTime /\ loop \in {"boot", "live", "wedged"}
    /\ beacon.last \in 0..gclock
    /\ DOMAIN budgets \subseteq Client
    /\ \A c \in DOMAIN budgets : budgets[c].used \in 0..UploadCap /\ budgets[c].day \in 0..Now
    /\ \A u \in uploading : u.client \in Client /\ u.size \in Nat /\ u.day \in 0..Now
    /\ HistTypes

\* What a key may still be granted: the tokens in its bucket, or a burst if it has none.
Backed(b) ==
    \A k \in Keys :
        IF k \in DOMAIN b THEN guardHist.granted[k] + b[k].tokens <= Bursts + b[k].at * Rate
        ELSE guardHist.granted[k] + BurstSize <= Bursts + gclock * Rate
\* Clients' own buckets are within the limit.
RoomLeft(b) == Cardinality(DOMAIN b \ {Overflow}) <= MaxClients
\* What the invariant says of the buckets.
RateInv == BucketsTyped(buckets) /\ Backed(buckets) /\ RoomLeft(buckets)

\* The day's budget holds what was charged on it, but for late charges and restarts.
Spare(n) == (guardHist.late + guardHist.restarts + n) * UploadCap
Budgeted ==
    \A c \in Client, d \in Days :
        /\ guardHist.charged[c][d] <= Spare(1)
        /\ (c \in DOMAIN budgets /\ budgets[c].day = d) => guardHist.charged[c][d] <= Spare(0) + budgets[c].used
        /\ (~(c \in DOMAIN budgets /\ budgets[c].day = d) /\ d >= Now) => guardHist.charged[c][d] <= Spare(0)

\* A live loop has ticked within the threshold, a booting one has not started the beacon.
LoopSeen ==
    /\ loop = "boot" => ~beacon.started
    /\ loop = "live" => gclock - beacon.last <= StallAfter
    /\ ~guardHist.exitedLive

\* The inductive invariant of the guards.
GuardInv == GuardTypes /\ RateInv /\ Budgeted /\ LoopSeen

\* The assumptions on the constants, one by one.
LEMMA GuardNats ==
    /\ IsFiniteSet(Client) /\ Overflow \notin Client /\ Rate \in Nat /\ BurstSize \in Nat /\ MaxClients \in Nat
    /\ IdleDrop \in Nat /\ UploadCap \in Nat /\ StallAfter \in Nat /\ MaxGuardTime \in Nat
    /\ UploadSizes \subseteq Nat /\ DayTicks \in Nat \ {0} /\ Rate * IdleDrop >= BurstSize
    /\ IsFiniteSet(Keys)
<1>1. IsFiniteSet(Client)
  BY NodeGuardsAssumption
<1>2. IsFiniteSet(Keys)
  BY <1>1, FS_AddElement DEF Keys
<1> QED BY <1>1, <1>2, NodeGuardsAssumption

\* The day of a time is a day.
LEMMA DayTypes ==
    ASSUME NEW t \in 0..MaxGuardTime
    PROVE  t \div DayTicks \in Days /\ t \div DayTicks \in Nat
<1>1. t \in Nat /\ MaxGuardTime \in Nat /\ t <= MaxGuardTime /\ DayTicks \in Nat \ {0}
  BY GuardNats
<1>2. t \div DayTicks \in Nat /\ MaxGuardTime \div DayTicks \in Nat /\ t \div DayTicks <= MaxGuardTime \div DayTicks
  BY <1>1, DivMono
<1> QED BY <1>2 DEF Days

\* The days before a day are days.
LEMMA DayBefore ==
    ASSUME NEW x \in Days, NEW y \in 0..x
    PROVE  y \in Days /\ y \in Nat
<1> DEFINE m == MaxGuardTime \div DayTicks
<1>1. m \in Nat
  BY GuardNats, DivMono
<1>2. x \in 0..m
  BY DEF Days
<1> HIDE DEF m
<1>3. y \in 0..m /\ y \in Nat
  BY <1>1, <1>2
<1> QED BY <1>3 DEF Days, m

\* The types the lemmas below use.
LEMMA GuardFacts ==
    ASSUME GuardInv
    PROVE  /\ gclock \in Nat /\ gclock \in 0..MaxGuardTime /\ Now \in Days /\ Now \in Nat
           /\ guardHist.restarts \in Nat /\ guardHist.late \in Nat
           /\ guardHist.granted \in [Keys -> Nat] /\ guardHist.charged \in [Client -> [Days -> Nat]]
           /\ Bursts \in Nat /\ gclock * Rate \in Nat
           /\ guardHist = [granted |-> guardHist.granted, charged |-> guardHist.charged, late |-> guardHist.late,
                           requests |-> guardHist.requests, restarts |-> guardHist.restarts,
                           exitedLive |-> guardHist.exitedLive]
<1>1. gclock \in Nat /\ gclock \in 0..MaxGuardTime
  BY GuardNats DEF GuardInv, GuardTypes
<1>2. Now \in Days /\ Now \in Nat
  BY <1>1, DayTypes DEF Now
<1>3. /\ guardHist.restarts \in Nat /\ guardHist.late \in Nat
      /\ guardHist.granted \in [Keys -> Nat] /\ guardHist.charged \in [Client -> [Days -> Nat]]
      /\ guardHist = [granted |-> guardHist.granted, charged |-> guardHist.charged, late |-> guardHist.late,
                      requests |-> guardHist.requests, restarts |-> guardHist.restarts,
                      exitedLive |-> guardHist.exitedLive]
  BY DEF GuardInv, GuardTypes, HistTypes
<1>4. Bursts \in Nat /\ gclock * Rate \in Nat
  BY <1>1, <1>3, GuardNats DEF Bursts
<1> QED BY <1>1, <1>2, <1>3, <1>4

\* What a key was granted is within the burst and the refill.
LEMMA GrantedBelow ==
    ASSUME GuardInv, NEW k \in Keys
    PROVE  guardHist.granted[k] <= Bursts + gclock * Rate
<1> DEFINE g == guardHist.granted[k]
<1>1. g \in Nat
  BY GuardFacts
<1>2. CASE k \in DOMAIN buckets
  <2> DEFINE a == buckets[k].at
             t == buckets[k].tokens
  <2>1. a \in Nat /\ a <= gclock /\ t \in Nat /\ g + t <= Bursts + a * Rate
    BY <1>2, GuardFacts, GuardNats DEF GuardInv, RateInv, BucketsTyped, Backed
  <2> HIDE DEF a, t, g
  <2>2. a * Rate <= gclock * Rate /\ a * Rate \in Nat
    BY <2>1, GuardFacts, GuardNats, ProductMono, ProductNext
  <2>3. g <= Bursts + gclock * Rate
    BY <1>1, <2>1, <2>2, GuardFacts
  <2> QED BY <2>3 DEF g
<1>3. CASE k \notin DOMAIN buckets
  <2>1. g + BurstSize <= Bursts + gclock * Rate
    BY <1>3 DEF GuardInv, RateInv, Backed
  <2> HIDE DEF g
  <2>2. g <= Bursts + gclock * Rate
    BY <1>1, <2>1, GuardFacts, GuardNats
  <2> QED BY <2>2 DEF g
<1> QED BY <1>2, <1>3

\* Dropping the idle buckets of a full map gives no key more than it had coming: an idle
\* bucket is full again.
LEMMA RoomKeeps ==
    ASSUME GuardInv, NEW c \in Client
    PROVE  /\ BucketsTyped(MakeRoom(buckets, c)) /\ Backed(MakeRoom(buckets, c))
           /\ DOMAIN MakeRoom(buckets, c) \subseteq DOMAIN buckets
<1> DEFINE r == MakeRoom(buckets, c)
<1>1. /\ DOMAIN r \subseteq DOMAIN buckets /\ \A k \in DOMAIN r : r[k] = buckets[k]
      /\ \A k \in DOMAIN buckets \ DOMAIN r : gclock >= buckets[k].at + IdleDrop
  <2>1. CASE r = buckets
    BY <2>1
  <2>2. CASE r = DropIdle(buckets)
    <3>1. \A k \in DOMAIN buckets : buckets[k].at \in Nat
      BY GuardFacts DEF GuardInv, RateInv, BucketsTyped
    <3> HIDE DEF r
    <3> QED BY <2>2, <3>1, GuardFacts, GuardNats DEF DropIdle
  <2> QED BY <2>1, <2>2 DEF MakeRoom
<1> HIDE DEF r
<1>2. BucketsTyped(r)
  BY <1>1 DEF GuardInv, RateInv, BucketsTyped
<1>3. ASSUME NEW k \in Keys, k \notin DOMAIN r
      PROVE  guardHist.granted[k] + BurstSize <= Bursts + gclock * Rate
  <2>1. CASE k \notin DOMAIN buckets
    BY <2>1 DEF GuardInv, RateInv, Backed
  <2>2. CASE k \in DOMAIN buckets
    <3> DEFINE a == buckets[k].at
               t == buckets[k].tokens
               g == guardHist.granted[k]
    <3>1. gclock >= a + IdleDrop
      BY <1>1, <1>3, <2>2
    <3>2. a \in Nat /\ t \in Nat /\ g \in Nat
      BY <2>2, GuardFacts, GuardNats DEF GuardInv, RateInv, BucketsTyped
    <3>3. g + t <= Bursts + a * Rate
      BY <2>2 DEF GuardInv, RateInv, Backed
    <3> HIDE DEF a, t, g
    <3>4. (a + IdleDrop) * Rate <= gclock * Rate
      BY <3>1, <3>2, GuardFacts, GuardNats, ProductMono
    <3>5. (a + IdleDrop) * Rate = a * Rate + IdleDrop * Rate /\ IdleDrop * Rate = Rate * IdleDrop
      BY <3>2, GuardNats, ProductSum
    <3>6. a * Rate \in Nat /\ IdleDrop * Rate \in Nat
      BY <3>2, GuardNats
    <3>7. g + BurstSize <= Bursts + gclock * Rate
      BY <3>2, <3>3, <3>4, <3>5, <3>6, GuardFacts, GuardNats
    <3> QED BY <3>7 DEF g
  <2> QED BY <2>1, <2>2
<1>4. Backed(r)
  BY <1>1, <1>3 DEF GuardInv, RateInv, Backed
<1> QED BY <1>1, <1>2, <1>4 DEF r

\* Min of two numbers.
LEMMA MinOfTwo ==
    ASSUME NEW x \in Nat, NEW y \in Nat
    PROVE  Min({x, y}) \in Nat /\ Min({x, y}) <= x /\ Min({x, y}) <= y
BY MinIsLeast

\* Bucket::take: what it grants and what it leaves add up to what had come in by now.
LEMMA TakeKept ==
    ASSUME GuardInv, NEW b, b.tokens \in 0..BurstSize, b.at \in 0..gclock, NEW g \in Nat,
           g + b.tokens <= Bursts + b.at * Rate
    PROVE  /\ Taken(b).tokens \in 0..BurstSize /\ Taken(b).at = gclock
           /\ Refilled(b) >= 1 => (g + 1) + Taken(b).tokens <= Bursts + gclock * Rate
           /\ ~(Refilled(b) >= 1) => g + Taken(b).tokens <= Bursts + gclock * Rate
<1> DEFINE t == b.tokens
           a == b.at
           f == Refilled(b)
<1>1. t \in Nat /\ a \in Nat /\ a <= gclock /\ t <= BurstSize
  BY GuardFacts, GuardNats
<1>2. (gclock - a) * Rate \in Nat /\ (gclock - a) * Rate = gclock * Rate - a * Rate /\ a * Rate \in Nat
  <2>1. a * Rate <= gclock * Rate /\ a * Rate \in Nat
    BY <1>1, GuardFacts, GuardNats, ProductMono, ProductNext
  <2> HIDE DEF a
  <2>2. (gclock - a) * Rate = gclock * Rate - a * Rate
    <3>1. gclock \in Nat /\ a \in Nat /\ Rate \in Nat
      BY <1>1, GuardFacts, GuardNats
    <3> QED BY ONLY <3>1, ProductDiff
  <2> QED BY <2>1, <2>2, GuardFacts
<1>3. f \in Nat /\ f <= t + (gclock - a) * Rate /\ f <= BurstSize
  <2>1. f = Min({t + (gclock - a) * Rate, BurstSize}) /\ t + (gclock - a) * Rate \in Nat /\ BurstSize \in Nat
    BY <1>1, <1>2, GuardNats DEF Refilled
  <2> HIDE DEF f, t, a
  <2> QED BY <2>1, MinOfTwo
<1>4. Taken(b).tokens = (IF f >= 1 THEN f - 1 ELSE f) /\ Taken(b).at = gclock
  BY DEF Taken
<1>5. g + t <= Bursts + a * Rate
  OBVIOUS
<1> HIDE DEF t, a, f
<1>6. g + f <= Bursts + gclock * Rate
  BY <1>1, <1>2, <1>3, <1>5, GuardFacts
<1> DEFINE n == Taken(b).tokens
<1>7. n = (IF f >= 1 THEN f - 1 ELSE f)
  BY <1>4
<1> HIDE DEF n
<1>8. n \in 0..BurstSize /\ (f >= 1 => (g + 1) + n <= Bursts + gclock * Rate) /\ (~(f >= 1) => g + n <= Bursts + gclock * Rate)
  BY <1>3, <1>6, <1>7, GuardFacts, GuardNats
<1> QED BY <1>4, <1>8 DEF n, f

\* A key added to a map that has room, or the overflow key, leaves it within the limit.
LEMMA KeyFits ==
    ASSUME GuardInv, NEW c \in Client, NEW r, BucketsTyped(r), DOMAIN r \subseteq DOMAIN buckets
    PROVE  /\ KeyFor(r, c) \in Keys
           /\ Cardinality((DOMAIN r \cup {KeyFor(r, c)}) \ {Overflow}) <= MaxClients
<1> DEFINE D == DOMAIN r
           k == KeyFor(r, c)
           N == D \ {Overflow}
<1>1. IsFiniteSet(D) /\ IsFiniteSet(N) /\ IsFiniteSet(DOMAIN buckets \ {Overflow}) /\ N \subseteq DOMAIN buckets \ {Overflow}
  BY GuardNats, FS_Subset DEF BucketsTyped, GuardInv, RateInv
<1>2. Cardinality(N) <= MaxClients /\ Cardinality(N) \in Nat
  <2>1. Cardinality(N) <= Cardinality(DOMAIN buckets \ {Overflow})
    BY <1>1, FS_Subset
  <2>2. Cardinality(N) \in Nat /\ Cardinality(DOMAIN buckets \ {Overflow}) \in Nat
    BY <1>1, FS_CardinalityType
  <2>3. Cardinality(DOMAIN buckets \ {Overflow}) <= MaxClients
    BY DEF GuardInv, RateInv, RoomLeft
  <2> QED BY <2>1, <2>2, <2>3, GuardNats
<1>3. CASE c \in D
  <2>1. k = c /\ (D \cup {k}) \ {Overflow} = N
    BY <1>3 DEF KeyFor
  <2> QED BY <1>2, <2>1 DEF Keys
<1>4. CASE c \notin D /\ Cardinality(D) >= MaxClients
  <2>1. k = Overflow /\ (D \cup {k}) \ {Overflow} = N
    BY <1>4 DEF KeyFor
  <2> QED BY <1>2, <2>1 DEF Keys
<1>5. CASE c \notin D /\ ~(Cardinality(D) >= MaxClients)
  <2>1. k = c /\ (D \cup {k}) \ {Overflow} = N \cup {c} /\ c \notin N
    BY <1>5, GuardNats DEF KeyFor
  <2>2. Cardinality(N \cup {c}) = Cardinality(N) + 1
    BY <1>1, <2>1, FS_AddElement
  <2>3. Cardinality(N) <= Cardinality(D) /\ Cardinality(D) \in Nat
    BY <1>1, FS_Subset, FS_CardinalityType
  <2>4. Cardinality(N \cup {c}) <= MaxClients
    BY <1>2, <1>5, <2>2, <2>3, GuardNats
  <2> QED BY <2>1, <2>4 DEF Keys
<1> QED BY <1>3, <1>4, <1>5

\* A history that changes only in the tokens granted.
LEMMA SameBudgets ==
    ASSUME GuardInv, gclock' = gclock, budgets' = budgets,
           guardHist'.charged = guardHist.charged, guardHist'.late = guardHist.late,
           guardHist'.restarts = guardHist.restarts
    PROVE  Budgeted'
BY DEF GuardInv, Budgeted, Spare, Now, Days

\* A step that leaves buckets and grants alone keeps what is said of them.
LEMMA SameRate ==
    ASSUME GuardInv, gclock' = gclock, buckets' = buckets, guardHist'.granted = guardHist.granted,
           guardHist'.restarts = guardHist.restarts
    PROVE  RateInv'
BY DEF GuardInv, RateInv, BucketsTyped, Backed, RoomLeft, Bursts, Keys

\* public_api_gate up to its answer keeps the invariant.
LEMMA RequestKeeps ==
    ASSUME GuardInv, NEW c \in Client, NEW size \in UploadSizes, Request(c, size)
    PROVE  GuardInv'
<1> DEFINE room == MakeRoom(buckets, c)
           k == KeyFor(room, c)
           bucket == IF k \in DOMAIN room THEN room[k] ELSE [tokens |-> BurstSize, at |-> gclock]
           allowed == Refilled(bucket) >= 1
           g == guardHist.granted[k]
<1>1. BucketsTyped(room) /\ Backed(room) /\ DOMAIN room \subseteq DOMAIN buckets
  BY RoomKeeps
<1>2. k \in Keys /\ Cardinality((DOMAIN room \cup {k}) \ {Overflow}) <= MaxClients
  BY <1>1, KeyFits
<1>3. /\ buckets' = [key \in DOMAIN room \cup {k} |-> IF key = k THEN Taken(bucket) ELSE room[key]]
      /\ uploading' = (IF allowed /\ size > 0
                       THEN uploading \cup {[client |-> c, size |-> size, day |-> gclock \div DayTicks]} ELSE uploading)
      /\ guardHist' = [guardHist EXCEPT !.granted[k] = IF allowed THEN @ + 1 ELSE @, !.requests = @ + 1]
      /\ UNCHANGED <<gclock, budgets, beacon, loop>>
  BY DEF Request
<1> HIDE DEF room, k
<1>4. /\ bucket.tokens \in 0..BurstSize /\ bucket.at \in 0..gclock /\ g \in Nat
      /\ g + bucket.tokens <= Bursts + bucket.at * Rate
  <2>1. CASE k \in DOMAIN room
    BY <1>1, <1>2, <2>1, GuardFacts DEF BucketsTyped, Backed
  <2>2. CASE k \notin DOMAIN room
    <3>1. bucket.tokens = BurstSize /\ bucket.at = gclock
      BY <2>2
    <3> HIDE DEF bucket
    <3> QED BY <1>1, <1>2, <2>2, <3>1, GuardFacts, GuardNats DEF Backed
  <2> QED BY <2>1, <2>2
<1> HIDE DEF bucket
<1>5. /\ Taken(bucket).tokens \in 0..BurstSize /\ Taken(bucket).at = gclock
      /\ allowed => (g + 1) + Taken(bucket).tokens <= Bursts + gclock * Rate
      /\ ~allowed => g + Taken(bucket).tokens <= Bursts + gclock * Rate
  BY <1>4, TakeKept
<1> DEFINE G == IF allowed THEN g + 1 ELSE g
           H == [guardHist.granted EXCEPT ![k] = G]
<1>6. G \in Nat /\ H \in [Keys -> Nat] /\ H[k] = G /\ \A x \in Keys : x # k => H[x] = guardHist.granted[x]
  BY <1>2, <1>4, GuardFacts
<1>7. guardHist' = [granted |-> H, charged |-> guardHist.charged, late |-> guardHist.late,
                    requests |-> guardHist.requests + 1, restarts |-> guardHist.restarts,
                    exitedLive |-> guardHist.exitedLive]
  <2> HIDE DEF allowed
  <2>1. guardHist' = [guardHist EXCEPT !.granted[k] = G, !.requests = @ + 1]
    BY <1>3
  <2>2. guardHist' = [guardHist EXCEPT !.granted = H, !.requests = @ + 1]
    <3> HIDE DEF G
    <3> QED BY <2>1
  <2> HIDE DEF H
  <2> QED BY <2>2, GuardFacts
<1> HIDE DEF H, G
<1>8. /\ guardHist'.granted = H /\ guardHist'.charged = guardHist.charged /\ guardHist'.late = guardHist.late
      /\ guardHist'.restarts = guardHist.restarts /\ HistTypes'
  BY <1>6, <1>7, GuardFacts DEF HistTypes, Keys, Days
<1>80. guardHist'.exitedLive = guardHist.exitedLive
  BY <1>7
<1>9. Budgeted'
  BY <1>3, <1>8, SameBudgets
<1>10. GuardTypes'
  <2>1. \A u \in uploading' : u.client \in Client /\ u.size \in Nat /\ u.day \in 0..Now
    <3>1. size \in Nat /\ Now \in 0..Now
      BY GuardNats, GuardFacts
    <3> QED BY <1>3, <3>1 DEF GuardInv, GuardTypes, Now
  <2> QED BY <1>3, <1>8, <2>1 DEF GuardInv, GuardTypes, Now
<1>11. LoopSeen'
  BY <1>3, <1>80 DEF GuardInv, LoopSeen
<1>12. RateInv'
  <2>1. DOMAIN buckets' = DOMAIN room \cup {k}
    BY <1>3
  <2>2. \A x \in DOMAIN buckets' : buckets'[x] = IF x = k THEN Taken(bucket) ELSE room[x]
    BY <1>3
  <2>3. Bursts' = Bursts /\ gclock' = gclock
    BY <1>3, <1>8 DEF Bursts
  <2>4. BucketsTyped(buckets)'
    BY <1>1, <1>2, <1>5, <2>1, <2>2, <2>3, GuardFacts DEF BucketsTyped, Keys
  <2>5. RoomLeft(buckets)'
    BY <1>2, <2>1 DEF RoomLeft
  <2>6. ASSUME NEW x \in Keys
        PROVE  IF x \in DOMAIN buckets' THEN guardHist'.granted[x] + buckets'[x].tokens <= Bursts + buckets'[x].at * Rate
               ELSE guardHist'.granted[x] + BurstSize <= Bursts + gclock * Rate
    <3>1. CASE x = k
      <4>1. buckets'[x] = Taken(bucket) /\ x \in DOMAIN buckets' /\ guardHist'.granted[x] = G
        BY <1>6, <1>8, <2>1, <2>2, <3>1
      <4>2. buckets'[x].tokens = Taken(bucket).tokens /\ buckets'[x].at = gclock
        BY <1>5, <4>1
      <4>3. G + Taken(bucket).tokens <= Bursts + gclock * Rate
        BY <1>5 DEF G
      <4> QED BY <4>1, <4>2, <4>3
    <3>2. CASE x # k
      BY <1>1, <1>6, <1>8, <2>1, <2>2, <3>2 DEF Backed
    <3> QED BY <3>1, <3>2
  <2>7. Backed(buckets)'
    BY <2>3, <2>6 DEF Backed, Keys
  <2> QED BY <2>4, <2>5, <2>7 DEF RateInv
<1> QED BY <1>9, <1>10, <1>11, <1>12 DEF GuardInv

\* Spare, one step on.
LEMMA SpareFacts ==
    ASSUME GuardInv
    PROVE  /\ Spare(0) \in Nat /\ Spare(1) = Spare(0) + UploadCap
           /\ (guardHist.late + guardHist.restarts) * UploadCap = Spare(0)
<1> DEFINE n == guardHist.late + guardHist.restarts
<1>1. n \in Nat /\ n + 0 = n
  BY GuardFacts
<1>2. Spare(0) = (n + 0) * UploadCap /\ Spare(1) = (n + 1) * UploadCap
  BY DEF Spare
<1> HIDE DEF n
<1>3. n * UploadCap \in Nat /\ (n + 1) * UploadCap = n * UploadCap + UploadCap
  BY <1>1, GuardNats, ProductNext
<1> QED BY <1>1, <1>2, <1>3 DEF n

\* charge_upload: the day's charge is at most what the budget's entry says and what late
\* charges have undone.
LEMMA ChargeKeeps ==
    ASSUME GuardInv, NEW u \in uploading, ChargeUpload(u)
    PROVE  GuardInv'
<1> DEFINE D == Today(u.day)
           used == UsedOn(u)
           q == IF FitsBudget(u) THEN u.size ELSE 0
           L == IF u.day # Now THEN 1 ELSE 0
           cl == u.client
           old == guardHist.charged[cl][u.day]
           C == [guardHist.charged EXCEPT ![cl] = [guardHist.charged[cl] EXCEPT ![u.day] = old + q]]
<1>1. cl \in Client /\ u.size \in Nat /\ u.day \in 0..Now /\ u.day \in Days /\ u.day \in Nat
  <2>1. cl \in Client /\ u.size \in Nat /\ u.day \in 0..Now
    BY DEF GuardInv, GuardTypes
  <2> QED BY <2>1, GuardFacts, DayBefore
<1>2. /\ budgets' = [c \in D \cup {cl} |->
                       IF c = cl THEN [day |-> u.day, used |-> used + q] ELSE budgets[c]]
      /\ uploading' = uploading \ {u}
      /\ UNCHANGED <<gclock, buckets, beacon, loop>>
  BY DEF ChargeUpload
<1>3. D \subseteq DOMAIN budgets /\ \A c \in DOMAIN budgets : budgets[c].day = u.day => c \in D
  BY DEF Today
<1>4. used \in 0..UploadCap /\ q \in Nat /\ used + q \in 0..UploadCap
  <2>1. used \in 0..UploadCap
    BY <1>3, GuardNats DEF GuardInv, GuardTypes, UsedOn
  <2>2. q \in Nat /\ used + q <= UploadCap
    BY <1>1, <2>1, GuardNats DEF FitsBudget
  <2> HIDE DEF used, q
  <2> QED BY <2>1, <2>2, GuardNats
<1>5. old \in Nat /\ C \in [Client -> [Days -> Nat]]
  <2>1. old \in Nat
    BY <1>1, GuardFacts
  <2> HIDE DEF q, old, cl
  <2> QED BY <1>1, <1>4, <2>1, GuardFacts
<1>6. guardHist' = [granted |-> guardHist.granted, charged |-> C, late |-> guardHist.late + L,
                    requests |-> guardHist.requests, restarts |-> guardHist.restarts,
                    exitedLive |-> guardHist.exitedLive]
  <2>1. guardHist' = [guardHist EXCEPT !.charged[cl][u.day] = IF FitsBudget(u) THEN @ + u.size ELSE @,
                                       !.late = IF u.day # Now THEN @ + 1 ELSE @]
    BY DEF ChargeUpload, Now
  <2>2. (IF FitsBudget(u) THEN old + u.size ELSE old) = old + q
    BY <1>1, <1>5
  <2>3. (IF u.day # Now THEN guardHist.late + 1 ELSE guardHist.late) = guardHist.late + L
    BY GuardFacts
  <2>4. guardHist' = [guardHist EXCEPT !.charged = [guardHist.charged EXCEPT ![cl] = [guardHist.charged[cl] EXCEPT ![u.day] =
                                             IF FitsBudget(u) THEN old + u.size ELSE old]],
                                       !.late = IF u.day # Now THEN guardHist.late + 1 ELSE guardHist.late]
    BY <2>1
  <2>5. guardHist' = [guardHist EXCEPT !.charged = C, !.late = guardHist.late + L]
    <3> HIDE DEF q, L, cl, old
    <3> QED BY <2>2, <2>3, <2>4
  <2> HIDE DEF C, L, q, old, cl
  <2> QED BY <2>5, GuardFacts
<1> HIDE DEF D, used, q
<1>7. L \in {0, 1} /\ (L = 0 => u.day = Now)
  OBVIOUS
<1> HIDE DEF L
<1>8. /\ \A c \in Client, d \in Days : ~(c = cl /\ d = u.day) => C[c][d] = guardHist.charged[c][d]
      /\ C[cl][u.day] = old + q
  <2> HIDE DEF cl, old
  <2> QED BY <1>1, GuardFacts
<1> HIDE DEF C
<1>9. /\ guardHist'.granted = guardHist.granted /\ guardHist'.charged = C /\ guardHist'.late = guardHist.late + L
      /\ guardHist'.restarts = guardHist.restarts /\ HistTypes'
  BY <1>5, <1>6, <1>7, GuardFacts DEF HistTypes, Keys, Days
<1>10. guardHist'.exitedLive = guardHist.exitedLive
  BY <1>6
<1>11. RateInv'
  BY <1>2, <1>9, SameRate
<1>12. LoopSeen'
  BY <1>2, <1>10 DEF GuardInv, LoopSeen
<1>13. /\ DOMAIN budgets' = D \cup {cl} /\ budgets'[cl].day = u.day /\ budgets'[cl].used = used + q
       /\ \A c \in D : c # cl => budgets'[c] = budgets[c]
  BY <1>2
<1>14. GuardTypes'
  <2>1. Now' = Now /\ gclock' = gclock
    BY <1>2 DEF Now
  <2>2. DOMAIN budgets' \subseteq Client
    BY <1>1, <1>3, <1>13 DEF GuardInv, GuardTypes
  <2>3. \A c \in DOMAIN budgets' : budgets'[c].used \in 0..UploadCap /\ budgets'[c].day \in 0..Now
    BY <1>1, <1>3, <1>4, <1>13 DEF GuardInv, GuardTypes
  <2>4. \A v \in uploading' : v.client \in Client /\ v.size \in Nat /\ v.day \in 0..Now
    BY <1>2 DEF GuardInv, GuardTypes
  <2> QED BY <1>2, <1>9, <2>1, <2>2, <2>3, <2>4 DEF GuardInv, GuardTypes
<1> DEFINE S == Spare(0)
           T == Spare(0)'
<1>15. S \in Nat /\ Spare(1) = S + UploadCap /\ T = S + L * UploadCap /\ Spare(1)' = T + UploadCap /\ T \in Nat
  <2> DEFINE n == guardHist.late + guardHist.restarts
  <2>1. n \in Nat /\ L \in Nat
    BY <1>7, GuardFacts
  <2>2. T = (guardHist'.late + guardHist'.restarts + 0) * UploadCap
    BY DEF Spare
  <2>3. Spare(1)' = (guardHist'.late + guardHist'.restarts + 1) * UploadCap
    BY DEF Spare
  <2>4. guardHist'.late + guardHist'.restarts = n + L
    BY <1>7, <1>9, GuardFacts
  <2>5. S = n * UploadCap /\ S \in Nat /\ Spare(1) = S + UploadCap
    BY SpareFacts
  <2> HIDE DEF n, S, T
  <2>6. (n + L) * UploadCap = n * UploadCap + L * UploadCap /\ ((n + L) + 1) * UploadCap = (n + L) * UploadCap + UploadCap
    BY <2>1, GuardNats, ProductSum, ProductNext
  <2>7. L * UploadCap \in Nat
    BY <2>1, GuardNats
  <2>8. (n + L) + 0 = n + L
    BY <2>1
  <2> QED BY <2>2, <2>3, <2>4, <2>5, <2>6, <2>7, <2>8, GuardNats
<1>16. L * UploadCap \in Nat /\ (L = 1 => L * UploadCap = UploadCap) /\ S <= T /\ (L = 0 => T = S) /\ (L = 1 => T = S + UploadCap)
  <2> HIDE DEF S, T
  <2> QED BY <1>7, <1>15, GuardNats
<1> HIDE DEF S, T
<1>17. ASSUME NEW c \in Client, NEW d \in Days
       PROVE  /\ guardHist.charged[c][d] \in Nat /\ guardHist.charged[c][d] <= S + UploadCap
              /\ (c \in DOMAIN budgets /\ budgets[c].day = d) => guardHist.charged[c][d] <= S + budgets[c].used
              /\ (~(c \in DOMAIN budgets /\ budgets[c].day = d) /\ d >= Now) => guardHist.charged[c][d] <= S
  <2>1. guardHist.charged[c][d] \in Nat
    BY GuardFacts
  <2> QED BY <1>15, <2>1 DEF GuardInv, Budgeted, S
<1>18. Budgeted'
  <2> SUFFICES ASSUME NEW c \in Client, NEW d \in Days
               PROVE  /\ C[c][d] <= T + UploadCap
                      /\ (c \in DOMAIN budgets' /\ budgets'[c].day = d) => C[c][d] <= T + budgets'[c].used
                      /\ (~(c \in DOMAIN budgets' /\ budgets'[c].day = d) /\ d >= Now) => C[c][d] <= T
    <3>1. Now' = Now /\ Days' = Days
      BY <1>2 DEF Now, Days
    <3> QED BY <1>9, <1>15, <3>1 DEF Budgeted, T
  <2>1. CASE c = cl /\ d = u.day
    <3>1. old <= T + used
      <4>1. CASE c \in D /\ budgets[c].day = d
        <5>1. used = budgets[c].used
          BY <2>1, <4>1 DEF UsedOn, used, D
        <5>2. old <= S + budgets[c].used
          BY <1>3, <1>17, <2>1, <4>1
        <5> HIDE DEF old
        <5> QED BY <1>4, <1>5, <1>15, <1>16, <5>1, <5>2
      <4>2. CASE ~(c \in D /\ budgets[c].day = d)
        <5>1. used = 0
          BY <2>1, <4>2 DEF UsedOn, used, D
        <5>2. ~(c \in DOMAIN budgets /\ budgets[c].day = d)
          BY <1>3, <2>1, <4>2
        <5>3. CASE L = 0
          <6>1. d >= Now
            BY <1>1, <1>7, <2>1, <5>3
          <6>2. old <= S
            BY <1>17, <2>1, <5>2, <6>1
          <6> HIDE DEF old
          <6> QED BY <1>5, <1>15, <1>16, <5>1, <5>3, <6>2
        <5>4. CASE L = 1
          <6>1. old <= S + UploadCap
            BY <1>17, <2>1
          <6> HIDE DEF old
          <6> QED BY <1>5, <1>15, <1>16, <5>1, <5>4, <6>1
        <5> QED BY <1>7, <5>3, <5>4
      <4> QED BY <4>1, <4>2
    <3>2. C[c][d] = old + q
      BY <1>8, <2>1
    <3>3. c \in DOMAIN budgets' /\ budgets'[c].day = d /\ budgets'[c].used = used + q
      BY <1>13, <2>1
    <3> HIDE DEF old
    <3>4. old + q <= T + (used + q) /\ old + q <= T + UploadCap
      BY <1>4, <1>5, <1>15, <3>1, GuardNats
    <3> QED BY <3>2, <3>3, <3>4
  <2>2. CASE ~(c = cl /\ d = u.day)
    <3> DEFINE x == guardHist.charged[c][d]
    <3>1. C[c][d] = x /\ x \in Nat /\ x <= S + UploadCap
      BY <1>8, <1>17, <2>2
    <3>2. ASSUME c \in DOMAIN budgets' /\ budgets'[c].day = d
          PROVE  x <= T + budgets'[c].used
      <4>1. c # cl /\ c \in D /\ budgets'[c] = budgets[c]
        BY <1>13, <2>2, <3>2
      <4>2. budgets[c].used \in Nat /\ x <= S + budgets[c].used
        BY <1>3, <1>17, <3>2, <4>1, GuardNats DEF GuardInv, GuardTypes
      <4> HIDE DEF x
      <4> QED BY <1>15, <1>16, <3>1, <4>1, <4>2
    <3>3. ASSUME ~(c \in DOMAIN budgets' /\ budgets'[c].day = d), d >= Now
          PROVE  x <= T
      <4>1. CASE ~(c \in DOMAIN budgets /\ budgets[c].day = d)
        <5>1. x <= S
          BY <1>17, <3>3, <4>1
        <5> HIDE DEF x
        <5> QED BY <1>15, <1>16, <3>1, <5>1
      <4>2. CASE c \in DOMAIN budgets /\ budgets[c].day = d
        <5>1. d <= Now /\ d \in Nat
          BY <4>2, GuardFacts DEF GuardInv, GuardTypes
        <5>2. d # u.day
          BY <1>3, <1>13, <2>2, <3>3, <4>2
        <5>3. L = 1
          <6>1. Now \in Nat
            BY GuardFacts
          <6>2. d = Now
            BY <3>3, <5>1, <6>1
          <6> QED BY <1>7, <5>2, <6>2
        <5> HIDE DEF x
        <5> QED BY <1>16, <3>1, <5>3
      <4> QED BY <4>1, <4>2
    <3>4. x <= T + UploadCap
      <4> HIDE DEF x
      <4> QED BY <1>15, <1>16, <3>1, GuardNats
    <3> QED BY <3>1, <3>2, <3>3, <3>4
  <2> QED BY <2>1, <2>2
<1> QED BY <1>11, <1>12, <1>14, <1>18 DEF GuardInv

\* The swarm loop's tick, and its wedge, keep the invariant.
LEMMA BeaconKeeps ==
    ASSUME GuardInv, LoopTick \/ Wedge
    PROVE  GuardInv'
<1>1. /\ gclock' = gclock /\ buckets' = buckets /\ budgets' = budgets /\ uploading' = uploading
      /\ guardHist' = guardHist
  BY DEF LoopTick, Wedge
<1>2. RateInv' /\ Budgeted'
  BY <1>1, SameRate, SameBudgets
<1>3. beacon'.last \in 0..gclock /\ loop' \in {"boot", "live", "wedged"} /\ LoopSeen'
  <2>1. CASE LoopTick
    <3>1. loop' = "live" /\ beacon'.last = gclock
      BY <2>1 DEF LoopTick
    <3> QED BY <1>1, <3>1, GuardFacts, GuardNats DEF GuardInv, LoopSeen
  <2>2. CASE Wedge
    <3>1. loop' = "wedged" /\ beacon' = beacon
      BY <2>2 DEF Wedge
    <3> QED BY <1>1, <3>1 DEF GuardInv, GuardTypes, LoopSeen
  <2> QED BY <2>1, <2>2
<1>4. GuardTypes'
  BY <1>1, <1>3 DEF GuardInv, GuardTypes, Now, HistTypes, Keys, Days
<1> QED BY <1>2, <1>3, <1>4 DEF GuardInv

\* A process that exits had a wedged loop, and comes back with empty maps: a burst and a
\* day's budget more for everybody.
LEMMA ExitKeeps ==
    ASSUME GuardInv, WatchdogExit
    PROVE  GuardInv'
<1>1. /\ loop' = "boot" /\ beacon' = [started |-> FALSE, last |-> 0]
      /\ buckets' = [k \in {} |-> [tokens |-> 0, at |-> 0]] /\ budgets' = [c \in {} |-> [day |-> 0, used |-> 0]]
      /\ uploading' = {} /\ gclock' = gclock
  BY DEF WatchdogExit
<1>2. loop = "wedged"
  <2>1. beacon.started /\ gclock - beacon.last > StallAfter
    <3>1. ~Healthy
      BY DEF WatchdogExit, GivesUp
    <3>2. beacon.started /\ ~(Age <= StallAfter)
      BY <3>1, Zenon DEF Healthy
    <3>3. gclock - beacon.last > StallAfter
      BY <3>2, GuardFacts, GuardNats DEF Age, GuardInv, GuardTypes
    <3> QED BY <3>2, <3>3
  <2>2. gclock - beacon.last \in Int
    BY GuardFacts DEF GuardInv, GuardTypes
  <2> QED BY <2>1, <2>2, GuardNats DEF GuardInv, LoopSeen, GuardTypes
<1>3. ~guardHist.exitedLive
  BY DEF GuardInv, LoopSeen
<1> DEFINE E == guardHist.exitedLive \/ loop # "wedged"
           R == guardHist.restarts + 1
<1>4. ~E /\ R \in Nat
  BY <1>2, <1>3, GuardFacts
<1>5. guardHist' = [guardHist EXCEPT !.restarts = R, !.exitedLive = E]
  BY DEF WatchdogExit
<1> HIDE DEF E, R
<1>6. guardHist' = [granted |-> guardHist.granted, charged |-> guardHist.charged, late |-> guardHist.late,
                    requests |-> guardHist.requests, restarts |-> R, exitedLive |-> E]
  BY <1>5, GuardFacts
<1>7. /\ guardHist'.granted = guardHist.granted /\ guardHist'.charged = guardHist.charged
      /\ guardHist'.late = guardHist.late /\ guardHist'.restarts = R
  BY <1>6
<1>8. ~guardHist'.exitedLive
  BY <1>4, <1>6
<1>9. HistTypes'
  <2>1. guardHist' = [granted |-> guardHist'.granted, charged |-> guardHist'.charged, late |-> guardHist'.late,
                    requests |-> guardHist'.requests, restarts |-> guardHist'.restarts, exitedLive |-> guardHist'.exitedLive]
    BY <1>6
  <2> QED BY <1>4, <1>7, <2>1, GuardFacts DEF HistTypes, Keys, Days
<1>10. DOMAIN buckets' = {} /\ DOMAIN budgets' = {}
  BY <1>1
<1>11. GuardTypes'
  <2>1. beacon'.last = 0 /\ 0 \in 0..gclock
    BY <1>1, GuardFacts
  <2> QED BY <1>1, <1>9, <1>10, <2>1 DEF GuardInv, GuardTypes
<1>12. Bursts' = Bursts + BurstSize
  <2>1. Bursts' = (R + 1) * BurstSize
    BY <1>7 DEF Bursts
  <2>2. Bursts = R * BurstSize
    BY DEF Bursts, R
  <2> QED BY <1>4, <2>1, <2>2, GuardNats, ProductNext
<1>13. RateInv'
  <2>1. BucketsTyped(buckets)'
    BY <1>10 DEF BucketsTyped
  <2>2. Cardinality(DOMAIN buckets' \ {Overflow}) = 0
    <3>1. DOMAIN buckets' \ {Overflow} = {}
      BY <1>10
    <3> QED BY <3>1, FS_EmptySet
  <2>3. RoomLeft(buckets)'
    BY <2>2, GuardNats DEF RoomLeft
  <2>4. ASSUME NEW k \in Keys
        PROVE  guardHist.granted[k] + BurstSize <= (Bursts + BurstSize) + gclock * Rate
    <3>1. guardHist.granted[k] \in Nat
      BY GuardFacts
    <3>2. guardHist.granted[k] <= Bursts + gclock * Rate
      BY GrantedBelow
    <3> QED BY <3>1, <3>2, GuardFacts, GuardNats
  <2>5. Backed(buckets)'
    BY <1>1, <1>7, <1>10, <1>12, <2>4 DEF Backed, Keys
  <2> QED BY <2>1, <2>3, <2>5 DEF RateInv
<1>14. Budgeted'
  <2> DEFINE n == guardHist.late + guardHist.restarts
  <2>1. n \in Nat
    BY GuardFacts
  <2>2. guardHist'.late + guardHist'.restarts = n + 1
    BY <1>7, GuardFacts DEF R
  <2>3. Spare(0)' = (guardHist'.late + guardHist'.restarts + 0) * UploadCap
    BY DEF Spare
  <2>4. Spare(1)' = (guardHist'.late + guardHist'.restarts + 1) * UploadCap
    BY DEF Spare
  <2>5. Spare(1) = (n + 1) * UploadCap
    BY DEF Spare
  <2> HIDE DEF n
  <2>6. n + 1 + 0 = n + 1
    BY <2>1
  <2>7. n + 1 \in Nat
    BY <2>1
  <2>8. Spare(0)' = Spare(1)
    BY <2>2, <2>3, <2>5, <2>6
  <2>9. Spare(1)' = Spare(1) + UploadCap
    BY <2>2, <2>4, <2>5, <2>7, GuardNats, ProductNext
  <2>10. Spare(1) \in Nat
    BY SpareFacts, GuardNats
  <2>11. ASSUME NEW c \in Client, NEW d \in Days
         PROVE  guardHist.charged[c][d] <= Spare(1) /\ guardHist.charged[c][d] <= Spare(1) + UploadCap
    <3>1. guardHist.charged[c][d] \in Nat
      BY GuardFacts
    <3>2. guardHist.charged[c][d] <= Spare(1)
      BY DEF GuardInv, Budgeted
    <3> QED BY <2>10, <3>1, <3>2, GuardNats
  <2>12. Days' = Days
    BY DEF Days
  <2> QED BY <1>7, <1>10, <2>8, <2>9, <2>11, <2>12 DEF Budgeted
<1>15. LoopSeen'
  BY <1>1, <1>8 DEF LoopSeen
<1> QED BY <1>11, <1>13, <1>14, <1>15 DEF GuardInv

\* Time passing keeps the invariant.
LEMMA ClockKeeps ==
    ASSUME GuardInv, GuardTick
    PROVE  GuardInv'
<1>1. /\ gclock' = gclock + 1 /\ gclock < MaxGuardTime /\ buckets' = buckets /\ budgets' = budgets
      /\ uploading' = uploading /\ beacon' = beacon /\ loop' = loop /\ guardHist' = guardHist
      /\ loop = "live" => gclock - beacon.last < StallAfter
  BY DEF GuardTick, Age
<1>2. gclock' \in 0..MaxGuardTime /\ gclock' \in Nat /\ gclock <= gclock'
  BY <1>1, GuardFacts, GuardNats
<1>3. Now' \in Nat /\ Now <= Now'
  <2>1. Now' = gclock' \div DayTicks /\ Now = gclock \div DayTicks
    BY DEF Now
  <2> HIDE <1>1
  <2> QED BY <1>2, <2>1, GuardFacts, GuardNats, DivMono
<1>4. \A x \in 0..gclock : x \in 0..gclock'
  BY <1>1, GuardFacts
<1>5. \A x \in 0..Now : x \in 0..Now'
  BY <1>3, GuardFacts
<1>6. GuardTypes'
  <2>1. \A c \in DOMAIN budgets : budgets[c].used \in 0..UploadCap /\ budgets[c].day \in 0..Now'
    BY <1>5 DEF GuardInv, GuardTypes
  <2>2. \A u \in uploading : u.client \in Client /\ u.size \in Nat /\ u.day \in 0..Now'
    BY <1>5 DEF GuardInv, GuardTypes
  <2>3. beacon.last \in 0..gclock' /\ loop \in {"boot", "live", "wedged"} /\ DOMAIN budgets \subseteq Client
    BY <1>4 DEF GuardInv, GuardTypes
  <2>4. HistTypes'
    BY <1>1 DEF GuardInv, GuardTypes, HistTypes, Keys, Days
  <2> HIDE <1>1
  <2> QED BY <1>1, <1>2, <2>1, <2>2, <2>3, <2>4 DEF GuardTypes
<1>7. RateInv'
  <2>1. gclock * Rate <= gclock' * Rate /\ gclock' * Rate \in Nat
    BY <1>2, GuardFacts, GuardNats, ProductMono, ProductNext
  <2>2. Bursts' = Bursts
    BY <1>1 DEF Bursts
  <2>3. BucketsTyped(buckets)' /\ RoomLeft(buckets)'
    BY <1>1, <1>4 DEF GuardInv, RateInv, BucketsTyped, RoomLeft, Keys
  <2>4. ASSUME NEW k \in Keys
        PROVE  IF k \in DOMAIN buckets THEN guardHist.granted[k] + buckets[k].tokens <= Bursts + buckets[k].at * Rate
               ELSE guardHist.granted[k] + BurstSize <= Bursts + gclock' * Rate
    <3>1. CASE k \in DOMAIN buckets
      BY <3>1 DEF GuardInv, RateInv, Backed
    <3>2. CASE k \notin DOMAIN buckets
      <4>1. guardHist.granted[k] + BurstSize <= Bursts + gclock * Rate /\ guardHist.granted[k] \in Nat
        BY <3>2, GuardFacts DEF GuardInv, RateInv, Backed
      <4> HIDE <1>1
      <4>2. guardHist.granted[k] + BurstSize <= Bursts + gclock' * Rate
        BY <2>1, <4>1, GuardFacts, GuardNats
      <4> QED BY <3>2, <4>2
    <3> QED BY <3>1, <3>2
  <2>5. Backed(buckets)'
    <3>1. buckets' = buckets /\ guardHist' = guardHist
      BY <1>1
    <3> HIDE <1>1
    <3> QED BY <2>2, <2>4, <3>1 DEF Backed, Keys
  <2> QED BY <2>3, <2>5 DEF RateInv
<1>8. Budgeted'
  <2>1. \A d \in Days : d >= Now' => d >= Now
    <3>1. \A d \in Days : d \in Int
      BY DEF Days
    <3> QED BY <1>3, <3>1, GuardFacts
  <2>2. budgets' = budgets /\ guardHist' = guardHist /\ Days' = Days
    BY <1>1 DEF Days
  <2> QED BY <2>1, <2>2 DEF GuardInv, Budgeted, Spare
<1>9. LoopSeen'
  BY <1>1, GuardFacts, GuardNats DEF GuardInv, GuardTypes, LoopSeen
<1> QED BY <1>6, <1>7, <1>8, <1>9 DEF GuardInv

\* The guards start within their invariant.
LEMMA GuardStarts == GuardInit => GuardInv
<1> SUFFICES ASSUME GuardInit PROVE GuardInv
  OBVIOUS
<1>1. /\ gclock = 0 /\ DOMAIN buckets = {} /\ DOMAIN budgets = {}
      /\ uploading = {} /\ loop = "boot" /\ beacon.last = 0
  BY DEF GuardInit
<1>2. ~beacon.started
  BY DEF GuardInit
<1> DEFINE G == [k \in Keys |-> 0]
           C == [c \in Client |-> [d \in Days |-> 0]]
<1>3. guardHist = [granted |-> G, charged |-> C, late |-> 0, requests |-> 0, restarts |-> 0, exitedLive |-> FALSE]
  BY DEF GuardInit, Keys, Days
<1>4. G \in [Keys -> Nat] /\ C \in [Client -> [Days -> Nat]]
  OBVIOUS
<1>5. \A k \in Keys : G[k] = 0
  OBVIOUS
<1>6. \A c \in Client, d \in Days : C[c][d] = 0
  OBVIOUS
<1> HIDE DEF G, C
<1>7. guardHist.granted = G /\ guardHist.charged = C /\ guardHist.late = 0 /\ guardHist.restarts = 0
  BY <1>3
<1>8. ~guardHist.exitedLive
  BY <1>3
<1>9. HistTypes
  <2>1. guardHist = [granted |-> guardHist.granted, charged |-> guardHist.charged, late |-> guardHist.late,
                    requests |-> guardHist.requests, restarts |-> guardHist.restarts, exitedLive |-> guardHist.exitedLive]
    BY <1>3
  <2> QED BY <1>4, <1>7, <2>1 DEF HistTypes
<1>10. GuardTypes
  BY <1>1, <1>9, GuardNats DEF GuardTypes
<1>11. RateInv
  <2>1. Bursts = BurstSize
    BY <1>7, GuardNats DEF Bursts
  <2>2. Cardinality(DOMAIN buckets \ {Overflow}) = 0
    <3>1. DOMAIN buckets \ {Overflow} = {}
      BY <1>1
    <3> QED BY <3>1, FS_EmptySet
  <2>3. gclock * Rate = 0
    BY <1>1, GuardNats
  <2> QED BY <1>1, <1>5, <1>7, <2>1, <2>2, <2>3, GuardNats DEF RateInv, BucketsTyped, Backed, RoomLeft
<1>12. Budgeted
  <2>1. Spare(0) = 0 /\ Spare(1) = UploadCap
    BY <1>7, GuardNats DEF Spare
  <2> QED BY <1>1, <1>6, <1>7, <2>1, GuardNats DEF Budgeted
<1>13. LoopSeen
  BY <1>1, <1>2, <1>8 DEF LoopSeen
<1> QED BY <1>10, <1>11, <1>12, <1>13 DEF GuardInv

\* Every step of the guards keeps the invariant.
LEMMA GuardSteps == GuardInv /\ [GuardNext]_guardVars => GuardInv'
<1> SUFFICES ASSUME GuardInv, [GuardNext]_guardVars PROVE GuardInv'
  OBVIOUS
<1>1. ASSUME NEW c \in Client, NEW size \in UploadSizes, Request(c, size) PROVE GuardInv'
  BY <1>1, RequestKeeps
<1>2. ASSUME NEW u \in uploading, ChargeUpload(u) PROVE GuardInv'
  BY <1>2, ChargeKeeps
<1>3. CASE WatchNext \/ GuardTick
  BY <1>3, BeaconKeeps, ExitKeeps, ClockKeeps DEF WatchNext
<1>4. CASE UNCHANGED guardVars
  <2>1. /\ gclock' = gclock /\ buckets' = buckets /\ budgets' = budgets /\ uploading' = uploading
        /\ guardHist' = guardHist /\ beacon' = beacon /\ loop' = loop
    BY <1>4 DEF guardVars
  <2>2. GuardTypes' /\ LoopSeen'
    BY <2>1 DEF GuardInv, GuardTypes, Now, HistTypes, Keys, Days, LoopSeen
  <2> QED BY <2>1, <2>2, SameRate, SameBudgets DEF GuardInv
<1> QED BY <1>1, <1>2, <1>3, <1>4 DEF GuardNext

\* The invariant implies what the runs check.
LEMMA GuardInvSound == GuardInv => GuardsHold
<1> SUFFICES ASSUME GuardInv PROVE GuardsHold
  OBVIOUS
<1>1. GuardTypeOK
  BY DEF GuardInv, GuardTypes, RateInv, BucketsTyped, GuardTypeOK, Keys
<1>2. RateHeld
  <2>1. \A k \in Keys : guardHist.granted[k] <= Bursts + gclock * Rate
    BY GrantedBelow
  <2>2. Cardinality(DOMAIN buckets) <= MaxClients + 1
    <3> DEFINE D == DOMAIN buckets
    <3>1. IsFiniteSet(D) /\ IsFiniteSet(D \ {Overflow})
      BY GuardNats, FS_Subset DEF GuardInv, RateInv, BucketsTyped
    <3>2. Cardinality(D \ {Overflow}) <= MaxClients /\ Cardinality(D \ {Overflow}) \in Nat
      BY <3>1, FS_CardinalityType DEF GuardInv, RateInv, RoomLeft
    <3>3. CASE Overflow \in D
      <4>1. Cardinality(D \ {Overflow}) = Cardinality(D) - 1 /\ Cardinality(D) \in Nat
        BY <3>1, <3>3, FS_RemoveElement, FS_CardinalityType
      <4> QED BY <3>2, <4>1, GuardNats
    <3>4. CASE Overflow \notin D
      <4>1. D \ {Overflow} = D
        BY <3>4
      <4> QED BY <3>2, <4>1, GuardNats
    <3> QED BY <3>3, <3>4
  <2> QED BY <2>1, <2>2 DEF RateHeld, Bursts, Keys
<1>3. UploadsHeld
  <2> SUFFICES ASSUME NEW c \in Client, NEW d \in DOMAIN guardHist.charged[c]
               PROVE  guardHist.charged[c][d] <= (1 + guardHist.late + guardHist.restarts) * UploadCap
    BY DEF UploadsHeld
  <2>1. d \in Days
    BY GuardFacts
  <2>2. guardHist.charged[c][d] <= (guardHist.late + guardHist.restarts + 1) * UploadCap
    BY <2>1 DEF GuardInv, Budgeted, Spare
  <2>3. guardHist.late + guardHist.restarts + 1 = 1 + guardHist.late + guardHist.restarts
    BY GuardFacts
  <2> QED BY <2>2, <2>3
<1>4. NoFalseExit
  BY DEF GuardInv, LoopSeen, NoFalseExit
<1> QED BY <1>1, <1>2, <1>3, <1>4 DEF GuardsHold

\* No key is granted more than its bursts and the refill of the time, evicted from the
\* full map or not; no client uploads more than its daily cap but for late charges and
\* restarts; and the watchdog exits no live process (public_api.rs, swarm_health.rs), for
\* all rates, caps and clients.
THEOREM GuardsAreHeld == GuardSpec => []GuardsHold
BY GuardStarts, GuardSteps, GuardInvSound, PTL DEF GuardSpec

-----------------------------------------------------------------------------
(* The ledger's start: types.                                                *)

\* The stages of the start; the shapes of the snapshot file, the threads and the history.
Phases == {"off", "opened", "migrating", "migrated", "loaded", "cleared", "minted", "running"}
Balances == [BootWallet -> Nat]
Contents == [rows : Balances, whole : BOOLEAN]
Files == [json : Inodes \cup {NoInode}, tmp : Inodes \cup {NoInode}, content : [Inodes -> Contents]]
Threads == [pc : {"idle", "built", "open", "written"}, rows : Balances, ino : Inodes \cup {NoInode}]
Logs == [pc : {"idle", "stored", "numbered", "counted"}, event : Nat, seq : Nat]
BootStates == [at : Phases, rows : SUBSET (BootWallet \cup {"supply"}), first : StartDbs, doomed : Nat]
Hists == [faults : Nat, pays : Nat, logged : Nat, cut : BOOLEAN, shared : BOOLEAN, moved : BOOLEAN]

\* Types of the database, the snapshot file and the threads.
BootTypes ==
    /\ db \in Dbs /\ disk \in Dbs /\ boot \in BootStates /\ file \in Files
    /\ writers \in [Snapshotter -> Threads] /\ auditors \in [Auditor -> Logs] /\ bootHist \in Hists

\* Threads only run while the node does.
Quiet ==
    /\ \A t \in Snapshotter : writers[t].pc \in {"idle", "built"} => writers[t].ino = NoInode
    /\ \A t \in Snapshotter : writers[t].pc \in {"open", "written"} => writers[t].ino \in Inodes
    /\ ~Running => AllIdle

\* Types and rest together: what every other part of the invariant needs.
BtInv == BootTypes /\ Quiet

\* New balances leave a database a database.
LEMMA RowsIn == ASSUME NEW d \in Dbs, NEW r \in Balances, NEW e, e = [d EXCEPT !.rows = r] PROVE e \in Dbs
BY DEF Dbs, Balances

\* There is an inode that is neither the snapshot nor open: one thread at least has none.
LEMMA FreeIs ==
    ASSUME NEW t0 \in Snapshotter, BtInv, writers[t0].ino = NoInode
    PROVE  FreeInode \in Inodes /\ FreeInode # file.json /\ Holders(FreeInode) = {}
<1>1. PICK n : n = Cardinality(Snapshotter)
  OBVIOUS
<1>2. n \in Nat /\ IsFiniteSet(Snapshotter)
  BY <1>1, BootAssumption, FS_CardinalityType
<1>3. \E i \in Inodes : i # file.json /\ Holders(i) = {}
  <2> SUFFICES ASSUME \A i \in Inodes : i = file.json \/ Holders(i) # {} PROVE FALSE
    OBVIOUS
  <2>1. PICK S : S = Snapshotter \ {t0}
    OBVIOUS
  <2>2. IsFiniteSet(S) /\ Cardinality(S) = n - 1
    BY <1>1, <1>2, <2>1, FS_RemoveElement
  <2>3. PICK f : f = [t \in S |-> writers[t].ino]
    OBVIOUS
  <2>4. PICK R : R = {f[t] : t \in S}
    OBVIOUS
  <2>5. IsFiniteSet(R) /\ Cardinality(R) <= n - 1 /\ Cardinality(R) \in Nat
    <3>1. f \in Surjection(S, R)
      BY <2>3, <2>4 DEF Surjection
    <3>2. IsFiniteSet(R) /\ Cardinality(R) <= Cardinality(S)
      BY <3>1, <2>2, FS_Surjection
    <3> QED BY <3>2, <2>2, FS_CardinalityType
  <2>6. IsFiniteSet(R \cup {file.json}) /\ Cardinality(R \cup {file.json}) <= n
    <3>1. IsFiniteSet(R \cup {file.json}) /\ Cardinality(R \cup {file.json}) = IF file.json \in R THEN Cardinality(R) ELSE Cardinality(R) + 1
      BY <2>5, FS_AddElement
    <3> QED BY <3>1, <2>5, <1>2
  <2>7. Inodes \subseteq R \cup {file.json}
    <3> SUFFICES ASSUME NEW i \in Inodes, i # file.json PROVE i \in R
      OBVIOUS
    <3>1. Holders(i) # {}
      OBVIOUS
    <3>2. PICK t \in Snapshotter : writers[t].ino = i
      BY <3>1 DEF Holders
    <3>3. i # NoInode
      BY DEF Inodes, NoInode
    <3>4. t \in S
      BY <3>2, <3>3, <2>1
    <3> QED BY <3>2, <3>4, <2>3, <2>4
  <2>8. Cardinality(Inodes) = n + 1
    <3>1. Inodes = 1..(n + 1)
      BY <1>1 DEF Inodes
    <3>2. 1 \in Int /\ n + 1 \in Int /\ n + 1 >= 1
      BY <1>2
    <3>3. Cardinality(1..(n + 1)) = IF 1 > n + 1 THEN 0 ELSE (n + 1) - 1 + 1
      BY <3>2, FS_Interval
    <3> QED BY <3>1, <3>2, <3>3
  <2>9. Cardinality(Inodes) <= Cardinality(R \cup {file.json})
    BY <2>6, <2>7, FS_Subset
  <2> QED BY <2>6, <2>8, <2>9, <1>2, FS_CardinalityType
<1> QED BY <1>3 DEF FreeInode

\* The temporary file is the one left there, or a new one that nobody has open.
LEMMA TmpIs ==
    ASSUME NEW t0 \in Snapshotter, BtInv, writers[t0].ino = NoInode
    PROVE  /\ TmpInode \in Inodes
           /\ file.tmp # NoInode => TmpInode = file.tmp
           /\ file.tmp = NoInode => TmpInode # file.json /\ Holders(TmpInode) = {}
<1>1. file.tmp \in Inodes \cup {NoInode}
  BY DEF BtInv, BootTypes, Files
<1>2. FreeInode \in Inodes /\ FreeInode # file.json /\ Holders(FreeInode) = {}
  BY FreeIs
<1>3. CASE file.tmp = NoInode
  BY <1>2, <1>3 DEF TmpInode
<1>4. CASE file.tmp # NoInode
  BY <1>1, <1>4 DEF TmpInode
<1> QED BY <1>3, <1>4

\* With every thread at rest the snapshot written is whole and holds the balances.
LEMMA SnapshotIn ==
    ASSUME BtInv, AllIdle, NEW f, f = WholeSnapshot
    PROVE  /\ f \in Files /\ f.json \in Inodes /\ f.tmp = NoInode /\ f.content[f.json].whole
           /\ f.content[f.json].rows = db.rows
<1>1. PICK t0 \in Snapshotter : TRUE
  BY BootAssumption
<1>2. writers[t0].ino = NoInode
  BY DEF BtInv, Quiet, AllIdle
<1>3. PICK i : i = TmpInode
  OBVIOUS
<1>4. i \in Inodes
  BY <1>1, <1>2, <1>3, TmpIs
<1>5. PICK c : c = [rows |-> db.rows, whole |-> TRUE]
  OBVIOUS
<1>6. c.rows = db.rows /\ c.whole = TRUE
  BY <1>5
<1>7. c \in Contents
  <2>1. db.rows \in Balances
    BY DEF BtInv, BootTypes, Dbs, Balances
  <2> QED BY <2>1, <1>5, Zenon DEF Contents
<1>8. PICK g : g = [file.content EXCEPT ![i] = c]
  OBVIOUS
<1>9. g \in [Inodes -> Contents] /\ g[i] = c
  <2>1. file.content \in [Inodes -> Contents]
    BY DEF BtInv, BootTypes, Files
  <2> QED BY <2>1, <1>4, <1>7, <1>8
<1>10. f = [json |-> i, tmp |-> NoInode, content |-> g]
  BY <1>3, <1>5, <1>8 DEF WholeSnapshot
<1>11. f.json = i /\ f.tmp = NoInode /\ f.content = g
  BY <1>10
<1>12. f \in Files
  BY <1>4, <1>9, <1>10 DEF Files
<1> QED BY <1>4, <1>6, <1>9, <1>11, <1>12

\* An empty database and empty balances have their types.
LEMMA EmptyIn == EmptyDb \in Dbs /\ NoRows \in Balances
<1>1. NoRows \in Balances
  BY DEF NoRows, Balances
<1>2. EmptyDb = [rows |-> NoRows, supply |-> 0, scaled |-> FALSE, key |-> "-", audit |-> {}, index |-> {}, seq |-> 0]
  BY DEF EmptyDb
<1>3. "-" \in BootKey \cup {"-"} /\ 0 \in Nat /\ FALSE \in BOOLEAN /\ {} \in SUBSET Nat /\ {} \in SUBSET [seq : Nat, event : Nat]
  BY Zenon
<1> QED BY <1>1, <1>2, <1>3, Zenon DEF Dbs, Balances

\* What an action may do to the phase of the start.
LEMMA PhaseIn ==
    ASSUME boot \in BootStates, NEW p \in Phases, boot' = [boot EXCEPT !.at = p]
    PROVE  /\ boot' \in BootStates /\ boot'.at = p /\ boot'.rows = boot.rows /\ boot'.first = boot.first
           /\ boot'.doomed = boot.doomed
BY DEF BootStates

\* A counted fault changes nothing else of the history.
LEMMA FaultIn ==
    ASSUME bootHist \in Hists, bootHist' = [bootHist EXCEPT !.faults = @ + 1]
    PROVE  /\ bootHist' \in Hists /\ bootHist'.cut = bootHist.cut /\ bootHist'.shared = bootHist.shared
           /\ bootHist'.moved = bootHist.moved /\ bootHist'.logged = bootHist.logged
BY DEF Hists

\* Types hold at the first start.
LEMMA BootStarts == BootInit => BtInv
<1> SUFFICES ASSUME BootInit PROVE BtInv
  OBVIOUS
<1>1. db \in Dbs /\ disk \in Dbs /\ db \in StartDbs
  BY BootAssumption DEF BootInit
<1>2. boot \in BootStates
  <2>1. {} \in SUBSET (BootWallet \cup {"supply"}) /\ "off" \in Phases /\ 0 \in Nat
    BY DEF Phases
  <2> QED BY <1>1, <2>1, Zenon DEF BootInit, BootStates
<1>3. Torn \in Contents
  <2>1. Torn = [rows |-> NoRows, whole |-> FALSE]
    BY DEF Torn
  <2> QED BY <2>1, EmptyIn, Zenon DEF Contents
<1>4. file \in Files
  <2>1. [i \in Inodes |-> Torn] \in [Inodes -> Contents]
    BY <1>3
  <2> QED BY <2>1, Zenon DEF BootInit, Files
<1>5. NoThread \in Threads /\ NoThread.pc = "idle" /\ NoThread.ino = NoInode
  BY EmptyIn DEF NoThread, Threads
<1>6. NoLog \in Logs /\ NoLog.pc = "idle"
  BY DEF NoLog, Logs
<1>7. writers \in [Snapshotter -> Threads] /\ auditors \in [Auditor -> Logs]
  BY <1>5, <1>6 DEF BootInit
<1>8. bootHist \in Hists
  BY Zenon DEF BootInit, Hists
<1>9. \A t \in Snapshotter : writers[t].pc = "idle" /\ writers[t].ino = NoInode
  BY <1>5 DEF BootInit
<1>10. \A t \in Auditor : auditors[t].pc = "idle"
  BY <1>6 DEF BootInit
<1>11. boot.doomed = 0
  BY DEF BootInit
<1>12. BootTypes
  BY <1>1, <1>2, <1>4, <1>7, <1>8 DEF BootTypes
<1>13. Quiet
  BY <1>9, <1>10, <1>11 DEF Quiet, AllIdle
<1> QED BY <1>12, <1>13 DEF BtInv

\* Threads, phase and pruning as before: still quiet.
LEMMA QuietSame ==
    ASSUME BtInv, UNCHANGED <<writers, auditors>>, boot'.doomed = boot.doomed, Running => Running'
    PROVE  Quiet'
<1>1. AllIdle <=> AllIdle'
  BY DEF AllIdle
<1> QED BY <1>1 DEF BtInv, Quiet

\* Before the node runs, its threads are at rest and stay so.
LEMMA PhaseKeeps ==
    ASSUME BtInv, UNCHANGED <<writers, auditors>>, ~Running, boot'.doomed = boot.doomed
    PROVE  Quiet'
<1>1. AllIdle'
  BY DEF AllIdle, BtInv, Quiet
<1> QED BY <1>1 DEF BtInv, Quiet

\* The steps from the migration to the genesis keep the types.
LEMMA BootingKeeps ==
    ASSUME BtInv, MaybeMigrate \/ RecordScale \/ LoadSnapshot \/ StartWithSupply \/ ClearForGenesis \/ MintGenesis
    PROVE  BtInv'
<1>0. db \in Dbs /\ disk \in Dbs /\ boot \in BootStates /\ file \in Files /\ bootHist \in Hists
  BY DEF BtInv, BootTypes
<1>1. UNCHANGED <<writers, auditors, file, bootHist>> /\ (UNCHANGED disk \/ disk' = db')
  BY DEF MaybeMigrate, RecordScale, LoadSnapshot, StartWithSupply, ClearForGenesis, MintGenesis
<1>2. ~Running /\ boot' \in BootStates /\ boot'.doomed = boot.doomed
  <2>1. CASE MaybeMigrate
    <3>1. PICK p, r : p \in Phases /\ r \in SUBSET (BootWallet \cup {"supply"}) /\ boot' = [boot EXCEPT !.at = p, !.rows = r]
      <4>1. CASE NeedsMigration
        BY <2>1, <4>1 DEF MaybeMigrate, Phases
      <4>2. CASE ~NeedsMigration
        BY <2>1, <4>2 DEF MaybeMigrate, Phases
      <4> QED BY <4>1, <4>2
    <3>2. ~Running
      BY <2>1 DEF MaybeMigrate, Running
    <3> QED BY <3>1, <3>2, <1>0 DEF BootStates
  <2>2. CASE ~MaybeMigrate
    <3>1. PICK p \in Phases : boot' = [boot EXCEPT !.at = p]
      BY <2>2 DEF RecordScale, LoadSnapshot, StartWithSupply, ClearForGenesis, MintGenesis, At, Phases
    <3>2. ~Running
      BY <2>2 DEF RecordScale, LoadSnapshot, StartWithSupply, ClearForGenesis, MintGenesis, At, Running
    <3> QED BY <3>1, <3>2, <1>0, PhaseIn
  <2> QED BY <2>1, <2>2
<1>3. db' \in Dbs
  <2>1. CASE MaybeMigrate
    <3>1. CASE NeedsMigration
      <4>1. db' = [db EXCEPT !.scaled = db.scaled]
        BY <2>1, <3>1 DEF MaybeMigrate
      <4>2. db' = db
        BY <4>1, <1>0 DEF Dbs
      <4> QED BY <4>2, <1>0
    <3>2. CASE ~NeedsMigration
      <4>1. db' = [db EXCEPT !.scaled = TRUE]
        BY <2>1, <3>2 DEF MaybeMigrate
      <4> QED BY <4>1, <1>0 DEF Dbs
    <3> QED BY <3>1, <3>2
  <2>2. CASE RecordScale
    BY <2>2, <1>0 DEF RecordScale, Dbs
  <2>3. CASE LoadSnapshot
    <3>1. CASE Restorable
      <4>1. Snapshot \in Contents
        BY <3>1, <1>0 DEF Restorable, Snapshot, Files
      <4>2. Snapshot.rows \in Balances
        BY <4>1 DEF Contents
      <4>3. db' = [db EXCEPT !.rows = Snapshot.rows]
        BY <2>3, <3>1 DEF LoadSnapshot
      <4> QED BY <4>2, <4>3, <1>0, RowsIn
    <3>2. CASE ~Restorable
      BY <2>3, <3>2, <1>0 DEF LoadSnapshot
    <3> QED BY <3>1, <3>2
  <2>4. CASE StartWithSupply
    BY <2>4, <1>0 DEF StartWithSupply
  <2>5. CASE ClearForGenesis
    BY <2>5, <1>0, EmptyIn, RowsIn DEF ClearForGenesis, Cleared
  <2>6. CASE MintGenesis
    <3>1. PICK r : r = [w \in BootWallet |-> db.rows[w] + Allocation[w]]
      OBVIOUS
    <3>2. PICK s : s = Total(Allocation)
      OBVIOUS
    <3>3. db' = [db EXCEPT !.rows = r, !.supply = s]
      BY <2>6, <3>1, <3>2 DEF MintGenesis
    <3>4. r \in [BootWallet -> Nat]
      BY <3>1, <1>0, BootAssumption DEF Dbs
    <3>5. s \in Nat
      <4>1. \A w \in BootWallet : Allocation[w] \in Nat
        BY BootAssumption
      <4>2. DOMAIN Allocation = BootWallet
        BY BootAssumption
      <4> QED BY <4>1, <4>2, <3>2, BootAssumption, SumNat DEF Total, SumFunction
    <3> QED BY <3>3, <3>4, <3>5, <1>0 DEF Dbs
  <2> QED BY <2>1, <2>2, <2>3, <2>4, <2>5, <2>6
<1>4. BootTypes'
  BY <1>0, <1>1, <1>2, <1>3 DEF BtInv, BootTypes
<1>5. Quiet'
  BY <1>1, <1>2, PhaseKeeps
<1> QED BY <1>4, <1>5 DEF BtInv

\* Opening the database, or a wrong key, keeps the types.
LEMMA OpenKeeps ==
    ASSUME BtInv, NEW k \in BootKey, Open(k)
    PROVE  BtInv'
<1>0. db \in Dbs /\ disk \in Dbs /\ boot \in BootStates /\ file \in Files /\ bootHist \in Hists
  BY DEF BtInv, BootTypes
<1>1. UNCHANGED <<writers, auditors, file, disk>> /\ ~Running
  BY DEF Open, Running
<1>2. CASE db.key \in {"-", k}
  <2>1. boot' = [boot EXCEPT !.at = "opened"] /\ db' = [db EXCEPT !.key = k] /\ bootHist' = bootHist
    BY <1>2 DEF Open, At
  <2>2. "opened" \in Phases
    BY DEF Phases
  <2>3. boot' \in BootStates /\ boot'.doomed = boot.doomed
    BY <1>0, <2>1, <2>2, PhaseIn
  <2>4. db' \in Dbs
    BY <1>0, <2>1 DEF Dbs
  <2>5. BootTypes'
    BY <1>0, <1>1, <2>1, <2>3, <2>4 DEF BtInv, BootTypes
  <2>6. Quiet'
    BY <1>1, <2>3, PhaseKeeps
  <2> QED BY <2>5, <2>6 DEF BtInv
<1>3. CASE db.key \notin {"-", k}
  <2>1. bootHist' = [bootHist EXCEPT !.faults = @ + 1] /\ UNCHANGED <<db, boot>>
    BY <1>3 DEF Open
  <2>2. bootHist' \in Hists
    BY <2>1, <1>0, FaultIn
  <2>3. BootTypes'
    BY <1>0, <1>1, <2>1, <2>2 DEF BtInv, BootTypes
  <2>4. Quiet'
    BY <1>1, <2>1, PhaseKeeps
  <2> QED BY <2>3, <2>4 DEF BtInv
<1> QED BY <1>2, <1>3

\* An amount in the new scale is a natural.
LEMMA DivNat == ASSUME NEW x \in Nat PROVE x \div Factor \in Nat
BY BootAssumption, DivMono

\* Migrating a row keeps the types.
LEMMA MigrateKeeps ==
    ASSUME BtInv, NEW r \in BootWallet \cup {"supply"}, MigrateRow(r)
    PROVE  BtInv'
<1>0. db \in Dbs /\ disk \in Dbs /\ boot \in BootStates /\ file \in Files /\ bootHist \in Hists
  BY DEF BtInv, BootTypes
<1>1. UNCHANGED <<writers, auditors, file, disk, bootHist>> /\ ~Running /\ boot' = [boot EXCEPT !.rows = @ \ {r}]
  BY DEF MigrateRow, Running
<1>2. boot' \in BootStates /\ boot'.doomed = boot.doomed
  BY <1>0, <1>1 DEF BootStates
<1>3. db' \in Dbs
  <2>1. CASE r = "supply"
    <3>1. PICK v : v = db.supply \div Factor
      OBVIOUS
    <3>2. db' = [db EXCEPT !.supply = v]
      BY <2>1, <3>1 DEF MigrateRow
    <3>3. v \in Nat
      BY <3>1, <1>0, DivNat DEF Dbs
    <3> QED BY <3>2, <3>3, <1>0 DEF Dbs
  <2>2. CASE r # "supply"
    <3>1. PICK v : v = db.rows[r] \div Factor
      OBVIOUS
    <3>2. PICK f : f = [db.rows EXCEPT ![r] = v]
      OBVIOUS
    <3>3. db' = [db EXCEPT !.rows = f]
      BY <2>2, <3>1, <3>2 DEF MigrateRow
    <3>4. v \in Nat /\ db.rows \in [BootWallet -> Nat]
      BY <3>1, <1>0, <2>2, DivNat DEF Dbs
    <3>5. f \in Balances
      BY <3>2, <3>4 DEF Balances
    <3> QED BY <3>3, <3>5, <1>0, RowsIn
  <2> QED BY <2>1, <2>2
<1>4. BootTypes'
  BY <1>0, <1>1, <1>2, <1>3 DEF BtInv, BootTypes
<1>5. Quiet'
  BY <1>1, <1>2, PhaseKeeps
<1> QED BY <1>4, <1>5 DEF BtInv

\* A background flush keeps the types.
LEMMA FlushKeeps == ASSUME BtInv, BackgroundFlush PROVE BtInv'
<1>1. UNCHANGED <<db, boot, file, writers, auditors, bootHist>> /\ disk' = db
  BY DEF BackgroundFlush
<1>2. BootTypes'
  BY <1>1 DEF BtInv, BootTypes
<1>3. Quiet'
  <2>1. Running => Running'
    BY <1>1 DEF Running
  <2> QED BY <1>1, <2>1, QuietSame
<1> QED BY <1>2, <1>3 DEF BtInv

\* What the end of the genesis logs.
LEMMA GenesisFlushIs ==
    ASSUME BtInv, GenesisFlush
    PROVE  /\ db' \in Dbs /\ db'.audit = db.audit \cup {bootHist.logged + 1}
           /\ db'.index = db.index \cup {[seq |-> db.seq + 1, event |-> bootHist.logged + 1]}
           /\ db'.rows = db.rows /\ db'.supply = db.supply /\ db'.scaled = db.scaled
           /\ bootHist' \in Hists /\ bootHist'.logged = bootHist.logged + 1
           /\ bootHist'.cut = bootHist.cut /\ bootHist'.shared = bootHist.shared /\ bootHist'.moved = bootHist.moved
<1>0. db \in Dbs /\ bootHist \in Hists
  BY DEF BtInv, BootTypes
<1>1. PICK e : e = bootHist.logged + 1
  OBVIOUS
<1>2. e \in Nat /\ db.seq + 1 \in Nat /\ db.audit \in SUBSET Nat /\ db.index \in SUBSET [seq : Nat, event : Nat]
  BY <1>0, <1>1 DEF Hists, Dbs
<1>3. PICK x : x = [seq |-> db.seq + 1, event |-> e]
  OBVIOUS
<1>4. x \in [seq : Nat, event : Nat]
  BY <1>2, <1>3
<1>5. PICK i : i = db.index \cup {x}
  OBVIOUS
<1>a. PICK a, s, y : a = db.audit \cup {e} /\ s = db.seq + 1 /\ y = db'
  OBVIOUS
<1>6. y = [db EXCEPT !.audit = a, !.seq = s, !.index = i]
  BY <1>1, <1>3, <1>5, <1>a DEF GenesisFlush
<1>7. i \in SUBSET [seq : Nat, event : Nat] /\ a \in SUBSET Nat /\ s \in Nat
  BY <1>2, <1>4, <1>5, <1>a
<1>b. /\ y \in Dbs /\ y.audit = a /\ y.index = i
      /\ y.rows = db.rows /\ y.supply = db.supply /\ y.scaled = db.scaled
  <2>1. db.key \in BootKey \cup {"-"} /\ db.rows \in [BootWallet -> Nat] /\ db.supply \in Nat /\ db.scaled \in BOOLEAN
    BY <1>0 DEF Dbs
  <2>2. y = [rows |-> db.rows, supply |-> db.supply, scaled |-> db.scaled, key |-> db.key, audit |-> a, index |-> i, seq |-> s]
    BY <1>0, <1>6 DEF Dbs
  <2>3. y.audit = a /\ y.index = i /\ y.rows = db.rows /\ y.supply = db.supply
    BY <2>2
  <2>4. y.scaled = db.scaled
    BY <2>2, Zenon
  <2>5. y \in Dbs
    BY <1>7, <2>1, <2>2, Zenon DEF Dbs
  <2> QED BY <2>3, <2>4, <2>5, Zenon
<1>8. /\ db' \in Dbs /\ db'.audit = db.audit \cup {e} /\ db'.index = i
      /\ db'.rows = db.rows /\ db'.supply = db.supply /\ db'.scaled = db.scaled
  BY <1>a, <1>b, Zenon
<1>9. bootHist' = [bootHist EXCEPT !.logged = e]
  BY <1>1 DEF GenesisFlush
<1>10. /\ bootHist' \in Hists /\ bootHist'.logged = e
       /\ bootHist'.cut = bootHist.cut /\ bootHist'.shared = bootHist.shared /\ bootHist'.moved = bootHist.moved
  BY <1>0, <1>2, <1>9 DEF Hists
<1> QED BY <1>1, <1>3, <1>5, <1>8, <1>10

\* The end of the genesis keeps the types.
LEMMA GenesisFlushKeeps == ASSUME BtInv, GenesisFlush PROVE BtInv'
<1>0. db \in Dbs /\ boot \in BootStates
  BY DEF BtInv, BootTypes
<1>1. UNCHANGED <<writers, auditors>> /\ disk' = db' /\ file' = WholeSnapshot /\ ~Running /\ boot' = [boot EXCEPT !.at = "running"]
  BY DEF GenesisFlush, At, Running
<1>2. "running" \in Phases
  BY DEF Phases
<1>3. boot' \in BootStates /\ boot'.doomed = boot.doomed
  BY <1>0, <1>1, <1>2, PhaseIn
<1>4. AllIdle
  BY <1>1 DEF BtInv, Quiet
<1>5. file' \in Files
  BY <1>1, <1>4, SnapshotIn
<1>6. BootTypes'
  BY <1>1, <1>3, <1>5, GenesisFlushIs DEF BtInv, BootTypes
<1>7. Quiet'
  BY <1>1, <1>3, PhaseKeeps
<1> QED BY <1>6, <1>7 DEF BtInv

\* What a payment changes.
LEMMA PayIs ==
    ASSUME BtInv, NEW v \in BootWallet, NEW w \in BootWallet, Pay(v, w)
    PROVE  /\ db' \in Dbs /\ db'.audit = db.audit /\ db'.index = db.index /\ db'.supply = db.supply /\ db'.scaled = db.scaled
           /\ db'.rows = [[db.rows EXCEPT ![v] = @ - 1] EXCEPT ![w] = @ + 1]
           /\ bootHist' \in Hists /\ bootHist'.logged = bootHist.logged
           /\ bootHist'.cut = bootHist.cut /\ bootHist'.shared = bootHist.shared /\ bootHist'.moved = bootHist.moved
<1>0. db \in Dbs /\ bootHist \in Hists /\ v # w
  BY DEF BtInv, BootTypes, Pay
<1>1. PICK r : r = [[db.rows EXCEPT ![v] = @ - 1] EXCEPT ![w] = @ + 1]
  OBVIOUS
<1>2. db.rows \in [BootWallet -> Nat] /\ db.rows[v] > 0
  BY <1>0 DEF Dbs, Pay
<1>3. r \in Balances
  <2>1. PICK q : q = [db.rows EXCEPT ![v] = @ - 1]
    OBVIOUS
  <2>2. q \in [BootWallet -> Nat]
    <3>1. db.rows[v] - 1 \in Nat
      BY <1>2
    <3> QED BY <1>2, <2>1, <3>1
  <2>3. r = [q EXCEPT ![w] = @ + 1]
    BY <1>1, <2>1
  <2> QED BY <2>2, <2>3 DEF Balances
<1>4. db' = [db EXCEPT !.rows = r]
  BY <1>1, <1>0 DEF Pay, Dbs
<1>5. /\ db' \in Dbs /\ db'.rows = r /\ db'.audit = db.audit /\ db'.index = db.index
      /\ db'.supply = db.supply /\ db'.scaled = db.scaled
  BY <1>0, <1>3, <1>4, RowsIn DEF Dbs
<1>6. bootHist' = [bootHist EXCEPT !.pays = @ + 1]
  BY DEF Pay
<1>7. /\ bootHist' \in Hists /\ bootHist'.logged = bootHist.logged
      /\ bootHist'.cut = bootHist.cut /\ bootHist'.shared = bootHist.shared /\ bootHist'.moved = bootHist.moved
  BY <1>0, <1>6 DEF Hists
<1> QED BY <1>1, <1>5, <1>7

\* A payment keeps the types.
LEMMA PayKeeps == ASSUME BtInv, NEW v \in BootWallet, NEW w \in BootWallet, Pay(v, w) PROVE BtInv'
<1>1. UNCHANGED <<disk, boot, file, writers, auditors>>
  BY DEF Pay
<1>2. BootTypes'
  BY <1>1, PayIs DEF BtInv, BootTypes
<1>3. Quiet'
  <2>1. Running => Running'
    BY <1>1 DEF Running
  <2> QED BY <1>1, <2>1, QuietSame
<1> QED BY <1>2, <1>3 DEF BtInv

\* A thread at rest has its type and holds no file.
LEMMA ThreadIdle == /\ NoThread \in Threads /\ NoThread.pc = "idle" /\ NoThread.ino = NoInode
                    /\ NoLog \in Logs /\ NoLog.pc = "idle"
BY EmptyIn DEF NoThread, Threads, NoLog, Logs

\* What a crash leaves of the start and its history.
LEMMA BootCrashIs ==
    ASSUME BtInv, BootCrash
    PROVE  /\ bootHist' \in Hists /\ bootHist'.logged = bootHist.logged
           /\ bootHist'.shared = bootHist.shared /\ bootHist'.moved = bootHist.moved
           /\ bootHist'.cut = (bootHist.cut \/ HalfMigrated)
           /\ boot' \in BootStates /\ boot'.at = "off" /\ boot'.first = boot.first /\ boot'.doomed = 0
<1>0. boot \in BootStates /\ bootHist \in Hists
  BY DEF BtInv, BootTypes
<1>1. PICK c : c = (bootHist.cut \/ HalfMigrated)
  OBVIOUS
<1>2. c \in BOOLEAN
  BY <1>1, Zenon
<1>3. bootHist' = [bootHist EXCEPT !.faults = bootHist.faults + 1, !.cut = c]
  BY <1>1 DEF BootCrash
<1>4. /\ bootHist' \in Hists /\ bootHist'.logged = bootHist.logged
      /\ bootHist'.shared = bootHist.shared /\ bootHist'.moved = bootHist.moved /\ bootHist'.cut = c
  <2>1. bootHist' = [faults |-> bootHist.faults + 1, pays |-> bootHist.pays, logged |-> bootHist.logged, cut |-> c, shared |-> bootHist.shared, moved |-> bootHist.moved]
    BY <1>0, <1>3 DEF Hists
  <2>2. bootHist.faults + 1 \in Nat /\ bootHist.pays \in Nat /\ bootHist.logged \in Nat
    BY <1>0 DEF Hists
  <2>3. bootHist.moved \in BOOLEAN /\ bootHist.shared \in BOOLEAN
    BY <1>0 DEF Hists
  <2> QED BY <1>2, <2>1, <2>2, <2>3, Zenon DEF Hists
<1>5. boot' = [boot EXCEPT !.at = "off", !.rows = {}, !.doomed = 0]
  BY DEF BootCrash
<1>6. boot' \in BootStates /\ boot'.at = "off" /\ boot'.first = boot.first /\ boot'.doomed = 0
  BY <1>0, <1>5 DEF BootStates, Phases
<1>7. bootHist'.cut = (bootHist.cut \/ HalfMigrated)
  BY <1>1, <1>4, Zenon
<1> HIDE <1>1
<1> QED BY <1>4, <1>6, <1>7, Zenon

\* A crash keeps the types.
LEMMA BootCrashKeeps == ASSUME BtInv, BootCrash PROVE BtInv'
<1>1. /\ db' = disk /\ UNCHANGED <<disk, file>>
      /\ writers' = [t \in Snapshotter |-> NoThread] /\ auditors' = [t \in Auditor |-> NoLog]
  BY DEF BootCrash
<1>2. writers' \in [Snapshotter -> Threads] /\ auditors' \in [Auditor -> Logs]
  BY <1>1, ThreadIdle
<1>3. boot' \in BootStates /\ bootHist' \in Hists /\ boot'.doomed = 0
  BY BootCrashIs
<1>4. BootTypes'
  BY <1>1, <1>2, <1>3 DEF BtInv, BootTypes
<1>5. \A t \in Snapshotter : writers'[t].pc = "idle" /\ writers'[t].ino = NoInode
  BY <1>1, ThreadIdle
<1>6. \A t \in Auditor : auditors'[t].pc = "idle"
  BY <1>1, ThreadIdle
<1>7. Quiet'
  BY <1>3, <1>5, <1>6 DEF Quiet, AllIdle
<1> QED BY <1>4, <1>7 DEF BtInv

\* What a shutdown leaves, with the database in place or moved away.
LEMMA ShutdownIs ==
    ASSUME BtInv, NEW m \in BOOLEAN, Shutdown(m)
    PROVE  /\ bootHist' \in Hists /\ bootHist'.logged = bootHist.logged
           /\ bootHist'.shared = bootHist.shared /\ bootHist'.cut = bootHist.cut
           /\ bootHist'.moved = (bootHist.moved \/ m)
           /\ boot' \in BootStates /\ boot'.at = "off" /\ boot'.first = boot.first /\ boot'.doomed = 0
           /\ db' = (IF m THEN EmptyDb ELSE db) /\ db' \in Dbs /\ disk' = db'
<1>0. boot \in BootStates /\ bootHist \in Hists /\ db \in Dbs /\ boot.doomed = 0
  BY DEF BtInv, BootTypes, Shutdown, AllIdle
<1>1. PICK c : c = (bootHist.moved \/ m)
  OBVIOUS
<1>2. c \in BOOLEAN
  BY <1>1, Zenon
<1>3. bootHist' = [bootHist EXCEPT !.faults = bootHist.faults + 1, !.moved = c]
  BY <1>1 DEF Shutdown
<1>4. /\ bootHist' \in Hists /\ bootHist'.logged = bootHist.logged
      /\ bootHist'.shared = bootHist.shared /\ bootHist'.moved = c /\ bootHist'.cut = bootHist.cut
  <2>1. bootHist' = [faults |-> bootHist.faults + 1, pays |-> bootHist.pays, logged |-> bootHist.logged, cut |-> bootHist.cut, shared |-> bootHist.shared, moved |-> c]
    BY <1>0, <1>3 DEF Hists
  <2>2. bootHist.faults + 1 \in Nat /\ bootHist.pays \in Nat /\ bootHist.logged \in Nat
    BY <1>0 DEF Hists
  <2>3. bootHist.cut \in BOOLEAN /\ bootHist.shared \in BOOLEAN
    BY <1>0 DEF Hists
  <2> QED BY <1>2, <2>1, <2>2, <2>3, Zenon DEF Hists
<1>5. boot' = [boot EXCEPT !.at = "off"] /\ "off" \in Phases
  BY DEF Shutdown, Phases
<1>6. boot' \in BootStates /\ boot'.at = "off" /\ boot'.first = boot.first /\ boot'.doomed = 0
  BY <1>0, <1>5, PhaseIn
<1>7. bootHist'.moved = (bootHist.moved \/ m)
  BY <1>1, <1>4, Zenon
<1>8. db' = (IF m THEN EmptyDb ELSE db) /\ disk' = db'
  BY Zenon DEF Shutdown
<1>9. db' \in Dbs
  BY <1>0, <1>8, EmptyIn
<1> HIDE <1>1
<1> QED BY <1>4, <1>6, <1>7, <1>8, <1>9, Zenon

\* A shutdown keeps the types.
LEMMA ShutdownKeeps == ASSUME BtInv, NEW m \in BOOLEAN, Shutdown(m) PROVE BtInv'
<1>1. UNCHANGED <<writers, auditors>> /\ AllIdle /\ file' = WholeSnapshot
  BY DEF Shutdown
<1>2. file' \in Files
  BY <1>1, SnapshotIn
<1>3. BootTypes'
  <2>1. boot' \in BootStates /\ bootHist' \in Hists /\ db' \in Dbs /\ disk' \in Dbs
    BY ShutdownIs
  <2> QED BY <1>1, <1>2, <2>1 DEF BtInv, BootTypes
<1>4. Quiet'
  <2>1. boot'.doomed = 0
    BY ShutdownIs
  <2> QED BY <1>1, <2>1 DEF BtInv, Quiet, AllIdle
<1> QED BY <1>3, <1>4 DEF BtInv

\* A running node's threads move; no thread loses its inode while it holds the file.
LEMMA WriterStep ==
    ASSUME BtInv, NEW t \in Snapshotter, NEW x \in Threads, writers' = [writers EXCEPT ![t] = x],
           x.pc \in {"idle", "built"} => x.ino = NoInode, x.pc \in {"open", "written"} => x.ino \in Inodes,
           writers[t].pc # "idle" \/ Running, UNCHANGED <<boot, auditors>>
    PROVE  Quiet' /\ writers' \in [Snapshotter -> Threads] /\ Running
<1>1. writers \in [Snapshotter -> Threads]
  BY DEF BtInv, BootTypes
<1>2. writers' \in [Snapshotter -> Threads] /\ \A s \in Snapshotter : writers'[s] = IF s = t THEN x ELSE writers[s]
  BY <1>1
<1>3. Running
  BY DEF BtInv, Quiet, AllIdle
<1>4. Running'
  BY <1>3 DEF Running
<1> QED BY <1>2, <1>3, <1>4 DEF BtInv, Quiet

\* Building a snapshot keeps the types.
LEMMA BuildKeeps == ASSUME BtInv, NEW t \in Snapshotter, BuildSnapshot(t) PROVE BtInv'
<1>0. writers \in [Snapshotter -> Threads] /\ db \in Dbs
  BY DEF BtInv, BootTypes
<1>1. UNCHANGED <<db, disk, boot, file, auditors, bootHist>> /\ Running /\ writers[t].pc = "idle"
  BY DEF BuildSnapshot
<1>2. PICK x : x = [writers[t] EXCEPT !.pc = "built", !.rows = db.rows]
  OBVIOUS
<1>3. writers' = [writers EXCEPT ![t] = x]
  BY <1>2 DEF BuildSnapshot
<1>4. x \in Threads /\ x.pc = "built" /\ x.ino = writers[t].ino
  <2>1. writers[t] \in Threads /\ db.rows \in Balances
    BY <1>0 DEF Dbs, Balances
  <2> QED BY <1>2, <2>1 DEF Threads
<1>5. x.ino = NoInode
  BY <1>1, <1>4 DEF BtInv, Quiet
<1>6. Quiet' /\ writers' \in [Snapshotter -> Threads]
  BY <1>1, <1>3, <1>4, <1>5, WriterStep
<1> QED BY <1>1, <1>6 DEF BtInv, BootTypes

\* What opening the temporary file does: truncated, and shared if another thread has it
\* open.
LEMMA OpenTmpIs ==
    ASSUME BtInv, NEW t \in Snapshotter, OpenTmp(t), NEW i, i = TmpInode
    PROVE  /\ i \in Inodes /\ file' \in Files /\ file'.tmp = i /\ file'.json = file.json
           /\ ~file'.content[i].whole /\ \A j \in Inodes : j # i => file'.content[j] = file.content[j]
           /\ bootHist' \in Hists /\ bootHist'.logged = bootHist.logged /\ bootHist'.cut = bootHist.cut
           /\ bootHist'.moved = bootHist.moved /\ bootHist'.shared = (bootHist.shared \/ Holders(i) # {})
           /\ writers' \in [Snapshotter -> Threads] /\ writers'[t].pc = "open" /\ writers'[t].ino = i
           /\ \A s \in Snapshotter : s # t => writers'[s] = writers[s]
           /\ file.tmp # NoInode => i = file.tmp
           /\ file.tmp = NoInode => i # file.json /\ Holders(i) = {}
           /\ Quiet'
<1>0. writers \in [Snapshotter -> Threads] /\ file \in Files /\ bootHist \in Hists
  BY DEF BtInv, BootTypes
<1>1. writers[t].ino = NoInode /\ writers[t].pc = "built"
  BY DEF OpenTmp, BtInv, Quiet
<1>2. /\ i \in Inodes
      /\ file.tmp # NoInode => i = file.tmp
      /\ file.tmp = NoInode => i # file.json /\ Holders(i) = {}
  BY <1>1, TmpIs
<1>3. Torn \in Contents /\ ~Torn.whole
  <2>1. Torn = [rows |-> NoRows, whole |-> FALSE]
    BY DEF Torn
  <2>2. ~Torn.whole
    BY <2>1
  <2> QED BY <2>1, <2>2, EmptyIn, Zenon DEF Contents
<1>4. PICK g : g = [file.content EXCEPT ![i] = Torn]
  OBVIOUS
<1>5. file' = [file EXCEPT !.tmp = i, !.content = g]
  BY <1>4 DEF OpenTmp
<1>6. file.content \in [Inodes -> Contents] /\ file.json \in Inodes \cup {NoInode}
  BY <1>0 DEF Files
<1>7. g \in [Inodes -> Contents] /\ g[i] = Torn /\ \A j \in Inodes : j # i => g[j] = file.content[j]
  BY <1>2, <1>3, <1>4, <1>6
<1>8. file' \in Files /\ file'.tmp = i /\ file'.json = file.json /\ file'.content = g
  BY <1>0, <1>2, <1>5, <1>7 DEF Files
<1>9. PICK c : c = (bootHist.shared \/ Holders(i) # {})
  OBVIOUS
<1>10. c \in BOOLEAN
  BY <1>9, Zenon
<1>11. bootHist' = [bootHist EXCEPT !.shared = c]
  BY <1>9 DEF OpenTmp
<1>12. /\ bootHist' \in Hists /\ bootHist'.logged = bootHist.logged /\ bootHist'.cut = bootHist.cut
       /\ bootHist'.moved = bootHist.moved /\ bootHist'.shared = c
  <2>1. bootHist' = [faults |-> bootHist.faults, pays |-> bootHist.pays, logged |-> bootHist.logged, cut |-> bootHist.cut, shared |-> c, moved |-> bootHist.moved]
    BY <1>0, <1>11 DEF Hists
  <2>2. bootHist.faults \in Nat /\ bootHist.pays \in Nat /\ bootHist.logged \in Nat
    BY <1>0 DEF Hists
  <2>3. bootHist.cut \in BOOLEAN /\ bootHist.moved \in BOOLEAN
    BY <1>0 DEF Hists
  <2> QED BY <1>10, <2>1, <2>2, <2>3, Zenon DEF Hists
<1>13. bootHist'.shared = (bootHist.shared \/ Holders(i) # {})
  BY <1>9, <1>12, Zenon
<1>14. PICK x : x = [writers[t] EXCEPT !.pc = "open", !.ino = i]
  OBVIOUS
<1>15. x \in Threads /\ x.pc = "open" /\ x.ino = i
  <2>1. writers[t] \in Threads
    BY <1>0
  <2> QED BY <1>2, <1>14, <2>1 DEF Threads
<1>16. writers' = [writers EXCEPT ![t] = x]
  BY <1>14 DEF OpenTmp
<1>17. UNCHANGED <<boot, auditors>>
  BY DEF OpenTmp
<1>18. Quiet' /\ writers' \in [Snapshotter -> Threads]
  BY <1>1, <1>2, <1>15, <1>16, <1>17, WriterStep
<1>19. writers'[t] = x /\ \A s \in Snapshotter : s # t => writers'[s] = writers[s]
  BY <1>0, <1>16
<1>20. writers'[t].pc = "open" /\ writers'[t].ino = i
  BY <1>15, <1>19
<1>21. ~file'.content[i].whole /\ \A j \in Inodes : j # i => file'.content[j] = file.content[j]
  BY <1>3, <1>7, <1>8
<1> HIDE <1>9
<1> QED BY <1>2, <1>8, <1>12, <1>13, <1>18, <1>19, <1>20, <1>21, Zenon

\* Opening the temporary file keeps the types.
LEMMA OpenTmpKeeps == ASSUME BtInv, NEW t \in Snapshotter, OpenTmp(t) PROVE BtInv'
<1>1. PICK i : i = TmpInode
  OBVIOUS
<1>2. UNCHANGED <<db, disk, boot, auditors>>
  BY DEF OpenTmp
<1>3. file' \in Files /\ bootHist' \in Hists /\ writers' \in [Snapshotter -> Threads] /\ Quiet'
  BY <1>1, OpenTmpIs
<1> QED BY <1>2, <1>3 DEF BtInv, BootTypes

\* What writing the temporary file does: whole, if it was empty.
LEMMA WriteTmpIs ==
    ASSUME BtInv, NEW t \in Snapshotter, WriteTmp(t), NEW i, i = writers[t].ino
    PROVE  /\ i \in Inodes /\ file' \in Files /\ file'.tmp = file.tmp /\ file'.json = file.json
           /\ ~file.content[i].whole => file'.content[i].whole
           /\ \A j \in Inodes : j # i => file'.content[j] = file.content[j]
           /\ writers' \in [Snapshotter -> Threads] /\ writers[t].pc = "open"
           /\ writers'[t].pc = "written" /\ writers'[t].ino = i
           /\ \A s \in Snapshotter : s # t => writers'[s] = writers[s]
           /\ Quiet'
<1>0. writers \in [Snapshotter -> Threads] /\ file \in Files /\ writers[t] \in Threads
  BY DEF BtInv, BootTypes
<1>1. writers[t].pc = "open" /\ writers' = [writers EXCEPT ![t].pc = "written"]
  BY DEF WriteTmp, Step
<1>2. i \in Inodes
  BY <1>1 DEF BtInv, Quiet
<1>3. PICK m : m = [rows |-> writers[t].rows, whole |-> TRUE]
  OBVIOUS
<1>4. m \in Contents /\ m.whole
  <2>1. writers[t].rows \in Balances
    BY <1>0 DEF Threads
  <2>2. m.whole
    BY <1>3
  <2>3. m \in Contents
    BY <1>3, <2>1, Zenon DEF Contents
  <2> QED BY <2>2, <2>3
<1>5. Torn \in Contents
  <2>1. Torn = [rows |-> NoRows, whole |-> FALSE]
    BY DEF Torn
  <2> QED BY <2>1, EmptyIn, Zenon DEF Contents
<1>6. PICK c : c \in {m} \cup (IF file.content[i].whole THEN {Torn} ELSE {}) /\ file' = [file EXCEPT !.content[i] = c]
  BY <1>3 DEF WriteTmp
<1>7. c \in Contents /\ (~file.content[i].whole => c.whole)
  <2>1. CASE file.content[i].whole
    BY <2>1, <1>4, <1>5, <1>6
  <2>2. CASE ~file.content[i].whole
    <3>1. c = m
      BY <2>2, <1>6
    <3> QED BY <3>1, <1>4
  <2> QED BY <2>1, <2>2
<1>8. PICK g : g = [file.content EXCEPT ![i] = c]
  OBVIOUS
<1>9. file' = [file EXCEPT !.content = g]
  BY <1>6, <1>8
<1>10. file.content \in [Inodes -> Contents]
  BY <1>0 DEF Files
<1>11. g \in [Inodes -> Contents] /\ g[i] = c /\ \A j \in Inodes : j # i => g[j] = file.content[j]
  BY <1>2, <1>7, <1>8, <1>10
<1>12. file' \in Files /\ file'.tmp = file.tmp /\ file'.json = file.json /\ file'.content = g
  BY <1>0, <1>9, <1>11 DEF Files
<1>14. PICK x : x = [writers[t] EXCEPT !.pc = "written"]
  OBVIOUS
<1>15. x \in Threads /\ x.pc = "written" /\ x.ino = i
  BY <1>0, <1>2, <1>14 DEF Threads
<1>16. writers' = [writers EXCEPT ![t] = x]
  BY <1>1, <1>14
<1>17. UNCHANGED <<boot, auditors>>
  BY DEF WriteTmp
<1>18. Quiet' /\ writers' \in [Snapshotter -> Threads]
  BY <1>1, <1>2, <1>15, <1>16, <1>17, WriterStep
<1>19. writers'[t] = x /\ \A s \in Snapshotter : s # t => writers'[s] = writers[s]
  BY <1>0, <1>16
<1>20. ~file.content[i].whole => file'.content[i].whole
  BY <1>7, <1>11, <1>12
<1>21. \A j \in Inodes : j # i => file'.content[j] = file.content[j]
  BY <1>11, <1>12
<1>22. writers'[t].pc = "written" /\ writers'[t].ino = i
  BY <1>15, <1>19
<1> QED BY <1>1, <1>2, <1>12, <1>18, <1>19, <1>20, <1>21, <1>22, Zenon

\* Writing the temporary file keeps the types.
LEMMA WriteTmpKeeps == ASSUME BtInv, NEW t \in Snapshotter, WriteTmp(t) PROVE BtInv'
<1>1. PICK i : i = writers[t].ino
  OBVIOUS
<1>2. UNCHANGED <<db, disk, boot, auditors, bootHist>>
  BY DEF WriteTmp
<1>3. file' \in Files /\ writers' \in [Snapshotter -> Threads] /\ Quiet'
  BY <1>1, WriteTmpIs
<1> QED BY <1>2, <1>3 DEF BtInv, BootTypes

\* What the rename does: the name moves, the contents stay.
LEMMA RenameTmpIs ==
    ASSUME BtInv, NEW t \in Snapshotter, RenameTmp(t)
    PROVE  /\ file' \in Files /\ file'.content = file.content
           /\ file.tmp = NoInode => file' = file
           /\ file.tmp # NoInode => file'.json = file.tmp /\ file'.tmp = NoInode
           /\ writers' \in [Snapshotter -> Threads] /\ writers[t].pc = "written"
           /\ writers'[t] = NoThread /\ \A s \in Snapshotter : s # t => writers'[s] = writers[s]
           /\ Quiet'
<1>0. writers \in [Snapshotter -> Threads] /\ file \in Files
  BY DEF BtInv, BootTypes
<1>1. writers[t].pc = "written" /\ writers' = [writers EXCEPT ![t] = NoThread] /\ UNCHANGED <<boot, auditors>>
  BY DEF RenameTmp
<1>2. Quiet' /\ writers' \in [Snapshotter -> Threads]
  BY <1>1, ThreadIdle, WriterStep
<1>3. writers'[t] = NoThread /\ \A s \in Snapshotter : s # t => writers'[s] = writers[s]
  BY <1>0, <1>1
<1>4. CASE file.tmp = NoInode
  BY <1>0, <1>1, <1>2, <1>3, <1>4 DEF RenameTmp
<1>5. CASE file.tmp # NoInode
  <2>1. file' = [file EXCEPT !.json = file.tmp, !.tmp = NoInode]
    BY <1>5 DEF RenameTmp
  <2>2. file' \in Files /\ file'.content = file.content /\ file'.json = file.tmp /\ file'.tmp = NoInode
    BY <1>0, <2>1 DEF Files
  <2> QED BY <1>1, <1>2, <1>3, <1>5, <2>2
<1> QED BY <1>4, <1>5

\* The rename keeps the types.
LEMMA RenameTmpKeeps == ASSUME BtInv, NEW t \in Snapshotter, RenameTmp(t) PROVE BtInv'
<1>2. UNCHANGED <<db, disk, boot, auditors, bootHist>>
  BY DEF RenameTmp
<1>3. file' \in Files /\ writers' \in [Snapshotter -> Threads] /\ Quiet'
  BY RenameTmpIs
<1> QED BY <1>2, <1>3 DEF BtInv, BootTypes

\* The entries of the audit index.
Entries == [seq : Nat, event : Nat]

\* What logging and pruning leave alone.
SameMoney == db'.rows = db.rows /\ db'.supply = db.supply /\ db'.scaled = db.scaled

\* A step of a logging thread of a running node keeps the others where they are.
LEMMA LogsStep ==
    ASSUME BtInv, NEW t \in Auditor, NEW x \in Logs, auditors' = [auditors EXCEPT ![t] = x],
           auditors[t].pc # "idle" \/ Running, UNCHANGED <<boot, writers>>
    PROVE  /\ Quiet' /\ auditors' \in [Auditor -> Logs] /\ auditors'[t] = x
           /\ \A s \in Auditor : s # t => auditors'[s] = auditors[s]
<1>1. auditors \in [Auditor -> Logs]
  BY DEF BtInv, BootTypes
<1>2. auditors' \in [Auditor -> Logs] /\ \A s \in Auditor : auditors'[s] = IF s = t THEN x ELSE auditors[s]
  BY <1>1
<1>3. Running
  BY DEF BtInv, Quiet, AllIdle
<1>4. Running'
  BY <1>3 DEF Running
<1> QED BY <1>2, <1>3, <1>4 DEF BtInv, Quiet

\* What storing an audit record does.
LEMMA AuditRecordIs ==
    ASSUME BtInv, NEW t \in Auditor, AuditRecord(t)
    PROVE  /\ db' \in Dbs /\ SameMoney /\ db'.audit = db.audit \cup {bootHist.logged + 1} /\ db'.index = db.index
           /\ bootHist' \in Hists /\ bootHist'.logged = bootHist.logged + 1 /\ bootHist'.cut = bootHist.cut
           /\ bootHist'.shared = bootHist.shared /\ bootHist'.moved = bootHist.moved
           /\ auditors' \in [Auditor -> Logs] /\ auditors'[t].pc = "stored" /\ auditors'[t].event = bootHist.logged + 1
           /\ \A s \in Auditor : s # t => auditors'[s] = auditors[s]
           /\ Quiet' /\ Running /\ auditors[t].pc = "idle"
<1>0. db \in Dbs /\ bootHist \in Hists
  BY DEF BtInv, BootTypes
<1>1. PICK e : e = bootHist.logged + 1
  OBVIOUS
<1>2. e \in Nat
  BY <1>0, <1>1 DEF Hists
<1>3. PICK a : a = db.audit \cup {e}
  OBVIOUS
<1>4. a \in SUBSET Nat
  BY <1>0, <1>2, <1>3 DEF Dbs
<1>5. db' = [db EXCEPT !.audit = a] /\ bootHist' = [bootHist EXCEPT !.logged = e] /\ UNCHANGED <<boot, writers>>
  BY <1>1, <1>3 DEF AuditRecord
<1>6. db' \in Dbs /\ SameMoney /\ db'.audit = a /\ db'.index = db.index
  BY <1>0, <1>4, <1>5 DEF Dbs, SameMoney
<1>7. /\ bootHist' \in Hists /\ bootHist'.logged = e /\ bootHist'.cut = bootHist.cut
      /\ bootHist'.shared = bootHist.shared /\ bootHist'.moved = bootHist.moved
  BY <1>0, <1>2, <1>5 DEF Hists
<1>8. PICK x : x = [pc |-> "stored", event |-> e, seq |-> 0]
  OBVIOUS
<1>9. x \in Logs /\ x.pc = "stored" /\ x.event = e
  BY <1>2, <1>8 DEF Logs
<1>10. auditors' = [auditors EXCEPT ![t] = x] /\ Running /\ auditors[t].pc = "idle"
  BY <1>1, <1>8 DEF AuditRecord
<1>11. /\ Quiet' /\ auditors' \in [Auditor -> Logs] /\ auditors'[t] = x
       /\ \A s \in Auditor : s # t => auditors'[s] = auditors[s]
  BY <1>5, <1>9, <1>10, LogsStep
<1> QED BY <1>1, <1>3, <1>6, <1>7, <1>9, <1>10, <1>11

\* Taking a number changes neither records nor index.
LEMMA NumberIs ==
    ASSUME BtInv, NEW t \in Auditor, ReadAuditSeq(t) \/ WriteAuditSeq(t)
    PROVE  /\ db' \in Dbs /\ SameMoney /\ db'.audit = db.audit /\ db'.index = db.index
           /\ auditors' \in [Auditor -> Logs] /\ auditors'[t].pc # "idle" /\ auditors[t].pc # "idle"
           /\ auditors'[t].event = auditors[t].event
           /\ \A s \in Auditor : s # t => auditors'[s] = auditors[s]
           /\ Quiet'
<1>0. db \in Dbs /\ auditors \in [Auditor -> Logs] /\ auditors[t] \in Logs /\ UNCHANGED <<boot, writers>>
  BY DEF BtInv, BootTypes, ReadAuditSeq, WriteAuditSeq
<1>1. CASE ReadAuditSeq(t)
  <2>1. PICK x : x = [auditors[t] EXCEPT !.pc = "numbered", !.seq = db.seq + 1]
    OBVIOUS
  <2>2. auditors' = [auditors EXCEPT ![t] = x] /\ auditors[t].pc = "stored" /\ db' = db
    BY <1>1, <2>1 DEF ReadAuditSeq
  <2>3. db.seq + 1 \in Nat
    BY <1>0 DEF Dbs
  <2>4. x \in Logs /\ x.pc = "numbered" /\ x.event = auditors[t].event
    BY <1>0, <2>1, <2>3 DEF Logs
  <2>5. /\ Quiet' /\ auditors' \in [Auditor -> Logs] /\ auditors'[t] = x
        /\ \A s \in Auditor : s # t => auditors'[s] = auditors[s]
    BY <1>0, <2>2, <2>4, LogsStep
  <2> QED BY <1>0, <2>2, <2>4, <2>5 DEF SameMoney
<1>2. CASE WriteAuditSeq(t)
  <2>1. PICK x : x = [auditors[t] EXCEPT !.pc = "counted"]
    OBVIOUS
  <2>2. auditors' = [auditors EXCEPT ![t] = x] /\ auditors[t].pc = "numbered" /\ db' = [db EXCEPT !.seq = auditors[t].seq]
    BY <1>2, <2>1 DEF WriteAuditSeq
  <2>3. auditors[t].seq \in Nat
    BY <1>0 DEF Logs
  <2>4. x \in Logs /\ x.pc = "counted" /\ x.event = auditors[t].event
    BY <1>0, <2>1 DEF Logs
  <2>5. /\ Quiet' /\ auditors' \in [Auditor -> Logs] /\ auditors'[t] = x
        /\ \A s \in Auditor : s # t => auditors'[s] = auditors[s]
    BY <1>0, <2>2, <2>4, LogsStep
  <2>6. db' \in Dbs /\ SameMoney /\ db'.audit = db.audit /\ db'.index = db.index
    BY <1>0, <2>2, <2>3 DEF Dbs, SameMoney
  <2> QED BY <2>2, <2>4, <2>5, <2>6
<1> QED BY <1>1, <1>2

\* Indexing adds at most one entry, of the thread's own record.
LEMMA IndexIs ==
    ASSUME BtInv, NEW t \in Auditor, IndexAudit(t)
    PROVE  /\ db' \in Dbs /\ SameMoney /\ db'.audit = db.audit
           /\ \A x \in db'.index : x \in db.index \/ x.event = auditors[t].event
           /\ \A x, y \in db'.index : x \notin db.index /\ y \notin db.index => x = y
           /\ auditors' \in [Auditor -> Logs] /\ auditors'[t].pc = "idle" /\ auditors[t].pc # "idle"
           /\ \A s \in Auditor : s # t => auditors'[s] = auditors[s]
           /\ Quiet'
<1>0. db \in Dbs /\ auditors[t] \in Logs /\ UNCHANGED <<boot, writers>>
  BY DEF BtInv, BootTypes, IndexAudit
<1>1. PICK e : e = [seq |-> auditors[t].seq, event |-> auditors[t].event]
  OBVIOUS
<1>2. e \in Entries /\ e.event = auditors[t].event
  BY <1>0, <1>1 DEF Logs, Entries
<1>3. PICK i : i = {x \in db.index : x.seq # auditors[t].seq} \cup {e}
  OBVIOUS
<1>4. db' = [db EXCEPT !.index = i] /\ auditors[t].pc = "counted" /\ auditors' = [auditors EXCEPT ![t] = NoLog]
  BY <1>1, <1>3 DEF IndexAudit
<1>5. i \in SUBSET Entries
  BY <1>0, <1>2, <1>3 DEF Dbs, Entries
<1>6. db' \in Dbs /\ SameMoney /\ db'.audit = db.audit /\ db'.index = i
  BY <1>0, <1>4, <1>5 DEF Dbs, SameMoney, Entries
<1>7. /\ Quiet' /\ auditors' \in [Auditor -> Logs] /\ auditors'[t] = NoLog
      /\ \A s \in Auditor : s # t => auditors'[s] = auditors[s]
  BY <1>0, <1>4, ThreadIdle, LogsStep
<1>8. \A x \in i : x \in db.index \/ x = e
  BY <1>3
<1> QED BY <1>2, <1>4, <1>6, <1>7, <1>8, ThreadIdle

\* What the first half of a prune does.
LEMMA PruneIs ==
    ASSUME BtInv, NEW x \in db.index, PruneIndex(x)
    PROVE  /\ db' \in Dbs /\ SameMoney /\ db'.audit = db.audit /\ db'.index = db.index \ {x}
           /\ boot' \in BootStates /\ boot'.at = boot.at /\ boot'.first = boot.first /\ boot'.rows = boot.rows
           /\ boot'.doomed = x.event /\ Quiet'
<1>0. db \in Dbs /\ boot \in BootStates /\ UNCHANGED <<writers, auditors>>
  BY DEF BtInv, BootTypes, PruneIndex
<1>1. db' = [db EXCEPT !.index = db.index \ {x}] /\ boot' = [boot EXCEPT !.doomed = x.event] /\ Running
  BY DEF PruneIndex, Unindexed
<1>2. x.event \in Nat
  BY <1>0 DEF Dbs
<1>3. db' \in Dbs /\ SameMoney /\ db'.audit = db.audit /\ db'.index = db.index \ {x}
  BY <1>0, <1>1 DEF Dbs, SameMoney
<1>4. /\ boot' \in BootStates /\ boot'.at = boot.at /\ boot'.first = boot.first /\ boot'.rows = boot.rows
      /\ boot'.doomed = x.event
  BY <1>0, <1>1, <1>2 DEF BootStates
<1>5. Running'
  BY <1>1, <1>4 DEF Running
<1>6. Quiet'
  BY <1>0, <1>5 DEF BtInv, Quiet
<1> QED BY <1>3, <1>4, <1>6

\* What the second half of a prune does.
LEMMA PruneRecordIs ==
    ASSUME BtInv, PruneRecord
    PROVE  /\ db' \in Dbs /\ SameMoney /\ db'.audit = db.audit \ {boot.doomed} /\ db'.index = db.index
           /\ boot' \in BootStates /\ boot'.at = boot.at /\ boot'.first = boot.first /\ boot'.rows = boot.rows
           /\ boot'.doomed = 0 /\ Quiet' /\ boot.doomed # 0
<1>0. db \in Dbs /\ boot \in BootStates /\ UNCHANGED <<writers, auditors>>
  BY DEF BtInv, BootTypes, PruneRecord
<1>1. db' = [db EXCEPT !.audit = db.audit \ {boot.doomed}] /\ boot' = [boot EXCEPT !.doomed = 0] /\ boot.doomed # 0
  BY DEF PruneRecord
<1>2. Running
  BY <1>1 DEF BtInv, Quiet, AllIdle
<1>3. db' \in Dbs /\ SameMoney /\ db'.audit = db.audit \ {boot.doomed} /\ db'.index = db.index
  BY <1>0, <1>1 DEF Dbs, SameMoney
<1>4. /\ boot' \in BootStates /\ boot'.at = boot.at /\ boot'.first = boot.first /\ boot'.rows = boot.rows
      /\ boot'.doomed = 0
  BY <1>0, <1>1 DEF BootStates
<1>5. Running'
  BY <1>2, <1>4 DEF Running
<1>6. Quiet'
  BY <1>0, <1>5 DEF BtInv, Quiet
<1> QED BY <1>1, <1>3, <1>4, <1>6

\* Logging and pruning keep the types.
LEMMA LoggingKeeps == ASSUME BtInv, AuditNext PROVE BtInv'
<1>1. CASE \E t \in Auditor : AuditRecord(t)
  <2>1. PICK t \in Auditor : AuditRecord(t)
    BY <1>1
  <2>2. UNCHANGED <<disk, boot, file, writers>>
    BY <2>1 DEF AuditRecord
  <2>3. db' \in Dbs /\ bootHist' \in Hists /\ auditors' \in [Auditor -> Logs] /\ Quiet'
    BY <2>1, AuditRecordIs
  <2> QED BY <2>2, <2>3 DEF BtInv, BootTypes
<1>2. CASE \E t \in Auditor : ReadAuditSeq(t) \/ WriteAuditSeq(t)
  <2>1. PICK t \in Auditor : ReadAuditSeq(t) \/ WriteAuditSeq(t)
    BY <1>2
  <2>2. UNCHANGED <<disk, boot, file, writers, bootHist>>
    BY <2>1 DEF ReadAuditSeq, WriteAuditSeq
  <2>3. db' \in Dbs /\ auditors' \in [Auditor -> Logs] /\ Quiet'
    BY <2>1, NumberIs
  <2> QED BY <2>2, <2>3 DEF BtInv, BootTypes
<1>3. CASE \E t \in Auditor : IndexAudit(t)
  <2>1. PICK t \in Auditor : IndexAudit(t)
    BY <1>3
  <2>2. UNCHANGED <<disk, boot, file, writers, bootHist>>
    BY <2>1 DEF IndexAudit
  <2>3. db' \in Dbs /\ auditors' \in [Auditor -> Logs] /\ Quiet'
    BY <2>1, IndexIs
  <2> QED BY <2>2, <2>3 DEF BtInv, BootTypes
<1>4. CASE \E x \in db.index : PruneIndex(x)
  <2>1. PICK x \in db.index : PruneIndex(x)
    BY <1>4
  <2>2. UNCHANGED <<disk, file, writers, auditors, bootHist>>
    BY <2>1 DEF PruneIndex
  <2>3. db' \in Dbs /\ boot' \in BootStates /\ Quiet'
    BY <2>1, PruneIs
  <2> QED BY <2>2, <2>3 DEF BtInv, BootTypes
<1>5. CASE PruneRecord
  <2>2. UNCHANGED <<disk, file, writers, auditors, bootHist>>
    BY <1>5 DEF PruneRecord
  <2>3. db' \in Dbs /\ boot' \in BootStates /\ Quiet'
    BY <1>5, PruneRecordIs
  <2> QED BY <2>2, <2>3 DEF BtInv, BootTypes
<1> QED BY <1>1, <1>2, <1>3, <1>4, <1>5 DEF AuditNext

\* Every step keeps the types.
LEMMA BtStep == ASSUME BtInv, [BootNext]_bootVars PROVE BtInv'
<1>1. CASE MoneyNext
  <2>1. CASE MaybeMigrate \/ RecordScale \/ LoadSnapshot \/ StartWithSupply \/ ClearForGenesis \/ MintGenesis
    BY <2>1, BootingKeeps
  <2>2. CASE \E k \in BootKey : Open(k)
    BY <2>2, OpenKeeps
  <2>3. CASE \E r \in BootWallet \cup {"supply"} : MigrateRow(r)
    BY <2>3, MigrateKeeps
  <2>4. CASE GenesisFlush \/ BackgroundFlush \/ BootCrash
    BY <2>4, GenesisFlushKeeps, FlushKeeps, BootCrashKeeps
  <2>5. CASE \E v, w \in BootWallet : Pay(v, w)
    BY <2>5, PayKeeps
  <2>6. CASE \E m \in BOOLEAN : Shutdown(m)
    BY <2>6, ShutdownKeeps
  <2> QED BY <1>1, <2>1, <2>2, <2>3, <2>4, <2>5, <2>6 DEF MoneyNext
<1>2. CASE SnapshotNext
  <2>1. PICK t \in Snapshotter : BuildSnapshot(t) \/ OpenTmp(t) \/ WriteTmp(t) \/ RenameTmp(t)
    BY <1>2 DEF SnapshotNext
  <2> QED BY <2>1, BuildKeeps, OpenTmpKeeps, WriteTmpKeeps, RenameTmpKeeps
<1>3. CASE AuditNext
  BY <1>3, LoggingKeeps
<1>4. CASE UNCHANGED bootVars
  <2>1. UNCHANGED <<db, disk, boot, file, writers, auditors, bootHist>>
    BY <1>4 DEF bootVars
  <2>2. BootTypes'
    BY <2>1 DEF BtInv, BootTypes
  <2>3. Quiet'
    <3>1. Running => Running'
      BY <2>1 DEF Running
    <3> QED BY <2>1, <3>1, QuietSame
  <2> QED BY <2>2, <2>3 DEF BtInv
<1> QED BY <1>1, <1>2, <1>3, <1>4 DEF BootNext

-----------------------------------------------------------------------------
(* The snapshot file.                                                        *)

\* A thread that has the temporary file open.
Writing(t) == writers[t].pc \in {"open", "written"}

\* Without a shared temporary file, the one thread that has it open knows its state.
OneWriter ==
    /\ \A t \in Snapshotter : Writing(t) => writers[t].ino = file.tmp
    /\ \A s, t \in Snapshotter : Writing(s) /\ Writing(t) => s = t
    /\ \A t \in Snapshotter : writers[t].pc = "open" => ~file.content[writers[t].ino].whole
    /\ \A t \in Snapshotter : writers[t].pc = "written" => file.content[writers[t].ino].whole
    /\ file.json # NoInode => file.content[file.json].whole
    /\ file.tmp # NoInode => file.tmp # file.json

\* The snapshot's invariant.
SnapInv == ~bootHist.shared => OneWriter

\* It holds at the first start.
LEMMA SnapStarts == BootInit => SnapInv
<1> SUFFICES ASSUME BootInit PROVE SnapInv
  OBVIOUS
<1>1. \A t \in Snapshotter : writers[t].pc = "idle"
  BY ThreadIdle DEF BootInit
<1>2. file.json = NoInode /\ file.tmp = NoInode
  BY DEF BootInit
<1> QED BY <1>1, <1>2 DEF SnapInv, OneWriter, Writing

\* With every thread at rest, only the file under its final name counts.
LEMMA SnapIdle ==
    ASSUME BtInv', NEW c, file'.json # NoInode => c[file'.json].whole, file'.content = c,
           file'.tmp # NoInode => file'.tmp # file'.json,
           \A t \in Snapshotter : writers'[t].pc = "idle"
    PROVE  SnapInv'
BY DEF SnapInv, OneWriter, Writing

\* It is kept where files and threads are.
LEMMA SnapSame ==
    ASSUME SnapInv, UNCHANGED <<file, writers>>, bootHist'.shared = bootHist.shared
    PROVE  SnapInv'
BY DEF SnapInv, OneWriter, Writing

\* Every step keeps the snapshot's invariant.
LEMMA SnapStep == ASSUME BtInv, BtInv', SnapInv, [BootNext]_bootVars PROVE SnapInv'
<1>1. CASE GenesisFlush \/ \E m \in BOOLEAN : Shutdown(m)
  <2>1. AllIdle /\ file' = WholeSnapshot /\ writers' = writers
    BY <1>1 DEF GenesisFlush, Shutdown, At, Running, BtInv, Quiet
  <2>2. file'.tmp = NoInode /\ file'.content[file'.json].whole
    BY <2>1, SnapshotIn
  <2>3. \A t \in Snapshotter : writers'[t].pc = "idle"
    BY <2>1 DEF AllIdle
  <2> QED BY <2>2, <2>3, SnapIdle
<1>2. CASE BootCrash
  <2>1. file' = file /\ \A t \in Snapshotter : writers'[t].pc = "idle"
    BY <1>2, ThreadIdle DEF BootCrash
  <2>2. bootHist'.shared = bootHist.shared
    BY <1>2, BootCrashIs
  <2> QED BY <2>1, <2>2 DEF SnapInv, OneWriter, Writing
<1>3. CASE \E t \in Snapshotter : BuildSnapshot(t)
  <2>1. PICK t \in Snapshotter : BuildSnapshot(t)
    BY <1>3
  <2>2. file' = file /\ bootHist' = bootHist
    BY <2>1 DEF BuildSnapshot
  <2>3. writers'[t].pc = "built" /\ \A s \in Snapshotter : s # t => writers'[s] = writers[s]
    <3>1. writers \in [Snapshotter -> Threads] /\ writers[t] \in Threads
      BY DEF BtInv, BootTypes
    <3>2. PICK x : x = [writers[t] EXCEPT !.pc = "built", !.rows = db.rows]
      OBVIOUS
    <3>3. writers' = [writers EXCEPT ![t] = x] /\ x.pc = "built"
      BY <2>1, <3>1, <3>2 DEF BuildSnapshot, Threads
    <3> QED BY <3>1, <3>3
  <2> QED BY <2>2, <2>3 DEF SnapInv, OneWriter, Writing
<1>4. CASE \E t \in Snapshotter : OpenTmp(t)
  <2>1. PICK t \in Snapshotter : OpenTmp(t)
    BY <1>4
  <2>2. PICK i : i = TmpInode
    OBVIOUS
  <2>3. SUFFICES ASSUME ~bootHist'.shared PROVE OneWriter'
    BY DEF SnapInv
  <2>4. ~bootHist.shared /\ Holders(i) = {}
    BY <2>1, <2>2, <2>3, OpenTmpIs
  <2>5. OneWriter
    BY <2>4 DEF SnapInv
  <2>6. /\ i \in Inodes /\ file'.tmp = i /\ file'.json = file.json
        /\ ~file'.content[i].whole /\ \A j \in Inodes : j # i => file'.content[j] = file.content[j]
        /\ writers'[t].pc = "open" /\ writers'[t].ino = i
        /\ \A s \in Snapshotter : s # t => writers'[s] = writers[s]
        /\ file.tmp # NoInode => i = file.tmp
        /\ file.tmp = NoInode => i # file.json
    BY <2>1, <2>2, OpenTmpIs
  <2>7. \A s \in Snapshotter : ~Writing(s)
    <3> SUFFICES ASSUME NEW s \in Snapshotter, Writing(s) PROVE FALSE
      OBVIOUS
    <3>1. writers[s].ino = file.tmp /\ writers[s].ino \in Inodes
      BY <2>5 DEF OneWriter, Writing, BtInv, Quiet
    <3>2. file.tmp # NoInode
      BY <3>1 DEF Inodes, NoInode
    <3>3. s \in Holders(i)
      BY <3>1, <3>2, <2>6 DEF Holders
    <3> QED BY <3>3, <2>4
  <2>8. file.json \in Inodes \cup {NoInode} /\ i # file.json
    BY <2>5, <2>6 DEF OneWriter, BtInv, BootTypes, Files
  <2>9. \A s \in Snapshotter : Writing(s)' => s = t
    BY <2>6, <2>7 DEF Writing
  <2>10. file'.json # NoInode => file'.content[file'.json].whole
    BY <2>5, <2>6, <2>8 DEF OneWriter
  <2>11. \A s \in Snapshotter : s # t => writers'[s].pc \notin {"open", "written"}
    BY <2>6, <2>7 DEF Writing
  <2> QED BY <2>6, <2>8, <2>10, <2>11 DEF OneWriter, Writing
<1>5. CASE \E t \in Snapshotter : WriteTmp(t)
  <2>1. PICK t \in Snapshotter : WriteTmp(t)
    BY <1>5
  <2>2. PICK i : i = writers[t].ino
    OBVIOUS
  <2>3. SUFFICES ASSUME ~bootHist'.shared PROVE OneWriter'
    BY DEF SnapInv
  <2>4. OneWriter
    BY <2>1, <2>3 DEF SnapInv, WriteTmp
  <2>5. /\ i \in Inodes /\ file'.tmp = file.tmp /\ file'.json = file.json
        /\ ~file.content[i].whole => file'.content[i].whole
        /\ \A j \in Inodes : j # i => file'.content[j] = file.content[j]
        /\ writers[t].pc = "open" /\ writers'[t].pc = "written" /\ writers'[t].ino = i
        /\ \A s \in Snapshotter : s # t => writers'[s] = writers[s]
    BY <2>1, <2>2, WriteTmpIs
  <2>6. i = file.tmp /\ i # NoInode /\ file'.content[i].whole
    BY <2>2, <2>4, <2>5 DEF OneWriter, Writing, Inodes, NoInode
  <2>7. \A s \in Snapshotter : s # t => writers'[s].pc \notin {"open", "written"}
    BY <2>4, <2>5 DEF OneWriter, Writing
  <2>8. file.json \in Inodes \cup {NoInode} /\ i # file.json
    BY <2>4, <2>6 DEF OneWriter, BtInv, BootTypes, Files
  <2>9. file'.json # NoInode => file'.content[file'.json].whole
    BY <2>4, <2>5, <2>8 DEF OneWriter
  <2> QED BY <2>5, <2>6, <2>7, <2>8, <2>9 DEF OneWriter, Writing
<1>6. CASE \E t \in Snapshotter : RenameTmp(t)
  <2>1. PICK t \in Snapshotter : RenameTmp(t)
    BY <1>6
  <2>3. SUFFICES ASSUME ~bootHist'.shared PROVE OneWriter'
    BY DEF SnapInv
  <2>4. OneWriter
    BY <2>1, <2>3 DEF SnapInv, RenameTmp
  <2>5. /\ file'.content = file.content /\ writers[t].pc = "written" /\ writers'[t] = NoThread
        /\ \A s \in Snapshotter : s # t => writers'[s] = writers[s]
        /\ file.tmp # NoInode => file'.json = file.tmp /\ file'.tmp = NoInode
    BY <2>1, RenameTmpIs
  <2>6. writers[t].ino = file.tmp /\ writers[t].ino \in Inodes /\ file.content[file.tmp].whole
    BY <2>4, <2>5 DEF OneWriter, Writing, BtInv, Quiet
  <2>7. file.tmp # NoInode
    BY <2>6 DEF Inodes, NoInode
  <2>8. \A s \in Snapshotter : writers'[s].pc \notin {"open", "written"}
    BY <2>4, <2>5, ThreadIdle DEF OneWriter, Writing
  <2> QED BY <2>5, <2>6, <2>7, <2>8 DEF OneWriter, Writing
<1>7. CASE MaybeMigrate \/ RecordScale \/ LoadSnapshot \/ StartWithSupply \/ ClearForGenesis \/ MintGenesis \/ BackgroundFlush
  <2>1. UNCHANGED <<file, writers, bootHist>>
    BY <1>7 DEF MaybeMigrate, RecordScale, LoadSnapshot, StartWithSupply, ClearForGenesis, MintGenesis, BackgroundFlush
  <2> QED BY <2>1, SnapSame
<1>8. CASE \E k \in BootKey : Open(k)
  <2>1. PICK k \in BootKey : Open(k)
    BY <1>8
  <2>2. UNCHANGED <<file, writers>> /\ (bootHist' = bootHist \/ bootHist' = [bootHist EXCEPT !.faults = @ + 1])
    BY <2>1 DEF Open
  <2>3. bootHist'.shared = bootHist.shared
    BY <2>2, FaultIn DEF BtInv, BootTypes
  <2> QED BY <2>2, <2>3, SnapSame
<1>9. CASE \E r \in BootWallet \cup {"supply"} : MigrateRow(r)
  <2>1. UNCHANGED <<file, writers, bootHist>>
    BY <1>9 DEF MigrateRow
  <2> QED BY <2>1, SnapSame
<1>10. CASE \E v, w \in BootWallet : Pay(v, w)
  <2>1. PICK v, w \in BootWallet : Pay(v, w)
    BY <1>10
  <2>2. UNCHANGED <<file, writers>> /\ bootHist'.shared = bootHist.shared
    BY <2>1, PayIs DEF Pay
  <2> QED BY <2>2, SnapSame
<1>11. CASE \E t \in Auditor : AuditRecord(t)
  <2>1. PICK t \in Auditor : AuditRecord(t)
    BY <1>11
  <2>2. UNCHANGED <<file, writers>> /\ bootHist'.shared = bootHist.shared
    BY <2>1, AuditRecordIs DEF AuditRecord
  <2> QED BY <2>2, SnapSame
<1>12. CASE (\E t \in Auditor : ReadAuditSeq(t) \/ WriteAuditSeq(t) \/ IndexAudit(t)) \/ (\E x \in db.index : PruneIndex(x)) \/ PruneRecord
  <2>1. UNCHANGED <<file, writers, bootHist>>
    BY <1>12 DEF ReadAuditSeq, WriteAuditSeq, IndexAudit, PruneIndex, PruneRecord
  <2> QED BY <2>1, SnapSame
<1>13. CASE UNCHANGED bootVars
  <2>1. UNCHANGED <<file, writers, bootHist>>
    BY <1>13 DEF bootVars
  <2> QED BY <2>1, SnapSame
<1> QED BY <1>1, <1>2, <1>3, <1>4, <1>5, <1>6, <1>7, <1>8, <1>9, <1>10, <1>11, <1>12, <1>13
        DEF BootNext, MoneyNext, SnapshotNext, AuditNext

-----------------------------------------------------------------------------
(* The audit log.                                                            *)

\* The index of a database names its records, each once, and nothing not yet logged.
IndexOk(d, n) ==
    /\ \A x \in d.index : x.event \in d.audit /\ x.event \in 1..n
    /\ \A x, y \in d.index : x.event = y.event => x = y

\* A thread that is logging an operation.
Logging(t) == auditors[t].pc # "idle"

\* What a thread is logging is stored, not indexed, and its own.
LogsOk ==
    /\ \A t \in Auditor : Logging(t) =>
          /\ auditors[t].event \in db.audit /\ auditors[t].event \in 1..bootHist.logged
          /\ auditors[t].event # boot.doomed
          /\ \A x \in db.index : x.event # auditors[t].event
    /\ \A s, t \in Auditor : Logging(s) /\ Logging(t) /\ auditors[s].event = auditors[t].event => s = t
    /\ boot.doomed # 0 => boot.doomed \in 1..bootHist.logged /\ \A x \in db.index : x.event # boot.doomed

\* The audit log's invariant, for what the process sees and for what a crash leaves.
AuditInv == IndexOk(db, bootHist.logged) /\ IndexOk(disk, bootHist.logged) /\ LogsOk

\* It holds at the first start.
LEMMA AuditStarts == BootInit => AuditInv
<1> SUFFICES ASSUME BootInit PROVE AuditInv
  OBVIOUS
<1>1. db.index = {} /\ disk = db /\ boot.doomed = 0
  BY BootAssumption DEF BootInit
<1>2. \A t \in Auditor : auditors[t].pc = "idle"
  BY ThreadIdle DEF BootInit
<1> QED BY <1>1, <1>2 DEF AuditInv, IndexOk, LogsOk, Logging

\* A new event does not disturb an index.
LEMMA IndexGrows == ASSUME NEW d, NEW n \in Nat, IndexOk(d, n) PROVE IndexOk(d, n + 1)
BY DEF IndexOk

\* Money moves: records and index stay.
LEMMA AuditSame ==
    ASSUME BtInv, AuditInv, db'.audit = db.audit, db'.index = db.index, UNCHANGED auditors,
           disk' = disk \/ disk' = db' \/ disk' = db,
           boot'.doomed = boot.doomed, bootHist'.logged = bootHist.logged
    PROVE  AuditInv'
<1>1. PICK n : n = bootHist.logged
  OBVIOUS
<1>2. IndexOk(db', n)
  BY <1>1 DEF AuditInv, IndexOk
<1>3. IndexOk(disk', n)
  BY <1>1, <1>2 DEF AuditInv, IndexOk
<1>4. LogsOk'
  BY DEF AuditInv, LogsOk, Logging
<1>5. bootHist'.logged = n
  BY <1>1
<1>6. IndexOk(db, bootHist.logged)' /\ IndexOk(disk, bootHist.logged)'
  BY <1>2, <1>3, <1>5 DEF IndexOk
<1> QED BY <1>4, <1>6 DEF AuditInv

\* All threads at rest: only the index counts.
LEMMA AuditAtRest ==
    ASSUME NEW n, n = bootHist'.logged, IndexOk(db', n), IndexOk(disk', n), boot'.doomed = 0,
           \A t \in Auditor : auditors'[t].pc = "idle"
    PROVE  AuditInv'
<1>1. LogsOk'
  BY DEF LogsOk, Logging
<1>2. IndexOk(db, bootHist.logged)' /\ IndexOk(disk, bootHist.logged)'
  BY DEF IndexOk
<1> QED BY <1>1, <1>2 DEF AuditInv

\* An empty database has an empty index.
LEMMA EmptyIndexOk == ASSUME NEW n PROVE IndexOk(EmptyDb, n)
<1>1. EmptyDb.index = {}
  BY DEF EmptyDb
<1> QED BY <1>1 DEF IndexOk

\* The genesis record, a crash and a shutdown keep it.
LEMMA RestKeeps ==
    ASSUME BtInv, AuditInv, GenesisFlush \/ BootCrash \/ \E m \in BOOLEAN : Shutdown(m)
    PROVE  AuditInv'
<1>0. bootHist.logged \in Nat
  BY DEF BtInv, BootTypes, Hists
<1>1. CASE GenesisFlush
  <2>1. PICK e : e = bootHist.logged + 1
    OBVIOUS
  <2>2. PICK x : x = [seq |-> db.seq + 1, event |-> e]
    OBVIOUS
  <2>3. /\ db'.audit = db.audit \cup {e} /\ db'.index = db.index \cup {x} /\ bootHist'.logged = e
    BY <1>1, <2>1, <2>2, GenesisFlushIs
  <2>4. x.event = e
    BY <2>2
  <2>5. disk' = db' /\ auditors' = auditors /\ AllIdle
    BY <1>1 DEF GenesisFlush, At, BtInv, Quiet, Running
  <2>6. boot'.doomed = 0
    <3>1. boot' = [boot EXCEPT !.at = "running"] /\ boot \in BootStates /\ "running" \in Phases
      BY <1>1 DEF GenesisFlush, At, BtInv, BootTypes, Phases
    <3>2. boot'.doomed = boot.doomed
      BY <3>1, PhaseIn
    <3> QED BY <3>2, <2>5 DEF AllIdle
  <2>7. IndexOk(db, bootHist.logged)
    BY DEF AuditInv
  <2>8. IndexOk(db', e)
    <3>1. \A y \in db.index : y.event \in db.audit /\ y.event \in 1..e /\ y.event # e
      BY <1>0, <2>1, <2>7 DEF IndexOk
    <3>2. e \in 1..e
      BY <1>0, <2>1
    <3> QED BY <2>3, <2>4, <2>7, <3>1, <3>2 DEF IndexOk
  <2>9. \A t \in Auditor : auditors'[t].pc = "idle"
    BY <2>5 DEF AllIdle
  <2> QED BY <2>3, <2>5, <2>6, <2>8, <2>9, AuditAtRest
<1>2. CASE BootCrash
  <2>1. db' = disk /\ disk' = disk /\ \A t \in Auditor : auditors'[t].pc = "idle"
    BY <1>2, ThreadIdle DEF BootCrash
  <2>2. boot'.doomed = 0 /\ bootHist'.logged = bootHist.logged
    BY <1>2, BootCrashIs
  <2>3. IndexOk(db', bootHist.logged) /\ IndexOk(disk', bootHist.logged)
    BY <2>1 DEF AuditInv
  <2> QED BY <2>1, <2>2, <2>3, AuditAtRest
<1>3. CASE \E m \in BOOLEAN : Shutdown(m)
  <2>1. PICK m \in BOOLEAN : Shutdown(m)
    BY <1>3
  <2>2. db' = (IF m THEN EmptyDb ELSE db) /\ disk' = db' /\ boot'.doomed = 0 /\ bootHist'.logged = bootHist.logged
    BY <2>1, ShutdownIs
  <2>3. \A t \in Auditor : auditors'[t].pc = "idle"
    BY <2>1 DEF Shutdown, AllIdle
  <2>4. IndexOk(db', bootHist.logged)
    BY <2>2, EmptyIndexOk DEF AuditInv
  <2> QED BY <2>2, <2>3, <2>4, AuditAtRest
<1> QED BY <1>1, <1>2, <1>3

\* Logging and pruning keep it, threads interleaved.
LEMMA LogKeeps == ASSUME BtInv, AuditInv, AuditNext PROVE AuditInv'
<1>0. bootHist.logged \in Nat
  BY DEF BtInv, BootTypes, Hists
<1>a. IndexOk(db, bootHist.logged) /\ IndexOk(disk, bootHist.logged) /\ LogsOk
  BY DEF AuditInv
<1>1. CASE \E t \in Auditor : AuditRecord(t)
  <2>1. PICK t \in Auditor : AuditRecord(t)
    BY <1>1
  <2>2. PICK e, n : e = bootHist.logged + 1 /\ n = bootHist.logged
    OBVIOUS
  <2>3. /\ db'.audit = db.audit \cup {e} /\ db'.index = db.index /\ bootHist'.logged = e
        /\ auditors'[t].pc = "stored" /\ auditors'[t].event = e /\ auditors[t].pc = "idle"
        /\ \A s \in Auditor : s # t => auditors'[s] = auditors[s]
    BY <2>1, <2>2, AuditRecordIs
  <2>4. UNCHANGED <<disk, boot>>
    BY <2>1 DEF AuditRecord
  <2>5. IndexOk(db, e) /\ IndexOk(disk, e)
    BY <1>0, <1>a, <2>2, IndexGrows
  <2>6. IndexOk(db, bootHist.logged)' /\ IndexOk(disk, bootHist.logged)'
    BY <2>3, <2>4, <2>5 DEF IndexOk
  <2>7. \A x \in db.index : x.event \in 1..n /\ x.event # e
    BY <1>0, <1>a, <2>2 DEF IndexOk
  <2>8. \A s \in Auditor : Logging(s) => auditors[s].event \in 1..n /\ auditors[s].event # e
    BY <1>0, <1>a, <2>2 DEF LogsOk
  <2>9. e # 0 /\ e \in 1..e /\ \A k \in 1..n : k \in 1..e
    BY <1>0, <2>2
  <2>10. boot.doomed # e
    <3>1. boot.doomed # 0 => boot.doomed \in 1..n
      BY <1>a, <2>2 DEF LogsOk
    <3> QED BY <3>1, <1>0, <2>2
  <2>11. \A s \in Auditor : Logging(s)' =>
            /\ auditors'[s].event \in db'.audit /\ auditors'[s].event \in 1..bootHist'.logged
            /\ auditors'[s].event # boot'.doomed
            /\ \A x \in db'.index : x.event # auditors'[s].event
    <3> SUFFICES ASSUME NEW s \in Auditor, Logging(s)'
                 PROVE  /\ auditors'[s].event \in db'.audit /\ auditors'[s].event \in 1..bootHist'.logged
                        /\ auditors'[s].event # boot'.doomed
                        /\ \A x \in db'.index : x.event # auditors'[s].event
      OBVIOUS
    <3>1. CASE s = t
      BY <3>1, <2>3, <2>4, <2>7, <2>9, <2>10
    <3>2. CASE s # t
      <4>1. auditors'[s] = auditors[s] /\ Logging(s)
        BY <3>2, <2>3 DEF Logging
      <4> QED BY <4>1, <2>3, <2>4, <2>8, <2>9, <1>a DEF LogsOk
    <3> QED BY <3>1, <3>2
  <2>12. \A s, r \in Auditor : Logging(s)' /\ Logging(r)' /\ auditors'[s].event = auditors'[r].event => s = r
    BY <2>3, <2>8, <1>a DEF LogsOk, Logging
  <2>13. boot'.doomed # 0 => boot'.doomed \in 1..bootHist'.logged /\ \A x \in db'.index : x.event # boot'.doomed
    BY <2>2, <2>3, <2>4, <2>9, <1>a DEF LogsOk
  <2> QED BY <2>6, <2>11, <2>12, <2>13 DEF AuditInv, LogsOk
<1>2. CASE \E t \in Auditor : ReadAuditSeq(t) \/ WriteAuditSeq(t)
  <2>1. PICK t \in Auditor : ReadAuditSeq(t) \/ WriteAuditSeq(t)
    BY <1>2
  <2>2. /\ db'.audit = db.audit /\ db'.index = db.index
        /\ auditors'[t].pc # "idle" /\ auditors[t].pc # "idle"
        /\ auditors'[t].event = auditors[t].event
        /\ \A s \in Auditor : s # t => auditors'[s] = auditors[s]
    BY <2>1, NumberIs
  <2>3. UNCHANGED <<disk, boot, bootHist>>
    BY <2>1 DEF ReadAuditSeq, WriteAuditSeq
  <2>4. IndexOk(db, bootHist.logged)' /\ IndexOk(disk, bootHist.logged)'
    BY <1>a, <2>2, <2>3 DEF IndexOk
  <2>5. \A s \in Auditor : (Logging(s)' <=> Logging(s)) /\ auditors'[s].event = auditors[s].event
    BY <2>2 DEF Logging
  <2>6. LogsOk'
    BY <1>a, <2>2, <2>3, <2>5 DEF LogsOk
  <2> QED BY <2>4, <2>6 DEF AuditInv
<1>3. CASE \E t \in Auditor : IndexAudit(t)
  <2>1. PICK t \in Auditor : IndexAudit(t)
    BY <1>3
  <2>2. /\ db'.audit = db.audit
        /\ \A x \in db'.index : x \in db.index \/ x.event = auditors[t].event
        /\ \A x, y \in db'.index : x \notin db.index /\ y \notin db.index => x = y
        /\ auditors'[t].pc = "idle" /\ auditors[t].pc # "idle"
        /\ \A s \in Auditor : s # t => auditors'[s] = auditors[s]
    BY <2>1, IndexIs
  <2>3. UNCHANGED <<disk, boot, bootHist>>
    BY <2>1 DEF IndexAudit
  <2>4. /\ auditors[t].event \in db.audit /\ auditors[t].event \in 1..bootHist.logged
        /\ auditors[t].event # boot.doomed /\ \A x \in db.index : x.event # auditors[t].event
    BY <1>a, <2>2 DEF LogsOk, Logging
  <2>5. IndexOk(db, bootHist.logged)'
    <3>1. \A x \in db'.index : x.event \in db'.audit /\ x.event \in 1..bootHist'.logged
      BY <1>a, <2>2, <2>3, <2>4 DEF IndexOk
    <3>2. \A x, y \in db'.index : x.event = y.event => x = y
      BY <1>a, <2>2, <2>4 DEF IndexOk
    <3> QED BY <3>1, <3>2 DEF IndexOk
  <2>6. IndexOk(disk, bootHist.logged)'
    BY <1>a, <2>3 DEF IndexOk
  <2>7. \A s \in Auditor : Logging(s)' => s # t /\ auditors'[s] = auditors[s] /\ Logging(s)
    BY <2>2 DEF Logging
  <2>8. \A s \in Auditor : Logging(s)' => auditors[s].event # auditors[t].event
    BY <1>a, <2>2, <2>7 DEF LogsOk, Logging
  <2>9. LogsOk'
    BY <1>a, <2>2, <2>3, <2>4, <2>7, <2>8 DEF LogsOk
  <2> QED BY <2>5, <2>6, <2>9 DEF AuditInv
<1>4. CASE \E x \in db.index : PruneIndex(x)
  <2>1. PICK x \in db.index : PruneIndex(x)
    BY <1>4
  <2>2. db'.audit = db.audit /\ db'.index = db.index \ {x} /\ boot'.doomed = x.event
    BY <2>1, PruneIs
  <2>3. UNCHANGED <<disk, auditors, bootHist>>
    BY <2>1 DEF PruneIndex
  <2>4. IndexOk(db, bootHist.logged)' /\ IndexOk(disk, bootHist.logged)'
    BY <1>a, <2>2, <2>3 DEF IndexOk
  <2>5. x.event \in 1..bootHist.logged /\ \A y \in db'.index : y.event # x.event
    BY <1>a, <2>1, <2>2 DEF IndexOk
  <2>6. LogsOk'
    BY <1>a, <2>1, <2>2, <2>3, <2>5 DEF LogsOk, Logging
  <2> QED BY <2>4, <2>6 DEF AuditInv
<1>5. CASE PruneRecord
  <2>2. db'.audit = db.audit \ {boot.doomed} /\ db'.index = db.index /\ boot'.doomed = 0 /\ boot.doomed # 0
    BY <1>5, PruneRecordIs
  <2>3. UNCHANGED <<disk, auditors, bootHist>>
    BY <1>5 DEF PruneRecord
  <2>4. IndexOk(db, bootHist.logged)' /\ IndexOk(disk, bootHist.logged)'
    BY <1>a, <2>2, <2>3 DEF IndexOk, LogsOk
  <2>6. LogsOk'
    BY <1>0, <1>a, <2>2, <2>3 DEF LogsOk, Logging
  <2> QED BY <2>4, <2>6 DEF AuditInv
<1> QED BY <1>1, <1>2, <1>3, <1>4, <1>5 DEF AuditNext

\* Every step keeps the audit log's invariant.
LEMMA AuditStep == ASSUME BtInv, AuditInv, [BootNext]_bootVars PROVE AuditInv'
<1>0. db \in Dbs /\ boot \in BootStates /\ bootHist \in Hists
  BY DEF BtInv, BootTypes
<1>1. CASE AuditNext
  BY <1>1, LogKeeps
<1>2. CASE GenesisFlush \/ BootCrash \/ \E m \in BOOLEAN : Shutdown(m)
  BY <1>2, RestKeeps
<1>3. CASE \E v, w \in BootWallet : Pay(v, w)
  <2>1. PICK v, w \in BootWallet : Pay(v, w)
    BY <1>3
  <2>2. UNCHANGED <<disk, boot, auditors>> /\ db'.audit = db.audit /\ db'.index = db.index /\ bootHist'.logged = bootHist.logged
    BY <2>1, PayIs DEF Pay
  <2> QED BY <2>2, AuditSame
<1>4. CASE SnapshotNext
  <2>1. PICK t \in Snapshotter : BuildSnapshot(t) \/ OpenTmp(t) \/ WriteTmp(t) \/ RenameTmp(t)
    BY <1>4 DEF SnapshotNext
  <2>2. UNCHANGED <<db, disk, boot, auditors>>
    BY <2>1 DEF BuildSnapshot, OpenTmp, WriteTmp, RenameTmp
  <2>3. bootHist'.logged = bootHist.logged
    <3>1. CASE OpenTmp(t)
      <4>1. PICK i : i = TmpInode
        OBVIOUS
      <4> QED BY <3>1, <4>1, OpenTmpIs
    <3>2. CASE ~OpenTmp(t)
      BY <3>2, <2>1 DEF BuildSnapshot, WriteTmp, RenameTmp
    <3> QED BY <3>1, <3>2
  <2> QED BY <2>2, <2>3, AuditSame
<1>5. CASE BackgroundFlush
  <2>1. UNCHANGED <<db, boot, auditors, bootHist>> /\ disk' = db
    BY <1>5 DEF BackgroundFlush
  <2> QED BY <2>1, AuditSame
<1>6. CASE \E k \in BootKey : Open(k)
  <2>1. PICK k \in BootKey : Open(k)
    BY <1>6
  <2>2. UNCHANGED <<disk, auditors>>
    BY <2>1 DEF Open
  <2>3. CASE db.key \in {"-", k}
    <3>1. boot' = [boot EXCEPT !.at = "opened"] /\ db' = [db EXCEPT !.key = k] /\ bootHist' = bootHist
      BY <2>1, <2>3 DEF Open, At
    <3>2. db'.audit = db.audit /\ db'.index = db.index /\ boot'.doomed = boot.doomed
      BY <1>0, <3>1 DEF Dbs, BootStates
    <3> QED BY <2>2, <3>1, <3>2, AuditSame
  <2>4. CASE db.key \notin {"-", k}
    <3>1. bootHist' = [bootHist EXCEPT !.faults = @ + 1] /\ UNCHANGED <<db, boot>>
      BY <2>1, <2>4 DEF Open
    <3>2. bootHist'.logged = bootHist.logged
      BY <3>1, <1>0, FaultIn
    <3> QED BY <2>2, <3>1, <3>2, AuditSame
  <2> QED BY <2>3, <2>4
<1>7. CASE \E r \in BootWallet \cup {"supply"} : MigrateRow(r)
  <2>1. PICK r \in BootWallet \cup {"supply"} : MigrateRow(r)
    BY <1>7
  <2>2. UNCHANGED <<disk, auditors, bootHist>> /\ boot' = [boot EXCEPT !.rows = @ \ {r}]
    BY <2>1 DEF MigrateRow
  <2>3. \/ \E v : db' = [db EXCEPT !.supply = v]
        \/ \E f : db' = [db EXCEPT !.rows = f]
    <3>1. CASE r = "supply"
      BY <2>1, <3>1 DEF MigrateRow
    <3>2. CASE r # "supply"
      <4>1. PICK f : f = [db.rows EXCEPT ![r] = @ \div Factor]
        OBVIOUS
      <4>2. db' = [db EXCEPT !.rows = f]
        BY <2>1, <3>2, <4>1 DEF MigrateRow
      <4> QED BY <4>2
    <3> QED BY <3>1, <3>2
  <2>4. db'.audit = db.audit /\ db'.index = db.index
    BY <2>3, <1>0 DEF Dbs
  <2>5. boot'.doomed = boot.doomed
    BY <1>0, <2>2 DEF BootStates
  <2> QED BY <2>2, <2>4, <2>5, AuditSame
<1>8. CASE MaybeMigrate
  <2>1. UNCHANGED <<disk, auditors, bootHist>>
    BY <1>8 DEF MaybeMigrate
  <2>2. PICK p, r, c : boot' = [boot EXCEPT !.at = p, !.rows = r] /\ db' = [db EXCEPT !.scaled = c]
    BY <1>8 DEF MaybeMigrate
  <2>3. db'.audit = db.audit /\ db'.index = db.index /\ boot'.doomed = boot.doomed
    BY <1>0, <2>2 DEF Dbs, BootStates
  <2> QED BY <2>1, <2>3, AuditSame
<1>9. CASE RecordScale \/ LoadSnapshot \/ StartWithSupply \/ ClearForGenesis \/ MintGenesis
  <2>1. UNCHANGED <<auditors, bootHist>> /\ (disk' = disk \/ disk' = db')
    BY <1>9 DEF RecordScale, LoadSnapshot, StartWithSupply, ClearForGenesis, MintGenesis
  <2>2. PICK p : boot' = [boot EXCEPT !.at = p]
    BY <1>9 DEF RecordScale, LoadSnapshot, StartWithSupply, ClearForGenesis, MintGenesis, At
  <2>3. boot'.doomed = boot.doomed
    BY <1>0, <2>2 DEF BootStates
  <2>4. db'.audit = db.audit /\ db'.index = db.index
    <3>1. CASE RecordScale
      BY <1>0, <3>1 DEF RecordScale, Dbs
    <3>2. CASE LoadSnapshot
      BY <1>0, <3>2 DEF LoadSnapshot, Dbs
    <3>3. CASE StartWithSupply
      BY <3>3 DEF StartWithSupply
    <3>4. CASE ClearForGenesis
      BY <1>0, <3>4 DEF ClearForGenesis, Cleared, Dbs
    <3>5. CASE MintGenesis
      <4>1. PICK r, s : db' = [db EXCEPT !.rows = r, !.supply = s]
        BY <3>5 DEF MintGenesis
      <4> QED BY <1>0, <4>1 DEF Dbs
    <3> QED BY <1>9, <3>1, <3>2, <3>3, <3>4, <3>5
  <2> QED BY <2>1, <2>3, <2>4, AuditSame
<1>10. CASE UNCHANGED bootVars
  <2>1. UNCHANGED <<db, disk, boot, auditors, bootHist>>
    BY <1>10 DEF bootVars
  <2> QED BY <2>1, AuditSame
<1> QED BY <1>1, <1>2, <1>3, <1>4, <1>5, <1>6, <1>7, <1>8, <1>9, <1>10 DEF BootNext, MoneyNext

-----------------------------------------------------------------------------
(* Money: totals and rounding.                                               *)

\* How many rows the balances have.
Places == Cardinality(BootWallet)

\* The total of balances is a natural that no row exceeds.
LEMMA TotalIs ==
    ASSUME NEW f \in Balances
    PROVE  /\ Total(f) = SumFunctionOnSet(f, BootWallet) /\ Total(f) \in Nat
           /\ \A w \in BootWallet : f[w] \in Nat /\ f[w] <= Total(f)
           /\ (\A w \in BootWallet : f[w] = 0) => Total(f) = 0
<1>1. Total(f) = SumFunctionOnSet(f, BootWallet)
  BY DEF Total, SumFunction, Balances
<1>2. IsFiniteSet(BootWallet) /\ \A w \in BootWallet : f[w] \in Nat /\ f[w] \in Int
  BY BootAssumption DEF Balances
<1>3. Total(f) \in Nat
  BY <1>1, <1>2, SumNat
<1>4. ASSUME NEW w \in BootWallet PROVE f[w] <= Total(f)
  <2>1. SumFunctionOnSet(f, BootWallet) = f[w] + SumFunctionOnSet(f, BootWallet \ {w})
    BY <1>2, SumRemove
  <2>2. SumFunctionOnSet(f, BootWallet \ {w}) \in Nat
    BY <1>2, FS_RemoveElement, SumNat
  <2> QED BY <1>1, <1>2, <2>1, <2>2
<1>5. (\A w \in BootWallet : f[w] = 0) => Total(f) = 0
  BY <1>1, <1>2, SumZero
<1> QED BY <1>1, <1>2, <1>3, <1>4, <1>5

\* There is a row, and the factor is positive.
LEMMA PlacesNat == Places \in Nat /\ Places >= 1 /\ Factor \in Nat /\ Factor >= 1
<1>1. Places \in Nat /\ Places # 0
  BY BootAssumption, FS_CardinalityType, FS_EmptySet DEF Places
<1> QED BY <1>1, BootAssumption

\* Dividing each row loses less than one unit a row against dividing the total.
LEMMA Rounding ==
    ASSUME NEW f \in Balances, NEW h \in Balances, \A w \in BootWallet : h[w] = f[w] \div Factor
    PROVE  Total(h) <= Total(f) \div Factor /\ Total(f) \div Factor < Total(h) + Places
<1> DEFINE Low(T) == Factor * SumFunctionOnSet(h, T) <= SumFunctionOnSet(f, T)
           High(T) == SumFunctionOnSet(f, T) + Cardinality(T) <= Factor * (SumFunctionOnSet(h, T) + Cardinality(T))
           P == {T \in SUBSET BootWallet : Low(T) /\ High(T)}
<1>0. /\ IsFiniteSet(BootWallet) /\ Factor \in Nat /\ Factor >= 1
      /\ \A w \in BootWallet : f[w] \in Nat /\ h[w] \in Nat /\ f[w] \in Int /\ h[w] \in Int
  BY BootAssumption, PlacesNat DEF Balances
<1>1. {} \in P
  <2>1. SumFunctionOnSet(h, {}) = 0 /\ SumFunctionOnSet(f, {}) = 0 /\ Cardinality({}) = 0
    BY SumEmpty, FS_EmptySet
  <2>2. Low({}) /\ High({})
    BY <2>1, <1>0
  <2> QED BY <2>2
<1>2. ASSUME NEW T \in SUBSET BootWallet, T # {}, \A x \in T : T \ {x} \in P PROVE T \in P
  <2>1. PICK x \in T : TRUE
    BY <1>2
  <2>2. PICK U : U = T \ {x}
    OBVIOUS
  <2>3. Low(U) /\ High(U)
    BY <1>2, <2>1, <2>2
  <2>4. IsFiniteSet(T) /\ IsFiniteSet(U)
    BY <1>0, <2>2, FS_Subset
  <2>5. SumFunctionOnSet(f, T) = f[x] + SumFunctionOnSet(f, U) /\ SumFunctionOnSet(h, T) = h[x] + SumFunctionOnSet(h, U)
    <3>1. \A y \in T : f[y] \in Int /\ h[y] \in Int
      BY <1>0
    <3> QED BY <3>1, <2>2, <2>4, SumRemove
  <2>6. SumFunctionOnSet(f, U) \in Nat /\ SumFunctionOnSet(h, U) \in Nat
    <3>1. \A y \in U : f[y] \in Nat /\ h[y] \in Nat
      BY <1>0, <2>2
    <3> QED BY <3>1, <2>4, SumNat
  <2>7. Cardinality(T) = Cardinality(U) + 1 /\ Cardinality(U) \in Nat
    BY <2>1, <2>2, <2>4, FS_RemoveElement, FS_CardinalityType
  <2>8. f[x] \in Nat /\ h[x] \in Nat /\ Factor * h[x] <= f[x] /\ f[x] + 1 <= Factor * (h[x] + 1)
    <3>1. f[x] \in Nat /\ h[x] \in Nat /\ h[x] = f[x] \div Factor
      BY <1>0
    <3>2. PICK a, q, k : a = f[x] /\ q = h[x] /\ k = Factor
      OBVIOUS
    <3>3. a \in Nat /\ k \in Nat \ {0} /\ q = a \div k
      BY <3>1, <3>2, <1>0
    <3>4. a = k * q + (a % k) /\ a % k \in 0..(k - 1) /\ q \in Int
      BY <3>3
    <3>5. k * q <= a /\ a + 1 <= k * q + k
      BY <3>3, <3>4
    <3>6. k * (q + 1) = k * q + k
      BY <3>3, <3>4
    <3> QED BY <3>1, <3>2, <3>5, <3>6
  <2>9. PICK sf, sh, c, a, q : sf = SumFunctionOnSet(f, U) /\ sh = SumFunctionOnSet(h, U) /\ c = Cardinality(U) /\ a = f[x] /\ q = h[x]
    OBVIOUS
  <2>10. sf \in Nat /\ sh \in Nat /\ c \in Nat /\ a \in Nat /\ q \in Nat
    BY <2>6, <2>7, <2>8, <2>9
  <2>11. Factor * sh <= sf /\ sf + c <= Factor * (sh + c) /\ Factor * q <= a /\ a + 1 <= Factor * (q + 1)
    BY <2>3, <2>8, <2>9
  <2>12. Factor * (q + sh) = Factor * q + Factor * sh
    BY <2>10, <1>0
  <2>13. Factor * ((q + sh) + (c + 1)) = Factor * (sh + c) + Factor * (q + 1)
    <3>1. (q + sh) + (c + 1) = (sh + c) + (q + 1)
      BY <2>10
    <3>2. Factor * ((sh + c) + (q + 1)) = Factor * (sh + c) + Factor * (q + 1)
      BY <2>10, <1>0
    <3> QED BY <3>1, <3>2
  <2>14. Low(T)
    <3>1. Factor * (q + sh) <= a + sf
      BY <2>10, <2>11, <2>12, <1>0
    <3> QED BY <3>1, <2>5, <2>9
  <2>15. High(T)
    <3>1. (a + sf) + (c + 1) <= Factor * ((q + sh) + (c + 1))
      BY <2>10, <2>11, <2>13, <1>0
    <3> QED BY <3>1, <2>5, <2>7, <2>9
  <2> HIDE DEF Low, High
  <2> QED BY <2>14, <2>15
<1>3. P = SUBSET BootWallet
  <2>1. P \in SUBSET (SUBSET BootWallet)
    OBVIOUS
  <2> HIDE DEF P
  <2> QED BY <1>0, <1>1, <1>2, <2>1, FiniteInduction
<1>4. Low(BootWallet) /\ High(BootWallet)
  BY <1>3
<1>5. PICK t, s, n, k : t = Total(f) /\ s = Total(h) /\ n = Places /\ k = Factor
  OBVIOUS
<1>6. k * s <= t /\ t + n <= k * (s + n)
  BY <1>4, <1>5, TotalIs DEF Places
<1>7. t \in Nat /\ s \in Nat /\ n \in Nat /\ n >= 1 /\ k \in Nat /\ k >= 1
  BY <1>5, TotalIs, PlacesNat
<1>8. PICK q : q = t \div k
  OBVIOUS
<1>9. t = k * q + (t % k) /\ t % k \in 0..(k - 1) /\ q \in Int
  BY <1>7, <1>8
<1>10. k * q <= t /\ t < k * q + k
  BY <1>7, <1>9
<1>11. s <= q
  <2> SUFFICES ASSUME q + 1 <= s PROVE FALSE
    BY <1>7, <1>9
  <2>1. k * (q + 1) <= k * s
    <3>1. k * (s - (q + 1)) >= 0
      BY <1>7, <1>9
    <3>2. k * (s - (q + 1)) = k * s - k * (q + 1)
      BY <1>7, <1>9
    <3> QED BY <3>1, <3>2, <1>7, <1>9
  <2>2. k * (q + 1) = k * q + k
    BY <1>7, <1>9
  <2> QED BY <2>1, <2>2, <1>6, <1>7, <1>9, <1>10
<1>12. q < s + n
  <2> SUFFICES ASSUME s + n <= q PROVE FALSE
    BY <1>7, <1>9
  <2>1. k * (s + n) <= k * q
    <3>1. k * (q - (s + n)) >= 0
      BY <1>7, <1>9
    <3>2. k * (q - (s + n)) = k * q - k * (s + n)
      BY <1>7, <1>9
    <3> QED BY <3>1, <3>2, <1>7, <1>9
  <2> QED BY <2>1, <1>6, <1>7, <1>9, <1>10
<1> QED BY <1>5, <1>8, <1>11, <1>12

\* A payment moves one unit.
LEMMA PayTotal ==
    ASSUME NEW f \in Balances, NEW v \in BootWallet, NEW w \in BootWallet, v # w, f[v] > 0,
           NEW g, g = [[f EXCEPT ![v] = @ - 1] EXCEPT ![w] = @ + 1]
    PROVE  g \in Balances /\ Total(g) = Total(f)
<1>1. PICK q : q = [f EXCEPT ![v] = @ - 1]
  OBVIOUS
<1>2. \A x \in BootWallet : f[x] \in Nat
  BY DEF Balances
<1>3. q \in Balances /\ q[v] = f[v] - 1 /\ \A x \in BootWallet : x # v => q[x] = f[x]
  <2>1. f[v] - 1 \in Nat
    BY <1>2
  <2> QED BY <1>1, <2>1 DEF Balances
<1>4. g = [q EXCEPT ![w] = @ + 1]
  BY <1>1
<1>5. g \in Balances /\ g[w] = q[w] + 1 /\ \A x \in BootWallet : x # w => g[x] = q[x]
  <2>1. q[w] + 1 \in Nat
    BY <1>3 DEF Balances
  <2> QED BY <1>3, <1>4, <2>1 DEF Balances
<1>6. \A x \in BootWallet : f[x] \in Int /\ q[x] \in Int /\ g[x] \in Int
  BY <1>3, <1>5 DEF Balances
<1>7. IsFiniteSet(BootWallet)
  BY BootAssumption
<1>8. SumFunctionOnSet(q, BootWallet) = SumFunctionOnSet(f, BootWallet) - f[v] + q[v]
  BY <1>3, <1>6, <1>7, SumChange
<1>9. SumFunctionOnSet(g, BootWallet) = SumFunctionOnSet(q, BootWallet) - q[w] + g[w]
  <2>1. PICK k : k = g
    OBVIOUS
  <2>2. \A y \in BootWallet : q[y] \in Int /\ k[y] \in Int
    BY <1>6, <2>1
  <2>3. \A y \in BootWallet : y # w => k[y] = q[y]
    BY <1>5, <2>1
  <2>4. SumFunctionOnSet(k, BootWallet) = SumFunctionOnSet(q, BootWallet) - q[w] + k[w]
    BY ONLY <1>7, <2>2, <2>3, SumChange, w \in BootWallet
  <2> QED BY <2>1, <2>4
<1>10. /\ Total(f) = SumFunctionOnSet(f, BootWallet) /\ Total(f) \in Nat
       /\ Total(q) = SumFunctionOnSet(q, BootWallet) /\ Total(q) \in Nat
       /\ Total(g) = SumFunctionOnSet(g, BootWallet) /\ Total(g) \in Nat
  BY <1>3, <1>5, TotalIs
<1> QED BY <1>2, <1>3, <1>5, <1>6, <1>8, <1>9, <1>10

\* What is assumed of the database first found: its wallets hold its supply, and survive
\* the division.
LEMMA FirstDb ==
    ASSUME NEW F \in StartDbs
    PROVE  /\ F \in Dbs /\ F.rows \in Balances /\ F.supply \in Nat /\ Total(F.rows) = F.supply
           /\ F.supply = 0 => F.rows = NoRows
           /\ ~F.scaled /\ F.supply > 0 => F.supply \div Factor >= 1 /\ \E w \in BootWallet : F.rows[w] \div Factor >= 1
<1>1. F \in Dbs /\ F.rows \in Balances /\ F.supply \in Nat /\ Total(F.rows) = F.supply
  BY BootAssumption DEF Dbs, Balances
<1>2. \A w \in BootWallet : F.rows[w] \in Nat /\ F.rows[w] <= F.supply
  BY <1>1, TotalIs
<1>3. F.supply = 0 => F.rows = NoRows
  <2> SUFFICES ASSUME F.supply = 0 PROVE F.rows = NoRows
    OBVIOUS
  <2>1. \A w \in BootWallet : F.rows[w] = 0
    BY <1>2
  <2> QED BY <1>1, <2>1 DEF NoRows, Balances
<1>4. ASSUME NEW x \in Nat, x >= Factor PROVE x \div Factor >= 1
  <2>1. Factor \div Factor = 1
    BY PlacesNat
  <2>2. Factor \div Factor <= x \div Factor /\ x \div Factor \in Nat
    BY <1>4, BootAssumption, DivMono
  <2> QED BY <2>1, <2>2
<1>5. ASSUME ~F.scaled, F.supply > 0
      PROVE  F.supply \div Factor >= 1 /\ \E w \in BootWallet : F.rows[w] \div Factor >= 1
  <2>1. PICK w \in BootWallet : F.rows[w] >= Factor
    BY <1>1, <1>5, BootAssumption
  <2>2. F.rows[w] \div Factor >= 1
    BY <1>2, <1>4, <2>1
  <2>3. F.supply >= Factor
    BY <1>1, <1>2, <2>1, PlacesNat
  <2> QED BY <1>1, <1>4, <2>2, <2>3
<1> QED BY <1>1, <1>3, <1>5

-----------------------------------------------------------------------------
(* Money: the stages of the start.                                           *)

\* What the supply has to be, given the database first found and whether it was moved away.
DueOf(F, mv) == IF mv \/ F.supply = 0 THEN Total(Allocation)
                ELSE IF F.scaled THEN F.supply ELSE F.supply \div Factor

\* The database as it was first found.
Found(d, F, mv) == ~mv /\ d.rows = F.rows /\ d.supply = F.supply /\ (d.scaled <=> F.scaled)
\* A database before its genesis, with at most the rows of a restored snapshot.
Blank(d, F, mv) == (mv \/ F.supply = 0) /\ d.supply = 0 /\ (d.scaled \/ d.rows = NoRows)
\* The wallets hold the supply that is due, but for rounding.
Funded(d, F, mv) ==
    /\ d.scaled /\ d.supply = DueOf(F, mv)
    /\ Total(d.rows) <= d.supply /\ d.supply < Total(d.rows) + Places
    /\ d.supply > 0 => Total(d.rows) > 0
\* Some rows of a legacy database are migrated.
Partly(d, F, mv) ==
    ~mv /\ ~F.scaled /\ F.supply > 0 /\ ~d.scaled /\ d.supply \in {F.supply, F.supply \div Factor}
\* Exactly the rows outside rest are migrated.
Migrated(d, F, mv, rest) ==
    /\ Partly(d, F, mv)
    /\ \A w \in BootWallet : d.rows[w] = IF w \in rest THEN F.rows[w] ELSE F.rows[w] \div Factor
    /\ d.supply = IF "supply" \in rest THEN F.supply ELSE F.supply \div Factor

Startable(d, F, mv) == Found(d, F, mv) \/ Blank(d, F, mv) \/ Funded(d, F, mv)
DiskOk(d, F, mv) == Startable(d, F, mv) \/ Partly(d, F, mv)

\* How far the start has come.
Stage(at, d, F, mv, rest) ==
    /\ at \in {"off", "opened"} => Startable(d, F, mv)
    /\ at = "migrating" => Migrated(d, F, mv, rest)
    /\ at \in {"migrated", "loaded"} => d.scaled /\ (Blank(d, F, mv) \/ Funded(d, F, mv))
    /\ at = "cleared" => d.scaled /\ Blank(d, F, mv) /\ d.rows = NoRows
    /\ at \in {"minted", "running"} => Funded(d, F, mv)

\* The money's invariant: the stage the process is in, and what a crash would leave.
MoneyInv ==
    ~bootHist.cut => /\ Stage(boot.at, db, boot.first, bootHist.moved, boot.rows)
                     /\ DiskOk(disk, boot.first, bootHist.moved)

\* The supply that is due is a natural.
LEMMA DueNat == ASSUME NEW F \in StartDbs, NEW mv PROVE DueOf(F, mv) \in Nat
<1>1. Allocation \in Balances
  BY BootAssumption DEF Balances
<1>2. Total(Allocation) \in Nat
  BY <1>1, TotalIs
<1>3. F.supply \in Nat /\ F.supply \div Factor \in Nat
  BY FirstDb, DivNat
<1> QED BY <1>2, <1>3 DEF DueOf

\* A backed database without money is one before its genesis.
LEMMA BackedBlank ==
    ASSUME NEW F \in StartDbs, NEW mv, NEW d \in Dbs, Funded(d, F, mv), d.supply = 0
    PROVE  Blank(d, F, mv)
<1>1. d.scaled /\ DueOf(F, mv) = 0
  BY DEF Funded
<1>2. SUFFICES ASSUME ~mv, F.supply # 0 PROVE FALSE
  BY <1>1 DEF Blank
<1>3. F.supply \in Nat /\ F.supply > 0
  BY <1>2, FirstDb
<1>4. CASE F.scaled
  BY <1>1, <1>2, <1>3, <1>4 DEF DueOf
<1>5. CASE ~F.scaled
  BY <1>1, <1>2, <1>3, <1>5, FirstDb DEF DueOf
<1> QED BY <1>4, <1>5

\* A database as first found is empty or, in the new scale, backed.
LEMMA FoundBacked ==
    ASSUME NEW F \in StartDbs, NEW mv, NEW d \in Dbs, Found(d, F, mv)
    PROVE  (F.supply = 0 => Blank(d, F, mv)) /\ (F.supply > 0 /\ F.scaled => Funded(d, F, mv))
<1>1. d.rows = F.rows /\ d.supply = F.supply /\ ~mv /\ (d.scaled <=> F.scaled)
  BY DEF Found
<1>2. F.supply \in Nat /\ Total(F.rows) = F.supply /\ (F.supply = 0 => F.rows = NoRows)
  BY FirstDb
<1>3. F.supply = 0 => Blank(d, F, mv)
  BY <1>1, <1>2 DEF Blank
<1>4. ASSUME F.supply > 0, F.scaled PROVE Funded(d, F, mv)
  <2>1. DueOf(F, mv) = F.supply
    BY <1>1, <1>2, <1>4 DEF DueOf
  <2> QED BY <1>1, <1>2, <1>4, <2>1, PlacesNat DEF Funded
<1> QED BY <1>3, <1>4

\* What the process sees at any stage may be what a crash leaves.
LEMMA StageDisk ==
    ASSUME NEW F, NEW mv, NEW d, NEW at \in Phases, NEW rest, Stage(at, d, F, mv, rest)
    PROVE  DiskOk(d, F, mv)
BY DEF Stage, DiskOk, Startable, Migrated, Phases

\* Whether a migration is due, and what is left when not.
LEMMA NoMigration ==
    ASSUME NEW F \in StartDbs, NEW mv, NEW d \in Dbs, Startable(d, F, mv), NEW has, NEW e \in Dbs,
           has <=> (\E w \in BootWallet : d.rows[w] >= 1) \/ d.supply > 0,
           e.rows = d.rows, e.supply = d.supply
    PROVE  /\ ~d.scaled /\ has => Found(d, F, mv) /\ ~F.scaled /\ F.supply > 0
           /\ ~(~d.scaled /\ has) /\ e.scaled => Blank(e, F, mv) \/ Funded(e, F, mv)
<1>0. d.rows \in Balances /\ d.supply \in Nat
  BY DEF Dbs, Balances
<1>1. CASE Funded(d, F, mv)
  <2>1. d.scaled
    BY <1>1 DEF Funded
  <2>2. e.scaled => Funded(e, F, mv)
    BY <1>1 DEF Funded
  <2> QED BY <2>1, <2>2
<1>2. CASE Blank(d, F, mv)
  <2>1. d.supply = 0 /\ (~d.scaled => d.rows = NoRows)
    BY <1>2 DEF Blank
  <2>2. ~d.scaled => ~has
    BY <2>1 DEF NoRows
  <2>3. e.scaled => Blank(e, F, mv)
    BY <1>2 DEF Blank
  <2> QED BY <2>2, <2>3
<1>3. CASE Found(d, F, mv)
  <2>1. d.rows = F.rows /\ d.supply = F.supply /\ ~mv /\ (d.scaled <=> F.scaled)
    BY <1>3 DEF Found
  <2>2. F.supply \in Nat /\ (F.supply = 0 => F.rows = NoRows)
    BY FirstDb
  <2>3. CASE F.supply = 0
    BY <1>2, <1>3, <2>3, FoundBacked
  <2>4. CASE F.supply > 0 /\ F.scaled
    BY <1>1, <1>3, <2>4, FoundBacked
  <2>5. CASE F.supply > 0 /\ ~F.scaled
    BY <1>3, <2>1, <2>5
  <2> QED BY <2>2, <2>3, <2>4, <2>5
<1> QED BY <1>1, <1>2, <1>3 DEF Startable

\* A migration that came to its end leaves a backed database.
LEMMA AllMigrated ==
    ASSUME NEW F \in StartDbs, NEW mv, NEW d \in Dbs, Migrated(d, F, mv, {}), NEW e \in Dbs,
           e.rows = d.rows, e.supply = d.supply, e.scaled
    PROVE  Funded(e, F, mv)
<1>1. ~mv /\ ~F.scaled /\ F.supply > 0 /\ e.supply = F.supply \div Factor
  BY DEF Migrated, Partly
<1>2. e.rows \in Balances /\ F.rows \in Balances /\ \A w \in BootWallet : e.rows[w] = F.rows[w] \div Factor
  BY FirstDb DEF Migrated, Dbs, Balances
<1>3. Total(e.rows) <= Total(F.rows) \div Factor /\ Total(F.rows) \div Factor < Total(e.rows) + Places
  BY <1>2, Rounding
<1>4. Total(F.rows) = F.supply
  BY FirstDb
<1>5. PICK w \in BootWallet : e.rows[w] >= 1
  BY <1>1, <1>2, FirstDb
<1>6. Total(e.rows) >= 1 /\ Total(e.rows) \in Nat
  BY <1>2, <1>5, TotalIs
<1>7. DueOf(F, mv) = e.supply
  <2>1. F.supply \in Nat /\ F.supply # 0
    BY <1>1, FirstDb
  <2> QED BY <1>1, <2>1 DEF DueOf
<1> QED BY <1>1, <1>3, <1>4, <1>6, <1>7 DEF Funded

\* Migrating one more row.
LEMMA RowMigrated ==
    ASSUME NEW F \in StartDbs, NEW mv, NEW d \in Dbs, NEW rest, Migrated(d, F, mv, rest), NEW e \in Dbs,
           NEW r \in rest, r \in BootWallet \cup {"supply"}, e.scaled = d.scaled,
           r = "supply" => e.rows = d.rows /\ e.supply = d.supply \div Factor,
           r # "supply" => e.supply = d.supply /\ e.rows = [d.rows EXCEPT ![r] = @ \div Factor]
    PROVE  Migrated(e, F, mv, rest \ {r})
<1>0. "supply" \notin BootWallet
  BY BootAssumption
<1>1. Partly(d, F, mv) /\ \A w \in BootWallet : d.rows[w] = IF w \in rest THEN F.rows[w] ELSE F.rows[w] \div Factor
  BY DEF Migrated
<1>2. d.supply = IF "supply" \in rest THEN F.supply ELSE F.supply \div Factor
  BY DEF Migrated
<1>3. CASE r = "supply"
  <2>1. \A w \in BootWallet : w \in rest <=> w \in rest \ {r}
    BY <1>0, <1>3
  <2>2. e.supply = F.supply \div Factor
    BY <1>2, <1>3
  <2>3. Partly(e, F, mv)
    BY <1>1, <2>2 DEF Partly
  <2> QED BY <1>1, <1>3, <2>1, <2>2, <2>3 DEF Migrated
<1>4. CASE r # "supply"
  <2>1. d.rows \in [BootWallet -> Nat]
    BY DEF Dbs
  <2>2. \A w \in BootWallet : e.rows[w] = IF w = r THEN d.rows[r] \div Factor ELSE d.rows[w]
    BY <1>4, <2>1
  <2>3. \A w \in BootWallet : e.rows[w] = IF w \in rest \ {r} THEN F.rows[w] ELSE F.rows[w] \div Factor
    BY <1>1, <1>4, <2>2
  <2>4. Partly(e, F, mv)
    BY <1>1, <1>4 DEF Partly
  <2>5. e.supply = IF "supply" \in rest \ {r} THEN F.supply ELSE F.supply \div Factor
    BY <1>2, <1>4
  <2> QED BY <2>3, <2>4, <2>5 DEF Migrated
<1> QED BY <1>3, <1>4

\* The genesis allocation is backed.
LEMMA MintBacked ==
    ASSUME NEW F \in StartDbs, NEW mv, mv \/ F.supply = 0, NEW d \in Dbs, d.scaled, d.supply = Total(Allocation),
           \A w \in BootWallet : d.rows[w] = Allocation[w]
    PROVE  Funded(d, F, mv)
<1>1. d.rows \in Balances /\ Allocation \in Balances
  BY BootAssumption DEF Dbs, Balances
<1>2. Total(d.rows) = Total(Allocation)
  <2>1. d.rows = Allocation
    BY <1>1 DEF Balances
  <2> QED BY <2>1
<1>3. Total(Allocation) \in Nat
  BY <1>1, TotalIs
<1>4. DueOf(F, mv) = Total(Allocation)
  BY DEF DueOf
<1> QED BY <1>2, <1>3, <1>4, PlacesNat DEF Funded

\* The money's invariant holds at the first start.
LEMMA MoneyStarts == BootInit => MoneyInv
<1> SUFFICES ASSUME BootInit PROVE MoneyInv
  OBVIOUS
<1>1. boot.first = db /\ disk = db /\ boot.at = "off" /\ ~bootHist.moved
  BY DEF BootInit
<1>2. Found(db, boot.first, bootHist.moved) /\ Found(disk, boot.first, bootHist.moved)
  BY <1>1 DEF Found
<1> QED BY <1>1, <1>2 DEF MoneyInv, Stage, DiskOk, Startable

\* The invariant after a step, from what the step made of each part.
LEMMA MoneyFrom ==
    ASSUME NEW F, NEW mv, NEW at, NEW rest, F = boot'.first, mv = bootHist'.moved, at = boot'.at, rest = boot'.rows,
           ~bootHist'.cut => Stage(at, db', F, mv, rest) /\ DiskOk(disk', F, mv)
    PROVE  MoneyInv'
BY DEF MoneyInv, Stage, DiskOk, Startable, Found, Blank, Funded, Partly, Migrated, DueOf

\* It is kept where the money and the stage are.
LEMMA MoneySame ==
    ASSUME BtInv, MoneyInv, boot'.at = boot.at, boot'.first = boot.first, boot'.rows = boot.rows, SameMoney,
           disk' = disk \/ disk' = db,
           bootHist'.moved = bootHist.moved, bootHist'.cut = bootHist.cut
    PROVE  MoneyInv'
<1>1. PICK F, mv, at, rest : F = boot.first /\ mv = bootHist.moved /\ at = boot.at /\ rest = boot.rows
  OBVIOUS
<1>2. SUFFICES ASSUME ~bootHist.cut PROVE Stage(at, db', F, mv, rest) /\ DiskOk(disk', F, mv)
  BY <1>1, MoneyFrom
<1>3. Stage(at, db, F, mv, rest) /\ DiskOk(disk, F, mv)
  BY <1>1, <1>2 DEF MoneyInv
<1>4. Stage(at, db', F, mv, rest)
  BY <1>3 DEF SameMoney, Stage, Startable, Found, Blank, Funded, Partly, Migrated
<1>5. at \in Phases
  BY <1>1 DEF BtInv, BootTypes, BootStates
<1>6. DiskOk(disk', F, mv)
  BY <1>3, <1>5, StageDisk
<1> QED BY <1>4, <1>6

\* The start keeps it, up to the genesis.
LEMMA MoneyBoot ==
    ASSUME BtInv, BtInv', MoneyInv,
           (\E k \in BootKey : Open(k)) \/ MaybeMigrate \/ RecordScale \/ LoadSnapshot
           \/ StartWithSupply \/ ClearForGenesis \/ MintGenesis \/ \E r \in BootWallet \cup {"supply"} : MigrateRow(r)
    PROVE  MoneyInv'
<1>0. /\ db \in Dbs /\ disk \in Dbs /\ boot \in BootStates /\ bootHist \in Hists
      /\ db' \in Dbs /\ disk' \in Dbs /\ boot' \in BootStates
  BY DEF BtInv, BootTypes
<1>1. PICK F, mv, at, rest : F = boot.first /\ mv = bootHist.moved /\ at = boot.at /\ rest = boot.rows
  OBVIOUS
<1>2. F \in StartDbs /\ at \in Phases /\ rest \in SUBSET (BootWallet \cup {"supply"})
  BY <1>0, <1>1 DEF BootStates
<1>3. bootHist'.moved = mv /\ bootHist'.cut = bootHist.cut
  <2>1. bootHist' = bootHist \/ bootHist' = [bootHist EXCEPT !.faults = @ + 1]
    BY DEF Open, MaybeMigrate, RecordScale, LoadSnapshot, StartWithSupply, ClearForGenesis, MintGenesis, MigrateRow
  <2> QED BY <1>0, <1>1, <2>1, FaultIn
<1>4. boot'.first = F
  <2>1. CASE MaybeMigrate
    <3>1. PICK p, r : boot' = [boot EXCEPT !.at = p, !.rows = r]
      BY <2>1 DEF MaybeMigrate
    <3> QED BY <3>1, <1>0, <1>1 DEF BootStates
  <2>2. CASE ~MaybeMigrate
    <3>1. \/ boot' = boot \/ (\E p : boot' = [boot EXCEPT !.at = p]) \/ (\E r : boot' = [boot EXCEPT !.rows = @ \ {r}])
      BY <2>2 DEF Open, RecordScale, LoadSnapshot, StartWithSupply, ClearForGenesis, MintGenesis, MigrateRow, At
    <3> QED BY <3>1, <1>0, <1>1 DEF BootStates
  <2> QED BY <2>1, <2>2
<1>5. PICK at2, rest2 : at2 = boot'.at /\ rest2 = boot'.rows
  OBVIOUS
<1>6. SUFFICES ASSUME ~bootHist.cut PROVE Stage(at2, db', F, mv, rest2) /\ DiskOk(disk', F, mv)
  BY <1>3, <1>4, <1>5, MoneyFrom
<1>7. Stage(at, db, F, mv, rest) /\ DiskOk(disk, F, mv)
  BY <1>1, <1>6 DEF MoneyInv
<1>8. at2 \in Phases
  BY <1>0, <1>5 DEF BootStates
<1>9. ASSUME Stage(at2, db', F, mv, rest2), disk' = disk \/ disk' = db' PROVE Stage(at2, db', F, mv, rest2) /\ DiskOk(disk', F, mv)
  BY <1>7, <1>8, <1>9, StageDisk
<1>10. CASE \E k \in BootKey : Open(k)
  <2>1. PICK k \in BootKey : Open(k)
    BY <1>10
  <2>2. at = "off" /\ disk' = disk
    BY <2>1, <1>1 DEF Open
  <2>3. Startable(db, F, mv)
    BY <1>7, <2>2 DEF Stage
  <2>4. CASE db.key \in {"-", k}
    <3>1. boot' = [boot EXCEPT !.at = "opened"] /\ db' = [db EXCEPT !.key = k]
      BY <2>1, <2>4 DEF Open, At
    <3>2. at2 = "opened"
      BY <1>0, <1>5, <3>1 DEF BootStates
    <3>3. SameMoney
      BY <1>0, <3>1 DEF Dbs, SameMoney
    <3>4. Startable(db', F, mv)
      BY <2>3, <3>3 DEF SameMoney, Startable, Found, Blank, Funded
    <3>5. Stage(at2, db', F, mv, rest2)
      BY <3>2, <3>4 DEF Stage
    <3> QED BY <1>9, <2>2, <3>5
  <2>5. CASE db.key \notin {"-", k}
    <3>1. UNCHANGED <<db, boot>>
      BY <2>1, <2>5 DEF Open
    <3> QED BY <1>1, <1>5, <1>7, <2>2, <3>1
  <2> QED BY <2>4, <2>5
<1>11. CASE MaybeMigrate
  <2>1. at = "opened" /\ disk' = disk
    BY <1>1, <1>11 DEF MaybeMigrate
  <2>2. Startable(db, F, mv)
    BY <1>7, <2>1 DEF Stage
  <2>3. PICK has : has = HasMonetaryState
    OBVIOUS
  <2>a. has <=> (\E w \in BootWallet : db.rows[w] >= 1) \/ db.supply > 0
    BY <2>3 DEF HasMonetaryState, HasBalanceRows
  <2>4. CASE NeedsMigration
    <3>1. ~db.scaled /\ has
      BY <2>3, <2>4 DEF NeedsMigration
    <3>2. boot' = [boot EXCEPT !.at = "migrating", !.rows = BootWallet \cup {"supply"}] /\ db' = [db EXCEPT !.scaled = db.scaled]
      BY <1>11, <2>4 DEF MaybeMigrate
    <3>3. db' = db /\ at2 = "migrating" /\ rest2 = BootWallet \cup {"supply"}
      BY <1>0, <1>5, <3>2 DEF Dbs, BootStates
    <3>4. Found(db, F, mv) /\ ~F.scaled /\ F.supply > 0
      BY <1>0, <1>2, <2>2, <2>a, <3>1, NoMigration
    <3>5. Migrated(db, F, mv, rest2)
      BY <3>1, <3>3, <3>4 DEF Found, Migrated, Partly
    <3>6. Stage(at2, db', F, mv, rest2)
      BY <3>3, <3>5 DEF Stage
    <3> QED BY <1>9, <2>1, <3>6
  <2>5. CASE ~NeedsMigration
    <3>1. ~(~db.scaled /\ has)
      BY <2>3, <2>5 DEF NeedsMigration
    <3>2. boot' = [boot EXCEPT !.at = "migrated", !.rows = {}] /\ db' = [db EXCEPT !.scaled = TRUE]
      BY <1>11, <2>5 DEF MaybeMigrate
    <3>3. at2 = "migrated"
      BY <1>0, <1>5, <3>2 DEF BootStates
    <3>4. db'.rows = db.rows /\ db'.supply = db.supply /\ db'.scaled
      BY <1>0, <3>2 DEF Dbs
    <3>5. Blank(db', F, mv) \/ Funded(db', F, mv)
      BY <1>0, <1>2, <2>2, <2>a, <3>1, <3>4, NoMigration
    <3>6. Stage(at2, db', F, mv, rest2)
      BY <3>3, <3>4, <3>5 DEF Stage
    <3> QED BY <1>9, <2>1, <3>6
  <2> QED BY <2>4, <2>5
<1>12. CASE RecordScale
  <2>1. at = "migrating" /\ rest = {} /\ disk' = disk /\ boot' = [boot EXCEPT !.at = "migrated"] /\ db' = [db EXCEPT !.scaled = TRUE]
    BY <1>1, <1>12 DEF RecordScale, At
  <2>2. Migrated(db, F, mv, {})
    BY <1>7, <2>1 DEF Stage
  <2>3. db'.rows = db.rows /\ db'.supply = db.supply /\ db'.scaled /\ at2 = "migrated"
    BY <1>0, <1>5, <2>1 DEF Dbs, BootStates
  <2>4. Funded(db', F, mv)
    BY <1>0, <1>2, <2>2, <2>3, AllMigrated
  <2>5. Stage(at2, db', F, mv, rest2)
    BY <2>3, <2>4 DEF Stage
  <2> QED BY <1>9, <2>1, <2>5
<1>13. CASE LoadSnapshot
  <2>1. at = "migrated" /\ disk' = db' /\ boot' = [boot EXCEPT !.at = "loaded"]
    BY <1>1, <1>13 DEF LoadSnapshot, At
  <2>2. db.scaled /\ (Blank(db, F, mv) \/ Funded(db, F, mv))
    BY <1>7, <2>1 DEF Stage
  <2>3. at2 = "loaded"
    BY <1>0, <1>5, <2>1 DEF BootStates
  <2>4. CASE Restorable
    <3>1. ~HasBalanceRows
      BY <2>4 DEF Restorable
    <3>2. db' = [db EXCEPT !.rows = Snapshot.rows]
      BY <1>13, <2>4 DEF LoadSnapshot
    <3>3. db'.supply = db.supply /\ db'.scaled = db.scaled
      BY <1>0, <3>2 DEF Dbs
    <3>4. Blank(db, F, mv)
      <4>1. SUFFICES ASSUME Funded(db, F, mv) PROVE db.supply = 0
        BY <1>0, <1>2, <2>2, BackedBlank
      <4>2. db.rows \in Balances /\ db.supply \in Nat
        BY <1>0 DEF Dbs, Balances
      <4>3. \A w \in BootWallet : db.rows[w] = 0
        BY <3>1, <4>2 DEF HasBalanceRows, Balances
      <4>4. Total(db.rows) = 0
        BY <4>2, <4>3, TotalIs
      <4> QED BY <4>1, <4>2, <4>4 DEF Funded
    <3>5. Blank(db', F, mv) /\ db'.scaled
      BY <2>2, <3>3, <3>4 DEF Blank
    <3>6. Stage(at2, db', F, mv, rest2)
      BY <2>3, <3>5 DEF Stage
    <3> QED BY <1>9, <2>1, <3>6
  <2>5. CASE ~Restorable
    <3>1. db' = db
      BY <1>13, <2>5 DEF LoadSnapshot
    <3>2. Stage(at2, db', F, mv, rest2)
      BY <2>2, <2>3, <3>1 DEF Stage
    <3> QED BY <1>9, <2>1, <3>2
  <2> QED BY <2>4, <2>5
<1>14. CASE StartWithSupply
  <2>1. at = "loaded" /\ disk' = disk /\ db' = db /\ boot' = [boot EXCEPT !.at = "running"] /\ db.supply # 0
    BY <1>1, <1>14 DEF StartWithSupply, At, LedgerIsEmpty
  <2>2. at2 = "running"
    BY <1>0, <1>5, <2>1 DEF BootStates
  <2>3. Funded(db, F, mv)
    BY <1>7, <2>1 DEF Stage, Blank
  <2>4. Stage(at2, db', F, mv, rest2)
    BY <2>1, <2>2, <2>3 DEF Stage
  <2> QED BY <1>9, <2>1, <2>4
<1>15. CASE ClearForGenesis
  <2>1. at = "loaded" /\ disk' = db' /\ db' = [db EXCEPT !.rows = NoRows] /\ boot' = [boot EXCEPT !.at = "cleared"] /\ db.supply = 0
    BY <1>1, <1>15 DEF ClearForGenesis, At, LedgerIsEmpty, Cleared
  <2>2. at2 = "cleared"
    BY <1>0, <1>5, <2>1 DEF BootStates
  <2>3. Blank(db, F, mv) /\ db.scaled
    BY <1>0, <1>2, <1>7, <2>1, BackedBlank DEF Stage
  <2>4. db'.rows = NoRows /\ db'.supply = db.supply /\ db'.scaled = db.scaled
    BY <1>0, <2>1 DEF Dbs
  <2>5. Blank(db', F, mv) /\ db'.scaled
    BY <2>3, <2>4 DEF Blank
  <2>6. Stage(at2, db', F, mv, rest2)
    BY <2>2, <2>4, <2>5 DEF Stage
  <2> QED BY <1>9, <2>1, <2>6
<1>16. CASE MintGenesis
  <2>1. at = "cleared" /\ disk' = disk /\ boot' = [boot EXCEPT !.at = "minted"]
    BY <1>1, <1>16 DEF MintGenesis, At
  <2>2. at2 = "minted"
    BY <1>0, <1>5, <2>1 DEF BootStates
  <2>3. Blank(db, F, mv) /\ db.scaled /\ db.rows = NoRows
    BY <1>7, <2>1 DEF Stage
  <2>4. PICK r, s : r = [w \in BootWallet |-> db.rows[w] + Allocation[w]] /\ s = Total(Allocation)
    OBVIOUS
  <2>5. db' = [db EXCEPT !.rows = r, !.supply = s]
    BY <1>16, <2>4 DEF MintGenesis
  <2>6. db'.rows = r /\ db'.supply = s /\ db'.scaled = db.scaled
    BY <1>0, <2>5 DEF Dbs
  <2>7. \A w \in BootWallet : db'.rows[w] = Allocation[w]
    BY <2>3, <2>4, <2>6, BootAssumption DEF NoRows
  <2>8. mv \/ F.supply = 0
    BY <2>3 DEF Blank
  <2>9. db'.supply = Total(Allocation) /\ db'.scaled
    BY <2>3, <2>4, <2>6
  <2>10. Funded(db', F, mv)
    BY <1>0, <1>2, <2>7, <2>8, <2>9, MintBacked
  <2>11. Stage(at2, db', F, mv, rest2)
    BY <2>2, <2>10 DEF Stage
  <2> QED BY <1>9, <2>1, <2>11
<1>17. CASE \E r \in BootWallet \cup {"supply"} : MigrateRow(r)
  <2>1. PICK r \in BootWallet \cup {"supply"} : MigrateRow(r)
    BY <1>17
  <2>2. at = "migrating" /\ r \in rest /\ disk' = disk /\ boot' = [boot EXCEPT !.rows = @ \ {r}]
    BY <1>1, <2>1 DEF MigrateRow
  <2>3. at2 = "migrating" /\ rest2 = rest \ {r}
    BY <1>0, <1>1, <1>5, <2>2 DEF BootStates
  <2>4. Migrated(db, F, mv, rest)
    BY <1>7, <2>2 DEF Stage
  <2>5. /\ db'.scaled = db.scaled
        /\ r = "supply" => db'.rows = db.rows /\ db'.supply = db.supply \div Factor
        /\ r # "supply" => db'.supply = db.supply /\ db'.rows = [db.rows EXCEPT ![r] = @ \div Factor]
    <3>1. CASE r = "supply"
      <4>1. PICK v : v = db.supply \div Factor
        OBVIOUS
      <4>2. db' = [db EXCEPT !.supply = v]
        BY <2>1, <3>1, <4>1 DEF MigrateRow
      <4>3. db'.rows = db.rows /\ db'.supply = v /\ db'.scaled = db.scaled
        BY <1>0, <4>2 DEF Dbs
      <4> QED BY <3>1, <4>1, <4>3
    <3>2. CASE r # "supply"
      <4>1. PICK f : f = [db.rows EXCEPT ![r] = @ \div Factor]
        OBVIOUS
      <4>2. db' = [db EXCEPT !.rows = f]
        BY <2>1, <3>2, <4>1 DEF MigrateRow
      <4>3. db'.rows = f /\ db'.supply = db.supply /\ db'.scaled = db.scaled
        BY <1>0, <4>2 DEF Dbs
      <4> QED BY <3>2, <4>1, <4>3
    <3> QED BY <3>1, <3>2
  <2>6. Migrated(db', F, mv, rest \ {r})
    BY <1>0, <1>2, <2>1, <2>2, <2>4, <2>5, RowMigrated
  <2>7. Stage(at2, db', F, mv, rest2)
    BY <2>3, <2>6 DEF Stage
  <2> QED BY <1>9, <2>2, <2>7
<1> QED BY <1>10, <1>11, <1>12, <1>13, <1>14, <1>15, <1>16, <1>17

\* The end of the genesis, payments, crashes and shutdowns keep it.
LEMMA MoneyStop ==
    ASSUME BtInv, BtInv', MoneyInv, GenesisFlush \/ BootCrash \/ (\E m \in BOOLEAN : Shutdown(m)) \/ (\E v, w \in BootWallet : Pay(v, w))
    PROVE  MoneyInv'
<1>0. /\ db \in Dbs /\ disk \in Dbs /\ boot \in BootStates /\ bootHist \in Hists
      /\ db' \in Dbs /\ disk' \in Dbs /\ boot' \in BootStates
  BY DEF BtInv, BootTypes
<1>1. PICK F, mv, at, rest : F = boot.first /\ mv = bootHist.moved /\ at = boot.at /\ rest = boot.rows
  OBVIOUS
<1>2. F \in StartDbs /\ at \in Phases
  BY <1>0, <1>1 DEF BootStates
<1>3. ~bootHist.cut => Stage(at, db, F, mv, rest) /\ DiskOk(disk, F, mv)
  BY <1>1 DEF MoneyInv
<1>4. PICK at2, rest2, mv2 : at2 = boot'.at /\ rest2 = boot'.rows /\ mv2 = bootHist'.moved
  OBVIOUS
<1>5. CASE GenesisFlush
  <2>1. db'.rows = db.rows /\ db'.supply = db.supply /\ db'.scaled = db.scaled /\ bootHist'.cut = bootHist.cut /\ bootHist'.moved = mv
    BY <1>1, <1>5, GenesisFlushIs
  <2>2. at = "minted" /\ disk' = db' /\ boot' = [boot EXCEPT !.at = "running"]
    BY <1>1, <1>5 DEF GenesisFlush, At
  <2>3. boot'.first = F /\ at2 = "running"
    BY <1>0, <1>1, <1>4, <2>2 DEF BootStates
  <2>4. SUFFICES ASSUME ~bootHist.cut PROVE Stage(at2, db', F, mv, rest2) /\ DiskOk(disk', F, mv)
    BY <1>4, <2>1, <2>3, MoneyFrom
  <2>5. Funded(db, F, mv)
    BY <1>3, <2>2, <2>4 DEF Stage
  <2>6. Funded(db', F, mv)
    BY <2>1, <2>5 DEF Funded
  <2>7. Stage(at2, db', F, mv, rest2)
    BY <2>3, <2>6 DEF Stage
  <2>8. DiskOk(disk', F, mv)
    BY <2>2, <2>6 DEF DiskOk, Startable
  <2> QED BY <2>7, <2>8
<1>6. CASE BootCrash
  <2>1. db' = disk /\ disk' = disk
    BY <1>6 DEF BootCrash
  <2>2. boot'.first = F /\ at2 = "off" /\ mv2 = mv /\ (bootHist'.cut <=> bootHist.cut \/ HalfMigrated)
    BY <1>1, <1>4, <1>6, BootCrashIs
  <2>3. SUFFICES ASSUME ~bootHist.cut, ~HalfMigrated PROVE Stage(at2, db', F, mv2, rest2) /\ DiskOk(disk', F, mv2)
    BY <1>4, <2>2, MoneyFrom
  <2>4. DiskOk(disk, F, mv)
    BY <1>3, <2>3
  <2>5. Startable(disk, F, mv)
    <3>1. SUFFICES ASSUME Partly(disk, F, mv) PROVE Found(disk, F, mv)
      BY <2>4 DEF DiskOk, Startable
    <3>2. ~disk.scaled /\ ~F.scaled /\ ~mv /\ F.supply > 0 /\ disk.supply \in {F.supply, F.supply \div Factor}
      BY <3>1 DEF Partly
    <3>3. disk.supply > 0
      <4>1. F.supply \in Nat /\ F.supply \div Factor >= 1 /\ F.supply \div Factor \in Nat
        BY <1>2, <3>2, FirstDb, DivNat
      <4> QED BY <4>1, <3>2
    <3>4. disk.rows = F.rows /\ disk.supply = F.supply
      BY <1>1, <2>3, <3>2, <3>3 DEF HalfMigrated
    <3> QED BY <3>2, <3>4 DEF Found
  <2>6. Stage(at2, db', F, mv2, rest2)
    BY <2>1, <2>2, <2>5 DEF Stage
  <2>7. DiskOk(disk', F, mv2)
    BY <2>1, <2>2, <2>4
  <2> QED BY <2>6, <2>7
<1>7. CASE \E m \in BOOLEAN : Shutdown(m)
  <2>1. PICK m \in BOOLEAN : Shutdown(m)
    BY <1>7
  <2>2. /\ boot'.first = F /\ at2 = "off" /\ (mv2 <=> mv \/ m) /\ bootHist'.cut = bootHist.cut
        /\ db' = (IF m THEN EmptyDb ELSE db) /\ disk' = db'
    BY <1>1, <1>4, <2>1, ShutdownIs
  <2>3. SUFFICES ASSUME ~bootHist.cut PROVE Stage(at2, db', F, mv2, rest2) /\ DiskOk(disk', F, mv2)
    BY <1>4, <2>2, MoneyFrom
  <2>4. Startable(db', F, mv2)
    <3>1. CASE m
      <4>1. EmptyDb.supply = 0 /\ EmptyDb.rows = NoRows
        BY DEF EmptyDb
      <4>2. db' = EmptyDb /\ mv2
        BY <2>2, <3>1
      <4>3. Blank(EmptyDb, F, mv2)
        BY <4>1, <4>2 DEF Blank
      <4> QED BY <4>2, <4>3 DEF Startable
    <3>2. CASE ~m
      <4>1. db' = db /\ (mv2 <=> mv)
        BY <2>2, <3>2
      <4>2. at = "running"
        BY <1>1, <2>1 DEF Shutdown, Running
      <4>3. Funded(db, F, mv)
        BY <1>3, <2>3, <4>2 DEF Stage
      <4>4. Funded(db, F, mv2)
        BY <4>1, <4>3 DEF Funded, DueOf
      <4> QED BY <4>1, <4>4 DEF Startable
    <3> QED BY <3>1, <3>2
  <2>5. Stage(at2, db', F, mv2, rest2)
    BY <2>2, <2>4 DEF Stage
  <2>6. DiskOk(disk', F, mv2)
    BY <2>2, <2>4 DEF DiskOk
  <2> QED BY <2>5, <2>6
<1>8. CASE \E v, w \in BootWallet : Pay(v, w)
  <2>1. PICK v, w \in BootWallet : Pay(v, w)
    BY <1>8
  <2>2. /\ db'.supply = db.supply /\ db'.scaled = db.scaled /\ bootHist'.cut = bootHist.cut /\ bootHist'.moved = mv
        /\ db'.rows = [[db.rows EXCEPT ![v] = @ - 1] EXCEPT ![w] = @ + 1]
    BY <1>1, <2>1, PayIs
  <2>3. UNCHANGED <<disk, boot>> /\ v # w /\ db.rows[v] > 0 /\ at = "running"
    BY <1>1, <2>1 DEF Pay, Running
  <2>4. db.rows \in Balances
    BY <1>0 DEF Dbs, Balances
  <2>5. Total(db'.rows) = Total(db.rows)
    BY <2>2, <2>3, <2>4, PayTotal
  <2>6. SUFFICES ASSUME ~bootHist.cut PROVE Stage(at, db', F, mv, rest) /\ DiskOk(disk', F, mv)
    BY <1>1, <2>2, <2>3, MoneyFrom
  <2>7. Funded(db, F, mv)
    BY <1>3, <2>3, <2>6 DEF Stage
  <2>8. Funded(db', F, mv)
    BY <2>2, <2>5, <2>7 DEF Funded
  <2>9. Stage(at, db', F, mv, rest)
    BY <2>3, <2>8 DEF Stage
  <2>10. DiskOk(disk', F, mv)
    BY <1>3, <2>3, <2>6
  <2> QED BY <2>9, <2>10
<1> QED BY <1>5, <1>6, <1>7, <1>8

\* Every step keeps the money's invariant.
LEMMA MoneyStep == ASSUME BtInv, BtInv', MoneyInv, [BootNext]_bootVars PROVE MoneyInv'
<1>0. db \in Dbs /\ boot \in BootStates /\ bootHist \in Hists
  BY DEF BtInv, BootTypes
<1>1. CASE MoneyNext
  <2>1. CASE BackgroundFlush
    <3>1. UNCHANGED <<db, boot, bootHist>> /\ disk' = db
      BY <2>1 DEF BackgroundFlush
    <3> QED BY <3>1, MoneySame DEF SameMoney
  <2> QED BY <1>1, <2>1, MoneyBoot, MoneyStop DEF MoneyNext
<1>2. CASE SnapshotNext
  <2>1. PICK t \in Snapshotter : BuildSnapshot(t) \/ OpenTmp(t) \/ WriteTmp(t) \/ RenameTmp(t)
    BY <1>2 DEF SnapshotNext
  <2>2. UNCHANGED <<db, disk, boot>>
    BY <2>1 DEF BuildSnapshot, OpenTmp, WriteTmp, RenameTmp
  <2>3. bootHist'.moved = bootHist.moved /\ bootHist'.cut = bootHist.cut
    <3>1. CASE OpenTmp(t)
      <4>1. PICK i : i = TmpInode
        OBVIOUS
      <4> QED BY <3>1, <4>1, OpenTmpIs
    <3>2. CASE ~OpenTmp(t)
      BY <3>2, <2>1 DEF BuildSnapshot, WriteTmp, RenameTmp
    <3> QED BY <3>1, <3>2
  <2> QED BY <2>2, <2>3, MoneySame DEF SameMoney
<1>3. CASE AuditNext
  <2>1. CASE \E t \in Auditor : AuditRecord(t)
    <3>1. PICK t \in Auditor : AuditRecord(t)
      BY <2>1
    <3>2. UNCHANGED <<disk, boot>> /\ SameMoney /\ bootHist'.moved = bootHist.moved /\ bootHist'.cut = bootHist.cut
      BY <3>1, AuditRecordIs DEF AuditRecord
    <3> QED BY <3>2, MoneySame
  <2>2. CASE \E t \in Auditor : ReadAuditSeq(t) \/ WriteAuditSeq(t)
    <3>1. PICK t \in Auditor : ReadAuditSeq(t) \/ WriteAuditSeq(t)
      BY <2>2
    <3>2. UNCHANGED <<disk, boot, bootHist>> /\ SameMoney
      BY <3>1, NumberIs DEF ReadAuditSeq, WriteAuditSeq
    <3> QED BY <3>2, MoneySame
  <2>3. CASE \E t \in Auditor : IndexAudit(t)
    <3>1. PICK t \in Auditor : IndexAudit(t)
      BY <2>3
    <3>2. UNCHANGED <<disk, boot, bootHist>> /\ SameMoney
      BY <3>1, IndexIs DEF IndexAudit
    <3> QED BY <3>2, MoneySame
  <2>4. CASE \E x \in db.index : PruneIndex(x)
    <3>1. PICK x \in db.index : PruneIndex(x)
      BY <2>4
    <3>2. UNCHANGED <<disk, bootHist>> /\ SameMoney /\ boot'.at = boot.at /\ boot'.first = boot.first /\ boot'.rows = boot.rows
      BY <3>1, PruneIs DEF PruneIndex
    <3> QED BY <3>2, MoneySame
  <2>5. CASE PruneRecord
    <3>2. UNCHANGED <<disk, bootHist>> /\ SameMoney /\ boot'.at = boot.at /\ boot'.first = boot.first /\ boot'.rows = boot.rows
      BY <2>5, PruneRecordIs DEF PruneRecord
    <3> QED BY <3>2, MoneySame
  <2> QED BY <1>3, <2>1, <2>2, <2>3, <2>4, <2>5 DEF AuditNext
<1>4. CASE UNCHANGED bootVars
  <2>1. UNCHANGED <<db, disk, boot, bootHist>>
    BY <1>4 DEF bootVars
  <2> QED BY <2>1, MoneySame DEF SameMoney
<1> QED BY <1>1, <1>2, <1>3, <1>4 DEF BootNext

\* The inductive invariant of the ledger's start.
BootInv == BtInv /\ SnapInv /\ AuditInv /\ MoneyInv

\* It implies what the node relies on.
LEMMA BootInvSound == BootInv => BootSound
<1> SUFFICES ASSUME BootInv PROVE BootSound
  OBVIOUS
<1>0. BtInv /\ BootTypes
  BY DEF BootInv, BtInv
<1>1. BootTypeOK
  <2>1. db.rows \in [BootWallet -> Nat] /\ disk.rows \in [BootWallet -> Nat] /\ db.supply \in Nat /\ db.seq \in Nat
    BY <1>0 DEF BootTypes, Dbs
  <2>2. file.json \in Inodes \cup {NoInode} /\ file.tmp \in Inodes \cup {NoInode}
    BY <1>0 DEF BootTypes, Files
  <2>3. boot.rows \subseteq BootWallet \cup {"supply"}
    BY <1>0 DEF BootTypes, BootStates
  <2>4. \A t \in Snapshotter : writers[t].pc \in {"idle", "built", "open", "written"}
    BY <1>0 DEF BootTypes, Threads
  <2>5. \A t \in Auditor : auditors[t].pc \in {"idle", "stored", "numbered", "counted"}
    BY <1>0 DEF BootTypes, Logs
  <2> QED BY <2>1, <2>2, <2>3, <2>4, <2>5 DEF BootTypeOK
<1>2. MoneyBacked
  <2>1. SUFFICES ASSUME boot.at = "running", ~bootHist.cut
                 PROVE  /\ db.supply = SupplyDue /\ Total(db.rows) <= db.supply
                        /\ db.supply < Total(db.rows) + Cardinality(BootWallet)
    BY DEF MoneyBacked, Running
  <2>2. Funded(db, boot.first, bootHist.moved)
    BY <2>1 DEF BootInv, MoneyInv, Stage
  <2>3. SupplyDue = DueOf(boot.first, bootHist.moved)
    BY DEF SupplyDue, Inherited, DueOf
  <2> QED BY <2>2, <2>3 DEF Funded, Places
<1>3. SnapshotWhole
  BY DEF BootInv, SnapInv, OneWriter, SnapshotWhole, Snapshot
<1>4. IndexedIsStored
  BY DEF BootInv, AuditInv, IndexOk, IndexedIsStored
<1> QED BY <1>1, <1>2, <1>3, <1>4 DEF BootSound

\* A node that serves has the supply of one genesis or of its legacy database scaled
\* once, in its wallets but for rounding; its snapshot is whole; its audit index names
\* stored records: after any sequence of crashes, restarts, wrong keys, restores and
\* interleaved writers, for every set of wallets, threads and databases found (ledger.rs:
\* ensure_db_magic, migrations, genesis, snapshots, audit_write).
THEOREM BootIsSound == BootSpec => []BootSound
<1>1. BootInit => BootInv
  BY BootStarts, SnapStarts, AuditStarts, MoneyStarts DEF BootInv
<1>2. BootInv /\ [BootNext]_bootVars => BootInv'
  <2> SUFFICES ASSUME BootInv, [BootNext]_bootVars PROVE BootInv'
    OBVIOUS
  <2>1. BtInv /\ SnapInv /\ AuditInv /\ MoneyInv
    BY DEF BootInv
  <2>2. BtInv'
    BY <2>1, BtStep
  <2>3. SnapInv' /\ AuditInv' /\ MoneyInv'
    BY <2>1, <2>2, SnapStep, AuditStep, MoneyStep
  <2> QED BY <2>2, <2>3 DEF BootInv
<1>3. BootInv => BootSound
  BY BootInvSound
<1> QED BY <1>1, <1>2, <1>3, PTL DEF BootSpec
================================================================================
