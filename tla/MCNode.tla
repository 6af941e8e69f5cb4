-------------------------------- MODULE MCNode --------------------------------
(***************************************************************************)
(* One instance of what keeps a node going: the ledger's start and its     *)
(* snapshots, the worker network, the auto-miner's gate, and the guards of *)
(* the API and of the swarm loop.  They share no state; each behaviour     *)
(* explores the one that focus names.                                      *)
(***************************************************************************)
EXTENDS LedgerBoot, WorkerNet, MiningGate, NodeGuards

-----------------------------------------------------------------------------
(* Worker network, and the ledger's start: an empty database, or a legacy  *)
(* one whose amounts the migration rounds.                                 *)

MCLiquid == [w \in NetWorker |-> 1]
MCAllocation == [w \in BootWallet |-> CASE w = "founder" -> 1 [] w = "pool" -> 2 [] OTHER -> 0]
MCLegacy == [EmptyDb EXCEPT !.rows = [w \in BootWallet |-> IF w = "user" THEN 3 ELSE 5],
                            !.supply = 13, !.key = "k1"]
MCStarts == {EmptyDb, MCLegacy}

(* The gate: a validator of three kinds, with and without a chain.         *)

MCRoles == {[bootnodes |-> TRUE, bootnode |-> FALSE, sole |-> TRUE],
            [bootnodes |-> TRUE, bootnode |-> FALSE, sole |-> FALSE],
            [bootnodes |-> TRUE, bootnode |-> TRUE, sole |-> FALSE]}
MCOtherRole == [bootnodes |-> TRUE, bootnode |-> FALSE, sole |-> FALSE]

-----------------------------------------------------------------------------
VARIABLE focus

Foci == {"jobs", "bonds", "boot", "snapshots", "audit", "gate", "api", "watch"}

nodeVars == <<netVars, bootVars, gateVars, guardVars, focus>>

NodeInit ==
    /\ focus \in Foci
    /\ NetInit /\ BootInit /\ GateInit /\ GuardInit
    /\ focus # "boot" => db = EmptyDb
    /\ focus # "gate" => role = MCOtherRole /\ local.height = 0

\* What each focus leaves alone besides the other parts, and its inputs.
Jobs ==
    /\ focus = "jobs"
    /\ UNCHANGED <<record, guardians, completing>>
    /\ NetNext
    /\ \A w \in NetWorker : bondNonce'[w] < 2
Bonds == focus = "bonds" /\ UNCHANGED jobBook /\ NetNext
Boots == focus = "boot" /\ UNCHANGED <<auditors, writers>> /\ BootNext
Snapshots ==
    /\ focus = "snapshots"
    /\ UNCHANGED auditors
    /\ BootNext
    /\ bootHist'.faults < 2 /\ db'.key # "k2"
Audits ==
    /\ focus = "audit"
    /\ UNCHANGED writers
    /\ BootNext
    /\ bootHist'.pays = 0 /\ bootHist'.faults < 2

Gates(A) == focus = "gate" /\ A /\ UNCHANGED <<netVars, bootVars, guardVars, focus>>
Apis == focus = "api" /\ UNCHANGED <<beacon, loop>> /\ GuardNext
Watches(A) ==
    /\ focus = "watch" /\ A
    /\ guardHist'.requests = 0
    /\ UNCHANGED <<netVars, bootVars, gateVars, focus>>

NodeNext ==
    \/ /\ Jobs \/ Bonds
       /\ UNCHANGED <<bootVars, gateVars, guardVars, focus>>
    \/ /\ Boots \/ Snapshots \/ Audits
       /\ UNCHANGED <<netVars, gateVars, guardVars, focus>>
    \/ Gates(GateNext)
    \/ /\ Apis
       /\ UNCHANGED <<netVars, bootVars, gateVars, focus>>
    \/ Watches(GuardNext)

\* The fairness of GateSpec and GuardSpec.
NodeSpec ==
    /\ NodeInit /\ [][NodeNext]_nodeVars
    /\ WF_nodeVars(Gates(MinerStep)) /\ WF_nodeVars(Gates(DriverStep)) /\ WF_nodeVars(Gates(GateTick))
    /\ WF_nodeVars(Watches(GuardTick)) /\ WF_nodeVars(Watches(LoopTick)) /\ WF_nodeVars(Watches(WatchdogExit))

\* A lone producer goes on, and a wedged loop does not stay wedged.
NodeLive ==
    /\ focus = "gate" => SoleProducerMines
    /\ focus = "watch" => WedgeEnds
===============================================================================
