------------------------------- MODULE MiningGate -------------------------------
(***************************************************************************)
(* The auto-miner's loop (spawn_auto_miner, tet-core/src/consensus.rs) and *)
(* the gate it passes twice before it mines (auto_mine_blocked_by_sync,    *)
(* sync.rs).  The gate reads the local tip first and decides afterwards,   *)
(* under the sync lock, so blocks may be applied in between.  CatchUp      *)
(* models the driver; here it is busy or idle.  A tip's id is the branch   *)
(* and height it stands for.  Times are ages, kept up to the longest one   *)
(* the gate compares with.                                                 *)
(***************************************************************************)
EXTENDS Naturals, FiniteSets

CONSTANTS
    GatePeer,       \* peers of the block plane
    Branch,         \* branches a tip may be on; the node starts on OwnBranch
    OwnBranch,
    GateRoles,      \* settings of a node: [bootnodes, bootnode, sole]
    StartHeights,   \* heights a node may start with
    StableSec,      \* TET_SYNC_STABLE_SEC, in ticks
    Grace,          \* TET_SOLO_PRODUCER_GRACE_SEC
    MaxGateHeight, MaxHellos, MaxGateRestarts   \* bounds

ASSUME MiningGateAssumption ==
    /\ IsFiniteSet(GatePeer) /\ OwnBranch \in Branch
    /\ GateRoles \subseteq [bootnodes : BOOLEAN, bootnode : BOOLEAN, sole : BOOLEAN]
    /\ StartHeights \subseteq 0..MaxGateHeight
    /\ StableSec \in Nat \ {0} /\ Grace \in Nat /\ MaxGateHeight \in Nat
    /\ MaxHellos \in Nat /\ MaxGateRestarts \in Nat

VARIABLES
    role,       \* the node's settings
    local,      \* [height, branch]: the chain tip
    hellos,     \* SyncState::registry: [GatePeer -> NoHello or a record]
    latch,      \* catch_up_triggered
    busy,       \* the catch-up driver is not idle: a range request is in progress
    stableAge,  \* ticks since stable_tip_since; NoAge when it is None
    syncedOnce, \* SyncState::synced_once
    upAge,      \* ticks since created_at
    miner,      \* [at, seen]: where the loop is, and the tip the gate has read
    gateHist    \* history: age of the last gate that found the node not in sync, the last pass, hellos and restarts spent

gateVars == <<role, local, hellos, latch, busy, stableAge, syncedOnce, upAge, miner, gateHist>>

\* "-" stands for an empty string.
NoHello == [height |-> 0, tip |-> <<"-", 0>>, here |-> FALSE]
NoAge == StableSec + 1
NoPass == [ahead |-> FALSE, heard |-> TRUE, height |-> 0, since |-> StableSec]
Heard == {p \in GatePeer : hellos[p].here}
AnyPeerAhead(h) == \E p \in Heard : hellos[p].height > h

(***************************************************************************)
(* The sync state, as the swarm loop changes it                            *)
(***************************************************************************)
\* record_peer_hello; an empty tip is a hello built without one.
RecordHello(p, h, tip) ==
    /\ gateHist.hellos < MaxHellos
    /\ hellos' = [hellos EXCEPT ![p] = [height |-> h, tip |-> tip, here |-> TRUE]]
    /\ latch' = (latch \/ h > local.height)
    /\ gateHist' = [gateHist EXCEPT !.hellos = @ + 1]
    /\ UNCHANGED <<role, local, busy, stableAge, syncedOnce, upAge, miner>>
\* note_peer_block_height: gossip raises the height, and the tip stays as the hello said.
NoteBlockHeight(p, h) ==
    /\ gateHist.hellos < MaxHellos
    /\ hellos' = IF hellos[p].here /\ h > hellos[p].height THEN [hellos EXCEPT ![p].height = h]
                 ELSE IF ~hellos[p].here /\ h > local.height
                      THEN [hellos EXCEPT ![p] = [height |-> h, tip |-> <<"-", 0>>, here |-> TRUE]]
                      ELSE hellos
    /\ latch' = (latch \/ h > local.height)
    /\ gateHist' = [gateHist EXCEPT !.hellos = @ + 1]
    /\ UNCHANGED <<role, local, busy, stableAge, syncedOnce, upAge, miner>>
RemovePeer(p) ==
    /\ hellos[p].here
    /\ hellos' = [hellos EXCEPT ![p] = NoHello]
    /\ UNCHANGED <<role, local, latch, busy, stableAge, syncedOnce, upAge, miner, gateHist>>
\* The driver asks a peer that is ahead, or finds none and clears the latch.
DriverStep ==
    /\ latch \/ busy
    /\ busy' = AnyPeerAhead(local.height)
    /\ latch' = (latch /\ busy')
    /\ <<busy', latch'>> # <<busy, latch>>
    /\ UNCHANGED <<role, local, hellos, stableAge, syncedOnce, upAge, miner, gateHist>>
\* A block of the network is applied, or a longer branch replaces ours.
ApplyRemote(b) ==
    /\ local.height < MaxGateHeight
    /\ \E p \in Heard : hellos[p].height > local.height
    /\ local' = [height |-> local.height + 1, branch |-> b]
    /\ UNCHANGED <<role, hellos, latch, busy, stableAge, syncedOnce, upAge, miner, gateHist>>

(***************************************************************************)
(* The gate                                                                *)
(***************************************************************************)
\* peer_tip_conflicts_with_local
TipConflict(seen) ==
    seen.height > 0 /\ \E p \in Heard : /\ hellos[p].height = seen.height /\ hellos[p].tip[1] # "-"
                                        /\ hellos[p].tip # <<seen.branch, seen.height>>
\* Mutant: a node whose peers have all gone waits for one, however often it was in sync.
PeerlessNever(seen) == FALSE
PeerlessAllowed(seen) == role.sole /\ seen.height > 0 /\ (syncedOnce \/ upAge >= Grace)
AwaitingFirstHello(seen) == role.bootnodes /\ Heard = {} /\ ~role.bootnode /\ ~PeerlessAllowed(seen)
\* compute_ledger_sync_status_full and should_gate_auto_mine
Synced(seen) ==
    ~AwaitingFirstHello(seen) /\ ~latch /\ ~AnyPeerAhead(seen.height) /\ ~TipConflict(seen) /\ ~busy

\* Where the loop goes on: the election after the first gate, the block after the second.
AfterGate == IF miner.at = "gate1" THEN "elect" ELSE "mine"
GateRead ==
    /\ miner.at \in {"read1", "read2"}
    /\ miner' = [at |-> IF miner.at = "read1" THEN "gate1" ELSE "gate2", seen |-> local]
    /\ UNCHANGED <<role, local, hellos, latch, busy, stableAge, syncedOnce, upAge, gateHist>>
\* Mutant: a gate that finds the node out of sync leaves the window running.
KeepWindow == stableAge
CloseWindow == NoAge
Blocked ==
    /\ stableAge' = CloseWindow
    /\ miner' = [miner EXCEPT !.at = "sleep"]
    /\ gateHist' = [gateHist EXCEPT !.fail = 0]
    /\ UNCHANGED syncedOnce
Unsettled ==
    /\ stableAge' = IF stableAge = NoAge THEN 0 ELSE stableAge
    /\ miner' = [miner EXCEPT !.at = "sleep"]
    /\ syncedOnce' = TRUE
    /\ UNCHANGED gateHist
Passed ==
    /\ miner' = [miner EXCEPT !.at = AfterGate]
    /\ gateHist' = [gateHist EXCEPT !.pass = [ahead |-> AnyPeerAhead(local.height), heard |-> Heard # {},
                                              height |-> miner.seen.height, since |-> gateHist.fail]]
    /\ syncedOnce' = TRUE
    /\ UNCHANGED stableAge
\* auto_mine_blocked_by_sync under the lock.
GateDecide ==
    /\ miner.at \in {"gate1", "gate2"}
    /\ \/ ~Synced(miner.seen) /\ Blocked
       \/ Synced(miner.seen) /\ (stableAge = NoAge \/ stableAge < StableSec) /\ Unsettled
       \/ Synced(miner.seen) /\ stableAge # NoAge /\ stableAge >= StableSec /\ Passed
    /\ UNCHANGED <<role, local, hellos, latch, busy, upAge>>

(***************************************************************************)
(* The loop                                                                *)
(***************************************************************************)
Wake ==
    /\ miner.at = "sleep"
    /\ miner' = [miner EXCEPT !.at = "read1"]
    /\ UNCHANGED <<role, local, hellos, latch, busy, stableAge, syncedOnce, upAge, gateHist>>
\* Leader for the next height or not; the sole validator always is.
ElectLeader(leads) ==
    /\ miner.at = "elect" /\ (role.sole => leads)
    /\ miner' = [miner EXCEPT !.at = IF leads THEN "read2" ELSE "sleep"]
    /\ UNCHANGED <<role, local, hellos, latch, busy, stableAge, syncedOnce, upAge, gateHist>>
\* mine_pending_block_as, on whatever the tip is by now (ForkChoice and Mempool model it).
MineOne ==
    /\ miner.at = "mine" /\ local.height < MaxGateHeight
    /\ local' = [local EXCEPT !.height = @ + 1]
    /\ miner' = [miner EXCEPT !.at = "sleep"]
    /\ UNCHANGED <<role, hellos, latch, busy, stableAge, syncedOnce, upAge, gateHist>>

Older(age, cap) == IF age < cap THEN age + 1 ELSE age
GateTick ==
    /\ stableAge' = IF stableAge = NoAge THEN NoAge ELSE Older(stableAge, StableSec)
    /\ upAge' = Older(upAge, Grace)
    /\ gateHist' = [gateHist EXCEPT !.fail = Older(@, StableSec)]
    /\ <<stableAge', upAge', gateHist'>> # <<stableAge, upAge, gateHist>>
    /\ UNCHANGED <<role, local, hellos, latch, busy, syncedOnce, miner>>
GateRestart ==
    /\ gateHist.restarts < MaxGateRestarts
    /\ hellos' = [p \in GatePeer |-> NoHello] /\ latch' = FALSE /\ busy' = FALSE
    /\ stableAge' = NoAge /\ syncedOnce' = FALSE /\ upAge' = 0
    /\ miner' = [at |-> "sleep", seen |-> local]
    /\ gateHist' = [gateHist EXCEPT !.restarts = @ + 1, !.fail = 0]
    /\ UNCHANGED <<role, local>>

GateInit ==
    /\ role \in GateRoles
    /\ local \in {[height |-> h, branch |-> OwnBranch] : h \in StartHeights}
    /\ hellos = [p \in GatePeer |-> NoHello] /\ latch = FALSE /\ busy = FALSE
    /\ stableAge = NoAge /\ syncedOnce = FALSE /\ upAge = 0
    /\ miner = [at |-> "sleep", seen |-> local]
    /\ gateHist = [fail |-> 0, pass |-> NoPass, hellos |-> 0, restarts |-> 0]

MinerStep == Wake \/ GateRead \/ GateDecide \/ MineOne \/ (\E leads \in BOOLEAN : ElectLeader(leads))
GateNext ==
    \/ \E p \in GatePeer, h \in 0..MaxGateHeight :
           \/ \E b \in Branch : RecordHello(p, h, <<b, h>>)
           \/ RecordHello(p, h, <<"-", 0>>) \/ NoteBlockHeight(p, h)
    \/ \E p \in GatePeer : RemovePeer(p)
    \/ \E b \in Branch : ApplyRemote(b)
    \/ MinerStep \/ DriverStep \/ GateTick \/ GateRestart

\* The loop's timers fire and the swarm loop steps the driver every second.
GateSpec ==
    GateInit /\ [][GateNext]_gateVars /\ WF_gateVars(MinerStep) /\ WF_gateVars(DriverStep) /\ WF_gateVars(GateTick)

(***************************************************************************)
(* Properties                                                              *)
(***************************************************************************)
\* Types of the sync state and of the miner's position.
GateTypeOK ==
    /\ local \in [height : 0..MaxGateHeight, branch : Branch]
    /\ {latch, busy, syncedOnce} \subseteq BOOLEAN
    /\ stableAge \in 0..NoAge /\ upAge \in 0..Grace
    /\ miner.at \in {"sleep", "read1", "gate1", "elect", "read2", "gate2", "mine"}
    /\ \A p \in GatePeer : hellos[p].height \in 0..MaxGateHeight

\* The gate lets the miner through only if no registered peer is above the tip the node has at
\* that moment, although it compares with the tip it read before; only after StableSec without
\* a gate that found it out of sync; and with nobody heard only a node without bootnodes, a
\* bootnode, or a sole validator that has a chain (auto_mine_blocked_by_sync,
\* peerless_mining_allowed).
GateSound ==
    LET g == gateHist.pass
    IN  /\ GateTypeOK
        /\ ~g.ahead /\ g.since >= StableSec
        /\ g.heard \/ ~role.bootnodes \/ role.bootnode \/ (role.sole /\ g.height > 0)

\* "Losing every peer must not halt the chain": once its peers are gone for good, a sole
\* validator with a chain mines on (peerless_mining_allowed).
SoleProducerMines ==
    role.sole /\ local.height > 0 /\ <>[](Heard = {}) => <>(local.height = MaxGateHeight)

\* A tip conflict means two different tips: it does not hold of the code, where the height
\* gossip raises keeps the tip of the hello before it.
ConflictIsReal ==
    \A p \in Heard : hellos[p].height = local.height /\ TipConflict(local) => hellos[p].tip[2] \in {0, local.height}
================================================================================
