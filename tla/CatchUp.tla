------------------------------- MODULE CatchUp -------------------------------
(***************************************************************************)
(* How one TET node follows the chain of its peers: the hello registry,    *)
(* the catch-up driver, the block-plane loop that feeds them, and the      *)
(* apply worker that takes blocks from a bounded queue off the loop        *)
(* (tet-core/src/sync.rs, p2p.rs, apply_worker.rs).                        *)
(*                                                                         *)
(* The loop and the worker run concurrently.  A loop handler is one        *)
(* action: everything it changes is behind the one sync lock or owned by   *)
(* the loop, and the worker changes only the ledger height, the queue and  *)
(* the result channel, so a handler takes effect where it reads the        *)
(* height.  There is one chain here: a block is its height (forks are the  *)
(* business of the fork-choice model).                                     *)
(***************************************************************************)
EXTENDS Integers, Sequences, FiniteSets

CONSTANTS
    Peers,          \* the remote peers
    Honest,         \* peers that serve the blocks they claim to have
    Bootnodes,      \* peers of the configured bootnode list
    Pinned,         \* PeerIds of TET_PRODUCER_PEERS
    Relays,         \* PeerIds of TET_SYNC_TRUSTED_PEERS
    SoleValidator,  \* this node is the explicit sole validator
    BlacklistTtl,   \* TRUE unless TET_BLACKLIST_TTL_SEC is 0
    ApplyCap,       \* slots of the apply queue
    MaxBatch,       \* blocks per range request
    NoPeer, NoRequest, NoJob,   \* "None" of the three Option types
    MaxHeight,      \* bound: greatest height a peer may announce
    RequestIds,     \* bound: outstanding range requests
    MaxMessages,    \* bound: hellos and gossiped blocks received
    MaxFaults       \* bound: closed connections and honest time-outs

RESERVED_FOR_CATCH_UP == 2

ASSUME CatchUpAssumption ==
    /\ Honest \subseteq Peers /\ Bootnodes \subseteq Peers
    /\ Pinned \subseteq Peers /\ Relays \subseteq Peers
    /\ SoleValidator \in BOOLEAN /\ BlacklistTtl \in BOOLEAN
    /\ ApplyCap \in Nat /\ ApplyCap > RESERVED_FOR_CATCH_UP
    /\ MaxBatch \in Nat \ {0}
    /\ MaxHeight \in Nat /\ MaxMessages \in Nat /\ MaxFaults \in Nat
    /\ NoPeer \notin Peers

Unknown == -1       \* height of a peer the registry has no hello of
Heights == 0..MaxHeight

\* A range request in flight, a job of the apply queue, and what came of it.
Requests == [peer : Peers, from : Nat, to : Nat]
Jobs == [kind : {"gossip", "batch"}, peer : Peers,
         from : Nat, to : Nat, bad : BOOLEAN]
Outcomes == {"applied", "skipped", "gap", "rejected"}
Results == [kind : {"gossip", "batch"}, peer : Peers, height : Nat,
            applied : BOOLEAN, outcome : Outcomes]

ASSUME SentinelAssumption ==
    /\ NoRequest \notin Requests
    /\ NoJob \notin [job : Jobs, next : Nat, applied : BOOLEAN]
    /\ NoJob \notin Results

VARIABLES
    sync,       \* SyncState, with the loop's map of outstanding requests
    dead,       \* bootnodes marked dead
    answered,   \* bootnodes that ever answered a hello
    height,     \* height of the ledger
    queue,      \* the apply queue's channel
    depth,      \* its counter of jobs queued or in progress
    running,    \* the job the worker is applying, with its progress
    result,     \* the result the worker is handing over
    done,       \* the channel of results back to the loop
    messages,   \* hellos and gossiped blocks the network may still deliver
    faults      \* faults left

loopVars == <<sync, dead, answered>>
workVars == <<running, result, done>>
bounds == <<messages, faults>>
vars == <<sync, dead, answered, height, queue, depth, running, result, done, messages, faults>>

SyncStates ==
    [hello : [Peers -> Nat \cup {Unknown}],
     triggered : BOOLEAN,
     phase : Peers \cup {NoPeer},
     blacklist : SUBSET Peers,
     expired : SUBSET Peers,
     inProgress : Peers \cup {NoPeer},
     pending : [RequestIds -> Requests \cup {NoRequest}]]

-----------------------------------------------------------------------------
(* Who is listened to: SyncTrust and ProducerPeers.                        *)

Trusts(p) == (Pinned \cup Relays = {} /\ ~SoleValidator) \/ p \in Pinned \cup Relays

CheckBlockSource(p) == Pinned = {} \/ p \in Pinned

-----------------------------------------------------------------------------
(* The hello registry, as functions of a sync state s.                     *)

AnyPeerAhead(s, lh) == \E p \in Peers : s.hello[p] > lh

RecordPeerHello(s, p, h, lh) ==
    [s EXCEPT !.hello[p] = h, !.triggered = @ \/ h > lh]

\* Gossip only ever raises what a hello said, and registers an unknown peer
\* only when it is ahead.
NotePeerBlockHeight(s, p, h, lh) ==
    [s EXCEPT !.hello[p] = IF \/ @ # Unknown /\ h > @
                              \/ @ = Unknown /\ h > lh
                           THEN h ELSE @,
              !.triggered = @ \/ h > lh]

Blacklist(s, P) ==
    [s EXCEPT !.blacklist = @ \cup P, !.expired = @ \ P]

Unblacklist(s, p) ==
    [s EXCEPT !.blacklist = @ \ {p}, !.expired = @ \ {p}]

\* Peers that best_sync_peer may return; ties are broken by map order.
BestSyncPeers(s, lh) ==
    LET ahead == {p \in Peers \ s.blacklist : s.hello[p] > lh}
    IN  {p \in ahead : \A q \in ahead : s.hello[q] <= s.hello[p]}

-----------------------------------------------------------------------------
(* The catch-up driver.  Each operator yields the set of sync states its   *)
(* event may leave, with the returned action carried out                   *)
(* (run_catch_up_action).                                                  *)

\* Mutant: the latch survives the end of catch-up.
ClearOnlyMarker(s) == [s EXCEPT !.inProgress = NoPeer]

ClearCatchUpTriggered(s) == [s EXCEPT !.triggered = FALSE, !.inProgress = NoPeer]

\* Mutant: the request skips the ledger's next height.
PlanRangeSkipsOne(p, lh, ph) == [peer |-> p, from |-> lh + 2, to |-> ph]

\* plan_catch_up_range_request
PlanRange(p, lh, ph) ==
    [peer |-> p, from |-> lh + 1,
     to |-> IF ph < lh + MaxBatch THEN ph ELSE lh + MaxBatch]

FreeIds(s) == {i \in RequestIds : s.pending[i] = NoRequest}

SendRangeRequest(s, p, lh) ==
    LET i == CHOOSE j \in FreeIds(s) : TRUE
    IN  [s EXCEPT !.phase = p, !.inProgress = p,
                  !.pending[i] = PlanRange(p, lh, s.hello[p])]

\* Mutant: blacklist entries are never dropped.
PruneNothing(s) == s

\* active_blacklist drops the entries older than the TTL.
Prune(s) == [s EXCEPT !.blacklist = @ \ s.expired, !.expired = {}]

\* Mutant: with every peer ahead blacklisted, catch-up is called finished.
StartRequestGivesUp(s, lh) ==
    LET t == Prune(s)
    IN  IF BestSyncPeers(t, lh) # {}
        THEN {SendRangeRequest(t, p, lh) :
                 p \in {q \in BestSyncPeers(t, lh) : FreeIds(t) # {}}}
        ELSE {ClearCatchUpTriggered(t)}

StartRequest(s, lh) ==
    LET t == Prune(s)
    IN  IF BestSyncPeers(t, lh) # {}
        THEN {SendRangeRequest(t, p, lh) :
                 p \in {q \in BestSyncPeers(t, lh) : FreeIds(t) # {}}}
        ELSE {IF AnyPeerAhead(t, lh) THEN t ELSE ClearCatchUpTriggered(t)}

TryContinue(s, lh) ==
    IF ~AnyPeerAhead(s, lh) THEN {ClearCatchUpTriggered(s)}
    ELSE IF s.phase = NoPeer THEN StartRequest(s, lh)
    ELSE {s}

\* Event Triggered, behind catch_up_trigger_action's test.
TryStartCatchUp(s, lh) ==
    IF s.phase # NoPeer \/ ~s.triggered THEN {s} ELSE TryContinue(s, lh)

\* Mutant: the phase outlives the request.
GoIdleForgotten(s, p) == s

\* The driver goes idle if p is the peer it waits for.
GoIdle(s, p) == [s EXCEPT !.phase = IF @ = p THEN NoPeer ELSE @]

RangeFailed(s, p, lh) == TryContinue(Blacklist(GoIdle(s, p), {p}), lh)

PeerRemoved(s, p, lh) ==
    IF s.phase = p THEN TryContinue(GoIdle(s, p), lh) ELSE {s}

BatchApplied(s, p, applied, failed, lh) ==
    IF s.phase # p THEN {s}
    ELSE IF failed \/ ~applied
         THEN TryContinue(Blacklist(GoIdle(s, p), {p}), lh)
         ELSE TryContinue(GoIdle(s, p), lh)

\* run_bootnode_recovery_fallback
RecoveryFallback(s, lh) ==
    TryStartCatchUp(
        [s EXCEPT !.triggered = \/ @
                                \/ \A p \in Peers : s.hello[p] = Unknown
                                \/ AnyPeerAhead(s, lh)], lh)

\* Mutant: the marker outlives the request.
KeepInProgress(s) == s

ClearInProgress(s) == [s EXCEPT !.inProgress = NoPeer]
Resolve(s, i) == [s EXCEPT !.pending[i] = NoRequest]

-----------------------------------------------------------------------------
(* The apply queue.                                                        *)

\* enqueue reserves a slot in the counter, then uses the channel.
Accepts(limit) == depth < limit /\ Len(queue) < ApplyCap

Enqueue(job) == queue' = Append(queue, job) /\ depth' = depth + 1

\* Mutant: gossip may use every slot.
OfferAnySlot(job) ==
    IF Accepts(ApplyCap) THEN Enqueue(job) ELSE UNCHANGED <<queue, depth>>

OfferDroppable(job) ==
    IF Accepts(ApplyCap - RESERVED_FOR_CATCH_UP)
    THEN Enqueue(job)
    ELSE UNCHANGED <<queue, depth>>

-----------------------------------------------------------------------------
(* Handlers of the block-plane loop.                                       *)

\* The one-second tick.
Tick ==
    /\ sync' \in TryStartCatchUp(sync, height)
    /\ UNCHANGED <<dead, answered, height, queue, depth, workVars, bounds>>

\* The tick finds bootnodes that never answered the hello sent to them.
HelloTimeout(D) ==
    /\ D # {} /\ D \subseteq Bootnodes \ (dead \cup answered)
    /\ dead' = dead \cup D
    /\ sync' \in RecoveryFallback(Blacklist(sync, D), height)
    /\ UNCHANGED <<answered, height, queue, depth, workVars, bounds>>

\* A hello, request or response, of peer p at height h.
ChainHello(p, h) ==
    /\ messages > 0 /\ messages' = messages - 1
    /\ answered' = IF p \in Bootnodes THEN answered \cup {p} ELSE answered
    /\ dead' = dead \ {p}
    /\ LET s1 == IF Trusts(p) THEN RecordPeerHello(sync, p, h, height) ELSE sync
           s2 == IF p \in Bootnodes THEN Unblacklist(s1, p) ELSE s1
       IN  sync' \in TryStartCatchUp(s2, height)
    /\ UNCHANGED <<height, queue, depth, workVars, faults>>

\* A gossiped block of height h published by p.  It is queued unless its
\* parent is missing; the parent of a block far ahead may have been recorded
\* as a backfill candidate.
GossipBlock(p, h, bad) ==
    /\ messages > 0 /\ messages' = messages - 1
    /\ CheckBlockSource(p)
    /\ LET s1 == NotePeerBlockHeight(sync, p, h, height)
       IN  IF h > height THEN sync' \in TryStartCatchUp(s1, height) ELSE sync' = s1
    /\ \/ OfferDroppable([kind |-> "gossip", peer |-> p, from |-> h, to |-> h, bad |-> bad])
       \/ h > height + 1 /\ UNCHANGED <<queue, depth>>
    /\ UNCHANGED <<dead, answered, height, workVars, faults>>

\* The response to range request i: blocks from..to, none if from > to, the
\* last one invalid if bad.
RangeResponse(i, from, to, bad) ==
    LET p == sync.pending[i].peer
        s == Resolve(sync, i)
        batch == [kind |-> "batch", peer |-> p, from |-> from, to |-> to, bad |-> bad]
    IN  /\ sync.pending[i] # NoRequest
        /\ p \in Honest =>
              from = sync.pending[i].from /\ to \in from..sync.pending[i].to /\ ~bad
        /\ IF from > to \/ ~Trusts(p)
           THEN /\ sync' \in RangeFailed(ClearInProgress(s), p, height)
                /\ UNCHANGED <<queue, depth>>
           ELSE IF Accepts(ApplyCap)
           THEN sync' = s /\ Enqueue(batch)
           ELSE /\ sync' = GoIdle(ClearInProgress(s), p)   \* LocalBackpressure
                /\ UNCHANGED <<queue, depth>>
        /\ UNCHANGED <<dead, answered, height, workVars, bounds>>

\* Range request i failed: time-out, closed connection, protocol error.
OutboundFailure(i) ==
    LET p == sync.pending[i].peer
    IN  /\ sync.pending[i] # NoRequest
        /\ IF p \in Honest THEN faults > 0 /\ faults' = faults - 1
                           ELSE UNCHANGED faults
        /\ sync' \in RangeFailed(ClearInProgress(Resolve(sync, i)), p, height)
        /\ UNCHANGED <<dead, answered, height, queue, depth, workVars, messages>>

\* Mutant: any peer, not only a bootnode, is marked dead.
ConnectionClosedMarksAll(p) ==
    /\ faults > 0 /\ faults' = faults - 1
    /\ \E s \in RecoveryFallback(Blacklist(sync, {p}), height) :
          sync' \in PeerRemoved([s EXCEPT !.hello[p] = Unknown], p, height)
    /\ dead' = dead \cup {p}
    /\ UNCHANGED <<answered, height, queue, depth, workVars, messages>>

\* A connection to p closed (perhaps not the only one: its requests may
\* still be answered).
ConnectionClosed(p) ==
    /\ faults > 0 /\ faults' = faults - 1
    /\ \E s \in IF p \in Bootnodes \ dead
                THEN RecoveryFallback(Blacklist(sync, {p}), height) ELSE {sync} :
          sync' \in PeerRemoved([s EXCEPT !.hello[p] = Unknown], p, height)
    /\ dead' = dead \cup ({p} \cap Bootnodes)
    /\ UNCHANGED <<answered, height, queue, depth, workVars, messages>>

\* The loop takes a result of the apply worker.
ApplyDone ==
    LET r == Head(done)
        note == NotePeerBlockHeight(sync, r.peer, r.height, height)
    IN  /\ done # <<>>
        /\ done' = Tail(done)
        /\ IF r.kind = "batch"
           THEN sync' \in BatchApplied(ClearInProgress(sync), r.peer, r.applied,
                                       r.outcome \in {"gap", "rejected"}, height)
           ELSE IF r.outcome = "gap" \/ (r.outcome = "skipped" /\ r.height > height)
           THEN sync' \in TryStartCatchUp(note, height)
           ELSE UNCHANGED sync
        /\ UNCHANGED <<dead, answered, height, queue, depth, running, result, bounds>>

-----------------------------------------------------------------------------
(* The apply worker.                                                       *)

WorkerTake ==
    /\ running = NoJob /\ result = NoJob /\ queue # <<>>
    /\ queue' = Tail(queue)
    /\ running' = [job |-> Head(queue), next |-> Head(queue).from, applied |-> FALSE]
    /\ UNCHANGED <<loopVars, height, depth, result, done, bounds>>

\* What applying the block at height h comes to, at ledger height lh
\* (apply_remote_block_from_gossip on a single chain).
Outcome(h, bad, lh) ==
    CASE h > lh + 1 -> "gap"
      [] h <= lh    -> "skipped"
      [] OTHER      -> IF bad THEN "rejected" ELSE "applied"

\* One block: a batch goes on to the next one unless the block failed.
WorkerApply ==
    LET job == running.job
        h == running.next
        o == Outcome(h, job.bad /\ h = job.to, height)
        applied == running.applied \/ o = "applied"
        last == h = job.to \/ o \in {"gap", "rejected"}
    IN  /\ running # NoJob
        /\ height' = IF o = "applied" THEN h ELSE height
        /\ IF last
           THEN /\ running' = NoJob
                /\ depth' = depth - 1
                /\ result' = [kind |-> job.kind, peer |-> job.peer, height |-> h,
                              applied |-> applied, outcome |-> o]
           ELSE /\ running' = [running EXCEPT !.next = h + 1, !.applied = applied]
                /\ UNCHANGED <<depth, result>>
        /\ UNCHANGED <<loopVars, queue, done, bounds>>

\* The worker waits for room in the result channel.
WorkerSend ==
    /\ result # NoJob /\ Len(done) < ApplyCap
    /\ done' = Append(done, result)
    /\ result' = NoJob
    /\ UNCHANGED <<loopVars, height, queue, depth, running, bounds>>

\* A blacklist entry outlives its TTL; the next request drops it.
BlacklistExpires(p) ==
    /\ BlacklistTtl /\ p \in sync.blacklist \ sync.expired
    /\ sync' = [sync EXCEPT !.expired = @ \cup {p}]
    /\ UNCHANGED <<dead, answered, height, queue, depth, workVars, bounds>>

-----------------------------------------------------------------------------

Init ==
    /\ sync = [hello |-> [p \in Peers |-> Unknown], triggered |-> FALSE,
               phase |-> NoPeer, blacklist |-> {}, expired |-> {},
               inProgress |-> NoPeer, pending |-> [i \in RequestIds |-> NoRequest]]
    /\ dead = {} /\ answered = {}
    /\ height = 0
    /\ queue = <<>> /\ depth = 0
    /\ running = NoJob /\ result = NoJob /\ done = <<>>
    /\ messages = MaxMessages /\ faults = MaxFaults

RangeAnswer(i) ==
    \E from \in Heights \ {0}, to \in Heights, bad \in BOOLEAN :
        RangeResponse(i, from, to, bad)

Environment ==
    \/ \E D \in SUBSET Bootnodes : HelloTimeout(D)
    \/ \E p \in Peers, h \in Heights : ChainHello(p, h)
    \/ \E p \in Peers, h \in Heights \ {0}, bad \in BOOLEAN :
          (p \in Honest => ~bad) /\ GossipBlock(p, h, bad)
    \/ \E p \in Peers : ConnectionClosed(p)

Next ==
    \/ Environment
    \/ Tick \/ ApplyDone
    \/ \E i \in RequestIds : RangeAnswer(i) \/ OutboundFailure(i)
    \/ \E p \in Peers : BlacklistExpires(p)
    \/ WorkerTake \/ WorkerApply \/ WorkerSend

Spec == Init /\ [][Next]_vars

\* The runtime schedules the loop and the worker, libp2p resolves every
\* request (its time-out is finite), and time passes.
Fairness ==
    /\ WF_vars(Tick) /\ WF_vars(ApplyDone)
    /\ \A i \in RequestIds : WF_vars(RangeAnswer(i) \/ OutboundFailure(i))
    /\ \A p \in Peers : WF_vars(BlacklistExpires(p))
    /\ WF_vars(WorkerTake) /\ WF_vars(WorkerApply) /\ WF_vars(WorkerSend)

FairSpec == Spec /\ Fairness

-----------------------------------------------------------------------------
(* Properties.                                                             *)

\* Types of the loop's, the worker's and the channels' state; in particular
\* the slot counter, a usize in apply_worker.rs, never underflows.
TypeOK ==
    /\ sync \in SyncStates
    /\ dead \subseteq Bootnodes /\ answered \subseteq Bootnodes
    /\ height \in Nat /\ depth \in Nat /\ messages \in Nat /\ faults \in Nat
    /\ queue \in Seq(Jobs)
    /\ running \in [job : Jobs, next : Nat, applied : BOOLEAN] \cup {NoJob}
    /\ result \in Results \cup {NoJob}
    /\ done \in Seq(Results)

\* No wake-up is lost: while some registered peer is ahead of the ledger the
\* catch-up latch is set, so the tick keeps the driver busy and the miner
\* stays gated (catch_up_triggered in sync.rs).
AheadImpliesTriggered == AnyPeerAhead(sync, height) => sync.triggered

\* Work in flight on behalf of p: a request, a queued or running batch, or a
\* batch result on its way back to the loop.
BatchOf(p, job) == job.kind = "batch" /\ job.peer = p

Outstanding(p) ==
    \/ \E i \in RequestIds : sync.pending[i] # NoRequest /\ sync.pending[i].peer = p
    \/ \E k \in DOMAIN queue : BatchOf(p, queue[k])
    \/ running # NoJob /\ BatchOf(p, running.job)
    \/ result # NoJob /\ BatchOf(p, result)
    \/ \E k \in DOMAIN done : BatchOf(p, done[k])

\* The driver never waits for nothing: in Requesting{p} some work of p is
\* still outstanding whose end will move it on (no path through
\* backpressure, removal or failure leaves the phase behind).
RequestingHasWork == sync.phase # NoPeer => Outstanding(sync.phase)

\* The in-progress marker that gates the miner is never a leftover: the work
\* it stands for is outstanding, and its end clears the marker.
InProgressHasWork == sync.inProgress # NoPeer => Outstanding(sync.inProgress)

\* Neither the driver's phase nor the miner's marker waits for nothing.
WaitsForWork == RequestingHasWork /\ InProgressHasWork

\* The apply queue's counter is exact, so slots never leak, and gossip can
\* never occupy the slots reserved for catch-up.
SlotsAccounted ==
    /\ depth = Len(queue) + (IF running = NoJob THEN 0 ELSE 1)
    /\ depth <= ApplyCap
    /\ Cardinality({k \in DOMAIN queue : queue[k].kind = "gossip"})
         + (IF running # NoJob /\ running.job.kind = "gossip" THEN 1 ELSE 0)
       <= ApplyCap - RESERVED_FOR_CATCH_UP

\* A batch of an honest peer never fails to apply: however stale the height
\* its request was planned from, and whatever gossip applied meanwhile, it
\* starts at or below the ledger's next height and has no gap.
HonestBatchNeverFails ==
    \A k \in DOMAIN done :
        done[k].kind = "batch" /\ done[k].peer \in Honest =>
            done[k].outcome \in {"applied", "skipped"}

\* The types, and what the queue and the worker owe the driver: exact slots
\* for every batch it offers, and no failure it could blame an honest peer for.
BatchesSound == TypeOK /\ SlotsAccounted /\ HonestBatchNeverFails

\* The node reaches every height an honest trusted peer announces, whatever
\* faulty peers claim or serve.
CatchesUp ==
    <>[](\A p \in Honest : Trusts(p) => sync.hello[p] <= height)

\* The sync part of the auto-mine gate.
GateOpen == ~sync.triggered /\ sync.phase = NoPeer /\ sync.inProgress = NoPeer

\* Once no registered peer is ahead, the miner's gate opens again: neither
\* the latch nor the phase nor the in-progress marker stays behind.
GateReopens == <>[](\A p \in Peers : sync.hello[p] <= height) => []<>GateOpen
=============================================================================
