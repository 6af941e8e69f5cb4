---------------------------- MODULE CatchUpProofs ----------------------------
(***************************************************************************)
(* Proofs about CatchUp, for every set of peers, queue capacity and bound. *)
(* Every driver event ends in a sync state that Evolves from the one it    *)
(* was handed; the invariants of the whole node follow action by action.   *)
(***************************************************************************)
EXTENDS CatchUp, FiniteSetTheorems, TLAPS

PendingOf(s, p) ==
    \E i \in RequestIds : s.pending[i] # NoRequest /\ s.pending[i].peer = p

Latch(s, lh) == AnyPeerAhead(s, lh) => s.triggered

\* No request asks beyond the ledger's next height.
Planned(s, lh) ==
    \A i \in RequestIds : s.pending[i] # NoRequest => s.pending[i].from <= lh + 1

\* What the driver may do to a sync state between two events of the loop.
Evolves(s, t, lh) ==
    /\ t \in SyncStates
    /\ t.hello = s.hello
    /\ Latch(s, lh) => Latch(t, lh)
    /\ Planned(s, lh) => Planned(t, lh)
    /\ \A i \in RequestIds : s.pending[i] # NoRequest => t.pending[i] = s.pending[i]
    /\ t.phase = s.phase \/ PendingOf(t, t.phase)
    /\ t.inProgress = s.inProgress \/ t.inProgress = NoPeer \/ PendingOf(t, t.inProgress)

-----------------------------------------------------------------------------

\* The request sent by run_catch_up_action takes a free id and becomes the
\* work the driver waits for.
LEMMA SendEvolves ==
    ASSUME NEW s \in SyncStates, NEW lh \in Nat, NEW p \in Peers,
           s.hello[p] > lh, FreeIds(s) # {}
    PROVE  Evolves(s, SendRangeRequest(s, p, lh), lh)
<1> DEFINE i == CHOOSE j \in FreeIds(s) : TRUE
           t == SendRangeRequest(s, p, lh)
           r == PlanRange(p, lh, s.hello[p])
<1>1. i \in FreeIds(s)
  OBVIOUS
<1>2. i \in RequestIds /\ s.pending[i] = NoRequest
  BY <1>1 DEF FreeIds
<1>3. s.hello[p] \in Nat
  BY DEF SyncStates, Unknown
<1>4. r \in Requests /\ r.peer = p /\ r.from = lh + 1
  BY <1>3, CatchUpAssumption DEF PlanRange, Requests
<1>5. r # NoRequest
  BY <1>4, SentinelAssumption
<1>6. t = [s EXCEPT !.phase = p, !.inProgress = p, !.pending[i] = r]
  BY DEF SendRangeRequest
<1> HIDE DEF i, r, t
<1>7. t \in SyncStates
  BY <1>2, <1>4, <1>6 DEF SyncStates
<1>8. /\ t.hello = s.hello /\ t.triggered = s.triggered
      /\ t.phase = p /\ t.inProgress = p
      /\ t.pending = [s.pending EXCEPT ![i] = r]
  BY <1>6 DEF SyncStates
<1>9. PendingOf(t, p)
  BY <1>2, <1>4, <1>5, <1>8 DEF PendingOf, SyncStates
<1>10. \A j \in RequestIds : s.pending[j] # NoRequest => t.pending[j] = s.pending[j]
  BY <1>2, <1>8 DEF SyncStates
<1>11. Latch(s, lh) => Latch(t, lh)
  BY <1>8 DEF Latch, AnyPeerAhead
<1>12. Planned(s, lh) => Planned(t, lh)
  BY <1>2, <1>4, <1>8 DEF Planned, SyncStates
<1>13. Evolves(s, t, lh)
  BY <1>7, <1>8, <1>9, <1>10, <1>11, <1>12 DEF Evolves
<1> QED
  BY <1>13 DEF t

\* Evolving is preserved by a first step that keeps hello, latch, requests,
\* phase and marker.
LEMMA EvolvesFrom ==
    ASSUME NEW s \in SyncStates, NEW u \in SyncStates, NEW t, NEW lh \in Nat,
           u.hello = s.hello, u.triggered = s.triggered, u.pending = s.pending,
           u.phase = s.phase, u.inProgress = s.inProgress,
           Evolves(u, t, lh)
    PROVE  Evolves(s, t, lh)
BY DEF Evolves, Latch, AnyPeerAhead, Planned

\* Doing nothing is an evolution.
LEMMA EvolvesRefl ==
    ASSUME NEW s \in SyncStates, NEW lh \in Nat
    PROVE  Evolves(s, s, lh)
BY DEF Evolves

\* The latch is cleared only when nobody is ahead.
LEMMA ClearEvolves ==
    ASSUME NEW s \in SyncStates, NEW lh \in Nat, ~AnyPeerAhead(s, lh)
    PROVE  Evolves(s, ClearCatchUpTriggered(s), lh)
<1> DEFINE t == ClearCatchUpTriggered(s)
<1>1. /\ t \in SyncStates /\ t.hello = s.hello /\ t.pending = s.pending
      /\ t.phase = s.phase /\ t.inProgress = NoPeer
  BY DEF ClearCatchUpTriggered, SyncStates
<1>2. ~AnyPeerAhead(t, lh)
  BY <1>1 DEF AnyPeerAhead
<1> QED
  BY <1>1, <1>2 DEF Evolves, Latch, Planned

\* start_request prunes the blacklist, then sends, waits or clears.
LEMMA StartEvolves ==
    ASSUME NEW s \in SyncStates, NEW lh \in Nat, NEW t \in StartRequest(s, lh)
    PROVE  Evolves(s, t, lh)
<1> DEFINE u == Prune(s)
<1>1. /\ u \in SyncStates /\ u.hello = s.hello /\ u.triggered = s.triggered
      /\ u.pending = s.pending /\ u.phase = s.phase /\ u.inProgress = s.inProgress
  BY DEF Prune, SyncStates
<1>2. Evolves(u, t, lh)
  <2>1. CASE BestSyncPeers(u, lh) # {}
    <3>1. PICK p \in {q \in BestSyncPeers(u, lh) : FreeIds(u) # {}} :
             t = SendRangeRequest(u, p, lh)
      BY <2>1 DEF StartRequest
    <3>2. p \in Peers /\ u.hello[p] > lh /\ FreeIds(u) # {}
      BY <3>1 DEF BestSyncPeers
    <3> QED
      BY <1>1, <3>1, <3>2, SendEvolves
  <2>2. CASE BestSyncPeers(u, lh) = {}
    <3>1. t = IF AnyPeerAhead(u, lh) THEN u ELSE ClearCatchUpTriggered(u)
      BY <2>2 DEF StartRequest
    <3> QED
      BY <1>1, <3>1, EvolvesRefl, ClearEvolves
  <2> QED
    BY <2>1, <2>2
<1> QED
  BY <1>1, <1>2, EvolvesFrom

\* try_continue either clears a latch nobody needs or sends a request.
LEMMA ContinueEvolves ==
    ASSUME NEW s \in SyncStates, NEW lh \in Nat, NEW t \in TryContinue(s, lh)
    PROVE  Evolves(s, t, lh)
<1>1. CASE ~AnyPeerAhead(s, lh)
  BY <1>1, ClearEvolves DEF TryContinue
<1>2. CASE AnyPeerAhead(s, lh) /\ s.phase = NoPeer
  <2>1. t \in StartRequest(s, lh)
    BY <1>2 DEF TryContinue
  <2> QED
    BY <2>1, StartEvolves
<1>3. CASE AnyPeerAhead(s, lh) /\ s.phase # NoPeer
  BY <1>3, EvolvesRefl DEF TryContinue
<1> QED
  BY <1>1, <1>2, <1>3

\* try_start_catch_up does nothing, or what try_continue does.
LEMMA TryStartEvolves ==
    ASSUME NEW s \in SyncStates, NEW lh \in Nat, NEW t \in TryStartCatchUp(s, lh)
    PROVE  Evolves(s, t, lh)
<1>1. CASE s.phase # NoPeer \/ ~s.triggered
  BY <1>1, EvolvesRefl DEF TryStartCatchUp
<1>2. CASE ~(s.phase # NoPeer \/ ~s.triggered)
  <2>1. t \in TryContinue(s, lh)
    BY <1>2 DEF TryStartCatchUp
  <2> QED
    BY <2>1, ContinueEvolves
<1> QED
  BY <1>1, <1>2

\* Events whose first act is to send the driver idle if it waits for p.
LEMMA RangeFailedEvolves ==
    ASSUME NEW s \in SyncStates, NEW lh \in Nat, NEW p \in Peers,
           NEW t \in RangeFailed(s, p, lh)
    PROVE  /\ GoIdle(s, p) \in SyncStates
           /\ Evolves(GoIdle(s, p), t, lh)
<1> DEFINE g == GoIdle(s, p)
           u == Blacklist(g, {p})
<1>1. g \in SyncStates
  BY DEF GoIdle, SyncStates
<1>2. /\ u \in SyncStates /\ u.hello = g.hello /\ u.triggered = g.triggered
      /\ u.pending = g.pending /\ u.phase = g.phase /\ u.inProgress = g.inProgress
  <2> HIDE DEF g
  <2> QED BY <1>1 DEF Blacklist, SyncStates
<1>3. Evolves(u, t, lh)
  BY <1>2, ContinueEvolves DEF RangeFailed
<1> QED
  BY <1>1, <1>2, <1>3, EvolvesFrom

\* PeerRemoved goes idle if it was that peer's turn, then goes on from there.
LEMMA PeerRemovedEvolves ==
    ASSUME NEW s \in SyncStates, NEW lh \in Nat, NEW p \in Peers,
           NEW t \in PeerRemoved(s, p, lh)
    PROVE  /\ GoIdle(s, p) \in SyncStates
           /\ Evolves(GoIdle(s, p), t, lh)
<1>1. GoIdle(s, p) \in SyncStates
  BY DEF GoIdle, SyncStates
<1>2. CASE s.phase = p
  BY <1>1, <1>2, ContinueEvolves DEF PeerRemoved
<1>3. CASE s.phase # p
  <2>1. GoIdle(s, p) = s
    BY <1>3 DEF GoIdle, SyncStates
  <2> QED
    BY <1>3, <2>1, EvolvesRefl DEF PeerRemoved
<1> QED
  BY <1>1, <1>2, <1>3

\* BatchApplied goes idle if the driver waited for this peer, blames it if it
\* applied nothing or failed, then goes on from there.
LEMMA BatchAppliedEvolves ==
    ASSUME NEW s \in SyncStates, NEW lh \in Nat, NEW p \in Peers,
           NEW applied \in BOOLEAN, NEW failed \in BOOLEAN,
           NEW t \in BatchApplied(s, p, applied, failed, lh)
    PROVE  /\ GoIdle(s, p) \in SyncStates
           /\ Evolves(GoIdle(s, p), t, lh)
<1>1. GoIdle(s, p) \in SyncStates
  BY DEF GoIdle, SyncStates
<1>2. CASE s.phase # p
  <2>1. GoIdle(s, p) = s
    BY <1>2 DEF GoIdle, SyncStates
  <2> QED
    BY <1>2, <2>1, EvolvesRefl DEF BatchApplied
<1>3. CASE s.phase = p /\ (failed \/ ~applied)
  <2>1. t \in RangeFailed(s, p, lh)
    BY <1>3 DEF BatchApplied, RangeFailed
  <2> QED
    BY <2>1, RangeFailedEvolves
<1>4. CASE s.phase = p /\ ~(failed \/ ~applied)
  BY <1>1, <1>4, ContinueEvolves DEF BatchApplied
<1> QED
  BY <1>1, <1>2, <1>3, <1>4

\* The recovery fallback sets the latch when somebody is ahead, then starts.
LEMMA FallbackEvolves ==
    ASSUME NEW s \in SyncStates, NEW lh \in Nat, NEW t \in RecoveryFallback(s, lh)
    PROVE  Evolves(s, t, lh)
<1> DEFINE u == [s EXCEPT !.triggered = \/ @
                                        \/ \A p \in Peers : s.hello[p] = Unknown
                                        \/ AnyPeerAhead(s, lh)]
<1>1. /\ u \in SyncStates /\ u.hello = s.hello /\ u.pending = s.pending
      /\ u.phase = s.phase /\ u.inProgress = s.inProgress
      /\ s.triggered => u.triggered
  BY DEF SyncStates
<1>2. Evolves(u, t, lh)
  BY <1>1, TryStartEvolves DEF RecoveryFallback
<1> QED
  BY <1>1, <1>2 DEF Evolves, Latch, AnyPeerAhead, Planned

-----------------------------------------------------------------------------
(* The invariants of the node.                                             *)

\* Work of p that has left the wire.
Busy(p) ==
    \/ \E k \in DOMAIN queue : BatchOf(p, queue[k])
    \/ running # NoJob /\ BatchOf(p, running.job)
    \/ result # NoJob /\ BatchOf(p, result)
    \/ \E k \in DOMAIN done : BatchOf(p, done[k])

IInv ==
    /\ TypeOK
    /\ AheadImpliesTriggered
    /\ RequestingHasWork
    /\ InProgressHasWork

\* Outstanding work is a pending request, or something the worker's side holds.
LEMMA OutstandingParts == \A p : Outstanding(p) <=> PendingOf(sync, p) \/ Busy(p)
BY DEF Outstanding, PendingOf, Busy

\* A handler keeps the invariants if it hands the driver a state s that is
\* latched and whose phase and marker stand for work that is still there.
LEMMA HandlerStep ==
    ASSUME NEW s \in SyncStates, height \in Nat, height' = height,
           Evolves(s, sync', height), Latch(s, height),
           s.phase # NoPeer => PendingOf(s, s.phase) \/ Busy(s.phase)',
           s.inProgress # NoPeer => PendingOf(s, s.inProgress) \/ Busy(s.inProgress)'
    PROVE  AheadImpliesTriggered' /\ RequestingHasWork' /\ InProgressHasWork'
<1>1. \A p : PendingOf(s, p) => PendingOf(sync', p)
  BY DEF Evolves, PendingOf
<1>2. \A p : Outstanding(p)' <=> PendingOf(sync', p) \/ Busy(p)'
  BY DEF Outstanding, PendingOf, Busy
<1>3. AheadImpliesTriggered'
  BY DEF Evolves, Latch, AheadImpliesTriggered, AnyPeerAhead
<1>4. RequestingHasWork'
  BY <1>1, <1>2 DEF Evolves, RequestingHasWork
<1>5. InProgressHasWork'
  BY <1>1, <1>2 DEF Evolves, InProgressHasWork
<1> QED
  BY <1>3, <1>4, <1>5

\* Appending to the queue loses no work.
LEMMA EnqueueKeeps ==
    ASSUME TypeOK, NEW job \in Jobs, queue' = Append(queue, job), UNCHANGED workVars
    PROVE  /\ \A p : Busy(p) => Busy(p)'
           /\ BatchOf(job.peer, job) => Busy(job.peer)'
<1>1. /\ queue' \in Seq(Jobs) /\ Len(queue') = Len(queue) + 1
      /\ \A k \in 1..Len(queue) : queue'[k] = queue[k]
      /\ queue'[Len(queue) + 1] = job
  BY DEF TypeOK
<1>2. DOMAIN queue = 1..Len(queue) /\ DOMAIN queue' = 1..(Len(queue) + 1)
      /\ Len(queue) \in Nat
  BY <1>1 DEF TypeOK
<1> QED
  BY <1>1, <1>2 DEF Busy, workVars

\* The worker's side holds the same work while queue, worker and results stay.
LEMMA BusyUnchanged ==
    ASSUME UNCHANGED <<queue, workVars>>
    PROVE  \A p : Busy(p) <=> Busy(p)'
BY DEF Busy, workVars

\* Resolving request i takes away work of its peer only.
LEMMA ResolveKeeps ==
    ASSUME NEW s \in SyncStates, NEW i \in RequestIds, s.pending[i] # NoRequest
    PROVE  LET p == s.pending[i].peer
               t == Resolve(s, i)
           IN  /\ p \in Peers
               /\ t \in SyncStates
               /\ t.hello = s.hello /\ t.triggered = s.triggered
               /\ t.phase = s.phase /\ t.inProgress = s.inProgress
               /\ \A q : q # p /\ PendingOf(s, q) => PendingOf(t, q)
<1> DEFINE p == s.pending[i].peer
           t == Resolve(s, i)
<1>1. p \in Peers
  BY DEF SyncStates, Requests
<1>2. /\ t \in SyncStates
      /\ t.hello = s.hello /\ t.triggered = s.triggered
      /\ t.phase = s.phase /\ t.inProgress = s.inProgress
      /\ t.pending = [s.pending EXCEPT ![i] = NoRequest]
  BY DEF Resolve, SyncStates
<1>3. \A q : q # p /\ PendingOf(s, q) => PendingOf(t, q)
  <2> HIDE DEF t
  <2> QED BY <1>2 DEF PendingOf, SyncStates
<1> QED
  BY <1>1, <1>2, <1>3

\* Sending the driver idle for p after clearing the marker.
LEMMA IdleFacts ==
    ASSUME NEW s \in SyncStates, NEW p \in Peers
    PROVE  LET g == GoIdle(ClearInProgress(s), p)
           IN  /\ ClearInProgress(s) \in SyncStates /\ g \in SyncStates
               /\ g.hello = s.hello /\ g.triggered = s.triggered
               /\ g.pending = s.pending /\ g.inProgress = NoPeer
               /\ g.phase # NoPeer => g.phase = s.phase /\ g.phase # p
BY CatchUpAssumption DEF GoIdle, ClearInProgress, SyncStates

-----------------------------------------------------------------------------
(* One lemma per action.                                                   *)

\* The tick only lets the driver start (p2p.rs, catch-up tick).
LEMMA TickInv == IInv /\ Tick => IInv'
<1> SUFFICES ASSUME IInv, Tick PROVE IInv'
  OBVIOUS
<1>1. Evolves(sync, sync', height)
  BY TryStartEvolves DEF IInv, TypeOK, Tick
<1>2. TypeOK'
  BY <1>1 DEF IInv, TypeOK, Tick, Evolves, workVars, bounds
<1>3. \A p : Busy(p) <=> Busy(p)'
  BY BusyUnchanged DEF Tick
<1>4. AheadImpliesTriggered' /\ RequestingHasWork' /\ InProgressHasWork'
  BY <1>1, <1>3, HandlerStep, OutstandingParts
  DEF IInv, TypeOK, Tick, AheadImpliesTriggered, RequestingHasWork, InProgressHasWork, Latch
<1> QED
  BY <1>2, <1>4 DEF IInv

\* Declaring bootnodes dead blacklists them and runs the fallback in one step.
LEMMA HelloTimeoutInv ==
    ASSUME IInv, NEW D \in SUBSET Bootnodes, HelloTimeout(D)
    PROVE  IInv'
<1> DEFINE s == Blacklist(sync, D)
<1>1. /\ s \in SyncStates /\ s.hello = sync.hello /\ s.triggered = sync.triggered
      /\ s.pending = sync.pending /\ s.phase = sync.phase
      /\ s.inProgress = sync.inProgress
  BY CatchUpAssumption DEF IInv, TypeOK, Blacklist, SyncStates
<1>2. Evolves(sync, sync', height)
  <2> HIDE DEF s
  <2>1. Evolves(s, sync', height)
    BY <1>1, FallbackEvolves DEF s, IInv, TypeOK, HelloTimeout
  <2> QED
    BY <1>1, <2>1, EvolvesFrom DEF IInv, TypeOK
<1>3. TypeOK'
  BY <1>2 DEF IInv, TypeOK, HelloTimeout, Evolves, workVars, bounds
<1>4. \A p : Busy(p) <=> Busy(p)'
  BY BusyUnchanged DEF HelloTimeout
<1>5. AheadImpliesTriggered' /\ RequestingHasWork' /\ InProgressHasWork'
  BY <1>2, <1>4, HandlerStep, OutstandingParts
  DEF IInv, TypeOK, HelloTimeout, AheadImpliesTriggered, RequestingHasWork,
      InProgressHasWork, Latch
<1> QED
  BY <1>3, <1>5 DEF IInv

\* Recording a height keeps the latch, whoever reports it.
LEMMA RecordFacts ==
    ASSUME NEW s \in SyncStates, NEW p \in Peers, NEW h \in Nat, NEW lh \in Nat,
           Latch(s, lh), NEW t \in {RecordPeerHello(s, p, h, lh),
                                   NotePeerBlockHeight(s, p, h, lh), s}
    PROVE  /\ t \in SyncStates /\ Latch(t, lh)
           /\ t.pending = s.pending /\ t.phase = s.phase /\ t.inProgress = s.inProgress
<1>1. /\ t \in SyncStates
      /\ t.pending = s.pending /\ t.phase = s.phase /\ t.inProgress = s.inProgress
      /\ s.triggered => t.triggered
      /\ \A q \in Peers : t.hello[q] = s.hello[q] \/ (t.hello[q] = h /\ (h > lh => t.triggered))
  <2>1. CASE t = RecordPeerHello(s, p, h, lh)
    BY <2>1 DEF RecordPeerHello, SyncStates
  <2>2. CASE t = NotePeerBlockHeight(s, p, h, lh)
    <3> DEFINE v == IF \/ s.hello[p] # Unknown /\ h > s.hello[p]
                       \/ s.hello[p] = Unknown /\ h > lh
                    THEN h ELSE s.hello[p]
    <3>1. v \in Nat \cup {Unknown} /\ (v = h \/ v = s.hello[p])
      BY DEF SyncStates
    <3>2. t = [s EXCEPT !.hello[p] = v, !.triggered = @ \/ h > lh]
      BY <2>2 DEF NotePeerBlockHeight
    <3> HIDE DEF v
    <3> QED BY <3>1, <3>2 DEF SyncStates
  <2>3. CASE t = s
    BY <2>3
  <2> QED
    BY <2>1, <2>2, <2>3
<1>2. Latch(t, lh)
  BY <1>1 DEF Latch, AnyPeerAhead
<1> QED
  BY <1>1, <1>2

\* A hello records the peer's height and sets the latch in the same step, so
\* a start that follows at once finds it set.
LEMMA ChainHelloInv ==
    ASSUME IInv, NEW p \in Peers, NEW h \in Heights, ChainHello(p, h)
    PROVE  IInv'
<1> DEFINE s1 == IF Trusts(p) THEN RecordPeerHello(sync, p, h, height) ELSE sync
           s2 == IF p \in Bootnodes THEN Unblacklist(s1, p) ELSE s1
<1>1. h \in Nat /\ height \in Nat /\ height' = height /\ sync \in SyncStates
  BY CatchUpAssumption DEF IInv, TypeOK, ChainHello, Heights
<1>2. /\ s1 \in SyncStates /\ Latch(s1, height)
      /\ s1.pending = sync.pending /\ s1.phase = sync.phase
      /\ s1.inProgress = sync.inProgress
  BY <1>1, RecordFacts DEF IInv, AheadImpliesTriggered, Latch
<1>3. /\ s2 \in SyncStates /\ Latch(s2, height)
      /\ s2.pending = sync.pending /\ s2.phase = sync.phase
      /\ s2.inProgress = sync.inProgress
  <2> HIDE DEF s1
  <2> QED BY <1>2 DEF Unblacklist, SyncStates, Latch, AnyPeerAhead
<1>4. Evolves(s2, sync', height)
  <2>1. sync' \in TryStartCatchUp(s2, height)
    BY DEF ChainHello
  <2> HIDE DEF s2
  <2> QED BY <1>1, <1>3, <2>1, TryStartEvolves
<1> HIDE DEF s2
<1>5. TypeOK'
  BY <1>4 DEF IInv, TypeOK, ChainHello, Evolves, workVars
<1>6. \A q : Busy(q) <=> Busy(q)'
  BY BusyUnchanged DEF ChainHello
<1>7. \A q : PendingOf(s2, q) <=> PendingOf(sync, q)
  BY <1>3 DEF PendingOf
<1>8. AheadImpliesTriggered' /\ RequestingHasWork' /\ InProgressHasWork'
  BY <1>1, <1>3, <1>4, <1>6, <1>7, HandlerStep, OutstandingParts
  DEF IInv, RequestingHasWork, InProgressHasWork
<1> QED
  BY <1>5, <1>8 DEF IInv

\* A gossiped block raises the sender's height, may start catch-up and may be
\* queued; what the driver waits for stays outstanding.
LEMMA GossipBlockInv ==
    ASSUME IInv, NEW p \in Peers, NEW h \in Heights, NEW bad \in BOOLEAN,
           GossipBlock(p, h, bad)
    PROVE  IInv'
<1> DEFINE s1 == NotePeerBlockHeight(sync, p, h, height)
           job == [kind |-> "gossip", peer |-> p, from |-> h, to |-> h, bad |-> bad]
<1>1. h \in Nat /\ height \in Nat /\ height' = height /\ sync \in SyncStates
  BY CatchUpAssumption DEF IInv, TypeOK, GossipBlock, Heights
<1>2. job \in Jobs
  BY <1>1 DEF Jobs
<1>3. /\ s1 \in SyncStates /\ Latch(s1, height)
      /\ s1.pending = sync.pending /\ s1.phase = sync.phase
      /\ s1.inProgress = sync.inProgress
  BY <1>1, RecordFacts DEF IInv, AheadImpliesTriggered, Latch
<1>4. sync' = s1 \/ sync' \in TryStartCatchUp(s1, height)
  BY DEF GossipBlock
<1> HIDE DEF s1
<1>5. Evolves(s1, sync', height)
  BY <1>1, <1>3, <1>4, TryStartEvolves, EvolvesRefl
<1>6. /\ UNCHANGED <<dead, answered, height, workVars, faults>>
      /\ messages > 0 /\ messages' = messages - 1
      /\ \/ queue' = Append(queue, job) /\ depth' = depth + 1
         \/ UNCHANGED <<queue, depth>>
  BY DEF GossipBlock, OfferDroppable, Enqueue
<1> HIDE DEF job
<1>7. TypeOK'
  <2>1. queue' \in Seq(Jobs)
    BY <1>2, <1>6 DEF IInv, TypeOK
  <2>3. depth' \in Nat /\ messages' \in Nat
    BY <1>6 DEF IInv, TypeOK
  <2>2. sync' \in SyncStates
    BY <1>5 DEF Evolves
  <2> QED
    BY <1>6, <2>1, <2>2, <2>3 DEF IInv, TypeOK, workVars
<1>8. \A q : Busy(q) => Busy(q)'
  BY <1>2, <1>6, EnqueueKeeps, BusyUnchanged DEF IInv
<1>9. \A q : PendingOf(s1, q) <=> PendingOf(sync, q)
  BY <1>3 DEF PendingOf
<1>10. AheadImpliesTriggered' /\ RequestingHasWork' /\ InProgressHasWork'
  BY <1>1, <1>3, <1>5, <1>8, <1>9, HandlerStep, OutstandingParts
  DEF IInv, RequestingHasWork, InProgressHasWork
<1> QED
  BY <1>7, <1>10 DEF IInv

\* The end of request i in failure, a refused answer or backpressure: the
\* driver is sent idle if it waited for that peer.
LEMMA RequestEndsInv ==
    ASSUME IInv, NEW i \in RequestIds, sync.pending[i] # NoRequest,
           height' = height, UNCHANGED <<queue, workVars>>,
           LET p == sync.pending[i].peer
               s == ClearInProgress(Resolve(sync, i))
           IN  sync' \in RangeFailed(s, p, height) \/ sync' = GoIdle(s, p)
    PROVE  /\ sync' \in SyncStates
           /\ AheadImpliesTriggered' /\ RequestingHasWork' /\ InProgressHasWork'
<1> DEFINE p == sync.pending[i].peer
           r == Resolve(sync, i)
           s == ClearInProgress(r)
           g == GoIdle(s, p)
<1>1. sync \in SyncStates /\ height \in Nat
  BY DEF IInv, TypeOK
<1>2. /\ p \in Peers /\ r \in SyncStates
      /\ r.hello = sync.hello /\ r.triggered = sync.triggered /\ r.phase = sync.phase
      /\ \A q : q # p /\ PendingOf(sync, q) => PendingOf(r, q)
  BY <1>1, ResolveKeeps
<1> HIDE DEF r
<1>3. /\ s \in SyncStates /\ g \in SyncStates
      /\ g.hello = sync.hello /\ g.triggered = sync.triggered
      /\ g.pending = r.pending /\ g.inProgress = NoPeer
      /\ g.phase # NoPeer => g.phase = sync.phase /\ g.phase # p
  BY <1>2, IdleFacts
<1>4. sync' \in RangeFailed(s, p, height) \/ sync' = g
  BY DEF r
<1> HIDE DEF s, p
<1>5. Evolves(g, sync', height)
  BY <1>1, <1>2, <1>3, <1>4, RangeFailedEvolves, EvolvesRefl
<1> HIDE DEF g
<1>6. Latch(g, height)
  BY <1>3 DEF Latch, AnyPeerAhead, IInv, AheadImpliesTriggered
<1>7. \A q : Busy(q) <=> Busy(q)'
  BY BusyUnchanged
<1>8. \A q : q # NoPeer /\ q = g.phase => PendingOf(g, q) \/ Busy(q)'
  <2> SUFFICES ASSUME NEW q, q # NoPeer, q = g.phase PROVE PendingOf(g, q) \/ Busy(q)'
    OBVIOUS
  <2>1. PendingOf(sync, q) \/ Busy(q)
    BY <1>3, OutstandingParts DEF IInv, RequestingHasWork
  <2>2. PendingOf(r, q) => PendingOf(g, q)
    BY <1>3 DEF PendingOf
  <2> QED
    BY <1>2, <1>3, <1>7, <2>1, <2>2
<1>9. AheadImpliesTriggered' /\ RequestingHasWork' /\ InProgressHasWork'
  BY <1>1, <1>3, <1>5, <1>6, <1>8, HandlerStep
<1> QED
  BY <1>5, <1>9 DEF Evolves

\* An answer turns a pending request into a queued batch, or ends the wait.
LEMMA RangeResponseInv ==
    ASSUME IInv, NEW i \in RequestIds, NEW from \in Heights, NEW to \in Heights,
           NEW bad \in BOOLEAN, RangeResponse(i, from, to, bad)
    PROVE  IInv'
<1> DEFINE p == sync.pending[i].peer
           s == Resolve(sync, i)
           batch == [kind |-> "batch", peer |-> p, from |-> from, to |-> to, bad |-> bad]
<1>1. /\ sync.pending[i] # NoRequest
      /\ UNCHANGED <<dead, answered, height, workVars, bounds>>
      /\ \/ /\ sync' \in RangeFailed(ClearInProgress(s), p, height)
            /\ UNCHANGED <<queue, depth>>
         \/ sync' = s /\ queue' = Append(queue, batch) /\ depth' = depth + 1
         \/ /\ sync' = GoIdle(ClearInProgress(s), p)
            /\ UNCHANGED <<queue, depth>>
  BY DEF RangeResponse, Enqueue
<1>2. CASE /\ \/ sync' \in RangeFailed(ClearInProgress(s), p, height)
              \/ sync' = GoIdle(ClearInProgress(s), p)
           /\ UNCHANGED <<queue, depth>>
  <2>1. /\ sync' \in SyncStates
        /\ AheadImpliesTriggered' /\ RequestingHasWork' /\ InProgressHasWork'
    BY <1>1, <1>2, RequestEndsInv
  <2>2. TypeOK'
    BY <1>1, <1>2, <2>1 DEF IInv, TypeOK, workVars, bounds
  <2> QED
    BY <2>1, <2>2 DEF IInv
<1>3. CASE sync' = s /\ queue' = Append(queue, batch) /\ depth' = depth + 1
  <2>1. sync \in SyncStates /\ height \in Nat /\ from \in Nat /\ to \in Nat /\ height' = height
    BY <1>1, CatchUpAssumption DEF IInv, TypeOK, Heights
  <2>2. /\ p \in Peers /\ s \in SyncStates
        /\ s.hello = sync.hello /\ s.triggered = sync.triggered
        /\ s.phase = sync.phase /\ s.inProgress = sync.inProgress
        /\ \A q : q # p /\ PendingOf(sync, q) => PendingOf(s, q)
    BY <1>1, <2>1, ResolveKeeps
  <2> HIDE DEF s, p
  <2>3. batch \in Jobs /\ BatchOf(batch.peer, batch) /\ batch.peer = p
    BY <2>1, <2>2 DEF Jobs, BatchOf
  <2> HIDE DEF batch
  <2>4. \A q : Busy(q) \/ q = p => Busy(q)'
    BY <1>1, <1>3, <2>3, EnqueueKeeps DEF IInv
  <2>5. TypeOK'
    <3>1. queue' \in Seq(Jobs)
      BY <1>3, <2>3 DEF IInv, TypeOK
    <3>2. depth' \in Nat
      BY <1>3 DEF IInv, TypeOK
    <3> QED
      BY <1>1, <1>3, <2>2, <3>1, <3>2 DEF IInv, TypeOK, workVars, bounds
  <2>6. \A q : Outstanding(q) => PendingOf(s, q) \/ Busy(q)'
    BY <2>2, <2>4, OutstandingParts
  <2>7. AheadImpliesTriggered' /\ RequestingHasWork' /\ InProgressHasWork'
    BY <1>3, <2>1, <2>2, <2>6, HandlerStep, EvolvesRefl
    DEF IInv, AheadImpliesTriggered, RequestingHasWork, InProgressHasWork, Latch, AnyPeerAhead
  <2> QED
    BY <2>5, <2>7 DEF IInv
<1> QED
  BY <1>1, <1>2, <1>3

\* A failed request takes its work away and moves the driver on.
LEMMA OutboundFailureInv ==
    ASSUME IInv, NEW i \in RequestIds, OutboundFailure(i)
    PROVE  IInv'
<1>1. /\ sync' \in SyncStates
      /\ AheadImpliesTriggered' /\ RequestingHasWork' /\ InProgressHasWork'
  BY RequestEndsInv DEF OutboundFailure
<1>2. faults' \in Nat
  BY DEF OutboundFailure, IInv, TypeOK
<1>3. TypeOK'
  BY <1>1, <1>2 DEF OutboundFailure, IInv, TypeOK, workVars
<1> QED
  BY <1>1, <1>3 DEF IInv

\* A closed connection may leave work of the peer behind, never a phase
\* without work.
LEMMA ConnectionClosedInv ==
    ASSUME IInv, NEW p \in Peers, ConnectionClosed(p)
    PROVE  IInv'
<1>1. sync \in SyncStates /\ height \in Nat /\ height' = height
  BY DEF IInv, TypeOK, ConnectionClosed
<1>2. PICK s \in IF p \in Bootnodes \ dead
                 THEN RecoveryFallback(Blacklist(sync, {p}), height) ELSE {sync} :
         sync' \in PeerRemoved([s EXCEPT !.hello[p] = Unknown], p, height)
  BY DEF ConnectionClosed
<1>3. Evolves(sync, s, height)
  <2>1. CASE p \in Bootnodes \ dead
    <3> DEFINE u == Blacklist(sync, {p})
    <3>1. /\ u \in SyncStates /\ u.hello = sync.hello /\ u.triggered = sync.triggered
          /\ u.pending = sync.pending /\ u.phase = sync.phase
          /\ u.inProgress = sync.inProgress
      BY <1>1 DEF Blacklist, SyncStates
    <3>2. s \in RecoveryFallback(u, height)
      BY <1>2, <2>1
    <3> HIDE DEF u
    <3> QED
      BY <1>1, <3>1, <3>2, FallbackEvolves, EvolvesFrom
  <2>2. CASE p \notin Bootnodes \ dead
    BY <1>1, <1>2, <2>2, EvolvesRefl
  <2> QED
    BY <2>1, <2>2
<1> DEFINE c == [s EXCEPT !.hello[p] = Unknown]
           g == GoIdle(c, p)
<1>4. /\ c \in SyncStates /\ c.triggered = s.triggered /\ c.pending = s.pending
      /\ c.phase = s.phase /\ c.inProgress = s.inProgress
      /\ \A q \in Peers : c.hello[q] = s.hello[q] \/ c.hello[q] = Unknown
  BY <1>3 DEF Evolves, SyncStates
<1>5. sync' \in PeerRemoved(c, p, height)
  BY <1>2
<1> HIDE DEF c
<1>6. /\ g \in SyncStates /\ g.triggered = s.triggered /\ g.pending = s.pending
      /\ g.hello = c.hello /\ g.inProgress = s.inProgress
      /\ g.phase = s.phase \/ g.phase = NoPeer
  BY <1>4 DEF GoIdle, SyncStates
<1>7. Evolves(g, sync', height)
  BY <1>1, <1>4, <1>5, PeerRemovedEvolves
<1> HIDE DEF g
<1>8. Latch(g, height)
  <2>1. Latch(s, height)
    BY <1>3 DEF Evolves, IInv, AheadImpliesTriggered, Latch
  <2> QED
    BY <1>1, <1>4, <1>6, <2>1 DEF Latch, AnyPeerAhead, Unknown
<1>9. \A q : Busy(q) <=> Busy(q)'
  BY BusyUnchanged DEF ConnectionClosed
<1>10. \A q : PendingOf(sync, q) => PendingOf(g, q)
  BY <1>3, <1>6 DEF Evolves, PendingOf
<1>11. \A q : PendingOf(s, q) => PendingOf(g, q)
  BY <1>6 DEF PendingOf
<1>12. \A q : q # NoPeer /\ q \in {g.phase, g.inProgress} => PendingOf(g, q) \/ Busy(q)'
  <2> SUFFICES ASSUME NEW q, q # NoPeer, q \in {g.phase, g.inProgress}
               PROVE  PendingOf(g, q) \/ Busy(q)'
    OBVIOUS
  <2>1. q \in {sync.phase, sync.inProgress} \/ PendingOf(s, q)
    BY <1>3, <1>6 DEF Evolves
  <2>2. q \in {sync.phase, sync.inProgress} => PendingOf(sync, q) \/ Busy(q)
    BY OutstandingParts DEF IInv, RequestingHasWork, InProgressHasWork
  <2> QED
    BY <1>9, <1>10, <1>11, <2>1, <2>2
<1>13. AheadImpliesTriggered' /\ RequestingHasWork' /\ InProgressHasWork'
  BY <1>1, <1>6, <1>7, <1>8, <1>12, HandlerStep
<1>14. dead' \subseteq Bootnodes /\ faults' \in Nat
  BY DEF IInv, TypeOK, ConnectionClosed
<1>15. TypeOK'
  BY <1>7, <1>14 DEF IInv, TypeOK, ConnectionClosed, Evolves, workVars
<1> QED
  BY <1>13, <1>15 DEF IInv

\* Taking the head of the result channel takes away that result only.
LEMMA DrainKeeps ==
    ASSUME TypeOK, done # <<>>, done' = Tail(done), UNCHANGED <<queue, running, result>>
    PROVE  /\ Head(done) \in Results /\ done' \in Seq(Results)
           /\ \A p : Busy(p) /\ ~BatchOf(p, Head(done)) => Busy(p)'
<1>1. /\ done \in Seq(Results) /\ Len(done) \in Nat /\ Len(done) > 0
      /\ DOMAIN done = 1..Len(done) /\ Head(done) = done[1]
  BY DEF TypeOK
<1>2. /\ done' \in Seq(Results) /\ Len(done') = Len(done) - 1
      /\ DOMAIN done' = 1..(Len(done) - 1)
      /\ \A k \in 1..(Len(done) - 1) : done'[k] = done[k + 1]
  BY <1>1
<1>3. Head(done) \in Results
  BY <1>1
<1>4. ASSUME NEW k \in DOMAIN done, k # 1
      PROVE  k - 1 \in DOMAIN done' /\ done'[k - 1] = done[k]
  BY <1>1, <1>2, <1>4
<1>5. \A p : Busy(p) /\ ~BatchOf(p, Head(done)) => Busy(p)'
  BY <1>1, <1>4 DEF Busy
<1> QED
  BY <1>2, <1>3, <1>5

\* A result drained by the loop ends the driver's wait exactly when it was for
\* that peer.
LEMMA ApplyDoneInv == ASSUME IInv, ApplyDone PROVE IInv'
<1> DEFINE r == Head(done)
           note == NotePeerBlockHeight(sync, r.peer, r.height, height)
           c == ClearInProgress(sync)
           failed == r.outcome \in {"gap", "rejected"}
<1>1. sync \in SyncStates /\ height \in Nat /\ height' = height
  BY DEF IInv, TypeOK, ApplyDone
<1>2. /\ r \in Results /\ done' \in Seq(Results)
      /\ \A p : Busy(p) /\ ~BatchOf(p, r) => Busy(p)'
  BY DrainKeeps DEF IInv, ApplyDone
<1>3. /\ r.peer \in Peers /\ r.height \in Nat /\ r.applied \in BOOLEAN
      /\ failed \in BOOLEAN
  BY <1>2 DEF Results
<1>4. CASE r.kind = "batch"
  <2> DEFINE g == GoIdle(c, r.peer)
  <2>1. sync' \in BatchApplied(c, r.peer, r.applied, failed, height)
    BY <1>4 DEF ApplyDone
  <2>2. /\ c \in SyncStates /\ g \in SyncStates
        /\ g.hello = sync.hello /\ g.triggered = sync.triggered
        /\ g.pending = sync.pending /\ g.inProgress = NoPeer
        /\ g.phase # NoPeer => g.phase = sync.phase /\ g.phase # r.peer
    BY <1>1, <1>3, IdleFacts
  <2> HIDE DEF c, failed
  <2>3. Evolves(g, sync', height)
    BY <1>1, <1>3, <2>1, <2>2, BatchAppliedEvolves
  <2> HIDE DEF g
  <2>4. Latch(g, height)
    BY <2>2 DEF Latch, AnyPeerAhead, IInv, AheadImpliesTriggered
  <2>5. \A q : q # NoPeer /\ q = g.phase => PendingOf(g, q) \/ Busy(q)'
    <3> SUFFICES ASSUME NEW q, q # NoPeer, q = g.phase PROVE PendingOf(g, q) \/ Busy(q)'
      OBVIOUS
    <3>1. PendingOf(sync, q) \/ Busy(q)
      BY <2>2, OutstandingParts DEF IInv, RequestingHasWork
    <3>2. PendingOf(sync, q) => PendingOf(g, q)
      BY <2>2 DEF PendingOf
    <3>3. ~BatchOf(q, r)
      BY <2>2 DEF BatchOf
    <3> QED
      BY <1>2, <3>1, <3>2, <3>3
  <2>6. AheadImpliesTriggered' /\ RequestingHasWork' /\ InProgressHasWork'
    BY <1>1, <2>2, <2>3, <2>4, <2>5, HandlerStep
  <2> QED
    BY <1>2, <2>3, <2>6 DEF IInv, TypeOK, ApplyDone, Evolves, bounds
<1>5. CASE r.kind # "batch"
  <2>1. PICK s \in {note, sync} : sync' \in TryStartCatchUp(s, height) \/ sync' = s
    BY <1>5 DEF ApplyDone
  <2> HIDE DEF note
  <2>2. /\ s \in SyncStates /\ Latch(s, height)
        /\ s.pending = sync.pending /\ s.phase = sync.phase
        /\ s.inProgress = sync.inProgress
    BY <1>1, <1>3, <2>1, RecordFacts DEF note, IInv, AheadImpliesTriggered, Latch
  <2>3. Evolves(s, sync', height)
    BY <1>1, <2>1, <2>2, TryStartEvolves, EvolvesRefl
  <2>4. \A q : Busy(q) => Busy(q)'
    BY <1>2, <1>5 DEF BatchOf
  <2>5. \A q : PendingOf(s, q) <=> PendingOf(sync, q)
    BY <2>2 DEF PendingOf
  <2>6. AheadImpliesTriggered' /\ RequestingHasWork' /\ InProgressHasWork'
    BY <1>1, <2>2, <2>3, <2>4, <2>5, HandlerStep, OutstandingParts
    DEF IInv, RequestingHasWork, InProgressHasWork
  <2> QED
    BY <1>2, <2>3, <2>6 DEF IInv, TypeOK, ApplyDone, Evolves, bounds
<1> QED
  BY <1>4, <1>5

\* Expiry touches only the blacklist.
LEMMA BlacklistExpiresInv ==
    ASSUME IInv, NEW p \in Peers, BlacklistExpires(p)
    PROVE  IInv'
<1>1. /\ sync' \in SyncStates /\ sync'.hello = sync.hello
      /\ sync'.triggered = sync.triggered /\ sync'.pending = sync.pending
      /\ sync'.phase = sync.phase /\ sync'.inProgress = sync.inProgress
  BY DEF IInv, TypeOK, BlacklistExpires, SyncStates
<1>2. height \in Nat /\ height' = height
  BY DEF IInv, TypeOK, BlacklistExpires
<1>3. Evolves(sync', sync', height)
  BY <1>1, <1>2, EvolvesRefl
<1>4. \A q : Busy(q) <=> Busy(q)'
  BY BusyUnchanged DEF BlacklistExpires
<1>5. \A q : PendingOf(sync', q) <=> PendingOf(sync, q)
  BY <1>1 DEF PendingOf
<1>6. Latch(sync', height)
  BY <1>1 DEF IInv, AheadImpliesTriggered, Latch, AnyPeerAhead
<1>7. AheadImpliesTriggered' /\ RequestingHasWork' /\ InProgressHasWork'
  BY <1>1, <1>2, <1>3, <1>4, <1>5, <1>6, HandlerStep, OutstandingParts
  DEF IInv, RequestingHasWork, InProgressHasWork
<1>8. TypeOK'
  BY <1>1 DEF IInv, TypeOK, BlacklistExpires, workVars, bounds
<1> QED
  BY <1>7, <1>8 DEF IInv

\* A step of the worker moves work along and never lowers the ledger.
LEMMA WorkerStep ==
    ASSUME IInv, sync' = sync, height' \in Nat, height' >= height,
           \A p : Busy(p) => Busy(p)'
    PROVE  AheadImpliesTriggered' /\ RequestingHasWork' /\ InProgressHasWork'
<1>1. AheadImpliesTriggered'
  <2>1. \A p \in Peers : sync.hello[p] \in Int
    BY DEF IInv, TypeOK, SyncStates, Unknown
  <2> QED
    BY <2>1 DEF IInv, TypeOK, AheadImpliesTriggered, AnyPeerAhead
<1>2. \A p : Outstanding(p) => Outstanding(p)'
  <2>1. \A p : Outstanding(p)' <=> PendingOf(sync', p) \/ Busy(p)'
    BY DEF Outstanding, PendingOf, Busy
  <2> QED
    BY <2>1, OutstandingParts
<1> QED
  BY <1>1, <1>2 DEF IInv, RequestingHasWork, InProgressHasWork

\* A job moves from the queue to the worker and stays outstanding.
LEMMA WorkerTakeInv == ASSUME IInv, WorkerTake PROVE IInv'
<1>1. /\ queue \in Seq(Jobs) /\ Len(queue) \in Nat /\ Len(queue) > 0
      /\ DOMAIN queue = 1..Len(queue) /\ Head(queue) = queue[1]
  BY DEF IInv, TypeOK, WorkerTake
<1>2. /\ queue' \in Seq(Jobs) /\ Len(queue') = Len(queue) - 1
      /\ DOMAIN queue' = 1..(Len(queue) - 1)
      /\ \A k \in 1..(Len(queue) - 1) : queue'[k] = queue[k + 1]
  BY <1>1 DEF WorkerTake
<1>3. Head(queue) \in Jobs
  BY <1>1
<1>4. /\ running' \in [job : Jobs, next : Nat, applied : BOOLEAN]
      /\ running'.job = Head(queue)
  BY <1>3 DEF WorkerTake, Jobs
<1>5. running' # NoJob
  BY <1>4, SentinelAssumption
<1>6. \A p : Busy(p) => Busy(p)'
  <2>1. ASSUME NEW k \in DOMAIN queue, k # 1
        PROVE  k - 1 \in DOMAIN queue' /\ queue'[k - 1] = queue[k]
    BY <1>1, <1>2, <2>1
  <2> QED
    BY <1>1, <1>4, <1>5, <2>1 DEF Busy, WorkerTake
<1>7. AheadImpliesTriggered' /\ RequestingHasWork' /\ InProgressHasWork'
  BY <1>6, WorkerStep DEF IInv, TypeOK, WorkerTake, loopVars
<1>8. TypeOK'
  BY <1>2, <1>4 DEF IInv, TypeOK, WorkerTake, loopVars, bounds
<1> QED
  BY <1>7, <1>8 DEF IInv

\* The worker does one thing at a time and the slot counter is exact.
Busyness == IF running = NoJob THEN 0 ELSE 1

WInv ==
    /\ running = NoJob \/ result = NoJob
    /\ depth = Len(queue) + Busyness
    /\ depth <= ApplyCap

\* Moving on to the next block keeps the job.
LEMMA ProgressKeepsJob ==
  ASSUME NEW r \in [job : Jobs, next : Nat, applied : BOOLEAN],
         NEW n \in Nat, NEW a \in BOOLEAN
  PROVE  /\ [r EXCEPT !.next = n, !.applied = a] \in [job : Jobs, next : Nat, applied : BOOLEAN]
         /\ [r EXCEPT !.next = n, !.applied = a].job = r.job
  OBVIOUS

\* The ledger grows, so nobody is newly ahead; a finished job becomes a result.
LEMMA WorkerApplyInv == ASSUME IInv, WInv, WorkerApply PROVE IInv'
<1> DEFINE job == running.job
           h == running.next
           o == Outcome(h, job.bad /\ h = job.to, height)
           applied == running.applied \/ o = "applied"
           last == h = job.to \/ o \in {"gap", "rejected"}
<1>1. running \in [job : Jobs, next : Nat, applied : BOOLEAN]
  BY DEF IInv, TypeOK, WorkerApply
<1>2. job \in Jobs /\ h \in Nat /\ running.applied \in BOOLEAN
  BY <1>1
<1>3. o \in Outcomes /\ (o = "applied" => h = height + 1) /\ applied \in BOOLEAN
  BY <1>2 DEF Outcome, Outcomes, IInv, TypeOK
<1>4. /\ height' = IF o = "applied" THEN h ELSE height
      /\ UNCHANGED <<loopVars, queue, done, bounds>>
      /\ last => /\ running' = NoJob /\ depth' = depth - 1
                 /\ result' = [kind |-> job.kind, peer |-> job.peer, height |-> h,
                               applied |-> applied, outcome |-> o]
      /\ ~last => /\ running' = [running EXCEPT !.next = h + 1, !.applied = applied]
                  /\ UNCHANGED <<depth, result>>
  BY DEF WorkerApply
<1> HIDE DEF o, last, applied
<1>5. height' \in Nat /\ height' >= height
  BY <1>2, <1>3, <1>4 DEF IInv, TypeOK
<1>6. running # NoJob /\ result = NoJob /\ depth \in Nat /\ depth > 0
  BY DEF WorkerApply, WInv, Busyness, IInv, TypeOK
<1>7. CASE last
  <2>1. result' \in Results /\ result'.kind = job.kind /\ result'.peer = job.peer
    BY <1>2, <1>3, <1>4, <1>7 DEF Results, Jobs
  <2>2. result' # NoJob
    BY <2>1, SentinelAssumption
  <2>3. \A p : Busy(p) => Busy(p)'
    <3>1. UNCHANGED <<sync, queue, done>> /\ running' = NoJob
      BY <1>4, <1>7 DEF loopVars
    <3>2. \A p : BatchOf(p, running.job) => BatchOf(p, result')
      BY <2>1 DEF BatchOf
    <3> QED
      BY <1>6, <2>2, <3>1, <3>2 DEF Busy
  <2>4. AheadImpliesTriggered' /\ RequestingHasWork' /\ InProgressHasWork'
    BY <1>4, <1>5, <2>3, WorkerStep DEF loopVars
  <2>5. depth' \in Nat
    BY <1>4, <1>6, <1>7
  <2>6. TypeOK'
    BY <1>4, <1>5, <1>7, <2>1, <2>5 DEF IInv, TypeOK, loopVars, bounds
  <2> QED
    BY <2>4, <2>6 DEF IInv
<1>8. CASE ~last
  <2>1. /\ running' \in [job : Jobs, next : Nat, applied : BOOLEAN]
        /\ running'.job = job
    <3>1. h + 1 \in Nat /\ running' = [running EXCEPT !.next = h + 1, !.applied = applied]
      BY <1>2, <1>4, <1>8
    <3> QED
      BY <1>1, <1>3, <3>1, ProgressKeepsJob
  <2>2. running' # NoJob
    BY <2>1, SentinelAssumption
  <2>3. \A p : Busy(p) => Busy(p)'
    BY <1>4, <1>6, <1>8, <2>1, <2>2 DEF Busy, BatchOf
  <2>4. AheadImpliesTriggered' /\ RequestingHasWork' /\ InProgressHasWork'
    BY <1>4, <1>5, <2>3, WorkerStep DEF loopVars
  <2>5. TypeOK'
    BY <1>4, <1>5, <1>8, <2>1 DEF IInv, TypeOK, loopVars, bounds
  <2> QED
    BY <2>4, <2>5 DEF IInv
<1> QED
  BY <1>7, <1>8

\* A result moves to the channel and stays outstanding.
LEMMA WorkerSendInv == ASSUME IInv, WorkerSend PROVE IInv'
<1>1. result \in Results
  BY DEF IInv, TypeOK, WorkerSend
<1>2. /\ done' \in Seq(Results) /\ Len(done') = Len(done) + 1 /\ Len(done) \in Nat
      /\ DOMAIN done = 1..Len(done) /\ DOMAIN done' = 1..(Len(done) + 1)
      /\ \A k \in 1..Len(done) : done'[k] = done[k]
      /\ done'[Len(done) + 1] = result
  BY <1>1 DEF IInv, TypeOK, WorkerSend
<1>3. \A p : Busy(p) => Busy(p)'
  BY <1>2 DEF Busy, WorkerSend
<1>4. AheadImpliesTriggered' /\ RequestingHasWork' /\ InProgressHasWork'
  BY <1>3, WorkerStep DEF IInv, TypeOK, WorkerSend, loopVars
<1>5. TypeOK'
  BY <1>2 DEF IInv, TypeOK, WorkerSend, loopVars, bounds
<1> QED
  BY <1>4, <1>5 DEF IInv

-----------------------------------------------------------------------------

\* While the worker goes on to the next block of a batch it still holds a job.
LEMMA WorkerGoesOn ==
  ASSUME TypeOK, running # NoJob, NEW n \in Nat, NEW a \in BOOLEAN,
         running' = [running EXCEPT !.next = n, !.applied = a]
  PROVE  running' # NoJob
<1>1. running \in [job : Jobs, next : Nat, applied : BOOLEAN]
  BY DEF TypeOK
<1>2. running' \in [job : Jobs, next : Nat, applied : BOOLEAN]
  BY <1>1
<1> QED
  BY <1>2, SentinelAssumption

\* The worker does one thing at a time and the slot counter stays exact.
LEMMA WInvStep == TypeOK /\ WInv /\ [Next]_vars => WInv'
<1> SUFFICES ASSUME TypeOK, WInv, [Next]_vars PROVE WInv'
  OBVIOUS
<1> USE CatchUpAssumption DEF WInv, Busyness, TypeOK
<1>1. ASSUME UNCHANGED <<queue, depth, running, result>>
      PROVE  WInv'
  BY <1>1
<1>2. ASSUME NEW job \in Jobs, Enqueue(job), Accepts(ApplyCap), UNCHANGED workVars
      PROVE  WInv'
  <2>1. Len(queue') = Len(queue) + 1 /\ depth' = depth + 1 /\ depth + 1 <= ApplyCap
    BY <1>2 DEF Enqueue, Accepts
  <2> QED
    BY <1>2, <2>1 DEF workVars
<1>3. ASSUME NEW p \in Peers, NEW h \in Heights, NEW bad \in BOOLEAN, GossipBlock(p, h, bad)
      PROVE  WInv'
  <2> DEFINE job == [kind |-> "gossip", peer |-> p, from |-> h, to |-> h, bad |-> bad]
  <2>1. job \in Jobs
    BY DEF Jobs, Heights
  <2>2. Accepts(ApplyCap - RESERVED_FOR_CATCH_UP) => Accepts(ApplyCap)
    BY DEF Accepts, RESERVED_FOR_CATCH_UP
  <2>3. (Enqueue(job) /\ Accepts(ApplyCap)) \/ UNCHANGED <<queue, depth>>
    BY <1>3, <2>2 DEF GossipBlock, OfferDroppable
  <2>4. UNCHANGED workVars
    BY <1>3 DEF GossipBlock
  <2> HIDE DEF job
  <2> QED
    BY <1>1, <1>2, <2>1, <2>3, <2>4 DEF workVars
<1>4. ASSUME NEW i \in RequestIds, NEW from \in Heights, NEW to \in Heights,
             NEW bad \in BOOLEAN, RangeResponse(i, from, to, bad)
      PROVE  WInv'
  <2> DEFINE job == [kind |-> "batch", peer |-> sync.pending[i].peer,
                     from |-> from, to |-> to, bad |-> bad]
  <2>1. sync.pending[i] \in Requests
    BY <1>4 DEF RangeResponse, SyncStates
  <2>2. job \in Jobs
    BY <2>1 DEF Jobs, Heights, Requests
  <2>3. (Enqueue(job) /\ Accepts(ApplyCap)) \/ UNCHANGED <<queue, depth>>
    BY <1>4 DEF RangeResponse
  <2>4. UNCHANGED workVars
    BY <1>4 DEF RangeResponse
  <2> HIDE DEF job
  <2> QED
    BY <1>1, <1>2, <2>2, <2>3, <2>4 DEF workVars
<1>5. CASE WorkerTake
  <2>1. Len(queue') = Len(queue) - 1 /\ Head(queue) \in Jobs /\ Len(queue) \in Nat
    BY <1>5 DEF WorkerTake
  <2>2. running' \in [job : Jobs, next : Nat, applied : BOOLEAN]
    BY <1>5, <2>1 DEF WorkerTake, Jobs
  <2>3. running' # NoJob
    BY <2>2, SentinelAssumption
  <2> QED
    BY <1>5, <2>1, <2>3 DEF WorkerTake
<1>6. CASE WorkerApply
  <2>1. running # NoJob /\ result = NoJob /\ UNCHANGED queue
    BY <1>6 DEF WorkerApply
  <2>2. CASE running' = NoJob
    <3> DEFINE goesOn(n, a) == running' = [running EXCEPT !.next = n, !.applied = a]
               o == Outcome(running.next, running.job.bad /\ running.next = running.job.to, height)
    <3>1. running \in [job : Jobs, next : Nat, applied : BOOLEAN]
      BY <2>1
    <3>2. running.next + 1 \in Nat /\ (running.applied \/ o = "applied") \in BOOLEAN
      BY <3>1
    <3>3. ~goesOn(running.next + 1, running.applied \/ o = "applied")
      BY <2>1, <2>2, <3>2, WorkerGoesOn
    <3>4. depth' = depth - 1
      BY <1>6, <3>3 DEF WorkerApply
    <3> QED
      BY <2>1, <2>2, <3>4
  <2>3. CASE running' # NoJob
    <3>1. UNCHANGED <<depth, result>>
      BY <1>6, <2>3 DEF WorkerApply
    <3> QED
      BY <2>1, <2>3, <3>1
  <2> QED
    BY <2>2, <2>3
<1>7. CASE WorkerSend
  BY <1>7 DEF WorkerSend
<1>8. CASE UNCHANGED vars
  BY <1>1, <1>8 DEF vars
<1> QED
  BY <1>1, <1>3, <1>4, <1>5, <1>6, <1>7, <1>8
  DEF Next, Environment, RangeAnswer, Tick, ApplyDone, HelloTimeout, ChainHello,
      ConnectionClosed, OutboundFailure, BlacklistExpires, workVars

-----------------------------------------------------------------------------

Inv == IInv /\ WInv

\* The node starts idle, with an empty queue and no peer known.
LEMMA InitInv == Init => Inv
<1> SUFFICES ASSUME Init PROVE Inv
  OBVIOUS
<1>1. TypeOK
  BY CatchUpAssumption DEF Init, TypeOK, SyncStates
<1>2. \A p \in Peers : ~(sync.hello[p] > height)
  BY DEF Init, Unknown
<1>3. AheadImpliesTriggered /\ RequestingHasWork /\ InProgressHasWork
  BY <1>2 DEF Init, AheadImpliesTriggered, AnyPeerAhead, RequestingHasWork, InProgressHasWork
<1>4. WInv
  BY CatchUpAssumption DEF Init, WInv, Busyness
<1> QED
  BY <1>1, <1>3, <1>4 DEF Inv, IInv

\* Every handler of the loop and every step of the worker keeps the
\* invariant.
LEMMA NextInv == Inv /\ [Next]_vars => Inv'
<1> SUFFICES ASSUME Inv, [Next]_vars PROVE Inv'
  OBVIOUS
<1>1. IInv /\ WInv /\ TypeOK
  BY DEF Inv, IInv
<1>2. WInv'
  BY <1>1, WInvStep
<1>3. IInv'
  <2>1. CASE Environment
    <3>1. CASE \E D \in SUBSET Bootnodes : HelloTimeout(D)
      BY <1>1, <3>1, HelloTimeoutInv
    <3>2. CASE \E p \in Peers, h \in Heights : ChainHello(p, h)
      BY <1>1, <3>2, ChainHelloInv
    <3>3. CASE \E p \in Peers, h \in Heights, bad \in BOOLEAN : GossipBlock(p, h, bad)
      BY <1>1, <3>3, GossipBlockInv
    <3>4. CASE \E p \in Peers : ConnectionClosed(p)
      BY <1>1, <3>4, ConnectionClosedInv
    <3> QED
      BY <2>1, <3>1, <3>2, <3>3, <3>4 DEF Environment
  <2>2. CASE Tick
    BY <1>1, <2>2, TickInv
  <2>3. CASE ApplyDone
    BY <1>1, <2>3, ApplyDoneInv
  <2>4. CASE \E i \in RequestIds : RangeAnswer(i)
    <3>1. PICK i \in RequestIds, from \in Heights, to \in Heights, bad \in BOOLEAN :
             RangeResponse(i, from, to, bad)
      BY <2>4 DEF RangeAnswer
    <3> QED
      BY <1>1, <3>1, RangeResponseInv
  <2>5. CASE \E i \in RequestIds : OutboundFailure(i)
    BY <1>1, <2>5, OutboundFailureInv
  <2>6. CASE \E p \in Peers : BlacklistExpires(p)
    BY <1>1, <2>6, BlacklistExpiresInv
  <2>7. CASE WorkerTake
    BY <1>1, <2>7, WorkerTakeInv
  <2>8. CASE WorkerApply
    BY <1>1, <2>8, WorkerApplyInv
  <2>9. CASE WorkerSend
    BY <1>1, <2>9, WorkerSendInv
  <2>10. CASE UNCHANGED vars
    <3>1. UNCHANGED <<sync, height, queue, running, result, done>>
      BY <2>10 DEF vars
    <3>2. TypeOK'
      BY <1>1, <2>10 DEF TypeOK, vars
    <3>3. AheadImpliesTriggered'
      BY <1>1, <3>1 DEF IInv, AheadImpliesTriggered, AnyPeerAhead
    <3>4. \A p : Outstanding(p) => Outstanding(p)'
      BY <3>1 DEF Outstanding
    <3>5. RequestingHasWork' /\ InProgressHasWork'
      BY <1>1, <3>1, <3>4 DEF IInv, RequestingHasWork, InProgressHasWork
    <3> QED
      BY <3>2, <3>3, <3>5 DEF IInv
  <2> QED
    BY <2>1, <2>2, <2>3, <2>4, <2>5, <2>6, <2>7, <2>8, <2>9, <2>10 DEF Next
<1> QED
  BY <1>2, <1>3 DEF Inv

\* The inductive invariant holds throughout.
THEOREM Invariance == Spec => []Inv
BY InitInv, NextInv, PTL DEF Spec

\* Every reachable state of registry, driver, queue and worker is of its
\* type; in particular the slot counter of the apply queue never goes
\* below zero (apply_worker.rs, fetch_sub after a job).
THEOREM TypeCorrect == Spec => []TypeOK
<1>1. Inv => TypeOK
  BY DEF Inv, IInv
<1> QED
  BY <1>1, Invariance, PTL

\* No wake-up of catch-up is ever lost, for any number of peers and any
\* interleaving of loop and worker.
THEOREM NoLostWakeUp == Spec => []AheadImpliesTriggered
<1>1. Inv => AheadImpliesTriggered
  BY DEF Inv, IInv
<1> QED
  BY <1>1, Invariance, PTL

\* Neither the driver in Requesting nor the marker that gates the miner ever
\* waits with nothing outstanding (sync.rs).
THEOREM NeverWaitsForNothing == Spec => []WaitsForWork
<1>1. Inv => WaitsForWork
  BY DEF Inv, IInv, WaitsForWork
<1> QED
  BY <1>1, Invariance, PTL

-----------------------------------------------------------------------------
(* The queue and the batches.                                              *)

\* The places of the gossiped blocks in the queue.
Gossip(q) == {k \in DOMAIN q : q[k].kind = "gossip"}

\* There are at most as many of them as jobs.
LEMMA GossipType ==
    ASSUME NEW q \in Seq(Jobs)
    PROVE  IsFiniteSet(Gossip(q)) /\ Cardinality(Gossip(q)) \in Nat /\ Cardinality(Gossip(q)) <= Len(q)
<1>1. Len(q) \in Nat /\ DOMAIN q = 1..Len(q) OBVIOUS
<1>2. IsFiniteSet(1..Len(q)) /\ Cardinality(1..Len(q)) = Len(q) BY <1>1, FS_Interval
<1>3. Gossip(q) \in SUBSET (1..Len(q)) BY <1>1 DEF Gossip
<1>4. IsFiniteSet(Gossip(q)) /\ Cardinality(Gossip(q)) <= Len(q) BY <1>2, <1>3, FS_Subset
<1> QED BY <1>4, FS_CardinalityType

\* A job put into the queue counts if it is gossip.
LEMMA GossipAppend ==
    ASSUME NEW q \in Seq(Jobs), NEW job \in Jobs, NEW r, r = Append(q, job)
    PROVE  Cardinality(Gossip(r)) = Cardinality(Gossip(q)) + (IF job.kind = "gossip" THEN 1 ELSE 0)
<1>1. /\ r \in Seq(Jobs) /\ Len(r) = Len(q) + 1 /\ Len(q) \in Nat
      /\ \A k \in 1..Len(q) : r[k] = q[k]
      /\ r[Len(q) + 1] = job
      /\ DOMAIN q = 1..Len(q) /\ DOMAIN r = 1..(Len(q) + 1)
  OBVIOUS
<1>2. IsFiniteSet(Gossip(q)) /\ Cardinality(Gossip(q)) \in Nat BY GossipType
<1>3. CASE job.kind = "gossip"
  <2>1. Gossip(r) = Gossip(q) \cup {Len(q) + 1} BY <1>1, <1>3 DEF Gossip
  <2>2. Len(q) + 1 \notin Gossip(q) BY <1>1 DEF Gossip
  <2> QED BY <1>2, <1>3, <2>1, <2>2, FS_AddElement
<1>4. CASE job.kind # "gossip"
  <2>1. Gossip(r) = Gossip(q) BY <1>1, <1>4 DEF Gossip
  <2> QED BY <1>2, <1>4, <2>1
<1> QED BY <1>3, <1>4

\* The job taken counts if it was gossip.
LEMMA GossipTail ==
    ASSUME NEW q \in Seq(Jobs), q # <<>>, NEW r, r = Tail(q)
    PROVE  Cardinality(Gossip(r)) + (IF q[1].kind = "gossip" THEN 1 ELSE 0) <= Cardinality(Gossip(q))
<1>1. /\ r \in Seq(Jobs) /\ Len(r) = Len(q) - 1 /\ Len(q) \in Nat /\ Len(q) > 0 /\ Len(r) \in Nat
      /\ \A k \in 1..Len(r) : r[k] = q[k + 1]
      /\ DOMAIN q = 1..Len(q) /\ DOMAIN r = 1..Len(r)
  OBVIOUS
<1> DEFINE A == Gossip(r)  B == Gossip(q) \ {1}  f == [k \in A |-> k + 1]
<1>2. f \in [A -> B] BY <1>1 DEF Gossip
<1>3. \A i, j \in A : f[i] = f[j] => i = j BY <1>1 DEF Gossip
<1>4. f \in Injection(A, B) BY <1>2, <1>3 DEF Injection, IsInjective
<1>5. IsFiniteSet(Gossip(q)) /\ Cardinality(Gossip(q)) \in Nat BY GossipType
<1>6. IsFiniteSet(B) /\ Cardinality(B) = IF 1 \in Gossip(q) THEN Cardinality(Gossip(q)) - 1 ELSE Cardinality(Gossip(q))
  BY <1>5, FS_RemoveElement
<1>7. Cardinality(A) <= Cardinality(B)
  <2> HIDE DEF A, B, f
  <2> QED BY <1>4, <1>6, FS_Injection
<1>8. 1 \in Gossip(q) <=> q[1].kind = "gossip" BY <1>1 DEF Gossip
<1>9. Cardinality(A) \in Nat BY <1>1, GossipType
<1> QED BY <1>5, <1>6, <1>7, <1>8, <1>9

-----------------------------------------------------------------------------

\* 1 while the worker applies a gossiped block.
GossipRuns == IF running # NoJob /\ running.job.kind = "gossip" THEN 1 ELSE 0
\* Gossip leaves the slots reserved for catch-up free: inductive because an
\* offer of gossip is measured against all jobs, of which gossip is a part
\* (offer_droppable).
GossipInv == Cardinality(Gossip(queue)) + GossipRuns <= ApplyCap - RESERVED_FOR_CATCH_UP

\* Every step keeps the reserved slots free of gossip.
LEMMA GossipSteps == ASSUME TypeOK, WInv, GossipInv, [Next]_vars PROVE GossipInv'
<1>0. /\ queue \in Seq(Jobs) /\ depth \in Nat /\ Len(queue) \in Nat /\ ApplyCap \in Nat
      /\ running \in [job : Jobs, next : Nat, applied : BOOLEAN] \cup {NoJob}
  BY CatchUpAssumption DEF TypeOK
<1>1. depth = Len(queue) + Busyness /\ Busyness = IF running = NoJob THEN 0 ELSE 1 BY DEF WInv, Busyness
<1>2. GossipRuns \in {0, 1} /\ GossipRuns <= Busyness BY <1>1 DEF GossipRuns
<1>3. Cardinality(Gossip(queue)) \in Nat /\ Cardinality(Gossip(queue)) <= Len(queue) BY <1>0, GossipType
<1>4. ASSUME UNCHANGED <<queue, running>> PROVE GossipInv'
  BY <1>4 DEF GossipInv, GossipRuns
<1>5. ASSUME NEW p \in Peers, NEW h \in Heights, NEW bad \in BOOLEAN, GossipBlock(p, h, bad) PROVE GossipInv'
  <2>1. PICK job : job = [kind |-> "gossip", peer |-> p, from |-> h, to |-> h, bad |-> bad] OBVIOUS
  <2>2. job \in Jobs /\ job.kind = "gossip" BY <2>1 DEF Jobs, Heights
  <2>3. UNCHANGED running BY <1>5 DEF GossipBlock, workVars
  <2>4. OfferDroppable(job) \/ UNCHANGED <<queue, depth>> BY <1>5, <2>1 DEF GossipBlock
  <2>5. CASE UNCHANGED queue BY <2>3, <2>5, <1>4
  <2>6. CASE queue' # queue
    <3>1. Enqueue(job) /\ depth < ApplyCap - RESERVED_FOR_CATCH_UP BY <2>4, <2>6 DEF OfferDroppable, Accepts
    <3>2. queue' = Append(queue, job) BY <3>1 DEF Enqueue
    <3>3. Cardinality(Gossip(queue')) = Cardinality(Gossip(queue)) + 1 BY <1>0, <2>2, <3>2, GossipAppend
    <3>4. GossipRuns' = GossipRuns BY <2>3 DEF GossipRuns
    <3>5. Gossip(queue)' = Gossip(queue') BY DEF Gossip
    <3> QED BY <1>0, <1>1, <1>2, <1>3, <3>1, <3>3, <3>4, <3>5 DEF GossipInv, RESERVED_FOR_CATCH_UP
  <2> QED BY <2>5, <2>6
<1>6. ASSUME NEW i \in RequestIds, NEW from \in Heights, NEW to \in Heights, NEW bad \in BOOLEAN, RangeResponse(i, from, to, bad)
      PROVE  GossipInv'
  <2>1. PICK job : job = [kind |-> "batch", peer |-> sync.pending[i].peer, from |-> from, to |-> to, bad |-> bad] OBVIOUS
  <2>2. sync.pending[i] \in Requests BY <1>6 DEF RangeResponse, SyncStates, TypeOK
  <2>3. job \in Jobs /\ job.kind = "batch" BY <2>1, <2>2 DEF Jobs, Heights, Requests
  <2>4. UNCHANGED running BY <1>6 DEF RangeResponse, workVars
  <2>5. queue' = Append(queue, job) \/ UNCHANGED queue BY <1>6, <2>1 DEF RangeResponse, Enqueue
  <2>6. Cardinality(Gossip(queue')) = Cardinality(Gossip(queue)) BY <1>0, <1>3, <2>3, <2>5, GossipAppend
  <2>7. GossipRuns' = GossipRuns BY <2>4 DEF GossipRuns
  <2>8. Gossip(queue)' = Gossip(queue') BY DEF Gossip
  <2> QED BY <2>6, <2>7, <2>8 DEF GossipInv
<1>7. CASE WorkerTake
  <2>1. queue # <<>> /\ queue' = Tail(queue) /\ running = NoJob BY <1>7 DEF WorkerTake
  <2>2. running'.job = queue[1] BY <1>0, <1>7, <2>1 DEF WorkerTake
  <2>3. Cardinality(Gossip(queue')) + (IF queue[1].kind = "gossip" THEN 1 ELSE 0) <= Cardinality(Gossip(queue))
    BY <1>0, <2>1, GossipTail
  <2>4. queue' \in Seq(Jobs) BY <1>0, <2>1
  <2>5. Cardinality(Gossip(queue')) \in Nat BY <2>4, GossipType
  <2>6. GossipRuns' <= (IF queue[1].kind = "gossip" THEN 1 ELSE 0) /\ GossipRuns' \in {0, 1} BY <2>2 DEF GossipRuns
  <2>7. GossipRuns = 0 BY <2>1 DEF GossipRuns
  <2>8. Gossip(queue)' = Gossip(queue') BY DEF Gossip
  <2> QED BY <1>0, <1>3, <2>3, <2>5, <2>6, <2>7, <2>8 DEF GossipInv, RESERVED_FOR_CATCH_UP
<1>8. CASE WorkerApply
  <2>1. running # NoJob /\ UNCHANGED queue BY <1>8 DEF WorkerApply
  <2>2. running' = NoJob \/ running'.job = running.job
    <3>1. PICK n, a : running' = NoJob \/ running' = [running EXCEPT !.next = n, !.applied = a] BY <1>8 DEF WorkerApply
    <3> QED BY <1>0, <2>1, <3>1
  <2>3. GossipRuns' <= GossipRuns /\ GossipRuns' \in {0, 1} BY <2>1, <2>2 DEF GossipRuns
  <2>4. Gossip(queue)' = Gossip(queue) BY <2>1 DEF Gossip
  <2> QED BY <1>0, <1>2, <1>3, <2>3, <2>4 DEF GossipInv, RESERVED_FOR_CATCH_UP
<1>9. CASE UNCHANGED vars BY <1>4, <1>9 DEF vars
<1>10. CASE WorkerSend \/ Tick \/ ApplyDone BY <1>4, <1>10 DEF WorkerSend, Tick, ApplyDone, workVars
<1>11. CASE \/ \E D \in SUBSET Bootnodes : HelloTimeout(D)
            \/ \E p \in Peers, h \in Heights : ChainHello(p, h)
            \/ \E p \in Peers : ConnectionClosed(p) \/ BlacklistExpires(p)
            \/ \E i \in RequestIds : OutboundFailure(i)
  BY <1>4, <1>11 DEF HelloTimeout, ChainHello, ConnectionClosed, BlacklistExpires, OutboundFailure, workVars
<1> QED BY <1>5, <1>6, <1>7, <1>8, <1>9, <1>10, <1>11 DEF Next, Environment, RangeAnswer

-----------------------------------------------------------------------------

\* A batch of an honest peer is good and, at its block n, neither beyond the
\* next height nor past its end.
HonestJob(j, lh, n) == j.kind = "batch" /\ j.peer \in Honest => n <= lh + 1 /\ n <= j.to /\ ~j.bad
\* A batch of an honest peer did not fail.
HonestEnd(r) == r.kind = "batch" /\ r.peer \in Honest => r.outcome \in {"applied", "skipped"}

\* What makes HonestBatchNeverFails inductive: from the request through queue
\* and worker to the result, a batch starts at or below the next height; the
\* height only grows meanwhile.
BatchInv ==
    /\ Planned(sync, height)
    /\ \A k \in DOMAIN queue : HonestJob(queue[k], height, queue[k].from)
    /\ running # NoJob => HonestJob(running.job, height, running.next)
    /\ result # NoJob => HonestEnd(result)
    /\ \A k \in DOMAIN done : HonestEnd(done[k])

\* A handler that starts from a state with the same requests, or fewer, plans
\* none beyond the next height.
LEMMA PlannedLoop ==
    ASSUME TypeOK, Planned(sync, height), height' = height, NEW s \in SyncStates, Evolves(s, sync', height),
           \A i \in RequestIds : s.pending[i] \in {sync.pending[i], NoRequest}
    PROVE  Planned(sync', height')
<1>1. Planned(s, height) BY DEF Planned
<1> QED BY <1>1 DEF Evolves

\* The same for a handler that lets the driver start.
LEMMA PlannedStarts ==
    ASSUME TypeOK, Planned(sync, height), height' = height, NEW s \in SyncStates, s.pending = sync.pending,
           sync' \in TryStartCatchUp(s, height) \/ sync' \in RecoveryFallback(s, height)
    PROVE  Planned(sync', height')
<1>1. height \in Nat BY DEF TypeOK
<1>2. Evolves(s, sync', height) BY <1>1, TryStartEvolves, FallbackEvolves
<1> QED BY <1>2, PlannedLoop

\* No step but the application of a block moves the height, and no handler
\* plans a request beyond the next one.
LEMMA PlannedSteps == ASSUME TypeOK, Planned(sync, height), [Next]_vars, ~WorkerApply PROVE Planned(sync', height') /\ height' = height
<1>0. sync \in SyncStates /\ height \in Nat /\ done \in Seq(Results) BY DEF TypeOK
<1>1. height' = height
  BY DEF Next, Environment, RangeAnswer, RangeResponse, Tick, ApplyDone, HelloTimeout, ChainHello, GossipBlock,
         ConnectionClosed, OutboundFailure, BlacklistExpires, WorkerTake, WorkerSend, vars
<1>2. ASSUME sync'.pending = sync.pending PROVE Planned(sync', height') BY <1>1, <1>2 DEF Planned
<1>3. CASE Tick BY <1>0, <1>1, <1>3, PlannedStarts DEF Tick
<1>4. ASSUME NEW D \in SUBSET Bootnodes, HelloTimeout(D) PROVE Planned(sync', height')
  <2>1. PICK s : s = Blacklist(sync, D) OBVIOUS
  <2>2. s \in SyncStates /\ s.pending = sync.pending
    BY <1>0, <2>1, CatchUpAssumption DEF Blacklist, SyncStates
  <2>3. sync' \in RecoveryFallback(s, height) BY <1>4, <2>1 DEF HelloTimeout
  <2> QED BY <1>1, <2>2, <2>3, PlannedStarts
<1>5. ASSUME NEW p \in Peers, NEW h \in Heights, ChainHello(p, h) PROVE Planned(sync', height')
  <2>0. h \in Nat BY DEF Heights
  <2>1. PICK u : u = IF Trusts(p) THEN RecordPeerHello(sync, p, h, height) ELSE sync OBVIOUS
  <2>2. u \in SyncStates /\ u.pending = sync.pending BY <1>0, <2>0, <2>1 DEF RecordPeerHello, SyncStates
  <2>3. PICK s : s = IF p \in Bootnodes THEN Unblacklist(u, p) ELSE u OBVIOUS
  <2>4. s \in SyncStates /\ s.pending = sync.pending BY <2>2, <2>3 DEF Unblacklist, SyncStates
  <2>5. sync' \in TryStartCatchUp(s, height) BY <1>5, <2>1, <2>3 DEF ChainHello
  <2> QED BY <1>1, <2>4, <2>5, PlannedStarts
<1>6. ASSUME NEW p \in Peers, NEW h \in Heights, NEW bad \in BOOLEAN, GossipBlock(p, h, bad) PROVE Planned(sync', height')
  <2>0. h \in Nat BY DEF Heights
  <2>1. PICK s : s = NotePeerBlockHeight(sync, p, h, height) OBVIOUS
  <2>2. s \in SyncStates /\ s.pending = sync.pending BY <1>0, <2>0, <2>1 DEF NotePeerBlockHeight, SyncStates
  <2>3. sync' = s \/ sync' \in TryStartCatchUp(s, height) BY <1>6, <2>1 DEF GossipBlock
  <2> QED BY <1>1, <1>2, <2>2, <2>3, PlannedStarts
<1>7. ASSUME NEW s \in SyncStates, NEW i \in RequestIds, NEW p \in Peers, s = ClearInProgress(Resolve(sync, i)),
             sync' \in RangeFailed(s, p, height) \/ sync' = GoIdle(s, p)
      PROVE  Planned(sync', height')
  <2>1. s.pending = [sync.pending EXCEPT ![i] = NoRequest]
    BY <1>0, <1>7 DEF ClearInProgress, Resolve, SyncStates
  <2>2. PICK g : g = GoIdle(s, p) OBVIOUS
  <2>3. g \in SyncStates /\ g.pending = s.pending BY <2>2 DEF GoIdle, SyncStates
  <2>4. \A j \in RequestIds : g.pending[j] \in {sync.pending[j], NoRequest} BY <1>0, <2>1, <2>3 DEF SyncStates
  <2>5. Evolves(g, sync', height) BY <1>0, <1>7, <2>2, <2>3, RangeFailedEvolves, EvolvesRefl
  <2> QED BY <1>1, <2>3, <2>4, <2>5, PlannedLoop
<1>8. ASSUME NEW i \in RequestIds, sync.pending[i] # NoRequest PROVE sync.pending[i].peer \in Peers /\ Resolve(sync, i) \in SyncStates /\ ClearInProgress(Resolve(sync, i)) \in SyncStates
  <2>1. Resolve(sync, i) \in SyncStates /\ sync.pending[i].peer \in Peers BY <1>0, <1>8, ResolveKeeps
  <2>2. PICK s : s = Resolve(sync, i) OBVIOUS
  <2>3. ClearInProgress(s) \in SyncStates BY <2>1, <2>2 DEF ClearInProgress, SyncStates
  <2> QED BY <2>1, <2>2, <2>3
<1>9. ASSUME NEW i \in RequestIds, OutboundFailure(i) PROVE Planned(sync', height')
  BY <1>7, <1>8, <1>9 DEF OutboundFailure
<1>10. ASSUME NEW i \in RequestIds, NEW from, NEW to, NEW bad, RangeResponse(i, from, to, bad) PROVE Planned(sync', height')
  <2>1. sync.pending[i] # NoRequest BY <1>10 DEF RangeResponse
  <2>2. PICK s : s = Resolve(sync, i) OBVIOUS
  <2>3. \/ sync' \in RangeFailed(ClearInProgress(s), sync.pending[i].peer, height)
        \/ sync' = s \/ sync' = GoIdle(ClearInProgress(s), sync.pending[i].peer)
    BY <1>10, <2>2 DEF RangeResponse
  <2>4. CASE sync' = s
    <3>1. s.pending = [sync.pending EXCEPT ![i] = NoRequest] BY <1>0, <2>2 DEF Resolve, SyncStates
    <3> QED BY <1>0, <1>1, <2>4, <3>1 DEF Planned, SyncStates
  <2> QED BY <1>7, <1>8, <2>1, <2>2, <2>3, <2>4
<1>11. ASSUME NEW p \in Peers, ConnectionClosed(p) PROVE Planned(sync', height')
  <2>1. PICK s \in IF p \in Bootnodes \ dead THEN RecoveryFallback(Blacklist(sync, {p}), height) ELSE {sync} :
            sync' \in PeerRemoved([s EXCEPT !.hello[p] = Unknown], p, height)
    BY <1>11 DEF ConnectionClosed
  <2>2. s \in SyncStates /\ Planned(s, height)
    <3>1. CASE p \in Bootnodes \ dead
      <4>1. PICK b : b = Blacklist(sync, {p}) OBVIOUS
      <4>2. b \in SyncStates /\ b.pending = sync.pending BY <1>0, <4>1 DEF Blacklist, SyncStates
      <4>3. Evolves(b, s, height) BY <1>0, <2>1, <3>1, <4>1, <4>2, FallbackEvolves
      <4>4. Planned(b, height) BY <4>2 DEF Planned
      <4> QED BY <4>3, <4>4 DEF Evolves
    <3>2. CASE p \notin Bootnodes \ dead BY <1>0, <2>1, <3>2
    <3> QED BY <3>1, <3>2
  <2>3. PICK u : u = [s EXCEPT !.hello[p] = Unknown] OBVIOUS
  <2>4. u \in SyncStates /\ u.pending = s.pending BY <2>2, <2>3 DEF SyncStates
  <2>5. PICK g : g = GoIdle(u, p) OBVIOUS
  <2>6. g.pending = s.pending BY <2>4, <2>5 DEF GoIdle, SyncStates
  <2>7. Evolves(g, sync', height) BY <1>0, <2>1, <2>3, <2>4, <2>5, PeerRemovedEvolves
  <2>8. Planned(g, height) BY <2>2, <2>6 DEF Planned
  <2> QED BY <1>1, <2>7, <2>8 DEF Evolves
<1>12. CASE ApplyDone
  <2>1. PICK r : r = Head(done) OBVIOUS
  <2>2. r \in Results BY <1>0, <1>12, <2>1 DEF ApplyDone
  <2>3. r.peer \in Peers /\ r.height \in Nat /\ r.applied \in BOOLEAN BY <2>2 DEF Results
  <2>4. CASE r.kind = "batch"
    <3>1. PICK c : c = ClearInProgress(sync) OBVIOUS
    <3>2. c \in SyncStates /\ c.pending = sync.pending BY <1>0, <3>1 DEF ClearInProgress, SyncStates
    <3>3. PICK f : f = (r.outcome \in {"gap", "rejected"}) OBVIOUS
    <3>8. f \in BOOLEAN BY <3>3
    <3>4. sync' \in BatchApplied(c, r.peer, r.applied, f, height) BY <1>12, <2>1, <2>4, <3>1, <3>3 DEF ApplyDone
    <3>5. PICK g : g = GoIdle(c, r.peer) OBVIOUS
    <3>6. g \in SyncStates /\ Evolves(g, sync', height) BY <1>0, <2>3, <3>2, <3>4, <3>5, <3>8, BatchAppliedEvolves
    <3>7. g.pending = sync.pending BY <3>2, <3>5 DEF GoIdle, SyncStates
    <3> QED BY <1>1, <3>6, <3>7, PlannedLoop
  <2>5. CASE r.kind # "batch"
    <3>1. PICK s : s = NotePeerBlockHeight(sync, r.peer, r.height, height) OBVIOUS
    <3>2. s \in SyncStates /\ s.pending = sync.pending BY <1>0, <2>3, <3>1 DEF NotePeerBlockHeight, SyncStates
    <3>3. sync' = sync \/ sync' \in TryStartCatchUp(s, height) BY <1>12, <2>1, <2>5, <3>1 DEF ApplyDone
    <3> QED BY <1>1, <1>2, <3>2, <3>3, PlannedStarts
  <2> QED BY <2>4, <2>5
<1>13. ASSUME NEW p \in Peers, BlacklistExpires(p) PROVE Planned(sync', height')
  <2>1. sync'.pending = sync.pending BY <1>0, <1>13 DEF BlacklistExpires, SyncStates
  <2> QED BY <1>2, <2>1
<1>14. CASE WorkerTake \/ WorkerSend \/ UNCHANGED vars
  <2>1. sync' = sync BY <1>14 DEF WorkerTake, WorkerSend, vars, loopVars
  <2> QED BY <1>1, <1>2, <2>1
<1>15. CASE Environment BY <1>1, <1>4, <1>5, <1>6, <1>11, <1>15 DEF Environment
<1>16. CASE \E i \in RequestIds : RangeAnswer(i) \/ OutboundFailure(i) BY <1>1, <1>9, <1>10, <1>16 DEF RangeAnswer
<1>17. CASE \E p \in Peers : BlacklistExpires(p) BY <1>1, <1>13, <1>17
<1> QED BY <1>1, <1>3, <1>12, <1>14, <1>15, <1>16, <1>17 DEF Next

\* A good batch put into the queue keeps the invariant.
LEMMA HonestQueue ==
    ASSUME TypeOK, BatchInv, NEW job \in Jobs, HonestJob(job, height, job.from),
           queue' = Append(queue, job) \/ queue' = queue, UNCHANGED <<height, workVars>>, Planned(sync', height')
    PROVE  BatchInv'
<1>0. queue \in Seq(Jobs) BY DEF TypeOK
<1>1. \A k \in DOMAIN queue' : HonestJob(queue'[k], height, queue'[k].from)
  <2>1. CASE queue' = queue BY <2>1 DEF BatchInv
  <2>2. CASE queue' = Append(queue, job)
    <3>1. /\ Len(queue) \in Nat /\ DOMAIN queue = 1..Len(queue) /\ DOMAIN queue' = 1..(Len(queue) + 1)
          /\ \A k \in 1..Len(queue) : queue'[k] = queue[k]
          /\ queue'[Len(queue) + 1] = job
      BY <1>0, <2>2
    <3>2. ASSUME NEW k \in DOMAIN queue' PROVE HonestJob(queue'[k], height, queue'[k].from)
      <4>1. CASE k = Len(queue) + 1 BY <3>1, <4>1
      <4>2. CASE k # Len(queue) + 1
        <5>1. k \in DOMAIN queue /\ queue'[k] = queue[k] BY <3>1, <3>2, <4>2
        <5> QED BY <5>1 DEF BatchInv
      <4> QED BY <4>1, <4>2
    <3> QED BY <3>2
  <2> QED BY <2>1, <2>2
<1> QED BY <1>1 DEF BatchInv, workVars, HonestJob, HonestEnd

\* Every step keeps the batches of honest peers good.
LEMMA BatchSteps == ASSUME TypeOK, WInv, BatchInv, [Next]_vars PROVE BatchInv'
<1>0. /\ queue \in Seq(Jobs) /\ height \in Nat /\ done \in Seq(Results) /\ sync \in SyncStates
      /\ running \in [job : Jobs, next : Nat, applied : BOOLEAN] \cup {NoJob}
  BY DEF TypeOK
<1>1. Planned(sync, height) BY DEF BatchInv
<1>2. ~WorkerApply => Planned(sync', height') /\ height' = height BY <1>1, PlannedSteps
<1>3. ASSUME ~WorkerApply, UNCHANGED <<queue, running, result, done>> PROVE BatchInv'
  BY <1>2, <1>3 DEF BatchInv
<1>4. ASSUME ~WorkerApply, NEW p \in Peers, NEW h \in Heights, NEW bad \in BOOLEAN, GossipBlock(p, h, bad) PROVE BatchInv'
  <2>1. PICK job : job = [kind |-> "gossip", peer |-> p, from |-> h, to |-> h, bad |-> bad] OBVIOUS
  <2>2. job \in Jobs /\ job.kind = "gossip" BY <2>1 DEF Jobs, Heights
  <2>3. HonestJob(job, height, job.from) BY <2>2 DEF HonestJob
  <2>4. queue' = Append(queue, job) \/ queue' = queue BY <1>4, <2>1 DEF GossipBlock, OfferDroppable, Enqueue
  <2>5. UNCHANGED workVars BY <1>4 DEF GossipBlock
  <2> QED BY <1>2, <1>4, <2>2, <2>3, <2>4, <2>5, HonestQueue
<1>5. ASSUME ~WorkerApply, NEW i \in RequestIds, NEW from \in Heights, NEW to \in Heights, NEW bad \in BOOLEAN, RangeResponse(i, from, to, bad)
      PROVE  BatchInv'
  <2>1. PICK job : job = [kind |-> "batch", peer |-> sync.pending[i].peer, from |-> from, to |-> to, bad |-> bad] OBVIOUS
  <2>2. sync.pending[i] \in Requests /\ sync.pending[i] # NoRequest BY <1>0, <1>5 DEF RangeResponse, SyncStates
  <2>3. job \in Jobs /\ job.peer = sync.pending[i].peer /\ job.from = from /\ job.to = to /\ job.bad = bad
    BY <2>1, <2>2 DEF Jobs, Heights, Requests
  <2>4. sync.pending[i].from <= height + 1 BY <1>1, <2>2 DEF Planned
  <2>5. job.peer \in Honest => from = sync.pending[i].from /\ from <= to /\ ~bad
    BY <1>5, <2>3, <2>2 DEF RangeResponse, Heights, Requests
  <2>6. HonestJob(job, height, job.from)
    <3>1. from \in Nat /\ to \in Nat BY DEF Heights
    <3> QED BY <2>3, <2>4, <2>5, <3>1 DEF HonestJob
  <2>7. queue' = Append(queue, job) \/ queue' = queue BY <1>5, <2>1 DEF RangeResponse, Enqueue
  <2>8. UNCHANGED workVars BY <1>5 DEF RangeResponse
  <2> QED BY <1>2, <1>5, <2>3, <2>6, <2>7, <2>8, HonestQueue
<1>6. CASE ~WorkerApply /\ WorkerTake
  <2>1. queue # <<>> /\ queue' = Tail(queue) /\ UNCHANGED <<result, done>> BY <1>6 DEF WorkerTake
  <2>2. /\ Len(queue) \in Nat /\ Len(queue) > 0 /\ DOMAIN queue = 1..Len(queue) /\ DOMAIN queue' = 1..(Len(queue) - 1)
        /\ \A k \in 1..(Len(queue) - 1) : queue'[k] = queue[k + 1]
        /\ Head(queue) = queue[1]
    BY <1>0, <2>1
  <2>3. running'.job = queue[1] /\ running'.next = queue[1].from BY <1>6, <2>2 DEF WorkerTake
  <2>4. 1 \in DOMAIN queue /\ \A k \in DOMAIN queue' : k + 1 \in DOMAIN queue /\ queue'[k] = queue[k + 1] BY <2>2
  <2>5. HonestJob(running'.job, height, running'.next) BY <2>3, <2>4 DEF BatchInv
  <2>6. \A k \in DOMAIN queue' : HonestJob(queue'[k], height, queue'[k].from) BY <2>4 DEF BatchInv
  <2> QED BY <1>2, <1>6, <2>1, <2>5, <2>6 DEF BatchInv, HonestJob, HonestEnd
<1>7. CASE WorkerApply
  <2> DEFINE job == running.job  h == running.next
             o == Outcome(h, job.bad /\ h = job.to, height)
             last == h = job.to \/ o \in {"gap", "rejected"}
  <2>1. running # NoJob /\ running \in [job : Jobs, next : Nat, applied : BOOLEAN] BY <1>0, <1>7 DEF WorkerApply
  <2>2. job \in Jobs /\ h \in Nat /\ job.to \in Nat /\ job.bad \in BOOLEAN BY <2>1 DEF Jobs
  <2>3. HonestJob(job, height, h) BY <2>1 DEF BatchInv
  <2>4. /\ o = "applied" => h = height + 1
        /\ o = "skipped" => h <= height
        /\ job.kind = "batch" /\ job.peer \in Honest => o \in {"applied", "skipped"}
    BY <1>0, <2>2, <2>3 DEF Outcome, HonestJob
  <2>5. height' = (IF o = "applied" THEN h ELSE height) /\ UNCHANGED <<sync, queue, done>> BY <1>7 DEF WorkerApply, loopVars
  <2>6. PICK a : /\ last => running' = NoJob
                            /\ result' = [kind |-> job.kind, peer |-> job.peer, height |-> h, applied |-> a, outcome |-> o]
                 /\ ~last => /\ running' = [running EXCEPT !.next = h + 1, !.applied = a]
                             /\ UNCHANGED result
    BY <1>7 DEF WorkerApply
  <2> HIDE DEF o
  <2>7. height' \in Nat /\ height' >= height BY <1>0, <2>2, <2>4, <2>5
  <2>8. Planned(sync', height')
    <3>1. \A i \in RequestIds : sync.pending[i] # NoRequest => sync.pending[i].from \in Nat BY <1>0 DEF SyncStates, Requests
    <3> QED BY <1>0, <1>1, <2>5, <2>7, <3>1 DEF Planned
  <2>13. \A k \in DOMAIN queue : queue[k] \in Jobs BY <1>0
  <2>14. \A j \in Jobs : j.from \in Nat BY DEF Jobs
  <2>9. \A k \in DOMAIN queue : queue[k] \in Jobs /\ queue[k].from \in Nat BY <2>13, <2>14
  <2>10. \A k \in DOMAIN queue : HonestJob(queue[k], height', queue[k].from) BY <1>0, <2>7, <2>9 DEF BatchInv, HonestJob
  <2>11. CASE last
    <3>1. HonestEnd(result') BY <2>4, <2>6, <2>11 DEF HonestEnd
    <3> QED BY <2>5, <2>6, <2>8, <2>10, <2>11, <3>1 DEF BatchInv, HonestEnd, HonestJob
  <2>12. CASE ~last
    <3>1. running' = [running EXCEPT !.next = h + 1, !.applied = a] /\ UNCHANGED result BY <2>6, <2>12
    <3>2. running'.job = job /\ running'.next = h + 1 BY <2>1, <3>1
    <3>3. HonestJob(job, height', h + 1)
      BY <1>0, <2>2, <2>3, <2>4, <2>5, <2>7, <2>12 DEF HonestJob
    <3> QED BY <2>5, <2>8, <2>10, <3>1, <3>2, <3>3 DEF BatchInv, HonestEnd
  <2> QED BY <2>11, <2>12
<1>8. CASE ~WorkerApply /\ WorkerSend
  <2>1. result # NoJob /\ result \in Results /\ done' = Append(done, result) /\ result' = NoJob /\ UNCHANGED <<queue, running>>
    BY <1>8 DEF WorkerSend, TypeOK
  <2>2. /\ Len(done) \in Nat /\ DOMAIN done = 1..Len(done) /\ DOMAIN done' = 1..(Len(done) + 1)
        /\ \A k \in 1..Len(done) : done'[k] = done[k]
        /\ done'[Len(done) + 1] = result
    BY <1>0, <2>1
  <2>3. ASSUME NEW k \in DOMAIN done' PROVE HonestEnd(done'[k])
    <3>1. CASE k = Len(done) + 1 BY <2>1, <2>2, <3>1 DEF BatchInv
    <3>2. CASE k # Len(done) + 1
      <4>1. k \in DOMAIN done /\ done'[k] = done[k] BY <2>2, <2>3, <3>2
      <4> QED BY <4>1 DEF BatchInv
    <3> QED BY <3>1, <3>2
  <2> QED BY <1>2, <1>8, <2>1, <2>3 DEF BatchInv
<1>9. CASE ~WorkerApply /\ ApplyDone
  <2>1. done # <<>> /\ done' = Tail(done) /\ UNCHANGED <<queue, running, result>> BY <1>9 DEF ApplyDone
  <2>2. \A k \in DOMAIN done' : k + 1 \in DOMAIN done /\ done'[k] = done[k + 1] BY <1>0, <2>1
  <2>3. \A k \in DOMAIN done' : HonestEnd(done'[k]) BY <2>2 DEF BatchInv
  <2> QED BY <1>2, <1>9, <2>1, <2>3 DEF BatchInv
<1>10. CASE ~WorkerApply /\ (Tick \/ UNCHANGED vars) BY <1>3, <1>10 DEF Tick, workVars, vars
<1>11. CASE /\ ~WorkerApply
            /\ \/ \E D \in SUBSET Bootnodes : HelloTimeout(D)
               \/ \E p \in Peers, h \in Heights : ChainHello(p, h)
               \/ \E p \in Peers : ConnectionClosed(p) \/ BlacklistExpires(p)
               \/ \E i \in RequestIds : OutboundFailure(i)
  BY <1>3, <1>11 DEF HelloTimeout, ChainHello, ConnectionClosed, BlacklistExpires, OutboundFailure, workVars
<1>12. CASE ~WorkerApply /\ Environment BY <1>4, <1>11, <1>12 DEF Environment
<1>13. CASE ~WorkerApply /\ \E i \in RequestIds : RangeAnswer(i) BY <1>5, <1>13 DEF RangeAnswer
<1> QED BY <1>6, <1>7, <1>8, <1>9, <1>10, <1>11, <1>12, <1>13 DEF Next

\* The types hold, the slot counter is exact, gossip never takes the slots
\* reserved for catch-up, and no batch of an honest peer fails, however stale
\* the height its request was planned from (apply_worker.rs, sync.rs).
THEOREM BatchesAreSound == Spec => []BatchesSound
<1> DEFINE I == Inv /\ GossipInv /\ BatchInv
<1>1. Init => I
  <2> SUFFICES ASSUME Init PROVE I OBVIOUS
  <2>1. Inv BY InitInv
  <2>2. GossipInv
    <3>1. Gossip(queue) = {} BY DEF Init, Gossip
    <3>2. GossipRuns = 0 BY DEF Init, GossipRuns
    <3>3. Cardinality(Gossip(queue)) = 0 BY <3>1, FS_EmptySet
    <3>4. ApplyCap \in Nat /\ ApplyCap > 2 BY CatchUpAssumption DEF RESERVED_FOR_CATCH_UP
    <3> QED BY <3>2, <3>3, <3>4 DEF GossipInv, RESERVED_FOR_CATCH_UP
  <2>3. BatchInv BY DEF Init, BatchInv, Planned
  <2> QED BY <2>1, <2>2, <2>3
<1>2. I /\ [Next]_vars => I'
  <2>1. Inv => TypeOK /\ WInv BY DEF Inv, IInv
  <2> QED BY <2>1, NextInv, GossipSteps, BatchSteps
<1>3. I => BatchesSound
  <2>1. Inv => TypeOK /\ depth = Len(queue) + (IF running = NoJob THEN 0 ELSE 1) /\ depth <= ApplyCap BY DEF Inv, IInv, WInv, Busyness
  <2>2. GossipInv => Cardinality({k \in DOMAIN queue : queue[k].kind = "gossip"})
         + (IF running # NoJob /\ running.job.kind = "gossip" THEN 1 ELSE 0)
       <= ApplyCap - RESERVED_FOR_CATCH_UP BY DEF GossipInv, Gossip, GossipRuns
  <2>3. BatchInv => HonestBatchNeverFails BY DEF BatchInv, HonestBatchNeverFails, HonestEnd
  <2> QED BY <2>1, <2>2, <2>3 DEF BatchesSound, SlotsAccounted
<1> QED BY <1>1, <1>2, <1>3, PTL DEF Spec
=============================================================================
