------------------------------ MODULE AnonRegistry ------------------------------
(***************************************************************************)
(* The anonymity set of one node (tet-core/src/tmail/store.rs, anon.rs)    *)
(* and its anti-entropy with a peer (p2p.rs).  A registration admitted in  *)
(* epoch e is a leaf from epoch e + 1; a proof is accepted when its root   *)
(* is that of an epoch inside the window; the roots of epochs are kept in  *)
(* a small cache in memory.  A node that gossip passed by catches up by    *)
(* comparing roots with a peer and paging through its registry, a bounded  *)
(* amount of verification per round.                                       *)
(*                                                                         *)
(* A root is the set of leaves it commits to.  A registration whose        *)
(* signature does not verify never reaches register_anon and is left out.  *)
(***************************************************************************)
EXTENDS Naturals, FiniteSets, Sequences, FiniteSetsExt

CONSTANTS
    Members,        \* wallet ids, numbers for their order
    Offers,         \* registrations clients and gossip bring here: [w, c, at]
    PeerSet,        \* the peer's registrations, all admitted before the behaviour starts
    EpochLength,    \* ticks per epoch
    RootWindow,     \* TET_TMAIL_ANON_ROOT_WINDOW_MS, in ticks
    MaxRootScan,    \* ANON_MAX_ROOT_SCAN
    RootCacheCap,   \* TET_TMAIL_ANON_ROOT_HISTORY
    MaxMembers,     \* TET_TMAIL_ANON_MAX_MEMBERS
    Cooldown,       \* TET_TMAIL_ANON_UPDATE_COOLDOWN_MS
    PageSize, MaxPages, VerifyBudget,   \* of one sync round; the budget in registrations
    MaxRegTime,     \* bound: clock
    MaxSyncFaults   \* bound: lost or rate-limited answers, and restarts

NoReg == [c |-> 0, at |-> 0, adm |-> 0]
NoRound == [phase |-> "idle", after |-> 0, page |-> 0, spent |-> 0]

ASSUME RegistryAssumption ==
    /\ Members \subseteq Nat \ {0} /\ IsFiniteSet(Members)
    /\ Offers \cup PeerSet \subseteq [w : Members, c : Nat \ {0}, at : Nat]
    /\ IsFiniteSet(PeerSet) /\ \A x, y \in PeerSet : x.w = y.w => x = y    \* keyed by wallet
    /\ {EpochLength, RootWindow, MaxRootScan, RootCacheCap, MaxMembers, PageSize, MaxPages,
        VerifyBudget} \subseteq Nat \ {0}
    /\ {Cooldown, MaxRegTime, MaxSyncFaults} \subseteq Nat

VARIABLES
    rclock,     \* the node's clock
    reg,        \* anon_registry
    rootCache,  \* anon_roots: <<epoch, root>>, oldest insertion first
    shown,      \* history: roots clients were given, each with its epoch
    round,      \* the sync round with the peer: what is awaited, and the counters of it
    resume,     \* anon_sync_resume
    syncFaults

registryVars == <<rclock, reg, rootCache, shown, round, resume, syncFaults>>

Epoch(t) == t \div EpochLength
Held(r) == {w \in Members : r[w] # NoReg}

(***************************************************************************)
(* Admission                                                               *)
(***************************************************************************)
\* register_anon: what a registration x changes at time t.
Admit(r, x, t) ==
    LET old == r[x.w]
        new == [r EXCEPT ![x.w] = [c |-> x.c, at |-> x.at, adm |-> t]]
    IN  IF old # NoReg
        THEN IF old.c = x.c \/ old.at > x.at \/ t - old.adm < Cooldown THEN r ELSE new
        ELSE IF Cardinality(Held(r)) >= MaxMembers THEN r ELSE new

(***************************************************************************)
(* Leaves, roots and the cache                                             *)
(***************************************************************************)
\* Mutant: a registration is a leaf of the epoch it was admitted in.
LeavesAtOnce(r, e) ==
    {<<w, r[w].c>> : w \in {v \in Held(r) : Epoch(r[v].adm) <= e}}
\* anon_leaves_for_epoch: admitted in an earlier epoch.  The code sorts them by wallet id,
\* so the root stands for the set of wallets and commitments.
LeavesForEpoch(r, e) ==
    {<<w, r[w].c>> : w \in {v \in Held(r) : Epoch(r[v].adm) < e}}

Cached(cache, e) == {i \in DOMAIN cache : cache[i][1] = e}
\* anon_root_for_epoch: the cache first, recomputed on a miss.
RootForEpoch(r, cache, e) ==
    IF Cached(cache, e) # {} THEN cache[Min(Cached(cache, e))][2] ELSE LeavesForEpoch(r, e)
\* Mutant: nothing makes room.
RememberAll(r, cache, e) ==
    IF Cached(cache, e) # {} THEN cache ELSE Append(cache, <<e, LeavesForEpoch(r, e)>>)
\* The cache after that call: the oldest insertions make room.
Remember(r, cache, e) ==
    LET longer == IF Cached(cache, e) # {} THEN cache
                  ELSE Append(cache, <<e, LeavesForEpoch(r, e)>>)
        excess == IF Len(longer) > RootCacheCap THEN Len(longer) - RootCacheCap ELSE 0
    IN  SubSeq(longer, excess + 1, Len(longer))

\* Mutant: the window is rounded down to whole epochs.
ScanSpanFloor == Min({RootWindow \div EpochLength, MaxRootScan})
ScanSpan == Min({(RootWindow + EpochLength - 1) \div EpochLength, MaxRootScan})
OldestEpoch(t) == IF Epoch(t) > ScanSpan THEN Epoch(t) - ScanSpan ELSE 0
\* accepts_anon_root, without the bound on the message's day: the epochs of the window are
\* looked up newest first until one has the root, and every lookup fills the cache.
RootScan(r, cache, root, t) ==
    LET epochs == Epoch(t) - OldestEpoch(t) + 1
        scan[n \in 0..epochs] ==
            IF n = 0 THEN [found |-> FALSE, cache |-> cache]
            ELSE IF scan[n - 1].found THEN scan[n - 1]
            ELSE [found |-> RootForEpoch(r, scan[n - 1].cache, Epoch(t) + 1 - n) = root,
                  cache |-> Remember(r, scan[n - 1].cache, Epoch(t) + 1 - n)]
    IN  scan[epochs]
AcceptsRoot(r, cache, root, t) == RootScan(r, cache, root, t).found

(***************************************************************************)
(* The registry on its own                                                 *)
(***************************************************************************)
RegistryInit ==
    /\ rclock = 0 /\ reg = [w \in Members |-> NoReg] /\ rootCache = <<>> /\ shown = {}
    /\ round = NoRound /\ resume = 0 /\ syncFaults = 0

\* POST /tmail/anon/register, gossip and /tet/v1/anon-register share one admission.
Register(x) ==
    /\ reg' = Admit(reg, x, rclock)
    /\ reg' # reg
    /\ UNCHANGED <<rclock, rootCache, shown, round, resume, syncFaults>>

\* GET /tmail/anon/leaves (and root): a client takes the current epoch's tree home.
ShowRoot ==
    /\ LET e == Epoch(rclock)
       IN  /\ shown' = shown \cup {<<e, RootForEpoch(reg, rootCache, e)>>}
           /\ rootCache' = Remember(reg, rootCache, e)
    /\ <<shown, rootCache>>' # <<shown, rootCache>>
    /\ UNCHANGED <<rclock, reg, round, resume, syncFaults>>

\* A proof against a root that was shown is checked: the scan fills the cache.
CheckProof(s) ==
    /\ rootCache' = RootScan(reg, rootCache, s[2], rclock).cache
    /\ rootCache' # rootCache
    /\ UNCHANGED <<rclock, reg, shown, round, resume, syncFaults>>

RegistryTick ==
    /\ rclock < MaxRegTime
    /\ rclock' = rclock + 1
    /\ UNCHANGED <<reg, rootCache, shown, round, resume, syncFaults>>

\* A restart empties the cache and the sync's memory.
RegistryRestart ==
    /\ syncFaults < MaxSyncFaults
    /\ syncFaults' = syncFaults + 1
    /\ rootCache' = <<>> /\ round' = NoRound /\ resume' = 0
    /\ UNCHANGED <<rclock, reg, shown>>

(***************************************************************************)
(* Anti-entropy                                                            *)
(***************************************************************************)
PeerRoot == {<<x.w, x.c>> : x \in PeerSet}

\* anon_registrations_after: one page of the peer's registry, and whether more follows.
PageAfter(after) ==
    LET rest == {x \in PeerSet : x.w > after}
        regs == {x \in rest : Cardinality({y \in rest : y.w < x.w}) < PageSize}
    IN  [regs |-> regs, next |-> IF regs = rest THEN 0 ELSE Max({x.w : x \in regs})]

\* The ticker or a new connection: ask for root and total only.
SyncProbe ==
    /\ round.phase = "idle"
    /\ round' = [NoRound EXCEPT !.phase = "probe"]
    /\ UNCHANGED <<rclock, reg, rootCache, shown, resume, syncFaults>>

\* The answer to a probe, or an answer the peer's rate limiter emptied: roots agree and the
\* round is over, or it starts from where the last one stopped.
CompareRoots ==
    LET e == Epoch(rclock)
    IN  /\ rootCache' = Remember(reg, rootCache, e)
        /\ round' = IF PeerRoot = RootForEpoch(reg, rootCache, e) THEN NoRound
                    ELSE [phase |-> "page", after |-> resume, page |-> 0, spent |-> 0]

ProbeAnswer ==
    /\ round.phase = "probe"
    /\ CompareRoots
    /\ UNCHANGED <<rclock, reg, shown, resume, syncFaults>>

PageRefused ==
    /\ round.phase = "page" /\ syncFaults < MaxSyncFaults
    /\ syncFaults' = syncFaults + 1
    /\ CompareRoots
    /\ UNCHANGED <<rclock, reg, shown, resume>>

\* Mutant: a round that ran out of budget forgets where it stopped.
EndOfPageForgets(next, pages, spent) ==
    IF spent < VerifyBudget /\ next # 0 /\ pages < MaxPages
    THEN [round |-> [phase |-> "page", after |-> next, page |-> pages, spent |-> spent], resume |-> resume]
    ELSE [round |-> NoRound, resume |-> 0]
\* After a page: out of budget, on to the next, or complete.
EndOfPage(next, pages, spent) ==
    CASE spent >= VerifyBudget -> [round |-> NoRound, resume |-> next]
      [] spent < VerifyBudget /\ next # 0 /\ pages < MaxPages ->
            [round |-> [phase |-> "page", after |-> next, page |-> pages, spent |-> spent], resume |-> resume]
      [] OTHER -> [round |-> NoRound, resume |-> 0]

\* The page's registrations are admitted in its order, which is that of the wallets.
AdmitPage(r, regs, t) ==
    LET last == Max(Members \cup {0})
        after[n \in 0..last] ==
            IF n = 0 THEN r
            ELSE IF \E x \in regs : x.w = n
                 THEN Admit(after[n - 1], CHOOSE x \in regs : x.w = n, t)
                 ELSE after[n - 1]
    IN  after[last]

PageArrives ==
    /\ round.phase = "page"
    /\ \E p \in {PageAfter(round.after)} :
       \E end \in {EndOfPage(p.next, round.page + 1, round.spent + Cardinality(p.regs))} :
           /\ reg' = AdmitPage(reg, p.regs, rclock)
           /\ round' = end.round /\ resume' = end.resume
    /\ UNCHANGED <<rclock, rootCache, shown, syncFaults>>

\* OutboundFailure: the counters go, the cursor stays.
SyncLost ==
    /\ round.phase # "idle" /\ syncFaults < MaxSyncFaults
    /\ syncFaults' = syncFaults + 1
    /\ round' = NoRound
    /\ UNCHANGED <<rclock, reg, rootCache, shown, resume>>

\* The round, step by step.
SyncStep == SyncProbe \/ ProbeAnswer \/ PageArrives

RegistryNext ==
    \/ \E x \in Offers : Register(x)
    \/ ShowRoot \/ \E s \in shown : CheckProof(s)
    \/ RegistryTick \/ RegistryRestart
    \/ SyncStep \/ PageRefused \/ SyncLost

\* The ticker runs and, once the faults are used up, the peer answers.
RegistrySpec == RegistryInit /\ [][RegistryNext]_registryVars /\ WF_registryVars(SyncStep)

(***************************************************************************)
(* Properties                                                              *)
(***************************************************************************)
\* Types; the cache is within its cap and holds an epoch once.
RegistryTypeOK ==
    /\ rclock \in 0..MaxRegTime
    /\ reg \in [Members -> [c : Nat, at : Nat, adm : 0..MaxRegTime]]
    /\ Cardinality(Held(reg)) <= MaxMembers
    /\ rootCache \in Seq(Nat \X SUBSET (Members \X Nat)) /\ Len(rootCache) <= RootCacheCap
    /\ \A i, j \in DOMAIN rootCache : rootCache[i][1] = rootCache[j][1] => i = j
    /\ round \in [phase : {"idle", "probe", "page"}, after : Members \cup {0}, page : 0..MaxPages, spent : Nat]
    /\ resume \in Members \cup {0} /\ shown \subseteq Nat \X SUBSET (Members \X Nat)

\* The memoised root of an epoch is what recomputing it gives (anon_root_for_epoch).
CacheIsExact == \A i \in DOMAIN rootCache : rootCache[i][2] = LeavesForEpoch(reg, rootCache[i][1])

\* anon_effective_window_ms: the window after the cap on the scan.
EffectiveWindow == Min({RootWindow, MaxRootScan * EpochLength})

\* A root that a client was given is accepted for the whole window: registrations, floods, a
\* full cache and a restart in between do not take it away (accepts_anon_root).
ShownRootsAccepted ==
    \A s \in shown : rclock < (s[1] + 1) * EpochLength + EffectiveWindow =>
        AcceptsRoot(reg, rootCache, s[2], rclock)

\* The registry within its limits, its cache exact, and the roots it showed accepted.
RegistrySound == RegistryTypeOK /\ CacheIsExact /\ ShownRootsAccepted

\* Whatever the peer holds, the node holds in the end, over as many rounds as the budget of
\* verification needs (the resume cursor of the sync round).
RegistryConverges == <>({x.w : x \in PeerSet} \subseteq Held(reg))
=================================================================================
