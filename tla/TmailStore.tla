------------------------------ MODULE TmailStore ------------------------------
(***************************************************************************)
(* The Tmail buffer of one node (tet-core/src/tmail/store.rs): named mail, *)
(* anonymous posts with a membership proof, fast posts that lean on an     *)
(* earlier proof, polls, burning, retention and expiry.                    *)
(*                                                                         *)
(* Two threads work on it.  A client's anonymous send runs on a blocking   *)
(* thread that holds anon_send_lock from the check of the proof to the     *)
(* verdict; the swarm loop stores what gossip brings and judges it when    *)
(* the receipt is at hand, holding no lock.  Each step of a thread is one  *)
(* call into the store; what such a call does in several writes to sled    *)
(* (store_tmail, set_anon_verdict) is one step here, except that the       *)
(* lookup and the insert of a nullifier claim are two.                     *)
(*                                                                         *)
(* Signatures, ciphertext and the proof itself are abstracted: Envelope    *)
(* says who wrote what when and whether the proof is genuine.              *)
(***************************************************************************)
EXTENDS Naturals, FiniteSets, FiniteSetsExt

CONSTANTS
    Msgs,           \* messages, identified by msg_id (numbers: the tie-break of equal times)
    Envelope,       \* what a message says
    RestMsgs,       \* messages a client of this node sends; any message may arrive by gossip
    Scenarios,      \* sets of messages that meet in one behaviour
    PollRoot,       \* poll wallets, each with the root of its member list (AnySetRoot: open)
    PollDay,        \* the day of each poll
    AnySetRoot,     \* an open poll takes any root the node accepts
    FirstRoots,     \* registry roots accepted at the start
    NewRoots,       \* roots the node learns later
    DayLength,      \* ticks in a UTC day
    Skew,           \* SENT_AT_SKEW_MS
    DefaultTtl, MaxTtl,
    MaxEntries,     \* TET_TMAIL_MAX_ENTRIES
    RetainNamed,    \* RETAIN_PER_CONVERSATION
    RetainDaily,    \* ANON_RETAIN_PER_DAILY_ID
    RetainAnon,     \* ANON_RETAIN_PER_RECEIVER
    PendingPerKey, PendingTotal, PendingTtl,
    Burst, DailyCap,        \* FAST_BURST, FAST_DAILY_CAP; one token comes back per tick
    ReceiptCap,     \* TET_TMAIL_ANON_RECEIPT_CACHE
    MaxTime,        \* bound: clock
    MaxTmailCrashes \* bound: restarts

Day(t) == t \div DayLength
KeyOf(m) == <<Envelope[m].to, Day(Envelope[m].at), Envelope[m].key>>
PostingKeys == {KeyOf(m) : m \in Msgs}
Nullifiers == {Envelope[m].null : m \in Msgs}
Boards == {Envelope[m].to : m \in Msgs}
ReceiptIds == {Envelope[m].receipt : m \in Msgs}
Unclaimed == 0
Idle == [pc |-> "idle", m |-> 0, stored |-> FALSE]

ASSUME TmailAssumption ==
    /\ Msgs \subseteq Nat \ {0} /\ IsFiniteSet(Msgs)
    /\ Envelope \in [Msgs -> [kind : {"named", "proof", "fast"}, to : STRING, from : STRING,
                              key : STRING, null : Nat, ok : BOOLEAN, root : STRING,
                              receipt : Nat, at : Nat, ttl : Nat, burn : BOOLEAN]]
    /\ RestMsgs \subseteq Msgs /\ \A S \in Scenarios : S \subseteq Msgs
    /\ DOMAIN PollRoot = DOMAIN PollDay
    /\ DayLength \in Nat \ {0} /\ Skew \in Nat
    /\ DefaultTtl \in Nat \ {0} /\ MaxTtl \in Nat \ {0}
    /\ {MaxEntries, RetainNamed, RetainDaily, RetainAnon, Burst, DailyCap, ReceiptCap} \subseteq Nat \ {0}
    /\ {PendingPerKey, PendingTotal, PendingTtl, MaxTime, MaxTmailCrashes} \subseteq Nat

VARIABLES
    clock,      \* the node's clock
    active,     \* the scenario: messages of this behaviour
    mdb,        \* the trees of the store
    setRoots,   \* roots accepts_anon_root accepts now (AnonRegistry models how they change)
    flood,      \* fast_flood: in memory
    sender,     \* the blocking thread that holds anon_send_lock
    swarm,      \* the swarm loop: the messages it is judging, and the one it is at
    pulls,      \* receipts asked of the peers
    gone,       \* history: messages burned, or refused for good while they were held
    proved,     \* history: posts whose proof was found good
    tmCrashes

tmailVars == <<clock, active, mdb, setRoots, flood, sender, swarm, pulls, gone, proved, tmCrashes>>

(***************************************************************************)
(* Times, expiry and order                                                 *)
(***************************************************************************)
EffectiveTtl(ttl) == Min({MaxTtl, IF ttl = 0 THEN DefaultTtl ELSE ttl})
ExpireAt(m) == Envelope[m].at + EffectiveTtl(Envelope[m].ttl)
IsExpired(m, t) == t > ExpireAt(m)
Anonymous(m) == Envelope[m].kind # "named"
IsFastPost(m) == Envelope[m].kind = "fast"

\* check_sent_at: within the skew, and an anonymous post on its own UTC day.
SentAtOk(m, t) ==
    /\ Envelope[m].at <= t + Skew /\ t <= Envelope[m].at + Skew
    /\ Anonymous(m) => Day(Envelope[m].at) = Day(t)

\* Newest first, ties broken by the index key.
Newer(a, b) == \/ Envelope[a].at > Envelope[b].at
               \/ Envelope[a].at = Envelope[b].at /\ a > b

Live(d, m) == m \in d.mail /\ d.index[m] = "live"
IsPoll(d, w) == w \in d.polls
Verified(d, m) == d.verdict[m] = "verified"

(***************************************************************************)
(* Removing messages                                                       *)
(***************************************************************************)
\* Mutant: a burned message leaves no mark, so gossip can bring it back.
DeleteForgets(d, S) ==
    LET held == {m \in S : Live(d, m)}
    IN  [d EXCEPT !.mail = @ \ held,
                  !.index = [m \in Msgs |-> IF m \in held THEN "none" ELSE @[m]]]
\* delete_by_msg_id of each message in S: the body goes, a tombstone stays.
DeleteByMsgId(d, S) ==
    LET held == {m \in S : Live(d, m)}
    IN  [d EXCEPT !.mail = @ \ held,
                  !.index = [m \in Msgs |-> IF m \in held THEN "burned" ELSE @[m]]]

\* forget_by_msg_id: nothing stays, a later delivery is stored again.
ForgetByMsgId(d, S) ==
    LET held == {m \in S : Live(d, m)}
    IN  [d EXCEPT !.mail = @ \ held,
                  !.index = [m \in Msgs |-> IF m \in held THEN "none" ELSE @[m]]]

\* Mutant: the dropped message's index entry still points at it.
RetireBodyOnly(d, S) == [d EXCEPT !.mail = @ \ S]
\* What both retention rules do with what they drop.
Retire(d, S) ==
    [d EXCEPT !.mail = @ \ S,
              !.index = [m \in Msgs |-> IF m \in S THEN "pruned" ELSE @[m]]]

PruneExpired(d, t) ==
    LET old == {m \in d.mail : IsExpired(m, t)}
        stale == {m \in Msgs : d.index[m] \in {"burned", "pruned"} /\ t > ExpireAt(m)}
    IN  [d EXCEPT !.mail = @ \ old,
                  !.index = [m \in Msgs |-> IF m \in old \cup stale THEN "none" ELSE @[m]]]

(***************************************************************************)
(* Conversations and retention                                             *)
(***************************************************************************)
FastRegistration(d, m) == {r \in d.fastKeys : r.k = KeyOf(m)}

\* conversation_key: only a verified nullifier groups anonymous posts.
ConversationKey(d, m) ==
    CASE Envelope[m].kind = "named" -> <<"named", Envelope[m].from>>
      [] Envelope[m].kind = "proof" /\ Verified(d, m) -> <<"anonymous", Envelope[m].null>>
      [] IsFastPost(m) /\ FastRegistration(d, m) # {} ->
            <<"anonymous", (CHOOSE r \in FastRegistration(d, m) : TRUE).null>>
      [] OTHER -> <<"unverified", m>>

\* Mutant: one message too many stays in a conversation.
RetentionOffByOne(d, to, group) ==
    LET rows == {x \in d.mail : Envelope[x].to = to /\ ConversationKey(d, x) = group}
        keep == IF group[1] = "named" THEN RetainNamed ELSE RetainDaily
    IN  Retire(d, {x \in rows : Cardinality({y \in rows : Newer(y, x)}) > keep})
EnforceRetention(d, to, group) ==
    LET rows == {x \in d.mail : Envelope[x].to = to /\ ConversationKey(d, x) = group}
        keep == IF group[1] = "named" THEN RetainNamed ELSE RetainDaily
    IN  Retire(d, {x \in rows : Cardinality({y \in rows : Newer(y, x)}) >= keep})

\* Mutant: the cap keeps the newest posts, verified or not.
CapByAge(d, to) ==
    LET rows == {x \in d.mail : Envelope[x].to = to /\ Anonymous(x)}
    IN  IF IsPoll(d, to) THEN d
        ELSE Retire(d, {x \in rows : Cardinality({y \in rows : Newer(y, x)}) >= RetainAnon})
\* Mutant: a poll's ballots are capped like a board's posts.
CapPollsToo(d, to) ==
    LET rows == {x \in d.mail : Envelope[x].to = to /\ Anonymous(x)}
        Before(y, x) == \/ Verified(d, y) /\ ~Verified(d, x)
                        \/ Verified(d, y) = Verified(d, x) /\ Newer(y, x)
    IN  Retire(d, {x \in rows : Cardinality({y \in rows : Before(y, x)}) >= RetainAnon})
\* enforce_anonymous_cap with anon_keep_for: verified posts first, then newest.
EnforceAnonymousCap(d, to) ==
    LET rows == {x \in d.mail : Envelope[x].to = to /\ Anonymous(x)}
        Before(y, x) == \/ Verified(d, y) /\ ~Verified(d, x)
                        \/ Verified(d, y) = Verified(d, x) /\ Newer(y, x)
    IN  IF IsPoll(d, to) THEN d
        ELSE Retire(d, {x \in rows : Cardinality({y \in rows : Before(y, x)}) >= RetainAnon})

(***************************************************************************)
(* The verdict on a proof, and the fast posts that follow it               *)
(***************************************************************************)
\* anon_root_accepted_for: a poll's own day and root, else a root of the registry.
RootAccepted(d, m, t) ==
    LET e == Envelope[m]
        inSet == e.root \in setRoots /\ Day(e.at) <= Day(t) + 1 /\ Day(t) <= Day(e.at) + 1
    IN  IF IsPoll(d, e.to)
        THEN /\ Day(e.at) = PollDay[e.to] /\ Day(t) = PollDay[e.to]
             /\ IF PollRoot[e.to] = AnySetRoot THEN inSet ELSE e.root = PollRoot[e.to]
        ELSE inSet

\* Mutant: the replay check is left out.
JudgeNoReplay(d, m, t) ==
    CASE ~Envelope[m].ok -> "failed"
      [] Envelope[m].ok /\ ~RootAccepted(d, m, t) -> "unknown"
      [] OTHER -> "verified"
\* verify_anonymous_proof up to the lookup of the nullifier; "unknown" is the failure
\* that depends on this node's view of the registry.
Judge(d, m, t) ==
    CASE ~Envelope[m].ok -> "failed"
      [] Envelope[m].ok /\ ~RootAccepted(d, m, t) -> "unknown"
      [] OTHER -> IF d.claims[Envelope[m].null] \in {Unclaimed, m} THEN "verified" ELSE "failed"

\* The insert of claim_anon_nullifier, which does not look again.
ClaimNullifier(d, m) == [d EXCEPT !.claims[Envelope[m].null] = m]
\* Mutant: a post that was not stored keeps its claim.
ReleaseNothing(d, m) == d
\* release_anon_nullifier: only this message's own claim.
ReleaseNullifier(d, m) ==
    IF d.claims[Envelope[m].null] = m
    THEN [d EXCEPT !.claims[Envelope[m].null] = Unclaimed] ELSE d

\* Mutant: a held post that waited too long loses its place but stays in the inbox.
PruneFastKeepsMail(d, t) ==
    LET late == {h \in d.held : t > h.at + PendingTtl}
    IN  [d EXCEPT !.fastKeys = {r \in @ : r.k[2] + 1 >= Day(t)}, !.held = @ \ late]
PruneFast(d, t) ==
    LET late == {h \in d.held : t > h.at + PendingTtl}
    IN  ForgetByMsgId([d EXCEPT !.fastKeys = {r \in @ : r.k[2] + 1 >= Day(t)},
                                !.held = @ \ late],
                      {h.m : h \in late})

\* register_fast_key: the first registration stands; the waiting posts are verified with it.
RegisterFastKey(d, m, t) ==
    LET waiting == {h \in d.held : h.k = KeyOf(m)}
        d1 == [d EXCEPT
                !.fastKeys = IF FastRegistration(d, m) # {} THEN @
                             ELSE @ \cup {[k |-> KeyOf(m), null |-> Envelope[m].null, by |-> m]},
                !.held = @ \ waiting,
                !.verdict = [x \in Msgs |->
                    IF Live(d, x) /\ x \in {h.m : h \in waiting} THEN "verified" ELSE @[x]]]
    IN  IF IsPoll(d, Envelope[m].to) THEN d ELSE PruneFast(d1, t)

\* drop_fast_pending: tombstoned when the failure is definitive.
DropFastPending(d, m, definitive) ==
    LET waiting == {h \in d.held : h.k = KeyOf(m)}
        d1 == [d EXCEPT !.held = @ \ waiting]
        ids == {h.m : h \in waiting}
    IN  IF definitive THEN DeleteByMsgId(d1, ids) ELSE ForgetByMsgId(d1, ids)

\* set_anon_verdict: record it, let the posting key follow it, delete what failed.
SetAnonVerdict(d, m, v, t) ==
    LET d1 == [d EXCEPT !.verdict[m] = v]
        settled == [d1 EXCEPT !.regPending = @ \ {KeyOf(m)}]
        d2 == CASE ~(Live(d, m) /\ Envelope[m].kind = "proof") -> d1
                [] Live(d, m) /\ Envelope[m].kind = "proof" /\ v = "pending" ->
                        [d1 EXCEPT !.regPending = @ \cup {KeyOf(m)}]
                [] Live(d, m) /\ Envelope[m].kind = "proof" /\ v = "verified" ->
                        RegisterFastKey(settled, m, t)
                [] OTHER -> DropFastPending(settled, m, v = "failed")
    IN  CASE v = "failed" -> DeleteByMsgId(d2, {m})
          [] v = "unknown" -> ForgetByMsgId(d2, {m})
          [] OTHER -> d2

(***************************************************************************)
(* Storing                                                                 *)
(***************************************************************************)
\* poll_ballot_gate: only a ballot with its own receipt here, verified now.
BallotOk(d, m, t) ==
    /\ Envelope[m].kind = "proof"
    /\ Envelope[m].receipt \in d.receipts
    /\ Judge(d, m, t) = "verified"

\* The inserts, then retention of the conversation and the cap of a board.
InsertTmail(d, m) == [d EXCEPT !.mail = @ \cup {m}, !.index[m] = "live"]
Retained(d, m) == EnforceRetention(d, Envelope[m].to, ConversationKey(d, m))
Kept(d, m) ==
    IF Anonymous(m) THEN EnforceAnonymousCap(Retained(InsertTmail(d, m), m), Envelope[m].to)
    ELSE Retained(InsertTmail(d, m), m)

\* store_tmail_inner, not a duplicate and d with room made: a poll's ballot is claimed and
\* verified on the way in.
StoreWithRoom(d, m, t) ==
    LET gated == IsPoll(d, Envelope[m].to)
    IN  CASE Cardinality(d.mail) >= MaxEntries -> [res |-> "full", db |-> d]
          [] Cardinality(d.mail) < MaxEntries /\ gated /\ ~BallotOk(d, m, t) -> [res |-> "ballot", db |-> d]
          [] OTHER -> [res |-> "stored",
                       db |-> Kept(IF gated THEN SetAnonVerdict(ClaimNullifier(d, m), m, "verified", t)
                                   ELSE d, m)]

\* store_tmail_inner: what comes back, and the store after it.
StoreTmail(d, m, t) ==
    IF d.index[m] # "none" THEN [res |-> "duplicate", db |-> d]
    ELSE StoreWithRoom(IF Cardinality(d.mail) >= MaxEntries THEN PruneExpired(d, t) ELSE d, m, t)

\* put_anon_receipt: at the cap the first key makes room.
PutReceipt(receipts, c) ==
    (IF Cardinality(receipts) >= ReceiptCap THEN receipts \ {Min(receipts)} ELSE receipts) \cup {c}

\* flood_take on the entry of key k: a burst that refills, and the cap of the day.
FloodTake(f, k, t, interval) ==
    LET fresh == [tokens |-> Burst, at |-> t, day |-> Day(t), count |-> 0]
        e == IF f[k].count = 0 \/ f[k].day # Day(t) THEN fresh ELSE f[k]
        filled == Min({Burst, e.tokens + (t - e.at)})
        after == IF interval THEN [e EXCEPT !.tokens = filled, !.at = t] ELSE e
    IN  CASE e.count >= DailyCap -> [ok |-> FALSE, f |-> [f EXCEPT ![k] = e]]
          [] e.count < DailyCap /\ interval /\ filled = 0 -> [ok |-> FALSE, f |-> [f EXCEPT ![k] = after]]
          [] OTHER -> [ok |-> TRUE,
                       f |-> [f EXCEPT ![k] = [after EXCEPT
                                !.tokens = IF interval THEN @ - 1 ELSE @, !.count = @ + 1]]]

NoFlood == [k \in PostingKeys |-> [tokens |-> Burst, at |-> 0, day |-> 0, count |-> 0]]
EmptyMail == [mail |-> {}, index |-> [m \in Msgs |-> "none"], verdict |-> [m \in Msgs |-> "none"],
              claims |-> [n \in Nullifiers |-> Unclaimed], receipts |-> {}, polls |-> {},
              fastKeys |-> {}, held |-> {}, regPending |-> {}]

TmailInit ==
    /\ clock = 0 /\ active \in Scenarios
    /\ mdb = EmptyMail /\ setRoots = FirstRoots
    /\ flood = NoFlood /\ sender = Idle
    /\ swarm = [pc |-> "idle", todo |-> {}, m |-> 0]
    /\ pulls = {} /\ gone = {} /\ proved = {} /\ tmCrashes = 0

(***************************************************************************)
(* A client's anonymous post: check, claim, store, verdict, under the lock *)
(***************************************************************************)
\* send_anonymous: the receipt is here and the proof verifies; a refusal changes nothing.
SendJudge(m) ==
    /\ sender.pc = "idle" /\ m \in active \cap RestMsgs
    /\ Envelope[m].kind = "proof" /\ SentAtOk(m, clock)
    /\ Envelope[m].receipt \in mdb.receipts
    /\ Judge(mdb, m, clock) = "verified"
    /\ sender' = [pc |-> "claim", m |-> m, stored |-> FALSE]
    /\ UNCHANGED <<clock, active, mdb, setRoots, flood, swarm, pulls, gone, tmCrashes>>

SendClaim ==
    /\ sender.pc = "claim"
    /\ mdb' = ClaimNullifier(mdb, sender.m)
    /\ sender' = [sender EXCEPT !.pc = "store"]
    /\ UNCHANGED <<clock, active, setRoots, flood, swarm, pulls, gone, tmCrashes>>

\* store_tmail; on an error the claim is given back unless the message is held after all.
SendStore ==
    /\ sender.pc = "store"
    /\ \E r \in {StoreTmail(mdb, sender.m, clock)} :
           IF r.res \in {"stored", "duplicate"}
           THEN /\ mdb' = r.db
                /\ sender' = [sender EXCEPT !.pc = "verdict", !.stored = (r.res = "stored")]
           ELSE /\ mdb' = IF Live(r.db, sender.m) THEN r.db ELSE ReleaseNullifier(r.db, sender.m)
                /\ sender' = Idle
    /\ UNCHANGED <<clock, active, setRoots, flood, swarm, pulls, gone, tmCrashes>>

\* The verdict, the end of the lock, the answer to the client.
SendVerdict ==
    /\ sender.pc = "verdict"
    /\ mdb' = SetAnonVerdict(mdb, sender.m, "verified", clock)
    /\ sender' = Idle
    /\ UNCHANGED <<clock, active, setRoots, flood, swarm, pulls, gone, tmCrashes>>

\* POST /tmail/anon/receipt.
DepositReceipt(c) ==
    /\ c # 0 /\ c \in {Envelope[m].receipt : m \in active \cap RestMsgs} \ mdb.receipts
    /\ mdb' = [mdb EXCEPT !.receipts = PutReceipt(@, c)]
    /\ UNCHANGED <<clock, active, setRoots, flood, sender, swarm, pulls, gone, tmCrashes>>

(***************************************************************************)
(* What gossip brings, and the swarm loop's judging of it                  *)
(***************************************************************************)
\* A named message, from a client or a peer (a poll's wallet refuses it).
StoreNamed(m) ==
    /\ m \in active /\ Envelope[m].kind = "named" /\ SentAtOk(m, clock)
    /\ mdb' = StoreTmail(mdb, m, clock).db
    /\ mdb' # mdb
    /\ UNCHANGED <<clock, active, setRoots, flood, sender, swarm, pulls, gone, tmCrashes>>

\* A post with a proof: stored, pending, judged now if its receipt is cached, else pulled.
GossipPost(m) ==
    /\ swarm.pc = "idle" /\ m \in active /\ Envelope[m].kind = "proof" /\ SentAtOk(m, clock)
    /\ \E r \in {StoreTmail(mdb, m, clock)} :
       LET kept == r.res = "stored" /\ Live(r.db, m)
           cached == Envelope[m].receipt \in r.db.receipts
       IN  /\ mdb' = IF kept THEN SetAnonVerdict(r.db, m, "pending", clock) ELSE r.db
           /\ swarm' = IF kept /\ cached THEN [pc |-> "judge", todo |-> {m}, m |-> 0] ELSE swarm
           /\ pulls' = IF kept /\ ~cached THEN pulls \cup {Envelope[m].receipt} ELSE pulls
    /\ <<mdb, swarm, pulls>>' # <<mdb, swarm, pulls>>
    /\ UNCHANGED <<clock, active, setRoots, flood, sender, gone, tmCrashes>>

\* A peer answers a pull: every undecided post that announced this receipt is judged.
ReceiptArrives(c) ==
    /\ swarm.pc = "idle" /\ c \in pulls
    /\ LET undecided == {m \in mdb.mail : /\ Envelope[m].kind = "proof" /\ Envelope[m].receipt = c
                                          /\ mdb.verdict[m] \in {"none", "pending"}}
       IN  /\ undecided # {}
           /\ mdb' = [mdb EXCEPT !.receipts = PutReceipt(@, c)]
           /\ swarm' = [pc |-> "judge", todo |-> undecided, m |-> 0]
    /\ UNCHANGED <<clock, active, setRoots, flood, sender, pulls, gone, tmCrashes>>

\* verify_anonymous_proof on the loop; a failure becomes a verdict at once.
LoopJudge ==
    /\ swarm.pc = "judge"
    /\ \E m \in swarm.todo :
        LET v == Judge(mdb, m, clock)
            left == swarm.todo \ {m}
        IN  IF v = "verified"
            THEN /\ swarm' = [swarm EXCEPT !.pc = "claim", !.m = m]
                 /\ UNCHANGED <<mdb, gone>>
            ELSE /\ mdb' = SetAnonVerdict(mdb, m, v, clock)
                 /\ gone' = IF v = "failed" THEN gone \cup ({m} \cap mdb.mail) ELSE gone
                 /\ swarm' = [pc |-> IF left = {} THEN "idle" ELSE "judge", todo |-> left, m |-> 0]
    /\ UNCHANGED <<clock, active, setRoots, flood, sender, pulls, tmCrashes>>

LoopClaim ==
    /\ swarm.pc = "claim"
    /\ mdb' = ClaimNullifier(mdb, swarm.m)
    /\ swarm' = [swarm EXCEPT !.pc = "verdict"]
    /\ UNCHANGED <<clock, active, setRoots, flood, sender, pulls, gone, tmCrashes>>

LoopVerdict ==
    /\ swarm.pc = "verdict"
    /\ mdb' = SetAnonVerdict(mdb, swarm.m, "verified", clock)
    /\ LET left == swarm.todo \ {swarm.m}
       IN  swarm' = [pc |-> IF left = {} THEN "idle" ELSE "judge", todo |-> left, m |-> 0]
    /\ UNCHANGED <<clock, active, setRoots, flood, sender, pulls, gone, tmCrashes>>

(***************************************************************************)
(* Fast posts                                                              *)
(***************************************************************************)
\* fast_checks, and the lock both entry points take.
FastChecks(m) ==
    /\ sender.pc = "idle" /\ m \in active /\ IsFastPost(m) /\ SentAtOk(m, clock)
    /\ ~IsPoll(mdb, Envelope[m].to) /\ Day(Envelope[m].at) = Day(clock)
    /\ mdb.index[m] = "none"

\* The guard's answer decides whether the post is stored, verified with its registration.
StoreFast(m, take) ==
    LET r == StoreTmail(mdb, m, clock)
    IN  /\ flood' = take.f
        /\ mdb' = CASE ~take.ok -> mdb
                    [] take.ok /\ r.res = "stored" -> [r.db EXCEPT !.verdict[m] = "verified"]
                    [] OTHER -> r.db

\* send_fast_anonymous: only under a registered posting key.
SendFast(m) ==
    /\ FastChecks(m) /\ m \in RestMsgs
    /\ FastRegistration(mdb, m) # {}
    /\ StoreFast(m, FloodTake(flood, KeyOf(m), clock, TRUE))
    /\ UNCHANGED <<clock, active, setRoots, sender, swarm, pulls, gone, tmCrashes>>

\* receive_fast_anonymous, key registered: the interval was the sending node's to keep.
ReceiveFast(m) ==
    /\ FastChecks(m) /\ swarm.pc = "idle"
    /\ FastRegistration(mdb, m) # {}
    /\ StoreFast(m, FloodTake(flood, KeyOf(m), clock, FALSE))
    /\ UNCHANGED <<clock, active, setRoots, sender, swarm, pulls, gone, tmCrashes>>

\* Mutant: a post whose key is not registered yet is served as verified.
HoldAsVerified(d, m) ==
    [StoreTmail(d, m, clock).db EXCEPT !.verdict[m] = "verified"]
\* The held post: stored, its verdict pending, remembered under its key.
HoldPending(d, m) ==
    LET r == StoreTmail(d, m, clock)
    IN  IF r.res = "stored"
        THEN [r.db EXCEPT !.verdict[m] = "pending",
                          !.held = @ \cup {[k |-> KeyOf(m), m |-> m, at |-> clock]}]
        ELSE r.db

\* receive_fast_anonymous, key not registered: held while its registering post waits here.
HoldFast(m) ==
    /\ FastChecks(m) /\ swarm.pc = "idle"
    /\ FastRegistration(mdb, m) = {}
    /\ LET d == PruneFast(mdb, clock)
           take == FloodTake(flood, KeyOf(m), clock, FALSE)
           room == /\ KeyOf(m) \in d.regPending
                   /\ Cardinality({h \in d.held : h.k = KeyOf(m)}) < PendingPerKey
                   /\ Cardinality(d.held) < PendingTotal
       IN  IF room THEN /\ flood' = take.f
                        /\ mdb' = IF take.ok THEN HoldPending(d, m) ELSE d
                   ELSE mdb' = d /\ UNCHANGED flood
    /\ <<mdb, flood>>' # <<mdb, flood>>
    /\ UNCHANGED <<clock, active, setRoots, sender, swarm, pulls, gone, tmCrashes>>

(***************************************************************************)
(* Burning, polls, the reaper, the registry, the clock, a restart          *)
(***************************************************************************)
\* apply_burn_revoke, from POST /tmail/read-receipt or from a peer.
BurnRevoke(m) ==
    /\ m \in active /\ Live(mdb, m) /\ Envelope[m].burn
    /\ mdb' = DeleteByMsgId(mdb, {m})
    /\ gone' = gone \cup {m}
    /\ UNCHANGED <<clock, active, setRoots, flood, sender, swarm, pulls, tmCrashes>>

\* register_poll_root: a poll is registered once and never changes.
RegisterPoll(w) ==
    /\ w \in {Envelope[m].to : m \in active} \cap (DOMAIN PollRoot \ mdb.polls)
    /\ mdb' = [mdb EXCEPT !.polls = @ \cup {w}]
    /\ UNCHANGED <<clock, active, setRoots, flood, sender, swarm, pulls, gone, tmCrashes>>

Reap ==
    /\ mdb' = PruneExpired(mdb, clock)
    /\ mdb' # mdb
    /\ UNCHANGED <<clock, active, setRoots, flood, sender, swarm, pulls, gone, tmCrashes>>

\* The registry reaches an epoch whose root the node had not computed.
LearnRoot(r) ==
    /\ r \in NewRoots \ setRoots
    /\ setRoots' = setRoots \cup {r}
    /\ UNCHANGED <<clock, active, mdb, flood, sender, swarm, pulls, gone, tmCrashes>>

TmailTick ==
    /\ clock < MaxTime
    /\ clock' = clock + 1
    /\ UNCHANGED <<active, mdb, setRoots, flood, sender, swarm, pulls, gone, tmCrashes>>

\* What is in memory goes; the trees stay.
TmailRestart ==
    /\ tmCrashes < MaxTmailCrashes
    /\ tmCrashes' = tmCrashes + 1
    /\ flood' = NoFlood /\ sender' = Idle /\ pulls' = {}
    /\ swarm' = [pc |-> "idle", todo |-> {}, m |-> 0]
    /\ UNCHANGED <<clock, active, mdb, setRoots, gone>>

TmailStep ==
    \/ \E m \in active : \/ SendJudge(m) \/ StoreNamed(m) \/ GossipPost(m)
                         \/ SendFast(m) \/ ReceiveFast(m) \/ HoldFast(m) \/ BurnRevoke(m)
    \/ SendClaim \/ SendStore \/ SendVerdict
    \/ \E c \in ReceiptIds : DepositReceipt(c) \/ ReceiptArrives(c)
    \/ LoopJudge \/ LoopClaim \/ LoopVerdict
    \/ \E w \in Boards : RegisterPoll(w)
    \/ \E r \in NewRoots : LearnRoot(r)
    \/ Reap \/ TmailTick \/ TmailRestart

TmailNext ==
    /\ TmailStep
    /\ proved' = proved \cup {m \in Msgs : Envelope[m].kind = "proof" /\ Verified(mdb', m)}

TmailSpec == TmailInit /\ [][TmailNext]_tmailVars

(***************************************************************************)
(* Properties                                                              *)
(***************************************************************************)
\* get_inbox's own filters (its limits repeat the retention rules).
Served(m) == m \in mdb.mail /\ ~IsExpired(m, clock)
InFlight(m) == (sender.pc # "idle" /\ sender.m = m) \/ m \in swarm.todo

\* Types of the store's state; the two indexes agree: a body is there exactly when its
\* index entry points at it (by_receiver and by_msg_id).
TmailTypeOK ==
    /\ clock \in 0..MaxTime /\ active \in Scenarios
    /\ mdb.mail \subseteq Msgs
    /\ mdb.index \in [Msgs -> {"none", "live", "burned", "pruned"}]
    /\ mdb.verdict \in [Msgs -> {"none", "pending", "verified", "failed", "unknown"}]
    /\ mdb.claims \in [Nullifiers -> Msgs \cup {Unclaimed}]
    /\ mdb.receipts \subseteq ReceiptIds /\ Cardinality(mdb.receipts) <= ReceiptCap
    /\ \A r, s \in mdb.fastKeys : r.k = s.k => r = s
    /\ \A m \in Msgs : m \in mdb.mail <=> mdb.index[m] = "live"
    /\ gone \subseteq Msgs

\* A message that was burned, or whose proof failed for good, is never served again: the
\* tombstone of delete_by_msg_id outlives every copy gossip can still deliver in time.
BurnedNeverServed == \A m \in gone : ~Served(m)

\* A fast post is shown as verified only under a posting key that a post with a genuine
\* proof registered for the same board and day (send_fast_anonymous, register_fast_key).
FastFollowsProof ==
    \A m \in mdb.mail : IsFastPost(m) /\ Verified(mdb, m) =>
        \E p \in proved : Envelope[p].ok /\ KeyOf(p) = KeyOf(m)

\* A fast post that is not verified is on the list of held posts, so a verdict or the
\* pending time-out reaches it (receive_fast_anonymous, prune_fast).
HeldIsTracked ==
    \A m \in mdb.mail : IsFastPost(m) /\ ~Verified(mdb, m) => \E h \in mdb.held : h.m = m

\* One member, one post with a proof per board and day: no two messages verified under one
\* nullifier (claim_anon_nullifier), whatever order gossip brings them in.
OneVerifiedPerNullifier ==
    \A m, n \in {x \in Msgs : Envelope[x].kind = "proof" /\ Verified(mdb, x)} :
        Envelope[m].null = Envelope[n].null => m = n

\* A used nullifier belongs to a post that was accepted: a member whose post could not be
\* stored has not lost the day's post (send_anonymous's release).  Left out are a crash
\* between claim and verdict, and posts past their time: expired ones, and those whose root
\* no check accepts any more (a ballot that gossip brings as its day ends passes the gate
\* and is refused by the second check).
ClaimIsEarned ==
    tmCrashes = 0 =>
        \A n \in Nullifiers : LET m == mdb.claims[n]
                              IN  \/ m = Unclaimed \/ InFlight(m) \/ Verified(mdb, m)
                                  \/ IsExpired(m, clock) \/ ~RootAccepted(mdb, m, clock)

\* Retention at write time bounds every named conversation and every board that is not a
\* poll (enforce_retention, enforce_anonymous_cap).
RetentionBounds ==
    /\ \A m \in mdb.mail : ~Anonymous(m) =>
         Cardinality({x \in mdb.mail : /\ Envelope[x].to = Envelope[m].to
                                       /\ ConversationKey(mdb, x) = ConversationKey(mdb, m)}) <= RetainNamed
    /\ \A w \in Boards \ mdb.polls :
         Cardinality({x \in mdb.mail : Envelope[x].to = w /\ Anonymous(x)}) <= RetainAnon

\* The loop judges m once more, when no check accepts its root any more.
JudgedAgain(m) == m \in swarm.todo /\ ~RootAccepted(mdb, m, clock)

\* A verified ballot leaves its poll only by expiry, a burn or the loop's own check after
\* the day, never by retention (anon_keep_for): the tally cannot lose a vote to later ones.
PollKeepsBallots ==
    [][\A m \in mdb.mail \ mdb'.mail :
            Envelope[m].kind = "proof" /\ IsPoll(mdb, Envelope[m].to) /\ Verified(mdb, m) =>
                IsExpired(m, clock) \/ m \in gone' \/ JudgedAgain(m)]_tmailVars

\* A verified post leaves a board only by expiry, a burn, the loop's own check after the
\* window, or a newer post of the same daily identity or verified before: posts nobody has
\* verified never push it out (enforce_anonymous_cap).
UnverifiedNeverEvicts ==
    [][\A m \in mdb.mail \ mdb'.mail :
            Anonymous(m) /\ ~IsPoll(mdb, Envelope[m].to) /\ Verified(mdb, m) =>
                \/ IsExpired(m, clock) \/ m \in gone' \/ JudgedAgain(m)
                \/ \E x \in mdb'.mail : /\ Newer(x, m)
                                        /\ \/ ConversationKey(mdb', x) = ConversationKey(mdb, m)
                                           \/ x \notin mdb.mail /\ Verified(mdb, x)]_tmailVars

\* The store keeps its indexes and its bounds, tracks what it holds back, and serves nothing
\* that was burned.
MailSound == TmailTypeOK /\ BurnedNeverServed /\ HeldIsTracked /\ RetentionBounds

\* What anonymity is allowed: one verified post a nullifier, a claim only for an accepted
\* post, and fast posts only behind a proof.
AnonymousGate == OneVerifiedPerNullifier /\ ClaimIsEarned /\ FastFollowsProof

\* Verified posts and ballots stay where they are.
BoardKeeps == PollKeepsBallots /\ UnverifiedNeverEvicts

\* What the documentation of the cap says: the newest posts stay and a new one displaces the
\* oldest (enforce_anonymous_cap).  While a client's post is being accepted, the cap has not
\* dropped that very post, unless a newer one has reached the board.
CapDropsOldest ==
    sender.pc = "verdict" /\ sender.stored /\ mdb.index[sender.m] = "pruned" =>
        \E x \in Msgs : /\ Envelope[x].to = Envelope[sender.m].to /\ Newer(x, sender.m)
                       /\ mdb.verdict[x] # "none"
===============================================================================
