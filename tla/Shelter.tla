-------------------------------- MODULE Shelter --------------------------------
(***************************************************************************)
(* Shelter (tet-core/src/tmail/shelter.rs and the Shelter part of          *)
(* store.rs): a members-only board whose membership is a log of signed     *)
(* records, and the anonymous option inside it.                            *)
(*                                                                         *)
(* The node replays the log on every use; `sh` is what the replay gives,   *)
(* `used` the records in the log.  A record is stored under shelter_lock   *)
(* and the roots are refreshed after it is released; whoever relies on a   *)
(* root or a posting key refreshes first, under a lock of its own.  An     *)
(* anonymous post is checked in one step and registers its posting key in  *)
(* a later one, as in TmailStore.                                          *)
(*                                                                         *)
(* Signatures and the proof are abstracted: a record is signed by its      *)
(* signer, a proof shows that its maker is a leaf of its root.             *)
(***************************************************************************)
EXTENDS Naturals, FiniteSets, Sequences, FiniteSetsExt, SequencesExt

CONSTANTS
    Wallet,         \* wallets besides the board's
    Moderator,
    Joined,         \* wallets in the anonymity registry
    ModInvites, Vouches,        \* SHELTER_MOD_INVITES, SHELTER_VOUCHES
    SuspendTime, AppealTime,    \* SHELTER_SUSPEND_MS, SHELTER_APPEAL_MS
    RecordSkew,     \* SHELTER_RECORD_SKEW_MS
    AnonMin,        \* SHELTER_ANON_MIN
    Nicknames,      \* nicknames by their skeleton
    MaxRoots,       \* 64 in shelter_refresh_roots
    StartLog,       \* the records in the log when the model starts, as tuples
    MaxRecords,     \* bound: records in the log
    KeyHolders,     \* bound: the wallets whose sealed key the model follows
    MaxShelterTime  \* bound: clock

NoNick == "none"
Outside == [number |-> 0, via |-> Moderator, nick |-> NoNick]
NoSend == [w |-> Moderator, busy |-> FALSE, losses |-> 0]

ASSUME ShelterAssumption ==
    /\ IsFiniteSet(Wallet) /\ Moderator \in Wallet /\ Joined \subseteq Wallet /\ KeyHolders \subseteq Wallet
    /\ {ModInvites, Vouches, SuspendTime, AppealTime, RecordSkew, AnonMin, MaxRoots,
        MaxRecords} \subseteq Nat
    /\ MaxShelterTime \in Nat \ {0}
    /\ NoNick \notin Nicknames
    /\ StartLog \in Seq({"invite", "vouch", "withdraw", "nickname", "case"} \X Wallet \X Wallet \X STRING)

VARIABLES
    sclock,
    sh,         \* members, left, removed (each by wallet), given, cases, next number
    used,       \* the log, as the set of its records
    board,      \* persisted: leaves, roots, lastLoss; the board's posting keys; sealed keys
    sending,    \* an anonymous post between its check and its verdict
    posted      \* history: anonymous posts taken, each with whether its author counted then

shelterVars == <<sclock, sh, used, board, sending, posted>>

In(s, w) == s.members[w] # Outside
(***************************************************************************)
(* The rules of membership                                                 *)
(***************************************************************************)
Stands(c) == c.appeal # "overturn"
\* A case's voucher is recorded only when it is not the moderator.
CasesAgainst(s, v) == SelectSeq(s.cases, LAMBDA c : Stands(c) /\ v # Moderator /\ c.voucher = v)

VouchesLeft(s, w) ==
    LET limit == IF w = Moderator THEN ModInvites ELSE Vouches
    IN  IF ~In(s, w) \/ (w # Moderator /\ CasesAgainst(s, w) # <<>>) \/ s.given[w] >= limit
        THEN 0 ELSE limit - s.given[w]

\* suspended_until, may_post: the second standing case counts, until its time is over.
MayPost(s, w, t) ==
    /\ In(s, w)
    /\ LET cs == CasesAgainst(s, w) IN Len(cs) >= 2 => t >= cs[2].at + SuspendTime

AnonEligible(s, t) == {w \in Joined : MayPost(s, w, t)}

\* Mutant: someone who comes back stays on the list of those who left.
LetInKeepsLeft(s, r) ==
    [s EXCEPT !.given[r.signer] = @ + 1, !.next = @ + 1,
              !.members[r.subject] = [number |-> s.next, via |-> r.signer, nick |-> NoNick]]
\* ShelterAction::Invite and Vouch, once allowed.
LetIn(s, r) ==
    [s EXCEPT !.given[r.signer] = @ + 1, !.next = @ + 1, !.left[r.subject] = Outside,
              !.members[r.subject] = [number |-> s.next, via |-> r.signer, nick |-> NoNick]]

\* Mutant: a restored member takes the old nickname back, whoever has it now.
RestoreWithNickname(s, i) ==
    LET c == s.cases[i]
        m == s.removed[c.subject]
    IN  IF c.was THEN [s EXCEPT !.removed[c.subject] = Outside, !.members[c.subject] = m]
        ELSE [s EXCEPT !.removed[c.subject] = Outside, !.left[c.subject] = m]
\* An overturned case: back to where the subject was; a nickname taken meanwhile is lost.
Restore(s, i) ==
    LET c == s.cases[i]
        old == s.removed[c.subject]
        taken == old.nick # NoNick /\ \E w \in Wallet : s.members[w].nick = old.nick
        m == IF taken THEN [old EXCEPT !.nick = NoNick] ELSE old
    IN  IF old = Outside THEN s
        ELSE IF c.was THEN [s EXCEPT !.removed[c.subject] = Outside, !.members[c.subject] = m]
        ELSE [s EXCEPT !.removed[c.subject] = Outside, !.left[c.subject] = m]

\* ShelterState::apply: may record r be applied to s, and what it makes of it.
Allowed(s, r) ==
    CASE r.action = "invite" ->
            /\ (r.signer = Moderator) /\ ~In(s, r.subject) /\ s.removed[r.subject] = Outside
            /\ VouchesLeft(s, r.signer) > 0
      [] r.action = "vouch" ->
            /\ r.signer # Moderator /\ In(s, r.signer) /\ ~In(s, r.subject)
            /\ s.removed[r.subject] = Outside /\ VouchesLeft(s, r.signer) > 0
      [] r.action = "withdraw" -> r.signer = r.subject /\ r.signer # Moderator /\ In(s, r.signer)
      [] r.action = "nickname" ->
            /\ r.signer = r.subject /\ In(s, r.signer) /\ r.text \in Nicknames
            /\ \A w \in Wallet \ {r.signer} : s.members[w].nick # r.text
      [] r.action = "case" ->
            /\ r.signer = Moderator /\ r.subject # Moderator
            /\ In(s, r.subject) \/ s.left[r.subject] # Outside
      [] OTHER ->  \* an appeal; r.case is the case's place in the log of cases
            /\ r.signer = Moderator /\ r.case \in DOMAIN s.cases
            /\ s.cases[r.case].appeal = "open" /\ r.at <= s.cases[r.case].at + AppealTime

Apply(s, r) ==
    CASE r.action \in {"invite", "vouch"} -> LetIn(s, r)
      [] r.action = "withdraw" -> [s EXCEPT !.left[r.subject] = s.members[r.subject],
                                            !.members[r.subject] = Outside]
      [] r.action = "nickname" -> [s EXCEPT !.members[r.subject].nick = r.text]
      [] r.action = "case" ->
            LET was == In(s, r.subject)
                m == IF was THEN s.members[r.subject] ELSE s.left[r.subject]
            IN  [s EXCEPT !.members[r.subject] = Outside,
                          !.left[r.subject] = IF was THEN @ ELSE Outside,
                          !.removed[r.subject] = m,
                          !.cases = Append(@, [subject |-> r.subject, voucher |-> m.via, at |-> r.at,
                                               was |-> was, appeal |-> "open"])]
      [] OTHER -> LET s1 == [s EXCEPT !.cases[r.case].appeal = r.text]
                  IN  IF r.text = "overturn" THEN Restore(s1, r.case) ELSE s1

(***************************************************************************)
(* The roots that count                                                    *)
(***************************************************************************)
LastRoots(q) == SubSeq(q, Max({1, Len(q) + 1 - MaxRoots}), Len(q))

\* Mutant: a set that did not shrink has lost nobody.
RefreshBySize(b, s, t) ==
    LET set == AnonEligible(s, t)
        lost == Cardinality(set) < Cardinality(b.leaves)
        kept == IF lost THEN <<>> ELSE b.roots
        roots == IF Contains(kept, set) THEN kept ELSE Append(kept, set)
    IN  [b EXCEPT !.leaves = set,
                  !.roots = IF Cardinality(set) < AnonMin THEN <<>> ELSE LastRoots(roots),
                  !.lastLoss = IF lost THEN t ELSE @, !.losses = IF lost THEN @ + 1 ELSE @,
                  !.fastKeys = IF lost THEN {} ELSE @]
\* shelter_refresh_roots: a set that lost anyone clears the roots and the posting keys.
RefreshRoots(b, s, t) ==
    LET set == AnonEligible(s, t)
        lost == b.leaves \ set # {}
        kept == IF lost THEN <<>> ELSE b.roots
        roots == IF Contains(kept, set) THEN kept ELSE Append(kept, set)
    IN  [b EXCEPT !.leaves = set,
                  !.roots = IF Cardinality(set) < AnonMin THEN <<>> ELSE LastRoots(roots),
                  !.lastLoss = IF lost THEN t ELSE @, !.losses = IF lost THEN @ + 1 ELSE @,
                  !.fastKeys = IF lost THEN {} ELSE @]

(***************************************************************************)
(* Actions                                                                 *)
(***************************************************************************)
Record(action, signer, subject, case, text, at) ==
    [action |-> action, signer |-> signer, subject |-> subject, case |-> case, text |-> text, at |-> at]

\* ShelterState::new and replay.
NewState ==
    [members |-> [w \in Wallet |-> IF w = Moderator THEN [Outside EXCEPT !.number = 1] ELSE Outside],
     left |-> [w \in Wallet |-> Outside], removed |-> [w \in Wallet |-> Outside],
     given |-> [w \in Wallet |-> 0], cases |-> <<>>, next |-> 2]
Replay(log) ==
    LET after[n \in 0..Len(log)] ==
            IF n = 0 THEN NewState
            ELSE IF Allowed(after[n - 1], log[n]) THEN Apply(after[n - 1], log[n]) ELSE after[n - 1]
    IN  after[Len(log)]

ShelterInit ==
    LET log == [i \in DOMAIN StartLog |->
                    Record(StartLog[i][1], StartLog[i][2], StartLog[i][3], 0, StartLog[i][4], 0)]
    IN  /\ sclock = 1 /\ sending = NoSend /\ posted = {}
        /\ sh = Replay(log) /\ used = Range(log)
        /\ board = RefreshRoots([leaves |-> {}, roots |-> <<>>, lastLoss |-> 0, losses |-> 0,
                                 fastKeys |-> {}, sealed |-> [w \in KeyHolders |-> 0]], sh, sclock)

\* Mutant: the check for a copy of a stored record is left out.
ReplaysAllowed(r) == Cardinality(used) < MaxRecords /\ Allowed(sh, r)
\* What submit_shelter_record asks of a record before it is stored.
FreshRecord(r) == Cardinality(used) < MaxRecords /\ r \notin used /\ Allowed(sh, r)

\* The times a record may carry when the node's clock is t.
InSkew(t) == {at \in 0..(t + RecordSkew) : at + RecordSkew >= t}

Submit(r) ==
    /\ FreshRecord(r)
    /\ sh' = Apply(sh, r)
    /\ used' = used \cup {r}
    /\ UNCHANGED <<sclock, board, sending, posted>>

\* "-" stands for an empty string.
SubmitAny ==
    \E at \in InSkew(sclock), w, v \in Wallet :
        \/ Submit(Record("invite", w, v, 0, "-", at)) \/ Submit(Record("vouch", w, v, 0, "-", at))
        \/ w = v /\ Submit(Record("withdraw", w, w, 0, "-", at))
        \/ w = v /\ \E n \in Nicknames : Submit(Record("nickname", w, w, 0, n, at))
        \/ Submit(Record("case", w, v, 0, "-", at))
        \/ w = v /\ \E i \in DOMAIN sh.cases, d \in {"overturn", "keep"} :
                Submit(Record("appeal", w, w, i, d, at))

\* The refresh that follows a stored record, or a member's look at the leaves.
Refresh ==
    /\ board' = RefreshRoots(board, sh, sclock)
    /\ board' # board
    /\ UNCHANGED <<sclock, sh, used, sending, posted>>

\* send_anonymous to the board: shelter_accepts_root refreshes, then looks for the root of a
\* set the author was in.
ShelterSendCheck(w, set) ==
    /\ ~sending.busy /\ w \in set
    /\ LET b == RefreshRoots(board, sh, sclock)
       IN  /\ Contains(b.roots, set)
           /\ board' = b
           /\ sending' = [w |-> w, busy |-> TRUE, losses |-> b.losses]
           /\ posted' = posted \cup {[ok |-> w \in AnonEligible(sh, sclock), raced |-> FALSE]}
    /\ UNCHANGED <<sclock, sh, used>>

\* Its verdict: the posting key is registered now (the first registration stands).
ShelterSendVerdict ==
    /\ sending.busy /\ sending' = NoSend
    /\ board' = IF \E k \in board.fastKeys : k.w = sending.w THEN board
                ELSE [board EXCEPT !.fastKeys =
                        @ \cup {[w |-> sending.w, at |-> sclock, losses |-> sending.losses]}]
    /\ UNCHANGED <<sclock, sh, used, posted>>

\* A fast post to the board: its key registered after the last loss (the lock is free).
ShelterFastPost(k) ==
    /\ ~sending.busy
    /\ LET b == RefreshRoots(board, sh, sclock)
       IN  /\ k \in b.fastKeys /\ k.at > b.lastLoss
           /\ board' = b
           /\ posted' = posted \cup {[ok |-> k.w \in AnonEligible(sh, sclock),
                                      raced |-> k.losses # b.losses]}
    /\ UNCHANGED <<sclock, sh, used, sending>>

\* set_shelter_key: from the moderator, oneself, or a voucher who is a member now; newer only.
HandKey(from, to, at) ==
    /\ In(sh, to) /\ board.sealed[to] < at
    /\ from \in {Moderator, to} \/ (sh.members[to].via = from /\ In(sh, from))
    /\ board' = [board EXCEPT !.sealed[to] = at]
    /\ UNCHANGED <<sclock, sh, used, sending, posted>>

ShelterTick ==
    /\ sclock < MaxShelterTime
    /\ sclock' = sclock + 1
    /\ UNCHANGED <<sh, used, board, sending, posted>>

ShelterNext ==
    \/ SubmitAny \/ Refresh \/ ShelterSendVerdict \/ ShelterTick
    \/ \E w \in Wallet : \E set \in Range(board.roots) \cup {AnonEligible(sh, sclock)} : ShelterSendCheck(w, set)
    \/ \E k \in board.fastKeys : ShelterFastPost(k)
    \/ \E from \in Wallet, to \in KeyHolders : \E at \in InSkew(sclock) : HandKey(from, to, at)

ShelterSpec == ShelterInit /\ [][ShelterNext]_shelterVars

(***************************************************************************)
(* Properties                                                              *)
(***************************************************************************)
\* Types; nobody is in two of the three places at once, and the numbers members are told
\* apart by are given to one wallet only (members, left, removed; next_number).
ShelterTypeOK ==
    /\ sclock \in 1..MaxShelterTime
    /\ \A w \in Wallet : Cardinality({p \in {"members", "left", "removed"} : sh[p][w] # Outside}) <= 1
    /\ \A p \in {"members", "left", "removed"}, w \in Wallet : sh[p][w] # Outside =>
         \A q \in {"members", "left", "removed"}, v \in Wallet \ {w} : sh[p][w].number # sh[q][v].number
    /\ \A w \in Wallet : sh.given[w] <= IF w = Moderator THEN ModInvites ELSE Vouches
    /\ Len(board.roots) <= MaxRoots /\ Range(board.roots) \subseteq SUBSET Joined

\* No two members go by look-alike nicknames, a restored member included (Nickname, Appeal).
NicknamesDistinct ==
    \A w, v \in Wallet : w # v /\ sh.members[w].nick # NoNick => sh.members[w].nick # sh.members[v].nick

\* Whoever posts anonymously is a current, unsuspended member of the set at that moment, by
\* proof or by posting key; only a key whose proof was checked before a loss and registered
\* after it gets past (shelter_refresh_roots, shelter_fast_registration_ok).
AnonPostsAreMembers == \A p \in posted : p.ok \/ p.raced

\* Membership, nicknames and anonymous posts as the records allow.
ShelterRules == ShelterTypeOK /\ NicknamesDistinct /\ AnonPostsAreMembers

\* One signed record makes one change: membership moves only with a record that was not in
\* the log, so a copy of an old invitation brings nobody back (submit_shelter_record).
OneRecordOneChange == [][sh' # sh => used' # used]_shelterVars

\* What the comment on shelter_refresh_roots says: a removed member's proof or posting key
\* stops working at once.
RemovedStopsAtOnce == \A p \in posted : p.ok
================================================================================
