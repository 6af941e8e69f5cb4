-------------------------------- MODULE Records --------------------------------
(***************************************************************************)
(* The public records one node keeps beside the chain: signed sites        *)
(* (tet-core/src/sites.rs), TetSearch listings (search.rs), the signature  *)
(* registry (sigs.rs) and the operator's hide list (operator_hide.rs).     *)
(* Each store writes several sled trees in a fixed order under its own     *)
(* lock; a crash keeps a prefix of those writes.  A handler's checks run   *)
(* before the lock, so a check and the write it allows are two steps.      *)
(* Signatures are the envelope's own: an offer that does not verify is     *)
(* refused before any state is read and is not offered here.  A hash       *)
(* stands for what it hashes: an edit's is the sequence of bodies so far.  *)
(***************************************************************************)
EXTENDS Naturals, FiniteSets, Sequences, FiniteSetsExt, Functions

CONSTANTS
    Site, Body, BodySize,       \* sites, edit bodies, their stored size: [Body -> Nat]
    SiteMaxBytes, SiteMaxEdits, MaxSites, SitesTotalCap,
    SiteTtl, EditSkew, PruneGap,    \* in ticks of the clock
    Lister,                     \* wallets that are Shelter members at the start
    ListDay, ListCap,           \* length of a day, LISTINGS_PER_MEMBER_PER_DAY
    Mark, MarkSigner, MarkFile, \* signature records, [Mark -> signer], [Mark -> file]
    MarksPerSigner, MarksCap, SearchMax,
    Hideable,                   \* wallets the operator may hide
    MaxHeight,                  \* heights a stamping FileFee can be mined at
    MaxRecTime, MaxEditing, MaxSigCalls, MaxRecCrashes, MaxStamps   \* bounds

ASSUME RecordsAssumption ==
    /\ \A S \in {Site, Body, Lister, Mark} : IsFiniteSet(S)
    /\ BodySize \in [Body -> Nat \ {0}]
    /\ DOMAIN MarkSigner = Mark /\ DOMAIN MarkFile = Mark
    /\ {SiteMaxBytes, SiteMaxEdits, MaxSites, SitesTotalCap, SiteTtl, EditSkew, PruneGap, ListCap, MarksPerSigner, MarksCap,
        MaxHeight, MaxEditing, MaxSigCalls, MaxRecCrashes, MaxStamps} \subseteq Nat
    /\ {ListDay, SearchMax, MaxRecTime} \subseteq Nat \ {0}

VARIABLES
    rclock,
    sites,      \* [edits, heads, total, keyed]: the trees of SiteStore; keyed: TOTAL_KEY is in heads
    lastPrune,  \* the value under append_lock
    editing,    \* edits past the handler's checks, not yet under the lock
    members,    \* the Shelter members (Shelter models who they are)
    listing,    \* listings past the checks of SearchStore::list
    listed,     \* [book, daily]: the trees of SearchStore
    marks,      \* [written, at, anchor]: the trees of SigStore
    sigCalls,   \* POST /sigs/publish under way
    stamp,      \* height of the mined canonical FileFee that stamps a mark, 0 none (external)
    hidden,     \* wallets the operator hid
    recHist     \* history: listings by member and day, earliest anchor set, crashes, stamps

recVars == <<rclock, sites, lastPrune, editing, members, listing, listed, marks, sigCalls, stamp, hidden, recHist>>
siteVars == <<sites, lastPrune, editing>>
listVars == <<listing, listed, members>>
sigVars == <<marks, sigCalls, stamp>>

NoHead == [chain |-> <<>>, bytes |-> 0, at |-> 0]
\* "-" stands for an empty string.
NoEdit == [prev |-> <<>>, body |-> "-"]

(***************************************************************************)
(* Sites                                                                   *)
(***************************************************************************)
HasHead(st, s) == st.heads[s] # NoHead
SiteExpired(st, s) == HasHead(st, s) /\ rclock > st.heads[s].at + SiteTtl
LiveHead(st, s) == HasHead(st, s) /\ ~SiteExpired(st, s)

DropEdits(st, s) == [st EXCEPT !.edits[s] = [q \in DOMAIN @ |-> NoEdit]]
DropHead(st, s) == [st EXCEPT !.heads[s] = NoHead]
Bytes(st) == [s \in Site |-> st.heads[s].bytes]
Monus(a, b) == IF a >= b THEN a - b ELSE 0
\* remove_site of each site in gone: the edits, the head, and the head's bytes off the total.
RemoveSites(st, gone) ==
    [edits |-> [s \in Site |-> IF s \in gone THEN DropEdits(st, s).edits[s] ELSE st.edits[s]],
     heads |-> [s \in Site |-> IF s \in gone THEN NoHead ELSE st.heads[s]],
     total |-> Monus(st.total, SumFunctionOnSet(Bytes(st), gone)),
     keyed |-> st.keyed \/ gone # {}]
\* prune_expired_locked
ExpiredSites(st) == {s \in Site : SiteExpired(st, s)}
PruneExpiredSites(st) == RemoveSites(st, ExpiredSites(st))

\* heads.len() counts the total's own key.
HeadsLen(st) == Cardinality({s \in Site : HasHead(st, s)}) + (IF st.keyed THEN 1 ELSE 0)
Over(st, e) ==
    \/ ~HasHead(st, e.site) /\ HeadsLen(st) >= MaxSites
    \/ st.total + BodySize[e.body] > SitesTotalCap

\* Mutant: only the sequence number is compared.
ExtendsByNumber(st, e) == e.seq = Len(st.heads[e.site].chain)
Extends(st, e) == e.seq = Len(st.heads[e.site].chain) /\ e.prev = st.heads[e.site].chain
SiteFull(st, e) == st.heads[e.site].bytes + BodySize[e.body] > SiteMaxBytes \/ e.seq >= SiteMaxEdits
Stale(e) == rclock > e.at + EditSkew

\* The three writes of append: the edit under its key, the head, the total.
InsertEdit(st, e) == [st EXCEPT !.edits[e.site][e.seq] = [prev |-> e.prev, body |-> e.body]]
InsertHead(st, e) ==
    [st EXCEPT !.heads[e.site] = [chain |-> Append(e.prev, e.body), bytes |-> @.bytes + BodySize[e.body], at |-> rclock]]
\* Mutant: the total is not kept.
CountNothing(st, e) == [st EXCEPT !.keyed = TRUE]
CountEdit(st, e) == [st EXCEPT !.total = @ + BodySize[e.body], !.keyed = TRUE]

\* post_site_edit up to the lock: the signature holds and the site is not hidden.
EditCheck(s, q, p, b) ==
    /\ s \notin hidden /\ Cardinality(editing) < MaxEditing
    /\ editing' = editing \cup {[site |-> s, seq |-> q, prev |-> p, body |-> b, at |-> rclock]}
    /\ editing' # editing
    /\ UNCHANGED <<rclock, sites, lastPrune, listVars, sigVars, hidden, recHist>>

\* append, under its lock.  What it removed on the way stays removed when it then refuses.
Started(e) == IF SiteExpired(sites, e.site) THEN RemoveSites(sites, {e.site}) ELSE sites
Admits(e) == ~Stale(e) /\ Extends(Started(e), e) /\ ~SiteFull(Started(e), e)
Prunes(e) == Admits(e) /\ Over(Started(e), e) /\ rclock > lastPrune + PruneGap
Ready(e) == IF Prunes(e) THEN PruneExpiredSites(Started(e)) ELSE Started(e)
EditAppend(e) ==
    /\ sites' = IF Stale(e) THEN sites
                ELSE IF Admits(e) /\ ~Over(Ready(e), e) THEN CountEdit(InsertHead(InsertEdit(Ready(e), e), e), e)
                ELSE Ready(e)
    /\ lastPrune' = IF Prunes(e) THEN rclock ELSE lastPrune
    /\ editing' = editing \ {e}
    /\ UNCHANGED <<rclock, listVars, sigVars, hidden, recHist>>

\* The process dies inside append: while an expired site is removed, or between the writes.
TornRemoval(st, s) == {DropEdits(st, s), DropHead(DropEdits(st, s), s)}
TornPrune(e) ==
    LET gone == {s \in ExpiredSites(Started(e)) : Prunes(e)}
    IN  UNION {UNION {TornRemoval(RemoveSites(Started(e), done), s) : s \in gone \ done} : done \in SUBSET gone}
TornAppend(e) ==
    IF Admits(e) /\ ~Over(Ready(e), e)
    THEN {InsertEdit(Ready(e), e), InsertHead(InsertEdit(Ready(e), e), e)} ELSE {}
EditCrash(e) ==
    /\ \/ SiteExpired(sites, e.site) /\ sites' \in TornRemoval(sites, e.site)
       \/ sites' \in TornPrune(e) \cup TornAppend(e)
    /\ ~Stale(e) /\ recHist.crashes < MaxRecCrashes
    /\ recHist' = [recHist EXCEPT !.crashes = @ + 1]
    /\ lastPrune' = 0 /\ editing' = {} /\ listing' = {} /\ sigCalls' = {}
    /\ UNCHANGED <<rclock, listed, members, marks, stamp, hidden>>

(***************************************************************************)
(* TetSearch                                                               *)
(***************************************************************************)
DayOf(t) == t \div ListDay
\* post_search_list: the members as read at the start, the clock as read at the start.
ListCheck(s, m) ==
    /\ LiveHead(sites, s) /\ m \in members
    /\ listing' = listing \cup {[site |-> s, member |-> m, at |-> rclock]}
    /\ listing' # listing
    /\ UNCHANGED <<rclock, siteVars, listed, members, sigVars, hidden, recHist>>
UsedToday(l) == listed.daily[l.member][DayOf(l.at)]
\* Mutant: the cap is compared after the count it is about to reach.
UnderCapPlus(l) == UsedToday(l) <= ListCap
UnderCap(l) == UsedToday(l) < ListCap
PutListing(l) == [listed EXCEPT !.book[l.site] = l.member]
CountListing(b, l) == [b EXCEPT !.daily[l.member][DayOf(l.at)] = @ + 1]
\* The rest of SearchStore::list, under its lock; a crash may fall between its two writes.
ListWrite(l, dies) ==
    /\ dies => UnderCap(l) /\ recHist.crashes < MaxRecCrashes
    /\ listed' = IF ~UnderCap(l) THEN listed ELSE IF dies THEN PutListing(l) ELSE CountListing(PutListing(l), l)
    /\ listing' = IF dies THEN {} ELSE listing \ {l}
    /\ recHist' = [recHist EXCEPT !.listings[l.member][DayOf(l.at)] = IF UnderCap(l) THEN @ + 1 ELSE @,
                                  !.crashes = IF dies THEN @ + 1 ELSE @]
    /\ IF dies THEN editing' = {} /\ sigCalls' = {} /\ lastPrune' = 0 ELSE UNCHANGED <<editing, sigCalls, lastPrune>>
    /\ UNCHANGED <<rclock, sites, members, marks, stamp, hidden>>
\* SearchStore::current
Current == {s \in Site : listed.book[s] \in members /\ LiveHead(sites, s)}
LeaveShelter(m) ==
    /\ m \in members
    /\ members' = members \ {m}
    /\ UNCHANGED <<rclock, siteVars, listing, listed, sigVars, hidden, recHist>>

(***************************************************************************)
(* Signature records                                                       *)
(***************************************************************************)
\* How many of a record's writes are done: the record, by_code, by_file, by_signer, by_time, total.
InFileIndex(r) == marks.written[r] >= 3
InSignerIndex(r) == marks.written[r] >= 4
SignerCount(w) == Cardinality({r \in Mark : InSignerIndex(r) /\ MarkSigner[r] = w})
MarksTotal == Cardinality({r \in Mark : marks.written[r] = 6})

\* post_sigs_publish: the record and its consent verify, the signer is not hidden.
SigCheck(r, anchor) ==
    /\ MarkSigner[r] \notin hidden /\ Cardinality(sigCalls) < MaxSigCalls
    /\ sigCalls' = sigCalls \cup {[mark |-> r, anchor |-> anchor, stage |-> "publish", height |-> 0]}
    /\ sigCalls' # sigCalls
    /\ UNCHANGED <<rclock, siteVars, listVars, marks, stamp, hidden, recHist>>

KnownMark(r) == marks.written[r] > 0
Fits(r) == SignerCount(MarkSigner[r]) < MarksPerSigner /\ MarksTotal + 1 <= MarksCap
Advance(c, stage, h) == (sigCalls \ {c}) \cup {[c EXCEPT !.stage = stage, !.height = h]}
\* publish, under its lock: already here, refused, or written.
SigPublish(c) ==
    /\ c.stage = "publish"
    /\ marks' = IF KnownMark(c.mark) \/ ~Fits(c.mark) THEN marks
                ELSE [marks EXCEPT !.written[c.mark] = 6, !.at[c.mark] = rclock]
    /\ sigCalls' = IF c.anchor /\ (KnownMark(c.mark) \/ Fits(c.mark)) THEN Advance(c, "read", 0) ELSE sigCalls \ {c}
    /\ UNCHANGED <<rclock, siteVars, listVars, stamp, hidden, recHist>>
\* The process dies after `k` of the six writes.
SigCrash(c, k) ==
    /\ c.stage = "publish" /\ ~KnownMark(c.mark) /\ Fits(c.mark) /\ recHist.crashes < MaxRecCrashes
    /\ marks' = [marks EXCEPT !.written[c.mark] = k, !.at[c.mark] = rclock]
    /\ recHist' = [recHist EXCEPT !.crashes = @ + 1]
    /\ lastPrune' = 0 /\ editing' = {} /\ listing' = {} /\ sigCalls' = {}
    /\ UNCHANGED <<rclock, sites, listed, members, stamp, hidden>>

\* tx_by_hash and check_anchor: the row is canonical, mined, and stamps this record.
AnchorRead(c) ==
    /\ c.stage = "read"
    /\ sigCalls' = IF stamp[c.mark] = 0 THEN sigCalls \ {c} ELSE Advance(c, "set", stamp[c.mark])
    /\ UNCHANGED <<rclock, siteVars, listVars, marks, stamp, hidden, recHist>>
\* Mutant: the last one wins.
LastAnchor(old, h) == h
EarliestAnchor(old, h) == IF old # 0 /\ old <= h THEN old ELSE h
\* set_anchor, under the lock.
SetAnchor(c) ==
    /\ c.stage = "set"
    /\ marks' = [marks EXCEPT !.anchor[c.mark] = EarliestAnchor(@, c.height)]
    /\ recHist' = [recHist EXCEPT !.anchors[c.mark] = @ \cup {c.height}]
    /\ sigCalls' = sigCalls \ {c}
    /\ UNCHANGED <<rclock, siteVars, listVars, stamp, hidden>>

\* search by file: the index in time order, the first SearchMax of it, the hidden left out after.
FileMarks(f) == {r \in Mark : InFileIndex(r) /\ MarkFile[r] = f}
Rank(r) == Cardinality({q \in FileMarks(MarkFile[r]) : marks.at[q] < marks.at[r]})
\* Mutant: newest first, as every other search.
NewestFirst(f) == {r \in FileMarks(f) : Cardinality({q \in FileMarks(f) : marks.at[q] > marks.at[r]}) < SearchMax}
SearchFile(f) == {r \in FileMarks(f) : Rank(r) < SearchMax}
ServedMarks(f) == {r \in SearchFile(f) : MarkSigner[r] \notin hidden}

\* The chain: a FileFee that stamps the record is mined, or a reorganisation takes it off.
Stamp(r, h) ==
    /\ recHist.stamps < MaxStamps
    /\ stamp' = [stamp EXCEPT ![r] = h] /\ stamp' # stamp
    /\ recHist' = [recHist EXCEPT !.stamps = @ + 1]
    /\ UNCHANGED <<rclock, siteVars, listVars, marks, sigCalls, hidden>>

(***************************************************************************)
(* The operator, time                                                      *)
(***************************************************************************)
Hide(w) ==
    /\ hidden' = hidden \cup {w} /\ hidden' # hidden
    /\ UNCHANGED <<rclock, siteVars, listVars, sigVars, recHist>>
Unhide(w) ==
    /\ w \in hidden /\ hidden' = hidden \ {w}
    /\ UNCHANGED <<rclock, siteVars, listVars, sigVars, recHist>>
RecTick ==
    /\ rclock < MaxRecTime
    /\ rclock' = rclock + 1
    /\ UNCHANGED <<siteVars, listVars, sigVars, hidden, recHist>>

RecInit ==
    /\ rclock = 1 /\ lastPrune = 0
    /\ sites = [edits |-> [s \in Site |-> [q \in 0..SiteMaxEdits - 1 |-> NoEdit]], heads |-> [s \in Site |-> NoHead],
                total |-> 0, keyed |-> FALSE]
    /\ editing = {} /\ listing = {} /\ sigCalls = {} /\ hidden = {} /\ members = Lister
    /\ listed = [book |-> [s \in Site |-> "-"], daily |-> [m \in Lister |-> [d \in 0..DayOf(MaxRecTime) |-> 0]]]
    /\ marks = [written |-> [r \in Mark |-> 0], at |-> [r \in Mark |-> 0], anchor |-> [r \in Mark |-> 0]]
    /\ stamp = [r \in Mark |-> 0]
    /\ recHist = [listings |-> [m \in Lister |-> [d \in 0..DayOf(MaxRecTime) |-> 0]],
                  anchors |-> [r \in Mark |-> {}], crashes |-> 0, stamps |-> 0]

SiteNext ==
    \/ \E s \in Site, b \in Body, q \in 0..SiteMaxEdits :
           \E p \in [1..q -> Body] : EditCheck(s, q, p, b)
    \/ \E e \in editing : EditAppend(e) \/ EditCrash(e)
ListNext ==
    \/ \E s \in Site, m \in Lister : ListCheck(s, m)
    \/ \E l \in listing : ListWrite(l, FALSE) \/ ListWrite(l, TRUE)
    \/ \E m \in Lister : LeaveShelter(m)
SigNext ==
    \/ \E r \in Mark, anchor \in BOOLEAN : SigCheck(r, anchor)
    \/ \E c \in sigCalls : SigPublish(c) \/ AnchorRead(c) \/ SetAnchor(c) \/ \E k \in 1..5 : SigCrash(c, k)
    \/ \E r \in Mark, h \in 0..MaxHeight : Stamp(r, h)
RecNext ==
    \/ SiteNext \/ ListNext \/ SigNext
    \/ \E w \in Hideable : Hide(w) \/ Unhide(w)
    \/ RecTick

RecSpec == RecInit /\ [][RecNext]_recVars

(***************************************************************************)
(* Properties                                                              *)
(***************************************************************************)
\* Types of the three stores, of their clocks and of the requests in between.
RecTypeOK ==
    /\ rclock \in 1..MaxRecTime /\ lastPrune \in 0..MaxRecTime
    /\ sites.total \in Nat /\ sites.keyed \in BOOLEAN
    /\ \A s \in Site : sites.heads[s].chain \in Seq(Body) /\ DOMAIN sites.edits[s] = 0..SiteMaxEdits - 1
    /\ members \subseteq Lister /\ hidden \subseteq Hideable
    /\ marks \in [written : [Mark -> 0..6], at : [Mark -> 0..MaxRecTime], anchor : [Mark -> 0..MaxHeight]]

\* The edits of a live site are there, from the first to the head, each naming the one before
\* it by its hash, whatever order edits arrive in and wherever the process dies (append).
SitesAreChains ==
    \A s \in Site : LiveHead(sites, s) =>
        LET chain == sites.heads[s].chain
        IN  \A i \in 1..Len(chain) : sites.edits[s][i - 1] = [prev |-> SubSeq(chain, 1, i - 1), body |-> chain[i]]

\* The byte total is the sum of what the heads say and within the cap, and a crash puts it out
\* by one site's bytes at most ("so ... the byte total can't drift", SiteStore::append_lock).
SiteTotalKept ==
    LET sum == SumFunctionOnSet(Bytes(sites), Site)
        slack == recHist.crashes * SiteMaxBytes
    IN  /\ sites.total <= sum + slack /\ sum <= sites.total + slack
        /\ sites.total <= SitesTotalCap

\* Requests in flight together, restarts and a member that left do not add up to more than a
\* day's listings; a crash costs one (SearchStore::list).
ListingsCapped ==
    \A m \in Lister : \A d \in DOMAIN recHist.listings[m] : recHist.listings[m][d] <= ListCap + recHist.crashes

\* A record keeps the earliest block it was ever anchored to, two publishers at once or not
\* ("nobody can move a record's place in the chain forward", set_anchor).
AnchorIsEarliest ==
    \A r \in Mark : marks.anchor[r] = (IF recHist.anchors[r] = {} THEN 0 ELSE Min(recHist.anchors[r]))

\* The first marking of a file is served, whatever is published after it ("later copies by
\* others can't push it out", search), and a signer's quota holds up to one record a crash.
FirstMarkingServed ==
    /\ \A r \in Mark : InFileIndex(r) /\ Rank(r) = 0 /\ MarkSigner[r] \notin hidden => r \in ServedMarks(MarkFile[r])
    /\ \A w \in Range(MarkSigner) :
           Cardinality({r \in Mark : KnownMark(r) /\ MarkSigner[r] = w}) <= MarksPerSigner + recHist.crashes

\* Sites, listings and markings keep what their stores promise of them.
RecordsSound ==
    RecTypeOK /\ SitesAreChains /\ SiteTotalKept /\ ListingsCapped /\ AnchorIsEarliest /\ FirstMarkingServed

\* What check_anchor is for ("in a canonical block"): it does not hold of the code, which keeps
\* the anchor of a block that was reorganised away and ignores a later one.
AnchorIsCanonical == \A r \in Mark : marks.anchor[r] # 0 /\ stamp[r] # 0 => marks.anchor[r] = stamp[r]
\* "publishing" makes a record findable: it does not hold of the code after a crash between the
\* record and its indexes, since publishing it again finds it already here.
StoredIsFound == \A r \in Mark : KnownMark(r) => marks.written[r] = 6
================================================================================
